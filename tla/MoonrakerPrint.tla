---------------------------- MODULE MoonrakerPrint ----------------------------
(***************************************************************************)
(* One Moonraker printer and the task that follows it                      *)
(* (moonraker/backend.rs, client.rs, report.rs, metadata.rs): a WebSocket   *)
(* session that merges status updates, the estimate of the time that is    *)
(* left, and the slicer's facts about the job, which come from the file    *)
(* API at their own time.                                                  *)
(*                                                                         *)
(* Prints are numbered in the order they start, and the number stands for  *)
(* the print's start time.  `run' in a status, an anchor or a report is    *)
(* the number of the print it was made of; the code does not have it.      *)
(***************************************************************************)
EXTENDS Integers, Sequences, SequencesExt

CONSTANTS
  None,        \* no value
  Files,       \* the files on the printer
  Parts,       \* progress is reported in Parts steps
  Minute,      \* the printer's clock steps in a minute
  MaxElapsed,  \* a bound on the time a print takes
  MaxPrints,   \* a bound on the prints
  MaxUnread,   \* a bound on the messages on their way
  MaxFailures  \* a bound on the sessions and fetches that fail

PrintAssumption ==
  /\ None \notin Files \cup Nat
  /\ {Parts, Minute, MaxElapsed, MaxPrints, MaxUnread} \subseteq Nat \ {0}
  /\ MaxFailures \in Nat

VARIABLES
  printer,  \* the printer's objects, as Moonraker would report them
  prints,   \* the file of each print that was started
  parsed,   \* the files whose metadata Moonraker has
  unread,   \* the updates on their way
  place,    \* where the device's task is
  delay,    \* the seconds it waits after its next failure
  status,   \* MoonrakerSession.status
  anchor,   \* EtaTracker.anchor
  job,      \* JobFacts
  live,     \* the device in the live store
  failures

world == <<printer, prints, parsed>>
session == <<status, anchor, job>>
vars == <<world, unread, place, delay, session, live, failures>>

Progress == 0..Parts
Objects == [file : Files \cup {None}, run : 0..MaxPrints, display : Progress \cup {None},
            sdcard : Progress, elapsed : 0..MaxElapsed]
Fields == {"file", "run", "display", "sdcard", "elapsed"}
NoPrint == [file |-> None, run |-> 0, display |-> None, sdcard |-> 0, elapsed |-> 0]

Anchor == [fraction : Progress, elapsed : 0..MaxElapsed, run : 0..MaxPrints]
NoAnchor == [fraction |-> 0, elapsed |-> 0, run |-> 0]

\* `metadata' is the file whose metadata there is, `start' the print_start_time in it, or 0
\* when it has none, and `tried' says that METADATA_RETRY has not passed since the last
\* attempt.
JobFacts == [file : Files \cup {None}, metadata : Files \cup {None}, start : 0..MaxPrints,
             tried : BOOLEAN]
NoJob == [file |-> None, metadata |-> None, start |-> 0, tried |-> FALSE]

\* `slicer' is the file whose metadata was applied: its print-time estimate and weight.
Report == [file : Files \cup {None}, run : 0..MaxPrints, slicer : Files \cup {None},
           start : 0..MaxPrints, fraction : Progress \cup {None}, elapsed : 0..MaxElapsed,
           remaining : Nat \cup {None}]
NoReport == [file |-> None, run |-> 0, slicer |-> None, start |-> 0, fraction |-> None,
             elapsed |-> 0, remaining |-> None]

TypeOK ==
  /\ printer \in Objects /\ status \in Objects
  /\ prints \in Seq(Files) /\ Len(prints) <= MaxPrints
  /\ parsed \subseteq Files
  /\ Len(unread) <= MaxUnread
  /\ place \in {"connect", "report", "fetch", "read", "backoff", "stopped"}
  /\ delay \in 2..30
  /\ anchor \in Anchor /\ job \in JobFacts
  /\ live \in [report : Report, connected : BOOLEAN]
  /\ failures \in 0..MaxFailures

Init ==
  /\ printer = NoPrint /\ prints = <<>> /\ parsed = {}
  /\ unread = <<>> /\ place = "connect" /\ delay = 2
  /\ status = NoPrint /\ anchor = NoAnchor /\ job = NoJob
  /\ live = [report |-> NoReport, connected |-> FALSE]
  /\ failures = 0

-----------------------------------------------------------------------------
(* The printer and Moonraker.                                              *)

Subscribed == place \in {"report", "fetch", "read"}

\* An update has the fields that changed, and goes to a session that has subscribed.
Notify ==
  /\ unread' = IF Subscribed
                 THEN Append(unread, [f \in {g \in Fields : printer'[g] # printer[g]} |->
                                        printer'[f]])
                 ELSE unread
  /\ Len(unread') <= MaxUnread
  /\ UNCHANGED <<place, delay, session, live, failures>>

\* A print begins with no progress, from either source.
StartPrint ==
  /\ Len(prints) < MaxPrints
  /\ \E file \in Files :
       /\ prints' = Append(prints, file)
       /\ printer' = [NoPrint EXCEPT !.file = file, !.run = Len(prints')]
  /\ UNCHANGED parsed
  /\ Notify

\* Time passes, and with it the position in the file, and the slicer's M73.
PrintOn ==
  /\ printer.file # None /\ printer.elapsed < MaxElapsed
  /\ \E sdcard \in {printer.sdcard, printer.sdcard + 1}, display \in Progress \cup {None} :
       /\ sdcard <= Parts
       /\ IF printer.display = None THEN display \in {None, sdcard}
                                    ELSE display \in {printer.display, sdcard}
       /\ printer' = [printer EXCEPT !.elapsed = @ + 1, !.sdcard = sdcard, !.display = display]
  /\ UNCHANGED <<prints, parsed>>
  /\ Notify

\* The file is taken off; Klipper keeps nothing of it.
ClearPrint ==
  /\ printer.file # None
  /\ printer' = NoPrint
  /\ UNCHANGED <<prints, parsed>>
  /\ Notify

\* Temperatures change all the time.
OtherUpdate == unread = <<>> /\ Subscribed /\ UNCHANGED world /\ Notify

\* Moonraker has read a file.
Parse ==
  /\ \E file \in Files \ parsed : parsed' = parsed \cup {file}
  /\ UNCHANGED <<printer, prints, unread, place, delay, session, live, failures>>

\* The print_start_time that a file's metadata may have: of its last print.
StartTime(file) == Max({0} \cup {n \in DOMAIN prints : prints[n] = file})

-----------------------------------------------------------------------------
(* Reports.                                                                *)

\* progress_fraction
Fraction(s) == IF s.display # None THEN s.display ELSE s.sdcard

\* EtaTracker::estimate.  There is no estimate without progress and elapsed time, and
\* the total is derived anew when the progress moves or the elapsed time shrinks.
\* Mutated forms: the anchor outlives the gap; the total is derived every time.
EstimateKeeping(s) ==
  IF Fraction(s) = 0 \/ s.elapsed = 0 THEN anchor
  ELSE IF anchor = NoAnchor \/ anchor.fraction # Fraction(s) \/ s.elapsed < anchor.elapsed
         THEN [fraction |-> Fraction(s), elapsed |-> s.elapsed, run |-> s.run]
         ELSE anchor
EstimateAnew(s) ==
  IF Fraction(s) = 0 \/ s.elapsed = 0 THEN NoAnchor
  ELSE [fraction |-> Fraction(s), elapsed |-> s.elapsed, run |-> s.run]

Estimate(s) ==
  IF Fraction(s) = 0 \/ s.elapsed = 0 THEN NoAnchor
  ELSE IF anchor = NoAnchor \/ anchor.fraction # Fraction(s) \/ s.elapsed < anchor.elapsed
         THEN [fraction |-> Fraction(s), elapsed |-> s.elapsed, run |-> s.run]
         ELSE anchor

\* What is left of the anchor's total, in whole minutes.
Remaining(a, elapsed) ==
  IF a = NoAnchor THEN None
  ELSE LET left == Max({a.elapsed * Parts - elapsed * a.fraction, 0})
           unit == a.fraction * Minute
       IN (2 * left + unit) \div (2 * unit)

\* to_live
ToLive(s, a) ==
  [file |-> s.file, run |-> s.run, slicer |-> None, start |-> 0, fraction |-> Fraction(s),
   elapsed |-> s.elapsed, remaining |-> Remaining(a, s.elapsed)]

\* apply_job_metadata: a fact that is not there leaves the report, which had none, as it is.
WithFacts(report, facts) ==
  [report EXCEPT !.slicer = facts.metadata, !.start = facts.start]

\* publish_report
Published(a, facts) ==
  [report |-> WithFacts(ToLive(status, a), facts), connected |-> TRUE]

\* JobFacts::for_current_job: the facts are of the report's file, or are forgotten.  A
\* report without a file leaves them alone.
\* Mutated form: the facts outlive the file.
JobForKeeping(file) ==
  IF file \in {None, job.file} THEN job ELSE [job EXCEPT !.file = file]

JobFor(file) ==
  IF file \in {None, job.file} THEN job ELSE [NoJob EXCEPT !.file = file]

-----------------------------------------------------------------------------
(* run_device and attempt_session.                                         *)

\* send_subscribe: the answer has every object; what came before it is skipped.
Subscribe == status' = printer /\ unread' = <<>>

\* MoonrakerSession::connect
Connect ==
  /\ place = "connect"
  /\ place' = "report"
  /\ Subscribe
  /\ anchor' = NoAnchor /\ job' = NoJob
  /\ UNCHANGED <<world, delay, live, failures>>

\* merge_status: field by field, what the update does not have stays.
Merged(s, update) == [f \in DOMAIN s |-> IF f \in DOMAIN update THEN update[f] ELSE s[f]]

\* next_status
ReadUpdate ==
  /\ place = "read" /\ unread # <<>>
  /\ status' = Merged(status, Head(unread))
  /\ unread' = Tail(unread)
  /\ place' = "report"
  /\ UNCHANGED <<world, delay, anchor, job, live, failures>>

\* publish, up to the fetch of the job's metadata, or to its end when none is due.
PublishReport ==
  /\ place = "report"
  /\ anchor' = Estimate(status)
  /\ LET facts == JobFor(status.file)
     IN IF status.file # None /\ facts.metadata = None /\ ~facts.tried
          THEN /\ place' = "fetch"
               /\ job' = [facts EXCEPT !.tried = TRUE]
               /\ UNCHANGED live
          ELSE /\ place' = "read"
               /\ job' = facts
               /\ live' = Published(anchor', IF status.file = None THEN NoJob ELSE facts)
  /\ UNCHANGED <<world, unread, delay, status, failures>>

\* metadata::fetch answers, with a print_start_time or without, has no metadata yet, or
\* fails; publish goes on.  Metadata that came is kept as it is and not fetched again.
FetchReturns ==
  /\ place = "fetch"
  /\ \/ /\ job.file \in parsed
        /\ \E start \in {0, StartTime(job.file)} :
             job' = [job EXCEPT !.metadata = job.file, !.start = start]
        /\ UNCHANGED failures
     \/ job.file \notin parsed /\ UNCHANGED <<job, failures>>
     \/ /\ failures < MaxFailures
        /\ failures' = failures + 1
        /\ UNCHANGED job
  /\ live' = Published(anchor, job')
  /\ place' = "read"
  /\ UNCHANGED <<world, unread, delay, status, anchor>>

\* METADATA_RETRY has passed.
\* Mutated form: there is one attempt per job.
RetryNever == FALSE /\ UNCHANGED vars

RetryDue ==
  /\ job.tried
  /\ job' = [job EXCEPT !.tried = FALSE]
  /\ UNCHANGED <<world, unread, place, delay, status, anchor, live, failures>>

\* The session ends.  After a close the task connects at once, after an error it waits.
EndSession ==
  /\ \E closed \in BOOLEAN :
       /\ IF closed THEN place = "read" ELSE place \in {"connect", "read"}
       /\ place' = IF closed THEN "connect" ELSE "backoff"
       /\ delay' = IF closed THEN 2 ELSE Min({delay + delay \div 2, 30})
  /\ failures < MaxFailures /\ failures' = failures + 1
  /\ unread' = <<>> /\ status' = NoPrint /\ anchor' = NoAnchor /\ job' = NoJob
  /\ live' = [live EXCEPT !.connected = FALSE]
  /\ UNCHANGED world

BackoffElapses ==
  /\ place = "backoff"
  /\ place' = "connect"
  /\ UNCHANGED <<world, unread, delay, session, live, failures>>

\* The shutdown is seen while the task connects, reads or waits, not while it fetches.
Stop ==
  /\ place \in {"connect", "read", "backoff"}
  /\ place' = "stopped"
  /\ UNCHANGED <<world, unread, delay, session, live, failures>>

PrinterActs == StartPrint \/ PrintOn \/ ClearPrint \/ OtherUpdate \/ Parse
TaskActs == Connect \/ ReadUpdate \/ PublishReport \/ FetchReturns \/ BackoffElapses
Next == PrinterActs \/ TaskActs \/ RetryDue \/ EndSession \/ Stop

\* The task is scheduled, the metadata client has a timeout, time passes, and there is
\* always a next update.
Fairness ==
  /\ WF_vars(TaskActs) /\ WF_vars(RetryDue) /\ WF_vars(OtherUpdate)
Spec == Init /\ [][Next]_vars /\ Fairness

-----------------------------------------------------------------------------

\* The slicer's facts that are shown are of the file that is shown, and the start time of
\* a print of it, though the file may change while its metadata is fetched
\* (JobFacts::for_current_job, publish).
FactsAreOfTheFile ==
  /\ live.report.slicer \in {None, live.report.file}
  /\ live.report.start # 0 =>
       /\ live.report.start \in DOMAIN prints
       /\ prints[live.report.start] = live.report.file

\* The estimate is made from the print it is shown with, never from an earlier one
\* that had come as far (EtaTracker::estimate).
EstimateIsOfThePrint ==
  place \in {"fetch", "read"} /\ anchor # NoAnchor => anchor.run = status.run

\* While a print's progress stands still the time that is left never grows, in one
\* session (EtaTracker: "held and the remainder counts down against it").
DoesNotGrow ==
  LET old == live.report
      new == live'.report
  IN /\ live.connected /\ live'.connected
     /\ new.run = old.run /\ new.fraction = old.fraction
     /\ old.remaining # None
     => new.remaining # None /\ new.remaining <= old.remaining
CountsDown == [][DoesNotGrow]_vars

\* The metadata may be parsed after the job began: a file that stays on the printer gets
\* the slicer's facts once they are there (METADATA_RETRY).  A start time that the
\* metadata does not have yet when it is fetched is not among them, and is not shown later.
Awaited(file) == file \in parsed /\ printer.file = file
Settled(file) == live.report.slicer = file \/ printer.file # file \/ place = "stopped"
LateMetadataIsShown == \A file \in Files : Awaited(file) ~> Settled(file)
=============================================================================
