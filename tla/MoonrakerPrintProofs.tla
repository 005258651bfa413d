------------------------ MODULE MoonrakerPrintProofs ------------------------
(***************************************************************************)
(* Proofs about MoonrakerPrint, for every set of files, any number of       *)
(* prints and any number of updates on their way.  The session sees every   *)
(* state of the printer, one after the other; so it sees the beginning of   *)
(* each print, where no time has elapsed and the tracker forgets its anchor.*)
(***************************************************************************)
EXTENDS MoonrakerPrint, WellFoundedInduction, SequenceTheorems, TLAPS

Value == Files \cup {None} \cup Nat
Update == UNION {[F -> Value] : F \in SUBSET Fields}

\* A print is numbered, and the printer has no values without one.
PrinterInv ==
  /\ printer.run <= Len(prints)
  /\ IF printer.file = None THEN printer = NoPrint ELSE printer.run > 0

\* In a print time does not run backwards, and before another one there is none.
Follows(s, t) == IF t.run = s.run THEN s.elapsed <= t.elapsed ELSE t.elapsed = 0

\* The updates on their way lead from what the session has to what the printer is, through
\* states that follow each other.
LeadsToPrinter(h) ==
  /\ h[0] = status /\ h[Len(unread)] = printer
  /\ \A i \in 1..Len(unread) : h[i] = Merged(h[i - 1], unread[i]) /\ Follows(h[i - 1], h[i])
SeenInv ==
  /\ unread \in Seq(Update)
  /\ Subscribed => \E h \in [0..Len(unread) -> Objects] : LeadsToPrinter(h)

\* Metadata is of its file, and a start time of a print of it; and what is fetched is about
\* the shown file.
StartOf(file, start) == start # 0 => start \in DOMAIN prints /\ prints[start] = file
FactsInv ==
  /\ StartOf(job.file, job.start) /\ job.metadata \in {None, job.file}
  /\ StartOf(live.report.file, live.report.start)
  /\ live.report.slicer \in {None, live.report.file}
  /\ place = "fetch" => job.file = status.file

\* The anchor is of the status's print, unless the status is the beginning of the next one.
AnchorInv ==
  anchor # NoAnchor =>
    /\ anchor.fraction > 0 /\ anchor.elapsed > 0
    /\ place \in {"fetch", "read"} =>
         anchor.run = status.run /\ anchor.fraction = Fraction(status)
         /\ anchor.elapsed <= status.elapsed
    /\ place = "report" => anchor.run = status.run \/ status.elapsed = 0

\* What is shown was made with the anchor; while facts are fetched, with it or an earlier one.
ShownInv ==
  LET shown == live.report
  IN live.connected =>
       /\ place \in {"report", "fetch", "read", "stopped"}
       /\ shown.remaining # None => shown.elapsed > 0
       /\ place \in {"report", "read"} =>
            /\ shown.remaining = Remaining(anchor, shown.elapsed)
            /\ anchor # NoAnchor =>
                 anchor.fraction = shown.fraction /\ anchor.elapsed <= shown.elapsed
       /\ place = "read" => shown.run = status.run /\ shown.elapsed = status.elapsed
       /\ place = "report" /\ shown.run = status.run => shown.elapsed <= status.elapsed
       /\ /\ place = "fetch" /\ shown.run = status.run /\ shown.fraction = Fraction(status)
          /\ shown.remaining # None
          => anchor # NoAnchor /\ Remaining(anchor, status.elapsed) <= shown.remaining

PrintInv ==
  /\ TypeOK /\ PrinterInv /\ SeenInv
  /\ FactsInv /\ AnchorInv /\ ShownInv

-----------------------------------------------------------------------------
(* Numbers.                                                                *)

\* Division by a positive number does not turn an order round.
LEMMA DivFacts ==
  ASSUME NEW x \in Nat, NEW y \in Nat, NEW d \in Nat \ {0}, x <= y
  PROVE  x \div d \in Nat /\ y \div d \in Nat /\ x \div d <= y \div d
<1> DEFINE p == x \div d
           q == y \div d
<1>1. p \in Int /\ q \in Int
  OBVIOUS
<1>2. x = d * p + (x % d) /\ y = d * q + (y % d)
  OBVIOUS
<1>3. x % d \in 0..(d - 1) /\ y % d \in 0..(d - 1)
  OBVIOUS
<1> HIDE DEF p, q
<1>4. p >= 0
  <2> SUFFICES ASSUME p <= -1 PROVE FALSE
    BY <1>1
  <2>1. d * p <= d * (-1)
    BY <1>1
  <2> QED
    BY <1>1, <1>2, <1>3, <2>1
<1>5. p <= q
  <2> SUFFICES ASSUME q + 1 <= p PROVE FALSE
    BY <1>1
  <2>1. d * (q + 1) <= d * p
    BY <1>1
  <2>2. d * (q + 1) = d * q + d
    BY <1>1
  <2> QED
    BY <1>1, <1>2, <1>3, <2>1, <2>2
<1> QED
  BY <1>1, <1>4, <1>5 DEF p, q

LEMMA MaxOfTwo ==
  ASSUME NEW x \in Int
  PROVE  Max({x, 0}) = IF x >= 0 THEN x ELSE 0
<1>1. \A y : (y \in {x, 0} /\ \A z \in {x, 0} : y >= z) <=> y = (IF x >= 0 THEN x ELSE 0)
  OBVIOUS
<1> QED
  BY <1>1 DEF Max

LEMMA MinOfTwo ==
  ASSUME NEW x \in Nat, NEW y \in Nat
  PROVE  Min({x, y}) = IF x <= y THEN x ELSE y
<1>1. \A w : (w \in {x, y} /\ \A z \in {x, y} : w <= z) <=> w = (IF x <= y THEN x ELSE y)
  OBVIOUS
<1> QED
  BY <1>1 DEF Min

Less == {p \in Nat \X Nat : p[1] < p[2]}
LEMMA LeastNat ==
  ASSUME NEW S, S \subseteq Nat, S # {}
  PROVE  \E m \in S : \A n \in S : m <= n
<1>1. IsWellFoundedOn(Less, Nat)
  BY NatLessThanWellFounded DEF OpToRel, Less
<1>2. PICK m \in S : \A n \in S : <<n, m>> \notin Less
  BY <1>1, WFMin
<1>3. ASSUME NEW n \in S PROVE m <= n
  <2>1. <<n, m>> \in Nat \X Nat /\ <<n, m>>[1] = n /\ <<n, m>>[2] = m
    OBVIOUS
  <2> QED
    BY <1>2, <2>1 DEF Less
<1> QED
  BY <1>3

\* A set of numbers with a bound has a greatest one: its least bound.
LEMMA MaxFacts ==
  ASSUME NEW S, S \subseteq Nat, S # {}, NEW k \in Nat, \A n \in S : n <= k
  PROVE  Max(S) \in S
<1> DEFINE Bounds == {n \in Nat : \A s \in S : s <= n}
<1>1. PICK m \in Bounds : \A n \in Bounds : m <= n
  BY LeastNat
<1>2. m \in S
  <2>1. CASE m = 0
    <3>1. PICK s \in S : TRUE
      OBVIOUS
    <3>2. s \in Nat /\ s <= m
      BY <1>1
    <3> QED
      BY <2>1, <3>1, <3>2
  <2>2. CASE m - 1 \in Nat
    <3>1. m - 1 \notin Bounds
      BY <1>1, <2>2
    <3> QED
      BY <1>1, <2>2, <3>1
  <2> QED
    BY <2>1, <2>2
<1> HIDE DEF Bounds
<1> QED
  BY <1>1, <1>2 DEF Max, Bounds

\* The metadata's start time is of a print of the file.
LEMMA StartTimeFacts ==
  ASSUME TypeOK, MaxPrints \in Nat, NEW file
  PROVE  StartTime(file) \in 0..MaxPrints /\ StartOf(file, StartTime(file))
<1> DEFINE S == {0} \cup {n \in DOMAIN prints : prints[n] = file}
<1>1. DOMAIN prints = 1..Len(prints) /\ Len(prints) \in Nat /\ Len(prints) <= MaxPrints
  BY DEF TypeOK
<1>2. S \subseteq Nat /\ S # {} /\ \A n \in S : n <= MaxPrints
  BY <1>1
<1>3. Max(S) \in S
  BY <1>2, MaxFacts
<1> QED
  BY <1>1, <1>3 DEF StartTime, StartOf

-----------------------------------------------------------------------------
(* The printer and the updates.                                            *)

LEMMA ObjectsAre ==
  ASSUME NEW s \in Objects
  PROVE  /\ DOMAIN s = Fields /\ s = [f \in Fields |-> s[f]]
         /\ \A f \in Fields : s[f] \in Value
BY DEF Objects, Fields, Value, Progress

\* An update with the fields that changed makes the one state from the other.
LEMMA Merging ==
  ASSUME printer \in Objects, printer' \in Objects
  PROVE  LET update == [f \in {g \in Fields : printer'[g] # printer[g]} |-> printer'[f]]
         IN update \in Update /\ Merged(printer, update) = printer'
<1> DEFINE F == {g \in Fields : printer'[g] # printer[g]}
           update == [f \in F |-> printer'[f]]
<1>1. DOMAIN printer = Fields /\ printer' = [f \in Fields |-> printer'[f]]
  BY ObjectsAre
<1>2. F \in SUBSET Fields /\ \A f \in F : printer'[f] \in Value
  BY ObjectsAre
<1>3. Merged(printer, update) = printer'
  BY <1>1 DEF Merged
<1> HIDE DEF F
<1>4. update \in [F -> Value]
  BY <1>2
<1>5. update \in Update
  BY <1>2, <1>4 DEF Update
<1> QED
  BY <1>3, <1>5 DEF F

LEMMA Constants ==
  ASSUME PrintAssumption
  PROVE  /\ Parts \in Nat \ {0} /\ Minute \in Nat \ {0} /\ MaxElapsed \in Nat \ {0}
         /\ MaxPrints \in Nat \ {0} /\ MaxUnread \in Nat \ {0} /\ MaxFailures \in Nat
         /\ None \notin Files /\ None \notin Nat
BY DEF PrintAssumption

LEMMA NoPrintIs ==
  ASSUME PrintAssumption
  PROVE  /\ NoPrint \in Objects /\ NoPrint.run = 0 /\ NoPrint.elapsed = 0
         /\ NoPrint.file = None
BY Constants DEF NoPrint, Objects, Progress

\* Each of the printer's steps is one of a print, or the beginning or the end of one.
LEMMA PrinterSteps ==
  ASSUME PrintAssumption, TypeOK, PrinterInv, StartPrint \/ PrintOn \/ ClearPrint \/ OtherUpdate
  PROVE  /\ printer' \in Objects /\ PrinterInv' /\ Follows(printer, printer') /\ Notify
         /\ prints' \in Seq(Files) /\ Len(prints') <= MaxPrints /\ parsed' = parsed
         /\ DOMAIN prints \subseteq DOMAIN prints' /\ \A n \in DOMAIN prints : prints'[n] = prints[n]
<1>1. /\ printer \in Objects /\ prints \in Seq(Files) /\ Len(prints) <= MaxPrints
      /\ printer.elapsed \in Nat /\ printer.run \in Nat /\ Len(prints) \in Nat
  BY Constants DEF TypeOK, Objects
<1>2. CASE StartPrint
  <2>1. PICK file \in Files :
          /\ prints' = Append(prints, file)
          /\ printer' = [NoPrint EXCEPT !.file = file, !.run = Len(prints')]
    BY <1>2 DEF StartPrint
  <2>2. /\ Len(prints') = Len(prints) + 1 /\ prints' \in Seq(Files)
        /\ DOMAIN prints = 1..Len(prints) /\ DOMAIN prints' = 1..(Len(prints) + 1)
        /\ \A n \in 1..Len(prints) : prints'[n] = prints[n]
    BY <1>1, <2>1
  <2>7. Len(prints) < MaxPrints /\ MaxPrints \in Nat /\ Parts \in Nat /\ MaxElapsed \in Nat
    BY <1>2, Constants DEF StartPrint
  <2>3. Len(prints') \in 1..MaxPrints
    BY <1>1, <2>2, <2>7
  <2>8. printer' = [file |-> file, run |-> Len(prints'), display |-> None, sdcard |-> 0,
                    elapsed |-> 0]
    BY <2>1 DEF NoPrint
  <2>4. /\ printer' \in Objects /\ printer'.file = file /\ printer'.run = Len(prints')
        /\ printer'.elapsed = 0
    BY <2>3, <2>7, <2>8 DEF Objects, Progress
  <2>5. PrinterInv'
    BY <2>3, <2>4, Constants DEF PrinterInv
  <2>6. Follows(printer, printer')
    BY <1>1, <2>2, <2>4 DEF PrinterInv, Follows
  <2> QED
    <3>1. Notify /\ parsed' = parsed
      BY <1>2 DEF StartPrint
    <3> QED
      BY <1>1, <2>2, <2>3, <2>4, <2>5, <2>6, <2>7, <3>1
<1>3. CASE PrintOn
  <2>1. PICK sdcard \in {printer.sdcard, printer.sdcard + 1}, display \in Progress \cup {None} :
          /\ sdcard <= Parts
          /\ printer' = [printer EXCEPT !.elapsed = @ + 1, !.sdcard = sdcard, !.display = display]
    BY <1>3 DEF PrintOn
  <2>2. printer.sdcard \in Progress /\ printer.elapsed \in 0..MaxElapsed
    BY <1>1 DEF Objects
  <2>6. printer.elapsed < MaxElapsed /\ MaxElapsed \in Nat /\ Parts \in Nat
    BY <1>3, Constants DEF PrintOn
  <2>3. sdcard \in Progress /\ printer.elapsed + 1 \in 0..MaxElapsed
    BY <2>1, <2>2, <2>6 DEF Progress
  <2>4. /\ printer' \in Objects /\ printer'.file = printer.file /\ printer'.run = printer.run
        /\ printer'.elapsed = printer.elapsed + 1
    BY <1>1, <2>1, <2>3 DEF Objects
  <2>5. UNCHANGED <<prints, parsed>> /\ Notify /\ printer.file # None
    BY <1>3 DEF PrintOn
  <2> QED
    BY <1>1, <2>4, <2>5 DEF PrinterInv, Follows
<1>4. CASE ClearPrint
  <2>1. printer' = NoPrint /\ UNCHANGED <<prints, parsed>> /\ Notify /\ printer.file # None
    BY <1>4 DEF ClearPrint
  <2> QED
    BY <1>1, <2>1, NoPrintIs DEF PrinterInv, Follows
<1>5. CASE OtherUpdate
  <2>1. UNCHANGED <<printer, prints, parsed>> /\ Notify
    BY <1>5 DEF OtherUpdate, world
  <2> QED
    BY <1>1, <2>1 DEF PrinterInv, Follows
<1> QED
  BY <1>2, <1>3, <1>4, <1>5

\* An update is sent to a session that has seen the printer's last state.
LEMMA NotifySeen ==
  ASSUME TypeOK, SeenInv, Notify, printer' \in Objects, Follows(printer, printer')
  PROVE  SeenInv'
<1> DEFINE update == [f \in {g \in Fields : printer'[g] # printer[g]} |-> printer'[f]]
<1>1. update \in Update /\ Merged(printer, update) = printer'
  BY Merging DEF TypeOK
<1>2. UNCHANGED <<place, status>> /\ (Subscribed' <=> Subscribed)
  BY DEF Notify, session, Subscribed
<1>3. unread' = IF Subscribed THEN Append(unread, update) ELSE unread
  BY DEF Notify
<1> HIDE DEF update
<1>4. PICK n \in Nat : unread \in Seq(Update) /\ n = Len(unread)
  BY DEF SeenInv
<1>5. CASE ~Subscribed
  BY <1>2, <1>3, <1>4, <1>5 DEF SeenInv
<1>6. CASE Subscribed
  <2>1. PICK h \in [0..n -> Objects] : LeadsToPrinter(h)
    BY <1>4, <1>6 DEF SeenInv
  <2>9. PICK last \in Objects : last = printer'
    OBVIOUS
  <2> DEFINE more == [i \in 0..(n + 1) |-> IF i = n + 1 THEN last ELSE h[i]]
  <2>2. /\ unread' \in Seq(Update) /\ Len(unread') = n + 1 /\ unread'[n + 1] = update
        /\ \A i \in 1..n : unread'[i] = unread[i]
    BY <1>1, <1>3, <1>4, <1>6
  <2>3. more \in [0..(n + 1) -> Objects]
    BY <1>4, <2>1
  <2>4. more[n + 1] = printer' /\ \A i \in 0..n : more[i] = h[i]
    BY <1>4, <2>9
  <2> HIDE DEF more
  <2>5. h[n] = printer
    BY <1>4, <2>1 DEF LeadsToPrinter
  <2>6. ASSUME NEW i \in 1..(n + 1)
        PROVE  more[i] = Merged(more[i - 1], unread'[i]) /\ Follows(more[i - 1], more[i])
    <3>1. CASE i = n + 1
      <4>1. i - 1 = n /\ more[i - 1] = printer
        BY <1>4, <2>4, <2>5, <3>1
      <4> QED
        BY <1>1, <2>2, <2>4, <3>1, <4>1
    <3>2. CASE i \in 1..n
      <4>1. i - 1 \in 0..n /\ i \in 0..n
        BY <1>4, <3>2
      <4>2. h[i] = Merged(h[i - 1], unread[i]) /\ Follows(h[i - 1], h[i])
        BY <1>4, <2>1, <3>2 DEF LeadsToPrinter
      <4> QED
        BY <2>2, <2>4, <3>2, <4>1, <4>2
    <3> QED
      BY <1>4, <3>1, <3>2
  <2>7. more[0] = status'
    BY <1>2, <1>4, <2>1, <2>4 DEF LeadsToPrinter
  <2>8. LeadsToPrinter(more)'
    BY <2>2, <2>4, <2>6, <2>7 DEF LeadsToPrinter
  <2> QED
    BY <2>2, <2>3, <2>8 DEF SeenInv
<1> QED
  BY <1>5, <1>6

\* What a session reads next is the printer's next state.
LEMMA ReadSeen ==
  ASSUME SeenInv, ReadUpdate
  PROVE  SeenInv' /\ status' \in Objects /\ Follows(status, status')
<1>1. PICK n \in Nat \ {0} : n = Len(unread)
  BY DEF SeenInv, ReadUpdate
<1>12. unread \in Seq(Update) /\ place = "read" /\ Subscribed
  BY DEF SeenInv, ReadUpdate, Subscribed
<1>2. PICK h \in [0..n -> Objects] : LeadsToPrinter(h)
  BY <1>1, <1>12 DEF SeenInv
<1> DEFINE rest == [i \in 0..(n - 1) |-> h[i + 1]]
<1>3. /\ unread' \in Seq(Update) /\ Len(unread') = n - 1 /\ Head(unread) = unread[1]
      /\ \A i \in 1..(n - 1) : unread'[i] = unread[i + 1]
  BY <1>1, <1>12 DEF ReadUpdate
<1>4. 1 \in 1..n /\ 1 - 1 = 0
  BY <1>1
<1>5. h[1] = Merged(h[0], unread[1]) /\ Follows(h[0], h[1]) /\ h[0] = status /\ h[n] = printer
  BY <1>1, <1>2, <1>4 DEF LeadsToPrinter
<1>6. status' = h[1] /\ h[1] \in Objects /\ printer' = printer
  BY <1>1, <1>2, <1>3, <1>4, <1>5 DEF ReadUpdate, world
<1>7. rest \in [0..(n - 1) -> Objects]
  BY <1>1, <1>2
<1>8. \A i \in 0..(n - 1) : rest[i] = h[i + 1]
  BY <1>1
<1> HIDE DEF rest
<1>9. ASSUME NEW i \in 1..(n - 1)
      PROVE  rest[i] = Merged(rest[i - 1], unread'[i]) /\ Follows(rest[i - 1], rest[i])
  <2>1. /\ i \in 0..(n - 1) /\ i - 1 \in 0..(n - 1) /\ i + 1 \in 1..n
        /\ (i - 1) + 1 = i /\ (i + 1) - 1 = i
    BY <1>1
  <2>2. h[i + 1] = Merged(h[i], unread[i + 1]) /\ Follows(h[i], h[i + 1])
    BY <1>1, <1>2, <2>1 DEF LeadsToPrinter
  <2> QED
    BY <1>3, <1>8, <2>1, <2>2
<1>10. rest[0] = status' /\ rest[n - 1] = printer'
  BY <1>1, <1>5, <1>6, <1>8
<1>11. LeadsToPrinter(rest)'
  BY <1>3, <1>9, <1>10 DEF LeadsToPrinter
<1> QED
  BY <1>3, <1>5, <1>6, <1>7, <1>11 DEF SeenInv

-----------------------------------------------------------------------------
(* Estimates.                                                              *)

LEMMA FractionIs ==
  ASSUME PrintAssumption, NEW s \in Objects
  PROVE  Fraction(s) \in Progress /\ Progress \subseteq Nat
BY Constants DEF Fraction, Objects, Progress

\* What is left of an anchor's total does not grow with the elapsed time.
LEMMA RemainingFacts ==
  ASSUME PrintAssumption, NEW a \in Anchor, a # NoAnchor, a.fraction > 0,
         NEW d \in Nat, NEW e \in Nat, d <= e
  PROVE  /\ Remaining(a, d) \in Nat /\ Remaining(a, e) \in Nat
         /\ Remaining(a, e) <= Remaining(a, d)
<1> DEFINE Left(x) == a.elapsed * Parts - x * a.fraction
           Up(x) == IF Left(x) >= 0 THEN Left(x) ELSE 0
           unit == a.fraction * Minute
<1>1. /\ a.fraction \in Nat \ {0} /\ a.elapsed \in Nat /\ Parts \in Nat /\ Minute \in Nat \ {0}
  BY Constants DEF Anchor, Progress
<1>2. unit \in Nat \ {0}
  BY <1>1
<1>3. d * a.fraction \in Nat /\ e * a.fraction \in Nat /\ d * a.fraction <= e * a.fraction
      /\ a.elapsed * Parts \in Nat
  BY <1>1
<1>4. Left(d) \in Int /\ Left(e) \in Int /\ Left(e) <= Left(d)
  BY <1>3
<1> HIDE DEF Left, unit
<1>5. Up(d) \in Nat /\ Up(e) \in Nat /\ Up(e) <= Up(d)
  BY <1>4
<1>6. Max({Left(d), 0}) = Up(d) /\ Max({Left(e), 0}) = Up(e)
  BY <1>4, MaxOfTwo
<1> HIDE DEF Up
<1>7. /\ Remaining(a, d) = (2 * Up(d) + unit) \div (2 * unit)
      /\ Remaining(a, e) = (2 * Up(e) + unit) \div (2 * unit)
  BY <1>6 DEF Remaining, Left, unit
<1>8. /\ 2 * Up(d) + unit \in Nat /\ 2 * Up(e) + unit \in Nat /\ 2 * unit \in Nat \ {0}
      /\ 2 * Up(e) + unit <= 2 * Up(d) + unit
  BY <1>2, <1>5
<1> QED
  BY <1>7, <1>8, DivFacts

\* The anchor after a status: none, the one before, or one of this status.
LEMMA EstimateFacts ==
  ASSUME PrintAssumption, TypeOK, AnchorInv, place = "report"
  PROVE  LET ours == Estimate(status)
         IN  /\ ours \in Anchor
             /\ ours # NoAnchor =>
                  /\ ours.fraction > 0 /\ ours.elapsed > 0 /\ ours.run = status.run
                  /\ ours.fraction = Fraction(status) /\ ours.elapsed <= status.elapsed
<1> DEFINE new == [fraction |-> Fraction(status), elapsed |-> status.elapsed, run |-> status.run]
<1>1. /\ status.elapsed \in 0..MaxElapsed /\ status.run \in 0..MaxPrints /\ anchor \in Anchor
      /\ status \in Objects /\ MaxElapsed \in Nat /\ MaxPrints \in Nat
  BY Constants DEF TypeOK, Objects
<1>2. Fraction(status) \in Progress /\ Progress \subseteq Nat
  BY <1>1, FractionIs
<1>3. new \in Anchor
  BY <1>1, <1>2 DEF Anchor
<1>4. NoAnchor \in Anchor
  BY Constants DEF NoAnchor, Anchor, Progress
<1>5. CASE Fraction(status) = 0 \/ status.elapsed = 0
  BY <1>4, <1>5 DEF Estimate
<1>6. CASE Fraction(status) > 0 /\ status.elapsed > 0
  <2>1. CASE anchor = NoAnchor \/ anchor.fraction # Fraction(status) \/ status.elapsed < anchor.elapsed
    <3>1. Estimate(status) = new
      BY <1>6, <2>1 DEF Estimate
    <3> QED
      BY <1>1, <1>3, <1>6, <3>1
  <2>2. CASE ~(anchor = NoAnchor \/ anchor.fraction # Fraction(status)
               \/ status.elapsed < anchor.elapsed)
    <3>1. Estimate(status) = anchor
      BY <1>6, <2>2 DEF Estimate
    <3>2. anchor.elapsed \in Nat /\ anchor.fraction \in Nat
      BY Constants DEF TypeOK, Anchor, Progress
    <3> QED
      BY <1>1, <1>6, <2>2, <3>1, <3>2 DEF AnchorInv
  <2> QED
    BY <2>1, <2>2
<1>7. status.elapsed \in Nat /\ Fraction(status) \in Nat
  <2>1. status.elapsed \in Nat
    BY Constants DEF TypeOK, Objects
  <2> QED
    BY <1>2, <2>1
<1> QED
  BY <1>5, <1>6, <1>7

LEMMA RemainingTypes ==
  ASSUME PrintAssumption, NEW a \in Anchor, a # NoAnchor => a.fraction > 0, NEW e \in Nat
  PROVE  Remaining(a, e) \in Nat \cup {None} /\ (Remaining(a, e) = None <=> a = NoAnchor)
<1>1. CASE a = NoAnchor
  BY <1>1 DEF Remaining
<1>2. CASE a # NoAnchor
  BY <1>2, RemainingFacts, Constants
<1> QED
  BY <1>1, <1>2

\* While the shown print stands still, the anchor is held, and there is no more time left.
LEMMA Held ==
  ASSUME PrintAssumption, TypeOK, AnchorInv, ShownInv, place = "report", live.connected,
         live.report.run = status.run, live.report.fraction = Fraction(status),
         live.report.remaining # None
  PROVE  LET ours == Estimate(status)
         IN  /\ ours # NoAnchor /\ Remaining(ours, status.elapsed) \in Nat
             /\ Remaining(ours, status.elapsed) <= live.report.remaining
<1> DEFINE shown == live.report
<1>1. /\ status.elapsed \in Nat /\ anchor \in Anchor /\ shown.elapsed \in Nat
      /\ anchor.fraction \in Nat /\ anchor.elapsed \in Nat
  BY Constants DEF TypeOK, Objects, Report, Anchor, Progress
<1>2. /\ shown.remaining = Remaining(anchor, shown.elapsed) /\ shown.elapsed <= status.elapsed
      /\ shown.elapsed > 0
  BY DEF ShownInv
<1>3. anchor # NoAnchor
  BY <1>2 DEF Remaining
<1>4. /\ anchor.fraction = Fraction(status) /\ anchor.elapsed <= shown.elapsed
      /\ anchor.fraction > 0
  BY <1>3 DEF ShownInv, AnchorInv
<1>5. Estimate(status) = anchor
  BY <1>1, <1>2, <1>3, <1>4 DEF Estimate
<1> QED
  BY <1>1, <1>2, <1>3, <1>4, <1>5, RemainingFacts

-----------------------------------------------------------------------------
(* Types.                                                                  *)

\* What is published is the status, with its facts.
LEMMA PublishedIs ==
  ASSUME PrintAssumption, TypeOK, NEW a \in Anchor, a # NoAnchor => a.fraction > 0,
         NEW facts \in JobFacts
  PROVE  LET report == Published(a, facts).report
         IN  /\ Published(a, facts) \in [report : Report, connected : BOOLEAN]
             /\ Published(a, facts).connected
             /\ report.file = status.file /\ report.run = status.run
             /\ report.slicer = facts.metadata /\ report.start = facts.start
             /\ report.fraction = Fraction(status) /\ report.elapsed = status.elapsed
             /\ report.remaining = Remaining(a, status.elapsed)
<1> DEFINE plain == ToLive(status, a)
<1>1. /\ status.elapsed \in 0..MaxElapsed /\ status.run \in 0..MaxPrints /\ status \in Objects
      /\ status.file \in Files \cup {None} /\ status.elapsed \in Nat /\ 0 \in 0..MaxPrints
  BY Constants DEF TypeOK, Objects
<1>2. Fraction(status) \in Progress /\ Remaining(a, status.elapsed) \in Nat \cup {None}
  BY <1>1, FractionIs, RemainingTypes
<1>3. /\ plain \in Report
      /\ plain.file = status.file /\ plain.run = status.run
      /\ plain.fraction = Fraction(status) /\ plain.elapsed = status.elapsed
      /\ plain.remaining = Remaining(a, status.elapsed)
  BY <1>1, <1>2 DEF ToLive, Report
<1> HIDE DEF plain
<1> DEFINE report == WithFacts(plain, facts)
<1>4. /\ report \in Report /\ report.slicer = facts.metadata /\ report.start = facts.start
      /\ report.file = plain.file /\ report.run = plain.run
      /\ report.fraction = plain.fraction /\ report.elapsed = plain.elapsed
      /\ report.remaining = plain.remaining
  BY <1>3 DEF WithFacts, Report, JobFacts
<1>5. Published(a, facts) = [report |-> report, connected |-> TRUE]
  BY DEF Published, plain
<1> HIDE DEF report
<1> QED
  BY <1>3, <1>4, <1>5

LEMMA NothingYet ==
  ASSUME PrintAssumption
  PROVE  /\ NoAnchor \in Anchor /\ NoJob \in JobFacts /\ NoReport \in Report
         /\ NoJob.metadata = None /\ NoReport.slicer = None /\ NoReport.remaining = None
         /\ NoJob.start = 0 /\ NoReport.start = 0 /\ NoReport.run = 0
BY Constants DEF NoAnchor, Anchor, NoJob, JobFacts, NoReport, Report, Progress

\* The facts of a report's file are those known, or none yet.
LEMMA JobForFacts ==
  ASSUME PrintAssumption, TypeOK, FactsInv
  PROVE  LET facts == JobFor(status.file)
         IN  /\ facts \in JobFacts /\ StartOf(facts.file, facts.start)
             /\ facts.metadata \in {None, facts.file}
             /\ status.file # None => facts.file = status.file
<1>1. /\ status.file \in Files \cup {None} /\ job \in JobFacts
      /\ job.file \in Files \cup {None}
  BY DEF TypeOK, Objects, JobFacts
<1>2. CASE status.file \in {None, job.file}
  BY <1>1, <1>2 DEF JobFor, FactsInv
<1>3. CASE status.file \notin {None, job.file}
  <2>1. JobFor(status.file) = [NoJob EXCEPT !.file = status.file]
    BY <1>3 DEF JobFor
  <2> QED
    BY <1>1, <2>1, NothingYet DEF JobFacts, StartOf
<1> QED
  BY <1>2, <1>3

-----------------------------------------------------------------------------
(* The steps.                                                              *)

\* Prints are only added, so what was of a print stays of it.
LEMMA PrinterKeeps ==
  ASSUME PrintAssumption, PrintInv, PrinterActs
  PROVE  PrintInv'
<1> USE DEF PrintInv
<1>1. CASE Parse
  <2>1. PICK file \in Files \ parsed : parsed' = parsed \cup {file}
    BY <1>1 DEF Parse
  <2>2. UNCHANGED <<printer, prints, unread, place, delay, status, anchor, job, live, failures>>
    BY <1>1 DEF Parse, session
  <2>3. TypeOK'
    BY <2>1, <2>2 DEF TypeOK
  <2> QED
    BY <2>2, <2>3 DEF PrinterInv, SeenInv, LeadsToPrinter, Subscribed, FactsInv, StartOf,
                      AnchorInv, ShownInv
<1>2. CASE StartPrint \/ PrintOn \/ ClearPrint \/ OtherUpdate
  <2>1. /\ printer' \in Objects /\ PrinterInv' /\ Follows(printer, printer') /\ Notify
        /\ prints' \in Seq(Files) /\ Len(prints') <= MaxPrints /\ parsed' = parsed
        /\ DOMAIN prints \subseteq DOMAIN prints' /\ \A n \in DOMAIN prints : prints'[n] = prints[n]
    BY <1>2, PrinterSteps
  <2>2. UNCHANGED <<place, delay, status, anchor, job, live, failures>> /\ Len(unread') <= MaxUnread
    BY <2>1 DEF Notify, session
  <2>3. TypeOK'
    BY <2>1, <2>2 DEF TypeOK
  <2>4. SeenInv'
    BY <2>1, NotifySeen
  <2>5. FactsInv'
    BY <2>1, <2>2 DEF FactsInv, StartOf
  <2> QED
    BY <2>1, <2>2, <2>3, <2>4, <2>5 DEF AnchorInv, ShownInv
<1> QED
  BY <1>1, <1>2 DEF PrinterActs

\* A session begins with the printer's state, and with no anchor and no facts.
LEMMA ConnectKeeps ==
  ASSUME PrintAssumption, PrintInv, Connect
  PROVE  PrintInv'
<1> USE DEF PrintInv
<1>1. /\ place = "connect" /\ place' = "report" /\ status' = printer /\ unread' = <<>>
      /\ anchor' = NoAnchor /\ job' = NoJob
      /\ UNCHANGED <<printer, prints, parsed, delay, live, failures>>
  BY DEF Connect, Subscribe, world
<1>2. TypeOK'
  BY <1>1, NothingYet, Constants DEF TypeOK
<1>3. SeenInv'
  <2>1. PICK s \in Objects : s = printer
    BY DEF TypeOK
  <2> DEFINE h == [i \in 0..0 |-> s]
  <2>2. h \in [0..0 -> Objects] /\ h[0] = s
    OBVIOUS
  <2> HIDE DEF h
  <2>3. unread' \in Seq(Update) /\ Len(unread') = 0 /\ 1..0 = {}
    BY <1>1, EmptySeq
  <2>4. LeadsToPrinter(h)'
    BY <1>1, <2>1, <2>2, <2>3 DEF LeadsToPrinter
  <2> QED
    BY <2>2, <2>3, <2>4 DEF SeenInv
<1>4. FactsInv' /\ AnchorInv'
  BY <1>1, NothingYet DEF FactsInv, AnchorInv, StartOf
<1>5. ShownInv'
  BY <1>1 DEF ShownInv
<1> QED
  BY <1>1, <1>2, <1>3, <1>4, <1>5 DEF PrinterInv

LEMMA ReadKeeps ==
  ASSUME PrintAssumption, PrintInv, ReadUpdate
  PROVE  PrintInv'
<1> USE DEF PrintInv
<1>1. /\ place = "read" /\ place' = "report"
      /\ UNCHANGED <<printer, prints, parsed, delay, anchor, job, live, failures>>
  BY DEF ReadUpdate, world
<1>2. SeenInv' /\ status' \in Objects /\ Follows(status, status')
  BY ReadSeen
<1>3. Len(unread') <= MaxUnread
  <2>1. unread \in Seq(Update) /\ unread # <<>> /\ unread' = Tail(unread) /\ Len(unread) <= MaxUnread
    BY DEF ReadUpdate, SeenInv, TypeOK
  <2> QED
    BY <2>1, Constants
<1>4. TypeOK'
  BY <1>1, <1>2, <1>3 DEF TypeOK
<1>5. FactsInv'
  BY <1>1 DEF FactsInv, StartOf
<1>6. AnchorInv'
  BY <1>1, <1>2 DEF AnchorInv, Follows
<1>7. ShownInv'
  BY <1>1, <1>2 DEF ShownInv, Follows
<1> QED
  BY <1>1, <1>2, <1>4, <1>5, <1>6, <1>7 DEF PrinterInv

LEMMA PublishKeeps ==
  ASSUME PrintAssumption, PrintInv, PublishReport
  PROVE  PrintInv' /\ DoesNotGrow
<1> USE DEF PrintInv
<1> DEFINE facts == JobFor(status.file)
<1>1. /\ place = "report" /\ anchor' = Estimate(status)
      /\ UNCHANGED <<printer, prints, parsed, unread, delay, status, failures>>
  BY DEF PublishReport, world
<1>2. /\ facts \in JobFacts /\ StartOf(facts.file, facts.start)
      /\ facts.metadata \in {None, facts.file}
      /\ status.file # None => facts.file = status.file
  BY JobForFacts
<1>3. /\ anchor' \in Anchor
      /\ anchor' # NoAnchor =>
           /\ anchor'.fraction > 0 /\ anchor'.elapsed > 0 /\ anchor'.run = status.run
           /\ anchor'.fraction = Fraction(status) /\ anchor'.elapsed <= status.elapsed
  BY <1>1, EstimateFacts
<1>4. ASSUME live.connected, live.report.run = status.run,
             live.report.fraction = Fraction(status), live.report.remaining # None
      PROVE  /\ anchor' # NoAnchor /\ Remaining(anchor', status.elapsed) \in Nat
             /\ Remaining(anchor', status.elapsed) <= live.report.remaining
  BY <1>1, <1>4, Held
<1>5. SeenInv' /\ place' \in {"fetch", "read"}
  BY <1>1 DEF SeenInv, LeadsToPrinter, Subscribed, PublishReport
<1>6. PrinterInv'
  BY <1>1 DEF PrinterInv
<1>7. Fraction(status)' = Fraction(status)
  BY <1>1 DEF Fraction
<1>8. AnchorInv'
  BY <1>1, <1>3, <1>5, <1>7 DEF AnchorInv
<1> HIDE DEF facts
<1>9. CASE status.file # None /\ facts.metadata = None /\ ~facts.tried
  <2>1. place' = "fetch" /\ job' = [facts EXCEPT !.tried = TRUE] /\ UNCHANGED live
    BY <1>9 DEF PublishReport, facts
  <2>2. /\ job' \in JobFacts /\ job'.file = facts.file /\ job'.start = facts.start
        /\ job'.metadata = facts.metadata
    BY <1>2, <2>1 DEF JobFacts
  <2>3. TypeOK'
    BY <1>1, <1>3, <2>1, <2>2 DEF TypeOK
  <2>4. FactsInv'
    BY <1>1, <1>2, <1>9, <2>1, <2>2 DEF FactsInv, StartOf
  <2>5. ShownInv'
    <3>1. live'.connected /\ live'.report.remaining # None => live'.report.elapsed > 0
      BY <2>1 DEF ShownInv
    <3>2. Remaining(anchor, status.elapsed)' = Remaining(anchor', status.elapsed)
      BY <1>1
    <3> QED
      BY <1>1, <1>4, <1>7, <2>1, <3>1, <3>2 DEF ShownInv
  <2>6. DoesNotGrow
    BY <2>1, Constants DEF DoesNotGrow, TypeOK, Report
  <2> QED
    BY <1>5, <1>6, <1>8, <2>3, <2>4, <2>5, <2>6
<1>10. CASE ~(status.file # None /\ facts.metadata = None /\ ~facts.tried)
  <2> DEFINE shown == IF status.file = None THEN NoJob ELSE facts
  <2>1. place' = "read" /\ job' = facts /\ live' = Published(anchor', shown)
    BY <1>10 DEF PublishReport, facts
  <2>2. /\ shown \in JobFacts /\ StartOf(status.file, shown.start)
        /\ shown.metadata \in {None, status.file}
    BY <1>2, NothingYet DEF StartOf
  <2> HIDE DEF shown
  <2>3. /\ live' \in [report : Report, connected : BOOLEAN] /\ live'.connected
        /\ live'.report.file = status.file /\ live'.report.run = status.run
        /\ live'.report.slicer = shown.metadata /\ live'.report.start = shown.start
        /\ live'.report.fraction = Fraction(status) /\ live'.report.elapsed = status.elapsed
        /\ live'.report.remaining = Remaining(anchor', status.elapsed)
    <3>1. PICK a \in Anchor : a = anchor'
      BY <1>3
    <3> QED
      BY <1>3, <2>1, <2>2, <3>1, PublishedIs
  <2>4. TypeOK'
    BY <1>1, <1>2, <1>3, <2>1, <2>3 DEF TypeOK
  <2>5. FactsInv'
    BY <1>1, <1>2, <2>1, <2>2, <2>3 DEF FactsInv, StartOf
  <2>6. ShownInv'
    <3>1. live'.report.remaining # None => live'.report.elapsed > 0
      <4>1. anchor'.elapsed \in Nat /\ status.elapsed \in Nat
        BY <1>3, Constants DEF Anchor, TypeOK, Objects
      <4>2. CASE anchor' = NoAnchor
        BY <2>3, <4>2 DEF Remaining
      <4>3. CASE anchor' # NoAnchor
        BY <1>3, <2>3, <4>1, <4>3
      <4> QED
        BY <4>2, <4>3
    <3>2. Remaining(anchor, live.report.elapsed)' = Remaining(anchor', status.elapsed)
      BY <2>3
    <3> QED
      BY <1>1, <1>3, <1>7, <2>1, <2>3, <3>1, <3>2 DEF ShownInv
  <2>7. DoesNotGrow
    BY <1>4, <2>3, Constants DEF DoesNotGrow
  <2> QED
    BY <1>5, <1>6, <1>8, <2>4, <2>5, <2>6, <2>7
<1> QED
  BY <1>9, <1>10

\* What comes back from the file API is put with the file it was asked for, whichever file
\* the printer has by now.
LEMMA FetchKeeps ==
  ASSUME PrintAssumption, PrintInv, FetchReturns
  PROVE  PrintInv' /\ DoesNotGrow
<1> USE DEF PrintInv
<1>1. /\ place = "fetch" /\ place' = "read" /\ live' = Published(anchor, job')
      /\ UNCHANGED <<printer, prints, parsed, unread, delay, status, anchor>>
  BY DEF FetchReturns, world
<1>2. /\ job' \in JobFacts /\ job'.file = job.file /\ StartOf(job'.file, job'.start)
      /\ job'.metadata \in {None, job'.file}
      /\ failures' \in 0..MaxFailures
  <2>1. CASE UNCHANGED job /\ failures' \in 0..MaxFailures
    BY <2>1 DEF TypeOK, FactsInv
  <2>2. CASE /\ job.file \in parsed
             /\ \E start \in {0, StartTime(job.file)} :
                  job' = [job EXCEPT !.metadata = job.file, !.start = start]
             /\ UNCHANGED failures
    <3>1. PICK start \in {0, StartTime(job.file)} :
            job' = [job EXCEPT !.metadata = job.file, !.start = start]
      BY <2>2
    <3>2. start \in 0..MaxPrints /\ StartOf(job.file, start)
      BY StartTimeFacts, Constants DEF StartOf
    <3>3. job \in JobFacts /\ job.file \in Files \cup {None}
      BY DEF TypeOK, JobFacts
    <3> QED
      BY <2>2, <3>1, <3>2, <3>3 DEF JobFacts, TypeOK
  <2>3. failures \in 0..MaxFailures /\ (failures < MaxFailures => failures + 1 \in 0..MaxFailures)
    BY Constants DEF TypeOK
  <2> QED
    BY <2>1, <2>2, <2>3 DEF FetchReturns
<1>3. /\ anchor \in Anchor
      /\ anchor # NoAnchor =>
           /\ anchor.fraction > 0 /\ anchor.elapsed > 0 /\ anchor.run = status.run
           /\ anchor.fraction = Fraction(status) /\ anchor.elapsed <= status.elapsed
  BY <1>1 DEF TypeOK, AnchorInv
<1>4. /\ live' \in [report : Report, connected : BOOLEAN] /\ live'.connected
      /\ live'.report.file = status.file /\ live'.report.run = status.run
      /\ live'.report.slicer = job'.metadata /\ live'.report.start = job'.start
      /\ live'.report.fraction = Fraction(status) /\ live'.report.elapsed = status.elapsed
      /\ live'.report.remaining = Remaining(anchor, status.elapsed)
  <2>1. PICK facts \in JobFacts : facts = job'
    BY <1>2
  <2> QED
    BY <1>1, <1>3, <2>1, PublishedIs
<1>5. TypeOK'
  BY <1>1, <1>2, <1>4 DEF TypeOK
<1>6. SeenInv' /\ PrinterInv'
  BY <1>1 DEF SeenInv, LeadsToPrinter, Subscribed, PrinterInv
<1>7. FactsInv'
  BY <1>1, <1>2, <1>4 DEF FactsInv, StartOf
<1>8. Fraction(status)' = Fraction(status)
  BY <1>1 DEF Fraction
<1>9. AnchorInv'
  BY <1>1, <1>3, <1>8 DEF AnchorInv
<1>10. live'.report.remaining # None => live'.report.elapsed > 0
  <2>1. anchor.elapsed \in Nat /\ status.elapsed \in Nat
    BY Constants DEF Anchor, TypeOK, Objects
  <2>2. CASE anchor = NoAnchor
    BY <1>4, <2>2 DEF Remaining
  <2>3. CASE anchor # NoAnchor
    BY <1>3, <1>4, <2>1, <2>3
  <2> QED
    BY <2>2, <2>3
<1>11. ShownInv'
  <2>1. Remaining(anchor, live.report.elapsed)' = Remaining(anchor, status.elapsed)
    BY <1>1, <1>4
  <2> QED
    BY <1>1, <1>3, <1>4, <1>8, <1>10, <2>1 DEF ShownInv
<1>12. DoesNotGrow
  <2>1. anchor # NoAnchor => Remaining(anchor, status.elapsed) # None
    BY <1>3, RemainingTypes, Constants DEF TypeOK, Objects
  <2> QED
    BY <1>1, <1>4, <2>1 DEF ShownInv, DoesNotGrow
<1> QED
  BY <1>5, <1>6, <1>7, <1>9, <1>11, <1>12

\* The end of a session, and the steps that only move the task.
LEMMA OthersKeep ==
  ASSUME PrintAssumption, PrintInv, RetryDue \/ EndSession \/ BackoffElapses \/ Stop \/ UNCHANGED vars
  PROVE  PrintInv' /\ (live' = live \/ ~live'.connected)
<1> USE DEF PrintInv
<1>1. CASE RetryDue
  <2>1. /\ job' = [job EXCEPT !.tried = FALSE]
        /\ UNCHANGED <<printer, prints, parsed, unread, place, delay, status, anchor, live, failures>>
    BY <1>1 DEF RetryDue, world
  <2>2. /\ job' \in JobFacts /\ job'.file = job.file /\ job'.start = job.start
        /\ job'.metadata = job.metadata
    BY <2>1 DEF JobFacts, TypeOK
  <2> QED
    BY <2>1, <2>2 DEF TypeOK, PrinterInv, SeenInv, LeadsToPrinter, Subscribed, FactsInv, StartOf,
                      AnchorInv, ShownInv
<1>2. CASE EndSession
  <2>1. /\ unread' = <<>> /\ status' = NoPrint /\ anchor' = NoAnchor /\ job' = NoJob
        /\ live' = [live EXCEPT !.connected = FALSE]
        /\ failures' = failures + 1 /\ failures < MaxFailures
        /\ place' \in {"connect", "backoff"} /\ delay' \in {2, Min({delay + delay \div 2, 30})}
        /\ UNCHANGED <<printer, prints, parsed>>
    BY <1>2 DEF EndSession, world
  <2>2. live' \in [report : Report, connected : BOOLEAN] /\ ~live'.connected
        /\ live'.report = live.report
    BY <2>1 DEF TypeOK
  <2>3. delay' \in 2..30
    <3>1. delay \in 2..30 /\ delay \div 2 \in Nat /\ 30 \in Nat
      BY DEF TypeOK
    <3>2. delay + delay \div 2 \in Nat /\ delay + delay \div 2 >= 2
      BY <3>1
    <3>3. Min({delay + delay \div 2, 30}) \in 2..30
      BY <3>2, MinOfTwo
    <3> QED
      BY <2>1, <3>3
  <2>4. failures' \in 0..MaxFailures /\ Len(unread') <= MaxUnread /\ unread' \in Seq(Update)
    BY <2>1, Constants, EmptySeq DEF TypeOK
  <2>5. TypeOK'
    BY <2>1, <2>2, <2>3, <2>4, NothingYet, NoPrintIs DEF TypeOK
  <2>6. SeenInv' /\ PrinterInv'
    BY <2>1, <2>4 DEF SeenInv, Subscribed, PrinterInv
  <2>7. FactsInv' /\ AnchorInv' /\ ShownInv'
    BY <2>1, <2>2, NothingYet DEF FactsInv, StartOf, AnchorInv, ShownInv
  <2> QED
    BY <2>2, <2>5, <2>6, <2>7
<1>3. CASE BackoffElapses \/ Stop
  <2>1. /\ place' \in {"connect", "stopped"}
        /\ place' = "connect" => place = "backoff"
        /\ UNCHANGED <<printer, prints, parsed, unread, delay, status, anchor, job, live, failures>>
    BY <1>3 DEF BackoffElapses, Stop, world, session
  <2> QED
    BY <2>1 DEF TypeOK, PrinterInv, SeenInv, Subscribed, FactsInv, StartOf, AnchorInv, ShownInv
<1>4. CASE UNCHANGED vars
  <2>1. UNCHANGED <<printer, prints, parsed, unread, place, delay, status, anchor, job, live,
                    failures>>
    BY <1>4 DEF vars, world, session
  <2>2. TypeOK' /\ PrinterInv'
    BY <2>1 DEF TypeOK, PrinterInv
  <2>3. SeenInv'
    BY <2>1 DEF SeenInv, LeadsToPrinter, Subscribed
  <2>4. FactsInv' /\ AnchorInv' /\ ShownInv'
    BY <2>1 DEF FactsInv, StartOf, AnchorInv, ShownInv
  <2> QED
    BY <2>1, <2>2, <2>3, <2>4
<1> QED
  BY <1>1, <1>2, <1>3, <1>4

LEMMA PrintStep ==
  ASSUME PrintAssumption, PrintInv, [Next]_vars
  PROVE  PrintInv' /\ DoesNotGrow
<1>1. CASE live' = live \/ ~live'.connected
  <2>1. live.report.remaining # None => live.report.remaining \in Nat
    BY DEF PrintInv, TypeOK, Report
  <2> QED
    BY <1>1, <2>1, PrinterKeeps, ConnectKeeps, ReadKeeps, PublishKeeps, FetchKeeps, OthersKeep
       DEF Next, TaskActs, DoesNotGrow
<1>2. CASE ~(live' = live \/ ~live'.connected)
  <2>1. PublishReport \/ FetchReturns
    BY <1>2, OthersKeep DEF Next, TaskActs, PrinterActs, StartPrint, PrintOn, ClearPrint,
                            OtherUpdate, Notify, Parse, Connect, ReadUpdate
  <2> QED
    BY <2>1, PublishKeeps, FetchKeeps
<1> QED
  BY <1>1, <1>2

LEMMA PrintInit ==
  ASSUME PrintAssumption, Init
  PROVE  PrintInv
<1>1. /\ printer = NoPrint /\ prints = <<>> /\ parsed = {} /\ unread = <<>> /\ place = "connect"
      /\ delay = 2 /\ status = NoPrint /\ anchor = NoAnchor /\ job = NoJob
      /\ live = [report |-> NoReport, connected |-> FALSE] /\ failures = 0
  BY DEF Init
<1>2. /\ prints \in Seq(Files) /\ unread \in Seq(Update) /\ Len(prints) = 0 /\ Len(unread) = 0
  BY <1>1, EmptySeq
<1>3. TypeOK
  BY <1>1, <1>2, NoPrintIs, NothingYet, Constants DEF TypeOK
<1>4. SeenInv /\ PrinterInv
  BY <1>1, <1>2, NoPrintIs DEF SeenInv, Subscribed, PrinterInv
<1>5. FactsInv /\ AnchorInv /\ ShownInv
  BY <1>1, NothingYet DEF FactsInv, StartOf, AnchorInv, ShownInv
<1> QED
  BY <1>3, <1>4, <1>5 DEF PrintInv

\* The strengthening says more than the properties.
LEMMA PrintFacts ==
  ASSUME PrintInv
  PROVE  TypeOK /\ FactsAreOfTheFile /\ EstimateIsOfThePrint
BY DEF PrintInv, FactsInv, StartOf, AnchorInv, FactsAreOfTheFile, EstimateIsOfThePrint

LEMMA PrintInvariant ==
  ASSUME PrintAssumption
  PROVE  Spec => []PrintInv
<1>1. Init => PrintInv
  BY PrintInit
<1>2. PrintInv /\ [Next]_vars => PrintInv'
  BY PrintStep
<1> QED
  BY <1>1, <1>2, PTL DEF Spec

\* The types of the session, its anchor and what it shows, for every printer.
THEOREM PrintTypeCorrect ==
  ASSUME PrintAssumption
  PROVE  Spec => []TypeOK
<1>1. PrintInv => TypeOK
  BY PrintFacts
<1> QED
  BY <1>1, PrintInvariant, PTL

\* The slicer's facts that are shown are of the shown file, and the start time of a print of
\* it, however often the file changes while its metadata is fetched
\* (JobFacts::for_current_job, publish).
THEOREM FactsBelongToTheFile ==
  ASSUME PrintAssumption
  PROVE  Spec => []FactsAreOfTheFile
<1>1. PrintInv => FactsAreOfTheFile
  BY PrintFacts
<1> QED
  BY <1>1, PrintInvariant, PTL

\* The estimate is of the print it is shown with: the session sees the beginning of every
\* print, with no time elapsed, and there forgets the anchor (EtaTracker::estimate).
THEOREM EstimatesAreOfThePrint ==
  ASSUME PrintAssumption
  PROVE  Spec => []EstimateIsOfThePrint
<1>1. PrintInv => EstimateIsOfThePrint
  BY PrintFacts
<1> QED
  BY <1>1, PrintInvariant, PTL

\* While a print's progress stands still the time that is left does not grow, in whole
\* minutes and rounded as the code rounds them (EtaTracker::estimate).
THEOREM TheRemainderCountsDown ==
  ASSUME PrintAssumption
  PROVE  Spec => CountsDown
<1>1. PrintInv /\ [Next]_vars => [DoesNotGrow]_vars
  BY PrintStep
<1> QED
  BY <1>1, PrintInvariant, PTL DEF Spec, CountsDown
=============================================================================
