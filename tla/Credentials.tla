----------------------------- MODULE Credentials -----------------------------
(***************************************************************************)
(* The credentials on disk and the commands that get them: snap-pair       *)
(* pairs with a Snapmaker U1 (cli.rs, moonraker/u1/pair.rs and auth.rs),    *)
(* bbl-login logs in to the Bambu cloud (cli.rs, bambu/auth.rs), both save  *)
(* with write_atomic (secret_file.rs), and serve reads what they saved.    *)
(*                                                                         *)
(* A printer has one configuration channel: every client that pairs with   *)
(* it hears every answer, and an answer does not say whose request it is   *)
(* of.  A crash may fall between any two steps.                            *)
(***************************************************************************)
EXTENDS Naturals, Sequences, SequencesExt

CONSTANTS
  None,     \* no value
  Torn,     \* a file that does not parse
  Pairers,  \* the snap-pair commands
  Logins,   \* the bbl-login commands
  Hosts,    \* the printers
  HostOf,   \* the printer each snap-pair is for
  MaxRuns   \* a bound on the times all commands are run

Commands == Pairers \cup Logins

\* A client identifier is the command's own, fresh one.
Tokens == [client : Pairers, cert : Pairers]

CredentialAssumption ==
  /\ Pairers \cap Logins = {} /\ {None, Torn} \cap (Commands \cup Hosts) = {}
  /\ Torn \notin {"absent", "fresh", "expired"} /\ Torn \notin [Hosts -> Tokens \cup {None}]
  /\ HostOf \in [Pairers -> Hosts]
  /\ MaxRuns \in Nat

VARIABLES
  pairings,  \* the snap-token file: a token for each host, or Torn
  account,   \* the cloud token file: absent, fresh, expired or torn
  place,     \* where each command is
  client,    \* the client identifier of each snap-pair
  asked,     \* it has asked for the authorization
  inbox,     \* what it has heard and not read
  content,   \* what a command is about to write
  temp,      \* the temporary file of each command
  requests,  \* what the printers have not handled: confirm or authorize, and for whom
  approved,  \* the client identifiers each printer knows
  service,   \* how the last serve started
  runs

printers == <<requests, approved>>
files == <<pairings, account>>
vars == <<files, place, client, asked, inbox, content, temp, printers, service, runs>>

Places == {"idle", "bootstrap", "listen", "upsert", "login", "code", "preference", "save",
           "done", "failed", "crashed"}

TypeOK ==
  /\ pairings \in [Hosts -> Tokens \cup {None}] \cup {Torn}
  /\ account \in {"absent", "fresh", "expired", Torn}
  /\ place \in [Commands -> Places]
  /\ client \in [Pairers -> Pairers \cup {None}]
  /\ asked \in [Pairers -> BOOLEAN]
  /\ temp \in [Commands -> {"none", "partial", "whole"}]
  /\ requests \in [Hosts -> SUBSET ({"confirm", "authorize"} \X Pairers)]
  /\ approved \in [Hosts -> SUBSET Pairers]
  /\ service \in {"none", "refused", "plain", "cloud"}
  /\ runs \in 0..MaxRuns

Init ==
  /\ pairings = [h \in Hosts |-> None] /\ account = "absent"
  /\ place = [c \in Commands |-> "idle"]
  /\ client = [c \in Pairers |-> None]
  /\ asked = [c \in Pairers |-> FALSE]
  /\ inbox = [c \in Pairers |-> <<>>]
  /\ content = [c \in Commands |-> None]
  /\ temp = [c \in Commands |-> "none"]
  /\ requests = [h \in Hosts |-> {}] /\ approved = [h \in Hosts |-> {}]
  /\ service = "none"
  /\ runs = 0

Goto(c, p) == place' = [place EXCEPT ![c] = p]

-----------------------------------------------------------------------------
(* snap-pair.                                                              *)

\* snap_pair_cmd: the identifier of an earlier pairing with the host is used again.
BeginPairing(c) ==
  /\ place[c] = "idle" /\ runs < MaxRuns
  /\ runs' = runs + 1
  /\ LET token == IF pairings = Torn THEN None ELSE pairings[HostOf[c]]
     IN client' = [client EXCEPT ![c] = IF token = None THEN c ELSE token.client]
  /\ Goto(c, IF pairings = Torn THEN "failed" ELSE "bootstrap")
  /\ asked' = [asked EXCEPT ![c] = FALSE] /\ inbox' = [inbox EXCEPT ![c] = <<>>]
  /\ UNCHANGED <<files, content, temp, printers, service>>

\* subscribe_bootstrap_topics and publish_confirm
Bootstrap(c) ==
  /\ place[c] = "bootstrap"
  /\ Goto(c, "listen")
  /\ requests' = [requests EXCEPT ![HostOf[c]] = @ \cup {<<"confirm", client[c]>>}]
  /\ UNCHANGED <<files, client, asked, inbox, content, temp, approved, service, runs>>

\* Everyone who listens to the printer hears it.
Tell(h, message) ==
  inbox' = [c \in Pairers |-> IF place[c] = "listen" /\ HostOf[c] = h
                                THEN Append(inbox[c], message) ELSE inbox[c]]

\* The printer answers on the response topic.
AnswerRequest(h) ==
  /\ \E request \in requests[h], accepts \in BOOLEAN :
       /\ request[1] = "confirm"
       /\ Tell(h, [kind |-> "response", ok |-> accepts, of |-> None])
       /\ requests' = [requests EXCEPT ![h] = @ \ {request}]
  /\ UNCHANGED <<files, place, client, asked, content, temp, approved, service, runs>>

\* It notifies of an authorization: at once for a client it knows, else after the popup.
Authorize(h) ==
  /\ \E request \in requests[h], approves \in BOOLEAN :
       /\ request[1] = "authorize"
       /\ approves \/ request[2] \notin approved[h]
       /\ Tell(h, [kind |-> "notification", ok |-> approves, of |-> request[2]])
       /\ approved' = [approved EXCEPT ![h] = IF approves THEN @ \cup {request[2]} ELSE @]
       /\ requests' = [requests EXCEPT ![h] = @ \ {request}]
  /\ UNCHANGED <<files, place, client, asked, content, temp, service, runs>>

\* publish_request_auth
RequestAuth(c) == requests' = [requests EXCEPT ![HostOf[c]] = @ \cup {<<"authorize", client[c]>>}]

\* run_bootstrap, a response: the first one that is no rejection drives the request.
HearResponse(c) ==
  /\ place[c] = "listen" /\ inbox[c] # <<>> /\ Head(inbox[c]).kind = "response"
  /\ inbox' = [inbox EXCEPT ![c] = Tail(@)]
  /\ IF Head(inbox[c]).ok
       THEN /\ asked' = [asked EXCEPT ![c] = TRUE]
            /\ IF asked[c] THEN UNCHANGED requests ELSE RequestAuth(c)
            /\ UNCHANGED place
       ELSE Goto(c, "failed") /\ UNCHANGED <<asked, requests>>
  /\ UNCHANGED <<files, client, content, temp, approved, service, runs>>

\* Mutated form: the notification may be about another client.
HearAnyNotification(c) ==
  /\ place[c] = "listen" /\ inbox[c] # <<>> /\ Head(inbox[c]).kind = "notification"
  /\ inbox' = [inbox EXCEPT ![c] = Tail(@)]
  /\ IF Head(inbox[c]).ok
       THEN /\ content' = [content EXCEPT ![c] = [client |-> client[c], cert |-> Head(inbox[c]).of]]
            /\ Goto(c, "upsert")
       ELSE Goto(c, "failed") /\ UNCHANGED content
  /\ UNCHANGED <<files, client, asked, temp, printers, service, runs>>

\* run_bootstrap, a notification: it has to be about this client, and an approval.  The
\* certificate in it is the printer's for that client.
HearNotification(c) ==
  /\ place[c] = "listen" /\ inbox[c] # <<>> /\ Head(inbox[c]).kind = "notification"
  /\ inbox' = [inbox EXCEPT ![c] = Tail(@)]
  /\ IF Head(inbox[c]).of = client[c] /\ Head(inbox[c]).ok
       THEN /\ content' = [content EXCEPT ![c] = [client |-> client[c], cert |-> Head(inbox[c]).of]]
            /\ Goto(c, "upsert")
       ELSE Goto(c, "failed") /\ UNCHANGED content
  /\ UNCHANGED <<files, client, asked, temp, printers, service, runs>>

\* pair gives up: no connection, or no approval in time.
PairingTimesOut(c) ==
  /\ place[c] = "listen"
  /\ Goto(c, "failed")
  /\ UNCHANGED <<files, client, asked, inbox, content, temp, printers, service, runs>>

\* upsert_snap_token: the file is read again, and the host's token put into it.
Upsert(c) ==
  /\ place[c] = "upsert"
  /\ IF pairings = Torn
       THEN Goto(c, "failed") /\ UNCHANGED content
       ELSE /\ content' = [content EXCEPT ![c] = [pairings EXCEPT ![HostOf[c]] = content[c]]]
            /\ Goto(c, "save")
  /\ UNCHANGED <<files, client, asked, inbox, temp, printers, service, runs>>

-----------------------------------------------------------------------------
(* bbl-login.                                                              *)

BeginLogin(c) ==
  /\ place[c] = "idle" /\ runs < MaxRuns
  /\ runs' = runs + 1
  /\ Goto(c, "login")
  /\ UNCHANGED <<files, client, asked, inbox, content, temp, printers, service>>

\* save_token, up to write_atomic: the account file says when the token expires.
SavedToken(p) == IF p = "save" THEN "fresh" ELSE None

\* bbl_login: the password may have to be followed by a code, once; without an access
\* token, or a user id for it, there is nothing to save.
CloudAnswers(c) ==
  /\ \/ place[c] = "login" /\ \E next \in {"code", "preference", "failed"} : Goto(c, next)
     \/ place[c] = "code" /\ \E next \in {"preference", "failed"} : Goto(c, next)
     \/ place[c] = "preference" /\ \E next \in {"save", "failed"} : Goto(c, next)
  /\ content' = [content EXCEPT ![c] = SavedToken(place'[c])]
  /\ UNCHANGED <<files, client, asked, inbox, temp, printers, service, runs>>

\* The time of the saved token passes.
Expire ==
  /\ account = "fresh"
  /\ account' = "expired"
  /\ UNCHANGED <<pairings, place, client, asked, inbox, content, temp, printers, service, runs>>

-----------------------------------------------------------------------------
(* write_atomic.                                                           *)

\* The temporary file is created, ...
\* Mutated form: the credential file itself is opened.
CreateInPlace(c) ==
  /\ place[c] = "save" /\ temp[c] = "none"
  /\ temp' = [temp EXCEPT ![c] = "partial"]
  /\ IF c \in Pairers THEN pairings' = Torn /\ UNCHANGED account
                      ELSE account' = Torn /\ UNCHANGED pairings
  /\ UNCHANGED <<place, client, asked, inbox, content, printers, service, runs>>

CreateTemp(c) ==
  /\ place[c] = "save" /\ temp[c] = "none"
  /\ temp' = [temp EXCEPT ![c] = "partial"]
  /\ UNCHANGED <<files, place, client, asked, inbox, content, printers, service, runs>>

\* ... written and synced, ...
WriteTemp(c) ==
  /\ place[c] = "save" /\ temp[c] = "partial"
  /\ temp' = [temp EXCEPT ![c] = "whole"]
  /\ UNCHANGED <<files, place, client, asked, inbox, content, printers, service, runs>>

\* ... and renamed.
Rename(c) ==
  /\ place[c] = "save" /\ temp[c] = "whole"
  /\ IF c \in Pairers THEN pairings' = content[c] /\ UNCHANGED account
                      ELSE account' = content[c] /\ UNCHANGED pairings
  /\ temp' = [temp EXCEPT ![c] = "none"]
  /\ content' = [content EXCEPT ![c] = None]
  /\ Goto(c, "done")
  /\ UNCHANGED <<client, asked, inbox, printers, service, runs>>

\* Any of these steps fails: the temporary file is removed.
SaveFails(c) ==
  /\ place[c] = "save"
  /\ Goto(c, "failed")
  /\ content' = [content EXCEPT ![c] = None]
  /\ temp' = [temp EXCEPT ![c] = "none"]
  /\ UNCHANGED <<files, client, asked, inbox, printers, service, runs>>

-----------------------------------------------------------------------------

\* The process is killed, or the machine.
Crash(c) ==
  /\ place[c] \in {"bootstrap", "listen", "upsert", "login", "code", "preference", "save"}
  /\ Goto(c, "crashed")
  /\ content' = [content EXCEPT ![c] = None]
  /\ UNCHANGED <<files, client, asked, inbox, temp, printers, service, runs>>

\* The user runs the command again; a temporary file has a name of its own, and one that
\* a crash left is not found again.
RunAgain(c) ==
  /\ place[c] \in {"done", "failed", "crashed"} /\ runs < MaxRuns
  /\ Goto(c, "idle")
  /\ temp' = [temp EXCEPT ![c] = "none"]
  /\ UNCHANGED <<files, client, asked, inbox, content, printers, service, runs>>

\* load_token and load_snap_tokens: a file that is there has to parse.
Loads == account # Torn /\ pairings # Torn

\* serve_cmd: optional_token_client and load_snap_token_catalog.  Without a token there
\* is no cloud; with one that is expired, or with a file that does not parse, no service.
Serve ==
  /\ service' =
       IF ~Loads \/ account = "expired" THEN "refused"
       ELSE IF account = "fresh" THEN "cloud" ELSE "plain"
  /\ UNCHANGED <<files, place, client, asked, inbox, content, temp, printers, runs>>

Next ==
  \/ \E c \in Pairers :
       \/ BeginPairing(c) \/ Bootstrap(c) \/ HearResponse(c) \/ HearNotification(c)
       \/ PairingTimesOut(c) \/ Upsert(c)
  \/ \E h \in Hosts : AnswerRequest(h) \/ Authorize(h)
  \/ \E c \in Logins : BeginLogin(c) \/ CloudAnswers(c)
  \/ \E c \in Commands :
       CreateTemp(c) \/ WriteTemp(c) \/ Rename(c) \/ SaveFails(c) \/ Crash(c) \/ RunAgain(c)
  \/ Expire \/ Serve

Spec == Init /\ [][Next]_vars

-----------------------------------------------------------------------------

\* Wherever a command crashes or fails, what the next command and the service read is a
\* whole file: the one before it, or the one after it (write_atomic).
FilesAreWhole == pairings # Torn /\ account # Torn

\* A saved pairing is good: its certificate was issued to its client identifier, which
\* the printer knows, though others pair with it at the same time on the same channel
\* (run_bootstrap).
PairingIsOurs ==
  pairings # Torn =>
    \A h \in Hosts : pairings[h] # None =>
      pairings[h].cert = pairings[h].client /\ pairings[h].client \in approved[h]

\* Only a crash leaves a temporary file with a credential in it (TempFileCleanup).
OnlyACrashLeavesTemp == \A c \in Commands : temp[c] # "none" => place[c] \in {"save", "crashed"}
=============================================================================
