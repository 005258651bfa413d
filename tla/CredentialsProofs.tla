-------------------------- MODULE CredentialsProofs --------------------------
(***************************************************************************)
(* Proofs about Credentials, for any number of commands, printers and      *)
(* runs.  That a saved pairing is good is inductive only with what leads    *)
(* to it: an approval that a command has heard and not read is of a client  *)
(* identifier the printer knows, and so is the token that it is about to    *)
(* write; and the printer forgets none.                                    *)
(***************************************************************************)
EXTENDS Credentials, TLAPS

Messages == [kind : {"response", "notification"}, ok : BOOLEAN, of : Pairers \cup {None}]
Catalogs == [Hosts -> Tokens \cup {None}]

\* A token whose certificate is its client's, which the printer knows.
IsGood(h, token) == token.cert = token.client /\ token.client \in approved[h]
AllGood(catalog) == \A h \in Hosts : catalog[h] # None => IsGood(h, catalog[h])

\* What each command that goes on has in hand.
HasClient(c) == place[c] \in {"bootstrap", "listen", "upsert"} => client[c] \in Pairers
HasHeard(c) ==
  /\ inbox[c] \in Seq(Messages)
  /\ \A i \in DOMAIN inbox[c] :
       inbox[c][i].kind = "notification" /\ inbox[c][i].ok => inbox[c][i].of \in approved[HostOf[c]]
HasToken(c) == place[c] = "upsert" => content[c] \in Tokens /\ IsGood(HostOf[c], content[c])
HasCatalog(c) == place[c] = "save" => content[c] \in Catalogs /\ AllGood(content[c])

PairInv ==
  \A c \in Pairers : HasClient(c) /\ HasHeard(c) /\ HasToken(c) /\ HasCatalog(c)
LoginInv == \A c \in Logins : place[c] = "save" => content[c] = "fresh"
FileInv ==
  /\ pairings \in Catalogs /\ AllGood(pairings)
  /\ account \in {"absent", "fresh", "expired"}
Functions == DOMAIN inbox = Pairers /\ DOMAIN content = Commands

CredentialInv == TypeOK /\ Functions /\ FileInv /\ PairInv /\ LoginInv /\ OnlyACrashLeavesTemp

-----------------------------------------------------------------------------
(* A step by the actions it is of.                                         *)

PairNext(c) ==
  \/ BeginPairing(c) \/ Bootstrap(c) \/ HearResponse(c) \/ HearNotification(c)
  \/ PairingTimesOut(c) \/ Upsert(c)
LoginNext(c) == BeginLogin(c) \/ CloudAnswers(c)
SaveNext(c) ==
  CreateTemp(c) \/ WriteTemp(c) \/ Rename(c) \/ SaveFails(c) \/ Crash(c) \/ RunAgain(c)

-----------------------------------------------------------------------------
(* What is good stays good.                                                *)

LEMMA ApprovalsStay ==
  ASSUME TypeOK, Functions, [Next]_vars
  PROVE  \A h \in Hosts : approved[h] \subseteq approved'[h]
<1> USE DEF files, printers, TypeOK
<1>1. CASE UNCHANGED approved
  BY <1>1
<1>2. ASSUME NEW h \in Hosts, Authorize(h) PROVE \A g \in Hosts : approved[g] \subseteq approved'[g]
  BY <1>2 DEF Authorize
<1>3. ASSUME NEW h \in Hosts, AnswerRequest(h) PROVE UNCHANGED approved
  BY <1>3 DEF AnswerRequest
<1>4. ASSUME NEW c \in Pairers, PairNext(c) PROVE UNCHANGED approved
  BY <1>4 DEF PairNext, BeginPairing, Bootstrap, HearResponse, HearNotification, PairingTimesOut,
              Upsert
<1>5. ASSUME NEW c \in Logins, LoginNext(c) PROVE UNCHANGED approved
  BY <1>5 DEF LoginNext, BeginLogin, CloudAnswers
<1>6. ASSUME NEW c \in Commands, SaveNext(c) PROVE UNCHANGED approved
  BY <1>6 DEF SaveNext, CreateTemp, WriteTemp, Rename, SaveFails, Crash, RunAgain
<1>7. CASE Expire \/ Serve \/ UNCHANGED vars
  BY <1>7, <1>1 DEF Expire, Serve, vars
<1> QED
  BY <1>1, <1>2, <1>3, <1>4, <1>5, <1>6, <1>7 DEF Next, PairNext, LoginNext, SaveNext

\* Hence what a command has in hand stays good while it does nothing.
LEMMA HandStays ==
  ASSUME CredentialAssumption, TypeOK,
         \A h \in Hosts : approved[h] \subseteq approved'[h],
         NEW c \in Pairers, HasClient(c), HasHeard(c), HasToken(c), HasCatalog(c),
         place'[c] = place[c], client'[c] = client[c], content'[c] = content[c]
  PROVE  /\ HasClient(c)' /\ HasToken(c)' /\ HasCatalog(c)'
         /\ inbox'[c] = inbox[c] => HasHeard(c)'
<1>1. HostOf[c] \in Hosts
  BY DEF CredentialAssumption
<1>2. HasClient(c)' /\ HasToken(c)'
  BY <1>1 DEF HasClient, HasToken, IsGood
<1>3. HasCatalog(c)'
  BY DEF HasCatalog, AllGood, IsGood
<1>4. inbox'[c] = inbox[c] => HasHeard(c)'
  BY <1>1 DEF HasHeard
<1> QED
  BY <1>2, <1>3, <1>4

LEMMA FilesStay ==
  ASSUME TypeOK, \A h \in Hosts : approved[h] \subseteq approved'[h], FileInv, UNCHANGED files
  PROVE  FileInv'
BY DEF FileInv, AllGood, IsGood, files

\* Everyone who listens has heard one more message.
LEMMA TellHeard ==
  ASSUME NEW h \in Hosts, NEW message \in Messages, NEW c \in Pairers, Functions, Tell(h, message),
         CredentialAssumption, HasHeard(c), \A g \in Hosts : approved[g] \subseteq approved'[g],
         message.kind = "notification" /\ message.ok => message.of \in approved'[h]
  PROVE  HasHeard(c)'
<1>1. HostOf[c] \in Hosts /\ inbox[c] \in Seq(Messages)
  BY DEF CredentialAssumption, HasHeard
<1>2. CASE inbox'[c] = inbox[c]
  BY <1>1, <1>2 DEF HasHeard
<1>3. CASE inbox'[c] = Append(inbox[c], message) /\ HostOf[c] = h
  <2>1. inbox'[c] \in Seq(Messages) /\ DOMAIN inbox[c] = 1..Len(inbox[c])
    BY <1>1, <1>3
  <2>2. /\ DOMAIN inbox'[c] = 1..(Len(inbox[c]) + 1)
        /\ \A i \in 1..Len(inbox[c]) : inbox'[c][i] = inbox[c][i]
        /\ inbox'[c][Len(inbox[c]) + 1] = message
    BY <1>1, <1>3
  <2>3. \A i \in DOMAIN inbox'[c] : i \in DOMAIN inbox[c] \/ i = Len(inbox[c]) + 1
    BY <1>1, <2>1, <2>2
  <2> QED
    BY <1>1, <1>3, <2>1, <2>2, <2>3 DEF HasHeard
<1> QED
  BY <1>2, <1>3 DEF Tell

-----------------------------------------------------------------------------
(* Types.                                                                  *)

LEMMA CredentialTypes ==
  ASSUME CredentialAssumption, TypeOK, Functions, [Next]_vars,
         FileInv, PairInv, LoginInv
  PROVE  TypeOK' /\ Functions'
<1> USE DEF TypeOK, Functions, files, printers, Goto, Places
<1>1. ASSUME NEW c \in Pairers, PairNext(c) PROVE TypeOK' /\ Functions'
  <2>0. c \in Commands /\ HostOf[c] \in Hosts
    BY DEF Commands, CredentialAssumption
  <2>1. CASE BeginPairing(c)
    <3>1. client'[c] \in Pairers \cup {None}
      BY <2>0, <2>1 DEF BeginPairing, FileInv, Catalogs, Tokens
    <3> QED
      BY <2>0, <2>1, <3>1 DEF BeginPairing, CredentialAssumption
  <2>2. CASE Bootstrap(c)
    <3>1. client[c] \in Pairers
      BY <2>2 DEF Bootstrap, PairInv, HasClient
    <3>2. requests[HostOf[c]] \cup {<<"confirm", client[c]>>}
            \in SUBSET ({"confirm", "authorize"} \X Pairers)
      BY <2>0, <3>1
    <3> QED
      BY <2>0, <2>2, <3>2 DEF Bootstrap
  <2>3. CASE HearResponse(c)
    <3>1. client[c] \in Pairers
      BY <2>3 DEF HearResponse, PairInv, HasClient
    <3>2. requests[HostOf[c]] \cup {<<"authorize", client[c]>>}
            \in SUBSET ({"confirm", "authorize"} \X Pairers)
      BY <2>0, <3>1
    <3>3. UNCHANGED requests \/ RequestAuth(c)
      BY <2>3 DEF HearResponse
    <3>4. requests' \in [Hosts -> SUBSET ({"confirm", "authorize"} \X Pairers)]
      BY <2>0, <3>2, <3>3 DEF RequestAuth
    <3> QED
      BY <2>0, <2>3, <3>4 DEF HearResponse
  <2>4. CASE HearNotification(c)
    BY <2>0, <2>4 DEF HearNotification
  <2>5. CASE PairingTimesOut(c) \/ Upsert(c)
    BY <2>0, <2>5 DEF PairingTimesOut, Upsert
  <2> QED
    BY <1>1, <2>1, <2>2, <2>3, <2>4, <2>5 DEF PairNext
<1>2. ASSUME NEW h \in Hosts, AnswerRequest(h) \/ Authorize(h) PROVE TypeOK' /\ Functions'
  <2>1. CASE AnswerRequest(h)
    BY <2>1 DEF AnswerRequest, Tell
  <2>2. CASE Authorize(h)
    <3>1. PICK request \in requests[h], approves \in BOOLEAN :
            /\ approved' = [approved EXCEPT ![h] = IF approves THEN @ \cup {request[2]} ELSE @]
            /\ requests' = [requests EXCEPT ![h] = @ \ {request}]
            /\ Tell(h, [kind |-> "notification", ok |-> approves, of |-> request[2]])
      BY <2>2 DEF Authorize
    <3>2. request[2] \in Pairers
      OBVIOUS
    <3>3. approved' \in [Hosts -> SUBSET Pairers]
      BY <3>1, <3>2
    <3>4. requests' \in [Hosts -> SUBSET ({"confirm", "authorize"} \X Pairers)]
      BY <3>1
    <3> QED
      BY <2>2, <3>1, <3>3, <3>4 DEF Authorize, Tell
  <2> QED
    BY <1>2, <2>1, <2>2
<1>3. ASSUME NEW c \in Logins, LoginNext(c) PROVE TypeOK' /\ Functions'
  <2>0. c \in Commands
    BY DEF Commands
  <2>1. CASE BeginLogin(c)
    BY <2>0, <2>1 DEF BeginLogin, CredentialAssumption
  <2>2. CASE CloudAnswers(c)
    BY <2>0, <2>2 DEF CloudAnswers
  <2> QED
    BY <1>3, <2>1, <2>2 DEF LoginNext
<1>4. ASSUME NEW c \in Commands, SaveNext(c) PROVE TypeOK' /\ Functions'
  <2>1. CASE CreateTemp(c) \/ WriteTemp(c) \/ SaveFails(c) \/ Crash(c)
    BY <2>1 DEF CreateTemp, WriteTemp, SaveFails, Crash
  <2>2. CASE Rename(c)
    <3>1. c \in Pairers => content[c] \in Catalogs
      BY <2>2 DEF Rename, PairInv, HasCatalog
    <3>2. c \notin Pairers => content[c] = "fresh"
      BY <2>2 DEF Rename, LoginInv, Commands
    <3> QED
      BY <2>2, <3>1, <3>2 DEF Rename, Catalogs
  <2>3. CASE RunAgain(c)
    BY <2>3 DEF RunAgain
  <2> QED
    BY <1>4, <2>1, <2>2, <2>3 DEF SaveNext
<1>5. CASE Expire \/ Serve
  BY <1>5 DEF Expire, Serve
<1>6. CASE UNCHANGED vars
  BY <1>6 DEF vars
<1> QED
  BY <1>1, <1>2, <1>3, <1>4, <1>5, <1>6 DEF Next, PairNext, LoginNext, SaveNext

-----------------------------------------------------------------------------
(* The files, and what each command has in hand.                           *)

\* A login touches nothing of the pairings, and the other way round.
LEMMA FileStep ==
  ASSUME CredentialAssumption, CredentialInv, [Next]_vars
  PROVE  FileInv'
<1> USE DEF files, printers
<1>0. \A h \in Hosts : approved[h] \subseteq approved'[h]
  BY ApprovalsStay DEF CredentialInv
<1>1. CASE UNCHANGED files
  BY <1>0, <1>1, FilesStay DEF CredentialInv
<1>2. ASSUME NEW c \in Commands, Rename(c) PROVE FileInv'
  <2>1. CASE c \in Pairers
    BY <1>2, <2>1 DEF Rename, CredentialInv, PairInv, HasCatalog, FileInv, AllGood, IsGood
  <2>2. CASE c \notin Pairers
    BY <1>2, <2>2 DEF Rename, CredentialInv, LoginInv, Commands, FileInv, AllGood, IsGood
  <2> QED
    BY <2>1, <2>2
<1>3. CASE Expire
  BY <1>3 DEF Expire, CredentialInv, FileInv, AllGood, IsGood
<1>4. ASSUME NEW h \in Hosts, AnswerRequest(h) \/ Authorize(h) PROVE UNCHANGED files
  BY <1>4 DEF AnswerRequest, Authorize
<1>5. ASSUME NEW c \in Pairers, PairNext(c) PROVE UNCHANGED files
  BY <1>5 DEF PairNext, BeginPairing, Bootstrap, HearResponse, HearNotification, PairingTimesOut,
              Upsert
<1>6. ASSUME NEW c \in Logins, LoginNext(c) PROVE UNCHANGED files
  BY <1>6 DEF LoginNext, BeginLogin, CloudAnswers
<1>7. ASSUME NEW c \in Commands, SaveNext(c), ~Rename(c) PROVE UNCHANGED files
  BY <1>7 DEF SaveNext, CreateTemp, WriteTemp, SaveFails, Crash, RunAgain
<1>8. CASE Serve \/ UNCHANGED vars
  BY <1>1, <1>8 DEF Serve, vars
<1> QED
  BY <1>1, <1>2, <1>3, <1>4, <1>5, <1>6, <1>7, <1>8 DEF Next, PairNext, LoginNext, SaveNext

\* The command that takes a step of snap-pair.
LEMMA OwnStep ==
  ASSUME CredentialAssumption, CredentialInv, NEW c \in Pairers, PairNext(c),
         \A h \in Hosts : approved[h] \subseteq approved'[h]
  PROVE  HasClient(c)' /\ HasHeard(c)' /\ HasToken(c)' /\ HasCatalog(c)'
<1> USE DEF CredentialInv, TypeOK, Functions, PairInv, Goto
<1>0. c \in Commands /\ HostOf[c] \in Hosts
  BY DEF Commands, CredentialAssumption
<1>1. CASE BeginPairing(c)
  <2>1. inbox'[c] = <<>> /\ place'[c] \in {"failed", "bootstrap"}
    BY <1>0, <1>1 DEF BeginPairing
  <2>2. client'[c] \in Pairers
    BY <1>0, <1>1 DEF BeginPairing, FileInv, Catalogs, Tokens
  <2> QED
    BY <2>1, <2>2 DEF HasClient, HasHeard, HasToken, HasCatalog
<1>2. CASE Bootstrap(c)
  BY <1>0, <1>2 DEF Bootstrap, HasClient, HasHeard, HasToken, HasCatalog
<1>3. ASSUME inbox[c] # <<>>, inbox'[c] = Tail(inbox[c]) PROVE HasHeard(c)'
  <2>1. inbox[c] \in Seq(Messages)
    BY DEF HasHeard
  <2>2. Tail(inbox[c]) \in Seq(Messages)
    BY <1>3, <2>1
  <2>3. \A i \in DOMAIN Tail(inbox[c]) :
          i + 1 \in DOMAIN inbox[c] /\ Tail(inbox[c])[i] = inbox[c][i + 1]
    BY <1>3, <2>1
  <2> QED
    BY <1>0, <1>3, <2>2, <2>3 DEF HasHeard
<1>4. CASE HearResponse(c)
  <2>1. place'[c] \in {"listen", "failed"} /\ client' = client
    BY <1>0, <1>4 DEF HearResponse
  <2>2. HasHeard(c)'
    BY <1>3, <1>4 DEF HearResponse
  <2> QED
    BY <1>4, <2>1, <2>2 DEF HearResponse, HasClient, HasToken, HasCatalog
<1>5. CASE HearNotification(c)
  <2>1. HasHeard(c)'
    BY <1>3, <1>5 DEF HearNotification
  <2>2. CASE place'[c] = "upsert"
    <3>1. /\ Head(inbox[c]).kind = "notification" /\ Head(inbox[c]).ok
          /\ Head(inbox[c]).of = client[c]
          /\ content'[c] = [client |-> client[c], cert |-> client[c]]
      BY <1>0, <1>5, <2>2 DEF HearNotification
    <3>2. inbox[c] \in Seq(Messages) /\ inbox[c] # <<>>
      BY <1>5 DEF HearNotification, HasHeard
    <3>3. 1 \in DOMAIN inbox[c] /\ Head(inbox[c]) = inbox[c][1]
      BY <3>2
    <3>4. client[c] \in approved[HostOf[c]]
      BY <3>1, <3>3 DEF HasHeard
    <3>5. client[c] \in Pairers /\ UNCHANGED <<client, approved>>
      BY <1>5 DEF HearNotification, HasClient, printers
    <3> QED
      BY <2>1, <2>2, <3>1, <3>4, <3>5 DEF HasClient, HasToken, HasCatalog, IsGood, Tokens
  <2>3. CASE place'[c] # "upsert"
    BY <1>0, <1>5, <2>1, <2>3 DEF HearNotification, HasClient, HasToken, HasCatalog
  <2> QED
    BY <2>2, <2>3
<1>6. CASE PairingTimesOut(c)
  BY <1>0, <1>6 DEF PairingTimesOut, HasClient, HasHeard, HasToken, HasCatalog
<1>7. CASE Upsert(c)
  <2>1. HasHeard(c)'
    BY <1>0, <1>7 DEF Upsert, HasHeard
  <2>2. CASE place'[c] = "save"
    <3>1. content'[c] = [pairings EXCEPT ![HostOf[c]] = content[c]] /\ UNCHANGED approved
      BY <1>0, <1>7, <2>2 DEF Upsert, printers
    <3>2. content[c] \in Tokens /\ IsGood(HostOf[c], content[c])
      BY <1>7 DEF Upsert, HasToken
    <3>3. content'[c] \in Catalogs /\ AllGood(content'[c])
      BY <1>0, <3>1, <3>2 DEF FileInv, Catalogs, AllGood, IsGood
    <3> QED
      BY <2>1, <2>2, <3>1, <3>3 DEF HasClient, HasToken, HasCatalog, AllGood, IsGood
  <2>3. CASE place'[c] # "save"
    BY <1>0, <1>7, <2>1, <2>3 DEF Upsert, HasClient, HasToken, HasCatalog
  <2> QED
    BY <2>2, <2>3
<1> QED
  BY <1>1, <1>2, <1>4, <1>5, <1>6, <1>7 DEF PairNext

-----------------------------------------------------------------------------
(* The step, and the theorems.                                             *)

LEMMA PairStep ==
  ASSUME CredentialAssumption, CredentialInv, [Next]_vars
  PROVE  PairInv'
<1> USE DEF CredentialInv, PairInv, Functions, files, printers, Goto
<1>0. \A h \in Hosts : approved[h] \subseteq approved'[h]
  BY ApprovalsStay
<1> SUFFICES ASSUME NEW p \in Pairers
             PROVE  HasClient(p)' /\ HasHeard(p)' /\ HasToken(p)' /\ HasCatalog(p)'
  OBVIOUS
<1>a. p \in Commands /\ p \notin Logins
  BY DEF Commands, CredentialAssumption
<1>1. ASSUME place'[p] = place[p], client'[p] = client[p], content'[p] = content[p],
             inbox'[p] = inbox[p]
      PROVE  HasClient(p)' /\ HasHeard(p)' /\ HasToken(p)' /\ HasCatalog(p)'
  BY <1>0, <1>1, HandStays
<1>2. ASSUME NEW c \in Pairers, PairNext(c)
      PROVE  HasClient(p)' /\ HasHeard(p)' /\ HasToken(p)' /\ HasCatalog(p)'
  <2>1. CASE c = p
    BY <1>0, <1>2, <2>1, OwnStep
  <2>2. CASE c # p
    <3>1. /\ place'[p] = place[p] /\ client'[p] = client[p] /\ content'[p] = content[p]
          /\ inbox'[p] = inbox[p]
      BY <1>2, <1>a, <2>2 DEF PairNext, BeginPairing, Bootstrap, HearResponse, HearNotification,
                        PairingTimesOut, Upsert, TypeOK
    <3> QED
      BY <1>1, <3>1
  <2> QED
    BY <2>1, <2>2
<1>3. ASSUME NEW h \in Hosts, AnswerRequest(h) \/ Authorize(h)
      PROVE  HasClient(p)' /\ HasHeard(p)' /\ HasToken(p)' /\ HasCatalog(p)'
  <2>1. UNCHANGED <<place, client, content>>
    BY <1>3 DEF AnswerRequest, Authorize
  <2>2. ASSUME AnswerRequest(h) PROVE HasHeard(p)'
    <3>1. PICK accepts \in BOOLEAN : Tell(h, [kind |-> "response", ok |-> accepts, of |-> None])
      BY <2>2 DEF AnswerRequest
    <3>2. [kind |-> "response", ok |-> accepts, of |-> None] \in Messages
      BY DEF Messages
    <3> QED
      BY <1>0, <3>1, <3>2, TellHeard
  <2>3. ASSUME Authorize(h) PROVE HasHeard(p)'
    <3>1. PICK request \in requests[h], approves \in BOOLEAN :
            /\ Tell(h, [kind |-> "notification", ok |-> approves, of |-> request[2]])
            /\ approved' = [approved EXCEPT ![h] = IF approves THEN @ \cup {request[2]} ELSE @]
      BY <2>3 DEF Authorize
    <3>2. request[2] \in Pairers
      BY DEF TypeOK
    <3>3. [kind |-> "notification", ok |-> approves, of |-> request[2]] \in Messages
      BY <3>2 DEF Messages
    <3>4. approves => request[2] \in approved'[h]
      BY <3>1 DEF TypeOK
    <3> QED
      BY <1>0, <3>1, <3>3, <3>4, TellHeard
  <2> QED
    BY <1>0, <1>3, <2>1, <2>2, <2>3, HandStays
<1>4. ASSUME NEW c \in Logins, LoginNext(c)
      PROVE  HasClient(p)' /\ HasHeard(p)' /\ HasToken(p)' /\ HasCatalog(p)'
  <2>1. c \in Commands /\ c # p
    BY <1>a DEF Commands
  <2>2. /\ place'[p] = place[p] /\ client'[p] = client[p] /\ content'[p] = content[p]
        /\ inbox'[p] = inbox[p]
    BY <1>4, <1>a, <2>1 DEF LoginNext, BeginLogin, CloudAnswers, TypeOK
  <2> QED
    BY <1>1, <2>2
<1>5. ASSUME NEW c \in Commands, SaveNext(c)
      PROVE  HasClient(p)' /\ HasHeard(p)' /\ HasToken(p)' /\ HasCatalog(p)'
  <2>1. inbox' = inbox /\ client' = client
    BY <1>5 DEF SaveNext, CreateTemp, WriteTemp, Rename, SaveFails, Crash, RunAgain
  <2>2. CASE place'[p] \notin {"bootstrap", "listen", "upsert", "save"}
    BY <1>0, <2>1, <2>2, CredentialAssumption
       DEF HasClient, HasHeard, HasToken, HasCatalog, CredentialAssumption
  <2>3. CASE place'[p] \in {"bootstrap", "listen", "upsert", "save"}
    <3>1. place'[p] = place[p] /\ content'[p] = content[p]
      BY <1>5, <1>a, <2>3
         DEF SaveNext, CreateTemp, WriteTemp, Rename, SaveFails, Crash, RunAgain, TypeOK
    <3> QED
      BY <1>1, <2>1, <3>1
  <2> QED
    BY <2>2, <2>3
<1>6. CASE Expire \/ Serve \/ UNCHANGED vars
  BY <1>1, <1>6 DEF Expire, Serve, vars
<1> QED
  BY <1>2, <1>3, <1>4, <1>5, <1>6 DEF Next, PairNext, LoginNext, SaveNext

\* What is saved of a login, and which temporary files there are.
LEMMA SaveStep ==
  ASSUME CredentialAssumption, CredentialInv, [Next]_vars
  PROVE  LoginInv' /\ OnlyACrashLeavesTemp'
<1> USE DEF CredentialInv, LoginInv, OnlyACrashLeavesTemp, TypeOK, Functions, files, printers, Goto
<1>0. Pairers \cap Logins = {} /\ Commands = Pairers \cup Logins
  BY DEF Commands, CredentialAssumption
<1>1. ASSUME NEW c \in Pairers, PairNext(c) PROVE LoginInv' /\ OnlyACrashLeavesTemp'
  BY <1>0, <1>1 DEF PairNext, BeginPairing, Bootstrap, HearResponse, HearNotification,
                    PairingTimesOut, Upsert
<1>2. ASSUME NEW h \in Hosts, AnswerRequest(h) \/ Authorize(h)
      PROVE  LoginInv' /\ OnlyACrashLeavesTemp'
  BY <1>2 DEF AnswerRequest, Authorize
<1>3. ASSUME NEW c \in Logins, LoginNext(c) PROVE LoginInv' /\ OnlyACrashLeavesTemp'
  BY <1>0, <1>3 DEF LoginNext, BeginLogin, CloudAnswers, SavedToken
<1>4. ASSUME NEW c \in Commands, SaveNext(c) PROVE LoginInv' /\ OnlyACrashLeavesTemp'
  BY <1>0, <1>4 DEF SaveNext, CreateTemp, WriteTemp, Rename, SaveFails, Crash, RunAgain
<1>5. CASE Expire \/ Serve \/ UNCHANGED vars
  BY <1>5 DEF Expire, Serve, vars
<1> QED
  BY <1>1, <1>2, <1>3, <1>4, <1>5 DEF Next, PairNext, LoginNext, SaveNext

LEMMA CredentialInit ==
  ASSUME CredentialAssumption, Init
  PROVE  CredentialInv
<1> USE DEF Init, CredentialAssumption
<1>1. TypeOK /\ Functions
  BY DEF TypeOK, Functions, Places
<1>2. FileInv /\ LoginInv /\ OnlyACrashLeavesTemp
  BY DEF FileInv, Catalogs, AllGood, LoginInv, OnlyACrashLeavesTemp, Commands
<1>3. PairInv
  BY DEF PairInv, HasClient, HasHeard, HasToken, HasCatalog, Commands
<1> QED
  BY <1>1, <1>2, <1>3 DEF CredentialInv

LEMMA CredentialStep ==
  ASSUME CredentialAssumption, CredentialInv, [Next]_vars
  PROVE  CredentialInv'
BY CredentialTypes, FileStep, PairStep, SaveStep DEF CredentialInv

\* What the invariant says of the files.
LEMMA CredentialFacts ==
  ASSUME CredentialAssumption, CredentialInv
  PROVE  TypeOK /\ FilesAreWhole /\ PairingIsOurs /\ OnlyACrashLeavesTemp
<1>1. Torn \notin Catalogs /\ Torn \notin {"absent", "fresh", "expired"}
  BY DEF CredentialAssumption, Catalogs
<1>2. FilesAreWhole
  BY <1>1 DEF CredentialInv, FileInv, FilesAreWhole
<1>3. PairingIsOurs
  BY DEF CredentialInv, FileInv, AllGood, IsGood, PairingIsOurs
<1> QED
  BY <1>2, <1>3 DEF CredentialInv

LEMMA CredentialInvariant ==
  ASSUME CredentialAssumption
  PROVE  Spec => []CredentialInv
<1>1. Init => CredentialInv
  BY CredentialInit
<1>2. CredentialInv /\ [Next]_vars => CredentialInv'
  BY CredentialStep
<1> QED
  BY <1>1, <1>2, PTL DEF Spec

\* Whatever crashes and fails, and however many commands run together, the credential files
\* are whole at every moment (write_atomic).
THEOREM CredentialFilesAreWhole ==
  ASSUME CredentialAssumption
  PROVE  Spec => []FilesAreWhole
<1>1. CredentialInv => FilesAreWhole
  BY CredentialFacts
<1> QED
  BY <1>1, CredentialInvariant, PTL

\* A saved pairing has a certificate of its own client identifier, which the printer knows,
\* however many pair with the printer at the same time (run_bootstrap, upsert_snap_token).
THEOREM PairingsAreOurs ==
  ASSUME CredentialAssumption
  PROVE  Spec => []PairingIsOurs
<1>1. CredentialInv => PairingIsOurs
  BY CredentialFacts
<1> QED
  BY <1>1, CredentialInvariant, PTL

\* A temporary file with a credential outlives its command only in a crash, whichever step
\* of the saving fails (TempFileCleanup).
THEOREM TempFilesAreRemoved ==
  ASSUME CredentialAssumption
  PROVE  Spec => []OnlyACrashLeavesTemp
<1>1. CredentialInv => OnlyACrashLeavesTemp
  BY CredentialFacts
<1> QED
  BY <1>1, CredentialInvariant, PTL
=============================================================================
