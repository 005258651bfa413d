------------------------- MODULE CameraControlProofs -------------------------
(***************************************************************************)
(* Proofs about CameraControl, for every clock and any number of lost      *)
(* answers and sessions, when no two calls share their instant.  The ids    *)
(* of the requests that the daemon has not taken are in order, and above    *)
(* those of all answers; so when the answer is the one to the last request  *)
(* there is no other.                                                      *)
(***************************************************************************)
EXTENDS CameraControl, SequenceTheorems, TLAPS

Answer == [id : 0..MaxClock, accepted : BOOLEAN]

\* The last call was made at this instant, and no request or answer is of a later one.
ClockInv ==
  /\ current.id = clock
  /\ \A i \in DOMAIN requests : requests[i].id <= clock
  /\ \A i \in DOMAIN answers : answers[i].id <= clock

\* A session's requests and answers.
OrderInv ==
  control = "mtls" =>
    /\ \A i, j \in DOMAIN requests : i < j => requests[i].id < requests[j].id
    /\ \A i \in DOMAIN answers, j \in DOMAIN requests : answers[i].id < requests[j].id

\* Before there is a transport nothing was sent, and a driver is of an MQTT session.
OpenInv ==
  /\ control = "none" <=> place \in {"open", "connack"}
  /\ control = "none" => requests = <<>> /\ answers = <<>> /\ outcome = "none"
  /\ driver = "running" => control = "mtls"

CameraInv == TypeOK /\ ClockInv /\ OrderInv /\ OpenInv /\ StopIsTheLastWord

-----------------------------------------------------------------------------
(* Queues.                                                                 *)

LEMMA AppendFacts ==
  ASSUME NEW S, NEW s \in Seq(S), NEW e \in S
  PROVE  /\ Append(s, e) \in Seq(S)
         /\ DOMAIN Append(s, e) = 1..(Len(s) + 1) /\ DOMAIN s = 1..Len(s)
         /\ Append(s, e)[Len(s) + 1] = e
         /\ \A i \in DOMAIN s : Append(s, e)[i] = s[i]
OBVIOUS

LEMMA TailFacts ==
  ASSUME NEW S, NEW s \in Seq(S), s # <<>>
  PROVE  /\ Tail(s) \in Seq(S)
         /\ \A i \in DOMAIN Tail(s) : i + 1 \in DOMAIN s /\ Tail(s)[i] = s[i + 1]
         /\ Head(s) \in S /\ Head(s) = s[1] /\ 1 \in DOMAIN s
OBVIOUS

\* Taking a request out leaves the others, in their order.
LEMMA RemoveFacts ==
  ASSUME NEW S, NEW s \in Seq(S), NEW i \in DOMAIN s
  PROVE  /\ RemoveAt(s, i) \in Seq(S)
         /\ \A j \in DOMAIN RemoveAt(s, i) :
              \E k \in DOMAIN s : RemoveAt(s, i)[j] = s[k]
         /\ i = 1 => RemoveAt(s, i) = Tail(s)
<1>1. i \in 1..Len(s) /\ Len(s) \in Nat
  OBVIOUS
<1>2. PICK before \in Seq(S), after \in Seq(S) :
        /\ RemoveAt(s, i) = before \o after
        /\ Len(before) = i - 1 /\ \A j \in 1..(i - 1) : before[j] = s[j]
        /\ Len(after) = Len(s) - i /\ \A j \in 1..(Len(s) - i) : after[j] = s[i + j]
  <2>1. /\ SubSeq(s, 1, i - 1) \in Seq(S) /\ SubSeq(s, i + 1, Len(s)) \in Seq(S)
        /\ Len(SubSeq(s, 1, i - 1)) = i - 1 /\ Len(SubSeq(s, i + 1, Len(s))) = Len(s) - i
        /\ \A j \in 1..(i - 1) : SubSeq(s, 1, i - 1)[j] = s[j]
        /\ \A j \in 1..(Len(s) - i) : SubSeq(s, i + 1, Len(s))[j] = s[i + j]
    BY <1>1
  <2> QED
    BY <2>1 DEF RemoveAt
<1>3. RemoveAt(s, i) \in Seq(S)
  BY <1>2, ConcatProperties
<1>6. Len(RemoveAt(s, i)) = Len(s) - 1
  BY <1>1, <1>2, ConcatProperties
<1>7. ASSUME NEW j \in 1..(Len(s) - 1)
      PROVE  RemoveAt(s, i)[j] = s[IF j < i THEN j ELSE j + 1]
  <2>1. (before \o after)[j] = IF j <= Len(before) THEN before[j] ELSE after[j - Len(before)]
    BY <1>1, <1>2, ConcatProperties
  <2>2. CASE j < i
    BY <1>1, <1>2, <2>1, <2>2
  <2>3. CASE ~(j < i)
    <3>1. j - (i - 1) \in 1..(Len(s) - i) /\ i + (j - (i - 1)) = j + 1
      BY <1>1, <2>3
    <3>2. (before \o after)[j] = after[j - (i - 1)]
      BY <1>1, <1>2, <2>1, <2>3
    <3> QED
      BY <1>2, <2>3, <3>1, <3>2
  <2> QED
    BY <2>2, <2>3
<1>8. \A j \in DOMAIN RemoveAt(s, i) : \E k \in DOMAIN s : RemoveAt(s, i)[j] = s[k]
  <2> SUFFICES ASSUME NEW j \in 1..(Len(s) - 1)
               PROVE  \E k \in DOMAIN s : RemoveAt(s, i)[j] = s[k]
    BY <1>1, <1>3, <1>6
  <2>1. (IF j < i THEN j ELSE j + 1) \in DOMAIN s
    BY <1>1
  <2> QED
    BY <1>7, <2>1
<1>9. ASSUME i = 1 PROVE RemoveAt(s, i) = Tail(s)
  <2>1. Tail(s) \in Seq(S) /\ Len(Tail(s)) = Len(s) - 1
    BY <1>1, <1>9
  <2>2. \A j \in 1..(Len(s) - 1) : Tail(s)[j] = s[j + 1]
    BY <1>1, <1>9
  <2>3. \A j \in 1..(Len(s) - 1) : RemoveAt(s, i)[j] = Tail(s)[j]
    BY <1>7, <1>9, <2>2
  <2> QED
    BY <1>3, <1>6, <2>1, <2>3, SeqEqual
<1> QED
  BY <1>3, <1>8, <1>9

-----------------------------------------------------------------------------
(* Types.                                                                  *)

LEMMA QueueTypes ==
  ASSUME TypeOK
  PROVE  /\ \A i \in DOMAIN requests :
              /\ requests[i] \in Request /\ requests[i].id \in 0..MaxClock
              /\ RemoveAt(requests, i) \in Seq(Request)
         /\ \A i \in DOMAIN answers : answers[i].id \in 0..MaxClock
<1>1. requests \in Seq(Request) /\ answers \in Seq(Answer)
  BY DEF TypeOK, Answer
<1>2. \A i \in DOMAIN requests : requests[i] \in Request /\ RemoveAt(requests, i) \in Seq(Request)
  BY <1>1, RemoveFacts
<1>3. \A i \in DOMAIN answers : answers[i] \in Answer
  BY <1>1
<1> QED
  BY <1>2, <1>3 DEF Request, Answer

LEMMA CameraTypes ==
  ASSUME CameraAssumption, TypeOK, OpenInv, [Next]_vars
  PROVE  TypeOK'
<1> USE DEF TypeOK, CameraAssumption, session, Methods, Request
<1>1. ASSUME NEW method \in Methods, NEW id \in 0..MaxClock, Call(method, id),
             UNCHANGED losses
      PROVE  TypeOK'
  <2>1. current' \in Request /\ clock' \in 0..MaxClock
    BY <1>1 DEF Call, Invoke, Repeat
  <2>2. Append(requests, current') \in Seq(Request)
    BY <2>1
  <2> QED
    BY <1>1, <2>1, <2>2 DEF Call, Invoke, Repeat, After
<1>2. ASSUME NEW result \in {"answered", "refused", "failed", "timeout"},
             NEW waiting \in SUBSET (0..MaxClock), Return(result, waiting), UNCHANGED losses,
             answers' \in Seq(Answer)
      PROVE  TypeOK'
  <2>1. requests' \in Seq(Request)
    BY <1>2, EmptySeq DEF Return
  <2> QED
    BY <1>2, <2>1 DEF Return, After, Answer
<1>3. answers # <<>> => /\ Tail(answers) \in Seq(Answer) /\ Head(answers) \in Answer
  BY TailFacts DEF Answer
<1>4. <<>> \in Seq(Answer) /\ <<>> \in Seq(Request) /\ answers \in Seq(Answer)
  BY EmptySeq DEF Answer
<1>5. CASE UseRepeater \/ BeginConnect \/ ConnAck
  BY <1>5 DEF UseRepeater, BeginConnect, ConnAck
<1>6. CASE Start \/ Stop
  <2>1. PICK id \in Now, method \in Methods : Call(method, id) /\ UNCHANGED losses
    BY <1>6 DEF Start, Stop, Call, Invoke, Repeat
  <2>2. id \in 0..MaxClock
    BY DEF Now
  <2> QED
    BY <1>1, <2>1, <2>2
<1>7. CASE Deliver
  <2>1. PICK result \in {"answered", "refused"} :
          \/ /\ Return(result, pending \ {Head(answers).id})
             /\ current.method = "start" => answers' = Tail(answers)
             /\ place = "call"
          \/ /\ pending' = pending \ {Head(answers).id}
             /\ answers' = Tail(answers)
             /\ UNCHANGED <<control, place, current, outcome, clock, driver, requests, armed>>
    BY <1>7 DEF Deliver
  <2>2. UNCHANGED losses /\ answers # <<>> /\ control = "mtls"
    BY <1>7 DEF Deliver, OpenInv
  <2>3. CASE UNCHANGED <<control, place, current, outcome, clock, driver, requests, armed>>
             /\ answers' = Tail(answers) /\ pending' = pending \ {Head(answers).id}
    BY <1>3, <2>2, <2>3 DEF Answer
  <2>4. CASE /\ Return(result, pending \ {Head(answers).id})
             /\ current.method = "start" => answers' = Tail(answers)
    <3>1. answers' \in Seq(Answer)
      BY <1>3, <1>4, <2>2, <2>4 DEF Return
    <3> QED
      BY <1>2, <2>2, <2>4, <3>1
  <2> QED
    BY <2>1, <2>3, <2>4
<1>8. CASE Timeout
  <2>1. PICK waiting \in SUBSET (0..MaxClock) :
          /\ Return("timeout", waiting) /\ UNCHANGED losses /\ control = "mtls"
          /\ current.method = "start" => UNCHANGED answers
    BY <1>8 DEF Timeout
  <2>2. answers' \in Seq(Answer)
    BY <1>4, <2>1 DEF Return
  <2> QED
    BY <1>2, <2>1, <2>2
<1>9. CASE RepeaterReturns
  <2>1. PICK result \in {"answered", "refused", "failed", "timeout"} : Return(result, pending)
    BY <1>9 DEF RepeaterReturns
  <2>2. UNCHANGED <<answers, losses>>
    BY <1>9 DEF RepeaterReturns
  <2> QED
    BY <1>2, <1>4, <2>1, <2>2
<1>10. CASE Daemon
  <2>1. PICK i \in DOMAIN requests, accepted \in BOOLEAN :
          /\ requests' = RemoveAt(requests, i)
          /\ armed' = IF accepted THEN requests[i].method = "start" ELSE armed
          /\ answers' = IF driver = "running"
                          THEN Append(answers, [id |-> requests[i].id, accepted |-> accepted])
                          ELSE answers
    BY <1>10 DEF Daemon
  <2>2. requests' \in Seq(Request) /\ requests[i] \in Request
    BY <2>1, QueueTypes
  <2>3. answers' \in Seq(Answer)
    BY <1>4, <2>1, <2>2, AppendFacts DEF Answer
  <2>4. UNCHANGED <<control, place, current, outcome, clock, pending, driver, losses>>
    BY <1>10 DEF Daemon
  <2>5. armed' \in BOOLEAN
    BY <2>1
  <2> QED
    BY <2>2, <2>3, <2>4, <2>5 DEF Answer
<1>11. CASE LoseAnswer
  BY <1>3, <1>11 DEF LoseAnswer, Answer
<1>12. CASE LoseSession
  <2>1. requests' \in Seq(Request) /\ answers' \in Seq(Answer)
    BY <1>4, <1>12 DEF LoseSession
  <2> QED
    BY <1>12, <2>1 DEF LoseSession, Answer
<1>13. CASE Watchdog \/ UNCHANGED vars
  BY <1>13 DEF Watchdog, vars
<1> QED
  BY <1>5, <1>6, <1>7, <1>8, <1>9, <1>10, <1>11, <1>12, <1>13 DEF Next

-----------------------------------------------------------------------------
(* The order of the requests and answers.                                  *)

Ordered == ClockInv /\ OrderInv /\ OpenInv

\* A call is of a later instant than all before it.
LEMMA CallStep ==
  ASSUME CameraAssumption, ~SameInstant, TypeOK, Ordered, NEW method \in Methods, NEW id \in Now,
         Call(method, id), control # "none", place \in {"idle", "call"}
  PROVE  Ordered' /\ (place' = "call" \/ outcome' # "answered")
<1> USE DEF Ordered, ClockInv, OrderInv, OpenInv, TypeOK
<1>1. id \in 0..MaxClock /\ clock < id /\ current' = [id |-> id, method |-> method] /\ clock' = id
  BY DEF Now, Call, Invoke, Repeat, CameraAssumption
<1>2. current' \in Request
  BY <1>1 DEF Request, Methods
<1>3. /\ \A i \in DOMAIN requests : requests[i].id \in 0..MaxClock
      /\ \A i \in DOMAIN answers : answers[i].id \in 0..MaxClock
  BY QueueTypes
<1>4. control' = control /\ place' \notin {"open", "connack"}
  BY DEF Call, Invoke, Repeat, After
<1>5. driver' = "running" => control = "mtls"
  BY DEF Call, Invoke, Repeat, session
<1>6. UNCHANGED answers /\ (place' = "call" \/ outcome' # "answered")
  BY DEF Call, Invoke, Repeat, session
<1>7. OpenInv'
  <2>1. control' # "none" /\ (driver' = "running" => control' = "mtls")
    BY <1>4, <1>5
  <2> QED
    BY <1>4, <2>1
<1>8. CASE requests' = Append(requests, current')
  <2>1. /\ DOMAIN requests' = 1..(Len(requests) + 1) /\ DOMAIN requests = 1..Len(requests)
        /\ requests'[Len(requests) + 1] = current' /\ Len(requests) \in Nat
        /\ \A i \in DOMAIN requests : requests'[i] = requests[i]
    BY <1>2, <1>8, AppendFacts
  <2>2. \A i \in DOMAIN requests' :
          (i \in DOMAIN requests /\ requests'[i] = requests[i]) \/ i = Len(requests) + 1
    BY <2>1
  <2>3. ClockInv'
    BY <1>1, <1>3, <1>6, <2>1, <2>2
  <2>4. ASSUME control = "mtls", NEW i \in DOMAIN requests', NEW j \in DOMAIN requests', i < j
        PROVE  requests'[i].id < requests'[j].id
    <3>1. i \in DOMAIN requests /\ requests'[i] = requests[i] /\ requests[i].id <= clock
      BY <2>1, <2>2, <2>4
    <3>2. CASE j \in DOMAIN requests
      BY <2>1, <2>4, <3>1, <3>2
    <3>3. CASE j = Len(requests) + 1
      BY <1>1, <1>3, <2>1, <3>1, <3>3
    <3> QED
      BY <2>2, <3>2, <3>3
  <2>5. ASSUME control = "mtls", NEW i \in DOMAIN answers, NEW j \in DOMAIN requests'
        PROVE  answers[i].id < requests'[j].id
    <3>1. CASE j \in DOMAIN requests
      BY <2>1, <2>5, <3>1
    <3>2. CASE j = Len(requests) + 1
      BY <1>1, <1>3, <2>1, <3>2
    <3> QED
      BY <2>2, <3>1, <3>2
  <2>6. OrderInv'
    BY <1>4, <1>6, <2>4, <2>5
  <2> HIDE DEF ClockInv, OrderInv, OpenInv
  <2> QED
    BY <1>6, <1>7, <2>3, <2>6
<1>9. CASE requests' = requests
  <2>1. ClockInv' /\ OrderInv'
    BY <1>1, <1>3, <1>4, <1>6, <1>9
  <2> HIDE DEF ClockInv, OrderInv, OpenInv
  <2> QED
    BY <1>6, <1>7, <2>1
<1> QED
  BY <1>8, <1>9 DEF Call, Invoke, Repeat

\* What is sent and answered stays in order when some of it goes.
LEMMA QueuesShrink ==
  ASSUME TypeOK, ClockInv, OrderInv, UNCHANGED <<control, current, clock>>,
         requests' \in {requests, <<>>},
         answers' \in {answers, <<>>} \/ (answers # <<>> /\ answers' = Tail(answers))
  PROVE  ClockInv' /\ OrderInv'
<1> USE DEF ClockInv, OrderInv
<1>1. \A i \in DOMAIN requests' : i \in DOMAIN requests /\ requests'[i] = requests[i]
  BY EmptySeq DEF TypeOK
<1>2. \A i \in DOMAIN answers' : \E j \in DOMAIN answers : answers'[i] = answers[j]
  <2>1. CASE answers' = Tail(answers) /\ answers # <<>>
    BY <2>1, TailFacts DEF TypeOK
  <2>2. CASE answers' \in {answers, <<>>}
    BY <2>2, EmptySeq
  <2> QED
    BY <2>1, <2>2
<1> QED
  BY <1>1, <1>2

\* When a request is answered, the next ones are of later instants, and the earlier ones
\* are answered.
LEMMA DaemonStep ==
  ASSUME TypeOK, ClockInv, OrderInv, Daemon
  PROVE  ClockInv' /\ OrderInv'
<1> USE DEF ClockInv, OrderInv
<1>1. PICK i \in DOMAIN requests, accepted \in BOOLEAN :
        /\ control = "mtls" => i = 1
        /\ requests' = RemoveAt(requests, i)
        /\ answers' = IF driver = "running"
                        THEN Append(answers, [id |-> requests[i].id, accepted |-> accepted])
                        ELSE answers
  BY DEF Daemon
<1>2. UNCHANGED <<control, current, clock>>
  BY DEF Daemon
<1>3. requests \in Seq(Request) /\ answers \in Seq(Answer) /\ requests[i] \in Request
  BY QueueTypes DEF TypeOK, Answer
<1>4. \A j \in DOMAIN requests' : \E k \in DOMAIN requests : requests'[j] = requests[k]
  BY <1>1, <1>3, RemoveFacts
<1>5. \A j \in DOMAIN answers' :
        \/ j \in DOMAIN answers /\ answers'[j] = answers[j]
        \/ answers'[j].id = requests[i].id
  <2>1. [id |-> requests[i].id, accepted |-> accepted] \in Answer
    BY <1>3 DEF Request, Answer
  <2>2. CASE driver = "running"
    BY <1>1, <1>3, <2>1, <2>2, AppendFacts
  <2> QED
    BY <1>1, <2>2
<1>6. ClockInv'
  BY <1>2, <1>4, <1>5
<1>7. ASSUME control = "mtls" PROVE OrderInv'
  <2>1. i = 1 /\ requests' = Tail(requests) /\ requests # <<>>
    BY <1>1, <1>3, <1>7, RemoveFacts
  <2>2. \A j \in DOMAIN requests' : j + 1 \in DOMAIN requests /\ requests'[j] = requests[j + 1]
    BY <1>3, <2>1, TailFacts
  <2>3. \A j \in DOMAIN requests' : j \in Nat \ {0}
    BY <1>3, <2>1
  <2>4. \A j, k \in DOMAIN requests' : j < k => requests'[j].id < requests'[k].id
    BY <1>7, <2>2, <2>3
  <2>5. \A k \in DOMAIN requests' : requests[i].id < requests'[k].id
    BY <1>7, <2>1, <2>2, <2>3
  <2> QED
    BY <1>5, <1>7, <2>2, <2>4, <2>5
<1> QED
  BY <1>2, <1>6, <1>7

-----------------------------------------------------------------------------
(* The step, and the theorems.                                             *)

\* The answer that ends a stop is the one to the last request.
LEMMA StopStep ==
  ASSUME TypeOK, ClockInv, OrderInv, Deliver, place = "call", place' = "done", control = "mtls"
  PROVE  requests' = <<>>
<1>1. answers # <<>> /\ Head(answers).id = current.id /\ requests' \in {requests, <<>>}
  BY DEF Deliver, Return, After, TypeOK
<1>2. 1 \in DOMAIN answers /\ Head(answers) = answers[1]
  BY <1>1, TailFacts DEF TypeOK
<1>3. \A j \in DOMAIN requests : clock < requests[j].id /\ requests[j].id <= clock
  BY <1>1, <1>2 DEF ClockInv, OrderInv
<1>4. \A j \in DOMAIN requests : requests[j].id \in Nat /\ clock \in Nat
  BY QueueTypes DEF TypeOK
<1>5. DOMAIN requests = {}
  <2> SUFFICES ASSUME NEW j \in DOMAIN requests PROVE FALSE
    OBVIOUS
  <2> QED
    BY <1>3, <1>4
<1>6. requests # <<>> => 1 \in DOMAIN requests
  BY TailFacts DEF TypeOK
<1> QED
  BY <1>1, <1>5, <1>6

\* What is open to calls, and what is under way before the first.
LEMMA OpenStep ==
  ASSUME TypeOK, OpenInv, [Next]_vars
  PROVE  OpenInv'
<1> USE DEF OpenInv
<1>1. CASE UseRepeater \/ BeginConnect \/ ConnAck
  BY <1>1 DEF UseRepeater, BeginConnect, ConnAck, session
<1>2. CASE Start \/ Stop
  <2>1. PICK id, method : Call(method, id)
    BY <1>2 DEF Start, Stop
  <2>2. /\ UNCHANGED <<control, driver>>
        /\ place' \in {"call", "idle", "done"} /\ control # "none"
    BY <1>2, <2>1 DEF Start, Stop, Call, Invoke, Repeat, After, session
  <2> QED
    BY <2>2
<1>3. ASSUME NEW result, NEW waiting, Return(result, waiting), place = "call"
      PROVE  OpenInv'
  BY <1>3 DEF Return, After
<1>4. CASE Deliver
  BY <1>3, <1>4 DEF Deliver
<1>5. CASE Timeout \/ RepeaterReturns
  BY <1>3, <1>5 DEF Timeout, RepeaterReturns
<1>6. CASE Daemon \/ LoseAnswer \/ LoseSession
  BY <1>6 DEF Daemon, LoseAnswer, LoseSession
<1>7. CASE Watchdog \/ UNCHANGED vars
  BY <1>7 DEF Watchdog, vars, session
<1> QED
  BY <1>1, <1>2, <1>4, <1>5, <1>6, <1>7 DEF Next

LEMMA CameraStep ==
  ASSUME CameraAssumption, ~SameInstant, CameraInv, [Next]_vars
  PROVE  CameraInv'
<1> USE DEF CameraInv
<1>1. TypeOK'
  BY CameraTypes
<1>2. ASSUME NEW result, NEW waiting, Return(result, waiting), place = "call",
             answers' \in {answers, <<>>} \/ (answers # <<>> /\ answers' = Tail(answers))
      PROVE  ClockInv' /\ OrderInv' /\ OpenInv'
  <2>1. ClockInv' /\ OrderInv'
    BY <1>2, QueuesShrink DEF Return
  <2>2. control # "none" /\ control' = control /\ place' \notin {"open", "connack"}
        /\ (driver' = "running" => driver = "running")
    BY <1>2 DEF Return, After, OpenInv
  <2>3. OpenInv'
    BY <2>2 DEF OpenInv
  <2> QED
    BY <2>1, <2>3
<1>3. CASE UseRepeater \/ BeginConnect \/ ConnAck
  <2>1. UNCHANGED <<requests, answers, current, clock, outcome>> /\ control # "mtls"
        /\ requests = <<>> /\ answers = <<>> /\ outcome = "none"
    BY <1>3 DEF UseRepeater, BeginConnect, ConnAck, session, OpenInv, TypeOK
  <2>2. OpenInv'
    BY <1>3 DEF UseRepeater, BeginConnect, ConnAck, session, OpenInv
  <2>3. ClockInv' /\ OrderInv'
    BY <2>1 DEF ClockInv, OrderInv
  <2> QED
    BY <1>1, <2>1, <2>2, <2>3 DEF StopIsTheLastWord
<1>4. CASE Start \/ Stop
  <2>1. PICK id \in Now, method \in Methods : Call(method, id)
    BY <1>4 DEF Start, Stop, Methods
  <2>2. control # "none" /\ place \in {"idle", "call"}
    BY <1>4 DEF Start, Stop, OpenInv
  <2>3. Ordered' /\ (place' = "call" \/ outcome' # "answered")
    BY <2>1, <2>2, CallStep DEF Ordered
  <2> QED
    BY <1>1, <2>3 DEF Ordered, StopIsTheLastWord
<1>5. CASE Deliver
  <2>1. answers # <<>> /\ driver = "running" /\ control = "mtls"
    BY <1>5 DEF Deliver, OpenInv
  <2>2. CASE place = "call" /\ Head(answers).id = current.id /\ current.id \in pending
    <3>1. PICK result : Return(result, pending \ {Head(answers).id})
      BY <1>5, <2>2 DEF Deliver
    <3>2. answers' = <<>> \/ answers' = Tail(answers)
      BY <1>5, <2>1, <2>2 DEF Deliver, Return, TypeOK, Request, Methods
    <3>3. ClockInv' /\ OrderInv' /\ OpenInv'
      BY <1>2, <2>1, <2>2, <3>1, <3>2
    <3>4. StopIsTheLastWord'
      BY <1>5, <2>1, <2>2, StopStep DEF StopIsTheLastWord
    <3> QED
      BY <1>1, <3>3, <3>4
  <2>3. CASE ~(place = "call" /\ Head(answers).id = current.id /\ current.id \in pending)
    <3>1. UNCHANGED <<control, place, current, outcome, clock, driver, requests, armed>>
          /\ answers' = Tail(answers)
      BY <1>5, <2>3 DEF Deliver
    <3>2. ClockInv' /\ OrderInv'
      BY <2>1, <3>1, QueuesShrink
    <3>3. OpenInv' /\ StopIsTheLastWord'
      BY <2>1, <3>1 DEF OpenInv, StopIsTheLastWord
    <3> QED
      BY <1>1, <3>2, <3>3
  <2> QED
    BY <2>2, <2>3
<1>6. CASE Timeout
  <2>1. PICK waiting : Return("timeout", waiting)
    BY <1>6 DEF Timeout
  <2>2. place = "call" /\ answers' \in {answers, <<>>}
    BY <1>6 DEF Timeout, Return, TypeOK, Request, Methods
  <2>3. ClockInv' /\ OrderInv' /\ OpenInv'
    BY <1>2, <2>1, <2>2
  <2>4. outcome' = "timeout"
    BY <2>1 DEF Return
  <2> QED
    BY <1>1, <2>3, <2>4 DEF StopIsTheLastWord
<1>7. CASE RepeaterReturns
  <2>1. PICK result : Return(result, pending)
    BY <1>7 DEF RepeaterReturns
  <2>2. place = "call" /\ answers' = answers /\ control' = "repeater"
    BY <1>7 DEF RepeaterReturns, Return
  <2>3. ClockInv' /\ OrderInv' /\ OpenInv'
    BY <1>2, <2>1, <2>2
  <2> QED
    BY <1>1, <2>2, <2>3 DEF StopIsTheLastWord
<1>8. CASE Daemon
  <2>1. ClockInv' /\ OrderInv'
    BY <1>8, DaemonStep
  <2>2. requests # <<>> /\ UNCHANGED <<control, place, outcome, driver>>
    BY <1>8 DEF Daemon
  <2>3. OpenInv' /\ StopIsTheLastWord'
    BY <2>2 DEF OpenInv, StopIsTheLastWord
  <2> QED
    BY <1>1, <2>1, <2>3
<1>9. CASE LoseAnswer \/ LoseSession
  <2>1. /\ UNCHANGED <<control, place, current, outcome, clock>>
        /\ requests' \in {requests, <<>>}
        /\ answers' \in {answers, <<>>} \/ (answers # <<>> /\ answers' = Tail(answers))
        /\ driver' = "running" => driver = "running"
        /\ answers # <<>> \/ driver = "running"
    BY <1>9 DEF LoseAnswer, LoseSession
  <2>2. ClockInv' /\ OrderInv'
    BY <2>1, QueuesShrink
  <2>3. OpenInv' /\ StopIsTheLastWord'
    BY <2>1 DEF OpenInv, StopIsTheLastWord
  <2> QED
    BY <1>1, <2>2, <2>3
<1>10. CASE Watchdog \/ UNCHANGED vars
  <2>1. UNCHANGED <<control, place, current, outcome, clock, pending, driver, answers, requests>>
    BY <1>10 DEF Watchdog, vars, session
  <2> QED
    BY <1>1, <2>1 DEF ClockInv, OrderInv, OpenInv, StopIsTheLastWord
<1> QED
  BY <1>3, <1>4, <1>5, <1>6, <1>7, <1>8, <1>9, <1>10 DEF Next

LEMMA CameraInit ==
  ASSUME CameraAssumption, Init
  PROVE  CameraInv
<1> USE DEF Init, Idle, CameraAssumption
<1>1. TypeOK
  <2>1. requests \in Seq(Request) /\ answers \in Seq([id : 0..MaxClock, accepted : BOOLEAN])
    BY EmptySeq
  <2>2. current \in Request
    BY DEF Request, Methods
  <2>3. /\ control \in {"none", "mtls", "repeater"} /\ driver \in {"none", "running", "ended"}
        /\ place \in {"open", "connack", "idle", "call", "done"}
        /\ outcome \in {"none", "answered", "refused", "failed", "timeout"}
    OBVIOUS
  <2>4. clock \in 0..MaxClock /\ losses \in 0..MaxLosses
    OBVIOUS
  <2>5. armed \in BOOLEAN /\ pending \subseteq 0..MaxClock
    BY Zenon
  <2> HIDE DEF Init
  <2> QED
    BY <2>1, <2>2, <2>3, <2>4, <2>5 DEF TypeOK
<1>2. ClockInv /\ OrderInv /\ OpenInv /\ StopIsTheLastWord
  BY DEF ClockInv, OrderInv, OpenInv, StopIsTheLastWord
<1> QED
  BY <1>1, <1>2 DEF CameraInv

LEMMA CameraInvariant ==
  ASSUME CameraAssumption, ~SameInstant
  PROVE  Spec => []CameraInv
<1>1. Init => CameraInv
  BY CameraInit
<1>2. CameraInv /\ [Next]_vars => CameraInv'
  BY CameraStep
<1> QED
  BY <1>1, <1>2, PTL DEF Spec

\* Every state of the camera's control is well typed, whatever the instants of its calls are.
THEOREM CameraTypeCorrect ==
  ASSUME CameraAssumption
  PROVE  Spec => []TypeOK
<1>1. Init => TypeOK /\ OpenInv
  BY CameraInit DEF CameraInv
<1>2. TypeOK /\ OpenInv /\ [Next]_vars => TypeOK' /\ OpenInv'
  BY CameraTypes, OpenStep
<1> QED
  BY <1>1, <1>2, PTL DEF Spec

\* When no two calls are made in the same millisecond, an answered stop leaves no request
\* behind it that could arm the camera again, whatever answers and sessions are lost and
\* whichever calls time out (SnapMqttPublisher::invoke, deliver_response).
THEOREM AnsweredStopIsTheLastWord ==
  ASSUME CameraAssumption, ~SameInstant
  PROVE  Spec => []StopIsTheLastWord
<1>1. CameraInv => StopIsTheLastWord
  BY DEF CameraInv
<1> QED
  BY <1>1, CameraInvariant, PTL
=============================================================================
