----------------------------- MODULE CameraControl -----------------------------
(***************************************************************************)
(* How a video worker arms and disarms the camera of one Snapmaker U1      *)
(* (video/u1_camera.rs): over an MQTT session of its own when the printer  *)
(* is paired, over Moonraker's repeater otherwise.                         *)
(*                                                                         *)
(* Over MQTT a call is a request with the time of day as its id, and an    *)
(* answer with the same id; a task, the driver, carries both.  The         *)
(* repeater has a connection for each call, and answers only to refuse.    *)
(***************************************************************************)
EXTENDS Naturals, Sequences, SequencesExt

CONSTANTS
  MaxClock,    \* a bound on the time of day, in milliseconds
  MaxLosses,   \* a bound on the sessions and answers that are lost
  SameInstant  \* two calls may be made in the same millisecond

CameraAssumption ==
  /\ SameInstant \in BOOLEAN
  /\ MaxClock \in Nat \ {0} /\ MaxLosses \in Nat

VARIABLES
  control,  \* the transport, once it is chosen
  place,    \* where the worker is
  current,  \* the call it is making
  outcome,  \* what the last call returned
  clock,    \* the time of day
  pending,  \* the ids of the requests whose answer is waited for
  driver,   \* the task that drives the MQTT session
  requests, \* the requests on their way to the camera daemon
  answers,  \* the answers on their way to the driver
  armed,    \* the daemon captures
  losses    \* how many sessions and answers were lost

session == <<pending, driver, answers>>
vars == <<control, place, current, outcome, clock, pending, driver, requests, answers,
          armed, losses>>

Methods == {"start", "stop"}
Request == [id : 0..MaxClock, method : Methods]
Idle == [id |-> 0, method |-> "stop"]

TypeOK ==
  /\ control \in {"none", "mtls", "repeater"}
  /\ place \in {"open", "connack", "idle", "call", "done"}
  /\ current \in Request
  /\ outcome \in {"none", "answered", "refused", "failed", "timeout"}
  /\ clock \in 0..MaxClock
  /\ pending \subseteq 0..MaxClock
  /\ driver \in {"none", "running", "ended"}
  /\ requests \in Seq(Request)
  /\ answers \in Seq([id : 0..MaxClock, accepted : BOOLEAN])
  /\ armed \in BOOLEAN
  /\ losses \in 0..MaxLosses

Init ==
  /\ control = "none" /\ place = "open"
  /\ current = Idle /\ outcome = "none"
  /\ clock = 0
  /\ pending = {} /\ driver = "none" /\ requests = <<>> /\ answers = <<>>
  /\ armed = FALSE /\ losses = 0

-----------------------------------------------------------------------------
(* open_control and SnapMqttPublisher::connect.                            *)

\* Without credentials, or without a session, there is the repeater.
UseRepeater ==
  /\ place \in {"open", "connack"}
  /\ control' = "repeater"
  /\ place' = "idle"
  /\ UNCHANGED <<current, outcome, clock, session, requests, armed, losses>>

\* The subscription is put into the client's queue, which sends it after the CONNECT.
BeginConnect ==
  /\ place = "open"
  /\ place' = "connack"
  /\ UNCHANGED <<control, current, outcome, clock, session, requests, armed, losses>>

\* wait_for_connack: accepted in time, and the driver takes over the event loop.
ConnAck ==
  /\ place = "connack"
  /\ control' = "mtls"
  /\ place' = "idle"
  /\ driver' = "running"
  /\ UNCHANGED <<current, outcome, clock, pending, requests, answers, armed, losses>>

-----------------------------------------------------------------------------
(* Calls.                                                                  *)

\* unix_millis_id
Now == {t \in {clock, clock + 1} : t <= MaxClock /\ (SameInstant \/ t > clock)}

\* Where the worker is after a call: once it has called for the stop it is done.
After(method) == IF method = "start" THEN "idle" ELSE "done"

\* SnapMqttPublisher::invoke, up to the publish; that fails when the event loop is gone,
\* and the request is not waited for then.
Invoke(method, id) ==
  /\ clock' = id
  /\ current' = [id |-> id, method |-> method]
  /\ IF driver = "running"
       THEN /\ pending' = pending \cup {id}
            /\ requests' = Append(requests, current')
            /\ place' = "call" /\ outcome' = "none"
            /\ UNCHANGED <<driver, answers>>
       ELSE /\ place' = After(method) /\ outcome' = "failed"
            /\ pending' = pending \ {id}
            /\ UNCHANGED <<driver, requests, answers>>
  /\ UNCHANGED <<control, armed, losses>>

\* repeater::call, up to its sending; the connection may fail.
Repeat(method, id) ==
  /\ clock' = id
  /\ current' = [id |-> id, method |-> method]
  /\ \/ /\ requests' = Append(requests, current')
        /\ place' = "call" /\ outcome' = "none"
     \/ /\ place' = After(method) /\ outcome' = "failed"
        /\ UNCHANGED requests
  /\ UNCHANGED <<control, session, armed, losses>>

Call(method, id) == IF control = "mtls" THEN Invoke(method, id) ELSE Repeat(method, id)

\* CameraControl::start_monitor; the last two instants are left for the stop.
Start ==
  /\ place = "idle"
  /\ \E id \in Now : id + 1 < MaxClock /\ Call("start", id)

\* CameraControl::stop: the worker has left its loop, which it also does in the middle
\* of a start, whose request stays pending.
Stop ==
  /\ place = "idle" \/ (place = "call" /\ current.method = "start")
  /\ \E id \in Now : Call("stop", id)

\* The call returns; a session that has made its last call is torn down, and with the
\* driver goes what it has not sent.
Return(result, waiting) ==
  /\ outcome' = result
  /\ place' = After(current.method)
  /\ IF control = "mtls" /\ current.method = "stop"
       THEN /\ driver' = "ended" /\ answers' = <<>> /\ pending' = waiting
            /\ requests' \in {requests, <<>>}
       ELSE /\ pending' = waiting
            /\ UNCHANGED <<driver, requests>>
  /\ UNCHANGED <<control, current, clock, armed>>

\* deliver_response: the answer to the call the worker makes ends it, any other one
\* (to other clients, to a call that timed out) is dropped.
\* Mutated form: any answer ends the call.
DeliverAny ==
  /\ driver = "running" /\ answers # <<>>
  /\ IF place = "call"
       THEN /\ Return(IF Head(answers).accepted \/ current.method = "stop"
                        THEN "answered" ELSE "refused",
                      pending \ {Head(answers).id})
            /\ current.method = "start" => answers' = Tail(answers)
       ELSE /\ pending' = pending \ {Head(answers).id}
            /\ answers' = Tail(answers)
            /\ UNCHANGED <<control, place, current, outcome, clock, driver, requests, armed>>
  /\ UNCHANGED losses

Deliver ==
  /\ driver = "running" /\ answers # <<>>
  /\ IF place = "call" /\ Head(answers).id = current.id /\ current.id \in pending
       THEN /\ Return(IF Head(answers).accepted \/ current.method = "stop"
                        THEN "answered" ELSE "refused",
                      pending \ {Head(answers).id})
            /\ current.method = "start" => answers' = Tail(answers)
       ELSE /\ pending' = pending \ {Head(answers).id}
            /\ answers' = Tail(answers)
            /\ UNCHANGED <<control, place, current, outcome, clock, driver, requests, armed>>
  /\ UNCHANGED losses

\* No answer in time: MQTT_RESPONSE_BUDGET for a start, whose id is taken back, and
\* STOP_MONITOR_BUDGET for a stop, whose call is dropped as it stands.
Timeout ==
  /\ place = "call" /\ control = "mtls"
  /\ Return("timeout", IF current.method = "start" THEN pending \ {current.id} ELSE pending)
  /\ current.method = "start" => UNCHANGED answers
  /\ UNCHANGED losses

\* The repeater refuses or closes, or is silent for OBJECTION_GRACE, which is taken for
\* success; a stop may also run out of its budget.
RepeaterReturns ==
  /\ place = "call" /\ control = "repeater"
  /\ \E result \in {"answered", "refused", "failed", "timeout"} :
       /\ result = "timeout" => current.method = "stop"
       /\ Return(result, pending)
  /\ UNCHANGED <<answers, losses>>

-----------------------------------------------------------------------------
(* The printer, and the network.                                           *)

\* The camera daemon takes a request.  Those of one session come in their order, those
\* of the repeater's connections in any order.  Only MQTT brings the answer back.
Daemon ==
  /\ \E i \in DOMAIN requests, accepted \in BOOLEAN :
       /\ control = "mtls" => i = 1
       /\ requests' = RemoveAt(requests, i)
       /\ armed' = IF accepted THEN requests[i].method = "start" ELSE armed
       /\ answers' = IF driver = "running"
                       THEN Append(answers, [id |-> requests[i].id, accepted |-> accepted])
                       ELSE answers
  /\ UNCHANGED <<control, place, current, outcome, clock, pending, driver, losses>>

\* An answer is lost, which QoS 0 permits.
LoseAnswer ==
  /\ answers # <<>> /\ losses < MaxLosses
  /\ answers' = Tail(answers)
  /\ losses' = losses + 1
  /\ UNCHANGED <<control, place, current, outcome, clock, pending, driver, requests, armed>>

\* drive_eventloop ends with the session's first error.
LoseSession ==
  /\ driver = "running" /\ losses < MaxLosses
  /\ driver' = "ended"
  /\ answers' = <<>>
  /\ requests' \in {requests, <<>>}
  /\ losses' = losses + 1
  /\ UNCHANGED <<control, place, current, outcome, clock, pending, armed>>

\* The daemon's watchdog ends the capture.
Watchdog ==
  /\ armed
  /\ armed' = FALSE
  /\ UNCHANGED <<control, place, current, outcome, clock, session, requests, losses>>

Next ==
  \/ UseRepeater \/ BeginConnect \/ ConnAck
  \/ Start \/ Stop \/ Deliver \/ Timeout \/ RepeaterReturns
  \/ Daemon \/ LoseAnswer \/ LoseSession \/ Watchdog

Spec == Init /\ [][Next]_vars

-----------------------------------------------------------------------------

\* When the daemon's answer to the stop has ended the session, no request of it is left
\* that could arm the camera again: the answer is the one to the stop, and the daemon
\* has taken everything before it (SnapMqttPublisher::invoke and deliver_response).
StopIsTheLastWord ==
  place = "done" /\ control = "mtls" /\ outcome = "answered" => requests = <<>>
=============================================================================
