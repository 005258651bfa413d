------------------------- MODULE VideoStreamsProofs -------------------------
(***************************************************************************)
(* Proofs about VideoStreams, for every set of devices, viewers, workers   *)
(* and endpoints.  The invariants are proved from a strengthening that     *)
(* says who may refer to a worker: a live worker is the one in its         *)
(* device's handle, or the one a viewer who holds the device's mutex is    *)
(* about to register.                                                      *)
(***************************************************************************)
EXTENDS VideoStreams, SequenceTheorems, TLAPS

\* A viewer has a device unless it is idle, and a worker to register exactly
\* while it holds the mutex of its device, which one viewer holds at a time.
ViewerInv ==
  /\ \A v \in Viewers : pc[v] = "idle" <=> target[v] = None
  /\ \A v \in Viewers : pc[v] = "register" <=> spawned[v] # None
  /\ \A u, v \in Viewers :
       (pc[u] = "register" /\ pc[v] = "register" /\ target[u] = target[v]) => u = v
  /\ \A u, v \in Viewers : (spawned[u] # None /\ spawned[u] = spawned[v]) => u = v
  /\ \A v \in Viewers : spawned[v] # None => device[spawned[v]] = target[v]

\* A task that runs has a device, of the kind its place belongs to, and an
\* endpoint in hand while it is at one.
TaskInv ==
  /\ \A w \in Workers : wpc[w] # "gone" => device[w] # None
  /\ \A w \in Workers : wpc[w] \in MoonrakerStates => device[w] \in Moonraker
  /\ \A w \in Workers : wpc[w] \in BambuStates => left[w] # <<>>

\* Who refers to a live worker.
HandleInv ==
  /\ \A d \in Devices : worker[d] # None => device[worker[d]] = d
  /\ \A w \in finished : wpc[w] = "gone" \/ w \in aborted
  /\ \A w \in Workers :
       Live(w) => worker[device[w]] = w \/ \E v \in Viewers : spawned[v] = w
  /\ \A v \in Viewers :
       spawned[v] # None => ~HasWorker(target[v])

\* Who armed a camera has not yet left its loop, or is about to disarm it.
CameraInv ==
  \A d \in Moonraker :
    camera[d] \in Workers =>
      /\ wpc[camera[d]] \notin {"gone", "finish"}
      /\ device[camera[d]] = d

StreamInv == TypeOK /\ ViewerInv /\ TaskInv /\ HandleInv /\ CameraInv

-----------------------------------------------------------------------------
(* Types.                                                                  *)

\* order_endpoints returns configured endpoints, and at least one.
LEMMA OrderedEndpoints ==
  ASSUME TypeOK, NEW d \in Devices
  PROVE  OrderEndpoints(d) \in Seq(EndpointSet) /\ OrderEndpoints(d) # <<>>
<1> DEFINE last == CHOOSE k \in DOMAIN Endpoints : Endpoints[k] = remembered[d]
           n == Len(Endpoints)
<1>1. /\ Endpoints \in Seq(EndpointSet)
      /\ n \in Nat \ {0}
      /\ DOMAIN Endpoints = 1..n
      /\ \A k \in 1..n : Endpoints[k] \in EndpointSet
  BY StreamsAssumption DEF EndpointSet
<1>2. CASE remembered[d] = None
  BY <1>1, <1>2, StreamsAssumption DEF OrderEndpoints
<1>3. CASE remembered[d] # None
  <2>1. remembered[d] \in EndpointSet
    BY <1>3 DEF TypeOK
  <2>2. last \in 1..n
    BY <2>1, <1>1 DEF EndpointSet
  <2>3. OrderEndpoints(d) = [k \in 1..n |->
           IF k = 1 THEN Endpoints[last]
           ELSE IF k <= last THEN Endpoints[k - 1] ELSE Endpoints[k]]
    BY <1>1, <1>3 DEF OrderEndpoints
  <2>4. \A k \in 1..n : (IF k = 1 THEN Endpoints[last]
           ELSE IF k <= last THEN Endpoints[k - 1] ELSE Endpoints[k]) \in EndpointSet
    BY <1>1, <2>2
  <2>5. OrderEndpoints(d) \in [1..n -> EndpointSet]
    BY <2>3, <2>4
  <2>6. OrderEndpoints(d) \in Seq(EndpointSet) /\ Len(OrderEndpoints(d)) = n
    BY <2>5, <1>1
  <2> QED
    BY <2>6, <1>1
<1> QED
  BY <1>2, <1>3

\* Everything that a step of the viewers leaves well typed.
LEMMA ViewerTypes ==
  ASSUME StreamInv, Viewing
  PROVE  TypeOK'
<1> USE DEF ViewerStates, WorkerStates, handles, monitoring, outside, working, viewing
<1> SUFFICES ASSUME NEW v \in Viewers,
                    \/ \E d \in Devices : Subscribe(v, d)
                    \/ JoinWorker(v)
                    \/ \E w \in Workers : SpawnWorker(v, w)
                    \/ RegisterWorker(v) \/ RegisterFails(v)
                    \/ ViewerLeaves(v)
             PROVE  TypeOK'
  BY DEF Viewing
<1> USE StreamsAssumption DEF StreamInv
<1>1. ASSUME NEW d \in Devices, Subscribe(v, d) PROVE TypeOK'
  BY <1>1 DEF TypeOK, Subscribe
<1>2. CASE JoinWorker(v)
  BY <1>2 DEF TypeOK, JoinWorker
<1>3. ASSUME NEW w \in Workers, SpawnWorker(v, w) PROVE TypeOK'
  <2>1. target[v] \in Devices
    BY <1>3 DEF TypeOK, ViewerInv, SpawnWorker
  <2> QED
    BY <1>3, <2>1 DEF TypeOK, SpawnWorker
<1>4. CASE RegisterWorker(v)
  <2>1. target[v] \in Devices /\ spawned[v] \in Workers
    BY <1>4 DEF TypeOK, ViewerInv, RegisterWorker
  <2>2. lifecycle' \in Seq(Workers) /\ Len(lifecycle') <= QueueCapacity
    BY <1>4, <2>1 DEF TypeOK, RegisterWorker, HasRoom
  <2>3. aborted' \subseteq Workers
    BY <1>4, <2>1 DEF TypeOK, RegisterWorker
  <2> QED
    BY <1>4, <2>1, <2>2, <2>3 DEF TypeOK, RegisterWorker
<1>5. CASE RegisterFails(v)
  <2>1. spawned[v] \in Workers
    BY <1>5 DEF TypeOK, ViewerInv, RegisterFails
  <2> QED
    BY <1>5, <2>1 DEF TypeOK, RegisterFails, Leave
<1>6. CASE ViewerLeaves(v)
  BY <1>6 DEF TypeOK, ViewerLeaves, Leave
<1> QED
  BY <1>1, <1>2, <1>3, <1>4, <1>5, <1>6

\* An attempt that goes on to the next endpoint stays well typed.
LEMMA NextEndpointTypes ==
  ASSUME TypeOK, NEW w \in Workers, left[w] # <<>>, NextEndpoint(w)
  PROVE  /\ wpc' \in [Workers -> WorkerStates]
         /\ left' \in [Workers -> Seq(EndpointSet)]
         /\ wpc'[w] \in {"check", "failed", "connect"}
         /\ wpc'[w] = "connect" => left'[w] # <<>>
<1>1. left[w] \in Seq(EndpointSet) /\ Tail(left[w]) \in Seq(EndpointSet)
  BY DEF TypeOK
<1> QED
  BY <1>1 DEF TypeOK, NextEndpoint, MoveTo, WorkerStates, BambuStates

\* Everything that a step of a worker leaves well typed.
LEMMA WorkerTypes ==
  ASSUME StreamInv, NEW w \in Workers, WorkerStep(w)
  PROVE  TypeOK'
<1> USE DEF ViewerStates, WorkerStates, BambuStates, MoonrakerStates, handles,
            monitoring, outside, working, viewing, MoveTo, AfterLoop
<1> USE StreamsAssumption DEF StreamInv
<1>1. CASE StartWorker(w)
  BY <1>1 DEF TypeOK, StartWorker
<1>2. CASE LeaveLoop(w)
  BY <1>2 DEF TypeOK, LeaveLoop
<1>3. CASE AttemptFailed(w)
  BY <1>3 DEF TypeOK, AttemptFailed
<1>4. CASE WakeUp(w)
  BY <1>4 DEF TypeOK, WakeUp
<1>5. CASE ShutdownReached(w)
  <2>1. wpc' \in [Workers -> WorkerStates]
    BY <1>5 DEF TypeOK, ShutdownReached
  <2>2. camera' \in [Moonraker -> Workers \cup {None, Unattended}]
    BY <1>5 DEF TypeOK, ShutdownReached
  <2> QED
    BY <1>5, <2>1, <2>2 DEF TypeOK, ShutdownReached
<1>6. CASE FinishWorker(w)
  BY <1>6 DEF TypeOK, FinishWorker
<1>7. CASE BeginAttempt(w)
  <2>1. device[w] \in Devices
    BY <1>7 DEF TypeOK, TaskInv, BeginAttempt
  <2>2. OrderEndpoints(device[w]) \in Seq(EndpointSet)
    BY <2>1, OrderedEndpoints
  <2> QED
    BY <1>7, <2>2 DEF TypeOK, BeginAttempt
<1>8. CASE Connect(w)
  <2>1. CASE UNCHANGED left /\ MoveTo(w, "read")
    BY <1>8, <2>1 DEF TypeOK, Connect
  <2>2. CASE NextEndpoint(w)
    <3>1. left[w] # <<>>
      BY <1>8 DEF TaskInv, Connect
    <3>2. wpc' \in [Workers -> WorkerStates] /\ left' \in [Workers -> Seq(EndpointSet)]
      BY <2>2, <3>1, NextEndpointTypes
    <3> QED
      BY <1>8, <3>2 DEF TypeOK, Connect
  <2> QED
    BY <1>8, <2>1, <2>2 DEF Connect
<1>9. CASE ReadFrame(w)
  <2>1. left[w] \in Seq(EndpointSet) /\ left[w] # <<>>
    BY <1>9 DEF TypeOK, TaskInv, ReadFrame
  <2>2. Head(left[w]) \in EndpointSet
    BY <2>1
  <2>3. served' \subseteq Viewers
    BY <1>9 DEF TypeOK, ReadFrame, SendFrame, Clients
  <2> QED
    BY <1>9, <2>2, <2>3 DEF TypeOK, ReadFrame
<1>10. CASE StopReading(w)
  BY <1>10 DEF TypeOK, StopReading
<1>11. CASE ReadFails(w)
  <2>1. left[w] # <<>>
    BY <1>11 DEF TaskInv, ReadFails
  <2>2. wpc' \in [Workers -> WorkerStates] /\ left' \in [Workers -> Seq(EndpointSet)]
    BY <1>11, <2>1, NextEndpointTypes DEF ReadFails
  <2> QED
    BY <1>11, <2>2 DEF TypeOK, ReadFails
<1>12. CASE OpenControl(w)
  BY <1>12 DEF TypeOK, OpenControl
<1>13. CASE BeginPoll(w)
  BY <1>13 DEF TypeOK, BeginPoll
<1>14. CASE WakeCamera(w)
  <2>1. camera' \in [Moonraker -> Workers \cup {None, Unattended}]
    BY <1>14 DEF TypeOK, WakeCamera
  <2>2. due' \subseteq Workers /\ wpc' \in [Workers -> WorkerStates]
    BY <1>14 DEF TypeOK, WakeCamera
  <2> QED
    BY <1>14, <2>1, <2>2 DEF TypeOK, WakeCamera
<1>15. CASE Poll(w)
  <2>1. served' \subseteq Viewers
    BY <1>15 DEF TypeOK, Poll, SendFrame, Clients
  <2> QED
    BY <1>15, <2>1 DEF TypeOK, Poll
<1>16. CASE StopCamera(w)
  BY <1>16 DEF TypeOK, StopCamera
<1>17. CASE Stalls(w)
  BY <1>17 DEF TypeOK, Stalls
<1>18. CASE HandshakeEnds(w)
  <2>1. CASE UNCHANGED left /\ MoveTo(w, "read")
    BY <1>18, <2>1 DEF TypeOK, HandshakeEnds
  <2>2. CASE NextEndpoint(w)
    <3>1. left[w] # <<>>
      BY <1>18 DEF TaskInv, HandshakeEnds
    <3>2. wpc' \in [Workers -> WorkerStates] /\ left' \in [Workers -> Seq(EndpointSet)]
      BY <2>2, <3>1, NextEndpointTypes
    <3> QED
      BY <1>18, <3>2 DEF TypeOK, HandshakeEnds
  <2> QED
    BY <1>18, <2>1, <2>2 DEF HandshakeEnds
<1> QED
  BY <1>1, <1>2, <1>3, <1>4, <1>5, <1>6, <1>7, <1>8, <1>9, <1>10, <1>11, <1>12,
     <1>13, <1>14, <1>15, <1>16, <1>17, <1>18 DEF WorkerStep, WorkerProgress

\* Everything that a step of the monitor or of the environment leaves well typed.
LEMMA OtherTypes ==
  ASSUME StreamInv, Monitoring \/ Environment
  PROVE  TypeOK'
<1> USE DEF ViewerStates, WorkerStates, BambuStates, MoonrakerStates, handles,
            monitoring, outside, working, viewing, MoveTo
<1> USE StreamsAssumption DEF StreamInv
<1>1. CASE ReceiveWorker
  <2>1. Head(lifecycle) \in Workers /\ Tail(lifecycle) \in Seq(Workers)
        /\ Len(Tail(lifecycle)) <= QueueCapacity
    BY <1>1 DEF TypeOK, ReceiveWorker
  <2> QED
    BY <1>1, <2>1 DEF TypeOK, ReceiveWorker
<1>2. CASE DrainWorkers
  BY <1>2 DEF TypeOK, DrainWorkers
<1>3. CASE MonitorStops
  <2>1. <<>> \in Seq(Workers) /\ Len(<<>>) <= QueueCapacity
    OBVIOUS
  <2> QED
    BY <1>3, <2>1 DEF TypeOK, MonitorStops
<1>4. ASSUME NEW w \in Workers, ObserveWorker(w) PROVE TypeOK'
  BY <1>4 DEF TypeOK, ObserveWorker
<1>5. CASE Shutdown
  BY <1>5 DEF TypeOK, Shutdown
<1>6. ASSUME NEW w \in Workers, WorkerPanics(w) PROVE TypeOK'
  <2>1. camera' \in [Moonraker -> Workers \cup {None, Unattended}]
    BY <1>6 DEF TypeOK, WorkerPanics, Dies
  <2> QED
    BY <1>6, <2>1 DEF TypeOK, WorkerPanics, Dies
<1>7. ASSUME NEW w \in Workers, WorkerCancelled(w) PROVE TypeOK'
  <2>1. camera' \in [Moonraker -> Workers \cup {None, Unattended}]
    BY <1>7 DEF TypeOK, WorkerCancelled, Dies
  <2> QED
    BY <1>7, <2>1 DEF TypeOK, WorkerCancelled, Dies
<1>8. ASSUME NEW w \in Workers, HeartbeatDue(w) PROVE TypeOK'
  BY <1>8 DEF TypeOK, HeartbeatDue
<1>9. ASSUME NEW d \in Moonraker, Watchdog(d) PROVE TypeOK'
  BY <1>9 DEF TypeOK, Watchdog
<1>10. ASSUME NEW d \in Devices \ Moonraker, NEW es \in SUBSET EndpointSet,
              ServerMoves(d, es)
       PROVE  TypeOK'
  BY <1>10 DEF TypeOK, ServerMoves
<1> QED
  BY <1>1, <1>2, <1>3, <1>4, <1>5, <1>6, <1>7, <1>8, <1>9, <1>10
     DEF Monitoring, Environment

-----------------------------------------------------------------------------
(* Who refers to a worker.                                                 *)

\* The steps of the viewers keep the references in order.
LEMMA ViewerReferences ==
  ASSUME StreamInv, Viewing
  PROVE  ViewerInv' /\ TaskInv' /\ HandleInv' /\ CameraInv'
<1> USE DEF ViewerStates, handles, monitoring, outside, working, viewing
<1> SUFFICES ASSUME NEW v \in Viewers,
                    \/ \E d \in Devices : Subscribe(v, d)
                    \/ JoinWorker(v)
                    \/ \E w \in Workers : SpawnWorker(v, w)
                    \/ RegisterWorker(v) \/ RegisterFails(v)
                    \/ ViewerLeaves(v)
             PROVE  ViewerInv' /\ TaskInv' /\ HandleInv' /\ CameraInv'
  BY DEF Viewing
<1> USE StreamsAssumption DEF StreamInv, TypeOK
<1>1. ASSUME NEW d \in Devices, Subscribe(v, d)
      PROVE  ViewerInv' /\ TaskInv' /\ HandleInv' /\ CameraInv'
  <2>1. ViewerInv'
    BY <1>1 DEF ViewerInv, Subscribe
  <2>2. TaskInv' /\ CameraInv'
    BY <1>1 DEF TaskInv, CameraInv, Subscribe
  <2>3. HandleInv'
    BY <1>1 DEF HandleInv, ViewerInv, HasWorker, Live, Subscribe
  <2> QED
    BY <2>1, <2>2, <2>3
<1>2. CASE JoinWorker(v)
  <2>1. ViewerInv'
    BY <1>2 DEF ViewerInv, JoinWorker
  <2>2. TaskInv' /\ CameraInv'
    BY <1>2 DEF TaskInv, CameraInv, JoinWorker
  <2>3. HandleInv'
    BY <1>2 DEF HandleInv, HasWorker, Live, JoinWorker
  <2> QED
    BY <2>1, <2>2, <2>3
<1>3. ASSUME NEW w \in Workers, SpawnWorker(v, w)
      PROVE  ViewerInv' /\ TaskInv' /\ HandleInv' /\ CameraInv'
  <2>1. /\ target[v] \in Devices
        /\ spawned[v] = None
        /\ wpc[w] = "gone"
        /\ \A d \in Devices : worker[d] # w
        /\ \A u \in Viewers : spawned[u] # w
        /\ w # None
    BY <1>3 DEF ViewerInv, SpawnWorker, Unused
  <2>2. ViewerInv'
    BY <1>3, <2>1 DEF ViewerInv, SpawnWorker, Unlocked
  <2>3. TaskInv'
    BY <1>3, <2>1 DEF TaskInv, SpawnWorker, MoonrakerStates, BambuStates
  <2>4. CameraInv'
    BY <1>3, <2>1 DEF CameraInv, SpawnWorker
  <2>5. \A d \in Devices : worker'[d] # None => device'[worker'[d]] = d
    BY <1>3, <2>1 DEF HandleInv, SpawnWorker
  <2>6. \A x \in finished' : wpc'[x] = "gone" \/ x \in aborted'
    BY <1>3, <2>1 DEF HandleInv, SpawnWorker
  <2>7. ASSUME NEW x \in Workers, Live(x)'
        PROVE  worker'[device'[x]] = x \/ \E u \in Viewers : spawned'[u] = x
    <3>1. CASE x = w
      BY <1>3, <3>1 DEF SpawnWorker
    <3>2. CASE x # w
      <4>1. Live(x) /\ device'[x] = device[x] /\ worker' = worker
        BY <1>3, <2>7, <3>2 DEF SpawnWorker, Live
      <4>2. ASSUME NEW u \in Viewers, spawned[u] = x PROVE spawned'[u] = x
        BY <1>3, <2>1, <4>2 DEF SpawnWorker
      <4> QED
        BY <4>1, <4>2 DEF HandleInv
    <3> QED
      BY <3>1, <3>2
  <2>8. ASSUME NEW u \in Viewers, spawned'[u] # None PROVE ~HasWorker(target[u])'
    <3>1. ~HasWorker(target[u]) /\ target[u] \in Devices
      BY <1>3, <2>1, <2>8 DEF HandleInv, ViewerInv, SpawnWorker
    <3> QED
      BY <1>3, <2>1, <3>1 DEF SpawnWorker, HasWorker
  <2>9. HandleInv'
    BY <2>5, <2>6, <2>7, <2>8 DEF HandleInv
  <2> QED
    BY <2>2, <2>3, <2>4, <2>9
<1>4. CASE RegisterWorker(v)
  <2>1. /\ target[v] \in Devices
        /\ spawned[v] \in Workers
        /\ device[spawned[v]] = target[v]
    BY <1>4 DEF ViewerInv, RegisterWorker
  <2>2. ViewerInv'
    BY <1>4, <2>1 DEF ViewerInv, RegisterWorker
  <2>3. TaskInv' /\ CameraInv'
    BY <1>4 DEF TaskInv, CameraInv, RegisterWorker
  <2>4. \A d \in Devices : worker'[d] # None => device'[worker'[d]] = d
    BY <1>4, <2>1 DEF HandleInv, RegisterWorker
  <2>5. \A x \in finished' : wpc'[x] = "gone" \/ x \in aborted'
    BY <1>4 DEF HandleInv, RegisterWorker
  <2>6. ASSUME NEW x \in Workers, Live(x)'
        PROVE  worker'[device'[x]] = x \/ \E u \in Viewers : spawned'[u] = x
    <3>1. Live(x) /\ device' = device /\ x # worker[target[v]]
      BY <1>4, <2>6 DEF Live, RegisterWorker
    <3>2. CASE worker[device[x]] = x
      BY <1>4, <2>1, <3>1, <3>2 DEF RegisterWorker
    <3>3. ASSUME NEW u \in Viewers, spawned[u] = x
          PROVE  worker'[device'[x]] = x \/ spawned'[u] = x
      BY <1>4, <2>1, <3>1, <3>3 DEF RegisterWorker
    <3> QED
      BY <3>1, <3>2, <3>3 DEF HandleInv
  <2>7. ASSUME NEW u \in Viewers, spawned'[u] # None PROVE ~HasWorker(target[u])'
    <3>1. u # v /\ spawned[u] # None
      BY <1>4, <2>7 DEF RegisterWorker
    <3>2. target[u] # target[v] /\ target[u] \in Devices
      BY <1>4, <3>1 DEF ViewerInv, RegisterWorker
    <3>3. worker'[target'[u]] = worker[target[u]]
      BY <1>4, <3>2 DEF RegisterWorker
    <3> QED
      BY <1>4, <3>1, <3>3 DEF HandleInv, HasWorker, RegisterWorker
  <2>8. HandleInv'
    BY <2>4, <2>5, <2>6, <2>7 DEF HandleInv
  <2> QED
    BY <2>2, <2>3, <2>8
<1>5. CASE RegisterFails(v)
  <2>1. spawned[v] \in Workers
    BY <1>5 DEF ViewerInv, RegisterFails
  <2>2. ViewerInv'
    BY <1>5 DEF ViewerInv, RegisterFails, Leave
  <2>3. TaskInv' /\ CameraInv'
    BY <1>5 DEF TaskInv, CameraInv, RegisterFails
  <2>4. HandleInv'
    BY <1>5, <2>1 DEF HandleInv, HasWorker, Live, RegisterFails, Leave
  <2> QED
    BY <2>2, <2>3, <2>4
<1>6. CASE ViewerLeaves(v)
  <2>1. spawned[v] = None
    BY <1>6 DEF ViewerInv, ViewerLeaves
  <2>2. ViewerInv'
    BY <1>6 DEF ViewerInv, ViewerLeaves, Leave
  <2>3. TaskInv' /\ CameraInv'
    BY <1>6 DEF TaskInv, CameraInv, ViewerLeaves
  <2>4. HandleInv'
    BY <1>6, <2>1 DEF HandleInv, HasWorker, Live, ViewerLeaves, Leave
  <2> QED
    BY <2>2, <2>3, <2>4
<1> QED
  BY <1>1, <1>2, <1>3, <1>4, <1>5, <1>6

\* What a step of task w may do: it moves that task, alone, to a place it may be
\* at; it may arm the camera of its own device, and is not at the end of its way
\* with a camera armed; it is marked finished only when it is over.
TaskStep(w) ==
  /\ UNCHANGED <<pc, target, spawned, worker, device, aborted>>
  /\ wpc[w] # "gone"
  /\ \A x \in Workers \ {w} : wpc'[x] = wpc[x] /\ left'[x] = left[x]
  /\ wpc'[w] \in MoonrakerStates => device[w] \in Moonraker
  /\ wpc'[w] \in BambuStates => left'[w] # <<>>
  /\ finished' = finished \/ (finished' = finished \cup {w} /\ wpc'[w] = "gone")
  /\ \A d \in Moonraker :
       camera'[d] \in Workers =>
         \/ camera'[d] = camera[d] /\ (camera[d] = w => wpc'[w] \notin {"gone", "finish"})
         \/ camera'[d] = w /\ device[w] = d /\ wpc'[w] \notin {"gone", "finish"}

\* Every step of a worker is such a step.
LEMMA WorkerStepIsTaskStep ==
  ASSUME StreamInv, NEW w \in Workers, WorkerStep(w)
  PROVE  TaskStep(w)
<1> USE DEF WorkerStates, BambuStates, MoonrakerStates, handles,
            monitoring, outside, working, viewing, MoveTo, AfterLoop
<1> USE StreamsAssumption DEF StreamInv, TypeOK
<1>0. /\ wpc \in [Workers -> WorkerStates]
      /\ left \in [Workers -> Seq(EndpointSet)]
      /\ wpc[w] \in MoonrakerStates => device[w] \in Moonraker
      /\ wpc[w] \in BambuStates => left[w] # <<>>
      /\ wpc[w] # "gone" => device[w] \in Devices
      /\ \A d \in Moonraker : camera[d] = w => device[w] = d /\ wpc[w] # "finish"
  BY DEF TaskInv, CameraInv
<1>1. CASE StartWorker(w)
  BY <1>0, <1>1 DEF TaskStep, StartWorker
<1>2. CASE LeaveLoop(w)
  BY <1>0, <1>2 DEF TaskStep, LeaveLoop
<1>3. CASE AttemptFailed(w)
  BY <1>0, <1>3 DEF TaskStep, AttemptFailed
<1>4. CASE WakeUp(w)
  BY <1>0, <1>4 DEF TaskStep, WakeUp
<1>5. CASE ShutdownReached(w)
  <2>1. /\ wpc'[w] = IF device[w] \in Moonraker THEN "stop" ELSE "finish"
        /\ \A x \in Workers \ {w} : wpc'[x] = wpc[x]
    <3>1. wpc' = [wpc EXCEPT ![w] = IF device[w] \in Moonraker THEN "stop" ELSE "finish"]
      BY <1>5 DEF ShutdownReached
    <3> QED
      BY <1>0, <3>1
  <2>2. \A d \in Moonraker :
          camera'[d] = camera[d] \/ (camera'[d] = w /\ device[w] = d /\ wpc[w] = "wake")
    <3>1. CASE UNCHANGED camera
      BY <3>1
    <3>2. CASE wpc[w] = "wake" /\ camera' = [camera EXCEPT ![device[w]] = w]
      BY <1>0, <3>2
    <3> QED
      BY <1>5, <3>1, <3>2 DEF ShutdownReached
  <2> QED
    BY <1>0, <1>5, <2>1, <2>2 DEF TaskStep, ShutdownReached
<1>6. CASE FinishWorker(w)
  BY <1>0, <1>6 DEF TaskStep, FinishWorker
<1>7. CASE BeginAttempt(w)
  <2>1. OrderEndpoints(device[w]) # <<>>
    BY <1>0, <1>7, OrderedEndpoints DEF BeginAttempt
  <2> QED
    BY <1>0, <1>7, <2>1 DEF TaskStep, BeginAttempt
<1>8. CASE Connect(w)
  <2>1. CASE UNCHANGED left /\ MoveTo(w, "read")
    BY <1>0, <1>8, <2>1 DEF TaskStep, Connect
  <2>2. CASE NextEndpoint(w)
    <3>1. /\ wpc'[w] \in {"check", "failed", "connect"}
          /\ wpc'[w] = "connect" => left'[w] # <<>>
      BY <1>0, <1>8, <2>2, NextEndpointTypes DEF Connect
    <3>2. \A x \in Workers \ {w} : wpc'[x] = wpc[x] /\ left'[x] = left[x]
      BY <2>2 DEF NextEndpoint
    <3> QED
      BY <1>0, <1>8, <3>1, <3>2 DEF TaskStep, Connect
  <2> QED
    BY <1>8, <2>1, <2>2 DEF Connect
<1>9. CASE ReadFrame(w)
  BY <1>0, <1>9 DEF TaskStep, ReadFrame
<1>10. CASE StopReading(w)
  BY <1>0, <1>10 DEF TaskStep, StopReading
<1>11. CASE ReadFails(w)
  <2>1. /\ wpc'[w] \in {"check", "failed", "connect"}
        /\ wpc'[w] = "connect" => left'[w] # <<>>
    BY <1>0, <1>11, NextEndpointTypes DEF ReadFails
  <2>2. \A x \in Workers \ {w} : wpc'[x] = wpc[x] /\ left'[x] = left[x]
    BY <1>11 DEF ReadFails, NextEndpoint
  <2> QED
    BY <1>0, <1>11, <2>1, <2>2 DEF TaskStep, ReadFails
<1>12. CASE OpenControl(w)
  BY <1>0, <1>12 DEF TaskStep, OpenControl
<1>13. CASE BeginPoll(w)
  BY <1>0, <1>13 DEF TaskStep, BeginPoll
<1>14. CASE WakeCamera(w)
  BY <1>0, <1>14 DEF TaskStep, WakeCamera
<1>15. CASE Poll(w)
  BY <1>0, <1>15 DEF TaskStep, Poll
<1>16. CASE StopCamera(w)
  <2>1. \A d \in Moonraker :
          camera'[d] \in Workers => camera'[d] = camera[d] /\ d # device[w]
    BY <1>0, <1>16 DEF StopCamera
  <2> QED
    BY <1>0, <1>16, <2>1 DEF TaskStep, StopCamera
<1>17. CASE Stalls(w)
  BY <1>0, <1>17 DEF TaskStep, Stalls
<1>18. CASE HandshakeEnds(w)
  <2>1. CASE UNCHANGED left /\ MoveTo(w, "read")
    BY <1>0, <1>18, <2>1 DEF TaskStep, HandshakeEnds
  <2>2. CASE NextEndpoint(w)
    <3>1. /\ wpc'[w] \in {"check", "failed", "connect"}
          /\ wpc'[w] = "connect" => left'[w] # <<>>
      BY <1>0, <1>18, <2>2, NextEndpointTypes DEF HandshakeEnds
    <3>2. \A x \in Workers \ {w} : wpc'[x] = wpc[x] /\ left'[x] = left[x]
      BY <2>2 DEF NextEndpoint
    <3> QED
      BY <1>0, <1>18, <3>1, <3>2 DEF TaskStep, HandshakeEnds
  <2> QED
    BY <1>18, <2>1, <2>2 DEF HandshakeEnds
<1> QED
  BY <1>1, <1>2, <1>3, <1>4, <1>5, <1>6, <1>7, <1>8, <1>9, <1>10, <1>11, <1>12,
     <1>13, <1>14, <1>15, <1>16, <1>17, <1>18 DEF WorkerStep, WorkerProgress

\* So is the end of a task that panics or is cancelled: the camera it leaves armed
\* is unattended.
LEMMA DyingIsTaskStep ==
  ASSUME StreamInv, NEW w \in Workers, WorkerPanics(w) \/ WorkerCancelled(w)
  PROVE  TaskStep(w)
<1> USE DEF WorkerStates, BambuStates, MoonrakerStates, handles,
            monitoring, outside, working, viewing, MoveTo
<1> USE StreamsAssumption DEF StreamInv, TypeOK
<1>1. wpc'[w] = "gone" /\ \A x \in Workers \ {w} : wpc'[x] = wpc[x]
  BY DEF WorkerPanics, WorkerCancelled, Dies
<1>2. \A d \in Moonraker : camera'[d] \in Workers => camera'[d] = camera[d] /\ camera[d] # w
  <2> DEFINE abandoned == [d \in Moonraker |-> IF camera[d] = w THEN Unattended
                                               ELSE camera[d]]
  <2>1. camera' \in {abandoned, [abandoned EXCEPT ![device[w]] = Unattended]}
        \/ camera' = abandoned
    BY DEF WorkerPanics, WorkerCancelled, Dies
  <2>2. CASE camera' = abandoned
    BY <2>2
  <2>3. CASE camera' = [abandoned EXCEPT ![device[w]] = Unattended]
    BY <2>3
  <2> QED
    BY <2>1, <2>2, <2>3
<1> QED
  BY <1>1, <1>2 DEF TaskStep, WorkerPanics, WorkerCancelled

\* The steps of the tasks keep the references in order.
LEMMA TaskReferences ==
  ASSUME StreamInv, NEW w \in Workers, TaskStep(w)
  PROVE  ViewerInv' /\ TaskInv' /\ HandleInv' /\ CameraInv'
<1>1. ViewerInv'
  BY DEF StreamInv, ViewerInv, TaskStep
<1>2. TaskInv'
  BY DEF StreamInv, TaskInv, TaskStep, MoonrakerStates, BambuStates
<1>3. HandleInv'
  <2>1. \A x \in Workers : Live(x)' => Live(x)
    BY DEF TaskStep, Live
  <2>2. \A d \in Devices : HasWorker(d)' => HasWorker(d)
    BY DEF TaskStep, HasWorker
  <2>3. \A x \in finished' : wpc'[x] = "gone" \/ x \in aborted'
    BY DEF StreamInv, TypeOK, HandleInv, TaskStep
  <2>4. \A v \in Viewers : spawned[v] # None => target[v] \in Devices
    BY DEF StreamInv, TypeOK, ViewerInv
  <2> QED
    BY <2>1, <2>2, <2>3, <2>4 DEF StreamInv, HandleInv, TaskStep
<1>4. CameraInv'
  BY DEF StreamInv, CameraInv, TaskStep
<1> QED
  BY <1>1, <1>2, <1>3, <1>4

\* The steps of the monitor and the rest of the environment leave them alone.
LEMMA OtherReferences ==
  ASSUME StreamInv, Monitoring \/ Environment
  PROVE  ViewerInv' /\ TaskInv' /\ HandleInv' /\ CameraInv'
<1> USE DEF handles, monitoring, outside, working, viewing
<1> DEFINE referring == <<pc, target, spawned, worker, device, aborted, finished, wpc,
                          left, camera>>
<1>1. ASSUME UNCHANGED referring PROVE ViewerInv' /\ TaskInv' /\ HandleInv' /\ CameraInv'
  BY <1>1 DEF StreamInv, ViewerInv, TaskInv, HandleInv, CameraInv, HasWorker, Live
<1>2. ASSUME NEW w \in Workers, ObserveWorker(w)
      PROVE  ViewerInv' /\ TaskInv' /\ HandleInv' /\ CameraInv'
  <2>1. ViewerInv' /\ TaskInv' /\ CameraInv'
    BY <1>2 DEF StreamInv, ViewerInv, TaskInv, CameraInv, ObserveWorker
  <2>2. HandleInv'
    BY <1>2 DEF StreamInv, HandleInv, HasWorker, Live, ObserveWorker
  <2> QED
    BY <2>1, <2>2
<1>3. ASSUME NEW d \in Moonraker, Watchdog(d)
      PROVE  ViewerInv' /\ TaskInv' /\ HandleInv' /\ CameraInv'
  <2>1. ViewerInv' /\ TaskInv' /\ HandleInv'
    BY <1>3 DEF StreamInv, ViewerInv, TaskInv, HandleInv, HasWorker, Live, Watchdog
  <2>2. CameraInv'
    BY <1>3, StreamsAssumption DEF StreamInv, TypeOK, CameraInv, Watchdog
  <2> QED
    BY <2>1, <2>2
<1>4. ASSUME NEW w \in Workers, WorkerPanics(w) \/ WorkerCancelled(w)
      PROVE  ViewerInv' /\ TaskInv' /\ HandleInv' /\ CameraInv'
  BY <1>4, DyingIsTaskStep, TaskReferences
<1>5. ReceiveWorker \/ DrainWorkers \/ MonitorStops \/ Shutdown => UNCHANGED referring
  BY DEF ReceiveWorker, DrainWorkers, MonitorStops, Shutdown
<1>6. ASSUME NEW w \in Workers, HeartbeatDue(w) PROVE UNCHANGED referring
  BY <1>6 DEF HeartbeatDue
<1>7. ASSUME NEW d \in Devices \ Moonraker, NEW es \in SUBSET EndpointSet,
             ServerMoves(d, es)
      PROVE  UNCHANGED referring
  BY <1>7 DEF ServerMoves
<1> HIDE DEF referring
<1> QED
  BY <1>1, <1>2, <1>3, <1>4, <1>5, <1>6, <1>7 DEF Monitoring, Environment

-----------------------------------------------------------------------------
LEMMA InitStreamInv == Init => StreamInv
<1> SUFFICES ASSUME Init PROVE StreamInv
  OBVIOUS
<1> USE StreamsAssumption DEF Init
<1>1. TypeOK
  <2>1. serving \in [Devices -> SUBSET EndpointSet]
    <3>1. {{e} : e \in EndpointSet} \subseteq SUBSET EndpointSet
      OBVIOUS
    <3> QED
      BY <3>1
  <2>2. lifecycle \in Seq(Workers) /\ Len(lifecycle) <= QueueCapacity
    OBVIOUS
  <2>3. left \in [Workers -> Seq(EndpointSet)]
    OBVIOUS
  <2>4. panics \in 0..MaxPanics /\ moves \in 0..MaxMoves
    OBVIOUS
  <2>5. /\ pc \in [Viewers -> ViewerStates]
        /\ target \in [Viewers -> Devices \cup {None}]
        /\ spawned \in [Viewers -> Workers \cup {None}]
        /\ wpc \in [Workers -> WorkerStates]
        /\ device \in [Workers -> Devices \cup {None}]
    BY DEF ViewerStates, WorkerStates
  <2>6. /\ worker \in [Devices -> Workers \cup {None}]
        /\ remembered \in [Devices -> EndpointSet \cup {None}]
        /\ camera \in [Moonraker -> Workers \cup {None, Unattended}]
    OBVIOUS
  <2>7. /\ served \subseteq Viewers /\ due \subseteq Workers
        /\ finished \subseteq Workers /\ aborted \subseteq Workers
        /\ observers \subseteq Workers
        /\ monitor \in {"running", "draining", "stopped"}
        /\ shutdown \in BOOLEAN
    OBVIOUS
  <2> HIDE DEF Init
  <2> QED
    BY <2>1, <2>2, <2>3, <2>4, <2>5, <2>6, <2>7 DEF TypeOK
<1>2. ViewerInv /\ TaskInv /\ CameraInv
  BY DEF ViewerInv, TaskInv, CameraInv, MoonrakerStates, BambuStates
<1>3. HandleInv
  BY DEF HandleInv, HasWorker, Live
<1> QED
  BY <1>1, <1>2, <1>3 DEF StreamInv

LEMMA NextStreamInv == StreamInv /\ [Next]_vars => StreamInv'
<1> SUFFICES ASSUME StreamInv, [Next]_vars PROVE StreamInv'
  OBVIOUS
<1>1. CASE Viewing
  BY <1>1, ViewerTypes, ViewerReferences DEF StreamInv
<1>2. ASSUME NEW w \in Workers, WorkerStep(w) PROVE StreamInv'
  BY <1>2, WorkerTypes, WorkerStepIsTaskStep, TaskReferences DEF StreamInv
<1>3. CASE Monitoring \/ Environment
  BY <1>3, OtherTypes, OtherReferences DEF StreamInv
<1>4. CASE UNCHANGED vars
  <2>1. TypeOK'
    BY <1>4 DEF StreamInv, TypeOK, vars
  <2>2. ViewerInv' /\ TaskInv' /\ HandleInv' /\ CameraInv'
    BY <1>4 DEF StreamInv, ViewerInv, TaskInv, HandleInv, CameraInv, HasWorker, Live, vars
  <2> QED
    BY <2>1, <2>2 DEF StreamInv
<1> QED
  BY <1>1, <1>2, <1>3, <1>4 DEF Next

\* The strengthening holds in every reachable state.
THEOREM StreamsInvariant == Spec => []StreamInv
<1>1. Init => StreamInv
  BY InitStreamInv
<1>2. StreamInv /\ [Next]_vars => StreamInv'
  BY NextStreamInv
<1> QED
  BY <1>1, <1>2, PTL DEF Spec

\* Every state of the video streams is well typed.
THEOREM StreamsTypeCorrect == Spec => []TypeOK
<1>1. StreamInv => TypeOK
  BY DEF StreamInv
<1> QED
  BY <1>1, StreamsInvariant, PTL

\* OneWorkerPerDevice: two live workers of one device are both in its handle, or
\* both in the hands of the one viewer who holds its mutex; one of each cannot
\* be, since that viewer found the handle's worker finished.
LEMMA OneWorker == StreamInv => OneWorkerPerDevice
<1> SUFFICES ASSUME StreamInv,
                    NEW d \in Devices, NEW w1 \in Workers, NEW w2 \in Workers,
                    Live(w1), Live(w2), device[w1] = d, device[w2] = d
             PROVE  w1 = w2
  BY DEF OneWorkerPerDevice
<1>1. /\ w1 # None /\ w2 # None
      /\ w1 \notin finished /\ w2 \notin finished
  BY StreamsAssumption DEF StreamInv, HandleInv, Live
<1>2. ASSUME NEW x \in {w1, w2}, NEW y \in {w1, w2}, NEW v \in Viewers,
             spawned[v] = x, worker[d] = y
      PROVE  FALSE
  BY <1>1, <1>2 DEF StreamInv, HandleInv, HasWorker, ViewerInv
<1>3. ASSUME NEW u \in Viewers, NEW v \in Viewers, spawned[u] = w1, spawned[v] = w2
      PROVE  w1 = w2
  BY <1>1, <1>3 DEF StreamInv, ViewerInv
<1> QED
  BY <1>2, <1>3 DEF StreamInv, HandleInv

\* A device never has two live workers.
THEOREM OneWorkerAtATime == Spec => []OneWorkerPerDevice
<1> QED
  BY StreamsInvariant, OneWorker, PTL

\* An armed camera has a worker on its way to disarm it.
THEOREM CamerasAreHandedBack == Spec => []ArmedCameraHasItsWorker
<1>1. StreamInv => ArmedCameraHasItsWorker
  BY DEF StreamInv, CameraInv, ArmedCameraHasItsWorker
<1> QED
  BY <1>1, StreamsInvariant, PTL

\* A worker that leaves never disarms a camera for another that is not to be
\* cancelled.
THEOREM CamerasAreNotTaken == Spec => []StopsOwnCamera
<1>1. StreamInv => StopsOwnCamera
  <2> SUFFICES ASSUME StreamInv, NEW w \in Workers, wpc[w] = "stop", Live(w)
               PROVE  camera[device[w]] \in {w, None, Unattended} \cup aborted
    BY DEF StopsOwnCamera
  <2>1. device[w] \in Moonraker /\ device[w] \in Devices
    BY StreamsAssumption DEF StreamInv, TaskInv, MoonrakerStates
  <2>2. CASE camera[device[w]] \in Workers
    <3>1. /\ wpc[camera[device[w]]] # "gone"
          /\ device[camera[device[w]]] = device[w]
      BY <2>1, <2>2 DEF StreamInv, CameraInv
    <3> QED
      BY <2>1, <2>2, <3>1, OneWorker DEF OneWorkerPerDevice, Live
  <2> QED
    BY <2>1, <2>2 DEF StreamInv, TypeOK
<1> QED
  BY <1>1, StreamsInvariant, PTL
=============================================================================
