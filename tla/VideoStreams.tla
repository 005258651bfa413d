---------------------------- MODULE VideoStreams ----------------------------
(***************************************************************************)
(* The MJPEG streams of the overlay server: video/stream.rs with the two   *)
(* kinds of stream worker, video/connection.rs (Bambu) and                 *)
(* video/moonraker.rs with video/u1_camera.rs (Moonraker), and the viewers *)
(* of web/video.rs.                                                        *)
(*                                                                         *)
(* The first viewer of a device spawns a worker, which streams frames to   *)
(* all viewers and leaves when it finds that there are none.  A worker is  *)
(* also known to a monitor, watch_workers, which gives it an observer that *)
(* marks it finished however it ended.  Viewers, workers, the monitor and  *)
(* the shutdown interleave at every await and at every shared variable.    *)
(*                                                                         *)
(* A device's count of clients is the number of its viewers that hold a    *)
(* subscription guard.  The notification that the last client left ends a  *)
(* sleep or the read of a frame early; both have a timeout and end anyway, *)
(* so it is left out.  A TLS handshake has neither: see Stalls.            *)
(***************************************************************************)
EXTENDS Naturals, Sequences, FiniteSets

CONSTANTS
  Devices,       \* the devices with a video source
  Moonraker,     \* those among them that a Moonraker worker streams
  Endpoints,     \* the video endpoints of a Bambu device, in their given order
  Viewers,       \* the video requests that may be under way at once
  Workers,       \* the names of the worker tasks
  QueueCapacity, \* WORKER_QUEUE_CAPACITY
  MaxPanics,     \* bound on the worker panics explored
  MaxMoves,      \* bound on how often a printer's video server moves
  None,          \* the absent value of an Option
  Unattended     \* an armed camera that no worker will disarm

EndpointSet == {Endpoints[k] : k \in DOMAIN Endpoints}

ASSUME StreamsAssumption ==
  /\ Moonraker \subseteq Devices
  /\ Endpoints \in Seq(EndpointSet)
  /\ Endpoints # <<>>
  /\ \A j, k \in DOMAIN Endpoints : Endpoints[j] = Endpoints[k] => j = k
  /\ None \notin Devices \cup Workers \cup EndpointSet
  /\ Unattended \notin Workers \cup {None}
  /\ QueueCapacity \in Nat \ {0}
  /\ MaxPanics \in Nat
  /\ MaxMoves \in Nat

VARIABLES
  pc,         \* where each viewer is
  target,     \* the device a viewer asks for, or None
  spawned,    \* the worker a viewer is about to register, or None
  served,     \* the viewers a frame was sent to
  worker,     \* the worker handle of each device, or None
  wpc,        \* where each worker is; "gone" when its task is over
  device,     \* the device of each worker, or None
  left,       \* the endpoints a Bambu worker has still to try
  due,        \* the Moonraker workers that are to wake the camera
  finished,   \* the workers whose finished flag is set
  aborted,    \* the workers whose abort handle was used
  lifecycle,  \* the queue of workers the monitor has not received
  observers,  \* the workers that have an observer
  monitor,    \* where watch_workers is
  remembered, \* the endpoint that last sent a frame, per device, or None
  serving,    \* the endpoints at which a Bambu printer serves video
  camera,     \* who armed the camera of a Moonraker device
  shutdown,   \* the shutdown was triggered
  panics,     \* how many workers panicked, to bound them
  moves       \* how often a video server moved, to bound it

viewing == <<pc, target, spawned, served>>
working == <<wpc, left, due>>
handles == <<worker, device, finished, aborted>>
monitoring == <<lifecycle, observers, monitor>>
outside == <<serving, moves, shutdown, panics>>
vars == <<pc, target, spawned, served, worker, wpc, device, left, due, finished,
          aborted, lifecycle, observers, monitor, remembered, serving, camera,
          shutdown, panics, moves>>

ViewerStates == {"idle", "counted", "register", "watching"}
BambuStates == {"connect", "handshake", "read"}
MoonrakerStates == {"open", "wake", "poll", "stop"}
WorkerStates == {"gone", "start", "check", "failed", "sleep", "finish"}
                  \cup BambuStates \cup MoonrakerStates

TypeOK ==
  /\ pc \in [Viewers -> ViewerStates]
  /\ target \in [Viewers -> Devices \cup {None}]
  /\ spawned \in [Viewers -> Workers \cup {None}]
  /\ served \subseteq Viewers
  /\ worker \in [Devices -> Workers \cup {None}]
  /\ wpc \in [Workers -> WorkerStates]
  /\ device \in [Workers -> Devices \cup {None}]
  /\ left \in [Workers -> Seq(EndpointSet)]
  /\ due \subseteq Workers
  /\ finished \subseteq Workers
  /\ aborted \subseteq Workers
  /\ lifecycle \in Seq(Workers)
  /\ Len(lifecycle) <= QueueCapacity
  /\ observers \subseteq Workers
  /\ monitor \in {"running", "draining", "stopped"}
  /\ remembered \in [Devices -> EndpointSet \cup {None}]
  /\ serving \in [Devices -> SUBSET EndpointSet]
  /\ camera \in [Moonraker -> Workers \cup {None, Unattended}]
  /\ shutdown \in BOOLEAN
  /\ panics \in 0..MaxPanics
  /\ moves \in 0..MaxMoves

Init ==
  /\ pc = [v \in Viewers |-> "idle"]
  /\ target = [v \in Viewers |-> None]
  /\ spawned = [v \in Viewers |-> None]
  /\ served = {}
  /\ worker = [d \in Devices |-> None]
  /\ wpc = [w \in Workers |-> "gone"]
  /\ device = [w \in Workers |-> None]
  /\ left = [w \in Workers |-> <<>>]
  /\ due = {}
  /\ finished = {}
  /\ aborted = {}
  /\ lifecycle = <<>>
  /\ observers = {}
  /\ monitor = "running"
  /\ remembered = [d \in Devices |-> None]
  /\ serving \in [Devices -> {{e} : e \in EndpointSet}]
  /\ camera = [d \in Moonraker |-> None]
  /\ shutdown = FALSE
  /\ panics = 0
  /\ moves = 0

-----------------------------------------------------------------------------
(* Viewers: VideoStreams::subscribe and the body of the MJPEG response.    *)

\* stream.clients: a viewer is counted from fetch_add until its guard drops.
Clients(d) == {v \in Viewers : pc[v] # "idle" /\ target[v] = d}

\* A worker's name may be used again once nothing refers to that worker.
Unused(w) ==
  /\ wpc[w] = "gone"
  /\ w \notin observers
  /\ \A d \in Devices : worker[d] # w
  /\ \A v \in Viewers : spawned[v] # w
  /\ \A k \in DOMAIN lifecycle : lifecycle[k] # w

\* The viewer's guard is dropped.
Leave(v) ==
  /\ pc' = [pc EXCEPT ![v] = "idle"]
  /\ target' = [target EXCEPT ![v] = None]
  /\ spawned' = [spawned EXCEPT ![v] = None]
  /\ served' = served \ {v}

\* subscribe(): frames.subscribe(), the client is counted.
Subscribe(v, d) ==
  /\ pc[v] = "idle"
  /\ ~shutdown
  /\ pc' = [pc EXCEPT ![v] = "counted"]
  /\ target' = [target EXCEPT ![v] = d]
  /\ UNCHANGED <<spawned, served, working, handles, monitoring, remembered,
                 camera, outside>>

\* The device's worker mutex is free: no viewer is between spawn and try_send.
Unlocked(d) == \A v \in Viewers : ~(pc[v] = "register" /\ target[v] = d)

\* Mutated form: a worker that nobody watches is taken for finished.
HasWorkerIfWatched(d) ==
  /\ worker[d] # None
  /\ worker[d] \notin finished
  /\ Cardinality(Clients(d)) > 1

\* ensure_worker's test of the handle.
HasWorker(d) == worker[d] # None /\ worker[d] \notin finished

\* ensure_worker, when the device's worker is not finished.
JoinWorker(v) ==
  /\ pc[v] = "counted"
  /\ Unlocked(target[v])
  /\ HasWorker(target[v])
  /\ pc' = [pc EXCEPT ![v] = "watching"]
  /\ UNCHANGED <<target, spawned, served, working, handles, monitoring,
                 remembered, camera, outside>>

\* spawn_worker: tokio::spawn, with the worker mutex held.
SpawnWorker(v, w) ==
  /\ pc[v] = "counted"
  /\ Unlocked(target[v])
  /\ ~HasWorker(target[v])
  /\ Unused(w)
  /\ pc' = [pc EXCEPT ![v] = "register"]
  /\ spawned' = [spawned EXCEPT ![v] = w]
  /\ wpc' = [wpc EXCEPT ![w] = "start"]
  /\ device' = [device EXCEPT ![w] = target[v]]
  /\ left' = [left EXCEPT ![w] = <<>>]
  /\ due' = due \ {w}
  /\ finished' = finished \ {w}
  /\ aborted' = aborted \ {w}
  /\ UNCHANGED <<target, served, worker, monitoring, remembered, camera,
                 outside>>

\* Mutated form: one worker too many is let in.
HasRoomForOneMore == Len(lifecycle) <= QueueCapacity

HasRoom == Len(lifecycle) < QueueCapacity

\* spawn_worker: try_send finds room; the new handle replaces the old one, whose
\* drop aborts the task it stands for.
RegisterWorker(v) ==
  /\ pc[v] = "register"
  /\ HasRoom
  /\ monitor # "stopped"
  /\ lifecycle' = Append(lifecycle, spawned[v])
  /\ worker' = [worker EXCEPT ![target[v]] = spawned[v]]
  /\ aborted' = aborted \cup ({worker[target[v]]} \ {None})
  /\ pc' = [pc EXCEPT ![v] = "watching"]
  /\ spawned' = [spawned EXCEPT ![v] = None]
  /\ UNCHANGED <<target, served, working, device, finished, observers,
                 monitor, remembered, camera, outside>>

\* spawn_worker: the queue is full or closed; the worker is aborted and the
\* viewer gets an error.
RegisterFails(v) ==
  /\ pc[v] = "register"
  /\ ~HasRoom \/ monitor = "stopped"
  /\ aborted' = aborted \cup {spawned[v]}
  /\ finished' = finished \cup {spawned[v]}
  /\ Leave(v)
  /\ UNCHANGED <<working, worker, device, monitoring, remembered, camera,
                 outside>>

\* The viewer goes away, while it waits for the worker mutex or watches.
ViewerLeaves(v) ==
  /\ pc[v] \in {"counted", "watching"}
  /\ Leave(v)
  /\ UNCHANGED <<working, handles, monitoring, remembered, camera, outside>>

\* shutdown.cancelled() ends the response body.
BodyEnds(v) == shutdown /\ pc[v] = "watching" /\ ViewerLeaves(v)

-----------------------------------------------------------------------------
(* Workers.                                                                *)

\* Worker w goes on at another place.
MoveTo(w, place) == wpc' = [wpc EXCEPT ![w] = place]

Live(w) == wpc[w] # "gone" /\ w \notin aborted

\* VideoSource::run.  The HTTP client of a Moonraker worker can always be built.
StartWorker(w) ==
  /\ wpc[w] = "start"
  /\ MoveTo(w, IF device[w] \in Moonraker THEN "open" ELSE "check")
  /\ UNCHANGED <<viewing, left, due, handles, monitoring, remembered, camera,
                 outside>>

\* Mutated form: a worker is never without clients.
AlwaysHasClients(d) == TRUE

\* stream.clients > 0
HasClients(d) == Clients(d) # {}

\* Where a worker goes when it breaks out of its loop.
AfterLoop(w) == IF device[w] \in Moonraker THEN "stop" ELSE "finish"

\* The loop condition fails.
LeaveLoop(w) ==
  /\ wpc[w] = "check"
  /\ ~HasClients(device[w])
  /\ MoveTo(w, AfterLoop(w))
  /\ UNCHANGED <<viewing, left, due, handles, monitoring, remembered, camera,
                 outside>>

\* A frame is sent to everybody who holds a receiver.
SendFrame(d) == served' = served \cup Clients(d)

\* The error branch of the loop: no clients, or a sleep before the next attempt.
AttemptFailed(w) ==
  /\ wpc[w] = "failed"
  /\ MoveTo(w, IF HasClients(device[w]) THEN "sleep" ELSE AfterLoop(w))
  /\ UNCHANGED <<viewing, left, due, handles, monitoring, remembered, camera,
                 outside>>

\* sleep_or_no_clients ends.
WakeUp(w) ==
  /\ wpc[w] = "sleep"
  /\ MoveTo(w, "check")
  /\ UNCHANGED <<viewing, left, due, handles, monitoring, remembered, camera,
                 outside>>

\* Mutated form: at the shutdown a Moonraker worker returns as a Bambu worker does.
ShutdownReturns(w) ==
  /\ shutdown
  /\ wpc[w] \in {"connect", "handshake", "read", "wake", "poll", "sleep"}
  /\ \/ UNCHANGED camera
     \/ wpc[w] = "wake" /\ camera' = [camera EXCEPT ![device[w]] = w]
  /\ MoveTo(w, "finish")
  /\ UNCHANGED <<viewing, left, due, handles, monitoring, remembered, outside>>

\* shutdown.cancelled() wins a worker's select!: a Bambu worker returns, a
\* Moonraker worker breaks out of its loop.  A request to wake the camera that is
\* cut off may have reached it.
ShutdownReached(w) ==
  /\ shutdown
  /\ wpc[w] \in {"connect", "handshake", "read", "wake", "poll", "sleep"}
  /\ \/ UNCHANGED camera
     \/ wpc[w] = "wake" /\ camera' = [camera EXCEPT ![device[w]] = w]
  /\ MoveTo(w, AfterLoop(w))
  /\ UNCHANGED <<viewing, left, due, handles, monitoring, remembered, outside>>

\* run() returned: the task stores the finished flag and is over.
FinishWorker(w) ==
  /\ wpc[w] = "finish"
  /\ MoveTo(w, "gone")
  /\ finished' = finished \cup {w}
  /\ UNCHANGED <<viewing, left, due, worker, device, aborted, monitoring,
                 remembered, camera, outside>>

\* The task ends where it is, and leaves the camera as it is.
Dies(w) ==
  /\ MoveTo(w, "gone")
  /\ LET abandoned == [d \in Moonraker |-> IF camera[d] = w THEN Unattended
                                          ELSE camera[d]]
     IN  IF wpc[w] = "wake"
           THEN camera' \in {abandoned, [abandoned EXCEPT ![device[w]] = Unattended]}
           ELSE camera' = abandoned

\* The task panics.
WorkerPanics(w) ==
  /\ wpc[w] # "gone"
  /\ panics < MaxPanics
  /\ panics' = panics + 1
  /\ Dies(w)
  /\ UNCHANGED <<viewing, left, due, handles, monitoring, remembered, serving,
                 moves, shutdown>>

\* An aborted task is cancelled at its next await.
WorkerCancelled(w) ==
  /\ w \in aborted
  /\ wpc[w] # "gone"
  /\ Dies(w)
  /\ UNCHANGED <<viewing, left, due, handles, monitoring, remembered, outside>>

-----------------------------------------------------------------------------
(* Bambu workers: run_stream_attempt and stream_from_endpoint.             *)

\* Mutated form: only the remembered endpoint is tried.
OnlyRemembered(d) ==
  IF remembered[d] = None THEN Endpoints ELSE <<remembered[d]>>

\* order_endpoints: the one that last sent a frame goes first.
OrderEndpoints(d) ==
  IF remembered[d] = None THEN Endpoints
  ELSE LET last == CHOOSE k \in DOMAIN Endpoints : Endpoints[k] = remembered[d]
       IN  [k \in DOMAIN Endpoints |->
              IF k = 1 THEN Endpoints[last]
              ELSE IF k <= last THEN Endpoints[k - 1] ELSE Endpoints[k]]

\* The loop goes on with an attempt.
BeginAttempt(w) ==
  /\ wpc[w] = "check"
  /\ device[w] \notin Moonraker
  /\ HasClients(device[w])
  /\ MoveTo(w, "connect")
  /\ left' = [left EXCEPT ![w] = OrderEndpoints(device[w])]
  /\ UNCHANGED <<viewing, due, handles, monitoring, remembered, camera,
                 outside>>

\* An endpoint fails: without clients that ends the attempt well, otherwise the
\* next endpoint is tried, and past the last one the attempt has failed.
NextEndpoint(w) ==
  /\ left' = [left EXCEPT ![w] = Tail(@)]
  /\ MoveTo(w, IF ~HasClients(device[w]) THEN "check"
               ELSE IF Tail(left[w]) = <<>> THEN "failed" ELSE "connect")

\* Connecting, TLS and authentication, with a server that answers at each step or
\* cannot be reached.
Connect(w) ==
  /\ wpc[w] = "connect"
  /\ IF Head(left[w]) \in serving[device[w]]
       THEN MoveTo(w, "read") /\ UNCHANGED left
       ELSE NextEndpoint(w)
  /\ UNCHANGED <<viewing, due, handles, monitoring, remembered, camera,
                 outside>>

\* The endpoint accepts the connection and then says nothing: authenticate_stream
\* has no timeout and does not heed that the last client left.
Stalls(w) ==
  /\ wpc[w] = "connect"
  /\ MoveTo(w, "handshake")
  /\ UNCHANGED <<viewing, left, due, handles, monitoring, remembered, camera,
                 outside>>

\* The endpoint answers after all, or the connection breaks.
HandshakeEnds(w) ==
  /\ wpc[w] = "handshake"
  /\ \/ /\ Head(left[w]) \in serving[device[w]]
        /\ MoveTo(w, "read")
        /\ UNCHANGED left
     \/ NextEndpoint(w)
  /\ UNCHANGED <<viewing, due, handles, monitoring, remembered, camera,
                 outside>>

\* A frame arrives; its endpoint is remembered.
ReadFrame(w) ==
  /\ wpc[w] = "read"
  /\ HasClients(device[w])
  /\ Head(left[w]) \in serving[device[w]]
  /\ SendFrame(device[w])
  /\ remembered' = [remembered EXCEPT ![device[w]] = Head(left[w])]
  /\ UNCHANGED <<pc, target, spawned, working, handles, monitoring, camera,
                 outside>>

\* No clients: the attempt ends well.
StopReading(w) ==
  /\ wpc[w] = "read"
  /\ ~HasClients(device[w])
  /\ MoveTo(w, "check")
  /\ UNCHANGED <<viewing, left, due, handles, monitoring, remembered, camera,
                 outside>>

\* The connection breaks or a read times out.
ReadFails(w) ==
  /\ wpc[w] = "read"
  /\ NextEndpoint(w)
  /\ UNCHANGED <<viewing, due, handles, monitoring, remembered, camera,
                 outside>>

-----------------------------------------------------------------------------
(* Moonraker workers: run_moonraker_stream_worker and CameraControl.       *)

\* open_control, over MQTT or falling back to the repeater; the first wake is due
\* at once.
OpenControl(w) ==
  /\ wpc[w] = "open"
  /\ MoveTo(w, "check")
  /\ due' = due \cup {w}
  /\ UNCHANGED <<viewing, left, handles, monitoring, remembered, camera,
                 outside>>

\* The loop goes on: the camera is woken first when that is due.
BeginPoll(w) ==
  /\ wpc[w] = "check"
  /\ device[w] \in Moonraker
  /\ HasClients(device[w])
  /\ MoveTo(w, IF w \in due THEN "wake" ELSE "poll")
  /\ UNCHANGED <<viewing, left, due, handles, monitoring, remembered, camera,
                 outside>>

\* start_monitor answers: the camera is armed, or the failure is only logged
\* (the request may still have reached the printer).
WakeCamera(w) ==
  /\ wpc[w] = "wake"
  /\ camera' \in {camera, [camera EXCEPT ![device[w]] = w]}
  /\ due' = due \ {w}
  /\ MoveTo(w, "poll")
  /\ UNCHANGED <<viewing, left, handles, monitoring, remembered, outside>>

\* Mutated form: the camera is woken once, when the worker starts.
NeverDueAgain(w) == FALSE /\ UNCHANGED vars

\* HEARTBEAT has passed since the last wake.
HeartbeatDue(w) ==
  /\ wpc[w] \in {"check", "poll", "failed", "sleep"}
  /\ device[w] \in Moonraker
  /\ w \notin due
  /\ due' = due \cup {w}
  /\ UNCHANGED <<viewing, wpc, left, handles, monitoring, remembered, camera,
                 outside>>

\* poll_once: a frame, an unchanged frame, or an error.
Poll(w) ==
  /\ wpc[w] = "poll"
  /\ \/ MoveTo(w, "sleep") /\ SendFrame(device[w])
     \/ MoveTo(w, "sleep") /\ UNCHANGED served
     \/ MoveTo(w, "failed") /\ UNCHANGED served
  /\ UNCHANGED <<pc, target, spawned, left, due, handles, monitoring,
                 remembered, camera, outside>>

\* CameraControl::stop, within STOP_MONITOR_BUDGET: the camera is disarmed, or
\* the failure is only logged and the daemon's watchdog is left to do it.
StopCamera(w) ==
  /\ wpc[w] = "stop"
  /\ camera' \in {[camera EXCEPT ![device[w]] = None],
                  [camera EXCEPT ![device[w]] = IF @ = None THEN None ELSE Unattended]}
  /\ MoveTo(w, "finish")
  /\ UNCHANGED <<viewing, left, due, handles, monitoring, remembered, outside>>

\* The camera daemon's own watchdog.
Watchdog(d) ==
  /\ camera[d] = Unattended
  /\ camera' = [camera EXCEPT ![d] = None]
  /\ UNCHANGED <<viewing, working, handles, monitoring, remembered, outside>>

-----------------------------------------------------------------------------
(* watch_workers, and the observers it spawns.                             *)

ReceiveWorker ==
  /\ monitor = "running"
  /\ lifecycle # <<>>
  /\ observers' = observers \cup {Head(lifecycle)}
  /\ lifecycle' = Tail(lifecycle)
  /\ UNCHANGED <<viewing, working, handles, monitor, remembered, camera,
                 outside>>

\* Mutated form: the observer does not mark the worker.
ObserveNormalEnd(w) ==
  /\ w \in observers
  /\ wpc[w] = "gone"
  /\ observers' = observers \ {w}
  /\ UNCHANGED <<viewing, working, handles, lifecycle, monitor, remembered,
                 camera, outside>>

\* observe_worker: the task is over, however it ended.
ObserveWorker(w) ==
  /\ w \in observers
  /\ wpc[w] = "gone"
  /\ finished' = finished \cup {w}
  /\ observers' = observers \ {w}
  /\ UNCHANGED <<viewing, working, worker, device, aborted, lifecycle,
                 monitor, remembered, camera, outside>>

\* shutdown.cancelled(): nothing more is received.
DrainWorkers ==
  /\ shutdown
  /\ monitor = "running"
  /\ monitor' = "draining"
  /\ UNCHANGED <<viewing, working, handles, lifecycle, observers, remembered,
                 camera, outside>>

\* Every observer has joined; the receiver is dropped with what it holds.
MonitorStops ==
  /\ monitor = "draining"
  /\ observers = {}
  /\ monitor' = "stopped"
  /\ lifecycle' = <<>>
  /\ UNCHANGED <<viewing, working, handles, observers, remembered, camera,
                 outside>>

-----------------------------------------------------------------------------
(* The environment.                                                        *)

Shutdown ==
  /\ ~shutdown
  /\ shutdown' = TRUE
  /\ UNCHANGED <<viewing, working, handles, monitoring, remembered, camera,
                 serving, moves, panics>>

\* The video server of a Bambu printer comes and goes, or moves.
ServerMoves(d, es) ==
  /\ moves < MaxMoves
  /\ moves' = moves + 1
  /\ es # serving[d]
  /\ serving' = [serving EXCEPT ![d] = es]
  /\ UNCHANGED <<viewing, working, handles, monitoring, remembered, camera,
                 shutdown, panics>>

Viewing ==
  \E v \in Viewers :
    \/ \E d \in Devices : Subscribe(v, d)
    \/ JoinWorker(v)
    \/ \E w \in Workers : SpawnWorker(v, w)
    \/ RegisterWorker(v) \/ RegisterFails(v)
    \/ ViewerLeaves(v)

\* What a worker's task does next of itself.
WorkerProgress(w) ==
  \/ StartWorker(w) \/ LeaveLoop(w) \/ AttemptFailed(w) \/ WakeUp(w)
  \/ ShutdownReached(w) \/ FinishWorker(w)
  \/ BeginAttempt(w) \/ Connect(w) \/ StopReading(w)
  \/ OpenControl(w) \/ BeginPoll(w) \/ WakeCamera(w) \/ Poll(w) \/ StopCamera(w)

\* An aborted task takes no step past its next await.
WorkerStep(w) ==
  /\ w \notin aborted
  /\ \/ WorkerProgress(w)
     \/ ReadFrame(w) \/ ReadFails(w)
     \/ Stalls(w) \/ HandshakeEnds(w)

Monitoring ==
  \/ ReceiveWorker \/ DrainWorkers \/ MonitorStops
  \/ \E w \in Workers : ObserveWorker(w)

Environment ==
  \/ Shutdown
  \/ \E w \in Workers : WorkerPanics(w) \/ WorkerCancelled(w) \/ HeartbeatDue(w)
  \/ \E d \in Moonraker : Watchdog(d)
  \/ \E d \in Devices \ Moonraker, es \in SUBSET EndpointSet : ServerMoves(d, es)

Next ==
  \/ Viewing
  \/ \E w \in Workers : WorkerStep(w)
  \/ Monitoring
  \/ Environment

(***************************************************************************)
(* Fairness.  A task that can run runs, and each wait of a worker but one  *)
(* has a timeout (the TCP connection, poll, read, sleep, open_control,     *)
(* stop), so that it ends; a read from a server that is gone times out.    *)
(* The one is the TLS handshake with a server that has accepted the        *)
(* connection: nothing is assumed of its end but for the shutdown.  Where  *)
(* a printer serves video, not every connection breaks before its first    *)
(* frame.  Nothing is assumed of the viewers' coming and going, of panics  *)
(* or of the shutdown.                                                     *)
(***************************************************************************)
Fairness ==
  /\ WF_vars(ReceiveWorker) /\ WF_vars(DrainWorkers) /\ WF_vars(MonitorStops)
  /\ \A v \in Viewers :
       /\ WF_vars(JoinWorker(v) \/ \E w \in Workers : SpawnWorker(v, w))
       /\ WF_vars(RegisterWorker(v) \/ RegisterFails(v))
       /\ WF_vars(BodyEnds(v))
  /\ \A w \in Workers :
       /\ WF_vars(w \notin aborted /\ WorkerProgress(w))
       /\ WF_vars(w \notin aborted /\ ReadFails(w) /\ Head(left[w]) \notin serving[device[w]])
       /\ SF_vars(w \notin aborted /\ ReadFrame(w))
       /\ WF_vars(HeartbeatDue(w))
       /\ WF_vars(WorkerCancelled(w))
       /\ WF_vars(ObserveWorker(w))

Spec == Init /\ [][Next]_vars /\ Fairness

-----------------------------------------------------------------------------
(* Safety.                                                                 *)

\* Two viewers who subscribe at once, or one who subscribes while the last worker
\* is leaving, never start a second worker: a device has one connection to its
\* printer, whose camera takes few.
OneWorkerPerDevice ==
  \A d \in Devices : \A w1, w2 \in Workers :
    (Live(w1) /\ Live(w2) /\ device[w1] = d /\ device[w2] = d) => w1 = w2

\* However a worker leaves its loop it hands the camera back: an armed camera has
\* a worker that is on its way to disarm it, unless that worker panicked or was
\* aborted, or its stop request failed.
ArmedCameraHasItsWorker ==
  \A d \in Moonraker :
    camera[d] \in Workers =>
      wpc[camera[d]] # "gone" /\ device[camera[d]] = d

\* "so we hand it back when the last viewer leaves": a worker that leaves never
\* takes the camera from another that is not to be cancelled.
StopsOwnCamera ==
  \A w \in Workers :
    (wpc[w] = "stop" /\ Live(w)) =>
      camera[device[w]] \in {w, None, Unattended} \cup aborted

-----------------------------------------------------------------------------
(* Liveness.                                                               *)

\* A worker nobody watches leaves, and its task is over, unless it is a Bambu
\* worker held in a handshake, which does not heed that nobody watches.
UnwatchedWorkerEnds ==
  \A w \in Workers :
    (wpc[w] # "gone" /\ Clients(device[w]) = {})
      ~> (\/ wpc[w] \in {"gone", "handshake"}
          \/ Clients(device[w]) # {})

\* The worker task of the device's handle is over but was not marked finished.
Unmarked(d) ==
  /\ worker[d] # None
  /\ wpc[worker[d]] = "gone"
  /\ worker[d] \notin finished

\* A worker that panics does not block its device for ever: it is found finished,
\* so that the next viewer starts another, unless the service is shut down.
DeadWorkerIsReplaced ==
  \A d \in Devices : Unmarked(d) ~> (~Unmarked(d) \/ shutdown)

\* The device's worker has not yet found that it has no clients.
InItsLoop(d) ==
  /\ worker[d] # None
  /\ wpc[worker[d]] \notin {"gone", "stop", "finish"}

\* The viewer watches for as long as its worker runs and the service is up.
Watches(v) == pc[v] = "watching" /\ ~shutdown /\ ~Unmarked(target[v])

\* The device's worker waits in the handshake with a server that says nothing.
HeldInHandshake(d) == worker[d] # None /\ wpc[worker[d]] = "handshake"

\* A viewer of a Bambu device whose worker is in its loop gets a frame, at
\* whichever of its endpoints the printer serves them and whichever endpoint is
\* remembered, unless a server stalls the worker's handshake: for ever, or again
\* and again.
ViewersGetFrames ==
  \A v \in Viewers, d \in Devices \ Moonraker :
    (Watches(v) /\ target[v] = d /\ InItsLoop(d))
      ~> (\/ v \in served \/ ~Watches(v) \/ target[v] # d
          \/ serving[d] = {} \/ HeldInHandshake(d))

\* A viewer of a Moonraker device whose worker is in its loop keeps the camera
\* awake: again and again the worker arms it.
WatchedCameraIsRearmed ==
  \A v \in Viewers, d \in Moonraker :
    (Watches(v) /\ target[v] = d /\ InItsLoop(d))
      ~> (~Watches(v) \/ target[v] # d \/ wpc[worker[d]] = "wake")

\* "the overlay re-arms it every two minutes while a viewer is connected", whatever
\* the worker was doing when the viewer came.
EveryViewerHasAWorker ==
  \A v \in Viewers, d \in Moonraker :
    (Watches(v) /\ target[v] = d)
      ~> (~Watches(v) \/ target[v] # d \/ wpc[worker[d]] = "wake")
=============================================================================
