--------------------------- MODULE ServicesProofs ---------------------------
(***************************************************************************)
(* Proofs about Services: about its server (ServiceTasks), for every set of *)
(* tasks, workers and streams; about a fetch (ThumbnailFetch), for every    *)
(* archive, report, listing and preview; about the page (OverlayPage), for  *)
(* every set of reports and any number of requests; and about the           *)
(* components together, each of which keeps its invariant whatever the      *)
(* others are.                                                             *)
(*                                                                         *)
(* The shutdown's properties are proved from a strengthening that says     *)
(* where every task's exit and every live worker is: a task has its abort  *)
(* handle held or was told to abort until serve returns, and a live worker *)
(* is waited for or in the monitor's queue.  Those of a fetch from one     *)
(* that says of which source each of its places is, and what it holds.     *)
(* What the page keeps to rests on where the pending key comes from: it is  *)
(* the wanted one, unless the wanted one made renderThumb return early; and *)
(* on the retry timer, which is only set while nothing of the last request  *)
(* is in flight.                                                           *)
(***************************************************************************)
EXTENDS Services, SequenceTheorems, TLAPS

\* Why a worker may lose its grace period.
Cause == expired \/ \E t \in Tasks : task[t] = "panicked"

\* Nobody's exit is lost, and whoever is dropped was told to abort.
ExitInv ==
  /\ main \notin {"returned", "exited"} => Tasks \subseteq abortable \cup told
  /\ \A t \in Tasks \ unjoined : Ended(t)
  /\ main \in {"returned", "exited"} => \A t \in Tasks : Ended(t) \/ t \in told
  /\ main = "exited" => \A t \in Tasks : Ended(t)

\* Tasks are told to abort for a cause only, and so cancelled for one.
CauseInv ==
  /\ told # {} => Cause
  /\ main = "aborting" => expired
  /\ main # "exited" => \A t \in Tasks : task[t] = "cancelled" => Cause

Live(w) == worker[w] \in {"running", "leaving"}
Queued(w) == \E i \in DOMAIN queue : queue[i] = w

\* Where a live worker is, and what became of one that was cut off.
WorkerInv ==
  /\ \A w \in Workers : Live(w) => w \in observed \/ Queued(w)
  /\ main # "exited" /\ task[Monitor] = "finished" => observed = {}
  /\ \A w \in Workers : worker[w] = "cut" => main = "exited" /\ (Cause \/ Queued(w))

ShutdownInv == TypeOK /\ ExitInv /\ CauseInv /\ WorkerInv

-----------------------------------------------------------------------------
(* Types.                                                                  *)

LEMMA ServerTypes ==
  ASSUME TasksAssumption, TypeOK, [Next]_vars
  PROVE  TypeOK'
<1> USE DEF TypeOK, TasksAssumption, MainStates, Errors, TaskStates, WorkerStates, StreamStates,
            serving, tasks, workers, events
<1>1. CASE Bind \/ BindFails
  BY <1>1 DEF Bind, BindFails, Combine
<1>2. CASE Write \/ Announce
  <2>1. CASE Write
    BY <2>1 DEF Write
  <2>2. CASE Announce
    <3>1. backlog' \in [Streams -> 0..ChangeCapacity + 1]
      BY <2>2 DEF Announce
    <3> QED
      BY <2>2, <3>1 DEF Announce
  <2> QED
    BY <1>2, <2>1, <2>2
<1>3. CASE Observe
  <2>1. Head(queue) \in Workers /\ Tail(queue) \in Seq(Workers) /\ Len(Tail(queue)) <= QueueCapacity
    BY <1>3 DEF Observe
  <2> QED
    BY <1>3, <2>1 DEF Observe
<1>4. CASE MonitorSeesShutdown
  BY <1>4 DEF MonitorSeesShutdown
<1>5. CASE Signal \/ ServerEnds \/ AllJoined \/ GraceExpires \/ AbortExpires
  BY <1>5 DEF Signal, ServerEnds, AllJoined, GraceExpires, AbortExpires, DropTasks
<1>6. CASE Exit
  BY <1>6 DEF Exit
<1>7. ASSUME NEW s \in Streams, StreamNext(s) PROVE TypeOK'
  <2>1. CASE OpenStream(s)
    BY <2>1 DEF OpenStream, StreamMoves
  <2>4. CASE Send(s)
    BY <2>4 DEF Send, StreamMoves, Snapshot
  <2>2. CASE Polled(s) \/ Tick(s) \/ EndStream(s) \/ LeaveStream(s)
    BY <2>2 DEF Polled, Tick, EndStream, LeaveStream, StreamMoves
  <2>3. CASE Receive(s)
    BY <2>3 DEF Receive, StreamMoves
  <2> QED
    BY <1>7, <2>1, <2>2, <2>3, <2>4 DEF StreamNext
<1>8. ASSUME NEW w \in Workers, WorkerNext(w) PROVE TypeOK'
  <2>1. CASE SpawnWorker(w)
    <3>1. CASE Len(queue) < QueueCapacity /\ ~Ended(Monitor)
      <4>1. Append(queue, w) \in Seq(Workers) /\ Len(Append(queue, w)) <= QueueCapacity
        BY <3>1
      <4> QED
        BY <2>1, <3>1, <4>1 DEF SpawnWorker
    <3>2. CASE ~(Len(queue) < QueueCapacity /\ ~Ended(Monitor))
      BY <2>1, <3>2 DEF SpawnWorker
    <3> QED
      BY <3>1, <3>2
  <2>2. CASE WorkerLeaves(w) \/ WorkerEnds(w) \/ JoinWorker(w)
    BY <2>2 DEF WorkerLeaves, WorkerEnds, JoinWorker
  <2> QED
    BY <1>8, <2>1, <2>2 DEF WorkerNext
<1>9. ASSUME NEW t \in Tasks, TaskNext(t) PROVE TypeOK'
  <2>1. CASE Finish(t) \/ Cancelled(t)
    BY <2>1 DEF Finish, Cancelled, TaskEnds
  <2>2. CASE TaskFailed(t)
    BY <2>2 DEF TaskFailed, Combine
  <2>3. CASE JoinTask(t)
    BY <2>3 DEF JoinTask, Combine, DropTasks
  <2>4. CASE Panic(t)
    BY <2>4 DEF Panic, TaskEnds
  <2> QED
    BY <1>9, <2>1, <2>2, <2>3, <2>4 DEF TaskNext
<1>10. CASE UNCHANGED vars
  BY <1>10 DEF vars
<1> QED
  BY <1>1, <1>2, <1>3, <1>4, <1>5, <1>6, <1>7, <1>8, <1>9, <1>10 DEF Next

-----------------------------------------------------------------------------
(* The exits of the tasks.                                                 *)

LEMMA ExitStep ==
  ASSUME TypeOK, ExitInv, [Next]_vars
  PROVE  ExitInv'
<1> USE DEF ExitInv, Ended, serving, tasks, workers, events
<1>1. CASE UNCHANGED <<main, tasks>>
  BY <1>1
<1>2. CASE Bind \/ Write \/ Announce \/ Observe \/ MonitorSeesShutdown
  BY <1>1, <1>2 DEF Bind, Write, Announce, Observe, MonitorSeesShutdown
<1>3. CASE Signal \/ BindFails \/ ServerEnds
  BY <1>3 DEF Signal, BindFails, ServerEnds
<1>4. CASE AllJoined
  BY <1>4 DEF AllJoined
<1>5. CASE GraceExpires \/ AbortExpires
  BY <1>5 DEF GraceExpires, AbortExpires, DropTasks
<1>6. CASE Exit
  BY <1>6 DEF Exit, TypeOK
<1>7. ASSUME NEW s \in Streams, StreamNext(s) PROVE ExitInv'
  <2>1. UNCHANGED <<main, tasks>>
    BY <1>7 DEF StreamNext, OpenStream, Send, Polled, Tick, Receive, EndStream, LeaveStream,
                StreamMoves
  <2> QED
    BY <2>1, <1>1
<1>8. ASSUME NEW w \in Workers, WorkerNext(w) PROVE ExitInv'
  <2>1. UNCHANGED <<main, tasks>>
    BY <1>8 DEF WorkerNext, SpawnWorker, WorkerLeaves, WorkerEnds, JoinWorker
  <2> QED
    BY <2>1, <1>1
<1>9. ASSUME NEW t \in Tasks, TaskNext(t) PROVE ExitInv'
  <2>1. CASE Finish(t) \/ Panic(t) \/ Cancelled(t)
    BY <2>1 DEF Finish, Panic, Cancelled, TaskEnds, TypeOK
  <2>2. CASE TaskFailed(t)
    BY <2>2 DEF TaskFailed, Unexpected
  <2>3. CASE JoinTask(t)
    BY <2>3 DEF JoinTask, DropTasks
  <2> QED
    BY <1>9, <2>1, <2>2, <2>3 DEF TaskNext
<1>10. CASE UNCHANGED vars
  BY <1>10, <1>1 DEF vars
<1> QED
  BY <1>2, <1>3, <1>4, <1>5, <1>6, <1>7, <1>8, <1>9, <1>10 DEF Next

-----------------------------------------------------------------------------
(* Why tasks are told to abort.                                            *)

\* A cause stays one.
LEMMA CauseStays ==
  ASSUME TypeOK, [Next]_vars
  PROVE  Cause => Cause'
<1> USE DEF Cause, TypeOK, Ended, serving, tasks, workers, events
<1>1. CASE UNCHANGED <<expired, task>>
  BY <1>1
<1>2. CASE Bind \/ BindFails \/ Write \/ Announce \/ Observe \/ MonitorSeesShutdown
  BY <1>1, <1>2 DEF Bind, BindFails, Write, Announce, Observe, MonitorSeesShutdown
<1>3. CASE Signal \/ ServerEnds \/ AllJoined \/ GraceExpires \/ AbortExpires
  BY <1>1, <1>3 DEF Signal, ServerEnds, AllJoined, GraceExpires, AbortExpires
<1>4. CASE Exit
  BY <1>4 DEF Exit
<1>5. ASSUME NEW s \in Streams, StreamNext(s) PROVE UNCHANGED <<expired, task>>
  BY <1>5 DEF StreamNext, OpenStream, Send, Polled, Tick, Receive, EndStream, LeaveStream,
              StreamMoves
<1>6. ASSUME NEW w \in Workers, WorkerNext(w) PROVE UNCHANGED <<expired, task>>
  BY <1>6 DEF WorkerNext, SpawnWorker, WorkerLeaves, WorkerEnds, JoinWorker
<1>7. ASSUME NEW t \in Tasks, TaskNext(t) PROVE Cause => Cause'
  <2>1. CASE Finish(t) \/ Panic(t) \/ Cancelled(t)
    BY <2>1 DEF Finish, Panic, Cancelled, TaskEnds
  <2>2. CASE TaskFailed(t) \/ JoinTask(t)
    BY <1>1, <2>2 DEF TaskFailed, JoinTask
  <2> QED
    BY <1>7, <2>1, <2>2 DEF TaskNext
<1>8. CASE UNCHANGED vars
  BY <1>1, <1>8 DEF vars
<1> QED
  BY <1>1, <1>2, <1>3, <1>4, <1>5, <1>6, <1>7, <1>8 DEF Next

LEMMA CauseStep ==
  ASSUME TypeOK, CauseInv, [Next]_vars
  PROVE  CauseInv'
<1> USE DEF CauseInv, serving, tasks, workers, events
<1>1. Cause => Cause'
  BY CauseStays
<1>2. CASE UNCHANGED <<main, expired, told, task>>
  BY <1>1, <1>2
<1>3. CASE Bind \/ Write \/ Announce \/ Observe \/ MonitorSeesShutdown
  BY <1>2, <1>3 DEF Bind, Write, Announce, Observe, MonitorSeesShutdown
<1>4. CASE Signal \/ BindFails \/ ServerEnds \/ AllJoined
  BY <1>1, <1>4 DEF Signal, BindFails, ServerEnds, AllJoined
<1>5. CASE GraceExpires \/ AbortExpires
  BY <1>5 DEF GraceExpires, AbortExpires, Cause
<1>6. CASE Exit
  BY <1>1, <1>6 DEF Exit
<1>7. ASSUME NEW s \in Streams, StreamNext(s) PROVE UNCHANGED <<main, expired, told, task>>
  BY <1>7 DEF StreamNext, OpenStream, Send, Polled, Tick, Receive, EndStream, LeaveStream,
              StreamMoves
<1>8. ASSUME NEW w \in Workers, WorkerNext(w) PROVE UNCHANGED <<main, expired, told, task>>
  BY <1>8 DEF WorkerNext, SpawnWorker, WorkerLeaves, WorkerEnds, JoinWorker
<1>9. ASSUME NEW t \in Tasks, TaskNext(t) PROVE CauseInv'
  <2>1. CASE Finish(t)
    BY <1>1, <2>1 DEF Finish, TaskEnds, TypeOK
  <2>2. CASE Panic(t)
    BY <1>1, <2>2 DEF Panic, TaskEnds, TypeOK
  <2>3. CASE Cancelled(t)
    <3>1. Cause'
      BY <1>1, <2>3 DEF Cancelled
    <3> QED
      BY <2>3, <3>1 DEF Cancelled, TaskEnds
  <2>4. CASE TaskFailed(t)
    BY <1>1, <2>4 DEF TaskFailed, Unexpected
  <2>5. CASE JoinTask(t)
    <3>1. CASE task[t] = "panicked"
      BY <2>5, <3>1 DEF JoinTask, Cause
    <3>2. CASE task[t] # "panicked"
      BY <1>2, <2>5, <3>2 DEF JoinTask
    <3> QED
      BY <3>1, <3>2
  <2> QED
    BY <1>9, <2>1, <2>2, <2>3, <2>4, <2>5 DEF TaskNext
<1>10. CASE UNCHANGED vars
  BY <1>2, <1>10 DEF vars
<1> QED
  BY <1>2, <1>3, <1>4, <1>5, <1>6, <1>7, <1>8, <1>9, <1>10 DEF Next

-----------------------------------------------------------------------------
(* Where the video workers are.                                            *)

LEMMA WorkerStep ==
  ASSUME TasksAssumption, ShutdownInv, [Next]_vars
  PROVE  WorkerInv'
<1> USE DEF WorkerInv, ShutdownInv, Live, Queued, serving, tasks, workers, events
<1>1. Cause => Cause'
  BY CauseStays
<1>2. CASE UNCHANGED <<main, task, workers>>
  BY <1>1, <1>2
<1>3. CASE Bind \/ Write \/ Announce \/ MonitorSeesShutdown
  BY <1>1, <1>3 DEF Bind, Write, Announce, MonitorSeesShutdown
<1>4. CASE Observe
  <2>1. PICK v \in Workers : v = Head(queue)
    BY <1>4 DEF Observe, TypeOK
  <2>2. \A w \in Workers : Queued(w) => w = v \/ Queued(w)'
    <3> SUFFICES ASSUME NEW w \in Workers, NEW i \in DOMAIN queue, queue[i] = w, w # v
                 PROVE  Queued(w)'
      OBVIOUS
    <3>1. i \in 2..Len(queue) /\ queue \in Seq(Workers)
      BY <1>4, <2>1 DEF Observe, TypeOK
    <3>2. i - 1 \in DOMAIN Tail(queue) /\ Tail(queue)[i - 1] = w
      BY <3>1
    <3> QED
      BY <1>4, <3>2 DEF Observe
  <2>3. main # "exited"
    BY <1>4, TasksAssumption DEF Observe, ExitInv, TasksAssumption
  <2> QED
    BY <1>4, <2>1, <2>2, <2>3, TasksAssumption DEF Observe, Ended
<1>5. CASE Signal \/ BindFails \/ ServerEnds \/ AllJoined \/ GraceExpires \/ AbortExpires
  BY <1>1, <1>5 DEF Signal, BindFails, ServerEnds, AllJoined, GraceExpires, AbortExpires
<1>6. CASE Exit
  <2>1. ASSUME NEW w \in Workers, Live(w), ~Queued(w) PROVE Cause
    <3>1. w \in observed /\ task[Monitor] # "finished"
      BY <1>6, <2>1 DEF Exit
    <3>2. CASE task[Monitor] = "running"
      BY <1>6, <3>2 DEF Exit, ExitInv, CauseInv, Ended, TasksAssumption
    <3>3. CASE task[Monitor] = "panicked"
      BY <3>3 DEF Cause, TasksAssumption
    <3>4. CASE task[Monitor] = "cancelled"
      BY <1>6, <3>4 DEF Exit, CauseInv, TasksAssumption
    <3> QED
      BY <3>1, <3>2, <3>3, <3>4 DEF TypeOK, TaskStates, TasksAssumption
  <2> QED
    BY <1>1, <1>6, <2>1 DEF Exit, TypeOK, WorkerStates
<1>7. ASSUME NEW s \in Streams, StreamNext(s) PROVE WorkerInv'
  <2>1. UNCHANGED <<main, task, workers>>
    BY <1>7 DEF StreamNext, OpenStream, Send, Polled, Tick, Receive, EndStream, LeaveStream,
                StreamMoves
  <2> QED
    BY <1>2, <2>1
<1>8. ASSUME NEW v \in Workers, WorkerNext(v) PROVE WorkerInv'
  <2>1. UNCHANGED <<main, task>>
    BY <1>8 DEF WorkerNext, SpawnWorker, WorkerLeaves, WorkerEnds, JoinWorker
  <2>2. CASE SpawnWorker(v)
    <3>1. CASE Len(queue) < QueueCapacity /\ ~Ended(Monitor)
      <4>1. /\ queue' = Append(queue, v) /\ observed' = observed
            /\ worker' = [worker EXCEPT ![v] = "running"]
        BY <2>2, <3>1 DEF SpawnWorker
      <4>2. \A w \in Workers : Queued(w) \/ w = v => Queued(w)'
        <5>1. queue \in Seq(Workers) /\ DOMAIN queue = 1..Len(queue)
          BY DEF TypeOK
        <5>2. Len(queue') = Len(queue) + 1 /\ queue'[Len(queue) + 1] = v
          BY <4>1, <5>1
        <5>3. \A i \in DOMAIN queue : i \in DOMAIN queue' /\ queue'[i] = queue[i]
          BY <4>1, <5>1
        <5>4. Len(queue) + 1 \in DOMAIN queue'
          BY <4>1, <5>1
        <5> QED
          BY <5>2, <5>3, <5>4
      <4> QED
        BY <1>1, <2>1, <4>1, <4>2 DEF TypeOK
    <3>2. CASE ~(Len(queue) < QueueCapacity /\ ~Ended(Monitor))
      BY <1>1, <2>1, <2>2, <3>2 DEF SpawnWorker, TypeOK
    <3> QED
      BY <3>1, <3>2
  <2>3. CASE WorkerLeaves(v) \/ WorkerEnds(v)
    BY <1>1, <2>1, <2>3 DEF WorkerLeaves, WorkerEnds, TypeOK
  <2>4. CASE JoinWorker(v)
    BY <1>1, <2>1, <2>4 DEF JoinWorker
  <2> QED
    BY <1>8, <2>2, <2>3, <2>4 DEF WorkerNext
<1>9. ASSUME NEW t \in Tasks, TaskNext(t) PROVE WorkerInv'
  <2>1. UNCHANGED workers
    BY <1>9 DEF TaskNext, Finish, Panic, Cancelled, TaskFailed, JoinTask, TaskEnds
  <2>2. main = "exited" => main' = "exited"
    BY <1>9 DEF TaskNext, Finish, Panic, Cancelled, TaskFailed, Unexpected, JoinTask, TaskEnds
  <2>3. main' # "exited" /\ task'[Monitor] = "finished" => observed = {}
    BY <1>9, <2>2, TasksAssumption
       DEF TaskNext, Finish, Panic, Cancelled, TaskFailed, JoinTask, TaskEnds, TypeOK, TasksAssumption
  <2> QED
    BY <1>1, <2>1, <2>2, <2>3
<1>10. CASE UNCHANGED vars
  BY <1>2, <1>10 DEF vars
<1> QED
  BY <1>3, <1>4, <1>5, <1>6, <1>7, <1>8, <1>9, <1>10 DEF Next

-----------------------------------------------------------------------------
(* The event streams.                                                      *)

LEMMA ChangeStep ==
  ASSUME TasksAssumption, TypeOK, NoChangeIsMissed, [Next]_vars
  PROVE  NoChangeIsMissed'
<1> USE DEF NoChangeIsMissed, TypeOK, TasksAssumption, serving, tasks, workers, events
<1>1. CASE UNCHANGED events
  BY <1>1
<1>2. CASE Bind \/ BindFails \/ Observe \/ MonitorSeesShutdown
  BY <1>1, <1>2 DEF Bind, BindFails, Observe, MonitorSeesShutdown
<1>3. CASE Signal \/ ServerEnds \/ AllJoined \/ GraceExpires \/ AbortExpires \/ Exit
  BY <1>1, <1>3 DEF Signal, ServerEnds, AllJoined, GraceExpires, AbortExpires, Exit
<1>4. CASE Write
  BY <1>4 DEF Write
<1>5. CASE Announce
  <2>1. \A s \in Streams : stream[s] # "closed" => backlog'[s] > 0
    BY <1>5 DEF Announce
  <2> QED
    BY <1>5, <2>1 DEF Announce
<1>6. ASSUME NEW s \in Streams, StreamNext(s) PROVE NoChangeIsMissed'
  <2>1. CASE OpenStream(s) \/ Tick(s) \/ EndStream(s) \/ LeaveStream(s)
    BY <2>1 DEF OpenStream, Tick, EndStream, LeaveStream, StreamMoves
  <2>2. CASE Send(s)
    BY <2>2 DEF Send, StreamMoves, Snapshot
  <2>3. CASE Polled(s)
    BY <2>3 DEF Polled, StreamMoves
  <2>4. CASE Receive(s)
    BY <2>4 DEF Receive, StreamMoves
  <2> QED
    BY <1>6, <2>1, <2>2, <2>3, <2>4 DEF StreamNext
<1>7. ASSUME NEW w \in Workers, WorkerNext(w) PROVE UNCHANGED events
  BY <1>7 DEF WorkerNext, SpawnWorker, WorkerLeaves, WorkerEnds, JoinWorker
<1>8. ASSUME NEW t \in Tasks, TaskNext(t) PROVE UNCHANGED events
  BY <1>8 DEF TaskNext, Finish, Panic, Cancelled, TaskFailed, JoinTask, TaskEnds
<1>9. CASE UNCHANGED vars
  BY <1>1, <1>9 DEF vars
<1> QED
  BY <1>1, <1>2, <1>3, <1>4, <1>5, <1>6, <1>7, <1>8, <1>9 DEF Next

-----------------------------------------------------------------------------
(* The theorems.                                                           *)

LEMMA ServerInit ==
  ASSUME TasksAssumption, Init
  PROVE  ShutdownInv /\ NoChangeIsMissed
<1> USE DEF Init, TasksAssumption
<1>1. TypeOK
  <2>1. queue \in Seq(Workers) /\ Len(queue) <= QueueCapacity
    OBVIOUS
  <2>2. worker \in [Workers -> WorkerStates] /\ task \in [Tasks -> TaskStates]
    BY DEF WorkerStates, TaskStates
  <2>3. stream \in [Streams -> StreamStates] /\ shown \in [Streams -> 0..MaxVersion]
    BY DEF StreamStates
  <2>4. backlog \in [Streams -> 0..ChangeCapacity + 1]
    OBVIOUS
  <2>5. panics \in 0..MaxPanics /\ version \in 0..MaxVersion /\ unsent \in 0..version
    OBVIOUS
  <2>6. /\ main \in MainStates /\ result \in Errors \cup {"ok"}
        /\ unjoined \subseteq Tasks /\ abortable \subseteq Tasks /\ told \subseteq Tasks
        /\ observed \subseteq Workers
    BY DEF MainStates
  <2>7. {flag, listening, expired, watching} \subseteq BOOLEAN
    OBVIOUS
  <2> QED
    BY <2>1, <2>2, <2>3, <2>4, <2>5, <2>6, <2>7 DEF TypeOK
<1>2. ExitInv /\ CauseInv /\ WorkerInv
  BY DEF ExitInv, CauseInv, WorkerInv, Live
<1>3. NoChangeIsMissed
  BY DEF NoChangeIsMissed
<1> QED
  BY <1>1, <1>2, <1>3 DEF ShutdownInv

\* Every state of the server is well typed, and the queue of the video workers never
\* exceeds its capacity (mpsc::channel in video/stream.rs).
THEOREM ServerTypeCorrect ==
  ASSUME TasksAssumption
  PROVE  Spec => []TypeOK
<1>1. Init => TypeOK
  BY ServerInit DEF ShutdownInv
<1>2. TypeOK /\ [Next]_vars => TypeOK'
  BY ServerTypes
<1> QED
  BY <1>1, <1>2, PTL DEF Spec

\* The strengthening holds of every behaviour of the server (server.rs, service.rs).
LEMMA ShutdownInvariant ==
  ASSUME TasksAssumption
  PROVE  Spec => []ShutdownInv
<1>1. Init => ShutdownInv
  BY ServerInit
<1>2. ShutdownInv /\ [Next]_vars => ShutdownInv'
  BY ServerTypes, ExitStep, CauseStep, WorkerStep DEF ShutdownInv
<1> QED
  BY <1>1, <1>2, PTL DEF Spec

\* When serve has returned, every task has ended or was told to abort, however many tasks
\* there are and whichever error came first (ServiceTasks::shutdown, its Drop).
THEOREM TasksAreEnded ==
  ASSUME TasksAssumption
  PROVE  Spec => []NoTaskIsLeftRunning
<1>1. ShutdownInv => NoTaskIsLeftRunning
  BY DEF ShutdownInv, ExitInv, NoTaskIsLeftRunning
<1> QED
  BY <1>1, ShutdownInvariant, PTL

\* A video worker that is cut off had the grace period, or a task panicked, or the monitor
\* never received it (watch_workers).
THEOREM WorkersGetTheGracePeriod ==
  ASSUME TasksAssumption
  PROVE  Spec => []WorkersHaveTheirWindow
<1>1. ShutdownInv => WorkersHaveTheirWindow
  BY DEF ShutdownInv, WorkerInv, WorkersHaveTheirWindow, Cause, Queued
<1> QED
  BY <1>1, ShutdownInvariant, PTL

\* No event stream misses a change for good, whatever the capacity of the channel and the
\* number of streams (current_print_events).
THEOREM ChangesReachStreams ==
  ASSUME TasksAssumption
  PROVE  Spec => []NoChangeIsMissed
<1>1. Init => TypeOK /\ NoChangeIsMissed
  BY ServerInit DEF ShutdownInv
<1>2. TypeOK /\ NoChangeIsMissed /\ [Next]_vars => TypeOK' /\ NoChangeIsMissed'
  BY ServerTypes, ChangeStep
<1> QED
  BY <1>1, <1>2, PTL DEF Spec

-----------------------------------------------------------------------------
(* The choices of the fetchers.                                            *)

\* A sequence by its index.
LEMMA ItemOfSeq ==
  ASSUME NEW S, NEW s \in Seq(S)
  PROVE  DOMAIN s \subseteq Nat /\ \A i \in DOMAIN s : s[i] \in S
BY ElementOfSeq

\* The least of a set of numbers.
LEMMA MinFacts ==
  ASSUME NEW S, S \subseteq Nat, S # {}
  PROVE  Fetch!Min(S) \in S /\ \A n \in S : Fetch!Min(S) <= n
BY Moonraker!LeastNat DEF Fetch!Min

\* Of numbered areas the largest there is, and of several the last.
LEMMA LargestExists ==
  ASSUME NEW n \in Nat, NEW U, U \subseteq 1..n, U # {}, NEW area, \A i \in U : area[i] \in Nat
  PROVE  \E i \in U : \A k \in U : area[k] < area[i] \/ (area[k] = area[i] /\ k <= i)
<1> DEFINE Best(m, i) ==
      \A k \in U : k <= m => area[k] < area[i] \/ (area[k] = area[i] /\ k <= i)
    HasBest(m) == \E i \in U : i <= m /\ Best(m, i)
    Bad == {m \in 0..n : (\E i \in U : i <= m) /\ ~HasBest(m)}
<1>0. \A k \in U : k \in 1..n /\ k \in Nat /\ area[k] \in Nat
  OBVIOUS
<1>1. ASSUME NEW m \in Bad, \A o \in Bad : m <= o PROVE FALSE
  <2>1. m \in 0..n /\ (\E i \in U : i <= m) /\ ~HasBest(m)
    OBVIOUS
  <2>2. m \in 1..n /\ m - 1 \in 0..n
    BY <1>0, <2>1
  <2>3. m - 1 \notin Bad
    <3> HIDE DEF Bad
    <3> QED
      BY <1>1, <2>2
  <2>4. (\E i \in U : i <= m - 1) => HasBest(m - 1)
    <3> HIDE DEF HasBest
    <3> QED
      BY <2>2, <2>3
  <2> HIDE DEF Bad
  <2>5. CASE \E i \in U : i <= m - 1
    <3>1. PICK i \in U : i <= m - 1 /\ Best(m - 1, i)
      BY <2>4, <2>5
    <3>2. ASSUME NEW k \in U, k <= m, k # m PROVE area[k] < area[i] \/ (area[k] = area[i] /\ k <= i)
      BY <1>0, <2>2, <3>1, <3>2
    <3>3. i \in Nat /\ area[i] \in Nat /\ m \in Nat /\ i <= m
      BY <1>0, <2>2, <3>1
    <3>4. CASE m \in U /\ area[i] <= area[m]
      <4>1. ASSUME NEW k \in U, k <= m
            PROVE  area[k] < area[m] \/ (area[k] = area[m] /\ k <= m)
        <5>1. CASE k # m
          BY <1>0, <3>2, <3>3, <3>4, <4>1, <5>1
        <5>2. CASE k = m
          BY <3>3, <5>2
        <5> QED
          BY <5>1, <5>2
      <4> QED
        BY <2>1, <3>3, <3>4, <4>1
    <3>5. CASE ~(m \in U /\ area[i] <= area[m])
      <4>1. ASSUME NEW k \in U, k <= m
            PROVE  area[k] < area[i] \/ (area[k] = area[i] /\ k <= i)
        <5>1. CASE k # m
          BY <3>2, <4>1, <5>1
        <5>2. CASE k = m
          BY <1>0, <3>3, <3>5, <5>2
        <5> QED
          BY <5>1, <5>2
      <4> QED
        BY <2>1, <3>3, <4>1
    <3> QED
      BY <3>4, <3>5
  <2>6. CASE ~\E i \in U : i <= m - 1
    <3>1. m \in U /\ \A k \in U : k <= m => k = m
      BY <1>0, <2>1, <2>2, <2>6
    <3>2. Best(m, m)
      BY <2>2, <3>1
    <3> QED
      BY <2>1, <2>2, <3>1, <3>2
  <2> QED
    BY <2>5, <2>6
<1>2. Bad = {}
  <2>1. Bad \subseteq Nat
    OBVIOUS
  <2> HIDE DEF Bad
  <2> QED
    BY <1>1, <2>1, Moonraker!LeastNat
<1>3. n \in 0..n /\ \E i \in U : i <= n
  <2> HIDE DEF Bad, HasBest, Best
  <2>1. PICK i \in U : TRUE
    OBVIOUS
  <2> QED
    BY <1>0, <2>1
<1>4. HasBest(n)
  <2> HIDE DEF HasBest
  <2> QED
    BY <1>2, <1>3
<1> QED
  BY <1>0, <1>4

\* No image of an archive stands before the one that is selected (select_thumbnail_entry).
LEMMA SelectedIsBest ==
  ASSUME Fetch!FetchAssumption, NEW a \in Archives, Fetch!Picture(a) # None
  PROVE  Fetch!BestOfArchive([archive |-> a, entry |-> Fetch!Picture(a)])
<1> SUFFICES ASSUME NEW n \in Fetch!Images \cap DOMAIN a.entries, NEW k \in Fetch!RelationRank(a, n)
             PROVE  \E l \in Fetch!RelationRank(a, Fetch!Picture(a)) : l <= k
  BY DEF Fetch!BestOfArchive
<1> DEFINE relation == a.relationships
<1>0. relation \in Seq([type : STRING, target : STRING]) /\ DOMAIN Fetch!Priority = 1..3
  BY DEF Fetch!FetchAssumption, Fetch!Priority
<1>1. PICK i \in DOMAIN relation : relation[i] = [type |-> Fetch!Priority[k], target |-> n]
  BY DEF Fetch!RelationRank
<1>2. k \in Fetch!Ranks(a) /\ Fetch!Ranks(a) \subseteq Nat
  BY <1>0, <1>1 DEF Fetch!Ranks, Fetch!RelatedAt, Fetch!RelationRank
<1> DEFINE m == Fetch!Min(Fetch!Ranks(a))
<1>3. m \in Fetch!Ranks(a) /\ m <= k
  BY <1>2, MinFacts
<1> DEFINE j == Fetch!Min(Fetch!RelatedAt(a, m))
<1>4. j \in Fetch!RelatedAt(a, m)
  <2>1. Fetch!RelatedAt(a, m) # {}
    <3> HIDE DEF m
    <3> QED
      BY <1>3 DEF Fetch!Ranks
  <2>2. Fetch!RelatedAt(a, m) \subseteq DOMAIN relation
    BY DEF Fetch!RelatedAt
  <2>3. DOMAIN relation \subseteq Nat
    BY <1>0
  <2> QED
    BY <2>1, <2>2, <2>3, MinFacts
<1>5. Fetch!Picture(a) = relation[j].target
  BY <1>2 DEF Fetch!Picture, Fetch!SelectedEntry
<1>6. relation[j] = [type |-> Fetch!Priority[m], target |-> relation[j].target]
  <2> HIDE DEF j, m
  <2>1. j \in DOMAIN relation /\ relation[j].type = Fetch!Priority[m]
    BY <1>4 DEF Fetch!RelatedAt
  <2>2. relation[j] \in [type : STRING, target : STRING]
    <3> DEFINE Relations == [type : STRING, target : STRING]
    <3>1. relation \in Seq(Relations)
      BY <1>0
    <3> HIDE DEF relation, Relations
    <3>2. relation[j] \in Relations
      BY <2>1, <3>1, ItemOfSeq
    <3> QED
      BY <3>2 DEF Relations
  <2> QED
    BY <2>1, <2>2
<1>7. m \in Fetch!RelationRank(a, Fetch!Picture(a))
  BY <1>3, <1>4, <1>5, <1>6 DEF Fetch!RelationRank, Fetch!RelatedAt, Fetch!Ranks
<1> QED
  BY <1>3, <1>7

\* A task that is listed by the job's id is the one taken (select_cloud_task).
LEMMA TaskIsTheJobs ==
  ASSUME Fetch!FetchAssumption, NEW listing \in Listings, job.id # None,
         \E i \in DOMAIN listing : listing[i].id = job.id
  PROVE  Fetch!Matching(listing, job).id = job.id
<1>1. Fetch!TasksWith(listing, job, "id") # {} /\ Fetch!TasksWith(listing, job, "id") \subseteq Nat
  BY DEF Fetch!TasksWith, Fetch!FetchAssumption
<1>2. Fetch!Min(Fetch!TasksWith(listing, job, "id")) \in Fetch!TasksWith(listing, job, "id")
  BY <1>1, MinFacts
<1> QED
  BY <1>1, <1>2 DEF Fetch!Matching, Fetch!TasksWith

\* No preview with a path is larger than the one picked (pick_thumbnail).
LEMMA LargestIsLargest ==
  ASSUME Fetch!FetchAssumption, NEW thumbnails \in Previews, NEW i \in DOMAIN thumbnails,
         thumbnails[i].path # None
  PROVE  thumbnails[i].area <= Fetch!Largest(thumbnails).area
<1> DEFINE U == Fetch!Usable(thumbnails)
           area == [k \in DOMAIN thumbnails |-> thumbnails[k].area]
<1>0. thumbnails \in Seq([path : STRING \cup {None}, area : Nat])
  BY DEF Fetch!FetchAssumption
<1>1. /\ i \in U /\ U \subseteq 1..Len(thumbnails) /\ Len(thumbnails) \in Nat
      /\ \A k \in DOMAIN thumbnails : thumbnails[k].area \in Nat
  <2> DEFINE Thumbnails == [path : STRING \cup {None}, area : Nat]
  <2>1. \A k \in DOMAIN thumbnails : thumbnails[k] \in Thumbnails
    <3> HIDE DEF Thumbnails
    <3> QED
      BY <1>0, ItemOfSeq DEF Thumbnails
  <2> QED
    BY <1>0, <2>1 DEF Fetch!Usable
<1>2. \E l \in U : \A k \in U : area[k] < area[l] \/ (area[k] = area[l] /\ k <= l)
  <2> HIDE DEF area
  <2>1. \A k \in U : area[k] \in Nat
    BY <1>1 DEF area, Fetch!Usable
  <2> QED
    BY <1>1, <2>1, LargestExists
<1>3. \E l \in U : Fetch!IsLargest(thumbnails, l)
  BY <1>2 DEF Fetch!IsLargest, Fetch!Usable
<1>4. PICK l \in U : Fetch!IsLargest(thumbnails, l) /\ Fetch!Largest(thumbnails) = thumbnails[l]
  BY <1>1, <1>3 DEF Fetch!Largest
<1>5. thumbnails[i].area \in Nat /\ thumbnails[l].area \in Nat
  BY <1>1 DEF Fetch!Usable
<1> QED
  BY <1>1, <1>4, <1>5 DEF Fetch!IsLargest

-----------------------------------------------------------------------------
(* The invariant.                                                          *)

\* The places that may be left to try.
Rests == {<<>>, <<"root">>, <<"model">>, <<"cache">>, <<"root", "model">>,
          <<"cache", "root", "model">>}

\* The archive that is being read is the only file that is not a broken download's.
TempInv == temp = broken + (IF place = "extract" THEN 1 ELSE 0)

\* A fetch that goes on has not been answered, and one that has is not answered again.
AnswerInv ==
  /\ place # "idle" => outcome = Fetch!Unanswered
  /\ Fetch!TriedIsNeverLoading

\* Each place of a fetch is of its job's source.
RouteInv ==
  /\ place \in {"retrieve", "extract"} => job.route = "local" /\ rest # <<>>
  /\ place \in {"tasks", "cover"} => job.route = "cloud"
  /\ place \in {"metadata", "preview"} => job.route = "moonraker"
  /\ Len(reasons) + Len(rest) <= 3

\* What was downloaded, or chosen of what was told.
ContentInv ==
  /\ place = "extract" => content \in Archives \cup {Partial}
  /\ place = "cover" =>
       /\ content.tasks \in Listings
       /\ content.task = Fetch!Matching(content.tasks, job)
  /\ place = "preview" =>
       /\ content.of \in Previews
       /\ content.largest = Fetch!Largest(content.of)

FetchInv ==
  Fetch!TypeOK /\ TempInv /\ AnswerInv /\ RouteInv /\ ContentInv /\ Fetch!PictureIsTheBest

LEMMA TailOfOne == \A x : Tail(<<x>>) = <<>>
<1> TAKE x
<1>1. <<x>> \in Seq({x}) /\ Len(<<x>>) = 1
  OBVIOUS
<1> QED
  BY <1>1

LEMMA RestLengths ==
  ASSUME NEW r \in Rests
  PROVE  Len(r) \in Nat /\ Len(r) <= 3
BY DEF Rests

LEMMA RestTails ==
  ASSUME NEW r \in Rests, r # <<>>
  PROVE  Tail(r) \in Rests /\ Len(Tail(r)) + 1 = Len(r) /\ Head(r) \in Fetch!Directories
<1>1. CASE r \in {<<"root">>, <<"model">>, <<"cache">>}
  <2>1. Tail(r) = <<>>
    BY <1>1, TailOfOne
  <2> QED
    BY <1>1, <2>1 DEF Rests, Fetch!Directories
<1>2. CASE r = <<"root", "model">>
  <2>1. Tail(r) = <<"model">>
    BY <1>2
  <2> QED
    BY <1>2, <2>1 DEF Rests, Fetch!Directories
<1>3. CASE r = <<"cache", "root", "model">>
  <2>1. Tail(r) = <<"root", "model">>
    BY <1>3
  <2> QED
    BY <1>3, <2>1 DEF Rests, Fetch!Directories
<1> QED
  BY <1>1, <1>2, <1>3 DEF Rests

LEMMA NoCauseIsUnavailable ==
  ASSUME NEW j
  PROVE  Fetch!Classify(j, Fetch!NoCause) = "unavailable"
BY DEF Fetch!Classify, Fetch!Incomplete, Fetch!NoCause

\* The failure of all places is unavailable, and before it there is no answer.
LEMMA NextPlaceStep ==
  ASSUME NEW reason \in Fetch!Reasons, Fetch!NextPlace(reason), place \in {"retrieve", "extract"},
         Fetch!TypeOK, AnswerInv, RouteInv, job' = job
  PROVE  /\ AnswerInv' /\ RouteInv' /\ Fetch!PictureIsTheBest'
         /\ place' \in {"idle", "retrieve"} /\ rest' \in Rests
         /\ reasons' \in Seq(Fetch!Reasons) /\ Len(reasons') <= 3
         /\ outcome'.status \in {"none", "unavailable"}
<1>0. rest \in Rests /\ rest # <<>> /\ reasons \in Seq(Fetch!Reasons) /\ Len(reasons) + Len(rest) <= 3
  BY DEF Fetch!TypeOK, RouteInv, Rests
<1>1. rest' = Tail(rest) /\ reasons' = Append(reasons, reason)
  BY DEF Fetch!NextPlace
<1>2. rest' \in Rests /\ Len(rest') + 1 = Len(rest) /\ Len(rest') \in Nat
  BY <1>0, <1>1, RestTails, RestLengths
<1>3. reasons' \in Seq(Fetch!Reasons) /\ Len(reasons') = Len(reasons) + 1 /\ Len(reasons) \in Nat
  BY <1>0, <1>1
<1>4. Len(reasons') + Len(rest') <= 3 /\ Len(reasons') <= 3
  BY <1>0, <1>2, <1>3
<1>5. CASE Tail(rest) = <<>>
  <2>1. place' = "idle" /\ outcome' = [status |-> "unavailable", of |-> None]
    BY <1>5, NoCauseIsUnavailable DEF Fetch!NextPlace, Fetch!Answer
  <2> QED
    BY <1>2, <1>3, <1>4, <2>1 DEF AnswerInv, Fetch!TriedIsNeverLoading, RouteInv, Fetch!PictureIsTheBest
<1>6. CASE Tail(rest) # <<>>
  <2>1. place' = "retrieve" /\ outcome' = Fetch!Unanswered /\ outcome'.status = "none"
    BY <1>6 DEF Fetch!NextPlace, AnswerInv, Fetch!Unanswered
  <2> QED
    BY <1>1, <1>2, <1>3, <1>4, <1>6, <2>1
    DEF AnswerInv, Fetch!TriedIsNeverLoading, RouteInv, Fetch!PictureIsTheBest, Fetch!Unanswered
<1> QED
  BY <1>5, <1>6

LEMMA FetchStep ==
  ASSUME Fetch!FetchAssumption, FetchInv, [Fetch!Next]_(Fetch!vars)
  PROVE  FetchInv'
<1> USE DEF FetchInv, TempInv, Fetch!fetch
<1>0. /\ temp \in Nat /\ broken \in Nat /\ fetches \in 0..MaxFetches /\ MaxFetches \in Nat
      /\ rest \in Rests
  BY DEF Fetch!TypeOK, Fetch!FetchAssumption, Rests
<1>1. CASE UNCHANGED Fetch!vars
  BY <1>1 DEF Fetch!vars, Fetch!TypeOK, AnswerInv, Fetch!TriedIsNeverLoading, RouteInv, ContentInv, Fetch!PictureIsTheBest,
              Fetch!BestOfArchive, Fetch!TaskOfTheJob, Fetch!LargestPreview
<1>2. CASE Fetch!PrinterWrites
  <2>1. UNCHANGED <<place, Fetch!fetch, content, outcome, temp, broken, fetches>>
    BY <1>2 DEF Fetch!PrinterWrites
  <2>2. disk' \in [Fetch!Directories -> Archives \cup {Partial, None}]
    BY <1>2 DEF Fetch!PrinterWrites, Fetch!TypeOK
  <2> QED
    BY <2>1, <2>2 DEF Fetch!TypeOK, AnswerInv, Fetch!TriedIsNeverLoading, RouteInv, ContentInv, Fetch!PictureIsTheBest,
              Fetch!BestOfArchive, Fetch!TaskOfTheJob, Fetch!LargestPreview
<1>3. CASE Fetch!Begin
  <2>1. /\ UNCHANGED <<disk, content, temp, broken>> /\ reasons' = <<>> /\ place = "idle"
        /\ fetches' \in 0..MaxFetches
    BY <1>0, <1>3 DEF Fetch!Begin
  <2>2. PICK j \in Jobs : job' = j /\ (Fetch!BeginLocal(j) \/ Fetch!BeginRemote(j))
    BY <1>3 DEF Fetch!Begin
  <2>3. /\ rest' \in Rests /\ Len(rest') <= 3 /\ outcome'.status # "ready"
        /\ outcome'.status \in {"none", "loading", "unavailable"}
        /\ place' # "idle" => outcome' = Fetch!Unanswered
        /\ \/ place' = "idle"
           \/ place' = "retrieve" /\ j.route = "local" /\ rest' # <<>>
           \/ place' = "tasks" /\ j.route = "cloud"
           \/ place' = "metadata" /\ j.route = "moonraker"
    <3>1. CASE Fetch!BeginLocal(j)
      <4>1. rest' \in {<<>>, <<"model">>, <<"cache", "root", "model">>}
        BY <3>1 DEF Fetch!BeginLocal, Fetch!Candidates
      <4>2. rest' \in Rests
        BY <4>1 DEF Rests
      <4>3. j.route = "local" /\ Len(rest') <= 3
        BY <3>1, <4>2, RestLengths DEF Fetch!BeginLocal
      <4>4. CASE rest' = <<>>
        <5>1. place' = "idle" /\ outcome'.status \in {"loading", "unavailable"}
          BY <3>1, <4>4, NoCauseIsUnavailable DEF Fetch!BeginLocal, Fetch!Answer
        <5> QED
          BY <4>2, <4>3, <5>1
      <4>5. CASE rest' # <<>>
        <5>1. place' = "retrieve" /\ outcome' = Fetch!Unanswered
          BY <3>1, <4>5 DEF Fetch!BeginLocal
        <5> QED
          BY <4>2, <4>3, <4>5, <5>1 DEF Fetch!Unanswered
      <4> QED
        BY <4>4, <4>5
    <3>2. CASE Fetch!BeginRemote(j)
      BY <3>2, RestLengths DEF Fetch!BeginRemote, Rests, Fetch!Unanswered, Fetch!FetchAssumption
    <3> QED
      BY <2>2, <3>1, <3>2
  <2>4. Len(reasons') = 0 /\ Len(rest') \in Nat /\ reasons' \in Seq(Fetch!Reasons)
    BY <2>1, <2>3, RestLengths
  <2>5. Fetch!TypeOK' /\ TempInv'
    BY <2>1, <2>2, <2>3, <2>4 DEF Fetch!TypeOK, Rests
  <2>6. AnswerInv' /\ ContentInv' /\ Fetch!PictureIsTheBest'
    BY <2>1, <2>3 DEF AnswerInv, Fetch!TriedIsNeverLoading, ContentInv, Fetch!PictureIsTheBest
  <2>7. RouteInv'
    BY <2>2, <2>3, <2>4 DEF RouteInv
  <2> QED
    BY <2>5, <2>6, <2>7
<1>4. CASE Fetch!RetrieveFails \/ Fetch!DownloadBreaks
  <2>1. PICK reason \in Fetch!Reasons : Fetch!NextPlace(reason)
    BY <1>4 DEF Fetch!RetrieveFails, Fetch!DownloadBreaks, Fetch!Reasons
  <2>2. /\ place = "retrieve" /\ UNCHANGED <<disk, job, content, fetches>>
        /\ \/ UNCHANGED <<temp, broken>>
           \/ temp' = temp + 1 /\ broken' = broken + 1
    BY <1>4 DEF Fetch!RetrieveFails, Fetch!DownloadBreaks
  <2>3. /\ AnswerInv' /\ RouteInv' /\ Fetch!PictureIsTheBest'
        /\ place' \in {"idle", "retrieve"} /\ rest' \in Rests
        /\ reasons' \in Seq(Fetch!Reasons) /\ Len(reasons') <= 3
        /\ outcome'.status \in {"none", "unavailable"}
    BY <2>1, <2>2, NextPlaceStep
  <2>4. Fetch!TypeOK' /\ TempInv' /\ ContentInv'
    BY <1>0, <2>2, <2>3 DEF Fetch!TypeOK, Rests, ContentInv
  <2> QED
    BY <2>3, <2>4
<1>5. CASE Fetch!Download
  <2>1. /\ place = "retrieve" /\ place' = "extract" /\ content' = disk[Head(rest)]
        /\ disk[Head(rest)] # None /\ temp' = temp + 1
        /\ UNCHANGED <<disk, Fetch!fetch, outcome, broken, fetches>>
    BY <1>5 DEF Fetch!Download
  <2>2. content' \in Archives \cup {Partial}
    <3>1. Head(rest) \in Fetch!Directories
      BY <1>0, <2>1, RestTails DEF RouteInv
    <3> QED
      BY <2>1, <3>1 DEF Fetch!TypeOK
  <2> QED
    BY <1>0, <2>1, <2>2 DEF Fetch!TypeOK, AnswerInv, Fetch!TriedIsNeverLoading, RouteInv, ContentInv,
      Fetch!PictureIsTheBest, Fetch!Unanswered
<1>6. CASE Fetch!Extract /\ content # Partial /\ Fetch!Picture(content) # None
  <2>1. /\ place = "extract" /\ place' = "idle" /\ content \in Archives
        /\ outcome' = [status |-> "ready", of |-> [archive |-> content, entry |-> Fetch!Picture(content)]]
        /\ content' = None /\ temp' = temp - 1
        /\ UNCHANGED <<disk, Fetch!fetch, broken, fetches>>
    BY <1>6 DEF Fetch!Extract, Fetch!Answer, ContentInv
  <2>2. Fetch!PictureIsTheBest'
    <3>0. PICK a \in Archives : a = content
      BY <2>1
    <3>1. Fetch!BestOfArchive([archive |-> a, entry |-> Fetch!Picture(a)])
      BY <1>6, <3>0, SelectedIsBest
    <3>3. outcome'.of = [archive |-> a, entry |-> Fetch!Picture(a)]
      BY <2>1, <3>0
    <3>2. job'.route = "local"
      BY <2>1 DEF RouteInv
    <3> QED
      BY <3>1, <3>2, <3>3 DEF Fetch!PictureIsTheBest
  <2> QED
    BY <1>0, <2>1, <2>2 DEF Fetch!TypeOK, AnswerInv, Fetch!TriedIsNeverLoading, RouteInv, ContentInv
<1>7. CASE Fetch!FinalizeFails \/ (Fetch!Extract /\ ~(content # Partial /\ Fetch!Picture(content) # None))
  <2>1. PICK reason \in Fetch!Reasons : Fetch!NextPlace(reason)
    BY <1>7 DEF Fetch!FinalizeFails, Fetch!Extract, Fetch!Reasons
  <2>2. /\ place = "extract" /\ UNCHANGED <<disk, job, broken, fetches>>
        /\ temp' = temp - 1
    BY <1>7 DEF Fetch!FinalizeFails, Fetch!Extract
  <2>3. /\ AnswerInv' /\ RouteInv' /\ Fetch!PictureIsTheBest'
        /\ place' \in {"idle", "retrieve"} /\ rest' \in Rests
        /\ reasons' \in Seq(Fetch!Reasons) /\ Len(reasons') <= 3
        /\ outcome'.status \in {"none", "unavailable"}
    BY <2>1, <2>2, NextPlaceStep
  <2>4. Fetch!TypeOK' /\ TempInv' /\ ContentInv'
    BY <1>0, <2>2, <2>3 DEF Fetch!TypeOK, Rests, ContentInv
  <2> QED
    BY <2>3, <2>4
<1>8. CASE Fetch!TasksAnswer
  <2>1. PICK listing \in Listings :
          \/ Fetch!Answer("unavailable", None) /\ UNCHANGED content
          \/ /\ place' = "cover" /\ UNCHANGED outcome
             /\ content' = [task |-> Fetch!Matching(listing, job), tasks |-> listing]
    BY <1>8 DEF Fetch!TasksAnswer
  <2>2. place = "tasks" /\ UNCHANGED <<disk, Fetch!fetch, temp, broken, fetches>>
    BY <1>8 DEF Fetch!TasksAnswer
  <2>4. ContentInv'
    BY <2>1, <2>2 DEF ContentInv, Fetch!Answer
  <2> QED
    BY <1>0, <2>1, <2>2, <2>4 DEF Fetch!Answer, Fetch!TypeOK, AnswerInv, Fetch!TriedIsNeverLoading, RouteInv,
      Fetch!PictureIsTheBest, Fetch!Unanswered
<1>9. CASE Fetch!MetadataAnswers
  <2>1. \/ Fetch!Answer("missing", None) /\ UNCHANGED content
        \/ /\ place' = "preview" /\ UNCHANGED outcome
           /\ \E thumbnails \in Previews :
                content' = [largest |-> Fetch!Largest(thumbnails), of |-> thumbnails]
    BY <1>9 DEF Fetch!MetadataAnswers
  <2>2. place = "metadata" /\ UNCHANGED <<disk, Fetch!fetch, temp, broken, fetches>>
    BY <1>9 DEF Fetch!MetadataAnswers
  <2>4. ContentInv'
    BY <2>1, <2>2 DEF ContentInv, Fetch!Answer
  <2> QED
    BY <1>0, <2>1, <2>2, <2>4 DEF Fetch!Answer, Fetch!TypeOK, AnswerInv, Fetch!TriedIsNeverLoading, RouteInv,
      Fetch!PictureIsTheBest, Fetch!Unanswered
<1>10. CASE Fetch!ImageArrives
  <2>1. /\ place \in {"cover", "preview"} /\ place' = "idle" /\ content' = None
        /\ outcome' = [status |-> "ready", of |-> content]
        /\ UNCHANGED <<disk, Fetch!fetch, temp, broken, fetches>>
    BY <1>10 DEF Fetch!ImageArrives, Fetch!Answer
  <2>2. CASE place = "cover"
    <3>1. Fetch!TaskOfTheJob(content)
      BY <2>2, TaskIsTheJobs DEF ContentInv, Fetch!TaskOfTheJob
    <3>2. Fetch!TaskOfTheJob(outcome.of)' /\ job'.route = "cloud"
      BY <2>1, <2>2, <3>1 DEF Fetch!TaskOfTheJob, RouteInv
    <3> QED
      BY <1>0, <2>1, <2>2, <3>2 DEF Fetch!TypeOK, AnswerInv, Fetch!TriedIsNeverLoading, RouteInv, ContentInv,
        Fetch!PictureIsTheBest
  <2>3. CASE place = "preview"
    <3>1. Fetch!LargestPreview(content)
      BY <2>3, LargestIsLargest DEF ContentInv, Fetch!LargestPreview
    <3>2. Fetch!LargestPreview(outcome.of)' /\ job'.route = "moonraker"
      BY <2>1, <2>3, <3>1 DEF Fetch!LargestPreview, RouteInv
    <3> QED
      BY <1>0, <2>1, <2>3, <3>2 DEF Fetch!TypeOK, AnswerInv, Fetch!TriedIsNeverLoading, RouteInv, ContentInv,
        Fetch!PictureIsTheBest
  <2> QED
    BY <2>1, <2>2, <2>3
<1>11. CASE Fetch!RequestFails
  BY <1>0, <1>11 DEF Fetch!RequestFails, Fetch!Answer, Fetch!TypeOK, AnswerInv, Fetch!TriedIsNeverLoading, RouteInv,
    ContentInv, Fetch!PictureIsTheBest, Fetch!Unanswered
<1> QED
  BY <1>1, <1>2, <1>3, <1>4, <1>5, <1>6, <1>7, <1>8, <1>9, <1>10, <1>11 DEF Fetch!Next

LEMMA FetchInit ==
  ASSUME Fetch!FetchAssumption, Fetch!Init
  PROVE  FetchInv
BY DEF Fetch!Init, Fetch!FetchAssumption, Fetch!Unanswered, FetchInv, Fetch!TypeOK, TempInv, AnswerInv,
  Fetch!TriedIsNeverLoading, RouteInv, ContentInv, Fetch!PictureIsTheBest

LEMMA FetchInvariant ==
  ASSUME Fetch!FetchAssumption
  PROVE  Fetch!Spec => []FetchInv
<1>1. Fetch!Init => FetchInv
  BY FetchInit
<1>2. FetchInv /\ [Fetch!Next]_(Fetch!vars) => FetchInv'
  BY FetchStep
<1> QED
  BY <1>1, <1>2, PTL DEF Fetch!Spec

\* Between two fetches the directory for temporary files holds nothing but the downloads that
\* broke off: one for each of them, and none of any other way out of retrieve_thumbnail.
THEOREM OnlyBrokenDownloadsRemain ==
  ASSUME Fetch!FetchAssumption
  PROVE  Fetch!Spec => []Fetch!OnlyBrokenDownloadsStay
<1>1. FetchInv => Fetch!OnlyBrokenDownloadsStay
  BY DEF FetchInv, TempInv, Fetch!TypeOK, Fetch!OnlyBrokenDownloadsStay
<1> QED
  BY <1>1, FetchInvariant, PTL

\* Once a place was tried, a failure is answered as unavailable and never as loading,
\* whatever the printer held there (fetch_local_3mf_thumbnail_with_mode,
\* classify_local_thumbnail_failure).
THEOREM TriedPlacesAreNeverLoading ==
  ASSUME Fetch!FetchAssumption
  PROVE  Fetch!Spec => []Fetch!TriedIsNeverLoading
<1>1. FetchInv => Fetch!TriedIsNeverLoading
  BY DEF FetchInv, AnswerInv
<1> QED
  BY <1>1, FetchInvariant, PTL

-----------------------------------------------------------------------------
(* The page: its invariant.                                                *)

\* The pending key is the last event's, or that event was one of the early returns.
PendingInv ==
  thumbPendingKey # None =>
    thumbPendingKey = wanted \/ (wanted # None /\ wanted \in {thumbKey, thumbFailedKey})

\* The timer is for the pending key, and the last request is done with.
TimerInv ==
  /\ thumbRetryTimer # None => thumbRetryTimer = thumbPendingKey
  /\ thumbRetryTimer # None => \A f \in inFlight : f.id # thumbRequest
  /\ \A f, g \in inFlight : f.id = g.id => f = g

\* A picture is the rendered one, and nothing else is pending.
SlotInv ==
  thumbSlot.shows = "picture" => thumbSlot.of = thumbKey /\ thumbPendingKey = None

PageInv == Page!TypeOK /\ PendingInv /\ TimerInv /\ SlotInv

\* What is in flight when there have been n requests.
RequestsUpTo(n) == [id : 1..n, key : Page!Keys, stage : {"response", "body", "image"}]

\* The steps of one request.
RequestStep(f) ==
  \/ Page!Dropped(f) \/ Page!ResponseIsLoading(f) \/ Page!ResponseIsOk(f) \/ Page!FetchFails(f)
  \/ Page!BodyArrives(f) \/ Page!ImageLoads(f) \/ Page!ImageFails(f)

-----------------------------------------------------------------------------
(* The page: types.                                                        *)

\* What an event names is a key of the page, or nothing.
LEMMA EventKey ==
  ASSUME NEW devices \in Reports
  PROVE  Page!KeyOf(Page!PickDevice(devices)) \in Page!Keys \cup {None}
BY DEF Page!Keys

LEMMA RenderTypes ==
  ASSUME Page!TypeOK, NEW key \in Page!Keys \cup {None}, NEW force \in BOOLEAN, Page!RenderThumb(key, force),
         wanted' \in Page!Keys \cup {None}, open' \in BOOLEAN
  PROVE  Page!TypeOK'
<1> USE DEF Page!TypeOK, Page!keys, Page!shown
<1>1. CASE ~force /\ Page!Known(key)
  BY <1>1 DEF Page!RenderThumb
<1>2. CASE ~(~force /\ Page!Known(key)) /\ key = None
  <2>1. Page!ClearThumb
    BY <1>2 DEF Page!RenderThumb
  <2>2. 1..thumbRequest \subseteq 1..thumbRequest + 1
    OBVIOUS
  <2>3. inFlight \subseteq RequestsUpTo(thumbRequest + 1)
    BY <2>2 DEF RequestsUpTo
  <2> QED
    BY <2>1, <2>2, <2>3 DEF RequestsUpTo, Page!ClearThumb, Page!SetThumb, Page!Empty
<1>3. CASE ~(~force /\ Page!Known(key)) /\ key # None
  <2>1. Page!RequestThumb(key) /\ key \in Page!Keys
    BY <1>3 DEF Page!RenderThumb
  <2>2. [id |-> thumbRequest + 1, key |-> key, stage |-> "response"]
          \in RequestsUpTo(thumbRequest + 1)
    BY <2>1 DEF RequestsUpTo
  <2>3. inFlight \subseteq RequestsUpTo(thumbRequest + 1)
    BY DEF RequestsUpTo
  <2> QED
    BY <2>1, <2>2, <2>3 DEF RequestsUpTo, Page!RequestThumb, Page!SetThumb, Page!Loading
<1> QED
  BY <1>1, <1>2, <1>3

LEMMA MarkTypes ==
  ASSUME Page!TypeOK, NEW key \in Page!Keys, NEW urls \in SUBSET objectUrls, Page!MarkThumbFailed(key, urls),
         inFlight' \subseteq inFlight, UNCHANGED <<wanted, open>>
  PROVE  Page!TypeOK'
BY DEF Page!TypeOK, Page!MarkThumbFailed, Page!SetThumb, Page!Empty

LEMMA RequestTypes ==
  ASSUME Page!TypeOK, NEW f \in inFlight, RequestStep(f)
  PROVE  Page!TypeOK'
<1> USE DEF Page!TypeOK, Page!keys, Page!shown, RequestsUpTo
<1>0. f \in RequestsUpTo(thumbRequest)
  BY DEF RequestsUpTo
<1>1. CASE Page!Dropped(f)
  BY <1>1 DEF Page!Dropped, Page!Done
<1>2. CASE Page!ResponseIsLoading(f)
  BY <1>0, <1>2 DEF Page!ResponseIsLoading, Page!Done
<1>3. CASE Page!ResponseIsOk(f)
  BY <1>0, <1>3 DEF Page!ResponseIsOk, Page!Proceed
<1>4. CASE Page!FetchFails(f)
  BY <1>0, <1>4, MarkTypes DEF Page!FetchFails, Page!Done
<1>5. CASE Page!BodyArrives(f)
  BY <1>0, <1>5 DEF Page!BodyArrives, Page!Proceed
<1>6. CASE Page!ImageLoads(f)
  <2>1. [shows |-> "picture", of |-> f.key] \in [shows : {"picture"}, of : Page!Keys]
    BY <1>0
  <2>2. CASE Page!StillWanted(f)
    BY <1>0, <1>6, <2>1, <2>2 DEF Page!ImageLoads, Page!Done
  <2>3. CASE ~Page!StillWanted(f)
    BY <1>6, <2>3 DEF Page!ImageLoads, Page!Done
  <2> QED
    BY <2>2, <2>3
<1>7. CASE Page!ImageFails(f)
  <2>1. CASE f.id = thumbRequest
    BY <1>0, <1>7, <2>1, MarkTypes DEF Page!ImageFails, Page!Done
  <2>2. CASE f.id # thumbRequest
    BY <1>7, <2>2 DEF Page!ImageFails, Page!Done
  <2> QED
    BY <2>1, <2>2
<1> QED
  BY <1>1, <1>2, <1>3, <1>4, <1>5, <1>6, <1>7 DEF RequestStep

LEMMA PageTypes ==
  ASSUME Page!TypeOK, [Page!Next]_(Page!vars)
  PROVE  Page!TypeOK'
<1>1. CASE Page!HandlePrintEvent
  BY <1>1, EventKey, RenderTypes DEF Page!HandlePrintEvent, Page!TypeOK
<1>2. CASE Page!StreamCloses
  BY <1>2, RenderTypes DEF Page!StreamCloses
<1>3. CASE Page!TimerFires
  BY <1>3, RenderTypes DEF Page!TimerFires, Page!TypeOK
<1>4. CASE UNCHANGED Page!vars
  BY <1>4 DEF Page!vars, Page!keys, Page!shown, Page!TypeOK
<1> QED
  BY <1>1, <1>2, <1>3, <1>4, RequestTypes DEF Page!Next, RequestStep

-----------------------------------------------------------------------------
(* The page: the pending key.                                              *)

\* renderThumb for the key of an event, which is the wanted one from now on.
LEMMA EventStep ==
  ASSUME PageInv, wanted' \in Page!Keys \cup {None}, Page!RenderThumb(wanted', FALSE)
  PROVE  PendingInv' /\ TimerInv' /\ SlotInv'
<1> USE DEF PageInv, PendingInv, TimerInv, SlotInv, Page!TypeOK, Page!keys, Page!shown
<1>1. CASE Page!Known(wanted')
  BY <1>1 DEF Page!RenderThumb, Page!Known
<1>2. CASE ~Page!Known(wanted') /\ wanted' = None
  BY <1>2 DEF Page!RenderThumb, Page!ClearThumb, Page!SetThumb, Page!Empty
<1>3. CASE ~Page!Known(wanted') /\ wanted' # None
  BY <1>3 DEF Page!RenderThumb, Page!RequestThumb, Page!SetThumb, Page!Loading
<1> QED
  BY <1>1, <1>2, <1>3

\* The retry timer asks for the pending key again.
LEMMA TimerStep ==
  ASSUME PageInv, Page!TimerFires
  PROVE  PendingInv' /\ TimerInv' /\ SlotInv'
BY DEF Page!TimerFires, Page!RenderThumb, Page!RequestThumb, Page!SetThumb, Page!Loading, PageInv, PendingInv, TimerInv,
       SlotInv, Page!TypeOK

LEMMA MarkStep ==
  ASSUME PageInv, NEW key \in Page!Keys, NEW urls, Page!MarkThumbFailed(key, urls),
         inFlight' \subseteq inFlight, UNCHANGED <<wanted, open>>
  PROVE  PendingInv' /\ TimerInv' /\ SlotInv'
BY DEF Page!MarkThumbFailed, Page!SetThumb, Page!Empty, PageInv, PendingInv, TimerInv, SlotInv, Page!TypeOK

LEMMA RequestStepInv ==
  ASSUME PageInv, NEW f \in inFlight, RequestStep(f)
  PROVE  PendingInv' /\ TimerInv' /\ SlotInv'
<1> USE DEF PageInv, PendingInv, TimerInv, SlotInv, Page!keys, Page!shown, RequestsUpTo
<1>0. f \in RequestsUpTo(thumbRequest)
  BY DEF Page!TypeOK, RequestsUpTo
<1>1. CASE Page!Dropped(f)
  BY <1>1 DEF Page!Dropped, Page!Done
<1>2. CASE Page!ResponseIsLoading(f)
  BY <1>0, <1>2 DEF Page!ResponseIsLoading, Page!Done, Page!StillWanted
<1>3. ASSUME NEW stage, Page!Proceed(f, stage), UNCHANGED thumbRequest
      PROVE  (\A g \in inFlight : g.id # thumbRequest) => \A g \in inFlight' : g.id # thumbRequest
  BY <1>0, <1>3 DEF Page!Proceed
<1>4. ASSUME NEW stage, Page!Proceed(f, stage)
      PROVE  \A g, h \in inFlight' : g.id = h.id => g = h
  BY <1>0, <1>4 DEF Page!Proceed
<1>5. CASE Page!ResponseIsOk(f)
  BY <1>5, <1>3, <1>4 DEF Page!ResponseIsOk
<1>6. CASE Page!FetchFails(f)
  BY <1>0, <1>6, MarkStep DEF Page!FetchFails, Page!Done
<1>7. CASE Page!BodyArrives(f)
  BY <1>7, <1>3, <1>4 DEF Page!BodyArrives
<1>8. CASE Page!ImageLoads(f)
  BY <1>0, <1>8 DEF Page!ImageLoads, Page!Done, Page!StillWanted
<1>9. CASE Page!ImageFails(f)
  <2>1. CASE f.id = thumbRequest
    BY <1>0, <1>9, <2>1, MarkStep DEF Page!ImageFails, Page!Done
  <2>2. CASE f.id # thumbRequest
    BY <1>9, <2>2 DEF Page!ImageFails, Page!Done
  <2> QED
    BY <2>1, <2>2
<1> QED
  BY <1>1, <1>2, <1>5, <1>6, <1>7, <1>8, <1>9 DEF RequestStep

LEMMA PageStep ==
  ASSUME PageInv, [Page!Next]_(Page!vars)
  PROVE  PageInv'
<1>1. Page!TypeOK'
  BY PageTypes DEF PageInv
<1>2. CASE Page!HandlePrintEvent
  BY <1>1, <1>2, EventKey, EventStep DEF Page!HandlePrintEvent, PageInv
<1>3. CASE Page!StreamCloses
  BY <1>1, <1>3, EventStep DEF Page!StreamCloses, PageInv
<1>4. CASE Page!TimerFires
  BY <1>1, <1>4, TimerStep DEF PageInv
<1>5. CASE UNCHANGED Page!vars
  BY <1>5, <1>1 DEF Page!vars, Page!keys, Page!shown, PageInv, PendingInv, TimerInv, SlotInv
<1> QED
  BY <1>1, <1>2, <1>3, <1>4, <1>5, RequestStepInv DEF Page!Next, RequestStep, PageInv

-----------------------------------------------------------------------------
(* The page: the object URLs.                                              *)

LEMMA MarkUrls ==
  ASSUME NEW key, NEW urls, Page!MarkThumbFailed(key, urls)
  PROVE  \A u \in objectUrls' : u \in urls /\ (u = thumbObjectUrl => u = thumbObjectUrl')
BY DEF Page!MarkThumbFailed, Page!SetThumb

LEMMA UrlStep ==
  ASSUME Page!TypeOK, Page!NoUrlLeaks, [Page!Next]_(Page!vars)
  PROVE  Page!NoUrlLeaks'
<1> USE DEF Page!NoUrlLeaks, Page!keys, Page!shown, RequestsUpTo
<1>1. ASSUME NEW key, NEW force, Page!RenderThumb(key, force) PROVE Page!NoUrlLeaks'
  BY <1>1 DEF Page!RenderThumb, Page!ClearThumb, Page!RequestThumb, Page!SetThumb
<1>2. ASSUME NEW f \in inFlight, RequestStep(f) PROVE Page!NoUrlLeaks'
  <2>0. f \in RequestsUpTo(thumbRequest)
    BY DEF Page!TypeOK, RequestsUpTo
  <2>1. CASE Page!Dropped(f) \/ Page!ResponseIsLoading(f)
    BY <2>1 DEF Page!Dropped, Page!ResponseIsLoading, Page!Done
  <2>2. CASE Page!ResponseIsOk(f)
    BY <2>2 DEF Page!ResponseIsOk, Page!Proceed
  <2>3. CASE Page!FetchFails(f)
    BY <2>3, MarkUrls DEF Page!FetchFails, Page!Done
  <2>4. CASE Page!BodyArrives(f)
    <3>1. [f EXCEPT !.stage = "image"].id = f.id /\ [f EXCEPT !.stage = "image"].stage = "image"
      BY <2>0
    <3> QED
      BY <2>4, <3>1 DEF Page!BodyArrives, Page!Proceed
  <2>5. CASE Page!ImageLoads(f)
    BY <2>5 DEF Page!ImageLoads, Page!Done
  <2>6. CASE Page!ImageFails(f)
    BY <2>6, MarkUrls DEF Page!ImageFails, Page!Done
  <2> QED
    BY <1>2, <2>1, <2>2, <2>3, <2>4, <2>5, <2>6 DEF RequestStep
<1>3. CASE Page!HandlePrintEvent \/ Page!StreamCloses \/ Page!TimerFires
  BY <1>1, <1>3 DEF Page!HandlePrintEvent, Page!StreamCloses, Page!TimerFires
<1>4. CASE UNCHANGED Page!vars
  BY <1>4 DEF Page!vars
<1> QED
  BY <1>2, <1>3, <1>4 DEF Page!Next, RequestStep

-----------------------------------------------------------------------------
(* The page: the theorems.                                                 *)

LEMMA PageInit ==
  ASSUME Page!Init
  PROVE  PageInv /\ Page!NoUrlLeaks
BY DEF Page!Init, Page!Empty, PageInv, Page!TypeOK, PendingInv, TimerInv, SlotInv, Page!NoUrlLeaks

LEMMA PageInvariant == Page!Spec => []PageInv
<1>1. Page!Init => PageInv
  BY PageInit
<1>2. PageInv /\ [Page!Next]_(Page!vars) => PageInv'
  BY PageStep
<1> QED
  BY <1>1, <1>2, PTL DEF Page!Spec

\* A step that puts a picture into the slot, or leaves one there for another event.
LEMMA PictureStep ==
  ASSUME PageInv, [Page!Next]_(Page!vars)
  PROVE  [Page!KeepsToThePrint]_(Page!vars)
<1> USE DEF PageInv, PendingInv, SlotInv, Page!KeepsToThePrint, Page!keys, Page!shown
<1> SUFFICES ASSUME Page!Next PROVE Page!KeepsToThePrint
  OBVIOUS
<1>1. ASSUME Page!RenderThumb(wanted', FALSE) PROVE Page!KeepsToThePrint
  <2>1. CASE Page!Known(wanted') /\ wanted' = None
    <3>1. thumbSlot.shows # "picture"
      BY <2>1 DEF Page!Known, Page!TypeOK, Page!Empty, Page!Loading, Page!Keys
    <3> QED
      BY <1>1, <2>1, <3>1 DEF Page!RenderThumb
  <2>2. CASE Page!Known(wanted') /\ wanted' # None
    BY <1>1, <2>2 DEF Page!RenderThumb, Page!Known
  <2>3. CASE ~Page!Known(wanted')
    BY <1>1, <2>3 DEF Page!RenderThumb, Page!ClearThumb, Page!RequestThumb, Page!SetThumb, Page!Empty, Page!Loading
  <2> QED
    BY <2>1, <2>2, <2>3
<1>2. CASE Page!HandlePrintEvent \/ Page!StreamCloses
  BY <1>1, <1>2 DEF Page!HandlePrintEvent, Page!StreamCloses
<1>3. CASE Page!TimerFires
  BY <1>3 DEF Page!TimerFires, Page!RenderThumb, Page!RequestThumb, Page!SetThumb, Page!Loading
<1>4. ASSUME NEW f \in inFlight, RequestStep(f) PROVE Page!KeepsToThePrint
  <2>1. CASE Page!Dropped(f) \/ Page!ResponseIsLoading(f) \/ Page!ResponseIsOk(f) \/ Page!BodyArrives(f)
    BY <2>1 DEF Page!Dropped, Page!ResponseIsLoading, Page!ResponseIsOk, Page!BodyArrives
  <2>2. CASE Page!FetchFails(f) \/ Page!ImageFails(f)
    BY <2>2 DEF Page!FetchFails, Page!ImageFails, Page!MarkThumbFailed, Page!SetThumb, Page!Empty
  <2>3. CASE Page!ImageLoads(f)
    <3>1. f.key # None
      BY DEF Page!TypeOK, Page!Keys
    <3> QED
      BY <2>3, <3>1 DEF Page!ImageLoads, Page!StillWanted
  <2> QED
    BY <1>4, <2>1, <2>2, <2>3 DEF RequestStep
<1> QED
  BY <1>2, <1>3, <1>4 DEF Page!Next, RequestStep

\* Every state of the page is well typed.
THEOREM PageTypeCorrect == Page!Spec => []Page!TypeOK
BY PageInvariant, PTL DEF PageInv

\* A picture that is put into the slot, or left there by an event, is of the print that was
\* named last, whatever the order of responses, images and retries; a print that comes back
\* as the rendered or the failed one is excepted (renderThumb, renderThumbBlob).
THEOREM PicturesAreOfThePrint == Page!Spec => Page!PictureIsOfThePrint
BY PageInvariant, PictureStep, PTL DEF Page!Spec, Page!PictureIsOfThePrint

\* The page keeps no object URL but the picture's and those of the images being decoded,
\* however many prints it shows (revokeThumbObjectUrl).
THEOREM UrlsAreRevoked == Page!Spec => []Page!NoUrlLeaks
<1>1. Page!Init => Page!TypeOK /\ Page!NoUrlLeaks
  BY PageInit DEF PageInv
<1>2. Page!TypeOK /\ Page!NoUrlLeaks /\ [Page!Next]_(Page!vars) => Page!TypeOK' /\ Page!NoUrlLeaks'
  BY PageTypes, UrlStep
<1> QED
  BY <1>1, <1>2, PTL DEF Page!Spec

-----------------------------------------------------------------------------
(* The components side by side.                                            *)

\* A step is of the component that runs, and of no other; the server may only stutter
\* beside it.
LEMMA PartStep ==
  ASSUME [ServicesNext]_servicesVars
  PROVE  /\ part' = part
         /\ [Next]_vars
         /\ part = "camera" => [Camera!Next]_(Camera!vars)
         /\ part = "print" => [Moonraker!Next]_(Moonraker!vars)
         /\ part = "catalog" => [Catalog!Next]_(Catalog!vars)
         /\ part = "credentials" => [Credential!Next]_(Credential!vars)
         /\ part = "fetch" => [Fetch!Next]_(Fetch!vars)
         /\ part = "page" => [Page!Next]_(Page!vars)
<1>1. CASE ServicesNext
  BY <1>1 DEF ServicesNext
<1>2. CASE UNCHANGED servicesVars
  <2> USE DEF servicesVars, commonVars
  <2>1. UNCHANGED <<part, vars>>
    BY <1>2
  <2>2. UNCHANGED Camera!vars
    BY <1>2 DEF cameraVars, Camera!vars, Camera!session
  <2>3. UNCHANGED Moonraker!vars
    BY <1>2 DEF printVars, Moonraker!vars, Moonraker!world, Moonraker!session
  <2>4. UNCHANGED Catalog!vars
    BY <1>2 DEF catalogVars, Catalog!vars
  <2>5. UNCHANGED Credential!vars
    BY <1>2 DEF credentialVars, Credential!vars, Credential!files, Credential!printers
  <2>6. UNCHANGED Fetch!vars
    BY <1>2 DEF fetchVars, Fetch!vars, Fetch!fetch
  <2>7. UNCHANGED Page!vars
    BY <1>2 DEF pageVars, Page!vars, Page!keys, Page!shown
  <2> QED
    BY <2>1, <2>2, <2>3, <2>4, <2>5, <2>6, <2>7
<1> QED
  BY <1>1, <1>2

\* Every behaviour is one of the component it is of.
THEOREM PartsAreTheirComponents ==
  ServicesSpec =>
    /\ Init /\ [][Next]_vars
    /\ part = "camera" => Camera!Spec
    /\ part = "catalog" => Catalog!Spec
    /\ part = "credentials" => Credential!Spec
    /\ part = "fetch" => Fetch!Spec
    /\ part = "page" => Page!Spec
    /\ part = "print" => (Moonraker!Init /\ [][Moonraker!Next]_(Moonraker!vars))
<1>1. ServicesInit =>
        /\ Init
        /\ part = "camera" => Camera!Init
        /\ part = "catalog" => Catalog!Init
        /\ part = "credentials" => Credential!Init
        /\ part = "fetch" => Fetch!Init
        /\ part = "page" => Page!Init
        /\ part = "print" => Moonraker!Init
  BY DEF ServicesInit
<1>2. [ServicesNext]_servicesVars => [Next]_vars
  BY PartStep
<1>3. ServicesSpec => (part = "camera" => Camera!Spec)
  <2>1. [ServicesNext]_servicesVars /\ part = "camera" =>
          (part = "camera")' /\ [Camera!Next]_(Camera!vars)
    BY PartStep
  <2> QED
    BY <1>1, <2>1, PTL DEF ServicesSpec, Camera!Spec
<1>4. ServicesSpec => (part = "catalog" => Catalog!Spec)
  <2>1. [ServicesNext]_servicesVars /\ part = "catalog" =>
          (part = "catalog")' /\ [Catalog!Next]_(Catalog!vars)
    BY PartStep
  <2> QED
    BY <1>1, <2>1, PTL DEF ServicesSpec, Catalog!Spec
<1>5. ServicesSpec => (part = "credentials" => Credential!Spec)
  <2>1. [ServicesNext]_servicesVars /\ part = "credentials" =>
          (part = "credentials")' /\ [Credential!Next]_(Credential!vars)
    BY PartStep
  <2> QED
    BY <1>1, <2>1, PTL DEF ServicesSpec, Credential!Spec
<1>6. ServicesSpec => (part = "fetch" => Fetch!Spec)
  <2>1. [ServicesNext]_servicesVars /\ part = "fetch" =>
          (part = "fetch")' /\ [Fetch!Next]_(Fetch!vars)
    BY PartStep
  <2> QED
    BY <1>1, <2>1, PTL DEF ServicesSpec, Fetch!Spec
<1>7. ServicesSpec => (part = "page" => Page!Spec)
  <2>1. [ServicesNext]_servicesVars /\ part = "page" =>
          (part = "page")' /\ [Page!Next]_(Page!vars)
    BY PartStep
  <2> QED
    BY <1>1, <2>1, PTL DEF ServicesSpec, Page!Spec
<1>8. ServicesSpec => (part = "print" => (Moonraker!Init /\ [][Moonraker!Next]_(Moonraker!vars)))
  <2>1. [ServicesNext]_servicesVars /\ part = "print" =>
          (part = "print")' /\ [Moonraker!Next]_(Moonraker!vars)
    BY PartStep
  <2> QED
    BY <1>1, <2>1, PTL DEF ServicesSpec
<1>9. ServicesSpec => Init /\ [][Next]_vars
  BY <1>1, <1>2, PTL DEF ServicesSpec
<1> QED
  BY <1>3, <1>4, <1>5, <1>6, <1>7, <1>8, <1>9

\* What is invariant of a part stays so in the whole.
LEMMA CameraInServices ==
  ASSUME ~SameInstant
  PROVE  ServicesSpec => [](part = "camera" => Camera!CameraInv)
<1>1. ServicesInit => (part = "camera" => Camera!CameraInv)
  BY ServicesAssumption, Camera!CameraInit DEF ServicesInit
<1>2. (part = "camera" => Camera!CameraInv) /\ [ServicesNext]_servicesVars =>
        (part = "camera" => Camera!CameraInv)'
  BY ServicesAssumption, PartStep, Camera!CameraStep
<1> QED
  BY <1>1, <1>2, PTL DEF ServicesSpec

LEMMA PrintInServices == ServicesSpec => [](part = "print" => Moonraker!PrintInv)
<1>1. ServicesInit => (part = "print" => Moonraker!PrintInv)
  BY ServicesAssumption, Moonraker!PrintInit DEF ServicesInit
<1>2. (part = "print" => Moonraker!PrintInv) /\ [ServicesNext]_servicesVars =>
        (part = "print" => Moonraker!PrintInv)'
  BY ServicesAssumption, PartStep, Moonraker!PrintStep
<1> QED
  BY <1>1, <1>2, PTL DEF ServicesSpec

LEMMA CredentialsInServices == ServicesSpec => [](part = "credentials" => Credential!CredentialInv)
<1>1. ServicesInit => (part = "credentials" => Credential!CredentialInv)
  BY ServicesAssumption, Credential!CredentialInit DEF ServicesInit
<1>2. (part = "credentials" => Credential!CredentialInv) /\ [ServicesNext]_servicesVars =>
        (part = "credentials" => Credential!CredentialInv)'
  BY ServicesAssumption, PartStep, Credential!CredentialStep
<1> QED
  BY <1>1, <1>2, PTL DEF ServicesSpec

LEMMA CatalogInServices == ServicesSpec => [](part = "catalog" => Catalog!CatalogInv)
<1>1. ServicesInit => (part = "catalog" => Catalog!CatalogInv)
  BY ServicesAssumption, Catalog!CatalogInit DEF ServicesInit
<1>2. (part = "catalog" => Catalog!CatalogInv) /\ [ServicesNext]_servicesVars =>
        (part = "catalog" => Catalog!CatalogInv)'
  BY ServicesAssumption, PartStep, Catalog!CatalogStep
<1> QED
  BY <1>1, <1>2, PTL DEF ServicesSpec

LEMMA FetchInServices == ServicesSpec => [](part = "fetch" => FetchInv)
<1>1. ServicesInit => (part = "fetch" => FetchInv)
  BY ServicesAssumption, FetchInit DEF ServicesInit
<1>2. (part = "fetch" => FetchInv) /\ [ServicesNext]_servicesVars => (part = "fetch" => FetchInv)'
  BY ServicesAssumption, PartStep, FetchStep
<1> QED
  BY <1>1, <1>2, PTL DEF ServicesSpec

LEMMA PageInServices == ServicesSpec => [](part = "page" => PageInv)
<1>1. ServicesInit => (part = "page" => PageInv)
  BY PageInit DEF ServicesInit
<1>2. (part = "page" => PageInv) /\ [ServicesNext]_servicesVars =>
        (part = "page" => PageInv)'
  BY PartStep, PageStep
<1> QED
  BY <1>1, <1>2, PTL DEF ServicesSpec

\* After the answer to a stop, nothing that is under way arms the camera again, provided that
\* no two calls are made in the same millisecond (SnapMqttPublisher::invoke).
THEOREM ServicesStopTheCamera ==
  ASSUME ~SameInstant
  PROVE  ServicesSpec => []StopIsTheLastWord
<1>1. (part = "camera" => Camera!CameraInv) => StopIsTheLastWord
  BY DEF StopIsTheLastWord, Camera!CameraInv
<1> QED
  BY <1>1, CameraInServices, PTL

\* The start time that is shown is of a print of the shown file, for any number of files and
\* prints (JobFacts::for_current_job, publish).
THEOREM ServicesKnowTheFile == ServicesSpec => []FactsAreOfTheFile
<1>1. (part = "print" => Moonraker!PrintInv) => FactsAreOfTheFile
  BY Moonraker!PrintFacts DEF FactsAreOfTheFile
<1> QED
  BY <1>1, PrintInServices, PTL

\* The estimate is of the print it is shown with (EtaTracker::estimate).
THEOREM ServicesEstimateThePrint == ServicesSpec => []EstimateIsOfThePrint
<1>1. (part = "print" => Moonraker!PrintInv) => EstimateIsOfThePrint
  BY Moonraker!PrintFacts DEF EstimateIsOfThePrint
<1> QED
  BY <1>1, PrintInServices, PTL

\* The time that is left does not grow while the progress stands still (EtaTracker).
THEOREM ServicesCountDown == ServicesSpec => CountsDown
<1>1. (part = "print" => Moonraker!PrintInv) /\ [ServicesNext]_servicesVars =>
        [part = "print" => Moonraker!DoesNotGrow]_servicesVars
  BY ServicesAssumption, PartStep, Moonraker!PrintStep
<1> QED
  BY <1>1, PrintInServices, PTL DEF ServicesSpec, CountsDown

\* The registry is the reference's, for every command line and account and whatever the order
\* of the probes (resolve_devices, DeviceRegistryBuilder).
THEOREM ServicesResolveTheReference == ServicesSpec => []RegistryIsTheReference
<1>1. (part = "catalog" => Catalog!CatalogInv) => RegistryIsTheReference
  BY ServicesAssumption, Catalog!ReferenceFacts DEF RegistryIsTheReference
<1> QED
  BY <1>1, CatalogInServices, PTL

\* The credential files are whole at every moment, whichever commands crash (write_atomic).
THEOREM ServicesKeepFilesWhole == ServicesSpec => []FilesAreWhole
<1>1. (part = "credentials" => Credential!CredentialInv) => FilesAreWhole
  BY ServicesAssumption, Credential!CredentialFacts DEF FilesAreWhole
<1> QED
  BY <1>1, CredentialsInServices, PTL

\* A saved pairing is of its own client, which the printer accepted (run_bootstrap).
THEOREM ServicesPairTheirOwn == ServicesSpec => []PairingIsOurs
<1>1. (part = "credentials" => Credential!CredentialInv) => PairingIsOurs
  BY ServicesAssumption, Credential!CredentialFacts DEF PairingIsOurs
<1> QED
  BY <1>1, CredentialsInServices, PTL

\* A picture is the best of its source, whatever archives, task lists and previews there are
\* (select_thumbnail_entry, select_cloud_task, pick_thumbnail).
THEOREM ServicesFetchTheBest == ServicesSpec => []PictureIsTheBest
<1>1. (part = "fetch" => FetchInv) => PictureIsTheBest
  BY DEF FetchInv, PictureIsTheBest
<1> QED
  BY <1>1, FetchInServices, PTL

\* The picture on the page is of the print last named (renderThumb, renderThumbBlob).
THEOREM ServicesShowThePrint == ServicesSpec => PictureIsOfThePrint
<1>1. ASSUME part = "page" => PageInv, [ServicesNext]_servicesVars
      PROVE  [part = "page" => Page!KeepsToThePrint]_servicesVars
  <2> SUFFICES ASSUME ServicesNext, part = "page", ~UNCHANGED servicesVars
               PROVE  Page!KeepsToThePrint
    BY <1>1
  <2>1. ~UNCHANGED Page!vars
    BY DEF ServicesNext, servicesVars, pageVars, Page!vars, Page!keys, Page!shown
  <2> QED
    BY <1>1, <2>1, PartStep, PictureStep
<1> QED
  BY <1>1, PageInServices, PTL DEF ServicesSpec, PictureIsOfThePrint

\* The camera's types, whatever the instants of its calls are.
LEMMA CameraTypesInServices ==
  ServicesSpec => [](part = "camera" => Camera!TypeOK /\ Camera!OpenInv)
<1>1. ServicesInit => (part = "camera" => Camera!TypeOK /\ Camera!OpenInv)
  BY ServicesAssumption, Camera!CameraInit DEF ServicesInit, Camera!CameraInv
<1>2. (part = "camera" => Camera!TypeOK /\ Camera!OpenInv) /\ [ServicesNext]_servicesVars =>
        (part = "camera" => Camera!TypeOK /\ Camera!OpenInv)'
  BY ServicesAssumption, PartStep, Camera!CameraTypes, Camera!OpenStep
<1> QED
  BY <1>1, <1>2, PTL DEF ServicesSpec

\* Every component's state is well typed, whichever of them runs.
THEOREM ServicesTypeCorrect == ServicesSpec => []ServicesTypeOK
<1>1. ServicesSpec => []TypeOK
  <2>1. ServicesInit => TypeOK
    BY ServicesAssumption, ServerInit DEF ServicesInit, ShutdownInv
  <2>2. TypeOK /\ [ServicesNext]_servicesVars => TypeOK'
    BY ServicesAssumption, PartStep, ServerTypes
  <2> QED
    BY <2>1, <2>2, PTL DEF ServicesSpec
<1>2. /\ TypeOK
      /\ part = "camera" => Camera!TypeOK /\ Camera!OpenInv
      /\ part = "print" => Moonraker!PrintInv
      /\ part = "catalog" => Catalog!CatalogInv
      /\ part = "credentials" => Credential!CredentialInv
      /\ part = "fetch" => FetchInv
      /\ part = "page" => PageInv
      => ServicesTypeOK
  BY DEF ServicesTypeOK, Moonraker!PrintInv, Catalog!CatalogInv, Credential!CredentialInv,
         FetchInv, PageInv
<1> QED
  BY <1>1, <1>2, CameraTypesInServices, PrintInServices, CatalogInServices,
     CredentialsInServices, FetchInServices, PageInServices, PTL
=============================================================================
