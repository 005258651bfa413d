----------------------------- MODULE ServiceTasks -----------------------------
(***************************************************************************)
(* The life of the server (server.rs, service.rs): its background tasks,   *)
(* the HTTP server with its event streams (web/current_print.rs), the      *)
(* video workers and the task that watches them (video/stream.rs), and the *)
(* shutdown that ends them all.                                            *)
(*                                                                         *)
(* What a background task does is in the modules of its own; here it runs, *)
(* ends, panics or is cancelled.  The live state is a version, which every *)
(* write of the store raises.                                              *)
(***************************************************************************)
EXTENDS Naturals, Sequences, FiniteSets

CONSTANTS
  Tasks,          \* the background tasks
  Monitor,        \* the one of them that watches the video workers
  Workers,        \* the video workers
  Streams,        \* the event streams
  QueueCapacity,  \* the capacity of the queue of the video workers
  ChangeCapacity, \* the capacity of the store's change channel
  MaxVersion,     \* a bound on the writes of the live state
  MaxPanics       \* a bound on the panics

TasksAssumption ==
  /\ Monitor \in Tasks
  /\ QueueCapacity \in Nat
  /\ ChangeCapacity \in Nat \ {0}
  /\ MaxVersion \in Nat
  /\ MaxPanics \in Nat

VARIABLES
  main,      \* where serve is
  result,    \* what it is going to return: "ok", or where the first error came from
  flag,      \* the shutdown was triggered
  listening, \* the HTTP server has bound its address
  expired,   \* a grace period has passed
  task,      \* the state of each background task
  unjoined,  \* the tasks whose exit nobody has taken out of the monitors
  abortable, \* the tasks whose abort handle is still held
  told,      \* the tasks that were told to abort
  panics,    \* how many tasks have panicked
  watching,  \* the monitor has not seen the shutdown
  queue,     \* the video workers that the monitor has still to receive
  observed,  \* the workers whose end it waits for
  worker,    \* the state of each video worker
  version,   \* the version of the live state
  unsent,    \* the writes that are not announced yet
  stream,    \* where each event stream is
  backlog,   \* the messages in its receiver; above the capacity it lags
  shown      \* the version of the payload it sent last

serving == <<main, result, flag, listening, expired>>
tasks == <<task, unjoined, abortable, told, panics>>
workers == <<watching, queue, observed, worker>>
events == <<version, unsent, stream, backlog, shown>>
vars == <<serving, tasks, workers, events>>

MainStates == {"serving", "draining", "grace", "aborting", "returned", "exited"}
Errors == {"server", "background", "shutdown"}
TaskStates == {"running", "finished", "panicked", "cancelled"}
WorkerStates == {"none", "running", "leaving", "ended", "cut"}
StreamStates == {"closed", "snapshot", "sending", "waiting"}

TypeOK ==
  /\ main \in MainStates /\ result \in Errors \cup {"ok"}
  /\ flag \in BOOLEAN /\ listening \in BOOLEAN /\ expired \in BOOLEAN
  /\ task \in [Tasks -> TaskStates]
  /\ unjoined \subseteq Tasks /\ abortable \subseteq Tasks /\ told \subseteq Tasks
  /\ panics \in 0..MaxPanics
  /\ watching \in BOOLEAN /\ queue \in Seq(Workers) /\ Len(queue) <= QueueCapacity
  /\ observed \subseteq Workers
  /\ worker \in [Workers -> WorkerStates]
  /\ version \in 0..MaxVersion /\ unsent \in 0..version
  /\ stream \in [Streams -> StreamStates]
  /\ backlog \in [Streams -> 0..ChangeCapacity + 1]
  /\ shown \in [Streams -> 0..MaxVersion]

\* ServiceGraph::build: every task is spawned, and its abort handle and a monitor kept.
Init ==
  /\ main = "serving" /\ result = "ok"
  /\ flag = FALSE /\ listening = FALSE /\ expired = FALSE
  /\ task = [t \in Tasks |-> "running"]
  /\ unjoined = Tasks /\ abortable = Tasks /\ told = {} /\ panics = 0
  /\ watching = TRUE /\ queue = <<>> /\ observed = {}
  /\ worker = [w \in Workers |-> "none"]
  /\ version = 0 /\ unsent = 0
  /\ stream = [s \in Streams |-> "closed"]
  /\ backlog = [s \in Streams |-> 0]
  /\ shown = [s \in Streams |-> 0]

\* The process is there.
Alive == main # "exited"

Ended(t) == task[t] # "running"

-----------------------------------------------------------------------------
(* serve_http and the event streams.                                       *)

\* TcpListener::bind; a bind that fails is BindFails below.
Bind ==
  /\ main \in {"serving", "draining"} /\ ~listening
  /\ listening' = TRUE
  /\ UNCHANGED <<main, result, flag, expired, tasks, workers, events>>

\* A write of the live store, which sends its message when the lock is released.
Write ==
  /\ Alive /\ version < MaxVersion
  /\ version' = version + 1
  /\ unsent' = unsent + 1
  /\ UNCHANGED <<serving, tasks, workers, stream, backlog, shown>>

\* The message goes to every receiver there is; one above the capacity is a lag.
Announce ==
  /\ Alive /\ unsent > 0
  /\ unsent' = unsent - 1
  /\ backlog' = [s \in Streams |->
                   IF stream[s] = "closed" \/ backlog[s] > ChangeCapacity
                     THEN backlog[s] ELSE backlog[s] + 1]
  /\ UNCHANGED <<serving, tasks, workers, version, stream, shown>>

StreamMoves(s, place) ==
  /\ stream' = [stream EXCEPT ![s] = place]
  /\ UNCHANGED <<serving, tasks, workers, version, unsent>>

\* current_print_events: the change receiver is made before the first payload.
\* The graceful shutdown takes no new connections.
OpenStream(s) ==
  /\ main = "serving" /\ listening /\ ~flag /\ stream[s] = "closed"
  /\ StreamMoves(s, "snapshot")
  /\ backlog' = [backlog EXCEPT ![s] = 0]
  /\ shown' = [shown EXCEPT ![s] = 0]

\* LiveStateStore::snapshot: the reports and the connections under one lock.
Snapshot == version

\* current_print_event: the snapshot makes the payload, which is yielded.
Send(s) ==
  /\ Alive /\ stream[s] = "snapshot"
  /\ StreamMoves(s, "sending")
  /\ shown' = [shown EXCEPT ![s] = Snapshot]
  /\ UNCHANGED backlog

\* The connection has taken the event, and polls the stream for the next one.
Polled(s) ==
  /\ Alive /\ stream[s] = "sending"
  /\ StreamMoves(s, "waiting")
  /\ UNCHANGED <<backlog, shown>>

\* interval.tick()
Tick(s) ==
  /\ Alive /\ stream[s] = "waiting"
  /\ StreamMoves(s, "snapshot")
  /\ UNCHANGED <<backlog, shown>>

\* changes.recv(); a receiver that lagged is replaced by a new one.
\* Mutated form: after a lag the stream waits on with the new receiver.
ReceiveWithoutSending(s) ==
  /\ Alive /\ stream[s] = "waiting" /\ backlog[s] > 0
  /\ StreamMoves(s, IF backlog[s] > ChangeCapacity THEN "waiting" ELSE "snapshot")
  /\ backlog' = [backlog EXCEPT ![s] = IF @ > ChangeCapacity THEN 0 ELSE @ - 1]
  /\ UNCHANGED shown

Receive(s) ==
  /\ Alive /\ stream[s] = "waiting" /\ backlog[s] > 0
  /\ StreamMoves(s, "snapshot")
  /\ backlog' = [backlog EXCEPT ![s] = IF @ > ChangeCapacity THEN 0 ELSE @ - 1]
  /\ UNCHANGED shown

\* shutdown.cancelled(), which the stream sees only while it is polled.
\* Mutated form: the branch goes on like the others instead of breaking the loop.
GoesOn(s) ==
  /\ Alive /\ flag /\ stream[s] = "waiting"
  /\ StreamMoves(s, "snapshot")
  /\ UNCHANGED <<backlog, shown>>

EndStream(s) ==
  /\ Alive /\ flag /\ stream[s] = "waiting"
  /\ StreamMoves(s, "closed")
  /\ UNCHANGED <<backlog, shown>>

\* The client goes away.
LeaveStream(s) ==
  /\ Alive /\ stream[s] # "closed"
  /\ StreamMoves(s, "closed")
  /\ UNCHANGED <<backlog, shown>>

-----------------------------------------------------------------------------
(* The video workers and their monitor: spawn_worker and watch_workers.    *)

\* Workers are numbered in the order they are spawned.
NextWorker == CHOOSE w \in Workers : worker[w] = "none" \/ \A v \in Workers : worker[v] # "none"

\* A request for video spawns a worker and puts it into the monitor's queue; when
\* that is full or closed, the worker is aborted.
\* Mutated form: the queue has no bound.
SpawnUnbounded(w) ==
  /\ listening /\ main \in {"serving", "draining"} /\ w = NextWorker /\ worker[w] = "none"
  /\ IF ~Ended(Monitor)
       THEN /\ queue' = Append(queue, w)
            /\ worker' = [worker EXCEPT ![w] = "running"]
       ELSE /\ worker' = [worker EXCEPT ![w] = "ended"]
            /\ UNCHANGED queue
  /\ UNCHANGED <<serving, tasks, watching, observed, events>>

SpawnWorker(w) ==
  /\ listening /\ main \in {"serving", "draining"} /\ w = NextWorker /\ worker[w] = "none"
  /\ IF Len(queue) < QueueCapacity /\ ~Ended(Monitor)
       THEN /\ queue' = Append(queue, w)
            /\ worker' = [worker EXCEPT ![w] = "running"]
       ELSE /\ worker' = [worker EXCEPT ![w] = "ended"]
            /\ UNCHANGED queue
  /\ UNCHANGED <<serving, tasks, watching, observed, events>>

\* The worker leaves its loop, at the shutdown or for want of viewers, and has its
\* printer still to be told.
WorkerLeaves(w) ==
  /\ Alive /\ worker[w] = "running"
  /\ worker' = [worker EXCEPT ![w] = "leaving"]
  /\ UNCHANGED <<serving, tasks, watching, queue, observed, events>>

WorkerEnds(w) ==
  /\ Alive /\ worker[w] = "leaving"
  /\ worker' = [worker EXCEPT ![w] = "ended"]
  /\ UNCHANGED <<serving, tasks, watching, queue, observed, events>>

\* worker_rx.recv()
Observe ==
  /\ ~Ended(Monitor) /\ watching /\ queue # <<>>
  /\ observed' = observed \cup {Head(queue)}
  /\ queue' = Tail(queue)
  /\ UNCHANGED <<serving, tasks, watching, worker, events>>

\* workers.join_next()
JoinWorker(w) ==
  /\ ~Ended(Monitor) /\ w \in observed /\ worker[w] = "ended"
  /\ observed' = observed \ {w}
  /\ UNCHANGED <<serving, tasks, watching, queue, worker, events>>

\* shutdown.cancelled(): from now on the queue is not received from.
MonitorSeesShutdown ==
  /\ ~Ended(Monitor) /\ watching /\ flag
  /\ watching' = FALSE
  /\ UNCHANGED <<serving, tasks, queue, observed, worker, events>>

-----------------------------------------------------------------------------
(* The background tasks.                                                   *)

TaskEnds(t, status) ==
  /\ task' = [task EXCEPT ![t] = status]
  /\ UNCHANGED <<serving, unjoined, abortable, told, workers, events>>

\* A task ends at the shutdown; the monitor when the observed workers have ended.
\* Mutated form: the monitor does not wait for them.
FinishAtOnce(t) ==
  /\ ~Ended(t) /\ flag
  /\ t = Monitor => ~watching
  /\ TaskEnds(t, "finished")
  /\ UNCHANGED panics

Finish(t) ==
  /\ ~Ended(t) /\ flag
  /\ t = Monitor => ~watching /\ observed = {}
  /\ TaskEnds(t, "finished")
  /\ UNCHANGED panics

Panic(t) ==
  /\ ~Ended(t) /\ panics < MaxPanics
  /\ TaskEnds(t, "panicked")
  /\ panics' = panics + 1

\* A task that was told to abort is cancelled at its next await.
Cancelled(t) ==
  /\ ~Ended(t) /\ t \in told
  /\ TaskEnds(t, "cancelled")
  /\ UNCHANGED panics

-----------------------------------------------------------------------------
(* serve.                                                                  *)

\* combine_shutdown_result: the first error is the one returned.
Combine(error) == result' = IF result = "ok" THEN error ELSE result

\* The signal that ends the process, while serve waits in its select!.
Signal ==
  /\ main = "serving"
  /\ main' = "draining"
  /\ flag' = TRUE
  /\ UNCHANGED <<result, listening, expired, tasks, workers, events>>

\* unexpected_error: before the shutdown any exit of a task is a failure.
Unexpected(t) == main = "serving" /\ task[t] \in {"finished", "panicked", "cancelled"}

\* wait_for_failure
TaskFailed(t) ==
  /\ t \in unjoined /\ Unexpected(t)
  /\ main' = "draining"
  /\ flag' = TRUE
  /\ Combine("background")
  /\ unjoined' = unjoined \ {t}
  /\ UNCHANGED <<listening, expired, task, abortable, told, panics, workers, events>>

\* serve_http fails: serve need not wait for it any more.
BindFails ==
  /\ main \in {"serving", "draining"} /\ ~listening
  /\ main' = "grace"
  /\ flag' = TRUE
  /\ Combine("server")
  /\ UNCHANGED <<listening, expired, tasks, workers, events>>

\* The graceful shutdown of the server waits for its last connection.
ServerEnds ==
  /\ main = "draining" /\ listening
  /\ \A s \in Streams : stream[s] = "closed"
  /\ main' = "grace"
  /\ UNCHANGED <<result, flag, listening, expired, tasks, workers, events>>

\* Mutated form: without the Drop of ServiceTasks.
LeavesHandles == told' = told /\ abortable' = {}

\* ServiceTasks is dropped when serve returns.
DropTasks ==
  /\ told' = told \cup abortable
  /\ abortable' = {}

\* wait_for_completion: one more exit.  One that is a failure ends the waiting.
JoinTask(t) ==
  /\ main \in {"grace", "aborting"} /\ t \in unjoined /\ Ended(t)
  /\ unjoined' = unjoined \ {t}
  /\ IF task[t] = "panicked"
       THEN main' = "returned" /\ Combine("shutdown") /\ DropTasks
       ELSE UNCHANGED <<main, result, abortable, told>>
  /\ UNCHANGED <<flag, listening, expired, task, panics, workers, events>>

\* wait_for_completion returns Ok, and the handles are cleared.
AllJoined ==
  /\ main \in {"grace", "aborting"} /\ unjoined = {}
  /\ main' = "returned"
  /\ abortable' = {}
  /\ UNCHANGED <<result, flag, listening, expired, task, unjoined, told, panics,
                 workers, events>>

\* The grace period passes: abort_all, and another period for the tasks to end in.
GraceExpires ==
  /\ main = "grace" /\ unjoined # {}
  /\ main' = "aborting"
  /\ expired' = TRUE
  /\ DropTasks
  /\ UNCHANGED <<result, flag, listening, task, unjoined, panics, workers, events>>

AbortExpires ==
  /\ main = "aborting" /\ unjoined # {}
  /\ main' = "returned"
  /\ DropTasks
  /\ UNCHANGED <<result, flag, listening, expired, task, unjoined, panics, workers, events>>

\* main returns and the runtime is dropped: whatever still runs is cut off.
Exit ==
  /\ main = "returned"
  /\ main' = "exited"
  /\ task' = [t \in Tasks |-> IF Ended(t) THEN task[t] ELSE "cancelled"]
  /\ worker' = [w \in Workers |->
                  IF worker[w] \in {"running", "leaving"} THEN "cut" ELSE worker[w]]
  /\ UNCHANGED <<result, flag, listening, expired, unjoined, abortable, told, panics,
                 watching, queue, observed, events>>

-----------------------------------------------------------------------------

StreamNext(s) ==
  OpenStream(s) \/ Send(s) \/ Polled(s) \/ Tick(s) \/ Receive(s) \/ EndStream(s) \/ LeaveStream(s)

WorkerNext(w) == SpawnWorker(w) \/ WorkerLeaves(w) \/ WorkerEnds(w) \/ JoinWorker(w)

TaskNext(t) == Finish(t) \/ Panic(t) \/ Cancelled(t) \/ TaskFailed(t) \/ JoinTask(t)

Next ==
  \/ Bind \/ BindFails \/ Write \/ Announce
  \/ Observe \/ MonitorSeesShutdown
  \/ Signal \/ ServerEnds \/ AllJoined \/ GraceExpires \/ AbortExpires \/ Exit
  \/ \E s \in Streams : StreamNext(s)
  \/ \E w \in Workers : WorkerNext(w)
  \/ \E t \in Tasks : TaskNext(t)

\* serve takes its steps, the periods pass, and an event stream whose client reads is
\* polled; that the client reads is an assumption about the client.  The shutdown's
\* branch of the stream's select! is picked at random among those that are ready.
Fairness ==
  /\ WF_vars(Bind \/ BindFails) /\ WF_vars(ServerEnds)
  /\ WF_vars(AllJoined) /\ WF_vars(GraceExpires) /\ WF_vars(AbortExpires) /\ WF_vars(Exit)
  /\ \A s \in Streams : WF_vars(Send(s)) /\ WF_vars(Polled(s)) /\ SF_vars(EndStream(s))

Spec == Init /\ [][Next]_vars /\ Fairness

-----------------------------------------------------------------------------

\* What a stream has not shown is on its way to it: it is about to take a snapshot, or
\* a message waits in its receiver, or a write is still to be announced
\* (current_print_events, which subscribes first and resubscribes after a lag).
NoChangeIsMissed ==
  \A s \in Streams :
    stream[s] \in {"sending", "waiting"} /\ shown[s] # version
      => backlog[s] > 0 \/ unsent > 0

\* A video worker is cut off by the end of the process only if the grace period has
\* passed, or a task has panicked, or the monitor never received the worker: the
\* comment in watch_workers promises the workers the whole period.
WorkersHaveTheirWindow ==
  \A w \in Workers : worker[w] = "cut" =>
    \/ expired
    \/ \E t \in Tasks : task[t] = "panicked"
    \/ \E i \in DOMAIN queue : queue[i] = w

\* When serve has returned, each of its tasks has ended or was told to abort, also when
\* an error cut the waiting short (ServiceTasks::shutdown and its Drop).
NoTaskIsLeftRunning ==
  main \in {"returned", "exited"} => \A t \in Tasks : Ended(t) \/ t \in told

\* Once the shutdown is triggered serve returns, whatever the tasks do.
ServeReturns == flag ~> main = "exited"
=============================================================================
