-------------------------- MODULE ThumbnailService --------------------------
(***************************************************************************)
(* The thumbnail service of the overlay server: thumbnail/service.rs on    *)
(* top of thumbnail/jobs.rs and thumbnail/job_state.rs, with the MQTT      *)
(* runtime and the live store as its environment.                          *)
(*                                                                         *)
(* Three kinds of processes share the job states and the job queue:        *)
(*   Watcher   watch_task_changes: refreshes every device on each change,  *)
(*             spawns a worker per queued job, reaps the workers           *)
(*   Requests  web requests: each refreshes its device and reads its       *)
(*             status (ThumbnailService::thumbnail)                        *)
(*   JobIds    run_fetch_job: the worker spawned for a dequeued job is     *)
(*             named by the id of that job                                 *)
(* A process interleaves with the others at every lock acquisition.        *)
(*                                                                         *)
(* Bambu devices are keyed by the MQTT runtime's snapshot, whose revision  *)
(* orders the snapshots: history[r] is what revision r showed, so a        *)
(* process that took revision r needs to remember r only.  Moonraker       *)
(* devices are keyed by the live store, but ordered by the MQTT revision   *)
(* too.                                                                    *)
(***************************************************************************)
EXTENDS JobState, Sequences, FiniteSets

CONSTANTS
  Moonraker,      \* the devices whose state comes from the live store
  Ftps,           \* the Bambu devices whose files the printer serves itself
  Connections,    \* the device sets of the MQTT connections
  Watcher,        \* the watcher task
  Requests,       \* the web requests that may be under way at once
  QueueCapacity,  \* JOB_QUEUE_CAPACITY
  ChangeCapacity, \* CHANGE_CHANNEL_CAPACITY of the live store
  MaxFetches,     \* MAX_CONCURRENT_THUMBNAIL_FETCHES
  MaxRevision,    \* bound on the MQTT revisions explored
  MaxReports      \* bound on the Moonraker reports explored

Bambu == Devices \ Moonraker

ASSUME ServiceAssumption ==
  /\ Moonraker \subseteq Devices
  /\ Ftps \subseteq Bambu
  /\ Connections \subseteq SUBSET Bambu
  /\ UNION Connections = Bambu
  /\ None \notin Devices
  /\ None \notin [task : Tasks, status : Statuses]
  /\ Watcher \notin Requests \cup JobIds
  /\ Requests \cap JobIds = {}
  /\ QueueCapacity \in Nat \ {0}
  /\ ChangeCapacity \in Nat \ {0}
  /\ MaxFetches \in Nat \ {0}
  /\ MaxRevision \in Nat
  /\ MaxReports \in Nat

\* A supervisor is started for a printer, or for the cloud's if there are any.
ASSUME ConnectionAssumption == {} \notin Connections

Refreshers == {Watcher} \cup Requests
Procs == Refreshers \cup JobIds
TaskOrNone == Tasks \cup {None}

\* What a fetch may answer, and when its status may be tried again.
Outcomes ==
  {[status |-> "ready", retry |-> "none"],
   [status |-> "loading", retry |-> "waiting"],
   [status |-> "missing", retry |-> "waiting"],
   [status |-> "unavailable", retry |-> "waiting"]}

Failure == [status |-> "unavailable", retry |-> "waiting"]

VARIABLES
  revision,  \* the revision of the MQTT runtime
  history,   \* the active task of each Bambu device at each revision
  live,      \* the active task of each Moonraker device in the live store
  reports,   \* how many Moonraker reports there were, to bound them
  unsent,    \* devices whose change is made but not yet announced
  backlog,   \* change messages the watcher has not received
  jobs,      \* ThumbnailJobState: the record of each device
  queue,     \* the job queue
  pc,        \* where each process is
  held,      \* the job a process is about to run or to enqueue, or None
  order,     \* the MQTT revision a refresher took
  seen,      \* the live snapshot a refresher took
  todo,      \* the devices a refresher has still to refresh
  target,    \* the device a request asks for, or None
  permits    \* the workers that hold a fetch permit

env == <<revision, history, live, reports, unsent, backlog>>
cache == <<jobs, queue>>
local == <<pc, held, order, seen, todo, target>>
vars == <<revision, history, live, reports, unsent, backlog, jobs, queue,
          pc, held, order, seen, todo, target, permits>>

RefresherStates == {"starting", "idle", "refresh", "live", "apply", "send",
                    "failed", "respond", "draining", "stopped"}
WorkerStates == {"idle", "start", "permit", "fetch", "silent", "send", "failed",
                 "panicked"}

NoLive == [d \in Moonraker |-> None]

TypeOK ==
  /\ revision \in 0..MaxRevision
  /\ history \in [0..MaxRevision -> [Bambu -> TaskOrNone]]
  /\ live \in [Moonraker -> TaskOrNone]
  /\ reports \in 0..MaxReports
  /\ unsent \subseteq Devices
  /\ backlog \in 0..(ChangeCapacity + 1)
  /\ jobs \in [Devices -> DeviceState]
  /\ queue \in Seq(Job)
  /\ Len(queue) <= QueueCapacity
  /\ pc \in [Procs -> RefresherStates \cup WorkerStates]
  /\ \A p \in Refreshers : pc[p] \in RefresherStates
  /\ \A i \in JobIds : pc[i] \in WorkerStates
  /\ held \in [Procs -> Job \cup {None}]
  /\ order \in [Refreshers -> 0..MaxRevision]
  /\ seen \in [Refreshers -> [Moonraker -> TaskOrNone]]
  /\ todo \in [Refreshers -> SUBSET Devices]
  /\ target \in [Requests -> Devices \cup {None}]
  /\ permits \subseteq JobIds

Init ==
  /\ revision = 0
  /\ history = [r \in 0..MaxRevision |-> [d \in Bambu |-> None]]
  /\ live = NoLive
  /\ reports = 0
  /\ unsent = {}
  /\ backlog = 0
  /\ jobs = [d \in Devices |-> EmptyState]
  /\ queue = <<>>
  /\ pc = [p \in Procs |-> IF p = Watcher THEN "starting" ELSE "idle"]
  /\ held = [p \in Procs |-> None]
  /\ order = [p \in Refreshers |-> 0]
  /\ seen = [p \in Refreshers |-> NoLive]
  /\ todo = [p \in Refreshers |-> {}]
  /\ target = [p \in Requests |-> None]
  /\ permits = {}

-----------------------------------------------------------------------------
(* The environment: the MQTT runtime and the live store.                   *)

\* mutate_state: the change and the next revision, under one lock.
Mutate(tasks) ==
  /\ revision < MaxRevision
  /\ revision' = revision + 1
  /\ history' = [history EXCEPT ![revision + 1] = tasks]

\* merge_report: a report of a Bambu device, which may leave its task as it
\* was; the store write and its message follow once the lock is released.
\* A connection has one supervisor, which awaits the one before the next.
MqttReport(d, t) ==
  /\ \A c \in Connections : d \in c => c \cap unsent = {}
  /\ Mutate([history[revision] EXCEPT ![d] = t])
  /\ unsent' = unsent \cup {d}
  /\ UNCHANGED <<live, reports, backlog, cache, local, permits>>

\* set_connection_disconnected and set_connection_error clear the reports of
\* every device of the connection.
ConnectionLost(c) ==
  /\ c \cap unsent = {}
  /\ Mutate([d \in Bambu |-> IF d \in c THEN None ELSE history[revision][d]])
  /\ unsent' = unsent \cup c
  /\ UNCHANGED <<live, reports, backlog, cache, local, permits>>

\* A Moonraker backend writes the live store; the MQTT revision does not move.
MoonrakerReport(d, t) ==
  /\ d \notin unsent
  /\ reports < MaxReports
  /\ reports' = reports + 1
  /\ live' = [live EXCEPT ![d] = t]
  /\ unsent' = unsent \cup {d}
  /\ UNCHANGED <<revision, history, backlog, cache, local, permits>>

\* LiveStateStore::mutate sends on the change channel after its write.  Without
\* a subscriber the message is gone; past the capacity the channel drops its
\* oldest message and the receiver lags.
Announce(d) ==
  /\ d \in unsent
  /\ unsent' = unsent \ {d}
  /\ backlog' = IF pc[Watcher] = "starting" \/ backlog > ChangeCapacity
                  THEN backlog ELSE backlog + 1
  /\ UNCHANGED <<revision, history, live, reports, cache, local, permits>>

\* A retry time passes.
RetryElapses(d) ==
  /\ jobs[d].cached # None
  /\ jobs[d].cached.retry = "waiting"
  /\ jobs' = [jobs EXCEPT ![d] = RetryDue(@)]
  /\ UNCHANGED <<env, queue, local, permits>>

-----------------------------------------------------------------------------
(* Refreshing a device: the watcher and the web requests.                  *)

\* The ids a live job carries.  next_id never repeats one; an id nobody holds
\* can stand for any id never used.
UsedIds ==
  {i \in JobIds : pc[i] # "idle"}
    \cup {held[p].id : p \in {q \in Procs : held[q] # None}}
    \cup {queue[k].id : k \in DOMAIN queue}
    \cup {jobs[d].active.id : d \in {e \in Devices : jobs[e].active # None}}
    \cup {jobs[d].active.pending.id :
            d \in {e \in Devices : jobs[e].active # None /\ HasPending(jobs[e])}}

FreshId == CHOOSE i \in JobIds \ UsedIds : TRUE

\* The active task of d in the snapshots p took.
SnapshotTask(p, d) ==
  IF d \in Moonraker THEN seen[p][d] ELSE history[order[p]][d]

\* ThumbnailJob::new, with the next id.
NewJob(p, d) == [device |-> d, task |-> SnapshotTask(p, d), order |-> order[p],
                 id |-> FreshId]

\* What a process that is idle held in its local variables is gone.
Forget ==
  /\ order' = [p \in Refreshers |-> IF pc'[p] = "idle" THEN 0 ELSE order[p]]
  /\ seen' = [p \in Refreshers |-> IF pc'[p] = "idle" THEN NoLive ELSE seen[p]]
  /\ target' = [p \in Requests |-> IF pc'[p] = "idle" THEN None ELSE target[p]]

\* live.subscribe(), before the first refresh.
Subscribe ==
  /\ pc[Watcher] = "starting"
  /\ pc' = [pc EXCEPT ![Watcher] = "refresh"]
  /\ UNCHANGED <<env, cache, held, order, seen, todo, target, permits>>

\* Mutated form: after Lagged the watcher keeps its old receiver's message count
\* but drops the messages without a refresh.
ReceiveChangeIgnoringLag ==
  /\ pc[Watcher] = "idle"
  /\ backlog > 0
  /\ backlog' = IF backlog > ChangeCapacity THEN 0 ELSE backlog - 1
  /\ pc' = [pc EXCEPT ![Watcher] =
              IF backlog > ChangeCapacity THEN "idle" ELSE "refresh"]
  /\ UNCHANGED <<revision, history, live, reports, unsent, cache, held, order, seen,
                 todo, target, permits>>

\* changes.recv() in the watcher's loop: a message, or Lagged, after which the
\* watcher subscribes anew, dropping what the channel holds.  Either way it
\* then refreshes.
ReceiveChange ==
  /\ pc[Watcher] = "idle"
  /\ backlog > 0
  /\ backlog' = IF backlog > ChangeCapacity THEN 0 ELSE backlog - 1
  /\ pc' = [pc EXCEPT ![Watcher] = "refresh"]
  /\ UNCHANGED <<revision, history, live, reports, unsent, cache, held, order, seen,
                 todo, target, permits>>

\* refresh_changed_devices: mqtt.snapshot()
TakeMqttSnapshot ==
  /\ pc[Watcher] = "refresh"
  /\ order' = [order EXCEPT ![Watcher] = revision]
  /\ pc' = [pc EXCEPT ![Watcher] = "live"]
  /\ UNCHANGED <<env, cache, held, seen, todo, target, permits>>

\* thumbnail(): select_device_id, then refresh_device.  Only a Moonraker device
\* needs the live snapshot.
BeginRequest(p, d) ==
  /\ pc[p] = "idle"
  /\ target' = [target EXCEPT ![p] = d]
  /\ todo' = [todo EXCEPT ![p] = {d}]
  /\ order' = [order EXCEPT ![p] = revision]
  /\ pc' = [pc EXCEPT ![p] = IF d \in Moonraker THEN "live" ELSE "apply"]
  /\ UNCHANGED <<env, cache, held, seen, permits>>

\* live.snapshot(), taken after the MQTT snapshot.
TakeLiveSnapshot(p) ==
  /\ pc[p] = "live"
  /\ seen' = [seen EXCEPT ![p] = live]
  /\ todo' = [todo EXCEPT ![p] = IF p = Watcher THEN Devices ELSE @]
  /\ pc' = [pc EXCEPT ![p] = "apply"]
  /\ UNCHANGED <<env, cache, held, order, target, permits>>

\* Where refresher p goes when `left` is what it has still to refresh.
AfterRefresh(p, left) ==
  IF left # {} THEN "apply" ELSE IF p = Watcher THEN "idle" ELSE "respond"

\* refresh_bambu_device or refresh_moonraker_device, when the snapshot shows no
\* active task: jobs.clear().
ClearDevice(p, d) ==
  /\ pc[p] = "apply"
  /\ d \in todo[p]
  /\ SnapshotTask(p, d) = None
  /\ jobs' = [jobs EXCEPT ![d] = Clear(@, order[p])]
  /\ todo' = [todo EXCEPT ![p] = @ \ {d}]
  /\ pc' = [pc EXCEPT ![p] = AfterRefresh(p, todo[p] \ {d})]
  /\ Forget
  /\ UNCHANGED <<env, queue, held, permits>>

\* The same, when it shows a task: jobs.schedule(), and a job handed out goes to
\* the queue next.
ScheduleDevice(p, d) ==
  /\ pc[p] = "apply"
  /\ d \in todo[p]
  /\ SnapshotTask(p, d) # None
  /\ JobIds \ UsedIds # {}
  /\ LET job == NewJob(p, d)
         handedOut == HandsOut(jobs[d], job)
     IN  /\ jobs' = [jobs EXCEPT ![d] = Schedule(@, job)]
         /\ held' = [held EXCEPT ![p] = IF handedOut THEN job ELSE None]
         /\ pc' = [pc EXCEPT ![p] = IF handedOut THEN "send"
                                    ELSE AfterRefresh(p, todo[p] \ {d})]
  /\ todo' = [todo EXCEPT ![p] = @ \ {d}]
  /\ Forget
  /\ UNCHANGED <<env, queue, permits>>

\* jobs.status(): the request reads the status it answers with.
Respond(p) ==
  /\ pc[p] = "respond"
  /\ pc' = [pc EXCEPT ![p] = "idle"]
  /\ Forget
  /\ UNCHANGED <<env, cache, held, todo, permits>>

\* The client goes away: the server drops the handler at one of its awaits, and
\* with it a failure to enqueue that is not noted yet.
DropRequest(p) ==
  /\ pc[p] \in {"live", "apply", "failed", "respond"}
  /\ pc' = [pc EXCEPT ![p] = "idle"]
  /\ held' = [held EXCEPT ![p] = None]
  /\ todo' = [todo EXCEPT ![p] = {}]
  /\ Forget
  /\ UNCHANGED <<env, cache, permits>>

-----------------------------------------------------------------------------
(* enqueue_job: try_send, and the note of a failed try_send, are two steps. *)

\* Mutated form: one job too many is let in.
QueueHasRoomForOneMore == Len(queue) <= QueueCapacity

QueueHasRoom == Len(queue) < QueueCapacity

\* Where p goes once its job is in the queue.
AfterSend(p) == IF p \in JobIds THEN "idle" ELSE AfterRefresh(p, todo[p])

\* Where p goes once a failure to enqueue is noted: the watcher logs it and
\* goes on, a worker ends, a request answers with the error.
AfterFailure(p) == IF p = Watcher THEN AfterRefresh(p, todo[p]) ELSE "idle"

\* The worker's fetch permit is dropped when run_fetch_job returns.
Release(p) == permits' = permits \ {p}

EnqueueJob(p) ==
  /\ pc[p] = "send"
  /\ QueueHasRoom
  /\ queue' = Append(queue, held[p])
  /\ held' = [held EXCEPT ![p] = None]
  /\ pc' = [pc EXCEPT ![p] = AfterSend(p)]
  /\ Forget
  /\ Release(p)
  /\ UNCHANGED <<env, jobs, todo>>

QueueFull(p) ==
  /\ pc[p] = "send"
  /\ ~QueueHasRoom
  /\ pc' = [pc EXCEPT ![p] = "failed"]
  /\ UNCHANGED <<env, cache, held, order, seen, todo, target, permits>>

EnqueueFailed(p) ==
  /\ pc[p] = "failed"
  /\ jobs' = [jobs EXCEPT ![held[p].device] = MarkEnqueueFailed(@, held[p])]
  /\ held' = [held EXCEPT ![p] = None]
  /\ pc' = [pc EXCEPT ![p] = AfterFailure(p)]
  /\ Forget
  /\ Release(p)
  /\ UNCHANGED <<env, queue, todo>>

-----------------------------------------------------------------------------
(* Workers: run_fetch_job, and the watcher's side of their lives.          *)

\* next_job() in the watcher's loop: the job at the head of the queue gets a
\* worker of its own.
SpawnWorker ==
  /\ pc[Watcher] = "idle"
  /\ queue # <<>>
  /\ LET job == Head(queue)
     IN  /\ pc' = [pc EXCEPT ![job.id] = "start"]
         /\ held' = [held EXCEPT ![job.id] = job]
  /\ queue' = Tail(queue)
  /\ UNCHANGED <<env, jobs, order, seen, todo, target, permits>>

\* jobs.start()
StartJob(i) ==
  /\ pc[i] = "start"
  /\ LET job == held[i]
         s == jobs[job.device]
         outcome == StartOutcome(s, job)
     IN  /\ jobs' = [jobs EXCEPT ![job.device] = Start(@, job)]
         /\ pc' = [pc EXCEPT ![i] = CASE outcome = "fetch" -> "permit"
                                      [] outcome = "pending" -> "send"
                                      [] outcome = "stale" -> "idle"]
         /\ held' = [held EXCEPT ![i] = CASE outcome = "fetch" -> job
                                          [] outcome = "pending" -> s.active.pending
                                          [] outcome = "stale" -> None]
  /\ UNCHANGED <<env, queue, order, seen, todo, target, permits>>

\* fetch_permits.acquire(); the semaphore is never closed.
AcquirePermit(i) ==
  /\ pc[i] = "permit"
  /\ Cardinality(permits) < MaxFetches
  /\ permits' = permits \cup {i}
  /\ pc' = [pc EXCEPT ![i] = "fetch"]
  /\ UNCHANGED <<env, cache, held, order, seen, todo, target>>

\* Mutated form: the job that waited is promoted but not handed back.
PromotedToNobody(s, job) == None

\* What finish() hands back: the job that waited behind this one, or None.
Promoted(s, job) ==
  IF FinishOutcome(s, job) = "pending" THEN s.active.pending ELSE None

\* The fetch waits for a local printer that says nothing more: no timeout covers
\* the TLS connection to its FTPS server or the data stream of a RETR.
FallsSilent(i) ==
  /\ pc[i] = "fetch"
  /\ held[i].device \in Ftps
  /\ pc' = [pc EXCEPT ![i] = "silent"]
  /\ UNCHANGED <<env, cache, held, order, seen, todo, target, permits>>

\* fetch_thumbnail() returns, of a silent printer too should it answer after all,
\* and its result is stored; a job that waited goes to the queue next, with the
\* permit still held.
FinishFetch(i, outcome) ==
  /\ pc[i] \in {"fetch", "silent"}
  /\ LET job == held[i]
         next == Promoted(jobs[job.device], job)
     IN  /\ jobs' = [jobs EXCEPT ![job.device] =
                       Finish(@, job, outcome.status, outcome.retry)]
         /\ held' = [held EXCEPT ![i] = next]
         /\ pc' = [pc EXCEPT ![i] = IF next = None THEN "idle" ELSE "send"]
         /\ permits' = IF next = None THEN permits \ {i} ELSE permits
  /\ UNCHANGED <<env, queue, order, seen, todo, target>>

\* The fetch panics: the permit goes with the task, the result waits in the
\* JoinSet.
WorkerPanics(i) ==
  /\ pc[i] = "fetch"
  /\ pc' = [pc EXCEPT ![i] = "panicked"]
  /\ Release(i)
  /\ UNCHANGED <<env, cache, held, order, seen, todo, target>>

\* handle_thumbnail_job_result: the watcher finishes the job of a worker that
\* panicked.
ReapPanicked(i) ==
  /\ pc[Watcher] = "idle"
  /\ pc[i] = "panicked"
  /\ LET job == held[i]
         next == Promoted(jobs[job.device], job)
     IN  /\ jobs' = [jobs EXCEPT ![job.device] =
                       Finish(@, job, Failure.status, Failure.retry)]
         /\ held' = [held EXCEPT ![i] = None, ![Watcher] = next]
         /\ pc' = [pc EXCEPT ![i] = "idle",
                             ![Watcher] = IF next = None THEN "idle" ELSE "send"]
  /\ UNCHANGED <<env, queue, order, seen, todo, target, permits>>

\* shutdown.cancelled(): abort_all.  A worker is cancelled at its next await,
\* so it may still take steps.
Shutdown ==
  /\ pc[Watcher] = "idle"
  /\ pc' = [pc EXCEPT ![Watcher] = "draining"]
  /\ UNCHANGED <<env, cache, held, order, seen, todo, target, permits>>

WorkerCancelled(i) ==
  /\ pc[Watcher] = "draining"
  /\ pc[i] # "idle"
  /\ pc' = [pc EXCEPT ![i] = "idle"]
  /\ held' = [held EXCEPT ![i] = None]
  /\ Release(i)
  /\ UNCHANGED <<env, cache, order, seen, todo, target>>

WatcherStops ==
  /\ pc[Watcher] = "draining"
  /\ \A i \in JobIds : pc[i] = "idle"
  /\ pc' = [pc EXCEPT ![Watcher] = "stopped"]
  /\ UNCHANGED <<env, cache, held, order, seen, todo, target, permits>>

-----------------------------------------------------------------------------
Environment ==
  \/ \E d \in Bambu, t \in TaskOrNone : MqttReport(d, t)
  \/ \E c \in Connections : ConnectionLost(c)
  \/ \E d \in Moonraker, t \in TaskOrNone : MoonrakerReport(d, t)
  \/ \E d \in Devices : Announce(d) \/ RetryElapses(d)

Refreshing ==
  \/ Subscribe \/ ReceiveChange \/ TakeMqttSnapshot
  \/ \E p \in Requests, d \in Devices : BeginRequest(p, d)
  \/ \E p \in Refreshers : TakeLiveSnapshot(p)
  \/ \E p \in Refreshers, d \in Devices : ClearDevice(p, d) \/ ScheduleDevice(p, d)
  \/ \E p \in Requests : Respond(p) \/ DropRequest(p)

Enqueueing ==
  \E p \in Procs : EnqueueJob(p) \/ QueueFull(p) \/ EnqueueFailed(p)

Working ==
  \/ SpawnWorker
  \/ \E i \in JobIds : \/ StartJob(i)
                       \/ AcquirePermit(i)
                       \/ FallsSilent(i)
                       \/ \E outcome \in Outcomes : FinishFetch(i, outcome)
                       \/ WorkerPanics(i)
                       \/ ReapPanicked(i)
                       \/ WorkerCancelled(i)

Stopping == Shutdown \/ WatcherStops

Next == Environment \/ Refreshing \/ Enqueueing \/ Working \/ Stopping

(***************************************************************************)
(* Fairness.  A task that can run runs (the runtime polls every ready      *)
(* task); the watcher's select! picks among its ready branches at random,  *)
(* so a branch that is ready again and again is picked.  A fetch answers   *)
(* unless its printer falls silent: the requests to the cloud and to       *)
(* Moonraker have timeouts, and so has the FTPS control stream once it is  *)
(* connected; a silent printer is never assumed to answer.  Of the permits *)
(* and the panicked workers only this is assumed: while one can be had,    *)
(* some worker gets it.  The code's FIFO semaphore promises more.  Nothing *)
(* is assumed of reports, requests, panics or the shutdown.                *)
(***************************************************************************)
Fairness ==
  /\ WF_vars(Subscribe) /\ WF_vars(TakeMqttSnapshot) /\ WF_vars(WatcherStops)
  /\ SF_vars(ReceiveChange)
  /\ SF_vars(SpawnWorker)
  /\ SF_vars(\E i \in JobIds : ReapPanicked(i))
  /\ WF_vars(\E i \in JobIds : AcquirePermit(i))
  /\ \A d \in Devices : WF_vars(Announce(d)) /\ WF_vars(RetryElapses(d))
  /\ \A p \in Refreshers :
       WF_vars(\/ TakeLiveSnapshot(p)
               \/ \E d \in Devices : ClearDevice(p, d) \/ ScheduleDevice(p, d))
  /\ \A p \in Requests : WF_vars(Respond(p))
  /\ \A p \in Procs : WF_vars(EnqueueJob(p) \/ QueueFull(p) \/ EnqueueFailed(p))
  /\ \A i \in JobIds :
       WF_vars(\/ StartJob(i)
               \/ /\ pc[i] = "fetch"
                  /\ \E outcome \in Outcomes : FinishFetch(i, outcome)
               \/ WorkerCancelled(i))

Spec == Init /\ [][Next]_vars /\ Fairness

-----------------------------------------------------------------------------
(* Properties of the job states.                                           *)

ShuttingDown == pc[Watcher] \in {"draining", "stopped"}

\* A device has an active job exactly while its status is loading, and the job
\* that will end last, the pending one if there is one, is for the task the
\* status is about.  Otherwise the status would stay loading for ever, or a
\* finished fetch would be thrown away.
LoadingHasItsJob == \A d \in Devices : Coherent(jobs[d])

\* "MQTT snapshots are processed by revision so older reports cannot restore
\* stale loading or cached thumbnail state": whatever refreshes and failures to
\* enqueue interleave, the cache of a Bambu device is about the task the newest
\* snapshot it has seen showed.
CacheShowsLatest ==
  \A d \in Bambu : Shown(jobs[d]) = history[jobs[d].latest][d]

\* A web request reads a status that is at least as new as the snapshot it took
\* itself, though others may have refreshed the device in between.
ServedIsFresh ==
  \A p \in Requests :
    pc[p] = "respond" => jobs[target[p]].latest >= order[p]

\* A fetch starts from the report of the newest snapshot the cache has seen, not
\* from the one its job was first scheduled with.
FetchStartsFromLatest ==
  [][\A i \in JobIds :
       (/\ pc[i] = "start" /\ pc'[i] = "permit"
        /\ held[i].device \in Bambu)
         => held[i].order = jobs[held[i].device].latest]_vars

\* The processes and the queue hold the job with this id.
Carries(id) ==
  \/ \E k \in DOMAIN queue : queue[k].id = id
  \/ \E p \in Procs : held[p] # None /\ held[p].id = id

\* Until the shutdown an active job is always on its way: somebody holds it, or
\* the queue does, so that a fetch will end it.
ActiveJobIsCarried ==
  ~ShuttingDown =>
    \A d \in Devices : jobs[d].active # None => Carries(jobs[d].active.id)

\* No change is lost on the watcher: once every message is sent and received and
\* the watcher waits, it has applied the current revision to every device.
WatcherIsUpToDate ==
  (pc[Watcher] = "idle" /\ backlog = 0 /\ unsent = {} /\ held[Watcher] = None) =>
    \A d \in Bambu : jobs[d].latest = revision

\* "Older reports cannot restore stale loading or cached thumbnail state after a
\* newer clear/task change" (the comment on DeviceThumbnailState), read for a
\* Moonraker device: once the watcher has caught up and no request is under way,
\* the cache is about the print the device has now.
MoonrakerCacheIsCurrent ==
  (/\ pc[Watcher] = "idle" /\ backlog = 0 /\ unsent = {}
   /\ \A p \in Requests : pc[p] = "idle") =>
     \A d \in Moonraker : Shown(jobs[d]) = live[d]

\* Every revision of the MQTT state reaches the cache of every Bambu device,
\* itself or a newer one, though nobody requests a thumbnail.
RevisionsReachTheCache ==
  \A d \in Bambu, r \in 0..MaxRevision :
    revision = r ~> (jobs[d].latest >= r \/ ShuttingDown)

Loading(d) ==
  /\ jobs[d].cached # None
  /\ jobs[d].cached.status = "loading"
  /\ jobs[d].cached.retry = "none"

\* The fetches of silent printers.
SilentFetches == {i \in JobIds : pc[i] = "silent"}

\* The fetch of d's active job waits for a silent printer, or silent printers
\* hold every fetch permit.
HeldUp(d) ==
  \/ /\ jobs[d].active # None
     /\ \E i \in SilentFetches : held[i].id = jobs[d].active.id
  \/ Cardinality(SilentFetches) = MaxFetches

\* A loading status ends in an answer, a newer task, or the shutdown, unless a
\* silent printer holds its fetch up: its own printer, in the job that is active
\* now, or as many as there are permits.  A silent fetch of an older job, or of
\* another device while a permit is left, holds nobody up.
LoadingEnds ==
  \A d \in Devices :
    Loading(d) ~> (~Loading(d) \/ ShuttingDown \/ HeldUp(d))

-----------------------------------------------------------------------------
(* The abstract specification: the cache of the Bambu devices.             *)

View(s) == IF s.cached = None THEN None
           ELSE [task |-> s.cached.task, status |-> s.cached.status]

Cache == INSTANCE ThumbnailCache WITH
           Devices <- Bambu,
           latest <- [d \in Bambu |-> jobs[d].latest],
           shown <- [d \in Bambu |-> View(jobs[d])]

\* The service implements the abstract cache: a Bambu device never goes back to
\* an older snapshot, and each status is answered for the task it is about.
ImplementsCache == Cache!Spec
=============================================================================
