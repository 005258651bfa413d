------------------------------ MODULE JobState ------------------------------
(***************************************************************************)
(* The per-device record of the thumbnail cache, thumbnail/job_state.rs,   *)
(* as operators on one `DeviceThumbnailState`.  Every operator here runs   *)
(* under the one lock of `ThumbnailJobs`, so each is a single step of the  *)
(* modules that use it.                                                    *)
(*                                                                         *)
(*   cached   cached_status: the status the web handler serves             *)
(*   active   active_job: the job that was handed out, and the `pending`   *)
(*            job that replaces it when it starts or finishes              *)
(*   latest   latest_snapshot_order, where 0 stands for the source's None: *)
(*            no order is below 0, so the two reject the same snapshots    *)
(*                                                                         *)
(* The clock is abstracted to what `blocks_refresh` tells apart: there is  *)
(* no retry time ("none"), it lies ahead ("waiting") or it has passed      *)
(* ("due").  The `order` of a cached status is left out: it is written,    *)
(* never read.  A job's `context` is the snapshot its order names.         *)
(***************************************************************************)
EXTENDS Naturals

CONSTANTS
  Devices,   \* the registered device ids
  Tasks,     \* the task keys (TaskKey)
  JobIds,    \* the job handles (JobId)
  None       \* the absent value of an Option

Statuses == {"ready", "loading", "missing", "unavailable"}

Retries == {"none", "waiting", "due"}

Job == [device : Devices, task : Tasks, order : Nat, id : JobIds]

CachedStatus == [task : Tasks, status : Statuses, retry : Retries]

ActiveJob == [task : Tasks, id : JobIds, order : Nat, started : BOOLEAN,
              pending : Job \cup {None}]

DeviceState == [cached : CachedStatus \cup {None},
                active : ActiveJob \cup {None},
                latest : Nat]

ASSUME NoneAssumption ==
  /\ None \notin Tasks
  /\ None \notin Job
  /\ None \notin CachedStatus
  /\ None \notin ActiveJob

-----------------------------------------------------------------------------
\* DeviceThumbnailState::default()
EmptyState == [cached |-> None, active |-> None, latest |-> 0]

\* CachedThumbnailStatus::loading
LoadingStatus(task) == [task |-> task, status |-> "loading", retry |-> "none"]

\* ActiveThumbnailJob::new and ActiveThumbnailJob::replace_with
Unstarted(job) == [task |-> job.task, id |-> job.id, order |-> job.order,
                   started |-> FALSE, pending |-> None]

Later(a, b) == IF a >= b THEN a ELSE b

\* Mutated form: an older snapshot is not recognised.
IsNeverOlder(s, order) == FALSE

\* is_older_than_latest_snapshot
IsOlder(s, order) == order < s.latest

\* remember_snapshot_order
Remember(s, order) == Later(order, s.latest)

\* The retry time of the cached status passes.
RetryDue(s) == [s EXCEPT !.cached.retry = "due"]

\* CachedThumbnailStatus::blocks_refresh
BlocksRefresh(entry) ==
  \/ entry.status = "ready"
  \/ entry.status = "loading" /\ entry.retry = "none"
  \/ entry.retry = "waiting"

\* cached_status_covers_task
Covers(s, task) ==
  /\ s.cached # None
  /\ s.cached.task = task
  /\ BlocksRefresh(s.cached)

-----------------------------------------------------------------------------
\* Mutated form: a covered snapshot changes nothing.
RefreshedNever(active, job) == active

\* What a covered snapshot does to the active job: the job that has not
\* started, or the job waiting behind it, is replaced by one that carries the
\* newer snapshot.
Refreshed(active, job) ==
  IF \/ active.task = job.task /\ ~active.started /\ job.order > active.order
     \/ /\ active.task # job.task
        /\ active.pending # None
        /\ active.pending.task = job.task
        /\ job.order > active.pending.order
    THEN [active EXCEPT !.order = Later(active.order, job.order), !.pending = job]
    ELSE active

\* Mutated form: returning to the task of the active job leaves the job of the
\* other task waiting.
RedirectedKeepingPending(active, job) ==
  [active EXCEPT !.order = Later(active.order, job.order),
                 !.pending = IF active.task = job.task THEN @ ELSE job]

\* What a snapshot that is not covered does to the active job: another task
\* waits behind it; its own task drops whatever waited, or waits itself with
\* the newer snapshot if the job has not started.
Redirected(active, job) ==
  LET supersedes == \/ active.task # job.task
                    \/ ~active.started /\ job.order > active.order
  IN  [active EXCEPT !.order = Later(active.order, job.order),
                     !.pending = IF supersedes THEN job ELSE None]

\* schedule returns Some(job): the caller must put the job in the queue.
HandsOut(s, job) ==
  ~IsOlder(s, job.order) /\ ~Covers(s, job.task) /\ s.active = None

\* Mutated form: a covered snapshot is dropped without recording its order.
ScheduleForgettingOrder(s, job) ==
  IF IsOlder(s, job.order) \/ Covers(s, job.task) THEN s
  ELSE [cached |-> LoadingStatus(job.task),
        active |-> IF s.active = None THEN Unstarted(job)
                   ELSE Redirected(s.active, job),
        latest |-> Remember(s, job.order)]

\* DeviceThumbnailState::schedule
Schedule(s, job) ==
  IF IsOlder(s, job.order) THEN s
  ELSE IF Covers(s, job.task)
    THEN [s EXCEPT !.latest = Remember(s, job.order),
                   !.active = IF @ = None THEN None ELSE Refreshed(@, job)]
    ELSE [cached |-> LoadingStatus(job.task),
          active |-> IF s.active = None THEN Unstarted(job)
                     ELSE Redirected(s.active, job),
          latest |-> Remember(s, job.order)]

\* Mutated form: a clear does not record the order of its snapshot.
ClearForgettingOrder(s, order) ==
  IF IsOlder(s, order) THEN s
  ELSE [cached |-> None, active |-> None, latest |-> s.latest]

\* DeviceThumbnailState::clear
Clear(s, order) ==
  IF IsOlder(s, order) THEN s
  ELSE [cached |-> None, active |-> None, latest |-> Remember(s, order)]

-----------------------------------------------------------------------------
\* Mutated form: only the task of the job is compared, not its id.
OwnsTask(s, job) == s.active # None /\ s.active.task = job.task

\* The job in hand is the device's active job (start and finish: otherwise the
\* job is stale).
Owns(s, job) ==
  /\ s.active # None
  /\ s.active.task = job.task
  /\ s.active.id = job.id

HasPending(s) == s.active.pending # None

\* DeviceThumbnailState::start: "stale", "pending" (StartPending) or "fetch"
StartOutcome(s, job) ==
  CASE ~Owns(s, job) \/ s.active.started -> "stale"
    [] Owns(s, job) /\ ~s.active.started /\ HasPending(s) -> "pending"
    [] OTHER -> "fetch"

Start(s, job) ==
  CASE StartOutcome(s, job) = "pending" ->
         [s EXCEPT !.active = Unstarted(s.active.pending)]
    [] StartOutcome(s, job) = "fetch" -> [s EXCEPT !.active.started = TRUE]
    [] OTHER -> s

\* DeviceThumbnailState::finish: "stale", "pending" (StartPending) or "store"
FinishOutcome(s, job) ==
  CASE ~Owns(s, job) -> "stale"
    [] Owns(s, job) /\ HasPending(s) -> "pending"
    [] OTHER -> "store"

Finish(s, job, status, retry) ==
  CASE FinishOutcome(s, job) = "pending" ->
         [s EXCEPT !.active = Unstarted(s.active.pending)]
    [] FinishOutcome(s, job) = "store" ->
         [s EXCEPT !.active = None,
                   !.cached = IF s.cached # None /\ s.cached.task = job.task
                                THEN [task |-> job.task, status |-> status,
                                      retry |-> retry]
                                ELSE @]
    [] OTHER -> s

\* Mutated form: a failure to enqueue is noted however old its snapshot is.
MarkEnqueueFailedAlways(s, job) ==
  [cached |-> [task |-> job.task, status |-> "unavailable", retry |-> "waiting"],
   active |-> None,
   latest |-> Remember(s, job.order)]

\* DeviceThumbnailState::mark_enqueue_failed.  Unlike start and finish it names
\* no job id.
MarkEnqueueFailed(s, job) ==
  IF IsOlder(s, job.order) THEN s
  ELSE [cached |-> [task |-> job.task, status |-> "unavailable", retry |-> "waiting"],
        active |-> None,
        latest |-> Remember(s, job.order)]

\* The task the cache is about, or None.
Shown(s) == IF s.cached = None THEN None ELSE s.cached.task

\* The job that will end last is for the task the status is about, and there is
\* one exactly while the status is loading.
Coherent(s) ==
  /\ s.active # None <=> /\ s.cached # None
                         /\ s.cached.status = "loading"
                         /\ s.cached.retry = "none"
  /\ s.active # None =>
       Shown(s) = IF HasPending(s) THEN s.active.pending.task ELSE s.active.task
=============================================================================
