----------------------- MODULE ThumbnailServiceProofs -----------------------
(***************************************************************************)
(* Theorems about ThumbnailService for every set of devices, tasks and     *)
(* requests and every capacity.  They rest on lemmas about the operators   *)
(* of JobState, which come first and are all that is used of them.         *)
(***************************************************************************)
EXTENDS ThumbnailService, SequenceTheorems, TLAPS

-----------------------------------------------------------------------------
(* What the operators of JobState return, preserve and record, for every   *)
(* device state and every job.                                             *)

\* The empty state is a coherent device state that shows nothing.
LEMMA EmptyStateFacts ==
  /\ EmptyState \in DeviceState
  /\ Coherent(EmptyState)
  /\ Shown(EmptyState) = None
  /\ EmptyState.latest = 0
BY DEF EmptyState, DeviceState, Coherent, Shown

\* The active job of a fresh job is well typed and has nothing pending.
LEMMA UnstartedFacts ==
  ASSUME NEW job \in Job
  PROVE  /\ Unstarted(job) \in ActiveJob
         /\ Unstarted(job) # None
         /\ Unstarted(job).pending = None
         /\ Unstarted(job).task = job.task
         /\ ~Unstarted(job).started
         /\ Unstarted(job).id = job.id
<1>1. Unstarted(job) \in ActiveJob
  BY DEF Unstarted, ActiveJob, Job
<1>2. Unstarted(job) # None
  BY <1>1, NoneAssumption
<1>. QED
  BY <1>1, <1>2 DEF Unstarted

\* The loading status of a task is a status, for that task.
LEMMA LoadingStatusFacts ==
  ASSUME NEW task \in Tasks
  PROVE  /\ LoadingStatus(task) \in CachedStatus
         /\ LoadingStatus(task) # None
         /\ LoadingStatus(task).task = task
         /\ LoadingStatus(task).status = "loading"
         /\ LoadingStatus(task).retry = "none"
BY NoneAssumption DEF LoadingStatus, CachedStatus, Statuses, Retries

\* A covered snapshot leaves the active job's task, and what will end last is
\* for the same task as before.
LEMMA RefreshedFacts ==
  ASSUME NEW active \in ActiveJob, NEW job \in Job
  PROVE  /\ Refreshed(active, job) \in ActiveJob
         /\ Refreshed(active, job) # None
         /\ Refreshed(active, job).pending \in {active.pending, job}
         /\ Refreshed(active, job).task = active.task
         /\ Refreshed(active, job).pending = active.pending
              \/ /\ Refreshed(active, job).pending = job
                 /\ \/ active.task = job.task
                    \/ active.pending # None /\ active.pending.task = job.task
BY NoneAssumption DEF Refreshed, ActiveJob, Job, Later

\* A snapshot that is not covered makes its own task the one that ends last.
LEMMA RedirectedFacts ==
  ASSUME NEW active \in ActiveJob, NEW job \in Job
  PROVE  /\ Redirected(active, job) \in ActiveJob
         /\ Redirected(active, job) # None
         /\ Redirected(active, job).pending \in {None, job}
         /\ Redirected(active, job).pending = None => active.task = job.task
         /\ Redirected(active, job).task = active.task
BY NoneAssumption DEF Redirected, ActiveJob, Job, Later

-----------------------------------------------------------------------------
\* schedule returns a device state.
LEMMA ScheduleTyped ==
  ASSUME NEW s \in DeviceState, NEW job \in Job
  PROVE  Schedule(s, job) \in DeviceState
<1>1. CASE IsOlder(s, job.order)
  BY <1>1 DEF Schedule
<1>2. CASE ~IsOlder(s, job.order) /\ Covers(s, job.task)
  BY <1>2, RefreshedFacts DEF Schedule, Remember, Later, DeviceState, Job
<1>3. CASE ~IsOlder(s, job.order) /\ ~Covers(s, job.task)
  BY <1>3, RedirectedFacts, UnstartedFacts, LoadingStatusFacts
     DEF Schedule, Remember, Later, DeviceState, Job
<1>. QED
  BY <1>1, <1>2, <1>3

\* A snapshot that is not older becomes the latest, and its task is shown; an
\* older one changes nothing.
LEMMA ScheduleRecords ==
  ASSUME NEW s \in DeviceState, NEW job \in Job
  PROVE  /\ IsOlder(s, job.order) => Schedule(s, job) = s
         /\ ~IsOlder(s, job.order) => /\ Schedule(s, job).latest = job.order
                                      /\ Shown(Schedule(s, job)) = job.task
         /\ s.latest <= Schedule(s, job).latest
         /\ job.order <= Schedule(s, job).latest
<1>0. s.latest \in Nat /\ job.order \in Nat
  BY DEF DeviceState, Job
<1>1. CASE IsOlder(s, job.order)
  BY <1>0, <1>1 DEF Schedule, IsOlder
<1>2. CASE ~IsOlder(s, job.order) /\ Covers(s, job.task)
  BY <1>0, <1>2 DEF Schedule, Remember, Later, IsOlder, Covers, Shown, DeviceState
<1>3. CASE ~IsOlder(s, job.order) /\ ~Covers(s, job.task)
  BY <1>0, <1>3, LoadingStatusFacts
     DEF Schedule, Remember, Later, IsOlder, Shown, DeviceState, Job
<1>. QED
  BY <1>1, <1>2, <1>3

\* schedule keeps a device state coherent.
LEMMA ScheduleCoherent ==
  ASSUME NEW s \in DeviceState, NEW job \in Job, Coherent(s)
  PROVE  Coherent(Schedule(s, job))
<1>0. job.task \in Tasks
  BY DEF Job
<1>1. CASE IsOlder(s, job.order)
  BY <1>1 DEF Schedule
<1>2. CASE ~IsOlder(s, job.order) /\ Covers(s, job.task)
  <2>1. CASE s.active = None
    BY <1>2, <2>1 DEF Schedule, Coherent, Shown, DeviceState
  <2>2. CASE s.active # None
    <3>1. /\ s.active \in ActiveJob
          /\ s.cached # None
          /\ s.cached.task = job.task
      BY <1>2, <2>2 DEF DeviceState, Covers
    <3>2. /\ Schedule(s, job).cached = s.cached
          /\ Schedule(s, job).active = Refreshed(s.active, job)
      BY <1>2, <2>2 DEF Schedule, DeviceState
    <3>3. job # None
      BY NoneAssumption
    <3>4. /\ Refreshed(s.active, job) # None
          /\ Refreshed(s.active, job).task = s.active.task
      BY <3>1, RefreshedFacts
    <3>5. CASE Refreshed(s.active, job).pending = s.active.pending
      BY <2>2, <3>1, <3>2, <3>4, <3>5 DEF Coherent, Shown, HasPending
    <3>6. CASE Refreshed(s.active, job).pending = job
      BY <2>2, <3>1, <3>2, <3>3, <3>4, <3>6 DEF Coherent, Shown, HasPending
    <3>. QED
      BY <3>1, <3>5, <3>6, RefreshedFacts
  <2>. QED
    BY <2>1, <2>2
<1>3. CASE ~IsOlder(s, job.order) /\ ~Covers(s, job.task)
  <2>1. CASE s.active = None
    BY <1>0, <1>3, <2>1, UnstartedFacts, LoadingStatusFacts
       DEF Schedule, Coherent, Shown, HasPending
  <2>2. CASE s.active # None
    BY <1>0, <1>3, <2>2, RedirectedFacts, LoadingStatusFacts, NoneAssumption
       DEF Schedule, Coherent, Shown, HasPending, DeviceState
  <2>. QED
    BY <2>1, <2>2
<1>. QED
  BY <1>1, <1>2, <1>3

-----------------------------------------------------------------------------
\* When a retry time passes the status, its task and the rest stay.
LEMMA RetryDueFacts ==
  ASSUME NEW s \in DeviceState, s.cached # None, s.cached.retry = "waiting"
  PROVE  /\ RetryDue(s) \in DeviceState
         /\ Coherent(s) => Coherent(RetryDue(s))
         /\ Shown(RetryDue(s)) = Shown(s)
         /\ RetryDue(s).latest = s.latest
         /\ RetryDue(s).active = s.active
         /\ RetryDue(s).cached # None
         /\ RetryDue(s).cached.task = s.cached.task
         /\ RetryDue(s).cached.status = s.cached.status
<1> DEFINE entry == [s.cached EXCEPT !.retry = "due"]
<1>1. /\ entry \in CachedStatus
      /\ entry.task = s.cached.task /\ entry.status = s.cached.status
      /\ entry.retry = "due"
  BY DEF DeviceState, CachedStatus, Retries
<1>2. entry # None
  BY <1>1, NoneAssumption
<1>3. RetryDue(s) = [s EXCEPT !.cached = entry]
  BY DEF RetryDue
<1> HIDE DEF entry
<1>4. /\ RetryDue(s) \in DeviceState
      /\ RetryDue(s).cached = entry
      /\ RetryDue(s).active = s.active
      /\ RetryDue(s).latest = s.latest
  BY <1>1, <1>3 DEF DeviceState
<1>. QED
  BY <1>1, <1>2, <1>4 DEF Coherent, Shown, HasPending

\* clear returns a coherent device state; a snapshot that is not older becomes
\* the latest and nothing is shown.
LEMMA ClearFacts ==
  ASSUME NEW s \in DeviceState, NEW newest \in Nat
  PROVE  /\ Clear(s, newest) \in DeviceState
         /\ Coherent(s) => Coherent(Clear(s, newest))
         /\ IsOlder(s, newest) => Clear(s, newest) = s
         /\ ~IsOlder(s, newest) => /\ Clear(s, newest).latest = newest
                                  /\ Shown(Clear(s, newest)) = None
                                  /\ Clear(s, newest).cached = None
                                  /\ Clear(s, newest).active = None
         /\ s.latest <= Clear(s, newest).latest
         /\ newest <= Clear(s, newest).latest
<1>1. CASE IsOlder(s, newest)
  BY <1>1 DEF Clear, IsOlder, DeviceState
<1>2. CASE ~IsOlder(s, newest)
  BY <1>2 DEF Clear, IsOlder, Remember, Later, Shown, Coherent, DeviceState
<1>. QED
  BY <1>1, <1>2

\* A job that owns the active job finds an active job; what it hands on is the
\* pending job, and its record afterwards is that job's.
LEMMA OwnerFacts ==
  ASSUME NEW s \in DeviceState, NEW job \in Job, Owns(s, job)
  PROVE  /\ s.active \in ActiveJob
         /\ s.active # None
         /\ s.active.task = job.task
         /\ HasPending(s) => s.active.pending \in Job
BY DEF Owns, DeviceState, HasPending, ActiveJob

\* start keeps the device state coherent and changes neither what is shown nor
\* the latest order.
LEMMA StartFacts ==
  ASSUME NEW s \in DeviceState, NEW job \in Job
  PROVE  /\ Start(s, job) \in DeviceState
         /\ Coherent(s) => Coherent(Start(s, job))
         /\ Start(s, job).latest = s.latest
         /\ Start(s, job).cached = s.cached
         /\ StartOutcome(s, job) \in {"stale", "pending", "fetch"}
         /\ StartOutcome(s, job) = "pending" => /\ s.active.pending \in Job
                                                /\ s.active # None
                                                /\ HasPending(s)
<1>1. CASE StartOutcome(s, job) = "pending"
  <2>1. Owns(s, job) /\ HasPending(s)
    BY <1>1 DEF StartOutcome
  <2>2. s.active.pending \in Job /\ s.active # None
    BY <2>1, OwnerFacts
  <2>3. Start(s, job) = [s EXCEPT !.active = Unstarted(s.active.pending)]
    BY <1>1 DEF Start
  <2>. QED
    BY <1>1, <2>1, <2>2, <2>3, UnstartedFacts DEF DeviceState, Coherent, Shown, HasPending
<1>2. CASE StartOutcome(s, job) = "fetch"
  <2>1. Owns(s, job) /\ ~HasPending(s)
    BY <1>2 DEF StartOutcome
  <2>2. s.active \in ActiveJob /\ s.active # None
    BY <2>1, OwnerFacts
  <2> DEFINE begun == [s.active EXCEPT !.started = TRUE]
  <2>3. Start(s, job) = [s EXCEPT !.active = begun]
    BY <1>2 DEF Start
  <2>4. /\ begun \in ActiveJob
        /\ begun.task = s.active.task
        /\ begun.pending = s.active.pending
    BY <2>2 DEF ActiveJob
  <2>5. begun # None
    BY <2>4, NoneAssumption
  <2> HIDE DEF begun
  <2>6. /\ Start(s, job) \in DeviceState
        /\ Start(s, job).active = begun
        /\ Start(s, job).cached = s.cached
        /\ Start(s, job).latest = s.latest
    BY <2>3, <2>4 DEF DeviceState
  <2>7. Coherent(s) => Coherent(Start(s, job))
    BY <2>2, <2>4, <2>5, <2>6 DEF Coherent, Shown, HasPending
  <2>. QED
    BY <1>2, <2>6, <2>7
<1>3. CASE StartOutcome(s, job) \notin {"pending", "fetch"}
  <2>1. StartOutcome(s, job) = "stale"
    BY <1>3 DEF StartOutcome
  <2>. QED
    BY <2>1 DEF Start
<1>. QED
  BY <1>1, <1>2, <1>3

\* finish returns a device state.
LEMMA FinishTyped ==
  ASSUME NEW s \in DeviceState, NEW job \in Job,
         NEW status \in Statuses, NEW retry \in Retries
  PROVE  Finish(s, job, status, retry) \in DeviceState
<1>1. CASE FinishOutcome(s, job) = "pending"
  <2>1. s.active.pending \in Job
    BY <1>1, OwnerFacts DEF FinishOutcome
  <2>. QED
    BY <1>1, <2>1, UnstartedFacts DEF Finish, DeviceState
<1>2. CASE FinishOutcome(s, job) = "store"
  BY <1>2 DEF Finish, DeviceState, CachedStatus, Job
<1>3. CASE FinishOutcome(s, job) \notin {"pending", "store"}
  BY <1>3 DEF Finish
<1>. QED
  BY <1>1, <1>2, <1>3

\* finish keeps the device state coherent, and what is shown stays about the
\* same task at the same order.
LEMMA FinishFacts ==
  ASSUME NEW s \in DeviceState, NEW job \in Job, Coherent(s),
         NEW status \in Statuses, NEW retry \in Retries,
         status = "loading" => retry # "none"
  PROVE  /\ Finish(s, job, status, retry) \in DeviceState
         /\ Coherent(Finish(s, job, status, retry))
         /\ Finish(s, job, status, retry).latest = s.latest
         /\ Shown(Finish(s, job, status, retry)) = Shown(s)
         /\ FinishOutcome(s, job) = "pending" => /\ s.active.pending \in Job
                                                 /\ s.active # None
                                                 /\ HasPending(s)
         /\ Finish(s, job, status, retry).cached = s.cached
              \/ /\ s.cached # None
                 /\ s.cached.status = "loading"
                 /\ Finish(s, job, status, retry).cached =
                      [task |-> s.cached.task, status |-> status, retry |-> retry]
<1>1. CASE FinishOutcome(s, job) = "pending"
  <2>1. Owns(s, job) /\ HasPending(s)
    BY <1>1 DEF FinishOutcome
  <2>2. s.active.pending \in Job /\ s.active # None
    BY <2>1, OwnerFacts
  <2>3. Finish(s, job, status, retry) = [s EXCEPT !.active = Unstarted(s.active.pending)]
    BY <1>1 DEF Finish
  <2>. QED
    BY <1>1, <2>1, <2>2, <2>3, UnstartedFacts DEF DeviceState, Coherent, Shown, HasPending
<1>2. CASE FinishOutcome(s, job) = "store"
  <2>1. Owns(s, job) /\ ~HasPending(s)
    BY <1>2 DEF FinishOutcome
  <2>2. s.active # None /\ s.active.task = job.task
    BY <2>1, OwnerFacts
  <2>3. s.cached # None /\ s.cached.status = "loading" /\ s.cached.task = job.task
    BY <2>1, <2>2 DEF Coherent, Shown
  <2> DEFINE entry == [task |-> job.task, status |-> status, retry |-> retry]
  <2>4. Finish(s, job, status, retry) = [s EXCEPT !.active = None, !.cached = entry]
    BY <1>2, <2>3 DEF Finish
  <2>5. entry \in CachedStatus /\ entry # None
    BY NoneAssumption DEF CachedStatus, Job
  <2>6. Finish(s, job, status, retry) \in DeviceState
    BY <2>4, <2>5 DEF DeviceState
  <2>7. /\ Finish(s, job, status, retry).active = None
        /\ Finish(s, job, status, retry).cached = entry
        /\ Finish(s, job, status, retry).latest = s.latest
    BY <2>4 DEF DeviceState
  <2>. QED
    BY <1>2, <2>3, <2>5, <2>6, <2>7 DEF Coherent, Shown
<1>3. CASE FinishOutcome(s, job) \notin {"pending", "store"}
  <2>1. FinishOutcome(s, job) = "stale"
    BY <1>3 DEF FinishOutcome
  <2>. QED
    BY <2>1 DEF Finish
<1>. QED
  BY <1>1, <1>2, <1>3

\* A failure to enqueue that is not older than the latest snapshot shows its
\* own task and leaves no active job; an older one changes nothing.
LEMMA MarkEnqueueFailedFacts ==
  ASSUME NEW s \in DeviceState, NEW job \in Job
  PROVE  /\ MarkEnqueueFailed(s, job) \in DeviceState
         /\ Coherent(s) => Coherent(MarkEnqueueFailed(s, job))
         /\ IsOlder(s, job.order) => MarkEnqueueFailed(s, job) = s
         /\ ~IsOlder(s, job.order) =>
              /\ MarkEnqueueFailed(s, job).latest = job.order
              /\ MarkEnqueueFailed(s, job).active = None
              /\ MarkEnqueueFailed(s, job).cached =
                   [task |-> job.task, status |-> "unavailable", retry |-> "waiting"]
              /\ Shown(MarkEnqueueFailed(s, job)) = job.task
         /\ s.latest <= MarkEnqueueFailed(s, job).latest
<1> DEFINE entry == [task |-> job.task, status |-> "unavailable", retry |-> "waiting"]
<1>0. /\ s.latest \in Nat /\ job.order \in Nat /\ job.task \in Tasks
      /\ entry \in CachedStatus /\ entry # None
  BY NoneAssumption DEF DeviceState, Job, CachedStatus, Statuses, Retries
<1>1. CASE IsOlder(s, job.order)
  BY <1>0, <1>1 DEF MarkEnqueueFailed
<1>2. CASE ~IsOlder(s, job.order)
  <2>1. MarkEnqueueFailed(s, job) = [cached |-> entry, active |-> None, latest |-> job.order]
    BY <1>0, <1>2 DEF MarkEnqueueFailed, Remember, Later, IsOlder
  <2>. QED
    BY <1>0, <1>2, <2>1 DEF IsOlder, DeviceState, Coherent, Shown
<1>. QED
  BY <1>1, <1>2

-----------------------------------------------------------------------------
\* The job that waits behind the active job, or None.
PendingOf(s) == IF s.active = None THEN None ELSE s.active.pending

\* The pending job after a schedule is none, the one of before, or the new one.
LEMMA SchedulePending ==
  ASSUME NEW s \in DeviceState, NEW job \in Job
  PROVE  PendingOf(Schedule(s, job)) \in {None, PendingOf(s), job}
<1>1. CASE IsOlder(s, job.order)
  BY <1>1 DEF Schedule
<1>2. CASE ~IsOlder(s, job.order) /\ Covers(s, job.task)
  BY <1>2, RefreshedFacts DEF Schedule, PendingOf, DeviceState
<1>3. CASE ~IsOlder(s, job.order) /\ ~Covers(s, job.task)
  BY <1>3, RedirectedFacts, UnstartedFacts DEF Schedule, PendingOf, DeviceState
<1>. QED
  BY <1>1, <1>2, <1>3

\* Nothing else makes a job wait.
LEMMA OthersPending ==
  ASSUME NEW s \in DeviceState, NEW job \in Job, NEW newest \in Nat
  PROVE  /\ PendingOf(Clear(s, newest)) \in {None, PendingOf(s)}
         /\ PendingOf(Start(s, job)) \in {None, PendingOf(s)}
         /\ \A status \in Statuses, retry \in Retries :
              PendingOf(Finish(s, job, status, retry)) \in {None, PendingOf(s)}
         /\ PendingOf(MarkEnqueueFailed(s, job)) \in {None, PendingOf(s)}
<1>1. PendingOf(Clear(s, newest)) \in {None, PendingOf(s)}
  BY ClearFacts DEF PendingOf
<1>2. PendingOf(Start(s, job)) \in {None, PendingOf(s)}
  <2>1. CASE StartOutcome(s, job) = "pending"
    BY <2>1, StartFacts, UnstartedFacts DEF Start, PendingOf, DeviceState
  <2>2. CASE StartOutcome(s, job) = "fetch"
    <3>1. s.active \in ActiveJob /\ s.active # None
      BY <2>2, OwnerFacts DEF StartOutcome
    <3> DEFINE begun == [s.active EXCEPT !.started = TRUE]
    <3>2. begun.pending = s.active.pending
      BY <3>1 DEF ActiveJob
    <3>3. Start(s, job) = [s EXCEPT !.active = begun]
      BY <2>2 DEF Start
    <3>4. Start(s, job).active = begun
      BY <3>3 DEF DeviceState
    <3>. QED
      BY <3>1, <3>2, <3>4 DEF PendingOf
  <2>3. CASE StartOutcome(s, job) = "stale"
    BY <2>3 DEF Start, PendingOf
  <2>. QED
    BY <2>1, <2>2, <2>3, StartFacts
<1>3. ASSUME NEW status \in Statuses, NEW retry \in Retries
      PROVE  PendingOf(Finish(s, job, status, retry)) \in {None, PendingOf(s)}
  <2>1. CASE FinishOutcome(s, job) = "pending"
    <3>1. s.active.pending \in Job
      BY <2>1, OwnerFacts DEF FinishOutcome
    <3>. QED
      BY <2>1, <3>1, UnstartedFacts DEF Finish, PendingOf, DeviceState
  <2>2. CASE FinishOutcome(s, job) = "store"
    BY <2>2 DEF Finish, PendingOf, DeviceState
  <2>3. CASE FinishOutcome(s, job) \notin {"pending", "store"}
    BY <2>3 DEF Finish
  <2>. QED
    BY <2>1, <2>2, <2>3
<1>4. PendingOf(MarkEnqueueFailed(s, job)) \in {None, PendingOf(s)}
  BY MarkEnqueueFailedFacts DEF PendingOf
<1>. QED
  BY <1>1, <1>2, <1>3, <1>4

-----------------------------------------------------------------------------
(* The service.                                                            *)

\* A process past the point where it took a job has that job in hand.
HolderHasJob ==
  \A p \in Procs :
    pc[p] \in {"send", "failed", "start", "permit", "fetch", "silent", "panicked"}
      => held[p] # None

TypedInv == TypeOK /\ HolderHasJob

\* The processes are the watcher, the requests and the workers, all different.
LEMMA ProcsFacts ==
  /\ Watcher \in Procs /\ Watcher \in Refreshers
  /\ Watcher \notin Requests /\ Watcher \notin JobIds
  /\ Requests \subseteq Procs /\ Requests \subseteq Refreshers
  /\ JobIds \subseteq Procs
  /\ Refreshers \subseteq Procs
  /\ \A p \in Refreshers : p \notin JobIds
  /\ \A p \in Procs : p \in Refreshers \/ p \in JobIds
BY ServiceAssumption DEF Procs, Refreshers

\* The local variables Forget resets stay typed.
LEMMA ForgetTyped ==
  ASSUME TypeOK, Forget
  PROVE  /\ order' \in [Refreshers -> 0..MaxRevision]
         /\ seen' \in [Refreshers -> [Moonraker -> TaskOrNone]]
         /\ target' \in [Requests -> Devices \cup {None}]
BY ServiceAssumption DEF TypeOK, Forget, NoLive, TaskOrNone

\* The job a refresher makes of a task it saw is a job.
LEMMA NewJobTyped ==
  ASSUME TypeOK, NEW p \in Refreshers, NEW d \in Devices,
         SnapshotTask(p, d) # None, JobIds \ UsedIds # {}
  PROVE  NewJob(p, d) \in Job /\ NewJob(p, d) # None
<1>1. FreshId \in JobIds
  BY DEF FreshId
<1>2. SnapshotTask(p, d) \in Tasks
  BY DEF SnapshotTask, TypeOK, TaskOrNone, Bambu
<1>3. order[p] \in Nat
  BY ServiceAssumption DEF TypeOK
<1>4. NewJob(p, d) \in Job
  BY <1>1, <1>2, <1>3 DEF NewJob, Job
<1>. QED
  BY <1>4, NoneAssumption

\* The initial state is typed and nobody holds a job.
LEMMA InitTyped == Init => TypedInv
BY EmptyStateFacts, ProcsFacts, ServiceAssumption
   DEF Init, TypedInv, TypeOK, HolderHasJob, NoLive, TaskOrNone,
       RefresherStates, WorkerStates

\* The changes of the environment keep the type invariant.
LEMMA EnvironmentTyped == TypedInv /\ Environment => TypedInv'
<1> SUFFICES ASSUME TypedInv, Environment PROVE TypedInv'
  OBVIOUS
<1> USE ServiceAssumption DEF TypedInv, TypeOK, HolderHasJob, env, cache, local
<1>1. CASE \E d \in Bambu, t \in TaskOrNone : MqttReport(d, t)
  <2>1. PICK d \in Bambu, t \in TaskOrNone : MqttReport(d, t)
    BY <1>1
  <2>2. [history[revision] EXCEPT ![d] = t] \in [Bambu -> TaskOrNone]
    OBVIOUS
  <2>3. revision' \in 0..MaxRevision /\ history' \in [0..MaxRevision -> [Bambu -> TaskOrNone]]
    BY <2>1, <2>2 DEF MqttReport, Mutate
  <2>. QED
    BY <2>1, <2>3 DEF MqttReport, Bambu
<1>2. CASE \E c \in Connections : ConnectionLost(c)
  <2>1. PICK c \in Connections : ConnectionLost(c)
    BY <1>2
  <2>2. [e \in Bambu |-> IF e \in c THEN None ELSE history[revision][e]] \in [Bambu -> TaskOrNone]
    BY DEF TaskOrNone
  <2>3. revision' \in 0..MaxRevision /\ history' \in [0..MaxRevision -> [Bambu -> TaskOrNone]]
    BY <2>1, <2>2 DEF ConnectionLost, Mutate
  <2>4. c \subseteq Devices
    BY DEF Bambu
  <2>. QED
    BY <2>1, <2>3, <2>4 DEF ConnectionLost
<1>3. CASE \E d \in Moonraker, t \in TaskOrNone : MoonrakerReport(d, t)
  BY <1>3 DEF MoonrakerReport
<1>4. CASE \E d \in Devices : Announce(d)
  BY <1>4 DEF Announce
<1>5. CASE \E d \in Devices : RetryElapses(d)
  <2>1. PICK d \in Devices : RetryElapses(d)
    BY <1>5
  <2>2. RetryDue(jobs[d]) \in DeviceState
    BY <2>1, RetryDueFacts DEF RetryElapses
  <2>. QED
    BY <2>1, <2>2 DEF RetryElapses
<1>. QED
  BY <1>1, <1>2, <1>3, <1>4, <1>5 DEF Environment

\* The steps of the watcher and the requests keep it.
LEMMA RefreshingTyped == TypedInv /\ Refreshing => TypedInv'
<1> SUFFICES ASSUME TypedInv, Refreshing PROVE TypedInv'
  OBVIOUS
<1> USE ServiceAssumption, ProcsFacts DEF TypedInv, HolderHasJob, env, cache, local
<1>0. TypeOK
  OBVIOUS
<1>1. CASE Subscribe \/ ReceiveChange \/ TakeMqttSnapshot
  <2>1. CASE Subscribe
    BY <2>1 DEF TypeOK, Subscribe, RefresherStates
  <2>2. CASE ReceiveChange
    BY <2>2 DEF TypeOK, ReceiveChange, RefresherStates
  <2>3. CASE TakeMqttSnapshot
    BY <2>3 DEF TypeOK, TakeMqttSnapshot, RefresherStates
  <2>. QED
    BY <1>1, <2>1, <2>2, <2>3
<1>2. CASE \E p \in Requests, d \in Devices : BeginRequest(p, d)
  BY <1>2 DEF TypeOK, BeginRequest, RefresherStates
<1>3. CASE \E p \in Refreshers : TakeLiveSnapshot(p)
  BY <1>3 DEF TypeOK, TakeLiveSnapshot, RefresherStates
<1>4. CASE \E p \in Refreshers, d \in Devices : ClearDevice(p, d)
  <2>1. PICK p \in Refreshers, d \in Devices : ClearDevice(p, d)
    BY <1>4
  <2>2. order[p] \in Nat
    BY DEF TypeOK
  <2>3. Clear(jobs[d], order[p]) \in DeviceState
    BY <2>2, ClearFacts DEF TypeOK
  <2>4. jobs' \in [Devices -> DeviceState]
    BY <2>1, <2>3 DEF TypeOK, ClearDevice
  <2>5. AfterRefresh(p, todo[p] \ {d}) \in {"apply", "idle", "respond"}
    BY DEF AfterRefresh
  <2>6. Forget
    BY <2>1 DEF ClearDevice
  <2>. QED
    BY <2>1, <2>4, <2>5, <2>6, ForgetTyped DEF TypeOK, ClearDevice, RefresherStates
<1>5. CASE \E p \in Refreshers, d \in Devices : ScheduleDevice(p, d)
  <2>1. PICK p \in Refreshers, d \in Devices : ScheduleDevice(p, d)
    BY <1>5
  <2>2. NewJob(p, d) \in Job /\ NewJob(p, d) # None
    BY <1>0, <2>1, NewJobTyped DEF ScheduleDevice
  <2>3. Schedule(jobs[d], NewJob(p, d)) \in DeviceState
    BY <2>2, ScheduleTyped DEF TypeOK
  <2>4. jobs' \in [Devices -> DeviceState]
    BY <2>1, <2>3 DEF TypeOK, ScheduleDevice
  <2>5. AfterRefresh(p, todo[p] \ {d}) \in {"apply", "idle", "respond"}
    BY DEF AfterRefresh
  <2>6. Forget
    BY <2>1 DEF ScheduleDevice
  <2>. QED
    BY <2>1, <2>2, <2>4, <2>5, <2>6, ForgetTyped
       DEF TypeOK, ScheduleDevice, RefresherStates
<1>6. CASE \E p \in Requests : Respond(p)
  BY <1>6, ForgetTyped DEF TypeOK, Respond, RefresherStates
<1>7. CASE \E p \in Requests : DropRequest(p)
  <2>1. PICK p \in Requests : DropRequest(p)
    BY <1>7
  <2>2. Forget
    BY <2>1 DEF DropRequest
  <2>. QED
    BY <2>1, <2>2, ForgetTyped DEF TypeOK, DropRequest, RefresherStates
<1>. QED
  BY <1>1, <1>2, <1>3, <1>4, <1>5, <1>6, <1>7 DEF Refreshing

\* Putting a job in the queue, or failing to, keeps it.
LEMMA EnqueueingTyped == TypedInv /\ Enqueueing => TypedInv'
<1> SUFFICES ASSUME TypedInv, NEW p \in Procs,
                    EnqueueJob(p) \/ QueueFull(p) \/ EnqueueFailed(p)
             PROVE  TypedInv'
  BY DEF Enqueueing
<1> USE ServiceAssumption, ProcsFacts DEF TypedInv, HolderHasJob, env, cache, local
<1>0. TypeOK
  OBVIOUS
<1>a. AfterRefresh(p, todo[p]) \in {"apply", "idle", "respond"}
  BY DEF AfterRefresh
<1>1. CASE EnqueueJob(p)
  <2>1. held[p] \in Job
    BY <1>1 DEF TypeOK, EnqueueJob
  <2>2. queue' \in Seq(Job) /\ Len(queue') <= QueueCapacity
    BY <1>1, <2>1 DEF TypeOK, EnqueueJob, QueueHasRoom
  <2>3. AfterSend(p) \in {"apply", "idle", "respond"} /\ (p \in JobIds => AfterSend(p) = "idle")
    BY <1>a DEF AfterSend
  <2>4. Forget
    BY <1>1 DEF EnqueueJob
  <2>5. permits' \subseteq JobIds
    BY <1>1 DEF TypeOK, EnqueueJob, Release
  <2>. QED
    BY <1>1, <2>2, <2>3, <2>4, <2>5, ForgetTyped
       DEF TypeOK, EnqueueJob, RefresherStates, WorkerStates
<1>2. CASE QueueFull(p)
  BY <1>2 DEF TypeOK, QueueFull, RefresherStates, WorkerStates
<1>3. CASE EnqueueFailed(p)
  <2>1. held[p] \in Job /\ held[p].device \in Devices
    BY <1>3 DEF TypeOK, EnqueueFailed, Job
  <2>2. MarkEnqueueFailed(jobs[held[p].device], held[p]) \in DeviceState
    BY <2>1, MarkEnqueueFailedFacts DEF TypeOK
  <2>3. jobs' \in [Devices -> DeviceState]
    BY <1>3, <2>1, <2>2 DEF TypeOK, EnqueueFailed
  <2>4. AfterFailure(p) \in {"apply", "idle", "respond"} /\ (p \in JobIds => AfterFailure(p) = "idle")
    BY <1>a DEF AfterFailure
  <2>5. Forget
    BY <1>3 DEF EnqueueFailed
  <2>6. permits' \subseteq JobIds
    BY <1>3 DEF TypeOK, EnqueueFailed, Release
  <2>. QED
    BY <1>3, <2>3, <2>4, <2>5, <2>6, ForgetTyped
       DEF TypeOK, EnqueueFailed, RefresherStates, WorkerStates
<1>. QED
  BY <1>1, <1>2, <1>3

\* The job finish hands back is a job that waited behind the finished one.
LEMMA PromotedTyped ==
  ASSUME NEW s \in DeviceState, NEW job \in Job
  PROVE  Promoted(s, job) = None \/ Promoted(s, job) \in Job
BY OwnerFacts DEF Promoted, FinishOutcome

\* What a fetch may answer is a status to store.
LEMMA OutcomesTyped ==
  \A o \in Outcomes \cup {Failure} :
    /\ o.status \in Statuses /\ o.retry \in Retries
    /\ o.status = "loading" => o.retry # "none"
BY DEF Outcomes, Failure, Statuses, Retries

\* The steps of the workers, and of the watcher that spawns and reaps them, keep
\* the type invariant.
LEMMA WorkingTyped == TypedInv /\ Working => TypedInv'
<1> SUFFICES ASSUME TypedInv, Working PROVE TypedInv'
  OBVIOUS
<1> USE ServiceAssumption, ProcsFacts DEF TypedInv, HolderHasJob, env, cache, local
<1>0. TypeOK
  OBVIOUS
<1>1. CASE SpawnWorker
  <2>1. /\ Head(queue) \in Job /\ Head(queue).id \in JobIds /\ Head(queue) # None
        /\ Tail(queue) \in Seq(Job) /\ Len(Tail(queue)) <= QueueCapacity
    <3>1. /\ Head(queue) \in Job
          /\ Tail(queue) \in Seq(Job)
          /\ Len(Tail(queue)) = Len(queue) - 1
      BY <1>1, HeadTailProperties DEF TypeOK, SpawnWorker
    <3>2. Head(queue).id \in JobIds
      BY <3>1 DEF Job
    <3>3. Head(queue) # None
      BY <3>1, NoneAssumption
    <3>. QED
      BY <3>1, <3>2, <3>3 DEF TypeOK
  <2>. QED
    BY <1>1, <2>1 DEF TypeOK, SpawnWorker, WorkerStates
<1>2. ASSUME NEW i \in JobIds, StartJob(i) PROVE TypedInv'
  <2> DEFINE job == held[i]  s == jobs[job.device]
  <2>1. job \in Job /\ job.device \in Devices /\ job # None
    BY <1>2, NoneAssumption DEF TypeOK, StartJob, Job
  <2>2. s \in DeviceState
    BY <2>1 DEF TypeOK
  <2>3. /\ Start(s, job) \in DeviceState
        /\ StartOutcome(s, job) \in {"stale", "pending", "fetch"}
        /\ StartOutcome(s, job) = "pending" => s.active.pending \in Job
    BY <2>1, <2>2, StartFacts
  <2>4. StartOutcome(s, job) = "pending" => s.active.pending # None
    BY <2>3, NoneAssumption
  <2>5. jobs' \in [Devices -> DeviceState]
    BY <1>2, <2>1, <2>3 DEF TypeOK, StartJob
  <2>6. CASE StartOutcome(s, job) = "fetch"
    BY <1>2, <2>1, <2>5, <2>6 DEF TypeOK, StartJob, WorkerStates
  <2>7. CASE StartOutcome(s, job) = "pending"
    BY <1>2, <2>1, <2>3, <2>4, <2>5, <2>7 DEF TypeOK, StartJob, WorkerStates
  <2>8. CASE StartOutcome(s, job) = "stale"
    BY <1>2, <2>1, <2>5, <2>8 DEF TypeOK, StartJob, WorkerStates
  <2>. QED
    BY <2>3, <2>6, <2>7, <2>8
<1>3. ASSUME NEW i \in JobIds, AcquirePermit(i) \/ FallsSilent(i) PROVE TypedInv'
  <2>1. CASE AcquirePermit(i)
    BY <2>1 DEF TypeOK, AcquirePermit, WorkerStates
  <2>2. CASE FallsSilent(i)
    BY <2>2 DEF TypeOK, FallsSilent, WorkerStates
  <2>. QED
    BY <1>3, <2>1, <2>2
<1>4. ASSUME NEW i \in JobIds, NEW outcome \in Outcomes, FinishFetch(i, outcome)
      PROVE  TypedInv'
  <2> DEFINE job == held[i]  s == jobs[job.device]  next == Promoted(s, job)
  <2>1. job \in Job /\ job.device \in Devices
    BY <1>4 DEF TypeOK, FinishFetch, Job
  <2>2. Finish(s, job, outcome.status, outcome.retry) \in DeviceState
    BY <2>1, OutcomesTyped, FinishTyped DEF TypeOK
  <2>3. next = None \/ next \in Job
    BY <2>1, PromotedTyped DEF TypeOK
  <2>4. jobs' \in [Devices -> DeviceState]
    BY <1>4, <2>1, <2>2 DEF TypeOK, FinishFetch
  <2>5. permits' \subseteq JobIds
    BY <1>4 DEF TypeOK, FinishFetch
  <2>6. /\ pc' = [pc EXCEPT ![i] = IF next = None THEN "idle" ELSE "send"]
        /\ held' = [held EXCEPT ![i] = next]
        /\ UNCHANGED <<env, queue, order, seen, todo, target>>
    BY <1>4 DEF FinishFetch
  <2> HIDE DEF next
  <2>. QED
    BY <2>3, <2>4, <2>5, <2>6 DEF TypeOK, WorkerStates
<1>5. ASSUME NEW i \in JobIds, WorkerPanics(i) PROVE TypedInv'
  BY <1>5 DEF TypeOK, WorkerPanics, WorkerStates, Release
<1>6. ASSUME NEW i \in JobIds, ReapPanicked(i) PROVE TypedInv'
  <2> DEFINE job == held[i]  s == jobs[job.device]  next == Promoted(s, job)
  <2>1. job \in Job /\ job.device \in Devices
    BY <1>6 DEF TypeOK, ReapPanicked, Job
  <2>2. Finish(s, job, Failure.status, Failure.retry) \in DeviceState
    BY <2>1, OutcomesTyped, FinishTyped DEF TypeOK
  <2>3. next = None \/ next \in Job
    BY <2>1, PromotedTyped DEF TypeOK
  <2>4. jobs' \in [Devices -> DeviceState]
    BY <1>6, <2>1, <2>2 DEF TypeOK, ReapPanicked
  <2>6. /\ pc' = [pc EXCEPT ![i] = "idle",
                            ![Watcher] = IF next = None THEN "idle" ELSE "send"]
        /\ held' = [held EXCEPT ![i] = None, ![Watcher] = next]
        /\ UNCHANGED <<env, queue, order, seen, todo, target, permits>>
    BY <1>6 DEF ReapPanicked
  <2> HIDE DEF next
  <2>. QED
    BY <2>3, <2>4, <2>6 DEF TypeOK, WorkerStates, RefresherStates
<1>7. ASSUME NEW i \in JobIds, WorkerCancelled(i) PROVE TypedInv'
  BY <1>7 DEF TypeOK, WorkerCancelled, WorkerStates, Release
<1>. QED
  BY <1>1, <1>2, <1>3, <1>4, <1>5, <1>6, <1>7 DEF Working

\* Every step keeps it.
LEMMA NextTyped == TypedInv /\ [Next]_vars => TypedInv'
<1> SUFFICES ASSUME TypedInv, [Next]_vars PROVE TypedInv'
  OBVIOUS
<1>1. CASE Stopping
  <2>1. CASE Shutdown
    BY <2>1, ProcsFacts DEF TypedInv, TypeOK, HolderHasJob, Shutdown, env, cache, RefresherStates
  <2>2. CASE WatcherStops
    BY <2>2, ProcsFacts DEF TypedInv, TypeOK, HolderHasJob, WatcherStops, env, cache, RefresherStates
  <2>. QED
    BY <1>1, <2>1, <2>2 DEF Stopping
<1>2. CASE UNCHANGED vars
  BY <1>2 DEF vars, TypedInv, TypeOK, HolderHasJob
<1>. QED
  BY <1>1, <1>2, EnvironmentTyped, RefreshingTyped, EnqueueingTyped, WorkingTyped DEF Next

\* The state of the service, the job states of every device included, is always
\* well typed: no process, job record or counter leaves its domain.
THEOREM TypeCorrect == Spec => []TypeOK
<1>1. Spec => []TypedInv
  BY InitTyped, NextTyped, PTL DEF Spec
<1>. QED
  BY <1>1, PTL DEF TypedInv

-----------------------------------------------------------------------------
(***************************************************************************)
(* The cache shows the newest snapshot it has seen.  That is not inductive *)
(* by itself: a failure to enqueue shows the task of the job that failed,  *)
(* so every job, wherever it is, must be for the task its snapshot showed. *)
(***************************************************************************)

\* The job is for the task that the snapshot of its order showed.
KnownJob(j) ==
  /\ j.order <= revision
  /\ j.device \in Bambu => history[j.order][j.device] = j.task

DeviceInv(d, s) ==
  /\ Coherent(s)
  /\ s.latest <= revision
  /\ d \in Bambu => Shown(s) = history[s.latest][d]
  /\ PendingOf(s) # None => KnownJob(PendingOf(s))

JobsInv == \A d \in Devices : DeviceInv(d, jobs[d])

CarriedInv ==
  /\ \A p \in Refreshers : order[p] <= revision
  /\ \A p \in Procs : held[p] # None => KnownJob(held[p])
  /\ \A k \in 1..Len(queue) : KnownJob(queue[k])

CacheInv == TypedInv /\ JobsInv /\ CarriedInv

\* The operations on one device state, given what a caller knows of its job:
\* schedule.
LEMMA ScheduleInv ==
  ASSUME NEW d \in Devices, NEW s \in DeviceState, NEW job \in Job, revision \in Nat,
         DeviceInv(d, s), KnownJob(job), job.device = d
  PROVE  DeviceInv(d, Schedule(s, job))
BY ScheduleRecords, ScheduleCoherent, SchedulePending DEF DeviceInv, KnownJob, Job

\* clear, given that the snapshot shows no task.
LEMMA ClearInv ==
  ASSUME NEW d \in Devices, NEW s \in DeviceState, NEW r \in Nat, revision \in Nat,
         DeviceInv(d, s), r <= revision, d \in Bambu => history[r][d] = None
  PROVE  DeviceInv(d, Clear(s, r))
<1>1. CASE IsOlder(s, r)
  BY <1>1, ClearFacts
<1>2. CASE ~IsOlder(s, r)
  BY <1>2, ClearFacts DEF DeviceInv, PendingOf
<1>. QED
  BY <1>1, <1>2

\* start.
LEMMA StartInv ==
  ASSUME NEW d \in Devices, NEW s \in DeviceState, NEW job \in Job, DeviceInv(d, s)
  PROVE  DeviceInv(d, Start(s, job))
<1>1. PendingOf(Start(s, job)) \in {None, PendingOf(s)}
  BY OthersPending
<1>. QED
  BY <1>1, StartFacts DEF DeviceInv, Shown

\* finish, with any answer.
LEMMA FinishInv ==
  ASSUME NEW d \in Devices, NEW s \in DeviceState, NEW job \in Job,
         NEW o \in Outcomes \cup {Failure}, DeviceInv(d, s)
  PROVE  DeviceInv(d, Finish(s, job, o.status, o.retry))
<1>1. PendingOf(Finish(s, job, o.status, o.retry)) \in {None, PendingOf(s)}
  BY OthersPending, OutcomesTyped
<1>2. Coherent(s)
  BY DEF DeviceInv
<1>. QED
  BY <1>1, <1>2, FinishFacts, OutcomesTyped DEF DeviceInv

\* A failure to enqueue, given that the job is for its snapshot's task.
LEMMA MarkEnqueueFailedInv ==
  ASSUME NEW d \in Devices, NEW s \in DeviceState, NEW job \in Job, revision \in Nat,
         DeviceInv(d, s), KnownJob(job), job.device = d
  PROVE  DeviceInv(d, MarkEnqueueFailed(s, job))
<1>1. CASE IsOlder(s, job.order)
  BY <1>1, MarkEnqueueFailedFacts
<1>2. CASE ~IsOlder(s, job.order)
  BY <1>2, MarkEnqueueFailedFacts DEF DeviceInv, PendingOf, KnownJob
<1>. QED
  BY <1>1, <1>2

\* A step that changes one device state, and neither the revision nor the
\* history, keeps the invariant of the device states.
LEMMA OneDeviceStep ==
  ASSUME JobsInv, TypeOK, NEW d \in Devices, NEW u,
         jobs' = [jobs EXCEPT ![d] = u], DeviceInv(d, u),
         UNCHANGED <<revision, history>>
  PROVE  JobsInv'
<1>1. \A e \in Devices : DeviceInv(e, jobs'[e])
  BY DEF JobsInv, TypeOK
<1>. QED
  BY <1>1 DEF JobsInv, DeviceInv, KnownJob

\* The initial state satisfies the invariant.
LEMMA InitCache == Init => CacheInv
<1> SUFFICES ASSUME Init PROVE CacheInv
  OBVIOUS
<1>1. TypedInv
  BY InitTyped
<1>2. \A d \in Devices : jobs[d] = EmptyState /\ PendingOf(jobs[d]) = None
  BY DEF Init, EmptyState, PendingOf
<1>3. revision = 0 /\ history = [r \in 0..MaxRevision |-> [d \in Bambu |-> None]]
  BY DEF Init
<1>4. JobsInv
  <2>1. 0 \in 0..MaxRevision
    BY ServiceAssumption
  <2>2. \A d \in Bambu : history[0][d] = None
    BY <1>3, <2>1
  <2>3. EmptyState.latest <= revision
    BY <1>3, EmptyStateFacts
  <2>4. ASSUME NEW d \in Devices PROVE DeviceInv(d, EmptyState)
    <3>1. d \in Bambu => Shown(EmptyState) = history[EmptyState.latest][d]
      BY <2>2, EmptyStateFacts
    <3>2. PendingOf(EmptyState) = None
      BY DEF PendingOf, EmptyState
    <3>. QED
      BY <2>3, <3>1, <3>2, EmptyStateFacts DEF DeviceInv
  <2>. QED
    BY <1>2, <2>4 DEF JobsInv
<1>5. CarriedInv
  BY DEF Init, CarriedInv
<1>. QED
  BY <1>1, <1>4, <1>5 DEF CacheInv

\* A new revision leaves the history up to the old one as it was, and the job
\* states and the jobs with it.
LEMMA MutateCache ==
  ASSUME CacheInv, NEW tasks \in [Bambu -> TaskOrNone], Mutate(tasks),
         UNCHANGED <<cache, local>>
  PROVE  JobsInv' /\ CarriedInv'
<1> USE DEF cache, local
<1>1. revision \in 0..MaxRevision /\ revision' = revision + 1
  BY DEF CacheInv, TypedInv, TypeOK, Mutate
<1>2. \A r \in Nat : r <= revision => r <= revision' /\ history'[r] = history[r]
  BY <1>1, ServiceAssumption DEF CacheInv, TypedInv, TypeOK, Mutate
<1>3. \A j \in Job : KnownJob(j) => KnownJob(j)'
  BY <1>2 DEF KnownJob, Job
<1>4. ASSUME NEW d \in Devices PROVE DeviceInv(d, jobs[d])'
  <2>1. DeviceInv(d, jobs[d]) /\ jobs[d] \in DeviceState /\ jobs' = jobs
    BY DEF CacheInv, JobsInv, TypedInv, TypeOK
  <2>2. jobs[d].latest \in Nat
    BY <2>1 DEF DeviceState
  <2>3. PendingOf(jobs[d]) # None => PendingOf(jobs[d]) \in Job
    BY <2>1 DEF DeviceState, PendingOf, ActiveJob
  <2>. QED
    BY <1>2, <1>3, <2>1, <2>2, <2>3 DEF DeviceInv
<1>5. CarriedInv'
  <2>1. ASSUME NEW p \in Refreshers PROVE order'[p] <= revision'
    BY <1>1, ServiceAssumption DEF CacheInv, CarriedInv, TypedInv, TypeOK
  <2>2. ASSUME NEW p \in Procs, held'[p] # None PROVE KnownJob(held[p])'
    BY <1>3, <2>2 DEF CacheInv, CarriedInv, TypedInv, TypeOK
  <2>3. ASSUME NEW k \in 1..Len(queue') PROVE KnownJob(queue[k])'
    BY <1>3, <2>3 DEF CacheInv, CarriedInv, TypedInv, TypeOK
  <2>. QED
    BY <2>1, <2>2, <2>3 DEF CarriedInv
<1>. QED
  BY <1>4, <1>5 DEF JobsInv

\* A step that changes neither the history nor the job states keeps the invariant
\* of the device states.
LEMMA SameJobs ==
  ASSUME JobsInv, UNCHANGED <<revision, history, jobs>>
  PROVE  JobsInv'
BY DEF JobsInv, DeviceInv, KnownJob

\* A step that changes no carried job and no order keeps theirs.
LEMMA SameCarried ==
  ASSUME CarriedInv, UNCHANGED <<revision, history, order, held, queue>>
  PROVE  CarriedInv'
BY DEF CarriedInv, KnownJob

\* The environment keeps the invariant.
LEMMA EnvironmentCache == CacheInv /\ Environment => JobsInv' /\ CarriedInv'
<1> SUFFICES ASSUME CacheInv, Environment PROVE JobsInv' /\ CarriedInv'
  OBVIOUS
<1>0. TypeOK /\ JobsInv /\ CarriedInv
  BY DEF CacheInv, TypedInv
<1> USE DEF env, cache, local
<1>1. CASE \E d \in Bambu, t \in TaskOrNone : MqttReport(d, t)
  <2>1. PICK d \in Bambu, t \in TaskOrNone : MqttReport(d, t)
    BY <1>1
  <2>2. [history[revision] EXCEPT ![d] = t] \in [Bambu -> TaskOrNone]
    BY <1>0 DEF TypeOK
  <2>. QED
    BY <2>1, <2>2, MutateCache DEF MqttReport
<1>2. CASE \E c \in Connections : ConnectionLost(c)
  <2>1. PICK c \in Connections : ConnectionLost(c)
    BY <1>2
  <2>2. [e \in Bambu |-> IF e \in c THEN None ELSE history[revision][e]] \in [Bambu -> TaskOrNone]
    BY <1>0 DEF TypeOK, TaskOrNone
  <2>. QED
    BY <2>1, <2>2, MutateCache DEF ConnectionLost
<1>3. CASE \E d \in Moonraker, t \in TaskOrNone : MoonrakerReport(d, t)
  BY <1>0, <1>3, SameJobs, SameCarried DEF MoonrakerReport
<1>4. CASE \E d \in Devices : Announce(d)
  BY <1>0, <1>4, SameJobs, SameCarried DEF Announce
<1>5. CASE \E d \in Devices : RetryElapses(d)
  <2>1. PICK d \in Devices : RetryElapses(d)
    BY <1>5
  <2>2. jobs[d] \in DeviceState /\ DeviceInv(d, jobs[d])
    BY <1>0 DEF TypeOK, JobsInv
  <2>3. DeviceInv(d, RetryDue(jobs[d]))
    BY <2>1, <2>2, RetryDueFacts DEF RetryElapses, DeviceInv, PendingOf
  <2>4. JobsInv'
    BY <1>0, <2>1, <2>3, OneDeviceStep DEF RetryElapses
  <2>. QED
    BY <1>0, <2>1, <2>4, SameCarried DEF RetryElapses
<1>. QED
  BY <1>1, <1>2, <1>3, <1>4, <1>5 DEF Environment

\* The new job of a refresher is for the task its snapshot showed.
LEMMA NewJobKnown ==
  ASSUME CacheInv, NEW p \in Refreshers, NEW d \in Devices
  PROVE  KnownJob(NewJob(p, d)) /\ NewJob(p, d).device = d
BY DEF CacheInv, CarriedInv, KnownJob, NewJob, SnapshotTask, Bambu

\* What refreshers hold after a step that hands one of them `job`, or nothing.
LEMMA HeldStep ==
  ASSUME CarriedInv, TypeOK, NEW p \in Procs, NEW job,
         held' = [held EXCEPT ![p] = job], job # None => KnownJob(job),
         UNCHANGED <<revision, history>>
  PROVE  \A q \in Procs : held'[q] # None => KnownJob(held[q])'
BY DEF CarriedInv, TypeOK, KnownJob

\* Forgetting the order of an idle refresher keeps the orders known.
LEMMA ForgetOrder ==
  ASSUME CarriedInv, TypeOK, Forget, UNCHANGED revision
  PROVE  \A p \in Refreshers : order'[p] <= revision'
BY DEF CarriedInv, TypeOK, Forget

\* The steps of the watcher and the requests keep the invariant.
LEMMA RefreshingCache == CacheInv /\ Refreshing => JobsInv' /\ CarriedInv'
<1> SUFFICES ASSUME CacheInv, Refreshing PROVE JobsInv' /\ CarriedInv'
  OBVIOUS
<1>0. TypeOK /\ JobsInv /\ CarriedInv /\ revision \in Nat
  BY DEF CacheInv, TypedInv, TypeOK
<1> USE ProcsFacts DEF env, cache, local
<1>1. CASE Subscribe \/ ReceiveChange
  BY <1>0, <1>1, SameJobs, SameCarried DEF Subscribe, ReceiveChange
<1>2. CASE TakeMqttSnapshot
  <2>1. JobsInv'
    BY <1>0, <1>2, SameJobs DEF TakeMqttSnapshot
  <2>2. CarriedInv'
    BY <1>0, <1>2 DEF TakeMqttSnapshot, CarriedInv, KnownJob, TypeOK
  <2>. QED
    BY <2>1, <2>2
<1>3. CASE \E p \in Requests, d \in Devices : BeginRequest(p, d)
  <2>1. JobsInv'
    BY <1>0, <1>3, SameJobs DEF BeginRequest
  <2>2. CarriedInv'
    BY <1>0, <1>3 DEF BeginRequest, CarriedInv, KnownJob, TypeOK
  <2>. QED
    BY <2>1, <2>2
<1>4. CASE \E p \in Refreshers : TakeLiveSnapshot(p)
  BY <1>0, <1>4, SameJobs, SameCarried DEF TakeLiveSnapshot
<1>5. CASE \E p \in Refreshers, d \in Devices : ClearDevice(p, d)
  <2>1. PICK p \in Refreshers, d \in Devices : ClearDevice(p, d)
    BY <1>5
  <2>2. /\ jobs[d] \in DeviceState /\ DeviceInv(d, jobs[d])
        /\ order[p] \in Nat /\ order[p] <= revision
    BY <1>0 DEF TypeOK, JobsInv, CarriedInv
  <2>3. d \in Bambu => history[order[p]][d] = None
    BY <2>1 DEF ClearDevice, SnapshotTask, Bambu
  <2>4. DeviceInv(d, Clear(jobs[d], order[p]))
    BY <1>0, <2>2, <2>3, ClearInv
  <2>5. JobsInv'
    BY <1>0, <2>1, <2>4, OneDeviceStep DEF ClearDevice
  <2>6. CarriedInv'
    BY <1>0, <2>1, ForgetOrder DEF ClearDevice, CarriedInv, KnownJob
  <2>. QED
    BY <2>5, <2>6
<1>6. CASE \E p \in Refreshers, d \in Devices : ScheduleDevice(p, d)
  <2>1. PICK p \in Refreshers, d \in Devices : ScheduleDevice(p, d)
    BY <1>6
  <2>2. jobs[d] \in DeviceState /\ DeviceInv(d, jobs[d])
    BY <1>0 DEF TypeOK, JobsInv
  <2>3. NewJob(p, d) \in Job
    BY <1>0, <2>1, NewJobTyped DEF ScheduleDevice
  <2>4. DeviceInv(d, Schedule(jobs[d], NewJob(p, d)))
    BY <1>0, <2>2, <2>3, NewJobKnown, ScheduleInv
  <2>5. JobsInv'
    BY <1>0, <2>1, <2>4, OneDeviceStep DEF ScheduleDevice
  <2>6. \A q \in Procs : held'[q] # None => KnownJob(held[q])'
    BY <1>0, <2>1, NewJobKnown, HeldStep DEF ScheduleDevice
  <2>7. CarriedInv'
    BY <1>0, <2>1, <2>6, ForgetOrder DEF ScheduleDevice, CarriedInv, KnownJob
  <2>. QED
    BY <2>5, <2>7
<1>7. ASSUME NEW p \in Requests, Respond(p) PROVE JobsInv' /\ CarriedInv'
  <2>1. JobsInv'
    BY <1>0, <1>7, SameJobs DEF Respond
  <2>2. CarriedInv'
    BY <1>0, <1>7, ForgetOrder DEF Respond, CarriedInv, KnownJob
  <2>. QED
    BY <2>1, <2>2
<1>8. ASSUME NEW p \in Requests, DropRequest(p) PROVE JobsInv' /\ CarriedInv'
  <2>1. JobsInv'
    BY <1>0, <1>8, SameJobs DEF DropRequest
  <2>2. \A q \in Procs : held'[q] # None => KnownJob(held[q])'
    BY <1>0, <1>8, HeldStep DEF DropRequest
  <2>. QED
    BY <1>0, <1>8, <2>1, <2>2, ForgetOrder DEF DropRequest, CarriedInv, KnownJob
<1>. QED
  BY <1>1, <1>2, <1>3, <1>4, <1>5, <1>6, <1>7, <1>8 DEF Refreshing

\* Enqueueing, or failing to, keeps the invariant: a job that cannot be queued is
\* for the task of its snapshot, so its failure is shown for the right task.
LEMMA EnqueueingCache == CacheInv /\ Enqueueing => JobsInv' /\ CarriedInv'
<1> SUFFICES ASSUME CacheInv, NEW p \in Procs,
                    EnqueueJob(p) \/ QueueFull(p) \/ EnqueueFailed(p)
             PROVE  JobsInv' /\ CarriedInv'
  BY DEF Enqueueing
<1>0. TypeOK /\ JobsInv /\ CarriedInv /\ HolderHasJob /\ revision \in Nat
  BY DEF CacheInv, TypedInv, TypeOK
<1> USE ProcsFacts DEF env, cache, local
<1>1. CASE EnqueueJob(p)
  <2>1. JobsInv'
    BY <1>0, <1>1, SameJobs DEF EnqueueJob
  <2>2. held[p] \in Job /\ KnownJob(held[p])
    BY <1>0, <1>1 DEF EnqueueJob, TypeOK, HolderHasJob, CarriedInv
  <2>3. \A k \in 1..Len(queue') : KnownJob(queue'[k])
    BY <1>0, <1>1, <2>2 DEF EnqueueJob, TypeOK, CarriedInv
  <2>4. \A k \in 1..Len(queue') : KnownJob(queue[k])'
    BY <1>1, <2>3 DEF EnqueueJob, KnownJob
  <2>5. \A q \in Procs : held'[q] # None => KnownJob(held[q])'
    BY <1>0, <1>1, HeldStep DEF EnqueueJob
  <2>. QED
    BY <1>0, <1>1, <2>1, <2>4, <2>5, ForgetOrder DEF EnqueueJob, CarriedInv
<1>2. CASE QueueFull(p)
  BY <1>0, <1>2, SameJobs, SameCarried DEF QueueFull
<1>3. CASE EnqueueFailed(p)
  <2> DEFINE d == held[p].device
  <2>1. held[p] \in Job /\ KnownJob(held[p])
    BY <1>0, <1>3 DEF EnqueueFailed, TypeOK, HolderHasJob, CarriedInv
  <2>2. d \in Devices /\ jobs[d] \in DeviceState /\ DeviceInv(d, jobs[d])
    BY <1>0, <2>1 DEF Job, TypeOK, JobsInv
  <2>3. DeviceInv(d, MarkEnqueueFailed(jobs[d], held[p]))
    BY <1>0, <2>1, <2>2, MarkEnqueueFailedInv
  <2>4. jobs' = [jobs EXCEPT ![d] = MarkEnqueueFailed(jobs[d], held[p])]
    BY <1>3 DEF EnqueueFailed
  <2>5. UNCHANGED <<revision, history, queue>> /\ held' = [held EXCEPT ![p] = None] /\ Forget
    BY <1>3 DEF EnqueueFailed
  <2> HIDE DEF d
  <2>6. JobsInv'
    BY <1>0, <2>2, <2>3, <2>4, <2>5, OneDeviceStep
  <2>7. \A q \in Procs : held'[q] # None => KnownJob(held[q])'
    BY <1>0, <2>5, HeldStep
  <2>. QED
    BY <1>0, <2>5, <2>6, <2>7, ForgetOrder DEF CarriedInv, KnownJob
<1>. QED
  BY <1>1, <1>2, <1>3

\* The job finish or start hands on waited behind a known device state's job.
LEMMA PromotedKnown ==
  ASSUME NEW d \in Devices, NEW s \in DeviceState, NEW job \in Job, DeviceInv(d, s)
  PROVE  /\ Promoted(s, job) # None => KnownJob(Promoted(s, job))
         /\ StartOutcome(s, job) = "pending" => KnownJob(s.active.pending)
<1>1. ASSUME HasPending(s), s.active # None PROVE KnownJob(s.active.pending)
  BY <1>1 DEF DeviceInv, PendingOf, HasPending
<1>. QED
  BY <1>1, OwnerFacts DEF Promoted, FinishOutcome, StartOutcome

\* The workers, spawned, running, finishing, panicking or cancelled, keep the
\* invariant.
LEMMA WorkingCache == CacheInv /\ Working => JobsInv' /\ CarriedInv'
<1> SUFFICES ASSUME CacheInv, Working PROVE JobsInv' /\ CarriedInv'
  OBVIOUS
<1>0. TypeOK /\ JobsInv /\ CarriedInv /\ HolderHasJob
  BY DEF CacheInv, TypedInv
<1> USE ProcsFacts DEF env, cache, local
<1>1. CASE SpawnWorker
  <2>1. JobsInv'
    BY <1>0, <1>1, SameJobs DEF SpawnWorker
  <2>2. /\ Head(queue) \in Job /\ Tail(queue) \in Seq(Job)
        /\ Len(Tail(queue)) = Len(queue) - 1
        /\ \A k \in 1..Len(Tail(queue)) : Tail(queue)[k] = queue[k + 1]
        /\ Head(queue) = queue[1] /\ Len(queue) \in Nat \ {0}
    BY <1>0, <1>1, HeadTailProperties DEF TypeOK, SpawnWorker
  <2>3. KnownJob(Head(queue)) /\ \A k \in 1..Len(Tail(queue)) : KnownJob(Tail(queue)[k])
    BY <1>0, <2>2 DEF CarriedInv
  <2>4. Head(queue).id \in Procs
    BY <2>2 DEF Job
  <2>5. \A q \in Procs : held'[q] # None => KnownJob(held[q])'
    BY <1>0, <1>1, <2>3, <2>4, HeldStep DEF SpawnWorker
  <2>. QED
    BY <1>0, <1>1, <2>1, <2>3, <2>5 DEF SpawnWorker, CarriedInv, KnownJob
<1>2. ASSUME NEW i \in JobIds, StartJob(i) PROVE JobsInv' /\ CarriedInv'
  <2> DEFINE job == held[i]  d == job.device  s == jobs[d]
             next == CASE StartOutcome(s, job) = "fetch" -> job
                       [] StartOutcome(s, job) = "pending" -> s.active.pending
                       [] StartOutcome(s, job) = "stale" -> None
  <2>1. job \in Job /\ d \in Devices /\ KnownJob(job)
    BY <1>0, <1>2 DEF TypeOK, StartJob, HolderHasJob, CarriedInv, Job
  <2>2. s \in DeviceState /\ DeviceInv(d, s)
    BY <1>0, <2>1 DEF TypeOK, JobsInv
  <2>3. DeviceInv(d, Start(s, job))
    BY <2>1, <2>2, StartInv
  <2>4. /\ jobs' = [jobs EXCEPT ![d] = Start(s, job)]
        /\ held' = [held EXCEPT ![i] = next]
        /\ UNCHANGED <<revision, history, queue, order>>
    BY <1>2 DEF StartJob
  <2>5. next # None => KnownJob(next)
    BY <2>1, <2>2, PromotedKnown, StartFacts
  <2> HIDE DEF next, d, s, job
  <2>6. JobsInv'
    BY <1>0, <2>1, <2>3, <2>4, OneDeviceStep
  <2>7. \A q \in Procs : held'[q] # None => KnownJob(held[q])'
    BY <1>0, <2>4, <2>5, HeldStep
  <2>. QED
    BY <1>0, <2>4, <2>6, <2>7 DEF CarriedInv, KnownJob
<1>3. ASSUME NEW i \in JobIds, AcquirePermit(i) \/ FallsSilent(i) \/ WorkerPanics(i)
      PROVE  JobsInv' /\ CarriedInv'
  BY <1>0, <1>3, SameJobs, SameCarried DEF AcquirePermit, FallsSilent, WorkerPanics
<1>4. ASSUME NEW i \in JobIds, NEW outcome \in Outcomes, FinishFetch(i, outcome)
      PROVE  JobsInv' /\ CarriedInv'
  <2> DEFINE job == held[i]  d == job.device  s == jobs[d]  next == Promoted(s, job)
             u == Finish(s, job, outcome.status, outcome.retry)
  <2>1. job \in Job /\ d \in Devices
    BY <1>0, <1>4 DEF TypeOK, FinishFetch, HolderHasJob, Job
  <2>2. s \in DeviceState /\ DeviceInv(d, s)
    BY <1>0, <2>1 DEF TypeOK, JobsInv
  <2>3. DeviceInv(d, u)
    BY <2>1, <2>2, FinishInv
  <2>4. /\ jobs' = [jobs EXCEPT ![d] = u]
        /\ held' = [held EXCEPT ![i] = next]
        /\ UNCHANGED <<revision, history, queue, order>>
    BY <1>4 DEF FinishFetch
  <2>5. next # None => KnownJob(next)
    BY <2>1, <2>2, PromotedKnown
  <2> HIDE DEF next, d, s, job, u
  <2>6. JobsInv'
    BY <1>0, <2>1, <2>3, <2>4, OneDeviceStep
  <2>7. \A q \in Procs : held'[q] # None => KnownJob(held[q])'
    BY <1>0, <2>4, <2>5, HeldStep
  <2>. QED
    BY <1>0, <2>4, <2>6, <2>7 DEF CarriedInv, KnownJob
<1>5. ASSUME NEW i \in JobIds, ReapPanicked(i) PROVE JobsInv' /\ CarriedInv'
  <2> DEFINE job == held[i]  d == job.device  s == jobs[d]  next == Promoted(s, job)
             u == Finish(s, job, Failure.status, Failure.retry)
  <2>1. job \in Job /\ d \in Devices
    BY <1>0, <1>5 DEF TypeOK, ReapPanicked, HolderHasJob, Job
  <2>2. s \in DeviceState /\ DeviceInv(d, s)
    BY <1>0, <2>1 DEF TypeOK, JobsInv
  <2>3. DeviceInv(d, u)
    BY <2>1, <2>2, FinishInv
  <2>4. /\ jobs' = [jobs EXCEPT ![d] = u]
        /\ held' = [held EXCEPT ![i] = None, ![Watcher] = next]
        /\ UNCHANGED <<revision, history, queue, order>>
    BY <1>5 DEF ReapPanicked
  <2>5. next # None => KnownJob(next)
    BY <2>1, <2>2, PromotedKnown
  <2> HIDE DEF next, d, s, job, u
  <2>6. JobsInv'
    BY <1>0, <2>1, <2>3, <2>4, OneDeviceStep
  <2>7. \A q \in Procs : held'[q] # None => KnownJob(held'[q])
    BY <1>0, <2>4, <2>5 DEF CarriedInv, TypeOK
  <2>. QED
    BY <1>0, <2>4, <2>6, <2>7 DEF CarriedInv, KnownJob
<1>6. ASSUME NEW i \in JobIds, WorkerCancelled(i) PROVE JobsInv' /\ CarriedInv'
  <2>1. JobsInv'
    BY <1>0, <1>6, SameJobs DEF WorkerCancelled
  <2>2. \A q \in Procs : held'[q] # None => KnownJob(held[q])'
    BY <1>0, <1>6, HeldStep DEF WorkerCancelled
  <2>. QED
    BY <1>0, <1>6, <2>1, <2>2 DEF WorkerCancelled, CarriedInv, KnownJob
<1>. QED
  BY <1>1, <1>2, <1>3, <1>4, <1>5, <1>6 DEF Working

\* Every step keeps the invariant.
LEMMA NextCache == CacheInv /\ [Next]_vars => CacheInv'
<1> SUFFICES ASSUME CacheInv, [Next]_vars PROVE CacheInv'
  OBVIOUS
<1>0. TypedInv /\ JobsInv /\ CarriedInv
  BY DEF CacheInv
<1>1. TypedInv'
  BY <1>0, NextTyped
<1>2. ASSUME Stopping PROVE JobsInv' /\ CarriedInv'
  BY <1>0, <1>2, SameJobs, SameCarried DEF Stopping, Shutdown, WatcherStops, env, cache
<1>3. ASSUME UNCHANGED vars PROVE JobsInv' /\ CarriedInv'
  BY <1>0, <1>3, SameJobs, SameCarried DEF vars
<1>4. JobsInv' /\ CarriedInv'
  BY <1>2, <1>3, EnvironmentCache, RefreshingCache, EnqueueingCache, WorkingCache DEF Next
<1>. QED
  BY <1>1, <1>4 DEF CacheInv

\* The invariant holds in every reachable state.
LEMMA CacheInvariant == Spec => []CacheInv
BY InitCache, NextCache, PTL DEF Spec

\* However refreshes, fetches, failures to enqueue, panics and the shutdown
\* interleave, the cache of a Bambu device is about the task of the newest MQTT
\* snapshot it has seen.
THEOREM CacheIsConsistent == Spec => []CacheShowsLatest
<1>1. CacheInv => CacheShowsLatest
  BY DEF CacheInv, JobsInv, DeviceInv, CacheShowsLatest, Bambu
<1>. QED
  BY <1>1, CacheInvariant, PTL

\* A device has an active job exactly while its status is loading, and the job
\* that will end last is for the task the status is about.
THEOREM LoadingIsBacked == Spec => []LoadingHasItsJob
<1>1. CacheInv => LoadingHasItsJob
  BY DEF CacheInv, JobsInv, DeviceInv, LoadingHasItsJob
<1>. QED
  BY <1>1, CacheInvariant, PTL

-----------------------------------------------------------------------------
(***************************************************************************)
(* The refinement.  A step of the service changes at most one device state *)
(* and is, for a Bambu device, one step of the abstract cache; everything  *)
(* else is a change of the source or leaves the abstract state alone.      *)
(***************************************************************************)
LatestMap == [d \in Bambu |-> jobs[d].latest]
ShownMap == [d \in Bambu |-> View(jobs[d])]

\* The two maps after a step that changes the state of one device.
LEMMA MapStep ==
  ASSUME TypeOK, NEW d \in Devices, NEW u, jobs' = [jobs EXCEPT ![d] = u]
  PROVE  /\ LatestMap' = [LatestMap EXCEPT ![d] = u.latest]
         /\ ShownMap' = [ShownMap EXCEPT ![d] = View(u)]
BY DEF TypeOK, LatestMap, ShownMap, Bambu

\* A status is about its task, and is not None when there is one.
LEMMA ViewFacts ==
  ASSUME NEW s \in DeviceState
  PROVE  /\ s.cached = None => View(s) = None
         /\ s.cached # None => /\ View(s) # None
                               /\ View(s).task = s.cached.task
                               /\ View(s).status = s.cached.status
                               /\ View(s).task = Shown(s)
<1>1. ASSUME s.cached # None
      PROVE  [task |-> s.cached.task, status |-> s.cached.status] \in [task : Tasks, status : Statuses]
  BY <1>1 DEF DeviceState, CachedStatus
<1>. QED
  BY <1>1, ServiceAssumption DEF View, Shown

\* A schedule that is not rejected keeps a status about the job's task or starts
\* over.
LEMMA ScheduleView ==
  ASSUME NEW s \in DeviceState, NEW job \in Job, ~IsOlder(s, job.order)
  PROVE  \/ /\ View(Schedule(s, job)) = View(s)
            /\ View(s) # None
            /\ View(s).task = job.task
         \/ View(Schedule(s, job)) = [task |-> job.task, status |-> "loading"]
<1>1. CASE Covers(s, job.task)
  BY <1>1, ViewFacts DEF Schedule, Covers, View, DeviceState
<1>2. CASE ~Covers(s, job.task)
  <2>1. Schedule(s, job).cached = LoadingStatus(job.task)
    BY <1>2 DEF Schedule
  <2>2. job.task \in Tasks
    BY DEF Job
  <2>. QED
    BY <2>1, <2>2, LoadingStatusFacts DEF View
<1>. QED
  BY <1>1, <1>2

\* What the abstract cache allows a step that gives device d the state u.
AllowedStep(d, u) ==
  \/ u.latest = jobs[d].latest /\ View(u) = View(jobs[d])
  \/ /\ jobs[d].latest <= u.latest /\ u.latest <= revision
     /\ LET t == history[u.latest][d]
        IN  \/ t = None /\ View(u) = None
            \/ t # None /\ View(jobs[d]) # None /\ View(jobs[d]).task = t /\ View(u) = View(jobs[d])
            \/ t # None /\ View(u) = [task |-> t, status |-> "loading"]
            \/ t # None /\ View(u) = [task |-> t, status |-> "unavailable"]
  \/ /\ u.latest = jobs[d].latest
     /\ View(jobs[d]) # None /\ View(jobs[d]).status = "loading"
     /\ \E status \in Statuses : View(u) = [View(jobs[d]) EXCEPT !.status = status]

\* Such a step is a step of the abstract cache, or leaves it alone.
LEMMA AllowedRefines ==
  ASSUME CacheInv, NEW d \in Devices, NEW u \in DeviceState,
         jobs' = [jobs EXCEPT ![d] = u], UNCHANGED <<revision, history>>,
         d \in Bambu => AllowedStep(d, u)
  PROVE  [Cache!Next]_(Cache!vars)
<1>0. TypeOK
  BY DEF CacheInv, TypedInv
<1>1. /\ LatestMap' = [LatestMap EXCEPT ![d] = u.latest]
      /\ ShownMap' = [ShownMap EXCEPT ![d] = View(u)]
  BY <1>0, MapStep
<1>2. CASE d \notin Bambu
  <2>1. LatestMap' = LatestMap /\ ShownMap' = ShownMap
    BY <1>1, <1>2 DEF LatestMap, ShownMap
  <2>. QED
    BY <2>1 DEF Cache!vars, LatestMap, ShownMap
<1>3. CASE d \in Bambu
  <2>0. LatestMap[d] = jobs[d].latest /\ ShownMap[d] = View(jobs[d])
    BY <1>3 DEF LatestMap, ShownMap
  <2>1. CASE u.latest = jobs[d].latest /\ View(u) = View(jobs[d])
    <3>1. LatestMap' = LatestMap /\ ShownMap' = ShownMap
      BY <1>1, <1>3, <2>1 DEF LatestMap, ShownMap
    <3>. QED
      BY <3>1 DEF Cache!vars, LatestMap, ShownMap
  <2>2. ASSUME jobs[d].latest <= u.latest, u.latest <= revision,
               LET t == history[u.latest][d]
               IN  \/ t = None /\ View(u) = None
                   \/ t # None /\ View(jobs[d]) # None /\ View(jobs[d]).task = t /\ View(u) = View(jobs[d])
                   \/ t # None /\ View(u) = [task |-> t, status |-> "loading"]
        PROVE  Cache!Next
    <3>1. u.latest \in 0..MaxRevision
      BY <1>0, <2>2, ServiceAssumption DEF TypeOK, DeviceState
    <3>2. Cache!Observe(d, u.latest)
      <4>1. CASE View(u) = View(jobs[d])
        <5>1. ShownMap' = ShownMap
          BY <1>1, <2>0, <4>1 DEF ShownMap
        <5>. QED
          BY <1>1, <2>0, <2>2, <4>1, <5>1 DEF Cache!Observe, LatestMap, ShownMap
      <4>2. CASE history[u.latest][d] = None /\ View(u) = None
        <5>1. ShownMap' = [ShownMap EXCEPT ![d] = None]
          BY <1>1, <4>2
        <5>. QED
          BY <1>1, <2>0, <2>2, <4>2, <5>1 DEF Cache!Observe, LatestMap, ShownMap
      <4>3. CASE /\ history[u.latest][d] # None
                 /\ View(u) = [task |-> history[u.latest][d], status |-> "loading"]
        <5>1. ShownMap' = [ShownMap EXCEPT ![d] = [task |-> history[u.latest][d],
                                                   status |-> "loading"]]
          BY <1>1, <4>3
        <5>. QED
          BY <1>1, <2>0, <2>2, <4>3, <5>1 DEF Cache!Observe, LatestMap, ShownMap
      <4>. QED
        BY <2>2, <4>1, <4>2, <4>3
    <3>. QED
      BY <1>3, <3>1, <3>2 DEF Cache!Next
  <2>3. ASSUME jobs[d].latest <= u.latest, u.latest <= revision,
               history[u.latest][d] # None,
               View(u) = [task |-> history[u.latest][d], status |-> "unavailable"]
        PROVE  Cache!Next
    <3>1. u.latest \in 0..MaxRevision
      BY <1>0, <2>3, ServiceAssumption DEF TypeOK, DeviceState
    <3>2. Cache!Refuse(d, u.latest)
      BY <1>1, <2>0, <2>3 DEF Cache!Refuse, LatestMap, ShownMap
    <3>. QED
      BY <1>3, <3>1, <3>2 DEF Cache!Next
  <2>4. ASSUME u.latest = jobs[d].latest,
               View(jobs[d]) # None, View(jobs[d]).status = "loading",
               NEW status \in Statuses, View(u) = [View(jobs[d]) EXCEPT !.status = status]
        PROVE  Cache!Next
    <3>1. LatestMap' = LatestMap
      BY <1>1, <2>0, <2>4 DEF LatestMap
    <3>2. ShownMap' = [ShownMap EXCEPT ![d] = [ShownMap[d] EXCEPT !.status = status]]
      BY <1>1, <2>0, <2>4
    <3>3. Cache!Answer(d, status)
      <4>1. ShownMap' = [ShownMap EXCEPT ![d].status = status]
        BY <3>2
      <4>. QED
        BY <2>0, <2>4, <3>1, <4>1 DEF Cache!Answer, LatestMap, ShownMap
    <3>. QED
      BY <1>3, <3>3 DEF Cache!Next, Statuses
  <2>. QED
    BY <1>3, <2>1, <2>2, <2>3, <2>4 DEF AllowedStep
<1>. QED
  BY <1>2, <1>3

\* A step that changes neither the source nor a device state is a stutter.
LEMMA StutterRefines ==
  ASSUME UNCHANGED <<revision, history, jobs>>
  PROVE  [Cache!Next]_(Cache!vars)
BY DEF Cache!vars, View

\* A change of the MQTT state is a change of the source.
LEMMA MutateRefines ==
  ASSUME TypeOK, NEW tasks \in [Bambu -> TaskOrNone], Mutate(tasks), UNCHANGED jobs
  PROVE  [Cache!Next]_(Cache!vars)
<1>1. Cache!Change
  BY DEF Mutate, Cache!Change, TaskOrNone, View
<1>. QED
  BY <1>1 DEF Cache!Next

\* A snapshot without a task that clears the device.
LEMMA ClearAllowed ==
  ASSUME NEW d \in Bambu, jobs[d] \in DeviceState, NEW r \in Nat, revision \in Nat,
         r <= revision, history[r][d] = None
  PROVE  AllowedStep(d, Clear(jobs[d], r))
<1>1. CASE IsOlder(jobs[d], r)
  BY <1>1, ClearFacts DEF AllowedStep
<1>2. CASE ~IsOlder(jobs[d], r)
  <2>1. /\ Clear(jobs[d], r) \in DeviceState
        /\ Clear(jobs[d], r).latest = r
        /\ View(Clear(jobs[d], r)) = None
    BY <1>2, ClearFacts DEF View
  <2>2. jobs[d].latest <= r
    BY <1>2 DEF IsOlder, DeviceState
  <2>. QED
    BY <2>1, <2>2 DEF AllowedStep
<1>. QED
  BY <1>1, <1>2

\* A snapshot with a task that schedules a job for it.
LEMMA ScheduleAllowed ==
  ASSUME NEW d \in Bambu, jobs[d] \in DeviceState, NEW job \in Job, revision \in Nat,
         KnownJob(job), job.device = d
  PROVE  AllowedStep(d, Schedule(jobs[d], job))
<1>1. CASE IsOlder(jobs[d], job.order)
  BY <1>1, ScheduleRecords DEF AllowedStep
<1>2. CASE ~IsOlder(jobs[d], job.order)
  <2>1. /\ Schedule(jobs[d], job).latest = job.order
        /\ jobs[d].latest <= job.order
    BY <1>2, ScheduleRecords DEF IsOlder, DeviceState, Job
  <2>2. /\ job.order <= revision
        /\ history[job.order][d] = job.task
        /\ job.task # None
    BY NoneAssumption DEF KnownJob, Job
  <2>3. \/ /\ View(Schedule(jobs[d], job)) = View(jobs[d])
           /\ View(jobs[d]) # None
           /\ View(jobs[d]).task = job.task
        \/ View(Schedule(jobs[d], job)) = [task |-> job.task, status |-> "loading"]
    BY <1>2, ScheduleView
  <2>. QED
    BY <2>1, <2>2, <2>3 DEF AllowedStep
<1>. QED
  BY <1>1, <1>2

\* A failure to enqueue that is noted.
LEMMA MarkEnqueueFailedAllowed ==
  ASSUME NEW d \in Bambu, jobs[d] \in DeviceState, NEW job \in Job, revision \in Nat,
         KnownJob(job), job.device = d
  PROVE  AllowedStep(d, MarkEnqueueFailed(jobs[d], job))
<1> DEFINE u == MarkEnqueueFailed(jobs[d], job)
<1>1. CASE IsOlder(jobs[d], job.order)
  BY <1>1, MarkEnqueueFailedFacts DEF AllowedStep
<1>2. CASE ~IsOlder(jobs[d], job.order)
  <2>1. /\ u.latest = job.order
        /\ jobs[d].latest <= job.order
    BY <1>2, MarkEnqueueFailedFacts DEF IsOlder, DeviceState, Job
  <2>2. /\ job.order <= revision
        /\ history[job.order][d] = job.task
        /\ job.task # None
    BY NoneAssumption DEF KnownJob, Job
  <2>3. /\ u \in DeviceState
        /\ u.cached = [task |-> job.task, status |-> "unavailable", retry |-> "waiting"]
    BY <1>2, MarkEnqueueFailedFacts
  <2>4. u.cached # None
    BY <2>3, NoneAssumption DEF CachedStatus, Job, Statuses, Retries
  <2>5. View(u) = [task |-> job.task, status |-> "unavailable"]
    BY <2>3, <2>4 DEF View
  <2>. QED
    BY <2>1, <2>2, <2>5 DEF AllowedStep
<1>. QED
  BY <1>1, <1>2

\* A fetch that ends.
LEMMA FinishAllowed ==
  ASSUME NEW d \in Bambu, jobs[d] \in DeviceState, Coherent(jobs[d]), NEW job \in Job,
         NEW o \in Outcomes \cup {Failure}
  PROVE  AllowedStep(d, Finish(jobs[d], job, o.status, o.retry))
<1> DEFINE s == jobs[d]  u == Finish(s, job, o.status, o.retry)
<1>1. /\ u \in DeviceState
      /\ u.latest = s.latest
      /\ \/ u.cached = s.cached
         \/ /\ s.cached # None
            /\ s.cached.status = "loading"
            /\ u.cached = [task |-> s.cached.task, status |-> o.status, retry |-> o.retry]
  BY FinishFacts, OutcomesTyped
<1>2. CASE u.cached = s.cached
  BY <1>1, <1>2 DEF AllowedStep, View
<1>3. CASE /\ s.cached # None
           /\ s.cached.status = "loading"
           /\ u.cached = [task |-> s.cached.task, status |-> o.status, retry |-> o.retry]
  <2>1. s.cached \in CachedStatus /\ o.status \in Statuses /\ o.retry \in Retries
    BY <1>3, OutcomesTyped DEF DeviceState
  <2>2. u.cached # None
    BY <1>3, <2>1, NoneAssumption DEF CachedStatus
  <2>3. View(u) = [task |-> s.cached.task, status |-> o.status]
    BY <1>3, <2>2 DEF View
  <2>4. View(s) = [task |-> s.cached.task, status |-> "loading"]
    BY <1>3 DEF View
  <2>5. View(s) # None
    BY <1>3, ViewFacts
  <2>. QED
    BY <1>1, <2>1, <2>3, <2>4, <2>5 DEF AllowedStep
<1>. QED
  BY <1>1, <1>2, <1>3

\* Every step of the service is a step of the abstract cache or a stutter.
LEMMA StepRefines == CacheInv /\ [Next]_vars => [Cache!Next]_(Cache!vars)
<1> SUFFICES ASSUME CacheInv, [Next]_vars PROVE [Cache!Next]_(Cache!vars)
  OBVIOUS
<1>0. TypeOK /\ JobsInv /\ CarriedInv /\ HolderHasJob /\ revision \in Nat
  BY DEF CacheInv, TypedInv, TypeOK
<1>d. \A d \in Devices : jobs[d] \in DeviceState /\ Coherent(jobs[d])
  BY <1>0 DEF TypeOK, JobsInv, DeviceInv
<1>b. Bambu \subseteq Devices
  BY DEF Bambu
<1> USE ProcsFacts DEF env, cache, local
<1>1. ASSUME Environment PROVE [Cache!Next]_(Cache!vars)
  <2>1. ASSUME NEW d \in Bambu, NEW t \in TaskOrNone, MqttReport(d, t)
        PROVE  [Cache!Next]_(Cache!vars)
    <3>1. [history[revision] EXCEPT ![d] = t] \in [Bambu -> TaskOrNone]
      BY <1>0 DEF TypeOK
    <3>. QED
      BY <1>0, <2>1, <3>1, MutateRefines DEF MqttReport
  <2>2. ASSUME NEW c \in Connections, ConnectionLost(c)
        PROVE  [Cache!Next]_(Cache!vars)
    <3>0. history[revision] \in [Bambu -> TaskOrNone] /\ None \in TaskOrNone
      BY <1>0 DEF TypeOK, TaskOrNone
    <3>1. [e \in Bambu |-> IF e \in c THEN None ELSE history[revision][e]] \in [Bambu -> TaskOrNone]
      BY <3>0
    <3>. QED
      BY <1>0, <2>2, <3>1, MutateRefines DEF ConnectionLost
  <2>3. ASSUME NEW d \in Devices, RetryElapses(d)
        PROVE  [Cache!Next]_(Cache!vars)
    <3>1. /\ RetryDue(jobs[d]) \in DeviceState
          /\ RetryDue(jobs[d]).latest = jobs[d].latest
          /\ View(RetryDue(jobs[d])) = View(jobs[d])
      BY <1>d, <2>3, RetryDueFacts DEF RetryElapses, View
    <3>2. AllowedStep(d, RetryDue(jobs[d]))
      BY <3>1 DEF AllowedStep
    <3>. QED
      BY <2>3, <3>1, <3>2, AllowedRefines DEF RetryElapses
  <2>. QED
    BY <1>1, <2>1, <2>2, <2>3, StutterRefines DEF Environment, MoonrakerReport, Announce
<1>2. ASSUME Refreshing PROVE [Cache!Next]_(Cache!vars)
  <2>1. ASSUME NEW p \in Refreshers, NEW d \in Devices, ClearDevice(p, d)
        PROVE  [Cache!Next]_(Cache!vars)
    <3>1. order[p] \in Nat /\ order[p] <= revision
      BY <1>0 DEF TypeOK, CarriedInv
    <3>2. d \in Bambu => AllowedStep(d, Clear(jobs[d], order[p]))
      BY <1>0, <1>d, <2>1, <3>1, ClearAllowed DEF ClearDevice, SnapshotTask, Bambu
    <3>3. Clear(jobs[d], order[p]) \in DeviceState
      BY <1>d, <3>1, ClearFacts
    <3>. QED
      BY <2>1, <3>2, <3>3, AllowedRefines DEF ClearDevice
  <2>2. ASSUME NEW p \in Refreshers, NEW d \in Devices, ScheduleDevice(p, d)
        PROVE  [Cache!Next]_(Cache!vars)
    <3>1. /\ NewJob(p, d) \in Job
          /\ KnownJob(NewJob(p, d))
          /\ NewJob(p, d).device = d
      BY <1>0, <2>2, NewJobTyped, NewJobKnown DEF ScheduleDevice
    <3>2. d \in Bambu => AllowedStep(d, Schedule(jobs[d], NewJob(p, d)))
      BY <1>0, <1>d, <3>1, ScheduleAllowed
    <3>3. Schedule(jobs[d], NewJob(p, d)) \in DeviceState
      BY <1>d, <3>1, ScheduleTyped
    <3>. QED
      BY <2>2, <3>2, <3>3, AllowedRefines DEF ScheduleDevice
  <2>. QED
    BY <1>2, <2>1, <2>2, StutterRefines
       DEF Refreshing, Subscribe, ReceiveChange, TakeMqttSnapshot, BeginRequest,
           TakeLiveSnapshot, Respond, DropRequest
<1>3. ASSUME Enqueueing PROVE [Cache!Next]_(Cache!vars)
  <2>1. ASSUME NEW p \in Procs, EnqueueFailed(p)
        PROVE  [Cache!Next]_(Cache!vars)
    <3>1. held[p] \in Job /\ KnownJob(held[p]) /\ held[p].device \in Devices
      BY <1>0, <2>1 DEF EnqueueFailed, TypeOK, HolderHasJob, CarriedInv, Job
    <3>2. PICK d \in Devices : d = held[p].device
      BY <3>1
    <3>3. d \in Bambu => AllowedStep(d, MarkEnqueueFailed(jobs[d], held[p]))
      BY <1>0, <1>d, <3>1, <3>2, MarkEnqueueFailedAllowed
    <3>4. MarkEnqueueFailed(jobs[d], held[p]) \in DeviceState
      BY <1>d, <3>1, MarkEnqueueFailedFacts
    <3>5. jobs' = [jobs EXCEPT ![d] = MarkEnqueueFailed(jobs[d], held[p])]
      BY <2>1, <3>2 DEF EnqueueFailed
    <3>6. UNCHANGED <<revision, history>>
      BY <2>1 DEF EnqueueFailed
    <3>. QED
      BY <3>3, <3>4, <3>5, <3>6, AllowedRefines
  <2>. QED
    BY <1>3, <2>1, StutterRefines DEF Enqueueing, EnqueueJob, QueueFull
<1>4. ASSUME Working PROVE [Cache!Next]_(Cache!vars)
  <2>1. ASSUME NEW i \in JobIds, StartJob(i)
        PROVE  [Cache!Next]_(Cache!vars)
    <3>1. held[i] \in Job /\ held[i].device \in Devices
      BY <1>0, <2>1 DEF StartJob, TypeOK, HolderHasJob, Job
    <3>2. PICK d \in Devices : d = held[i].device
      BY <3>1
    <3>3. /\ Start(jobs[d], held[i]) \in DeviceState
          /\ AllowedStep(d, Start(jobs[d], held[i]))
      BY <1>d, <3>1, StartFacts DEF AllowedStep, View
    <3>4. jobs' = [jobs EXCEPT ![d] = Start(jobs[d], held[i])]
      BY <2>1, <3>2 DEF StartJob
    <3>5. UNCHANGED <<revision, history>>
      BY <2>1 DEF StartJob
    <3>. QED
      BY <3>3, <3>4, <3>5, AllowedRefines
  <2>2. ASSUME NEW i \in JobIds, NEW o \in Outcomes \cup {Failure},
               held[i] \in Job,
               jobs' = [jobs EXCEPT ![held[i].device] = Finish(@, held[i], o.status, o.retry)],
               UNCHANGED <<revision, history>>
        PROVE  [Cache!Next]_(Cache!vars)
    <3>1. PICK d \in Devices : d = held[i].device
      BY <2>2 DEF Job
    <3>2. d \in Bambu => AllowedStep(d, Finish(jobs[d], held[i], o.status, o.retry))
      BY <1>d, <2>2, FinishAllowed
    <3>3. Finish(jobs[d], held[i], o.status, o.retry) \in DeviceState
      BY <1>d, <2>2, FinishFacts, OutcomesTyped
    <3>4. jobs' = [jobs EXCEPT ![d] = Finish(jobs[d], held[i], o.status, o.retry)]
      BY <2>2, <3>1
    <3>. QED
      BY <2>2, <3>2, <3>3, <3>4, AllowedRefines
  <2>3. ASSUME NEW i \in JobIds, NEW outcome \in Outcomes, FinishFetch(i, outcome)
        PROVE  [Cache!Next]_(Cache!vars)
    <3>1. held[i] \in Job
      BY <1>0, <2>3 DEF FinishFetch, TypeOK, HolderHasJob
    <3>2. /\ jobs' = [jobs EXCEPT ![held[i].device] = Finish(@, held[i], outcome.status, outcome.retry)]
          /\ UNCHANGED <<revision, history>>
      BY <2>3 DEF FinishFetch
    <3>. QED
      BY <2>2, <3>1, <3>2
  <2>4. ASSUME NEW i \in JobIds, ReapPanicked(i)
        PROVE  [Cache!Next]_(Cache!vars)
    <3>1. held[i] \in Job
      BY <1>0, <2>4 DEF ReapPanicked, TypeOK, HolderHasJob
    <3>2. /\ jobs' = [jobs EXCEPT ![held[i].device] = Finish(@, held[i], Failure.status, Failure.retry)]
          /\ UNCHANGED <<revision, history>>
      BY <2>4 DEF ReapPanicked
    <3>. QED
      BY <2>2, <3>1, <3>2
  <2>. QED
    BY <1>4, <2>1, <2>3, <2>4, StutterRefines
       DEF Working, SpawnWorker, AcquirePermit, FallsSilent, WorkerPanics, WorkerCancelled
<1>5. ASSUME Stopping \/ UNCHANGED vars PROVE [Cache!Next]_(Cache!vars)
  BY <1>5, StutterRefines DEF Stopping, Shutdown, WatcherStops, vars
<1>. QED
  BY <1>1, <1>2, <1>3, <1>4, <1>5 DEF Next

\* The service starts as the abstract cache does.
LEMMA InitRefines == Init => Cache!Init
<1> SUFFICES ASSUME Init PROVE Cache!Init
  OBVIOUS
<1>1. \A d \in Bambu : jobs[d].latest = 0 /\ View(jobs[d]) = None
  BY DEF Init, Bambu, EmptyState, View
<1>. QED
  BY <1>1 DEF Init, Cache!Init

\* However many devices, tasks, requests, permits and revisions there are, and
\* whatever fails, panics or stops, the cache of the Bambu devices behaves as
\* ThumbnailCache says: it never returns to an older snapshot, and a status is
\* answered once and for the task it is about.
THEOREM ServiceImplementsCache == Spec => ImplementsCache
<1>1. Init /\ [][Next]_vars /\ []CacheInv => Cache!Spec
  BY InitRefines, StepRefines, PTL DEF Cache!Spec
<1>. QED
  BY <1>1, CacheInvariant, PTL DEF Spec, ImplementsCache

-----------------------------------------------------------------------------
(***************************************************************************)
(* A request is answered with a status that is at least as new as its own  *)
(* snapshot.  The latest order of a device never goes back, so it is       *)
(* enough that a request is past its refresh only when its own snapshot    *)
(* has been compared with that order.                                      *)
(***************************************************************************)
Latest(d) == jobs[d].latest

\* No step takes a device back to an older snapshot.
LEMMA LatestGrows ==
  CacheInv /\ [Next]_vars => \A d \in Devices : Latest(d) <= Latest(d)'
<1> SUFFICES ASSUME CacheInv, [Next]_vars PROVE \A d \in Devices : Latest(d) <= Latest(d)'
  OBVIOUS
<1>0. TypeOK /\ CarriedInv /\ HolderHasJob
  BY DEF CacheInv, TypedInv
<1>d. \A d \in Devices : jobs[d] \in DeviceState /\ Coherent(jobs[d]) /\ Latest(d) \in Nat
  BY DEF CacheInv, TypedInv, TypeOK, JobsInv, DeviceInv, DeviceState, Latest
<1>u. ASSUME UNCHANGED jobs PROVE \A d \in Devices : Latest(d) <= Latest(d)'
  BY <1>d, <1>u DEF Latest
<1>o. ASSUME NEW e \in Devices, NEW u, jobs' = [jobs EXCEPT ![e] = u],
             jobs[e].latest <= u.latest
      PROVE  \A d \in Devices : Latest(d) <= Latest(d)'
  BY <1>0, <1>d, <1>o DEF Latest, TypeOK
<1> USE ProcsFacts DEF env, cache, local
<1>1. ASSUME Environment PROVE \A d \in Devices : Latest(d) <= Latest(d)'
  <2>1. ASSUME NEW d \in Devices, RetryElapses(d)
        PROVE  \A e \in Devices : Latest(e) <= Latest(e)'
    <3>1. RetryDue(jobs[d]).latest = jobs[d].latest
      BY <1>d, <2>1, RetryDueFacts DEF RetryElapses
    <3>2. jobs' = [jobs EXCEPT ![d] = RetryDue(jobs[d])]
      BY <2>1 DEF RetryElapses
    <3>. QED
      BY <1>d, <1>o, <3>1, <3>2 DEF Latest
  <2>. QED
    BY <1>1, <1>u, <2>1 DEF Environment, MqttReport, ConnectionLost, MoonrakerReport, Announce
<1>2. ASSUME Refreshing PROVE \A d \in Devices : Latest(d) <= Latest(d)'
  <2>1. ASSUME NEW p \in Refreshers, NEW d \in Devices, ClearDevice(p, d)
        PROVE  \A e \in Devices : Latest(e) <= Latest(e)'
    <3>1. order[p] \in Nat
      BY <1>0 DEF TypeOK
    <3>2. jobs[d].latest <= Clear(jobs[d], order[p]).latest
      BY <1>d, <3>1, ClearFacts
    <3>3. jobs' = [jobs EXCEPT ![d] = Clear(jobs[d], order[p])]
      BY <2>1 DEF ClearDevice
    <3>. QED
      BY <1>o, <3>2, <3>3
  <2>2. ASSUME NEW p \in Refreshers, NEW d \in Devices, ScheduleDevice(p, d)
        PROVE  \A e \in Devices : Latest(e) <= Latest(e)'
    <3>1. NewJob(p, d) \in Job
      BY <1>0, <2>2, NewJobTyped DEF ScheduleDevice
    <3>2. jobs[d].latest <= Schedule(jobs[d], NewJob(p, d)).latest
      BY <1>d, <3>1, ScheduleRecords
    <3>3. jobs' = [jobs EXCEPT ![d] = Schedule(jobs[d], NewJob(p, d))]
      BY <2>2 DEF ScheduleDevice
    <3>. QED
      BY <1>o, <3>2, <3>3
  <2>. QED
    BY <1>2, <1>u, <2>1, <2>2
       DEF Refreshing, Subscribe, ReceiveChange, TakeMqttSnapshot, BeginRequest,
           TakeLiveSnapshot, Respond, DropRequest
<1>3. ASSUME Enqueueing PROVE \A d \in Devices : Latest(d) <= Latest(d)'
  <2>1. ASSUME NEW p \in Procs, EnqueueFailed(p)
        PROVE  \A e \in Devices : Latest(e) <= Latest(e)'
    <3>1. held[p] \in Job /\ held[p].device \in Devices
      BY <1>0, <2>1 DEF EnqueueFailed, TypeOK, HolderHasJob, Job
    <3>2. PICK d \in Devices : d = held[p].device
      BY <3>1
    <3>3. jobs[d].latest <= MarkEnqueueFailed(jobs[d], held[p]).latest
      BY <1>d, <3>1, MarkEnqueueFailedFacts
    <3>4. jobs' = [jobs EXCEPT ![d] = MarkEnqueueFailed(jobs[d], held[p])]
      BY <2>1, <3>2 DEF EnqueueFailed
    <3>. QED
      BY <1>o, <3>3, <3>4
  <2>. QED
    BY <1>3, <1>u, <2>1 DEF Enqueueing, EnqueueJob, QueueFull
<1>4. ASSUME Working PROVE \A d \in Devices : Latest(d) <= Latest(d)'
  <2>1. ASSUME NEW i \in JobIds, StartJob(i)
        PROVE  \A e \in Devices : Latest(e) <= Latest(e)'
    <3>1. held[i] \in Job /\ held[i].device \in Devices
      BY <1>0, <2>1 DEF StartJob, TypeOK, HolderHasJob, Job
    <3>2. PICK d \in Devices : d = held[i].device
      BY <3>1
    <3>3. Start(jobs[d], held[i]).latest = jobs[d].latest
      BY <1>d, <3>1, StartFacts
    <3>4. jobs' = [jobs EXCEPT ![d] = Start(jobs[d], held[i])]
      BY <2>1, <3>2 DEF StartJob
    <3>. QED
      BY <1>d, <1>o, <3>3, <3>4 DEF Latest
  <2>2. ASSUME NEW i \in JobIds, NEW o \in Outcomes \cup {Failure}, held[i] \in Job,
               jobs' = [jobs EXCEPT ![held[i].device] = Finish(@, held[i], o.status, o.retry)]
        PROVE  \A e \in Devices : Latest(e) <= Latest(e)'
    <3>1. PICK d \in Devices : d = held[i].device
      BY <2>2 DEF Job
    <3>2. Finish(jobs[d], held[i], o.status, o.retry).latest = jobs[d].latest
      BY <1>d DEF Finish, DeviceState
    <3>3. jobs' = [jobs EXCEPT ![d] = Finish(jobs[d], held[i], o.status, o.retry)]
      BY <2>2, <3>1
    <3>. QED
      BY <1>d, <1>o, <3>2, <3>3 DEF Latest
  <2>3. ASSUME NEW i \in JobIds, NEW outcome \in Outcomes, FinishFetch(i, outcome)
        PROVE  \A e \in Devices : Latest(e) <= Latest(e)'
    BY <1>0, <2>2, <2>3 DEF FinishFetch, TypeOK, HolderHasJob
  <2>4. ASSUME NEW i \in JobIds, ReapPanicked(i)
        PROVE  \A e \in Devices : Latest(e) <= Latest(e)'
    BY <1>0, <2>2, <2>4 DEF ReapPanicked, TypeOK, HolderHasJob
  <2>. QED
    BY <1>4, <1>u, <2>1, <2>3, <2>4
       DEF Working, SpawnWorker, AcquirePermit, FallsSilent, WorkerPanics, WorkerCancelled
<1>5. ASSUME Stopping \/ UNCHANGED vars PROVE \A d \in Devices : Latest(d) <= Latest(d)'
  BY <1>5, <1>u DEF Stopping, Shutdown, WatcherStops, vars
<1>. QED
  BY <1>1, <1>2, <1>3, <1>4, <1>5 DEF Next

\* A request under way has a device and refreshes no other; past its refresh
\* the device's cache is at least as new as the request's snapshot.
RequestInv(p) ==
  /\ pc[p] \in {"live", "apply", "send", "failed", "respond"} =>
       target[p] \in Devices /\ todo[p] \subseteq {target[p]}
  /\ pc[p] \in {"send", "failed", "respond"} =>
       todo[p] = {} /\ order[p] <= Latest(target[p])

FreshInv == CacheInv /\ \A p \in Requests : RequestInv(p)

\* A step that leaves a request where it is keeps what is known of it, for the
\* latest order of its device does not go back.
LEMMA SameRequest ==
  ASSUME CacheInv, [Next]_vars, NEW p \in Requests, RequestInv(p),
         pc'[p] = pc[p],
         pc[p] # "idle" => /\ target'[p] = target[p]
                           /\ todo'[p] \subseteq todo[p]
                           /\ order'[p] = order[p]
  PROVE  RequestInv(p)'
<1>1. \A d \in Devices : Latest(d) <= Latest(d)' /\ Latest(d) \in Nat /\ Latest(d)' \in Nat
  <2>1. TypeOK /\ TypeOK'
    BY NextTyped DEF CacheInv, TypedInv
  <2>. QED
    BY <2>1, LatestGrows DEF TypeOK, DeviceState, Latest
<1>2. order[p] \in Nat
  BY ProcsFacts DEF CacheInv, TypedInv, TypeOK
<1>3. CASE pc[p] \in {"send", "failed", "respond"}
  BY <1>1, <1>2, <1>3 DEF RequestInv
<1>4. CASE pc[p] \notin {"send", "failed", "respond"}
  BY <1>4 DEF RequestInv
<1>. QED
  BY <1>3, <1>4

\* The steps a request takes itself that refresh its device.
LEMMA RequestStep ==
  ASSUME FreshInv, [Next]_vars, NEW p \in Requests, NEW d \in Devices,
         \/ BeginRequest(p, d) \/ ClearDevice(p, d) \/ ScheduleDevice(p, d)
         \/ EnqueueJob(p) \/ QueueFull(p) \/ EnqueueFailed(p)
  PROVE  RequestInv(p)'
<1>0. /\ TypeOK /\ RequestInv(p) /\ order[p] \in Nat
      /\ p # Watcher /\ p \notin JobIds /\ p \in Procs /\ p \in Refreshers
      /\ jobs[d] \in DeviceState
  BY ProcsFacts DEF FreshInv, CacheInv, TypedInv, TypeOK
<1>1. pc \in [Procs -> RefresherStates \cup WorkerStates]
  BY <1>0 DEF TypeOK
<1>i. ASSUME pc'[p] = "idle" PROVE RequestInv(p)'
  BY <1>i DEF RequestInv
<1> USE DEF env, cache, local
<1>2. CASE BeginRequest(p, d)
  <2>1. target'[p] = d /\ todo'[p] = {d} /\ pc'[p] \in {"live", "apply"}
    BY <1>0, <1>1, <1>2 DEF BeginRequest, TypeOK
  <2>. QED
    BY <2>1 DEF RequestInv
<1>3. CASE ClearDevice(p, d)
  <2>1. pc[p] = "apply" /\ d = target[p] /\ todo[p] \ {d} = {}
    BY <1>0, <1>3 DEF ClearDevice, RequestInv
  <2>2. pc'[p] = "respond" /\ todo'[p] = {}
    BY <1>0, <1>1, <1>3, <2>1 DEF ClearDevice, AfterRefresh, TypeOK
  <2>3. target'[p] = d /\ order'[p] = order[p]
    BY <1>0, <1>3, <2>1, <2>2 DEF ClearDevice, Forget
  <2>4. order[p] <= Clear(jobs[d], order[p]).latest
    BY <1>0, ClearFacts
  <2>5. Latest(d)' = Clear(jobs[d], order[p]).latest
    BY <1>0, <1>3 DEF ClearDevice, Latest, TypeOK
  <2>. QED
    BY <2>2, <2>3, <2>4, <2>5 DEF RequestInv, Latest
<1>4. CASE ScheduleDevice(p, d)
  <2>1. pc[p] = "apply" /\ d = target[p] /\ todo[p] \ {d} = {}
    BY <1>0, <1>4 DEF ScheduleDevice, RequestInv
  <2>2. pc'[p] \in {"send", "respond"} /\ todo'[p] = {}
    BY <1>0, <1>1, <1>4, <2>1 DEF ScheduleDevice, AfterRefresh, TypeOK
  <2>3. target'[p] = d /\ order'[p] = order[p]
    BY <1>0, <1>4, <2>1, <2>2 DEF ScheduleDevice, Forget
  <2>4. NewJob(p, d) \in Job /\ NewJob(p, d).order = order[p]
    BY <1>0, <1>4, NewJobTyped DEF ScheduleDevice, NewJob
  <2>5. order[p] <= Schedule(jobs[d], NewJob(p, d)).latest
    BY <1>0, <2>4, ScheduleRecords
  <2>6. Latest(d)' = Schedule(jobs[d], NewJob(p, d)).latest
    BY <1>0, <1>4 DEF ScheduleDevice, Latest, TypeOK
  <2>. QED
    BY <2>2, <2>3, <2>5, <2>6 DEF RequestInv, Latest
<1>5. CASE EnqueueFailed(p)
  BY <1>0, <1>1, <1>5, <1>i DEF EnqueueFailed, AfterFailure
<1>6. CASE EnqueueJob(p)
  <2>1. pc[p] = "send" /\ todo[p] = {} /\ todo'[p] = {}
    BY <1>0, <1>6 DEF EnqueueJob, RequestInv
  <2>2. pc'[p] = "respond"
    BY <1>0, <1>1, <1>6, <2>1 DEF EnqueueJob, AfterSend, AfterRefresh
  <2>3. target'[p] = target[p] /\ order'[p] = order[p] /\ jobs' = jobs
    BY <1>0, <1>6, <2>2 DEF EnqueueJob, Forget
  <2>. QED
    BY <1>0, <2>1, <2>2, <2>3 DEF RequestInv, Latest
<1>7. CASE QueueFull(p)
  <2>1. /\ pc[p] = "send" /\ pc'[p] = "failed"
        /\ UNCHANGED <<todo, target, order, jobs>>
    BY <1>0, <1>1, <1>7 DEF QueueFull
  <2>. QED
    BY <1>0, <2>1 DEF RequestInv, Latest
<1>. QED
  BY <1>2, <1>3, <1>4, <1>5, <1>6, <1>7

\* Every other step leaves the request where it is.
LEMMA NextFresh == FreshInv /\ [Next]_vars => FreshInv'
<1> SUFFICES ASSUME FreshInv, [Next]_vars, NEW p \in Requests PROVE RequestInv(p)'
  BY NextCache DEF FreshInv
<1>0. /\ CacheInv /\ TypeOK /\ HolderHasJob /\ RequestInv(p)
      /\ p # Watcher /\ p \notin JobIds /\ p \in Procs /\ p \in Refreshers
      /\ pc \in [Procs -> RefresherStates \cup WorkerStates]
      /\ queue \in Seq(Job)
  BY ProcsFacts DEF FreshInv, CacheInv, TypedInv, TypeOK
<1>s. ASSUME pc'[p] = pc[p], todo'[p] \subseteq todo[p],
             \/ Forget
             \/ target'[p] = target[p] /\ order'[p] = order[p]
      PROVE  RequestInv(p)'
  <2>1. pc[p] # "idle" => target'[p] = target[p] /\ order'[p] = order[p]
    BY <1>0, <1>s DEF Forget
  <2>. QED
    BY <1>0, <1>s, <2>1, SameRequest
<1> USE ProcsFacts DEF env, cache, local
<1>1. ASSUME Environment PROVE RequestInv(p)'
  BY <1>1, <1>s DEF Environment, MqttReport, ConnectionLost, MoonrakerReport, Announce, RetryElapses
<1>2. ASSUME Refreshing PROVE RequestInv(p)'
  <2>1. ASSUME Subscribe \/ ReceiveChange \/ TakeMqttSnapshot PROVE RequestInv(p)'
    BY <1>0, <1>s, <2>1 DEF Subscribe, ReceiveChange, TakeMqttSnapshot, TypeOK
  <2>2. ASSUME NEW q \in Requests, NEW d \in Devices, BeginRequest(q, d) PROVE RequestInv(p)'
    <3>1. CASE q = p
      BY <2>2, <3>1, RequestStep
    <3>2. CASE q # p
      BY <1>0, <1>s, <2>2, <3>2 DEF BeginRequest, TypeOK
    <3>. QED
      BY <3>1, <3>2
  <2>3. ASSUME NEW q \in Refreshers, TakeLiveSnapshot(q) PROVE RequestInv(p)'
    <3>1. CASE q = p
      <4>1. /\ target'[p] = target[p] /\ todo'[p] = todo[p]
            /\ pc[p] = "live" /\ pc'[p] = "apply"
        BY <1>0, <2>3, <3>1 DEF TakeLiveSnapshot, TypeOK
      <4>. QED
        BY <1>0, <4>1 DEF RequestInv
    <3>2. CASE q # p
      BY <1>0, <1>s, <2>3, <3>2 DEF TakeLiveSnapshot, TypeOK
    <3>. QED
      BY <3>1, <3>2
  <2>4. ASSUME NEW q \in Refreshers, NEW d \in Devices, ClearDevice(q, d) PROVE RequestInv(p)'
    <3>1. CASE q = p
      BY <2>4, <3>1, RequestStep
    <3>2. CASE q # p
      BY <1>0, <1>s, <2>4, <3>2 DEF ClearDevice, TypeOK
    <3>. QED
      BY <3>1, <3>2
  <2>5. ASSUME NEW q \in Refreshers, NEW d \in Devices, ScheduleDevice(q, d) PROVE RequestInv(p)'
    <3>1. CASE q = p
      BY <2>5, <3>1, RequestStep
    <3>2. CASE q # p
      BY <1>0, <1>s, <2>5, <3>2 DEF ScheduleDevice, TypeOK
    <3>. QED
      BY <3>1, <3>2
  <2>6. ASSUME NEW q \in Requests, Respond(q) \/ DropRequest(q) PROVE RequestInv(p)'
    <3>1. CASE q = p
      BY <1>0, <2>6, <3>1 DEF Respond, DropRequest, RequestInv
    <3>2. CASE q # p
      BY <1>0, <1>s, <2>6, <3>2 DEF Respond, DropRequest, TypeOK
    <3>. QED
      BY <3>1, <3>2
  <2>. QED
    BY <1>2, <2>1, <2>2, <2>3, <2>4, <2>5, <2>6 DEF Refreshing
<1>3. ASSUME Enqueueing PROVE RequestInv(p)'
  <2>1. PICK q \in Procs : EnqueueJob(q) \/ QueueFull(q) \/ EnqueueFailed(q)
    BY <1>3 DEF Enqueueing
  <2>2. CASE q = p
    <3>1. CASE pc[p] \in {"send", "failed"}
      <4>1. target[p] \in Devices
        BY <1>0, <3>1 DEF RequestInv
      <4>. QED
        BY <2>1, <2>2, <4>1, RequestStep
    <3>. QED
      BY <2>1, <2>2, <3>1 DEF EnqueueJob, QueueFull, EnqueueFailed
  <2>3. CASE q # p
    BY <1>0, <1>s, <2>1, <2>3 DEF EnqueueJob, QueueFull, EnqueueFailed, TypeOK
  <2>. QED
    BY <2>2, <2>3
<1>4. ASSUME Working PROVE RequestInv(p)'
  <2>1. CASE SpawnWorker
    <3>1. Head(queue).id # p
      <4>1. queue # <<>>
        BY <2>1 DEF SpawnWorker
      <4>2. Head(queue) \in Job
        BY <1>0, <4>1, HeadTailProperties
      <4>. QED
        BY <1>0, <4>2 DEF Job
    <3>. QED
      BY <1>0, <1>s, <2>1, <3>1 DEF SpawnWorker, TypeOK
  <2>2. ASSUME NEW i \in JobIds,
               \/ StartJob(i) \/ AcquirePermit(i) \/ FallsSilent(i)
               \/ WorkerPanics(i) \/ WorkerCancelled(i)
        PROVE  RequestInv(p)'
    BY <1>0, <1>s, <2>2
       DEF StartJob, AcquirePermit, FallsSilent, WorkerPanics, WorkerCancelled, TypeOK
  <2>3. ASSUME NEW i \in JobIds, NEW outcome \in Outcomes, FinishFetch(i, outcome)
        PROVE  RequestInv(p)'
    BY <1>0, <1>s, <2>3 DEF FinishFetch, TypeOK
  <2>4. ASSUME NEW i \in JobIds, ReapPanicked(i) PROVE RequestInv(p)'
    BY <1>0, <1>s, <2>4 DEF ReapPanicked, TypeOK
  <2>. QED
    BY <1>4, <2>1, <2>2, <2>3, <2>4 DEF Working
<1>5. ASSUME Stopping \/ UNCHANGED vars PROVE RequestInv(p)'
  BY <1>0, <1>s, <1>5 DEF Stopping, Shutdown, WatcherStops, vars, TypeOK
<1>. QED
  BY <1>1, <1>2, <1>3, <1>4, <1>5 DEF Next

\* However many requests, refreshes and fetches interleave, a request never
\* answers with a status older than the snapshot it took itself.
THEOREM ServedStatusIsFresh == Spec => []ServedIsFresh
<1>1. Init => FreshInv
  <2> SUFFICES ASSUME Init PROVE FreshInv
    OBVIOUS
  <2>1. \A p \in Requests : pc[p] = "idle"
    BY ProcsFacts DEF Init
  <2>. QED
    BY <2>1, InitCache DEF FreshInv, RequestInv
<1>2. FreshInv => ServedIsFresh
  <2> SUFFICES ASSUME FreshInv, NEW p \in Requests, pc[p] = "respond"
               PROVE  jobs[target[p]].latest >= order[p]
    BY DEF ServedIsFresh
  <2>1. order[p] \in Nat /\ target[p] \in Devices /\ order[p] <= Latest(target[p])
    BY ProcsFacts DEF FreshInv, RequestInv, CacheInv, TypedInv, TypeOK
  <2>2. Latest(target[p]) \in Nat
    BY <2>1 DEF FreshInv, CacheInv, TypedInv, TypeOK, DeviceState, Latest
  <2>. QED
    BY <2>1, <2>2 DEF Latest
<1>. QED
  BY <1>1, <1>2, NextFresh, PTL DEF Spec

-----------------------------------------------------------------------------
(***************************************************************************)
(* The watcher is up to date when it waits and no message is under way.    *)
(* While one is, nothing need hold of it: it will refresh once more.       *)
(* Without one, no revision came after the snapshot it works from, so the  *)
(* devices it has done show that revision, and it does the others with it. *)
(***************************************************************************)

\* A change is still on its way to the watcher.
ChangeUnderWay == unsent # {} \/ backlog > 0

WatcherInv ==
  /\ pc[Watcher] = "idle" => todo[Watcher] = {}
  /\ ChangeUnderWay \/
       /\ pc[Watcher] = "live" => order[Watcher] = revision
       /\ pc[Watcher] \in {"idle", "apply", "send", "failed"} =>
            /\ todo[Watcher] # {} => order[Watcher] = revision
            /\ \A d \in Bambu \ todo[Watcher] : jobs[d].latest = revision

UpToDateInv == CacheInv /\ WatcherInv

\* A step that makes no revision leaves a device that shows the newest one there.
LEMMA LatestKeepsUp ==
  ASSUME CacheInv, [Next]_vars, UNCHANGED revision
  PROVE  \A d \in Bambu : jobs[d].latest = revision => jobs'[d].latest = revision
<1>1. CacheInv /\ CacheInv' /\ TypeOK /\ TypeOK'
  BY NextCache DEF CacheInv, TypedInv
<1>2. /\ revision \in Nat
      /\ \A d \in Devices : /\ Latest(d) \in Nat /\ Latest(d)' \in Nat
                            /\ Latest(d) <= Latest(d)' /\ Latest(d)' <= revision'
  BY <1>1, LatestGrows DEF CacheInv, JobsInv, DeviceInv, TypeOK, DeviceState, Latest
<1>. QED
  BY <1>2 DEF Latest, Bambu

\* A step of somebody else that makes no revision and receives no message.
LEMMA WatcherRests ==
  ASSUME UpToDateInv, [Next]_vars,
         pc'[Watcher] = pc[Watcher], todo'[Watcher] = todo[Watcher],
         Forget \/ order'[Watcher] = order[Watcher],
         UNCHANGED <<revision, unsent, backlog>>
  PROVE  WatcherInv'
<1>1. \A d \in Bambu : jobs[d].latest = revision => jobs'[d].latest = revision
  BY LatestKeepsUp DEF UpToDateInv
<1>2. pc[Watcher] = "idle" => todo[Watcher] = {}
  BY DEF UpToDateInv, WatcherInv
<1>3. pc[Watcher] # "idle" => order'[Watcher] = order[Watcher]
  BY ProcsFacts DEF Forget
<1>. QED
  BY <1>1, <1>2, <1>3 DEF UpToDateInv, WatcherInv, ChangeUnderWay

\* The watcher's own steps that refresh a device.
LEMMA WatcherRefreshes ==
  ASSUME UpToDateInv, NEW d \in Devices,
         ClearDevice(Watcher, d) \/ ScheduleDevice(Watcher, d)
  PROVE  WatcherInv'
<1>0. /\ TypeOK /\ Watcher \in Procs /\ Watcher \in Refreshers /\ Watcher \notin Requests
      /\ jobs[d] \in DeviceState /\ Latest(d) \in Nat /\ Latest(d) <= revision
      /\ order[Watcher] \in Nat /\ revision \in Nat
      /\ CacheInv /\ WatcherInv
  BY ProcsFacts DEF UpToDateInv, CacheInv, TypedInv, TypeOK, JobsInv, DeviceInv, DeviceState, Latest
<1> USE DEF env, cache, local
<1>1. /\ pc[Watcher] = "apply" /\ d \in todo[Watcher]
      /\ todo'[Watcher] = todo[Watcher] \ {d}
      /\ UNCHANGED <<revision, unsent, backlog>>
      /\ pc'[Watcher] \in {"send", AfterRefresh(Watcher, todo[Watcher] \ {d})}
  BY <1>0 DEF ClearDevice, ScheduleDevice, TypeOK
<1>2. pc'[Watcher] \in {"send", "apply", "idle"} /\ (pc'[Watcher] = "idle" => todo'[Watcher] = {})
  <2>1. CASE pc'[Watcher] = AfterRefresh(Watcher, todo[Watcher] \ {d})
    BY <1>1, <2>1 DEF AfterRefresh
  <2>2. CASE pc'[Watcher] = "send"
    BY <2>2
  <2>. QED
    BY <1>1, <2>1, <2>2
<1>3. todo'[Watcher] # {} => order'[Watcher] = order[Watcher] \/ pc'[Watcher] = "idle"
  BY <1>0 DEF ClearDevice, ScheduleDevice, Forget
<1>4. \A e \in Devices \ {d} : jobs'[e] = jobs[e]
  BY <1>0 DEF ClearDevice, ScheduleDevice, TypeOK
<1>5. order[Watcher] = revision => jobs'[d].latest = revision
  <2>1. CASE ClearDevice(Watcher, d)
    <3>1. jobs'[d] = Clear(jobs[d], order[Watcher])
      BY <1>0, <2>1 DEF ClearDevice, TypeOK
    <3>. QED
      BY <1>0, <3>1 DEF Clear, IsOlder, Remember, Later, DeviceState, Latest
  <2>2. CASE ScheduleDevice(Watcher, d)
    <3>1. jobs'[d] = Schedule(jobs[d], NewJob(Watcher, d))
      BY <1>0, <2>2 DEF ScheduleDevice, TypeOK
    <3>2. NewJob(Watcher, d).order = order[Watcher]
      BY DEF NewJob
    <3>. QED
      BY <1>0, <3>1, <3>2 DEF Schedule, IsOlder, Remember, Later, DeviceState, Latest
  <2>. QED
    BY <2>1, <2>2
<1>6. CASE ChangeUnderWay
  BY <1>1, <1>2, <1>6 DEF WatcherInv, ChangeUnderWay
<1>7. CASE ~ChangeUnderWay
  <2>1. order[Watcher] = revision /\ \A e \in Bambu \ todo[Watcher] : jobs[e].latest = revision
    BY <1>0, <1>1, <1>7 DEF WatcherInv
  <2>2. \A e \in Bambu \ todo'[Watcher] : jobs'[e].latest = revision
    BY <1>1, <1>4, <1>5, <2>1 DEF Bambu
  <2>. QED
    BY <1>1, <1>2, <1>3, <2>1, <2>2 DEF WatcherInv
<1>. QED
  BY <1>6, <1>7

\* The watcher's steps of the job queue: it goes on with the devices left.
LEMMA WatcherEnqueues ==
  ASSUME UpToDateInv, [Next]_vars,
         EnqueueJob(Watcher) \/ QueueFull(Watcher) \/ EnqueueFailed(Watcher)
  PROVE  WatcherInv'
<1>0. /\ TypeOK /\ Watcher \in Procs /\ Watcher \in Refreshers
      /\ Watcher \notin JobIds /\ Watcher \notin Requests /\ WatcherInv
  BY ProcsFacts DEF UpToDateInv, CacheInv, TypedInv
<1> USE DEF env, cache, local
<1>1. /\ pc[Watcher] \in {"send", "failed"}
      /\ UNCHANGED <<revision, unsent, backlog, todo>>
      /\ pc'[Watcher] \in {"failed", AfterRefresh(Watcher, todo[Watcher])}
  BY <1>0 DEF EnqueueJob, QueueFull, EnqueueFailed, AfterSend, AfterFailure, TypeOK
<1>2. pc'[Watcher] \in {"failed", "apply", "idle"} /\ (pc'[Watcher] = "idle" => todo'[Watcher] = {})
  <2>1. CASE pc'[Watcher] = AfterRefresh(Watcher, todo[Watcher])
    BY <1>1, <2>1 DEF AfterRefresh
  <2>2. CASE pc'[Watcher] = "failed"
    BY <2>2
  <2>. QED
    BY <1>1, <2>1, <2>2
<1>3. order'[Watcher] = order[Watcher] \/ pc'[Watcher] = "idle"
  BY <1>0 DEF EnqueueJob, QueueFull, EnqueueFailed, Forget
<1>4. \A d \in Bambu : jobs[d].latest = revision => jobs'[d].latest = revision
  BY <1>1, LatestKeepsUp DEF UpToDateInv
<1>. QED
  BY <1>0, <1>1, <1>2, <1>3, <1>4 DEF WatcherInv, ChangeUnderWay

\* Every step keeps the watcher up to date, or on its way to be.
LEMMA NextUpToDate == UpToDateInv /\ [Next]_vars => UpToDateInv'
<1> SUFFICES ASSUME UpToDateInv, [Next]_vars PROVE WatcherInv'
  BY NextCache DEF UpToDateInv
<1>0. /\ TypeOK /\ HolderHasJob /\ WatcherInv
      /\ Watcher \in Procs /\ Watcher \in Refreshers
      /\ Watcher \notin JobIds /\ Watcher \notin Requests
      /\ pc \in [Procs -> RefresherStates \cup WorkerStates]
      /\ queue \in Seq(Job)
  BY ProcsFacts DEF UpToDateInv, CacheInv, TypedInv, TypeOK
<1> USE DEF env, cache, local
<1>c. ASSUME ChangeUnderWay', pc'[Watcher] = pc[Watcher], todo'[Watcher] = todo[Watcher]
      PROVE  WatcherInv'
  BY <1>0, <1>c DEF WatcherInv
<1>1. ASSUME Environment PROVE WatcherInv'
  <2>1. ASSUME NEW d, NEW t, MqttReport(d, t) \/ MoonrakerReport(d, t)
        PROVE  WatcherInv'
    BY <1>c, <2>1 DEF MqttReport, MoonrakerReport, ChangeUnderWay
  <2>2. ASSUME NEW c \in Connections, ConnectionLost(c) PROVE WatcherInv'
    BY <1>c, <2>2, ConnectionAssumption DEF ConnectionLost, ChangeUnderWay
  <2>3. ASSUME NEW d \in Devices, Announce(d) PROVE WatcherInv'
    <3>1. CASE pc[Watcher] = "starting"
      BY <1>0, <2>3, <3>1 DEF Announce, WatcherInv
    <3>2. CASE pc[Watcher] # "starting"
      <4>1. backlog' > 0
        BY <1>0, <2>3, <3>2, ServiceAssumption DEF Announce, TypeOK
      <4>. QED
        BY <1>c, <2>3, <4>1 DEF Announce, ChangeUnderWay
    <3>. QED
      BY <3>1, <3>2
  <2>4. ASSUME NEW d \in Devices, RetryElapses(d) PROVE WatcherInv'
    BY <2>4, WatcherRests DEF RetryElapses
  <2>. QED
    BY <1>1, <2>1, <2>2, <2>3, <2>4 DEF Environment
<1>2. ASSUME Refreshing PROVE WatcherInv'
  <2>1. CASE Subscribe \/ ReceiveChange
    <3>1. pc'[Watcher] = "refresh"
      BY <1>0, <2>1 DEF Subscribe, ReceiveChange
    <3>. QED
      BY <3>1 DEF WatcherInv
  <2>2. CASE TakeMqttSnapshot
    <3>1. pc'[Watcher] = "live" /\ order'[Watcher] = revision'
      BY <1>0, <2>2 DEF TakeMqttSnapshot, TypeOK
    <3>. QED
      BY <3>1 DEF WatcherInv
  <2>3. ASSUME NEW p \in Requests, NEW d \in Devices, BeginRequest(p, d) PROVE WatcherInv'
    BY <1>0, <2>3, WatcherRests DEF BeginRequest, TypeOK
  <2>4. ASSUME NEW p \in Refreshers, TakeLiveSnapshot(p) PROVE WatcherInv'
    <3>1. CASE p = Watcher
      <4>1. /\ pc[Watcher] = "live" /\ pc'[Watcher] = "apply" /\ todo'[Watcher] = Devices
            /\ UNCHANGED <<revision, unsent, backlog, order>>
        BY <1>0, <2>4, <3>1 DEF TakeLiveSnapshot, TypeOK
      <4>. QED
        BY <1>0, <4>1 DEF WatcherInv, ChangeUnderWay, Bambu
    <3>2. CASE p # Watcher
      BY <1>0, <2>4, <3>2, WatcherRests DEF TakeLiveSnapshot, TypeOK
    <3>. QED
      BY <3>1, <3>2
  <2>5. ASSUME NEW p \in Refreshers, NEW d \in Devices, ClearDevice(p, d) \/ ScheduleDevice(p, d)
        PROVE  WatcherInv'
    <3>1. CASE p = Watcher
      BY <2>5, <3>1, WatcherRefreshes
    <3>2. CASE p # Watcher
      <4>1. /\ pc'[Watcher] = pc[Watcher] /\ todo'[Watcher] = todo[Watcher]
            /\ Forget /\ UNCHANGED <<revision, unsent, backlog>>
        BY <1>0, <2>5, <3>2 DEF ClearDevice, ScheduleDevice, TypeOK
      <4>. QED
        BY <4>1, WatcherRests
    <3>. QED
      BY <3>1, <3>2
  <2>6. ASSUME NEW p \in Requests, Respond(p) \/ DropRequest(p) PROVE WatcherInv'
    <3>1. /\ pc'[Watcher] = pc[Watcher] /\ todo'[Watcher] = todo[Watcher]
          /\ Forget /\ UNCHANGED <<revision, unsent, backlog>>
      BY <1>0, <2>6 DEF Respond, DropRequest, TypeOK
    <3>. QED
      BY <3>1, WatcherRests
  <2>. QED
    BY <1>2, <2>1, <2>2, <2>3, <2>4, <2>5, <2>6 DEF Refreshing
<1>3. ASSUME Enqueueing PROVE WatcherInv'
  <2>1. PICK p \in Procs : EnqueueJob(p) \/ QueueFull(p) \/ EnqueueFailed(p)
    BY <1>3 DEF Enqueueing
  <2>2. CASE p = Watcher
    BY <2>1, <2>2, WatcherEnqueues
  <2>3. CASE p # Watcher
    <3>1. /\ pc'[Watcher] = pc[Watcher] /\ todo'[Watcher] = todo[Watcher]
          /\ Forget \/ order' = order
          /\ UNCHANGED <<revision, unsent, backlog>>
      BY <1>0, <2>1, <2>3 DEF EnqueueJob, QueueFull, EnqueueFailed, TypeOK
    <3>. QED
      BY <3>1, WatcherRests
  <2>. QED
    BY <2>2, <2>3
<1>4. ASSUME Working PROVE WatcherInv'
  <2>1. CASE SpawnWorker
    <3>1. queue # <<>> /\ Head(queue) \in Job
      BY <1>0, <2>1, HeadTailProperties DEF SpawnWorker
    <3>2. Head(queue).id # Watcher
      BY <1>0, <3>1 DEF Job
    <3>. QED
      BY <1>0, <2>1, <3>2, WatcherRests DEF SpawnWorker
  <2>2. ASSUME NEW i \in JobIds,
               \/ StartJob(i) \/ AcquirePermit(i) \/ FallsSilent(i)
               \/ WorkerPanics(i) \/ WorkerCancelled(i)
        PROVE  WatcherInv'
    <3>1. /\ pc'[Watcher] = pc[Watcher]
          /\ UNCHANGED <<revision, unsent, backlog, order, todo>>
      BY <1>0, <2>2 DEF StartJob, AcquirePermit, FallsSilent, WorkerPanics, WorkerCancelled
    <3>. QED
      BY <3>1, WatcherRests
  <2>3. ASSUME NEW i \in JobIds, NEW outcome \in Outcomes, FinishFetch(i, outcome)
        PROVE  WatcherInv'
    <3>1. /\ pc'[Watcher] = pc[Watcher]
          /\ UNCHANGED <<revision, unsent, backlog, order, todo>>
      BY <1>0, <2>3 DEF FinishFetch
    <3>. QED
      BY <3>1, WatcherRests
  <2>4. ASSUME NEW i \in JobIds, ReapPanicked(i) PROVE WatcherInv'
    <3>1. /\ pc[Watcher] = "idle" /\ pc'[Watcher] \in {"idle", "send"}
          /\ UNCHANGED <<revision, unsent, backlog, order, todo>>
      BY <1>0, <2>4 DEF ReapPanicked, TypeOK
    <3>2. \A d \in Bambu : jobs[d].latest = revision => jobs'[d].latest = revision
      BY <3>1, LatestKeepsUp DEF UpToDateInv
    <3>. QED
      BY <1>0, <3>1, <3>2 DEF WatcherInv, ChangeUnderWay
  <2>. QED
    BY <1>4, <2>1, <2>2, <2>3, <2>4 DEF Working
<1>5. ASSUME Stopping PROVE WatcherInv'
  <2>1. pc'[Watcher] \in {"draining", "stopped"}
    BY <1>0, <1>5 DEF Stopping, Shutdown, WatcherStops
  <2>. QED
    BY <2>1 DEF WatcherInv
<1>6. ASSUME UNCHANGED vars PROVE WatcherInv'
  BY <1>6, WatcherRests DEF vars
<1>. QED
  BY <1>1, <1>2, <1>3, <1>4, <1>5, <1>6 DEF Next

\* Once every change is announced and received and the watcher waits, it has
\* brought the newest revision to the cache of every Bambu device, however much
\* it lagged: no change is lost on it.
THEOREM NoChangeIsLostOnTheWatcher == Spec => []WatcherIsUpToDate
<1>1. Init => UpToDateInv
  <2> SUFFICES ASSUME Init PROVE UpToDateInv
    OBVIOUS
  <2>1. pc[Watcher] = "starting"
    BY ProcsFacts DEF Init
  <2>. QED
    BY <2>1, InitCache DEF UpToDateInv, WatcherInv
<1>2. UpToDateInv => WatcherIsUpToDate
  <2>1. UpToDateInv => backlog \in Nat
    BY ServiceAssumption DEF UpToDateInv, CacheInv, TypedInv, TypeOK
  <2>. QED
    BY <2>1 DEF UpToDateInv, WatcherInv, ChangeUnderWay, WatcherIsUpToDate
<1>. QED
  BY <1>1, <1>2, NextUpToDate, PTL DEF Spec

-----------------------------------------------------------------------------
(***************************************************************************)
(* A fetch starts from the newest snapshot.  The worker holds a copy of    *)
(* the job that was queued, so the argument is about every copy under way: *)
(* a job whose snapshot is no longer the newest has another job waiting    *)
(* behind it, unless its fetch has begun.  The ids keep a job that waits   *)
(* apart from the copies of other jobs of its device.                      *)
(***************************************************************************)

\* The jobs some process holds or the queue does.
Carried == {held[p] : p \in {q \in Procs : held[q] # None}}
             \cup {queue[k] : k \in 1..Len(queue)}

\* The job that waits is of this device and of the newest snapshot, and it waits
\* behind a fetch only for another task.
WaitingInv(d, s) ==
  s.active # None =>
    /\ s.active.order <= s.latest
    /\ s.active.pending # None =>
         /\ s.active.pending.device = d
         /\ s.active.pending.order = s.latest
         /\ s.active.started => s.active.pending.task # s.active.task

\* No copy of the job that waits is under way; a copy of the active job, while
\* it has not started and nothing waits, is of the newest snapshot.
CopiesInv(d, s, copies) ==
  s.active # None =>
    \A j \in copies :
      j.device = d =>
        /\ s.active.pending # None => j.id # s.active.pending.id
        /\ (/\ d \in Bambu /\ j.id = s.active.id
            /\ ~s.active.started /\ s.active.pending = None)
             => j.order = s.latest

NewestInv == \A d \in Devices : WaitingInv(d, jobs[d]) /\ CopiesInv(d, jobs[d], Carried)

FetchInv == CacheInv /\ NewestInv

\* A covered snapshot replaces a job that has not started, or the one that waits;
\* otherwise it is the newest already, or the fetch it covers has begun.
LEMMA CoveredNewest ==
  ASSUME NEW d \in Devices, NEW s \in DeviceState, NEW job \in Job,
         Coherent(s), WaitingInv(d, s), s.active # None,
         ~IsOlder(s, job.order), Covers(s, job.task)
  PROVE  LET a == s.active  b == Refreshed(a, job)
         IN  \/ /\ b.pending = job /\ b.task = a.task /\ b.started = a.started
                /\ b.order <= job.order /\ b.id = a.id
                /\ a.started => a.task # job.task
             \/ b = a /\ job.order = s.latest
             \/ b = a /\ a.started /\ a.pending = None
<1> DEFINE a == s.active  b == Refreshed(a, job)
<1>1. /\ a \in ActiveJob /\ a.order \in Nat /\ job.order \in Nat /\ s.latest \in Nat
      /\ a.pending # None => a.pending \in Job /\ a.pending.order \in Nat
      /\ s.latest <= job.order /\ a.order <= s.latest
  BY DEF DeviceState, ActiveJob, Job, IsOlder, WaitingInv
<1>2. IF a.pending # None THEN a.pending.task = job.task ELSE a.task = job.task
  BY DEF Coherent, Shown, HasPending, Covers
<1>3. CASE \/ a.task = job.task /\ ~a.started /\ job.order > a.order
           \/ /\ a.task # job.task /\ a.pending # None
              /\ a.pending.task = job.task /\ job.order > a.pending.order
  <2>1. b = [a EXCEPT !.order = Later(a.order, job.order), !.pending = job]
    BY <1>3 DEF Refreshed
  <2>2. Later(a.order, job.order) <= job.order
    BY <1>1 DEF Later
  <2>3. /\ b.pending = job /\ b.task = a.task /\ b.started = a.started
        /\ b.order = Later(a.order, job.order) /\ b.id = a.id
    BY <1>1, <2>1 DEF ActiveJob
  <2>. QED
    BY <1>3, <2>2, <2>3
<1>4. CASE ~(\/ a.task = job.task /\ ~a.started /\ job.order > a.order
             \/ /\ a.task # job.task /\ a.pending # None
                /\ a.pending.task = job.task /\ job.order > a.pending.order)
  <2>1. b = a
    BY <1>4 DEF Refreshed
  <2>2. job.order = s.latest \/ (a.started /\ a.pending = None)
    <3>1. CASE a.pending = None
      BY <1>1, <1>2, <1>4, <3>1
    <3>2. CASE a.pending # None /\ a.task # job.task
      BY <1>1, <1>2, <1>4, <3>2 DEF WaitingInv
    <3>3. CASE a.pending # None /\ a.task = job.task
      BY <1>1, <1>2, <1>4, <3>3 DEF WaitingInv
    <3>. QED
      BY <3>1, <3>2, <3>3
  <2>. QED
    BY <2>1, <2>2
<1>. QED
  BY <1>3, <1>4

\* A snapshot that is not covered waits, or its task is that of the active job,
\* which has begun or is of the same revision.
LEMMA RedirectedNewest ==
  ASSUME NEW d \in Devices, NEW s \in DeviceState, NEW job \in Job,
         Coherent(s), WaitingInv(d, s), s.active # None,
         ~IsOlder(s, job.order), ~Covers(s, job.task)
  PROVE  LET a == s.active  b == Redirected(a, job)
         IN  /\ b.task = a.task /\ b.started = a.started /\ b.id = a.id
             /\ b.order <= job.order
             /\ \/ b.pending = job /\ (a.started => a.task # job.task)
                \/ b.pending = None /\ a.started
                \/ /\ b.pending = None /\ a.pending # None
                   /\ a.pending.order = job.order /\ a.pending.task # job.task
<1> DEFINE a == s.active  b == Redirected(a, job)
           supersedes == a.task # job.task \/ (~a.started /\ job.order > a.order)
<1>1. /\ a \in ActiveJob /\ a.order \in Nat /\ job.order \in Nat /\ s.latest \in Nat
      /\ s.latest <= job.order /\ a.order <= s.latest
  BY DEF DeviceState, ActiveJob, Job, IsOlder, WaitingInv
<1>2. IF a.pending # None THEN a.pending.task # job.task ELSE a.task # job.task
  BY DEF Coherent, Shown, HasPending, Covers, BlocksRefresh
<1>3. b = [a EXCEPT !.order = Later(a.order, job.order),
                    !.pending = IF supersedes THEN job ELSE None]
  BY DEF Redirected
<1>4. Later(a.order, job.order) <= job.order
  BY <1>1 DEF Later
<1>5. /\ b.task = a.task /\ b.started = a.started /\ b.id = a.id
      /\ b.order = Later(a.order, job.order)
      /\ b.pending = IF supersedes THEN job ELSE None
  BY <1>1, <1>3 DEF ActiveJob
<1>6. CASE supersedes
  BY <1>4, <1>5, <1>6
<1>7. CASE ~supersedes
  <2>1. a.started \/ /\ job.order = s.latest /\ a.pending # None
                     /\ a.pending.order = job.order /\ a.pending.task # job.task
    BY <1>1, <1>2, <1>7 DEF WaitingInv
  <2>. QED
    BY <1>4, <1>5, <1>7, <2>1
<1>. QED
  BY <1>6, <1>7

\* schedule, of a job whose id no copy has.  What waits for a Bambu device at the
\* same revision is for the same task.
LEMMA ScheduleNewest ==
  ASSUME NEW d \in Devices, NEW s \in DeviceState, NEW job \in Job, NEW copies,
         job.device = d, Coherent(s), WaitingInv(d, s), CopiesInv(d, s, copies),
         \A j \in copies : j.id # job.id,
         (/\ d \in Bambu /\ s.active # None /\ s.active.pending # None
          /\ s.active.pending.order = job.order)
           => s.active.pending.task = job.task
  PROVE  /\ WaitingInv(d, Schedule(s, job))
         /\ CopiesInv(d, Schedule(s, job),
                      IF HandsOut(s, job) THEN copies \cup {job} ELSE copies)
<1> DEFINE u == Schedule(s, job)  a == s.active
<1>0. s.latest \in Nat /\ job.order \in Nat /\ job # None
  BY NoneAssumption DEF DeviceState, Job
<1>1. CASE IsOlder(s, job.order)
  BY <1>1 DEF Schedule, HandsOut
<1>2. CASE ~IsOlder(s, job.order) /\ a = None /\ Covers(s, job.task)
  <2>1. u.active = None
    BY <1>2 DEF Schedule, DeviceState
  <2>. QED
    BY <2>1 DEF WaitingInv, CopiesInv
<1>3. CASE ~IsOlder(s, job.order) /\ a = None /\ ~Covers(s, job.task)
  <2>1. HandsOut(s, job)
    BY <1>3 DEF HandsOut
  <2>2. u.active = Unstarted(job) /\ u.latest = job.order
    BY <1>0, <1>3, ScheduleRecords DEF Schedule
  <2>. QED
    BY <1>0, <2>1, <2>2 DEF WaitingInv, CopiesInv, Unstarted
<1>4. CASE ~IsOlder(s, job.order) /\ a # None /\ Covers(s, job.task)
  <2>1. ~HandsOut(s, job)
    BY <1>4 DEF HandsOut
  <2>2. u.active = Refreshed(a, job) /\ u.latest = job.order
    BY <1>0, <1>4, ScheduleRecords DEF Schedule, DeviceState
  <2> DEFINE b == Refreshed(a, job)
  <2>3. \/ /\ b.pending = job /\ b.task = a.task /\ b.started = a.started
           /\ b.order <= job.order /\ b.id = a.id
           /\ a.started => a.task # job.task
        \/ b = a /\ job.order = s.latest
        \/ b = a /\ a.started /\ a.pending = None
    BY <1>4, CoveredNewest
  <2>4. s.latest <= job.order /\ a.order \in Nat /\ a.order <= s.latest
    BY <1>0, <1>4 DEF IsOlder, DeviceState, ActiveJob, WaitingInv
  <2> HIDE DEF u, b
  <2>. QED
    BY <1>0, <1>4, <2>1, <2>2, <2>3, <2>4 DEF WaitingInv, CopiesInv, u, b
<1>5. CASE ~IsOlder(s, job.order) /\ a # None /\ ~Covers(s, job.task)
  <2>1. ~HandsOut(s, job)
    BY <1>5 DEF HandsOut
  <2>2. u.active = Redirected(a, job) /\ u.latest = job.order
    BY <1>0, <1>5, ScheduleRecords DEF Schedule
  <2> DEFINE b == Redirected(a, job)
  <2>3. /\ b.task = a.task /\ b.started = a.started /\ b.id = a.id
        /\ b.order <= job.order
        /\ \/ b.pending = job /\ (a.started => a.task # job.task)
           \/ b.pending = None /\ a.started
           \/ /\ b.pending = None /\ a.pending # None
              /\ a.pending.order = job.order /\ a.pending.task # job.task
    BY <1>5, RedirectedNewest
  <2>4. b.pending = None => a.started \/ d \notin Bambu
    BY <1>0, <1>5, <2>3
  <2> HIDE DEF u, b
  <2>. QED
    BY <1>0, <2>1, <2>2, <2>3, <2>4 DEF WaitingInv, CopiesInv, u, b
<1>. QED
  BY <1>1, <1>2, <1>3, <1>4, <1>5

\* The job that waited becomes the active one, and goes under way itself.
LEMMA PromoteNewest ==
  ASSUME NEW d, NEW s, NEW u, NEW copies, WaitingInv(d, s), CopiesInv(d, s, copies),
         s.active # None, s.active.pending # None,
         u.active = Unstarted(s.active.pending), u.latest = s.latest,
         s.latest \in Nat
  PROVE  /\ WaitingInv(d, u)
         /\ CopiesInv(d, u, copies \cup {s.active.pending})
         /\ s.active.pending.device = d
BY DEF WaitingInv, CopiesInv, Unstarted

\* start: the job that waited is handed out, or the fetch begins.
LEMMA StartNewest ==
  ASSUME NEW d \in Devices, NEW s \in DeviceState, NEW job \in Job, NEW copies,
         WaitingInv(d, s), CopiesInv(d, s, copies)
  PROVE  LET u == Start(s, job)
             more == IF StartOutcome(s, job) = "pending" THEN {s.active.pending} ELSE {}
         IN  /\ WaitingInv(d, u)
             /\ CopiesInv(d, u, copies \cup more)
             /\ \A j \in more : j.device = d
<1>0. StartOutcome(s, job) \in {"stale", "pending", "fetch"} /\ s.latest \in Nat
  BY StartFacts DEF DeviceState
<1>1. CASE StartOutcome(s, job) = "pending"
  <2>1. s.active # None /\ s.active.pending # None
    BY <1>1, StartFacts DEF HasPending
  <2>2. Start(s, job).active = Unstarted(s.active.pending) /\ Start(s, job).latest = s.latest
    BY <1>1 DEF Start, DeviceState
  <2>. QED
    BY <1>0, <1>1, <2>1, <2>2, PromoteNewest
<1>2. CASE StartOutcome(s, job) = "fetch"
  <2>1. s.active \in ActiveJob /\ s.active.pending = None
    BY <1>2, OwnerFacts DEF StartOutcome, HasPending
  <2> DEFINE begun == [s.active EXCEPT !.started = TRUE]
  <2>2. begun.pending = None /\ begun.started = TRUE /\ begun.order = s.active.order
    BY <2>1 DEF ActiveJob
  <2>3. Start(s, job) = [s EXCEPT !.active = begun]
    BY <1>2 DEF Start
  <2>4. Start(s, job).active = begun /\ Start(s, job).latest = s.latest
    BY <2>3 DEF DeviceState
  <2>5. s.active # None
    BY <1>2, OwnerFacts DEF StartOutcome
  <2>. QED
    BY <1>2, <2>2, <2>4, <2>5 DEF WaitingInv, CopiesInv
<1>3. CASE StartOutcome(s, job) = "stale"
  BY <1>3 DEF Start
<1>. QED
  BY <1>0, <1>1, <1>2, <1>3

\* finish: the same, or no job is active.
LEMMA FinishNewest ==
  ASSUME NEW d \in Devices, NEW s \in DeviceState, NEW job \in Job, NEW copies,
         NEW status, NEW retry, WaitingInv(d, s), CopiesInv(d, s, copies)
  PROVE  LET u == Finish(s, job, status, retry)
             more == IF Promoted(s, job) # None THEN {Promoted(s, job)} ELSE {}
         IN  /\ WaitingInv(d, u)
             /\ CopiesInv(d, u, copies \cup more)
             /\ \A j \in more : j.device = d
<1>0. s.latest \in Nat
  BY DEF DeviceState
<1>1. CASE FinishOutcome(s, job) = "pending"
  <2>1. s.active # None /\ s.active.pending # None /\ Promoted(s, job) = s.active.pending
    BY <1>1, OwnerFacts DEF FinishOutcome, HasPending, Promoted
  <2>2. /\ Finish(s, job, status, retry).active = Unstarted(s.active.pending)
        /\ Finish(s, job, status, retry).latest = s.latest
    BY <1>1 DEF Finish, DeviceState
  <2>. QED
    BY <1>0, <2>1, <2>2, PromoteNewest
<1>2. CASE FinishOutcome(s, job) = "store"
  <2>1. Finish(s, job, status, retry).active = None /\ Promoted(s, job) = None
    BY <1>2 DEF Finish, DeviceState, Promoted
  <2>. QED
    BY <2>1 DEF WaitingInv, CopiesInv
<1>3. CASE FinishOutcome(s, job) \notin {"pending", "store"}
  <2>1. Finish(s, job, status, retry) = s /\ Promoted(s, job) = None
    BY <1>3 DEF Finish, Promoted
  <2>. QED
    BY <2>1
<1>. QED
  BY <1>1, <1>2, <1>3

\* What comes under way when a process takes `job` in hand, or nothing.
LEMMA CarriedInHand ==
  ASSUME TypeOK, NEW p \in Procs, NEW job, held' = [held EXCEPT ![p] = job],
         queue' = queue
  PROVE  Carried' \subseteq Carried \cup (IF job # None THEN {job} ELSE {})
BY DEF TypeOK, Carried

\* A step that changes no device state and adds no copy keeps the invariant.
LEMMA NoNewCopies ==
  ASSUME NewestInv, UNCHANGED jobs, Carried' \subseteq Carried
  PROVE  NewestInv'
BY DEF NewestInv, WaitingInv, CopiesInv

\* A step that leaves the records, the hands and the queue alone.
LEMMA NothingCarried ==
  ASSUME NewestInv, UNCHANGED <<jobs, held, queue>>
  PROVE  NewestInv'
BY DEF NewestInv, WaitingInv, CopiesInv, Carried

\* A step that changes one device state and adds copies of that device's jobs.
LEMMA OneDeviceNewest ==
  ASSUME NewestInv, TypeOK, NEW d \in Devices, NEW u, NEW more,
         jobs' = [jobs EXCEPT ![d] = u], Carried' \subseteq Carried \cup more,
         \A j \in more : j.device = d,
         WaitingInv(d, u), CopiesInv(d, u, Carried \cup more)
  PROVE  NewestInv'
<1>1. CopiesInv(d, u, Carried')
  BY DEF CopiesInv
<1>2. ASSUME NEW e \in Devices, e # d PROVE CopiesInv(e, jobs[e], Carried')
  BY <1>2 DEF NewestInv, CopiesInv
<1>3. \A e \in Devices : WaitingInv(e, jobs'[e]) /\ CopiesInv(e, jobs'[e], Carried')
  BY <1>1, <1>2 DEF NewestInv, TypeOK
<1>. QED
  BY <1>3 DEF NewestInv, WaitingInv, CopiesInv

\* A device that loses its active job, or keeps it and its newest order.
LEMMA QuietDeviceNewest ==
  ASSUME NewestInv, TypeOK, NEW d \in Devices, NEW u,
         jobs' = [jobs EXCEPT ![d] = u], Carried' \subseteq Carried,
         u.active = None \/ (u.active = jobs[d].active /\ u.latest = jobs[d].latest)
  PROVE  NewestInv'
<1>1. WaitingInv(d, u) /\ CopiesInv(d, u, Carried)
  BY DEF NewestInv, WaitingInv, CopiesInv
<1> DEFINE more == {}
<1>2. Carried \cup more = Carried /\ \A j \in more : j.device = d
  OBVIOUS
<1> HIDE DEF more
<1>3. CopiesInv(d, u, Carried \cup more) /\ Carried' \subseteq Carried \cup more
  BY <1>1, <1>2
<1>. QED
  BY <1>1, <1>2, <1>3, OneDeviceNewest

\* A new job has an id that no copy has, and at the same revision a Bambu device
\* had one task only.
LEMMA NewJobNewest ==
  ASSUME CacheInv, NEW p \in Refreshers, NEW d \in Devices, JobIds \ UsedIds # {},
         SnapshotTask(p, d) # None
  PROVE  /\ \A j \in Carried : j.id # NewJob(p, d).id
         /\ (/\ d \in Bambu /\ jobs[d].active # None /\ jobs[d].active.pending # None
             /\ jobs[d].active.pending.order = NewJob(p, d).order
             /\ jobs[d].active.pending.device = d)
              => jobs[d].active.pending.task = NewJob(p, d).task
<1>1. FreshId \notin UsedIds
  BY DEF FreshId
<1>2. \A j \in Carried : j.id \in UsedIds
  BY DEF Carried, UsedIds, CacheInv, TypedInv, TypeOK
<1>3. NewJob(p, d).id = FreshId
  BY DEF NewJob
<1>4. KnownJob(NewJob(p, d)) /\ NewJob(p, d).device = d
  BY NewJobKnown
<1>5. ASSUME jobs[d].active # None, jobs[d].active.pending # None
      PROVE  KnownJob(jobs[d].active.pending)
  BY <1>5 DEF CacheInv, JobsInv, DeviceInv, PendingOf
<1>. QED
  BY <1>1, <1>2, <1>3, <1>4, <1>5 DEF KnownJob

\* The environment changes no active job and no copy.
LEMMA EnvironmentNewest == FetchInv /\ Environment => NewestInv'
<1> SUFFICES ASSUME FetchInv, Environment PROVE NewestInv'
  OBVIOUS
<1>0. TypeOK /\ NewestInv
  BY DEF FetchInv, CacheInv, TypedInv
<1> USE DEF env, cache, local
<1>1. ASSUME NEW d \in Devices, RetryElapses(d) PROVE NewestInv'
  <2>1. RetryDue(jobs[d]).active = jobs[d].active /\ RetryDue(jobs[d]).latest = jobs[d].latest
    BY <1>0, <1>1, RetryDueFacts DEF RetryElapses, TypeOK
  <2>2. jobs' = [jobs EXCEPT ![d] = RetryDue(jobs[d])] /\ UNCHANGED <<held, queue>>
    BY <1>1 DEF RetryElapses
  <2>3. Carried' \subseteq Carried
    BY <2>2 DEF Carried
  <2>. QED
    BY <1>0, <2>1, <2>2, <2>3, QuietDeviceNewest
<1>2. CASE UNCHANGED <<jobs, held, queue>>
  BY <1>0, <1>2, NothingCarried
<1>. QED
  BY <1>1, <1>2 DEF Environment, MqttReport, ConnectionLost, MoonrakerReport, Announce

\* A refresh hands out a job with a new id, or lets it wait.
LEMMA RefreshingNewest == FetchInv /\ Refreshing => NewestInv'
<1> SUFFICES ASSUME FetchInv, Refreshing PROVE NewestInv'
  OBVIOUS
<1>0. TypeOK /\ NewestInv /\ CacheInv
  BY DEF FetchInv, CacheInv, TypedInv
<1> USE ProcsFacts DEF env, cache, local
<1>1. ASSUME NEW p \in Refreshers, NEW d \in Devices, ClearDevice(p, d) PROVE NewestInv'
  <2>1. jobs[d] \in DeviceState /\ order[p] \in Nat
    BY <1>0, ServiceAssumption DEF TypeOK
  <2>2. jobs' = [jobs EXCEPT ![d] = Clear(jobs[d], order[p])] /\ UNCHANGED <<held, queue>>
    BY <1>1 DEF ClearDevice
  <2>3. Carried' \subseteq Carried
    BY <2>2 DEF Carried
  <2>4. \/ Clear(jobs[d], order[p]).active = None
        \/ Clear(jobs[d], order[p]) = jobs[d]
    BY <2>1, ClearFacts
  <2>. QED
    BY <1>0, <2>2, <2>3, <2>4, QuietDeviceNewest
<1>2. ASSUME NEW p \in Refreshers, NEW d \in Devices, ScheduleDevice(p, d) PROVE NewestInv'
  <2> DEFINE job == NewJob(p, d)  s == jobs[d]  u == Schedule(s, job)
             more == IF HandsOut(s, job) THEN {job} ELSE {}
             handed == IF HandsOut(s, job) THEN job ELSE None
  <2>1. /\ job \in Job /\ job # None /\ s \in DeviceState
        /\ SnapshotTask(p, d) # None /\ JobIds \ UsedIds # {}
    BY <1>0, <1>2, NewJobTyped DEF ScheduleDevice, TypeOK
  <2>2. job.device = d /\ Coherent(s) /\ WaitingInv(d, s) /\ CopiesInv(d, s, Carried)
    BY <1>0, NewJobKnown DEF NewestInv, CacheInv, JobsInv, DeviceInv
  <2>3. /\ \A j \in Carried : j.id # job.id
        /\ (/\ d \in Bambu /\ s.active # None /\ s.active.pending # None
            /\ s.active.pending.order = job.order)
             => s.active.pending.task = job.task
    BY <1>0, <2>1, <2>2, NewJobNewest DEF WaitingInv
  <2>4. /\ WaitingInv(d, u)
        /\ CopiesInv(d, u, IF HandsOut(s, job) THEN Carried \cup {job} ELSE Carried)
    BY <2>1, <2>2, <2>3, ScheduleNewest
  <2>5. /\ jobs' = [jobs EXCEPT ![d] = u]
        /\ held' = [held EXCEPT ![p] = handed]
        /\ queue' = queue
    BY <1>2 DEF ScheduleDevice
  <2> HIDE DEF job, s, u
  <2>6. Carried' \subseteq Carried \cup more
    BY <1>0, <2>1, <2>5, CarriedInHand
  <2>7. CopiesInv(d, u, Carried \cup more) /\ \A j \in more : j.device = d
    BY <2>2, <2>4 DEF CopiesInv
  <2> HIDE DEF more
  <2>. QED
    BY <1>0, <2>4, <2>5, <2>6, <2>7, OneDeviceNewest
<1>3. ASSUME NEW p \in Requests, DropRequest(p) PROVE NewestInv'
  <2>1. held' = [held EXCEPT ![p] = None] /\ UNCHANGED <<jobs, queue>>
    BY <1>3 DEF DropRequest
  <2>2. Carried' \subseteq Carried
    BY <1>0, <2>1, CarriedInHand
  <2>. QED
    BY <1>0, <2>1, <2>2, NoNewCopies
<1>4. CASE UNCHANGED <<jobs, held, queue>>
  BY <1>0, <1>4, NothingCarried
<1>. QED
  BY <1>1, <1>2, <1>3, <1>4
     DEF Refreshing, Subscribe, ReceiveChange, TakeMqttSnapshot, BeginRequest,
         TakeLiveSnapshot, Respond

\* A job goes from a hand to the queue, or its failure ends the active job.
LEMMA EnqueueingNewest == FetchInv /\ Enqueueing => NewestInv'
<1> SUFFICES ASSUME FetchInv, NEW p \in Procs,
                    EnqueueJob(p) \/ QueueFull(p) \/ EnqueueFailed(p)
             PROVE  NewestInv'
  BY DEF Enqueueing
<1>0. TypeOK /\ NewestInv /\ HolderHasJob
  BY DEF FetchInv, CacheInv, TypedInv
<1> USE DEF env, cache, local
<1>1. CASE EnqueueJob(p)
  <2>1. held[p] # None /\ held[p] \in Job /\ queue \in Seq(Job)
    BY <1>0, <1>1 DEF EnqueueJob, HolderHasJob, TypeOK
  <2>2. /\ queue' = Append(queue, held[p]) /\ jobs' = jobs
        /\ held' = [held EXCEPT ![p] = None]
    BY <1>1 DEF EnqueueJob
  <2>3. ASSUME NEW j \in Carried' PROVE j \in Carried
    <3>1. CASE \E q \in Procs : held'[q] # None /\ j = held'[q]
      BY <1>0, <2>2, <3>1 DEF Carried, TypeOK
    <3>2. CASE \E k \in 1..Len(queue') : j = queue'[k]
      BY <2>1, <2>2, <3>2 DEF Carried
    <3>. QED
      BY <2>3, <3>1, <3>2 DEF Carried
  <2>. QED
    BY <1>0, <2>2, <2>3, NoNewCopies
<1>2. CASE QueueFull(p)
  BY <1>0, <1>2, NothingCarried DEF QueueFull
<1>3. CASE EnqueueFailed(p)
  <2> DEFINE d == held[p].device  u == MarkEnqueueFailed(jobs[d], held[p])
  <2>1. held[p] \in Job /\ d \in Devices /\ jobs[d] \in DeviceState
    BY <1>0, <1>3 DEF EnqueueFailed, HolderHasJob, TypeOK, Job
  <2>2. u.active = None \/ u = jobs[d]
    BY <2>1, MarkEnqueueFailedFacts
  <2>3. /\ jobs' = [jobs EXCEPT ![d] = u] /\ queue' = queue
        /\ held' = [held EXCEPT ![p] = None]
    BY <1>3 DEF EnqueueFailed
  <2> HIDE DEF d, u
  <2>4. Carried' \subseteq Carried
    BY <1>0, <2>3, CarriedInHand
  <2>. QED
    BY <1>0, <2>1, <2>2, <2>3, <2>4, QuietDeviceNewest
<1>. QED
  BY <1>1, <1>2, <1>3

\* A worker gets a copy from the queue, or the job that waited.
LEMMA WorkingNewest == FetchInv /\ Working => NewestInv'
<1> SUFFICES ASSUME FetchInv, Working PROVE NewestInv'
  OBVIOUS
<1>0. TypeOK /\ NewestInv /\ HolderHasJob
  BY DEF FetchInv, CacheInv, TypedInv
<1> USE ProcsFacts DEF env, cache, local
<1>1. CASE SpawnWorker
  <2>1. /\ Head(queue) \in Job /\ Tail(queue) \in Seq(Job)
        /\ Len(Tail(queue)) = Len(queue) - 1
        /\ \A k \in 1..Len(Tail(queue)) : Tail(queue)[k] = queue[k + 1]
        /\ Head(queue) = queue[1] /\ Len(queue) \in Nat \ {0}
    BY <1>0, <1>1, HeadTailProperties DEF TypeOK, SpawnWorker
  <2>2. /\ queue' = Tail(queue) /\ jobs' = jobs
        /\ held' = [held EXCEPT ![Head(queue).id] = Head(queue)]
    BY <1>1 DEF SpawnWorker
  <2>3. ASSUME NEW j \in Carried' PROVE j \in Carried
    <3>1. CASE \E q \in Procs : held'[q] # None /\ j = held'[q]
      <4>1. 1 \in 1..Len(queue)
        BY <2>1
      <4>2. \A q \in Procs : held'[q] \in {held[q], queue[1]}
        BY <1>0, <2>1, <2>2 DEF TypeOK
      <4>. QED
        BY <3>1, <4>1, <4>2 DEF Carried
    <3>2. CASE \E k \in 1..Len(queue') : j = queue'[k]
      <4>1. PICK k \in 1..Len(Tail(queue)) : j = queue[k + 1]
        BY <2>1, <2>2, <3>2
      <4>2. k + 1 \in 1..Len(queue)
        BY <2>1
      <4>. QED
        BY <4>1, <4>2 DEF Carried
    <3>. QED
      BY <2>3, <3>1, <3>2 DEF Carried
  <2>. QED
    BY <1>0, <2>2, <2>3, NoNewCopies
<1>2. ASSUME NEW i \in JobIds, StartJob(i) PROVE NewestInv'
  <2> DEFINE job == held[i]  d == job.device  s == jobs[d]  u == Start(s, job)
             more == IF StartOutcome(s, job) = "pending" THEN {s.active.pending} ELSE {}
             next == CASE StartOutcome(s, job) = "fetch" -> job
                       [] StartOutcome(s, job) = "pending" -> s.active.pending
                       [] StartOutcome(s, job) = "stale" -> None
  <2>1. job \in Job /\ job # None /\ d \in Devices /\ s \in DeviceState
    BY <1>0, <1>2 DEF TypeOK, StartJob, HolderHasJob, Job
  <2>2. WaitingInv(d, s) /\ CopiesInv(d, s, Carried)
    BY <1>0, <2>1 DEF NewestInv
  <2>3. WaitingInv(d, u) /\ CopiesInv(d, u, Carried \cup more) /\ \A j \in more : j.device = d
    BY <2>1, <2>2, StartNewest
  <2>4. /\ jobs' = [jobs EXCEPT ![d] = u]
        /\ held' = [held EXCEPT ![i] = next]
        /\ queue' = queue
    BY <1>2 DEF StartJob
  <2>5. next # None => next = job \/ next \in more
    BY <2>1, StartFacts
  <2>6. job \in Carried
    BY <2>1 DEF Carried
  <2> HIDE DEF next, d, s, job, u, more
  <2>7. Carried' \subseteq Carried \cup more
    <3>1. Carried' \subseteq Carried \cup (IF next # None THEN {next} ELSE {})
      BY <1>0, <2>4, CarriedInHand
    <3>. QED
      BY <2>5, <2>6, <3>1
  <2>. QED
    BY <1>0, <2>1, <2>3, <2>4, <2>7, OneDeviceNewest
<1>3. ASSUME NEW i \in JobIds, NEW outcome \in Outcomes, FinishFetch(i, outcome)
      PROVE  NewestInv'
  <2> DEFINE job == held[i]  d == job.device  s == jobs[d]  next == Promoted(s, job)
             u == Finish(s, job, outcome.status, outcome.retry)
             more == IF next # None THEN {next} ELSE {}
  <2>1. job \in Job /\ d \in Devices /\ s \in DeviceState
    BY <1>0, <1>3 DEF TypeOK, FinishFetch, HolderHasJob, Job
  <2>2. WaitingInv(d, s) /\ CopiesInv(d, s, Carried)
    BY <1>0, <2>1 DEF NewestInv
  <2>3. WaitingInv(d, u) /\ CopiesInv(d, u, Carried \cup more) /\ \A j \in more : j.device = d
    BY <2>1, <2>2, FinishNewest
  <2>4. /\ jobs' = [jobs EXCEPT ![d] = u]
        /\ held' = [held EXCEPT ![i] = next]
        /\ queue' = queue
    BY <1>3 DEF FinishFetch
  <2> HIDE DEF next, d, s, job, u
  <2>5. Carried' \subseteq Carried \cup more
    BY <1>0, <2>4, CarriedInHand
  <2> HIDE DEF more
  <2>. QED
    BY <1>0, <2>1, <2>3, <2>4, <2>5, OneDeviceNewest
<1>4. ASSUME NEW i \in JobIds, ReapPanicked(i) PROVE NewestInv'
  <2> DEFINE job == held[i]  d == job.device  s == jobs[d]  next == Promoted(s, job)
             u == Finish(s, job, Failure.status, Failure.retry)
             more == IF next # None THEN {next} ELSE {}
  <2>1. job \in Job /\ d \in Devices /\ s \in DeviceState
    BY <1>0, <1>4 DEF TypeOK, ReapPanicked, HolderHasJob, Job
  <2>2. WaitingInv(d, s) /\ CopiesInv(d, s, Carried)
    BY <1>0, <2>1 DEF NewestInv
  <2>3. WaitingInv(d, u) /\ CopiesInv(d, u, Carried \cup more) /\ \A j \in more : j.device = d
    BY <2>1, <2>2, FinishNewest
  <2>4. /\ jobs' = [jobs EXCEPT ![d] = u]
        /\ held' = [held EXCEPT ![i] = None, ![Watcher] = next]
        /\ queue' = queue
    BY <1>4 DEF ReapPanicked
  <2> HIDE DEF next, d, s, job, u
  <2>5. Carried' \subseteq Carried \cup more
    BY <1>0, <2>4 DEF Carried, TypeOK
  <2> HIDE DEF more
  <2>. QED
    BY <1>0, <2>1, <2>3, <2>4, <2>5, OneDeviceNewest
<1>5. ASSUME NEW i \in JobIds, WorkerCancelled(i) PROVE NewestInv'
  <2>1. held' = [held EXCEPT ![i] = None] /\ UNCHANGED <<jobs, queue>>
    BY <1>5 DEF WorkerCancelled
  <2>2. Carried' \subseteq Carried
    BY <1>0, <2>1, CarriedInHand
  <2>. QED
    BY <1>0, <2>1, <2>2, NoNewCopies
<1>6. CASE UNCHANGED <<jobs, held, queue>>
  BY <1>0, <1>6, NothingCarried
<1>. QED
  BY <1>1, <1>2, <1>3, <1>4, <1>5, <1>6 DEF Working, AcquirePermit, FallsSilent, WorkerPanics

\* Every step keeps the invariant.
LEMMA NextFetch == FetchInv /\ [Next]_vars => FetchInv'
<1> SUFFICES ASSUME FetchInv, [Next]_vars PROVE NewestInv'
  BY NextCache DEF FetchInv
<1>1. ASSUME Stopping \/ UNCHANGED vars PROVE NewestInv'
  BY <1>1, NothingCarried DEF Stopping, Shutdown, WatcherStops, vars, cache, FetchInv
<1>. QED
  BY <1>1, EnvironmentNewest, RefreshingNewest, EnqueueingNewest, WorkingNewest DEF Next

\* A worker goes from its start to its permit only by start, and then its copy is
\* that of the active job, which has not started and behind which nothing waits.
LEMMA FetchStep ==
  ASSUME FetchInv, [Next]_vars, NEW i \in JobIds,
         pc[i] = "start", pc'[i] = "permit", held[i].device \in Bambu
  PROVE  held[i].order = jobs[held[i].device].latest
<1>0. /\ TypeOK /\ NewestInv /\ HolderHasJob
      /\ i \in Procs /\ i \notin Refreshers /\ i # Watcher /\ i \notin Requests
      /\ pc \in [Procs -> RefresherStates \cup WorkerStates] /\ queue \in Seq(Job)
  BY ProcsFacts DEF FetchInv, CacheInv, TypedInv, TypeOK
<1> USE ProcsFacts DEF env, cache, local
<1>1. StartJob(i)
  <2>1. ~Environment /\ ~Stopping /\ ~UNCHANGED vars
    BY <1>0 DEF Environment, MqttReport, ConnectionLost, MoonrakerReport, Announce,
                RetryElapses, Stopping, Shutdown, WatcherStops, vars
  <2>2. ~Refreshing
    BY <1>0 DEF Refreshing, Subscribe, ReceiveChange, TakeMqttSnapshot, BeginRequest,
                TakeLiveSnapshot, ClearDevice, ScheduleDevice, Respond, DropRequest
  <2>3. ~Enqueueing
    BY <1>0 DEF Enqueueing, EnqueueJob, QueueFull, EnqueueFailed
  <2>4. Working
    BY <2>1, <2>2, <2>3 DEF Next
  <2>5. ~SpawnWorker
    BY <1>0 DEF SpawnWorker
  <2>6. ASSUME NEW k \in JobIds,
               \/ AcquirePermit(k) \/ FallsSilent(k) \/ WorkerPanics(k)
               \/ ReapPanicked(k) \/ WorkerCancelled(k)
               \/ \E outcome \in Outcomes : FinishFetch(k, outcome)
        PROVE  FALSE
    BY <1>0, <2>6
       DEF AcquirePermit, FallsSilent, WorkerPanics, ReapPanicked, WorkerCancelled, FinishFetch
  <2>7. ASSUME NEW k \in JobIds, k # i, StartJob(k) PROVE FALSE
    BY <1>0, <2>7 DEF StartJob
  <2>. QED
    BY <2>4, <2>5, <2>6, <2>7 DEF Working
<1> DEFINE job == held[i]  d == job.device  s == jobs[d]
<1>2. job \in Job /\ job # None /\ d \in Devices /\ s \in DeviceState
  BY <1>0, <1>1 DEF StartJob, HolderHasJob, TypeOK, Job
<1>3. StartOutcome(s, job) = "fetch"
  <2> DEFINE place == CASE StartOutcome(s, job) = "fetch" -> "permit"
                        [] StartOutcome(s, job) = "pending" -> "send"
                        [] StartOutcome(s, job) = "stale" -> "idle"
  <2>1. pc'[i] = place
    BY <1>0, <1>1 DEF StartJob
  <2>2. place = "permit"
    BY <2>1
  <2>3. StartOutcome(s, job) \in {"stale", "pending", "fetch"}
    BY <1>2, StartFacts
  <2>. QED
    BY <2>2, <2>3
<1>4. Owns(s, job) /\ ~s.active.started /\ s.active.pending = None
  BY <1>3 DEF StartOutcome, HasPending
<1>5. s.active # None /\ s.active.id = job.id
  BY <1>4 DEF Owns
<1>6. CopiesInv(d, s, Carried) /\ job \in Carried
  BY <1>0, <1>2 DEF NewestInv, Carried
<1>. QED
  BY <1>4, <1>5, <1>6 DEF CopiesInv

\* At first no device has an active job.
LEMMA InitFetch == Init => FetchInv
<1> SUFFICES ASSUME Init PROVE NewestInv
  BY InitCache DEF FetchInv
<1>1. \A d \in Devices : jobs[d].active = None
  BY DEF Init, EmptyState
<1>. QED
  BY <1>1 DEF NewestInv, WaitingInv, CopiesInv

\* However many snapshots overtake a job in the queue, the fetch of a Bambu device
\* starts from the report of the newest one its cache has seen.
THEOREM FetchesStartFromTheNewest == Spec => FetchStartsFromLatest
<1>1. FetchInv /\ [Next]_vars =>
        [\A i \in JobIds :
           (/\ pc[i] = "start" /\ pc'[i] = "permit"
            /\ held[i].device \in Bambu)
             => held[i].order = jobs[held[i].device].latest]_vars
  BY FetchStep
<1>. QED
  BY <1>1, InitFetch, NextFetch, PTL DEF Spec, FetchStartsFromLatest

-----------------------------------------------------------------------------
(***************************************************************************)
(* No active job is lost while there is room in the queue.  A worker takes *)
(* the place of the one that has its name, so this needs first that the    *)
(* ids of the jobs no worker has begun with are all different, and that    *)
(* none is the name of a worker; and that a fetch never ends, nor a job    *)
(* turns out to be stale, for which the device's record still waits.       *)
(***************************************************************************)

\* The process is about to put the job it holds into the queue, or to note that it
\* could not.
InHand(p) == pc[p] \in {"send", "failed"}

\* The jobs in the queue.
QueuedInv ==
  \A k \in 1..Len(queue) :
    /\ pc[queue[k].id] = "idle"
    /\ \A n \in 1..Len(queue) : queue[n].id = queue[k].id => n = k

\* Those about to be put there.
InHandInv ==
  \A p \in Procs : InHand(p) =>
    /\ pc[held[p].id] = "idle"
    /\ \A k \in 1..Len(queue) : queue[k].id # held[p].id
    /\ \A q \in Procs : InHand(q) /\ held[q].id = held[p].id => q = p

\* Those that wait behind an active job.
PendingInv ==
  \A d \in Devices : PendingOf(jobs[d]) # None =>
    /\ pc[PendingOf(jobs[d]).id] = "idle"
    /\ \A k \in 1..Len(queue) : queue[k].id # PendingOf(jobs[d]).id
    /\ \A p \in Procs : InHand(p) => held[p].id # PendingOf(jobs[d]).id
    /\ \A e \in Devices :
         PendingOf(jobs[e]) # None /\ PendingOf(jobs[e]).id = PendingOf(jobs[d]).id => e = d

UniqueInv == QueuedInv /\ InHandInv /\ PendingInv

\* The jobs no worker has begun are jobs.
LEMMA UnbegunTyped ==
  ASSUME TypedInv
  PROVE  /\ \A k \in 1..Len(queue) : queue[k] \in Job /\ queue[k].id \in JobIds
         /\ \A p \in Procs : InHand(p) => held[p] \in Job /\ held[p].id \in JobIds
         /\ \A d \in Devices : PendingOf(jobs[d]) # None =>
              PendingOf(jobs[d]) \in Job /\ PendingOf(jobs[d]).id \in JobIds
<1>1. /\ queue \in Seq(Job) /\ held \in [Procs -> Job \cup {None}]
      /\ \A p \in Procs : InHand(p) => held[p] # None
  BY DEF TypedInv, TypeOK, HolderHasJob, InHand
<1>2. \A d \in Devices : PendingOf(jobs[d]) # None => PendingOf(jobs[d]) \in Job
  BY DEF TypedInv, TypeOK, DeviceState, ActiveJob, PendingOf
<1>3. \A j \in Job : j.id \in JobIds
  BY DEF Job
<1>. QED
  BY <1>1, <1>2, <1>3

\* What is in hand but at p was in hand before; and no worker gets a name.
KeptInHand(p) == \A q \in Procs : q # p /\ InHand(q)' => InHand(q) /\ held'[q] = held[q]
KeptIdle == \A i \in JobIds : pc[i] = "idle" => pc'[i] = "idle"

\* A step that takes jobs away, or none, and gives no worker a name.
LEMMA FewerUnbegun ==
  ASSUME TypedInv, UniqueInv, queue' = queue,
         \A p \in Procs : InHand(p)' => InHand(p) /\ held'[p] = held[p],
         \A i \in JobIds : pc[i] = "idle" => pc'[i] = "idle",
         \A d \in Devices : PendingOf(jobs[d])' \in {None, PendingOf(jobs[d])}
  PROVE  UniqueInv'
<1>1. QueuedInv'
  BY UnbegunTyped DEF UniqueInv, QueuedInv
<1>2. InHandInv'
  BY UnbegunTyped DEF UniqueInv, InHandInv
<1>3. PendingInv'
  BY UnbegunTyped DEF UniqueInv, PendingInv
<1>. QED
  BY <1>1, <1>2, <1>3 DEF UniqueInv

\* The job that waited at d is taken in hand by p.
LEMMA PromotedUnbegun ==
  ASSUME TypedInv, UniqueInv, queue' = queue, NEW p \in Procs, NEW d \in Devices,
         ~InHand(p), PendingOf(jobs[d]) # None, PendingOf(jobs[d])' = None,
         held'[p] = PendingOf(jobs[d]),
         KeptInHand(p), KeptIdle,
         \A e \in Devices : e # d => PendingOf(jobs[e])' = PendingOf(jobs[e])
  PROVE  UniqueInv'
<1>1. QueuedInv'
  BY UnbegunTyped DEF KeptInHand, KeptIdle, UniqueInv, QueuedInv
<1>2. InHandInv'
  BY UnbegunTyped DEF KeptInHand, KeptIdle, UniqueInv, InHandInv, PendingInv
<1>3. PendingInv'
  BY UnbegunTyped DEF KeptInHand, KeptIdle, UniqueInv, PendingInv
<1>. QED
  BY <1>1, <1>2, <1>3 DEF UniqueInv

\* A worker's step on its device: p takes the job that waited, or takes nothing.
LEMMA WorkerUnbegun ==
  ASSUME TypedInv, UniqueInv, queue' = queue, NEW d \in Devices, NEW p \in Procs, ~InHand(p),
         \A e \in Devices : e # d => PendingOf(jobs[e])' = PendingOf(jobs[e]),
         KeptInHand(p), KeptIdle,
         \/ ~InHand(p)' /\ PendingOf(jobs[d])' \in {None, PendingOf(jobs[d])}
         \/ /\ held'[p] = PendingOf(jobs[d]) /\ PendingOf(jobs[d]) # None
            /\ PendingOf(jobs[d])' = None
  PROVE  UniqueInv'
<1>2. CASE ~InHand(p)' /\ PendingOf(jobs[d])' \in {None, PendingOf(jobs[d])}
  <2>1. \A q \in Procs : InHand(q)' => InHand(q) /\ held'[q] = held[q]
    BY <1>2 DEF KeptInHand
  <2>2. \A e \in Devices : PendingOf(jobs[e])' \in {None, PendingOf(jobs[e])}
    BY <1>2
  <2>. QED
    BY <2>1, <2>2, FewerUnbegun DEF KeptIdle
<1>3. CASE /\ held'[p] = PendingOf(jobs[d]) /\ PendingOf(jobs[d]) # None
           /\ PendingOf(jobs[d])' = None
  BY <1>3, PromotedUnbegun
<1>. QED
  BY <1>2, <1>3

\* A job with a new id is taken in hand by p, or waits at d.
LEMMA NewUnbegun ==
  ASSUME TypedInv, UniqueInv, queue' = queue, NEW p \in Procs, NEW d \in Devices,
         NEW job \in Job, ~InHand(p), pc[job.id] = "idle", p \notin JobIds,
         \A k \in 1..Len(queue) : queue[k].id # job.id,
         \A q \in Procs : InHand(q) => held[q].id # job.id,
         \A e \in Devices : PendingOf(jobs[e]) # None => PendingOf(jobs[e]).id # job.id,
         \A q \in Procs : q # p => pc'[q] = pc[q] /\ held'[q] = held[q],
         \A e \in Devices : e # d => PendingOf(jobs[e])' = PendingOf(jobs[e]),
         \/ held'[p] = job /\ PendingOf(jobs[d])' \in {None, PendingOf(jobs[d])}
         \/ ~InHand(p)' /\ PendingOf(jobs[d])' \in {None, PendingOf(jobs[d]), job}
  PROVE  UniqueInv'
<1>0. \A i \in JobIds : pc[i] = "idle" => pc'[i] = "idle"
  BY ProcsFacts
<1>1. \A q \in Procs : q # p => (InHand(q)' <=> InHand(q))
  BY DEF InHand
<1>2. job.id \in JobIds
  BY DEF Job
<1>3. QueuedInv'
  BY <1>0, UnbegunTyped DEF UniqueInv, QueuedInv
<1>4. InHandInv'
  BY <1>0, <1>1, <1>2, UnbegunTyped DEF UniqueInv, InHandInv
<1>5. PendingInv'
  <2>1. CASE held'[p] = job /\ PendingOf(jobs[d])' \in {None, PendingOf(jobs[d])}
    BY <1>0, <1>1, <1>2, <2>1, UnbegunTyped DEF UniqueInv, PendingInv
  <2>2. CASE ~InHand(p)' /\ PendingOf(jobs[d])' \in {None, PendingOf(jobs[d]), job}
    BY <1>0, <1>1, <1>2, <2>2, UnbegunTyped DEF UniqueInv, PendingInv
  <2>. QED
    BY <2>1, <2>2
<1>. QED
  BY <1>3, <1>4, <1>5 DEF UniqueInv

\* A retry time that passes changes no job.
LEMMA EnvironmentUnique == TypedInv /\ UniqueInv /\ Environment => UniqueInv'
<1> SUFFICES ASSUME TypedInv, UniqueInv, Environment PROVE UniqueInv'
  OBVIOUS
<1>0. TypeOK
  BY DEF TypedInv
<1>1. UNCHANGED <<queue, pc, held>>
  BY DEF Environment, MqttReport, ConnectionLost, MoonrakerReport, Announce, RetryElapses,
         cache, local
<1>2. \A d \in Devices : PendingOf(jobs[d])' = PendingOf(jobs[d])
  <2>1. ASSUME NEW d \in Devices, RetryElapses(d) PROVE \A e \in Devices : jobs'[e].active = jobs[e].active
    BY <1>0, <2>1, RetryDueFacts DEF RetryElapses, TypeOK
  <2>2. CASE UNCHANGED jobs
    BY <2>2
  <2>3. UNCHANGED jobs \/ \E d \in Devices : RetryElapses(d)
    BY DEF Environment, MqttReport, ConnectionLost, MoonrakerReport, Announce, cache
  <2>. QED
    BY <2>1, <2>2, <2>3 DEF PendingOf
<1>3. \A p \in Procs : InHand(p)' => InHand(p) /\ held'[p] = held[p]
  BY <1>1 DEF InHand
<1>. QED
  BY <1>1, <1>2, <1>3, FewerUnbegun

\* The id of a new job is the id of no job and the name of no worker.
LEMMA NewJobUnique ==
  ASSUME TypedInv, NEW p \in Refreshers, NEW d \in Devices, JobIds \ UsedIds # {}
  PROVE  LET id == NewJob(p, d).id
         IN  /\ pc[id] = "idle"
             /\ \A k \in 1..Len(queue) : queue[k].id # id
             /\ \A q \in Procs : InHand(q) => held[q].id # id
             /\ \A e \in Devices : PendingOf(jobs[e]) # None => PendingOf(jobs[e]).id # id
<1>1. FreshId \in JobIds /\ FreshId \notin UsedIds
  BY DEF FreshId
<1>2. NewJob(p, d).id = FreshId
  BY DEF NewJob
<1>3. /\ \A q \in Procs : InHand(q) => held[q] # None
      /\ DOMAIN queue = 1..Len(queue)
  BY DEF TypedInv, TypeOK, HolderHasJob, InHand
<1>4. \A e \in Devices : PendingOf(jobs[e]) # None =>
        jobs[e].active # None /\ HasPending(jobs[e]) /\ PendingOf(jobs[e]) = jobs[e].active.pending
  BY DEF PendingOf, HasPending
<1> HIDE DEF FreshId
<1>. QED
  BY <1>1, <1>2, <1>3, <1>4 DEF UsedIds

\* clear drops a job, and schedule takes a new one in hand or lets it wait.
LEMMA RefreshingUnique == TypedInv /\ UniqueInv /\ Refreshing => UniqueInv'
<1> SUFFICES ASSUME TypedInv, UniqueInv, Refreshing PROVE UniqueInv'
  OBVIOUS
<1>0. /\ TypeOK /\ pc \in [Procs -> RefresherStates \cup WorkerStates]
      /\ held \in [Procs -> Job \cup {None}]
  BY DEF TypedInv, TypeOK
<1> USE ProcsFacts DEF env, cache, local
<1>1. ASSUME NEW p \in Refreshers, NEW d \in Devices, ClearDevice(p, d) PROVE UniqueInv'
  <2>1. jobs[d] \in DeviceState /\ order[p] \in Nat
    BY <1>0, ServiceAssumption DEF TypeOK
  <2>2. /\ jobs' = [jobs EXCEPT ![d] = Clear(jobs[d], order[p])] /\ UNCHANGED <<held, queue>>
        /\ pc' = [pc EXCEPT ![p] = AfterRefresh(p, todo[p] \ {d})]
    BY <1>1 DEF ClearDevice
  <2>3. \A e \in Devices : PendingOf(jobs[e])' \in {None, PendingOf(jobs[e])}
    <3>1. PendingOf(Clear(jobs[d], order[p])) \in {None, PendingOf(jobs[d])}
      BY <2>1, ClearFacts DEF PendingOf
    <3>. QED
      BY <1>0, <2>2, <3>1 DEF TypeOK
  <2>4. AfterRefresh(p, todo[p] \ {d}) \notin {"send", "failed"}
    BY DEF AfterRefresh
  <2>5. \A q \in Procs : InHand(q)' => InHand(q) /\ held'[q] = held[q]
    BY <1>0, <2>2, <2>4 DEF InHand
  <2>6. \A i \in JobIds : pc'[i] = pc[i]
    BY <1>0, <2>2
  <2>. QED
    BY <2>2, <2>3, <2>5, <2>6, FewerUnbegun
<1>2. ASSUME NEW p \in Refreshers, NEW d \in Devices, ScheduleDevice(p, d) PROVE UniqueInv'
  <2> DEFINE job == NewJob(p, d)  s == jobs[d]  u == Schedule(s, job)
             handed == IF HandsOut(s, job) THEN job ELSE None
             next == IF HandsOut(s, job) THEN "send" ELSE AfterRefresh(p, todo[p] \ {d})
  <2>1. job \in Job /\ s \in DeviceState /\ pc[p] = "apply" /\ JobIds \ UsedIds # {}
    BY <1>0, <1>2, NewJobTyped DEF ScheduleDevice, TypeOK
  <2>2. /\ jobs' = [jobs EXCEPT ![d] = u] /\ queue' = queue
        /\ held' = [held EXCEPT ![p] = handed]
        /\ pc' = [pc EXCEPT ![p] = next]
    BY <1>2 DEF ScheduleDevice
  <2>3. PendingOf(u) \in {None, PendingOf(s), job}
    BY <2>1, SchedulePending
  <2>4. HandsOut(s, job) => PendingOf(u) = None
    BY <2>1, UnstartedFacts DEF HandsOut, Schedule, PendingOf, DeviceState
  <2>5. ~HandsOut(s, job) => next \notin {"send", "failed"}
    BY DEF AfterRefresh
  <2>6. /\ pc[job.id] = "idle"
        /\ \A k \in 1..Len(queue) : queue[k].id # job.id
        /\ \A q \in Procs : InHand(q) => held[q].id # job.id
        /\ \A e \in Devices : PendingOf(jobs[e]) # None => PendingOf(jobs[e]).id # job.id
    BY <2>1, NewJobUnique
  <2> HIDE DEF job, u, next
  <2>7. /\ PendingOf(jobs[d])' = PendingOf(u)
        /\ \A e \in Devices : e # d => PendingOf(jobs[e])' = PendingOf(jobs[e])
    BY <1>0, <2>2 DEF TypeOK
  <2>8. \/ held'[p] = job /\ PendingOf(jobs[d])' \in {None, PendingOf(jobs[d])}
        \/ ~InHand(p)' /\ PendingOf(jobs[d])' \in {None, PendingOf(jobs[d]), job}
    <3>1. CASE HandsOut(s, job)
      BY <1>0, <2>2, <2>4, <2>7, <3>1
    <3>2. CASE ~HandsOut(s, job)
      BY <1>0, <2>2, <2>3, <2>5, <2>7, <3>2 DEF InHand
    <3>. QED
      BY <3>1, <3>2
  <2>9. ~InHand(p) /\ \A q \in Procs : q # p => pc'[q] = pc[q] /\ held'[q] = held[q]
    BY <1>0, <2>1, <2>2 DEF InHand
  <2> HIDE DEF s, handed
  <2>. QED
    BY <2>1, <2>2, <2>6, <2>7, <2>8, <2>9, NewUnbegun
<1>3. ASSUME UNCHANGED <<queue, jobs>>,
             \A q \in Procs : InHand(q)' => InHand(q) /\ held'[q] = held[q],
             \A i \in JobIds : pc'[i] = pc[i]
      PROVE  UniqueInv'
  BY <1>3, FewerUnbegun
<1>4. ASSUME NEW p \in Requests, DropRequest(p) PROVE UniqueInv'
  BY <1>0, <1>3, <1>4 DEF DropRequest, InHand
<1>5. CASE Subscribe \/ ReceiveChange \/ TakeMqttSnapshot
  BY <1>0, <1>3, <1>5 DEF Subscribe, ReceiveChange, TakeMqttSnapshot, InHand
<1>6. ASSUME NEW p \in Refreshers,
             TakeLiveSnapshot(p) \/ (p \in Requests /\ Respond(p))
               \/ (p \in Requests /\ \E d \in Devices : BeginRequest(p, d))
      PROVE  UniqueInv'
  BY <1>0, <1>3, <1>6 DEF TakeLiveSnapshot, Respond, BeginRequest, InHand
<1>. QED
  BY <1>1, <1>2, <1>4, <1>5, <1>6 DEF Refreshing

\* try_send puts the job in hand into the queue, or it is dropped.
LEMMA EnqueueingUnique == TypedInv /\ UniqueInv /\ Enqueueing => UniqueInv'
<1> SUFFICES ASSUME TypedInv, UniqueInv, NEW p \in Procs,
                    EnqueueJob(p) \/ QueueFull(p) \/ EnqueueFailed(p)
             PROVE  UniqueInv'
  BY DEF Enqueueing
<1>0. /\ TypeOK /\ pc \in [Procs -> RefresherStates \cup WorkerStates]
      /\ held \in [Procs -> Job \cup {None}] /\ queue \in Seq(Job)
  BY DEF TypedInv, TypeOK
<1> USE ProcsFacts DEF env, cache, local
<1>1. CASE EnqueueJob(p)
  <2> DEFINE job == held[p]
  <2>1. InHand(p) /\ job \in Job /\ job.id \in JobIds
    BY <1>1, UnbegunTyped DEF EnqueueJob, InHand
  <2>2. /\ queue' = Append(queue, job) /\ jobs' = jobs
        /\ held' = [held EXCEPT ![p] = None]
        /\ pc' = [pc EXCEPT ![p] = AfterSend(p)]
    BY <1>1 DEF EnqueueJob
  <2>3. AfterSend(p) \notin {"send", "failed"} /\ (p \in JobIds => AfterSend(p) = "idle")
    BY DEF AfterSend, AfterRefresh
  <2>4. \A q \in Procs : InHand(q)' => q # p /\ InHand(q) /\ held'[q] = held[q]
    BY <1>0, <2>2, <2>3 DEF InHand
  <2>5. \A i \in JobIds : pc[i] = "idle" => pc'[i] = "idle"
    BY <1>0, <2>2, <2>3
  <2> HIDE DEF job
  <2>6. /\ Len(queue') = Len(queue) + 1 /\ Len(queue) \in Nat
        /\ \A k \in 1..Len(queue) : queue'[k] = queue[k]
        /\ queue'[Len(queue) + 1] = job
    BY <1>0, <2>1, <2>2
  <2>7. \A k \in 1..Len(queue') : \/ k \in 1..Len(queue) /\ queue'[k] = queue[k]
                                  \/ k = Len(queue) + 1 /\ queue'[k] = job
    BY <2>6
  <2>8. /\ pc[job.id] = "idle" /\ \A k \in 1..Len(queue) : queue[k].id # job.id
        /\ \A q \in Procs : InHand(q) /\ held[q].id = job.id => q = p
        /\ \A d \in Devices : PendingOf(jobs[d]) # None => PendingOf(jobs[d]).id # job.id
    BY <2>1 DEF UniqueInv, InHandInv, PendingInv, job
  <2>9. QueuedInv'
    BY <2>1, <2>5, <2>7, <2>8, UnbegunTyped DEF UniqueInv, QueuedInv
  <2>10. InHandInv'
    BY <2>1, <2>4, <2>5, <2>7, <2>8, UnbegunTyped DEF UniqueInv, InHandInv
  <2>11. PendingInv'
    BY <2>1, <2>2, <2>4, <2>5, <2>7, <2>8, UnbegunTyped DEF UniqueInv, PendingInv
  <2>. QED
    BY <2>9, <2>10, <2>11 DEF UniqueInv
<1>2. CASE QueueFull(p)
  <2>1. /\ UNCHANGED <<queue, jobs, held>> /\ pc[p] = "send"
        /\ pc' = [pc EXCEPT ![p] = "failed"]
    BY <1>2 DEF QueueFull
  <2>2. \A q \in Procs : InHand(q)' => InHand(q) /\ held'[q] = held[q]
    BY <1>0, <2>1 DEF InHand
  <2>3. \A i \in JobIds : pc[i] = "idle" => pc'[i] = "idle"
    BY <1>0, <2>1
  <2>. QED
    BY <2>1, <2>2, <2>3, FewerUnbegun
<1>3. CASE EnqueueFailed(p)
  <2> DEFINE d == held[p].device  u == MarkEnqueueFailed(jobs[d], held[p])
  <2>1. held[p] \in Job /\ d \in Devices /\ jobs[d] \in DeviceState /\ pc[p] = "failed"
    BY <1>0, <1>3, UnbegunTyped DEF EnqueueFailed, InHand, TypeOK, Job
  <2>2. PendingOf(u) \in {None, PendingOf(jobs[d])}
    BY <2>1, MarkEnqueueFailedFacts DEF PendingOf
  <2>3. /\ jobs' = [jobs EXCEPT ![d] = u] /\ queue' = queue
        /\ held' = [held EXCEPT ![p] = None]
        /\ pc' = [pc EXCEPT ![p] = AfterFailure(p)]
    BY <1>3 DEF EnqueueFailed
  <2> HIDE DEF d, u
  <2>4. \A e \in Devices : PendingOf(jobs[e])' \in {None, PendingOf(jobs[e])}
    BY <1>0, <2>1, <2>2, <2>3 DEF TypeOK
  <2>5. /\ AfterFailure(p) \notin {"send", "failed"}
        /\ p \in JobIds => AfterFailure(p) = "idle"
    BY DEF AfterFailure, AfterRefresh
  <2>6. \A q \in Procs : InHand(q)' => InHand(q) /\ held'[q] = held[q]
    BY <1>0, <2>3, <2>5 DEF InHand
  <2>7. \A i \in JobIds : pc[i] = "idle" => pc'[i] = "idle"
    BY <1>0, <2>3, <2>5
  <2>. QED
    BY <2>3, <2>4, <2>6, <2>7, FewerUnbegun
<1>. QED
  BY <1>1, <1>2, <1>3

\* start and finish hand back the job that waited, and nothing waits then.
LEMMA HandedBack ==
  ASSUME NEW s \in DeviceState, NEW job \in Job
  PROVE  /\ StartOutcome(s, job) = "pending" =>
              /\ PendingOf(s) # None /\ s.active # None /\ s.active.pending = PendingOf(s)
              /\ Start(s, job).active = Unstarted(PendingOf(s))
              /\ PendingOf(Start(s, job)) = None
         /\ \A status \in Statuses, retry \in Retries :
              Promoted(s, job) # None =>
                /\ Promoted(s, job) = PendingOf(s) /\ s.active # None
                /\ Finish(s, job, status, retry).active = Unstarted(PendingOf(s))
                /\ PendingOf(Finish(s, job, status, retry)) = None
<1>1. ASSUME StartOutcome(s, job) = "pending"
      PROVE  /\ PendingOf(s) # None /\ s.active # None /\ s.active.pending = PendingOf(s)
             /\ Start(s, job).active = Unstarted(PendingOf(s))
             /\ PendingOf(Start(s, job)) = None
  <2>1. s.active # None /\ s.active.pending \in Job /\ HasPending(s)
    BY <1>1, StartFacts
  <2>2. PendingOf(s) = s.active.pending /\ PendingOf(s) # None
    BY <2>1 DEF PendingOf, HasPending
  <2>3. Start(s, job).active = Unstarted(s.active.pending)
    BY <1>1 DEF Start, DeviceState
  <2>. QED
    BY <2>1, <2>2, <2>3, UnstartedFacts DEF PendingOf
<1>2. ASSUME NEW status \in Statuses, NEW retry \in Retries, Promoted(s, job) # None
      PROVE  /\ Promoted(s, job) = PendingOf(s) /\ s.active # None
             /\ Finish(s, job, status, retry).active = Unstarted(PendingOf(s))
             /\ PendingOf(Finish(s, job, status, retry)) = None
  <2>1. FinishOutcome(s, job) = "pending" /\ Promoted(s, job) = s.active.pending
    BY <1>2 DEF Promoted
  <2>2. s.active # None /\ s.active.pending \in Job
    BY <2>1, OwnerFacts DEF FinishOutcome
  <2>3. PendingOf(s) = s.active.pending
    BY <2>2 DEF PendingOf
  <2>4. Finish(s, job, status, retry).active = Unstarted(s.active.pending)
    BY <2>1 DEF Finish, DeviceState
  <2>. QED
    BY <2>1, <2>2, <2>3, <2>4, UnstartedFacts DEF PendingOf
<1>. QED
  BY <1>1, <1>2

\* The head of the queue goes to a worker that had none.
LEMMA SpawnUnique == TypedInv /\ UniqueInv /\ SpawnWorker => UniqueInv'
<1> SUFFICES ASSUME TypedInv, UniqueInv, SpawnWorker PROVE UniqueInv'
  OBVIOUS
<1>0. /\ TypeOK /\ pc \in [Procs -> RefresherStates \cup WorkerStates]
      /\ held \in [Procs -> Job \cup {None}] /\ queue \in Seq(Job)
  BY DEF TypedInv, TypeOK
<1> USE ProcsFacts DEF env, cache, local
<1>1. /\ Len(Tail(queue)) = Len(queue) - 1
      /\ \A k \in 1..Len(Tail(queue)) : Tail(queue)[k] = queue[k + 1]
      /\ Head(queue) = queue[1] /\ Len(queue) \in Nat \ {0}
  BY <1>0, HeadTailProperties DEF SpawnWorker
<1> DEFINE i == queue[1].id
<1>2. /\ queue' = Tail(queue) /\ UNCHANGED jobs
      /\ pc' = [pc EXCEPT ![i] = "start"]
      /\ held' = [held EXCEPT ![i] = queue[1]]
  BY <1>1 DEF SpawnWorker
<1>3. i \in JobIds /\ pc[i] = "idle"
  BY <1>1, UnbegunTyped DEF UniqueInv, QueuedInv
<1>4. ASSUME NEW k \in 1..Len(queue')
      PROVE  k + 1 \in 1..Len(queue) /\ queue'[k] = queue[k + 1] /\ queue'[k].id # i
  <2>1. k + 1 \in 1..Len(queue) /\ k + 1 # 1 /\ 1 \in 1..Len(queue) /\ queue'[k] = queue[k + 1]
    BY <1>1, <1>2
  <2>. QED
    BY <2>1 DEF UniqueInv, QueuedInv
<1>5. \A q \in Procs : InHand(q)' => q # i /\ InHand(q) /\ held'[q] = held[q] /\ held[q].id # i
  <2>1. \A q \in Procs : InHand(q)' => q # i /\ InHand(q) /\ held'[q] = held[q]
    BY <1>0, <1>2, <1>3 DEF InHand
  <2>2. 1 \in 1..Len(queue)
    BY <1>1
  <2>. QED
    BY <2>1, <2>2 DEF UniqueInv, InHandInv
<1>6. \A d \in Devices : PendingOf(jobs[d])' = PendingOf(jobs[d])
                         /\ (PendingOf(jobs[d]) # None => PendingOf(jobs[d]).id # i)
  <2>1. 1 \in 1..Len(queue)
    BY <1>1
  <2>. QED
    BY <1>2, <2>1 DEF UniqueInv, PendingInv
<1>7. \A n \in JobIds : n # i => pc'[n] = pc[n]
  BY <1>0, <1>2
<1> HIDE DEF i
<1>8. QueuedInv'
  <2> SUFFICES ASSUME NEW k \in 1..Len(queue')
               PROVE  /\ pc'[queue'[k].id] = "idle"
                      /\ \A n \in 1..Len(queue') : queue'[n].id = queue'[k].id => n = k
    BY DEF QueuedInv
  <2>1. pc'[queue'[k].id] = "idle"
    BY <1>4, <1>7, UnbegunTyped DEF UniqueInv, QueuedInv
  <2>2. ASSUME NEW n \in 1..Len(queue'), queue'[n].id = queue'[k].id PROVE n = k
    <3>1. n + 1 = k + 1
      BY <1>4, <2>2 DEF UniqueInv, QueuedInv
    <3>2. n \in Int /\ k \in Int
      OBVIOUS
    <3>. QED
      BY <3>1, <3>2
  <2>. QED
    BY <2>1, <2>2
<1>9. InHandInv'
  BY <1>4, <1>5, <1>7, UnbegunTyped DEF UniqueInv, InHandInv
<1>10. PendingInv'
  BY <1>4, <1>5, <1>6, <1>7, UnbegunTyped DEF UniqueInv, PendingInv
<1>. QED
  BY <1>8, <1>9, <1>10 DEF UniqueInv

\* A worker hands back the job that waited, at most.
LEMMA WorkingUnique == TypedInv /\ UniqueInv /\ Working => UniqueInv'
<1> SUFFICES ASSUME TypedInv, UniqueInv, Working PROVE UniqueInv'
  OBVIOUS
<1>0. /\ TypeOK /\ HolderHasJob /\ pc \in [Procs -> RefresherStates \cup WorkerStates]
      /\ held \in [Procs -> Job \cup {None}]
  BY DEF TypedInv, TypeOK
<1> USE ProcsFacts DEF env, cache, local
<1>1. ASSUME NEW i \in JobIds, StartJob(i) PROVE UniqueInv'
  <2> DEFINE job == held[i]  d == job.device  s == jobs[d]  u == Start(s, job)
             o == StartOutcome(s, job)
             next == CASE o = "fetch" -> job [] o = "pending" -> s.active.pending
                       [] o = "stale" -> None
             place == CASE o = "fetch" -> "permit" [] o = "pending" -> "send"
                        [] o = "stale" -> "idle"
  <2>1. /\ job \in Job /\ d \in Devices /\ s \in DeviceState
        /\ pc[i] = "start" /\ i \in Procs
    BY <1>0, <1>1 DEF TypeOK, StartJob, HolderHasJob, Job
  <2>2. /\ jobs' = [jobs EXCEPT ![d] = u] /\ queue' = queue
        /\ held' = [held EXCEPT ![i] = next] /\ pc' = [pc EXCEPT ![i] = place]
    BY <1>1 DEF StartJob
  <2>3. \/ place \in {"permit", "idle"} /\ PendingOf(u) \in {None, PendingOf(s)}
        \/ /\ place = "send" /\ next = PendingOf(s) /\ PendingOf(s) # None
           /\ PendingOf(u) = None
    <3>1. CASE o = "pending"
      BY <2>1, <3>1, HandedBack
    <3>2. CASE o \in {"fetch", "stale"}
      BY <2>1, <3>2, OthersPending
    <3>. QED
      BY <2>1, <3>1, <3>2, StartFacts
  <2> HIDE DEF job, d, s, u, next, place
  <2>4. /\ ~InHand(i) /\ (place \in {"permit", "idle"} => ~InHand(i)') /\ held'[i] = next
        /\ KeptInHand(i) /\ KeptIdle
    BY <1>0, <2>1, <2>2 DEF InHand, KeptInHand, KeptIdle
  <2>5. \/ ~InHand(i)' /\ PendingOf(u) \in {None, PendingOf(jobs[d])}
        \/ held'[i] = PendingOf(jobs[d]) /\ PendingOf(jobs[d]) # None /\ PendingOf(u) = None
    BY <2>3, <2>4 DEF s
  <2>6. PICK e \in Devices : e = d
    BY <2>1
  <2>7. /\ PendingOf(jobs[e])' = PendingOf(u)
        /\ \A n \in Devices : n # e => PendingOf(jobs[n])' = PendingOf(jobs[n])
    BY <1>0, <2>2, <2>6 DEF TypeOK
  <2>. QED
    BY <2>1, <2>2, <2>4, <2>5, <2>6, <2>7, WorkerUnbegun
<1>2. ASSUME NEW i \in JobIds, NEW outcome \in Outcomes, FinishFetch(i, outcome)
      PROVE  UniqueInv'
  <2> DEFINE job == held[i]  d == job.device  s == jobs[d]  next == Promoted(s, job)
             u == Finish(s, job, outcome.status, outcome.retry)
             place == IF next = None THEN "idle" ELSE "send"
  <2>1. /\ job \in Job /\ d \in Devices /\ s \in DeviceState
        /\ pc[i] \in {"fetch", "silent"} /\ i \in Procs
    BY <1>0, <1>2 DEF TypeOK, FinishFetch, HolderHasJob, Job
  <2>2. /\ jobs' = [jobs EXCEPT ![d] = u] /\ queue' = queue
        /\ held' = [held EXCEPT ![i] = next] /\ pc' = [pc EXCEPT ![i] = place]
    BY <1>2 DEF FinishFetch
  <2>3. outcome.status \in Statuses /\ outcome.retry \in Retries
    BY OutcomesTyped
  <2>4. \/ place = "idle" /\ PendingOf(u) \in {None, PendingOf(s)}
        \/ next = PendingOf(s) /\ PendingOf(s) # None /\ PendingOf(u) = None
    <3>1. CASE next = None
      BY <2>1, <2>3, <3>1, OthersPending, ServiceAssumption
    <3>2. CASE next # None
      BY <2>1, <2>3, <3>2, HandedBack
    <3>. QED
      BY <3>1, <3>2
  <2> HIDE DEF job, d, s, u, next, place
  <2>5. /\ ~InHand(i) /\ (place = "idle" => ~InHand(i)') /\ held'[i] = next
        /\ KeptInHand(i) /\ KeptIdle
    BY <1>0, <2>1, <2>2 DEF InHand, KeptInHand, KeptIdle
  <2>6. \/ ~InHand(i)' /\ PendingOf(u) \in {None, PendingOf(jobs[d])}
        \/ /\ held'[i] = PendingOf(jobs[d]) /\ PendingOf(jobs[d]) # None
           /\ PendingOf(u) = None
    BY <2>4, <2>5 DEF s
  <2>7. PICK e \in Devices : e = d
    BY <2>1
  <2>8. /\ PendingOf(jobs[e])' = PendingOf(u)
        /\ \A n \in Devices : n # e => PendingOf(jobs[n])' = PendingOf(jobs[n])
    BY <1>0, <2>2, <2>7 DEF TypeOK
  <2>. QED
    BY <2>1, <2>2, <2>5, <2>6, <2>7, <2>8, WorkerUnbegun
<1>3. ASSUME NEW i \in JobIds, ReapPanicked(i) PROVE UniqueInv'
  <2> DEFINE job == held[i]  d == job.device  s == jobs[d]  next == Promoted(s, job)
             u == Finish(s, job, Failure.status, Failure.retry)
             place == IF next = None THEN "idle" ELSE "send"
  <2>1. /\ job \in Job /\ d \in Devices /\ s \in DeviceState
        /\ pc[i] = "panicked" /\ pc[Watcher] = "idle"
    BY <1>0, <1>3 DEF TypeOK, ReapPanicked, HolderHasJob, Job
  <2>2. /\ jobs' = [jobs EXCEPT ![d] = u] /\ queue' = queue
        /\ held' = [held EXCEPT ![i] = None, ![Watcher] = next]
        /\ pc' = [pc EXCEPT ![i] = "idle", ![Watcher] = place]
    BY <1>3 DEF ReapPanicked
  <2>3. Failure.status \in Statuses /\ Failure.retry \in Retries
    BY DEF Failure, Statuses, Retries
  <2>4. \/ place = "idle" /\ PendingOf(u) \in {None, PendingOf(s)}
        \/ next = PendingOf(s) /\ PendingOf(s) # None /\ PendingOf(u) = None
    <3>1. CASE next = None
      BY <2>1, <2>3, <3>1, OthersPending, ServiceAssumption
    <3>2. CASE next # None
      BY <2>1, <2>3, <3>2, HandedBack
    <3>. QED
      BY <3>1, <3>2
  <2> HIDE DEF job, d, s, u, next, place
  <2>5. /\ ~InHand(Watcher) /\ (place = "idle" => ~InHand(Watcher)') /\ held'[Watcher] = next
        /\ KeptInHand(Watcher) /\ KeptIdle
    BY <1>0, <2>1, <2>2 DEF InHand, KeptInHand, KeptIdle
  <2>6. \/ ~InHand(Watcher)' /\ PendingOf(u) \in {None, PendingOf(jobs[d])}
        \/ /\ held'[Watcher] = PendingOf(jobs[d]) /\ PendingOf(jobs[d]) # None
           /\ PendingOf(u) = None
    BY <2>4, <2>5 DEF s
  <2>7. PICK e \in Devices : e = d
    BY <2>1
  <2>8. /\ PendingOf(jobs[e])' = PendingOf(u)
        /\ \A n \in Devices : n # e => PendingOf(jobs[n])' = PendingOf(jobs[n])
    BY <1>0, <2>2, <2>7 DEF TypeOK
  <2>. QED
    BY <2>1, <2>2, <2>5, <2>6, <2>7, <2>8, WorkerUnbegun
<1>4. ASSUME NEW i \in JobIds,
             \/ AcquirePermit(i) \/ FallsSilent(i) \/ WorkerPanics(i) \/ WorkerCancelled(i)
      PROVE  UniqueInv'
  <2>1. /\ UNCHANGED <<jobs, queue>> /\ pc[i] # "idle"
        /\ \A q \in Procs : q # i => pc'[q] = pc[q] /\ held'[q] = held[q]
        /\ pc'[i] \in {"fetch", "silent", "panicked", "idle"}
    BY <1>0, <1>4 DEF AcquirePermit, FallsSilent, WorkerPanics, WorkerCancelled
  <2>2. \A q \in Procs : InHand(q)' => InHand(q) /\ held'[q] = held[q]
    BY <2>1 DEF InHand
  <2>3. \A n \in JobIds : pc[n] = "idle" => pc'[n] = "idle"
    BY <2>1
  <2>. QED
    BY <2>1, <2>2, <2>3, FewerUnbegun
<1>. QED
  BY <1>1, <1>2, <1>3, <1>4, SpawnUnique DEF Working

\* Every step keeps the ids apart.
LEMMA NextUnique == TypedInv /\ UniqueInv /\ [Next]_vars => UniqueInv'
<1> SUFFICES ASSUME TypedInv, UniqueInv, Stopping \/ UNCHANGED vars PROVE UniqueInv'
  BY EnvironmentUnique, RefreshingUnique, EnqueueingUnique, WorkingUnique DEF Next
<1>0. pc \in [Procs -> RefresherStates \cup WorkerStates] /\ Watcher \in Procs /\ Watcher \notin JobIds
  BY ProcsFacts DEF TypedInv, TypeOK
<1>1. /\ UNCHANGED <<jobs, queue, held>>
      /\ \A q \in Procs : q # Watcher => pc'[q] = pc[q]
      /\ pc'[Watcher] \in {pc[Watcher], "draining", "stopped"}
  BY <1>0 DEF Stopping, Shutdown, WatcherStops, vars, cache
<1>2. \A q \in Procs : InHand(q)' => InHand(q) /\ held'[q] = held[q]
  BY <1>1 DEF InHand
<1>3. \A i \in JobIds : pc[i] = "idle" => pc'[i] = "idle"
  BY <1>0, <1>1, ProcsFacts
<1>. QED
  BY <1>1, <1>2, <1>3, FewerUnbegun

\* At first there is no job.
LEMMA InitUnique == Init => UniqueInv
<1> SUFFICES ASSUME Init PROVE UniqueInv
  OBVIOUS
<1>1. queue = <<>> /\ \A p \in Procs : ~InHand(p)
  BY DEF Init, InHand
<1>2. \A d \in Devices : PendingOf(jobs[d]) = None
  BY DEF Init, EmptyState, PendingOf
<1>. QED
  BY <1>1, <1>2 DEF UniqueInv, QueuedInv, InHandInv, PendingInv

-----------------------------------------------------------------------------
\* The jobs that a fetch has yet to start for, and those one has started for.
ComingStates == {"send", "start"}
RunningStates == {"permit", "fetch", "silent", "panicked"}
Coming == {queue[k] : k \in 1..Len(queue)}
            \cup {held[p] : p \in {q \in Procs : pc[q] \in ComingStates}}
Running == {held[p] : p \in {q \in Procs : pc[q] \in RunningStates}}

\* The active job of d is among those, with its task.
CopyOf(j, d, active) == j.device = d /\ j.task = active.task /\ j.id = active.id
OnItsWay(d) ==
  jobs[d].active # None =>
    \E j \in IF jobs[d].active.started THEN Running ELSE Coming : CopyOf(j, d, jobs[d].active)

WayInv == ~ShuttingDown => \A d \in Devices : OnItsWay(d)

\* As long as no try_send fails.
NoFailure == \A p \in Procs : pc[p] # "failed"

CarryInv == FetchInv /\ UniqueInv /\ NoFailure /\ WayInv

\* What processes other than x hold, and the queue, they hold still.
KeptHands(x) ==
  \A p \in Procs : p # x =>
    /\ pc[p] \in ComingStates => pc'[p] \in ComingStates /\ held'[p] = held[p]
    /\ pc[p] \in RunningStates => pc'[p] \in RunningStates /\ held'[p] = held[p]

\* Then only a job that x held can be gone.
LEMMA HandsKept ==
  ASSUME NEW x \in Procs, KeptHands(x),
         \A k \in 1..Len(queue) : queue[k] \in Coming'
  PROVE  /\ \A j \in Coming : j \in Coming' \/ (j = held[x] /\ pc[x] \in ComingStates)
         /\ \A j \in Running : j \in Running' \/ (j = held[x] /\ pc[x] \in RunningStates)
<1>1. ASSUME NEW p \in Procs, p # x, pc[p] \in ComingStates PROVE held[p] \in Coming'
  BY <1>1 DEF KeptHands, Coming
<1>2. ASSUME NEW p \in Procs, p # x, pc[p] \in RunningStates PROVE held[p] \in Running'
  BY <1>2 DEF KeptHands, Running
<1>3. \A j \in Coming : \/ \E k \in 1..Len(queue) : j = queue[k]
                        \/ \E p \in Procs : pc[p] \in ComingStates /\ j = held[p]
  BY DEF Coming
<1>4. \A j \in Running : \E p \in Procs : pc[p] \in RunningStates /\ j = held[p]
  BY DEF Running
<1>. QED
  BY <1>1, <1>2, <1>3, <1>4

\* A queue that is not touched loses no job.
LEMMA QueueStays == queue' = queue => \A k \in 1..Len(queue) : queue[k] \in Coming'
BY DEF Coming

\* The active job ends, or is the same and its copy is still there.
LEMMA StaysOnItsWay ==
  ASSUME NEW d \in Devices, OnItsWay(d),
         \/ jobs'[d].active = None
         \/ /\ jobs[d].active # None /\ jobs'[d].active.task = jobs[d].active.task
            /\ jobs'[d].active.id = jobs[d].active.id
            /\ jobs'[d].active.started = jobs[d].active.started,
         jobs[d].active # None =>
           /\ \A j \in Coming :
                CopyOf(j, d, jobs[d].active) /\ ~jobs[d].active.started => j \in Coming'
           /\ \A j \in Running :
                CopyOf(j, d, jobs[d].active) /\ jobs[d].active.started => j \in Running'
  PROVE  OnItsWay(d)'
<1> SUFFICES ASSUME jobs'[d].active # None
             PROVE  \E j \in IF jobs'[d].active.started THEN Running' ELSE Coming' :
                      CopyOf(j, d, jobs'[d].active)
  BY DEF OnItsWay, CopyOf
<1> DEFINE a == jobs[d].active  b == jobs'[d].active
<1>1. a # None /\ b.task = a.task /\ b.id = a.id /\ b.started = a.started
  OBVIOUS
<1>2. PICK j \in IF a.started THEN Running ELSE Coming : CopyOf(j, d, a)
  BY <1>1 DEF OnItsWay
<1>3. j \in IF b.started THEN Running' ELSE Coming'
  BY <1>1, <1>2
<1>4. CopyOf(j, d, b)
  BY <1>1, <1>2 DEF CopyOf
<1>. QED
  BY <1>3, <1>4

\* A step that takes no copy away, and no device a job that it has not.
LEMMA QuietWay ==
  ASSUME NEW d \in Devices, OnItsWay(d), Coming \subseteq Coming', Running \subseteq Running',
         \/ jobs'[d].active = None
         \/ /\ jobs[d].active # None /\ jobs'[d].active.task = jobs[d].active.task
            /\ jobs'[d].active.id = jobs[d].active.id
            /\ jobs'[d].active.started = jobs[d].active.started
  PROVE  OnItsWay(d)'
<1>1. jobs[d].active # None =>
        /\ \A j \in Coming :
             CopyOf(j, d, jobs[d].active) /\ ~jobs[d].active.started => j \in Coming'
        /\ \A j \in Running :
             CopyOf(j, d, jobs[d].active) /\ jobs[d].active.started => j \in Running'
  OBVIOUS
<1>. QED
  BY <1>1, StaysOnItsWay

\* A step of a worker is about its own device.
LEMMA OthersOnTheirWay ==
  ASSUME NEW x \in Procs, NEW d \in Devices, d # held[x].device, OnItsWay(d),
         jobs'[d] = jobs[d], queue' = queue, KeptHands(x)
  PROVE  OnItsWay(d)'
<1>1. /\ \A j \in Coming : j \in Coming' \/ (j = held[x] /\ pc[x] \in ComingStates)
      /\ \A j \in Running : j \in Running' \/ (j = held[x] /\ pc[x] \in RunningStates)
  BY HandsKept, QueueStays
<1>2. ~CopyOf(held[x], d, jobs[d].active)
  BY DEF CopyOf
<1>3. jobs[d].active # None =>
        /\ \A j \in Coming :
             CopyOf(j, d, jobs[d].active) /\ ~jobs[d].active.started => j \in Coming'
        /\ \A j \in Running :
             CopyOf(j, d, jobs[d].active) /\ jobs[d].active.started => j \in Running'
  BY <1>1, <1>2
<1>4. \/ jobs'[d].active = None
      \/ /\ jobs[d].active # None /\ jobs'[d].active.task = jobs[d].active.task
         /\ jobs'[d].active.id = jobs[d].active.id
         /\ jobs'[d].active.started = jobs[d].active.started
  OBVIOUS
<1>. QED
  BY <1>3, <1>4, StaysOnItsWay

\* The job that waited is taken in hand, and is the active one.
LEMMA PromotedOnItsWay ==
  ASSUME NEW d \in Devices, NEW p \in Procs, NEW job \in Job, job.device = d,
         jobs'[d].active = Unstarted(job), held'[p] = job, pc'[p] = "send"
  PROVE  OnItsWay(d)'
<1>1. job \in Coming'
  BY DEF Coming, ComingStates
<1>2. ~jobs'[d].active.started /\ CopyOf(job, d, jobs'[d].active)
  BY UnstartedFacts DEF CopyOf
<1>. QED
  BY <1>1, <1>2 DEF OnItsWay, CopyOf

\* schedule replaces no active job.
LEMMA ScheduleKeepsJob ==
  ASSUME NEW s \in DeviceState, NEW job \in Job, ~HandsOut(s, job)
  PROVE  LET u == Schedule(s, job)
         IN  \/ u.active = None
             \/ /\ s.active # None /\ u.active.task = s.active.task
                /\ u.active.id = s.active.id /\ u.active.started = s.active.started
<1> DEFINE a == s.active  u == Schedule(s, job)
<1>1. CASE IsOlder(s, job.order) \/ a = None
  BY <1>1 DEF HandsOut, Schedule, DeviceState
<1>2. CASE ~IsOlder(s, job.order) /\ a # None
  <2>1. a \in ActiveJob
    BY <1>2 DEF DeviceState
  <2>2. u.active = IF Covers(s, job.task) THEN Refreshed(a, job) ELSE Redirected(a, job)
    BY <1>2 DEF Schedule, DeviceState
  <2>3. /\ Refreshed(a, job).task = a.task /\ Refreshed(a, job).id = a.id
        /\ Refreshed(a, job).started = a.started
    BY <2>1 DEF Refreshed, ActiveJob
  <2>4. /\ Redirected(a, job).task = a.task /\ Redirected(a, job).id = a.id
        /\ Redirected(a, job).started = a.started
    BY <2>1 DEF Redirected, ActiveJob
  <2>. QED
    BY <1>2, <2>2, <2>3, <2>4
<1>. QED
  BY <1>1, <1>2

\* start without a job that waits: the fetch begins, or this is not the active job's first.
LEMMA StartKeepsJob ==
  ASSUME NEW s \in DeviceState, NEW job \in Job
  PROVE  /\ StartOutcome(s, job) = "fetch" =>
              /\ Owns(s, job) /\ Start(s, job).active # None
              /\ Start(s, job).active.task = job.task /\ Start(s, job).active.id = job.id
              /\ Start(s, job).active.started
         /\ StartOutcome(s, job) = "stale" =>
              Start(s, job) = s /\ (s.active.started \/ ~Owns(s, job))
<1>1. ASSUME StartOutcome(s, job) = "fetch"
      PROVE  /\ Owns(s, job) /\ Start(s, job).active # None
             /\ Start(s, job).active.task = job.task /\ Start(s, job).active.id = job.id
             /\ Start(s, job).active.started
  <2>1. Owns(s, job) /\ s.active \in ActiveJob
    BY <1>1, OwnerFacts DEF StartOutcome
  <2> DEFINE begun == [s.active EXCEPT !.started = TRUE]
  <2>2. begun.task = job.task /\ begun.id = job.id /\ begun.started /\ begun \in ActiveJob
    BY <2>1 DEF Owns, ActiveJob
  <2>3. begun # None
    BY <2>2, NoneAssumption
  <2>4. Start(s, job).active = begun
    BY <1>1 DEF Start, DeviceState
  <2>. QED
    BY <2>1, <2>2, <2>3, <2>4
<1>2. ASSUME StartOutcome(s, job) = "stale"
      PROVE  Start(s, job) = s /\ (s.active.started \/ ~Owns(s, job))
  <2>1. ~Owns(s, job) \/ s.active.started
    BY <1>2 DEF StartOutcome
  <2>. QED
    BY <1>2, <2>1 DEF Start
<1>. QED
  BY <1>1, <1>2

\* finish without a job that waits: no job is active, or it is another one.
LEMMA FinishKeepsJob ==
  ASSUME NEW s \in DeviceState, NEW job \in Job, NEW status, NEW retry,
         Promoted(s, job) = None
  PROVE  LET u == Finish(s, job, status, retry)
         IN  u.active = None \/ (u = s /\ ~Owns(s, job))
<1>1. CASE FinishOutcome(s, job) = "store"
  BY <1>1 DEF Finish, DeviceState
<1>2. CASE FinishOutcome(s, job) = "stale"
  BY <1>2 DEF Finish, FinishOutcome
<1>3. FinishOutcome(s, job) # "pending"
  <2>1. FinishOutcome(s, job) = "pending" => Owns(s, job) /\ HasPending(s)
    BY DEF FinishOutcome
  <2>. QED
    BY <2>1 DEF Promoted, HasPending
<1>4. FinishOutcome(s, job) \in {"stale", "pending", "store"}
  BY DEF FinishOutcome
<1>. QED
  BY <1>1, <1>2, <1>3, <1>4

\* A worker's job on its own device, when it is let go.
LEMMA LetGo ==
  ASSUME NEW x \in Procs, NEW d \in Devices, d = held[x].device, OnItsWay(d),
         jobs'[d].active = None \/ jobs'[d] = jobs[d], queue' = queue, KeptHands(x),
         jobs'[d].active # None =>
           \/ ~Owns(jobs[d], held[x])
           \/ jobs[d].active.started /\ pc[x] \in ComingStates
  PROVE  OnItsWay(d)'
<1> SUFFICES ASSUME jobs'[d].active # None PROVE OnItsWay(d)'
  BY DEF OnItsWay
<1>1. /\ \A j \in Coming : j \in Coming' \/ (j = held[x] /\ pc[x] \in ComingStates)
      /\ \A j \in Running : j \in Running' \/ (j = held[x] /\ pc[x] \in RunningStates)
  BY HandsKept, QueueStays
<1>2. jobs[d].active # None
  OBVIOUS
<1>3. CopyOf(held[x], d, jobs[d].active) => Owns(jobs[d], held[x])
  BY <1>2 DEF CopyOf, Owns
<1>4. pc[x] \in ComingStates => pc[x] \notin RunningStates
  BY DEF ComingStates, RunningStates
<1>5. /\ \A j \in Coming :
           CopyOf(j, d, jobs[d].active) /\ ~jobs[d].active.started => j \in Coming'
      /\ \A j \in Running :
           CopyOf(j, d, jobs[d].active) /\ jobs[d].active.started => j \in Running'
  BY <1>1, <1>3, <1>4
<1>. QED
  BY <1>2, <1>5, StaysOnItsWay

\* Every device's active job is on its way.
WayNow == \A d \in Devices : OnItsWay(d)

\* Nobody lets a job go.
LEMMA HandsStay ==
  ASSUME queue' = queue,
         \A p \in Procs :
           /\ pc[p] \in ComingStates => pc'[p] \in ComingStates /\ held'[p] = held[p]
           /\ pc[p] \in RunningStates => pc'[p] \in RunningStates /\ held'[p] = held[p]
  PROVE  Coming \subseteq Coming' /\ Running \subseteq Running'
BY DEF Coming, Running

\* A watcher that has left its loop does not come back.
LEMMA ShutdownIsFinal == TypedInv /\ [Next]_vars /\ ShuttingDown => ShuttingDown'
<1> SUFFICES ASSUME TypedInv, [Next]_vars, ShuttingDown PROVE ShuttingDown'
  OBVIOUS
<1>0. /\ TypeOK /\ pc \in [Procs -> RefresherStates \cup WorkerStates]
      /\ queue \in Seq(Job) /\ HolderHasJob
  BY DEF TypedInv, TypeOK
<1> USE ProcsFacts DEF ShuttingDown, env, cache, local
<1>1. CASE Environment
  BY <1>1 DEF Environment, MqttReport, ConnectionLost, MoonrakerReport, Announce, RetryElapses
<1>2. CASE Refreshing
  BY <1>0, <1>2 DEF Refreshing, Subscribe, ReceiveChange, TakeMqttSnapshot, BeginRequest,
       TakeLiveSnapshot, ClearDevice, ScheduleDevice, Respond, DropRequest
<1>3. CASE Enqueueing
  BY <1>0, <1>3 DEF Enqueueing, EnqueueJob, QueueFull, EnqueueFailed
<1>4. CASE Working
  BY <1>0, <1>4 DEF Working, SpawnWorker, StartJob, AcquirePermit, FallsSilent, FinishFetch, WorkerPanics,
       ReapPanicked, WorkerCancelled
<1>5. CASE Stopping
  BY <1>0, <1>5 DEF Stopping, Shutdown, WatcherStops
<1>6. CASE UNCHANGED vars
  BY <1>6 DEF vars
<1>. QED
  BY <1>1, <1>2, <1>3, <1>4, <1>5, <1>6 DEF Next

\* A retry time that passes leaves the active job as it is.
LEMMA EnvironmentWay == TypedInv /\ WayNow /\ Environment => WayNow'
<1> SUFFICES ASSUME TypedInv, WayNow, Environment, NEW d \in Devices PROVE OnItsWay(d)'
  BY DEF WayNow
<1>0. TypeOK
  BY DEF TypedInv
<1>1. UNCHANGED <<queue, pc, held>>
  BY DEF Environment, MqttReport, ConnectionLost, MoonrakerReport, Announce, RetryElapses,
         cache, local
<1>2. jobs'[d].active = jobs[d].active
  <2>1. ASSUME NEW e \in Devices, RetryElapses(e) PROVE jobs'[d].active = jobs[d].active
    BY <1>0, <2>1, RetryDueFacts DEF RetryElapses, TypeOK
  <2>2. UNCHANGED jobs \/ \E e \in Devices : RetryElapses(e)
    BY DEF Environment, MqttReport, ConnectionLost, MoonrakerReport, Announce, cache
  <2>. QED
    BY <2>1, <2>2
<1>3. Coming \subseteq Coming' /\ Running \subseteq Running'
  BY <1>1, HandsStay
<1>4. OnItsWay(d)
  BY DEF WayNow
<1>. QED
  BY <1>2, <1>3, <1>4, QuietWay

\* clear ends the active job; schedule keeps it, or hands the new one to the refresher.
LEMMA RefreshingWay == TypedInv /\ WayNow /\ Refreshing => WayNow'
<1> SUFFICES ASSUME TypedInv, WayNow, Refreshing PROVE WayNow'
  OBVIOUS
<1>0. /\ TypeOK /\ pc \in [Procs -> RefresherStates \cup WorkerStates]
      /\ held \in [Procs -> Job \cup {None}]
  BY DEF TypedInv, TypeOK
<1> USE ProcsFacts DEF env, cache, local
<1>1. ASSUME NEW p \in Refreshers, NEW d \in Devices, ClearDevice(p, d) PROVE WayNow'
  <2>1. jobs[d] \in DeviceState /\ order[p] \in Nat /\ pc[p] = "apply"
    BY <1>0, <1>1, ServiceAssumption DEF TypeOK, ClearDevice
  <2>2. /\ jobs' = [jobs EXCEPT ![d] = Clear(jobs[d], order[p])] /\ UNCHANGED <<held, queue>>
        /\ pc' = [pc EXCEPT ![p] = AfterRefresh(p, todo[p] \ {d})]
    BY <1>1 DEF ClearDevice
  <2>3. Clear(jobs[d], order[p]).active = None \/ Clear(jobs[d], order[p]) = jobs[d]
    BY <2>1, ClearFacts
  <2>4. \A e \in Devices : jobs'[e].active = None \/ jobs'[e] = jobs[e]
    BY <1>0, <2>2, <2>3 DEF TypeOK
  <2>5. Coming \subseteq Coming' /\ Running \subseteq Running'
    BY <1>0, <2>1, <2>2, HandsStay DEF ComingStates, RunningStates
  <2> SUFFICES ASSUME NEW e \in Devices PROVE OnItsWay(e)'
    BY DEF WayNow
  <2>6. OnItsWay(e)
    BY DEF WayNow
  <2>7. CASE jobs[e].active = None
    BY <2>4, <2>7 DEF OnItsWay
  <2>8. CASE jobs[e].active # None
    BY <2>4, <2>5, <2>6, <2>8, QuietWay
  <2>. QED
    BY <2>7, <2>8
<1>2. ASSUME NEW p \in Refreshers, NEW d \in Devices, ScheduleDevice(p, d) PROVE WayNow'
  <2> DEFINE job == NewJob(p, d)  s == jobs[d]  u == Schedule(s, job)
             handed == IF HandsOut(s, job) THEN job ELSE None
             next == IF HandsOut(s, job) THEN "send" ELSE AfterRefresh(p, todo[p] \ {d})
  <2>1. job \in Job /\ s \in DeviceState /\ pc[p] = "apply" /\ job.device = d
    BY <1>0, <1>2, NewJobTyped DEF ScheduleDevice, TypeOK, NewJob
  <2>2. /\ jobs' = [jobs EXCEPT ![d] = u] /\ queue' = queue
        /\ held' = [held EXCEPT ![p] = handed]
        /\ pc' = [pc EXCEPT ![p] = next]
    BY <1>2 DEF ScheduleDevice
  <2>3. HandsOut(s, job) => u.active = Unstarted(job)
    BY <2>1 DEF HandsOut, Schedule, DeviceState
  <2>4. ~HandsOut(s, job) =>
          \/ u.active = None
          \/ /\ s.active # None /\ u.active.task = s.active.task
             /\ u.active.id = s.active.id /\ u.active.started = s.active.started
    BY <2>1, ScheduleKeepsJob
  <2> HIDE DEF job, s, u
  <2>5. PICK j \in Job : j = job
    BY <2>1
  <2>6. HandsOut(s, job) => held'[p] = j /\ pc'[p] = "send" /\ jobs'[d].active = Unstarted(j)
    BY <1>0, <2>2, <2>3, <2>5 DEF TypeOK
  <2>7. ~HandsOut(s, job) =>
          \/ jobs'[d].active = None
          \/ /\ jobs[d].active # None /\ jobs'[d].active.task = jobs[d].active.task
             /\ jobs'[d].active.id = jobs[d].active.id
             /\ jobs'[d].active.started = jobs[d].active.started
    BY <1>0, <2>2, <2>4 DEF TypeOK, s
  <2>8. \A e \in Devices : e # d => jobs'[e] = jobs[e]
    BY <1>0, <2>2 DEF TypeOK
  <2>9. Coming \subseteq Coming' /\ Running \subseteq Running'
    <3>1. \A q \in Procs : q # p => pc'[q] = pc[q] /\ held'[q] = held[q]
      BY <1>0, <2>2
    <3>. QED
      BY <2>1, <2>2, <3>1, HandsStay DEF ComingStates, RunningStates
  <2> SUFFICES ASSUME NEW e \in Devices PROVE OnItsWay(e)'
    BY DEF WayNow
  <2>10. OnItsWay(e)
    BY DEF WayNow
  <2>11. CASE e # d
    <3>1. CASE jobs[e].active = None
      BY <2>8, <2>11, <3>1 DEF OnItsWay
    <3>2. CASE jobs[e].active # None
      BY <2>8, <2>9, <2>10, <2>11, <3>2, QuietWay
    <3>. QED
      BY <3>1, <3>2
  <2>12. CASE e = d /\ HandsOut(s, job)
    <3>1. j.device = d
      BY <2>1, <2>5
    <3>2. OnItsWay(d)'
      BY <2>6, <2>12, <3>1, PromotedOnItsWay
    <3>. QED
      BY <2>12, <3>2
  <2>13. CASE e = d /\ ~HandsOut(s, job)
    BY <2>7, <2>9, <2>10, <2>13, QuietWay
  <2>. QED
    BY <2>11, <2>12, <2>13
<1>3. ASSUME UNCHANGED <<queue, jobs>>,
             \A q \in Procs :
               pc[q] \in ComingStates \cup RunningStates => pc'[q] = pc[q] /\ held'[q] = held[q]
      PROVE  WayNow'
  <2> SUFFICES ASSUME NEW e \in Devices PROVE OnItsWay(e)'
    BY DEF WayNow
  <2>1. Coming \subseteq Coming' /\ Running \subseteq Running'
    BY <1>3, HandsStay
  <2>2. OnItsWay(e)
    BY DEF WayNow
  <2>3. CASE jobs[e].active = None
    BY <1>3, <2>3 DEF OnItsWay
  <2>. QED
    BY <1>3, <2>1, <2>2, <2>3, QuietWay
<1>4. ASSUME NEW p \in Requests, DropRequest(p) PROVE WayNow'
  BY <1>0, <1>3, <1>4 DEF DropRequest, ComingStates, RunningStates
<1>5. CASE Subscribe \/ ReceiveChange \/ TakeMqttSnapshot
  BY <1>0, <1>3, <1>5 DEF Subscribe, ReceiveChange, TakeMqttSnapshot, ComingStates, RunningStates
<1>6. ASSUME NEW p \in Refreshers,
             TakeLiveSnapshot(p) \/ (p \in Requests /\ Respond(p))
               \/ (p \in Requests /\ \E d \in Devices : BeginRequest(p, d))
      PROVE  WayNow'
  BY <1>0, <1>3, <1>6 DEF TakeLiveSnapshot, Respond, BeginRequest, ComingStates, RunningStates
<1>. QED
  BY <1>1, <1>2, <1>4, <1>5, <1>6 DEF Refreshing

\* A job goes from a hand to the queue.
LEMMA EnqueueJobWay ==
  ASSUME TypedInv, WayNow, NEW p \in Procs, EnqueueJob(p)
  PROVE  WayNow'
<1>0. /\ TypeOK /\ pc \in [Procs -> RefresherStates \cup WorkerStates]
      /\ held \in [Procs -> Job \cup {None}] /\ queue \in Seq(Job)
  BY DEF TypedInv, TypeOK
<1>1. InHand(p) /\ held[p] \in Job
  BY UnbegunTyped DEF EnqueueJob, InHand
<1>2. /\ queue' = Append(queue, held[p]) /\ jobs' = jobs /\ pc[p] = "send"
      /\ held' = [held EXCEPT ![p] = None]
      /\ pc' = [pc EXCEPT ![p] = AfterSend(p)]
  BY DEF EnqueueJob, env
<1>3. /\ Len(queue') = Len(queue) + 1 /\ Len(queue) \in Nat
      /\ \A k \in 1..Len(queue) : queue'[k] = queue[k]
      /\ queue'[Len(queue) + 1] = held[p]
  BY <1>0, <1>1, <1>2
<1>4. /\ \A k \in 1..Len(queue) : k \in 1..Len(queue')
      /\ Len(queue) + 1 \in 1..Len(queue')
  BY <1>3
<1>5. held[p] \in Coming' /\ \A k \in 1..Len(queue) : queue[k] \in Coming'
  <2>1. \A k \in 1..Len(queue') : queue'[k] \in Coming'
    BY DEF Coming
  <2>. QED
    BY <1>3, <1>4, <2>1
<1>6. KeptHands(p) /\ pc[p] \notin RunningStates
  BY <1>0, <1>2 DEF KeptHands, RunningStates
<1>7. Coming \subseteq Coming' /\ Running \subseteq Running'
  BY <1>5, <1>6, HandsKept
<1> SUFFICES ASSUME NEW e \in Devices PROVE OnItsWay(e)'
  BY DEF WayNow
<1>8. OnItsWay(e)
  BY DEF WayNow
<1>9. CASE jobs[e].active = None
  BY <1>2, <1>9 DEF OnItsWay
<1>. QED
  BY <1>2, <1>7, <1>8, <1>9, QuietWay

\* A job goes from the queue to its worker, which held none.
LEMMA SpawnWay == TypedInv /\ UniqueInv /\ WayNow /\ SpawnWorker => WayNow'
<1> SUFFICES ASSUME TypedInv, UniqueInv, WayNow, SpawnWorker PROVE WayNow'
  OBVIOUS
<1>0. /\ TypeOK /\ pc \in [Procs -> RefresherStates \cup WorkerStates]
      /\ held \in [Procs -> Job \cup {None}] /\ queue \in Seq(Job)
  BY DEF TypedInv, TypeOK
<1> USE ProcsFacts DEF env, cache, local
<1>1. /\ Len(Tail(queue)) = Len(queue) - 1
      /\ \A k \in 1..Len(Tail(queue)) : Tail(queue)[k] = queue[k + 1]
      /\ Head(queue) = queue[1] /\ Len(queue) \in Nat \ {0}
  BY <1>0, HeadTailProperties DEF SpawnWorker
<1> DEFINE i == queue[1].id
<1>2. /\ queue' = Tail(queue) /\ UNCHANGED jobs
      /\ pc' = [pc EXCEPT ![i] = "start"]
      /\ held' = [held EXCEPT ![i] = queue[1]]
  BY <1>1 DEF SpawnWorker
<1>3. i \in JobIds /\ pc[i] = "idle"
  BY <1>1, UnbegunTyped DEF UniqueInv, QueuedInv
<1> HIDE DEF i
<1>4. ASSUME NEW k \in 1..Len(queue) PROVE queue[k] \in Coming'
  <2>1. CASE k = 1
    <3>1. pc'[i] = "start" /\ held'[i] = queue[1] /\ i \in Procs
      BY <1>0, <1>2, <1>3
    <3>. QED
      BY <2>1, <3>1 DEF Coming, ComingStates
  <2>2. CASE k # 1
    <3>1. /\ k - 1 \in 1..Len(queue') /\ queue'[k - 1] = queue[k]
      BY <1>1, <1>2, <2>2
    <3>2. queue'[k - 1] \in Coming'
      BY <3>1 DEF Coming
    <3>. QED
      BY <3>1, <3>2
  <2>. QED
    BY <2>1, <2>2
<1>5. KeptHands(i) /\ i \in Procs /\ pc[i] \notin ComingStates \cup RunningStates
  BY <1>0, <1>2, <1>3 DEF KeptHands, ComingStates, RunningStates
<1>6. Coming \subseteq Coming' /\ Running \subseteq Running'
  BY <1>4, <1>5, HandsKept
<1> SUFFICES ASSUME NEW e \in Devices PROVE OnItsWay(e)'
  BY DEF WayNow
<1>7. OnItsWay(e)
  BY DEF WayNow
<1>8. CASE jobs[e].active = None
  BY <1>2, <1>8 DEF OnItsWay
<1>. QED
  BY <1>2, <1>6, <1>7, <1>8, QuietWay

\* A worker's step on its device: it takes the job that waited, or starts with its
\* own, or lets it go.
LEMMA WorkerWay ==
  ASSUME WayNow, queue' = queue, NEW x \in Procs, NEW d \in Devices, d = held[x].device,
         \A e \in Devices : e # d => jobs'[e] = jobs[e],
         KeptHands(x),
         OnItsWay(d)'
  PROVE  WayNow'
<1> SUFFICES ASSUME NEW e \in Devices PROVE OnItsWay(e)'
  BY DEF WayNow
<1>1. OnItsWay(e)
  BY DEF WayNow
<1>2. CASE e # d
  BY <1>1, <1>2, OthersOnTheirWay
<1>. QED
  BY <1>2

\* start hands back the job that waited, or the fetch begins, or the job is not the active one.
LEMMA StartWay ==
  ASSUME FetchInv, WayNow, NEW i \in JobIds, StartJob(i)
  PROVE  WayNow'
<1>0. /\ TypeOK /\ HolderHasJob /\ pc \in [Procs -> RefresherStates \cup WorkerStates]
      /\ held \in [Procs -> Job \cup {None}] /\ i \in Procs
  BY ProcsFacts DEF FetchInv, CacheInv, TypedInv, TypeOK
<1> DEFINE job == held[i]  s == jobs[job.device]  o == StartOutcome(s, job)
           next == CASE o = "fetch" -> job [] o = "pending" -> s.active.pending
                     [] o = "stale" -> None
           place == CASE o = "fetch" -> "permit" [] o = "pending" -> "send"
                      [] o = "stale" -> "idle"
<1>1. /\ job \in Job /\ job.device \in Devices /\ s \in DeviceState /\ pc[i] = "start"
  BY <1>0 DEF TypeOK, StartJob, HolderHasJob, Job
<1>2. PICK d \in Devices, j \in Job, t \in DeviceState : d = job.device /\ j = job /\ t = s
  BY <1>1
<1>3. PICK u : u = Start(t, j)
  OBVIOUS
<1>4. /\ jobs' = [jobs EXCEPT ![d] = u] /\ queue' = queue
      /\ held' = [held EXCEPT ![i] = next] /\ pc' = [pc EXCEPT ![i] = place]
  BY <1>2, <1>3 DEF StartJob, env
<1>5. /\ o \in {"stale", "pending", "fetch"} /\ WaitingInv(d, t) /\ t = jobs[d]
      /\ j = held[i] /\ d = j.device /\ o = StartOutcome(t, j)
  BY <1>1, <1>2, StartFacts DEF FetchInv, NewestInv
<1>6. /\ o = "pending" => place = "send" /\ next = PendingOf(t)
      /\ o = "fetch" => place = "permit" /\ next = j
  BY <1>2, <1>5, HandedBack
<1> HIDE DEF job, s, o, next, place
<1>7. /\ jobs'[d] = u /\ \A e \in Devices : e # d => jobs'[e] = jobs[e]
      /\ KeptHands(i) /\ held'[i] = next /\ pc'[i] = place
  BY <1>0, <1>4 DEF TypeOK, KeptHands
<1>8. OnItsWay(d)
  BY DEF WayNow
<1>9. OnItsWay(d)'
  <2>1. CASE o = "pending"
    <3>1. /\ PendingOf(t) \in Job /\ PendingOf(t).device = d /\ u.active = Unstarted(PendingOf(t))
      <4>1. /\ PendingOf(t) # None /\ t.active # None /\ t.active.pending = PendingOf(t)
            /\ u.active = Unstarted(PendingOf(t))
        BY <1>3, <1>5, <2>1, HandedBack
      <4>2. PendingOf(t) \in Job
        BY <4>1 DEF DeviceState, ActiveJob
      <4>. QED
        BY <1>5, <4>1, <4>2 DEF WaitingInv
    <3>2. PICK k \in Job : k = PendingOf(t)
      BY <3>1
    <3>3. /\ k.device = d /\ jobs'[d].active = Unstarted(k)
          /\ held'[i] = k /\ pc'[i] = "send"
      BY <1>6, <1>7, <2>1, <3>1, <3>2
    <3>. QED
      BY <1>0, <3>3, PromotedOnItsWay
  <2>2. CASE o = "fetch"
    <3>1. /\ jobs'[d].active.task = j.task /\ jobs'[d].active.id = j.id
          /\ jobs'[d].active.started
      BY <1>3, <1>5, <1>7, <2>2, StartKeepsJob
    <3>2. j \in Running'
      BY <1>0, <1>6, <1>7, <2>2 DEF Running, RunningStates
    <3>. QED
      BY <1>5, <3>1, <3>2 DEF OnItsWay, CopyOf
  <2>3. CASE o = "stale"
    <3>1. u = t /\ (t.active.started \/ ~Owns(t, j))
      BY <1>3, <1>5, <2>3, StartKeepsJob
    <3>2. pc[i] \in ComingStates
      BY <1>1 DEF ComingStates
    <3>. QED
      BY <1>0, <1>4, <1>5, <1>7, <1>8, <3>1, <3>2, LetGo
  <2>. QED
    BY <1>5, <2>1, <2>2, <2>3
<1>. QED
  BY <1>0, <1>4, <1>5, <1>7, <1>9, WorkerWay

\* A worker's job ends, at the worker itself or at the watcher: y takes the job
\* that waited.
LEMMA EndWay ==
  ASSUME FetchInv, WayNow, NEW i \in JobIds, NEW y \in Procs,
         NEW status \in Statuses, NEW retry \in Retries,
         held[i] \in Job,
         jobs' = [jobs EXCEPT ![held[i].device] = Finish(@, held[i], status, retry)],
         queue' = queue, KeptHands(i),
         LET next == Promoted(jobs[held[i].device], held[i])
         IN  next # None => held'[y] = next /\ pc'[y] = "send"
  PROVE  WayNow'
<1>0. TypeOK /\ i \in Procs
  BY ProcsFacts DEF FetchInv, CacheInv, TypedInv
<1>1. PICK d \in Devices, j \in Job, t \in DeviceState :
         d = j.device /\ j = held[i] /\ t = jobs[d]
  BY <1>0 DEF TypeOK, Job
<1>2. PICK u : u = Finish(t, j, status, retry)
  OBVIOUS
<1>3. jobs'[d] = u /\ \A e \in Devices : e # d => jobs'[e] = jobs[e]
  BY <1>0, <1>1, <1>2 DEF TypeOK
<1>4. WaitingInv(d, t) /\ OnItsWay(d)
  BY <1>1 DEF FetchInv, NewestInv, WayNow
<1>5. OnItsWay(d)'
  <2>1. CASE Promoted(t, j) = None
    <3>1. u.active = None \/ (u = t /\ ~Owns(t, j))
      BY <1>2, <2>1, FinishKeepsJob
    <3>. QED
      BY <1>0, <1>1, <1>3, <1>4, <3>1, LetGo
  <2>2. CASE Promoted(t, j) # None
    <3>1. /\ Promoted(t, j) = PendingOf(t) /\ t.active # None
          /\ u.active = Unstarted(PendingOf(t))
      BY <1>2, <2>2, HandedBack
    <3>2. PICK k \in Job : k = Promoted(t, j)
      BY <2>2, PromotedTyped
    <3>3. k.device = d
      BY <1>4, <2>2, <3>1, <3>2 DEF WaitingInv, PendingOf
    <3>4. held'[y] = k /\ pc'[y] = "send" /\ jobs'[d].active = Unstarted(k)
      BY <1>1, <1>3, <2>2, <3>1, <3>2
    <3>. QED
      BY <3>3, <3>4, PromotedOnItsWay
  <2>. QED
    BY <2>1, <2>2
<1>. QED
  BY <1>0, <1>1, <1>3, <1>5, WorkerWay

\* Before the shutdown no worker's step loses an active job.
LEMMA WorkingWay ==
  FetchInv /\ UniqueInv /\ WayNow /\ ~ShuttingDown /\ Working => WayNow'
<1> SUFFICES ASSUME FetchInv, UniqueInv, WayNow, ~ShuttingDown, Working PROVE WayNow'
  OBVIOUS
<1>0. /\ TypedInv /\ TypeOK /\ HolderHasJob
      /\ pc \in [Procs -> RefresherStates \cup WorkerStates]
      /\ held \in [Procs -> Job \cup {None}]
  BY DEF FetchInv, CacheInv, TypedInv, TypeOK
<1> USE ProcsFacts DEF env, cache, local
<1>1. ASSUME NEW i \in JobIds, NEW outcome \in Outcomes, FinishFetch(i, outcome) PROVE WayNow'
  <2>1. held[i] \in Job /\ outcome.status \in Statuses /\ outcome.retry \in Retries
    BY <1>0, <1>1, OutcomesTyped DEF FinishFetch, HolderHasJob
  <2>2. /\ jobs' = [jobs EXCEPT ![held[i].device] =
                      Finish(@, held[i], outcome.status, outcome.retry)]
        /\ queue' = queue
    BY <1>1 DEF FinishFetch
  <2>3. KeptHands(i)
    BY <1>0, <1>1 DEF FinishFetch, KeptHands
  <2>4. LET next == Promoted(jobs[held[i].device], held[i])
        IN  next # None => held'[i] = next /\ pc'[i] = "send"
    BY <1>0, <1>1 DEF FinishFetch
  <2>. QED
    BY <2>1, <2>2, <2>3, <2>4, EndWay
<1>2. ASSUME NEW i \in JobIds, ReapPanicked(i) PROVE WayNow'
  <2>1. /\ held[i] \in Job /\ Failure.status \in Statuses /\ Failure.retry \in Retries
        /\ pc[Watcher] = "idle"
    BY <1>0, <1>2, OutcomesTyped DEF ReapPanicked, HolderHasJob
  <2>2. /\ jobs' = [jobs EXCEPT ![held[i].device] =
                      Finish(@, held[i], Failure.status, Failure.retry)]
        /\ queue' = queue
    BY <1>2 DEF ReapPanicked
  <2>3. KeptHands(i)
    BY <1>0, <1>2, <2>1 DEF ReapPanicked, KeptHands, ComingStates, RunningStates
  <2>4. LET next == Promoted(jobs[held[i].device], held[i])
        IN  next # None => held'[Watcher] = next /\ pc'[Watcher] = "send"
    BY <1>0, <1>2 DEF ReapPanicked
  <2>. QED
    BY <2>1, <2>2, <2>3, <2>4, EndWay
<1>3. ASSUME NEW i \in JobIds, AcquirePermit(i) \/ FallsSilent(i) \/ WorkerPanics(i) PROVE WayNow'
  <2>1. /\ UNCHANGED <<queue, jobs, held>> /\ pc[i] \in RunningStates
        /\ \A q \in Procs : q # i => pc'[q] = pc[q]
        /\ pc'[i] \in RunningStates
    BY <1>0, <1>3 DEF AcquirePermit, FallsSilent, WorkerPanics, RunningStates
  <2>2. Coming \subseteq Coming' /\ Running \subseteq Running'
    BY <2>1, HandsStay DEF ComingStates, RunningStates
  <2> SUFFICES ASSUME NEW e \in Devices PROVE OnItsWay(e)'
    BY DEF WayNow
  <2>3. OnItsWay(e)
    BY DEF WayNow
  <2>4. CASE jobs[e].active = None
    BY <2>1, <2>4 DEF OnItsWay
  <2>. QED
    BY <2>1, <2>2, <2>3, <2>4, QuietWay
<1>4. ASSUME NEW i \in JobIds, WorkerCancelled(i) PROVE FALSE
  BY <1>4 DEF WorkerCancelled, ShuttingDown
<1>. QED
  BY <1>0, <1>1, <1>2, <1>3, <1>4, SpawnWay, StartWay DEF Working

\* A failure is to be noted only after a try_send that failed.
LEMMA NothingFails ==
  ASSUME TypedInv, NoFailure, [Next]_vars, \A p \in Procs : ~QueueFull(p)
  PROVE  NoFailure'
<1>0. /\ TypeOK /\ pc \in [Procs -> RefresherStates \cup WorkerStates]
      /\ \A p \in Procs : pc[p] # "failed"
  BY DEF TypedInv, TypeOK, NoFailure
<1> USE ProcsFacts DEF NoFailure, env, cache, local
<1>1. CASE Environment \/ UNCHANGED vars
  BY <1>0, <1>1 DEF Environment, MqttReport, ConnectionLost, MoonrakerReport, Announce,
                    RetryElapses, vars
<1>2. CASE Refreshing
  BY <1>0, <1>2 DEF Refreshing, Subscribe, ReceiveChange, TakeMqttSnapshot, BeginRequest,
       TakeLiveSnapshot, ClearDevice, ScheduleDevice, Respond, DropRequest, AfterRefresh
<1>3. CASE Enqueueing
  BY <1>0, <1>3 DEF Enqueueing, EnqueueJob, EnqueueFailed, AfterSend, AfterRefresh
<1>4. CASE Working
  <2>1. ASSUME NEW i \in JobIds, StartJob(i) PROVE NoFailure'
    <3> DEFINE o == StartOutcome(jobs[held[i].device], held[i])
               place == CASE o = "fetch" -> "permit" [] o = "pending" -> "send"
                          [] o = "stale" -> "idle"
    <3>1. pc' = [pc EXCEPT ![i] = place] /\ held[i] \in Job /\ held[i].device \in Devices
      BY <2>1, <1>0 DEF StartJob, TypedInv, TypeOK, HolderHasJob, Job
    <3>2. o \in {"stale", "pending", "fetch"}
      BY <1>0, <3>1, StartFacts DEF TypeOK
    <3>3. place # "failed"
      BY <3>2
    <3> HIDE DEF place
    <3>. QED
      BY <1>0, <3>1, <3>3
  <2>2. CASE SpawnWorker
    BY <1>0, <2>2 DEF SpawnWorker
  <2>3. ASSUME NEW i \in JobIds,
               \/ AcquirePermit(i) \/ FallsSilent(i) \/ WorkerPanics(i)
               \/ ReapPanicked(i) \/ WorkerCancelled(i)
               \/ \E outcome \in Outcomes : FinishFetch(i, outcome)
        PROVE  NoFailure'
    BY <1>0, <2>3
       DEF AcquirePermit, FallsSilent, WorkerPanics, ReapPanicked, WorkerCancelled, FinishFetch
  <2>. QED
    BY <1>4, <2>1, <2>2, <2>3 DEF Working
<1>5. CASE Stopping
  BY <1>0, <1>5 DEF Stopping, Shutdown, WatcherStops
<1>. QED
  BY <1>1, <1>2, <1>3, <1>4, <1>5 DEF Next

\* Nor does a step of nobody.
LEMMA StutterWay == WayNow /\ UNCHANGED vars => WayNow'
<1> SUFFICES ASSUME WayNow, UNCHANGED vars, NEW e \in Devices PROVE OnItsWay(e)'
  BY DEF WayNow
<1>1. Coming \subseteq Coming' /\ Running \subseteq Running'
  BY HandsStay DEF vars
<1>2. OnItsWay(e)
  BY DEF WayNow
<1>3. CASE jobs[e].active = None
  BY <1>3 DEF OnItsWay, vars
<1>. QED
  BY <1>1, <1>2, <1>3, QuietWay DEF vars

\* Every step but a failing try_send keeps the invariant.
LEMMA NextCarry ==
  CarryInv /\ [Next]_vars /\ (\A p \in Procs : ~QueueFull(p)) => CarryInv'
<1> SUFFICES ASSUME CarryInv, [Next]_vars, \A p \in Procs : ~QueueFull(p) PROVE CarryInv'
  OBVIOUS
<1>0. TypedInv /\ FetchInv /\ UniqueInv /\ NoFailure
  BY DEF CarryInv, FetchInv, CacheInv
<1>1. FetchInv' /\ UniqueInv' /\ NoFailure'
  BY <1>0, NextFetch, NextUnique, NothingFails
<1>2. WayInv'
  <2> SUFFICES ASSUME ~ShuttingDown' PROVE WayNow'
    BY DEF WayInv, WayNow
  <2>1. ~ShuttingDown /\ WayNow
    BY <1>0, ShutdownIsFinal DEF CarryInv, WayInv, WayNow
  <2>2. CASE Enqueueing
    <3>1. PICK p \in Procs : EnqueueJob(p) \/ EnqueueFailed(p)
      BY <2>2 DEF Enqueueing
    <3>2. ~EnqueueFailed(p)
      BY <1>0 DEF EnqueueFailed, NoFailure
    <3>. QED
      BY <1>0, <2>1, <3>1, <3>2, EnqueueJobWay
  <2>3. CASE UNCHANGED vars
    BY <2>1, <2>3, StutterWay
  <2>4. ASSUME Stopping PROVE FALSE
    <3>1. ShuttingDown'
      BY <1>0, <2>4, ProcsFacts DEF Stopping, Shutdown, WatcherStops, ShuttingDown,
         TypedInv, TypeOK
    <3>. QED
      BY <3>1
  <2>. QED
    BY <1>0, <2>1, <2>2, <2>3, <2>4, EnvironmentWay, RefreshingWay, WorkingWay DEF Next
<1>. QED
  BY <1>1, <1>2 DEF CarryInv

\* At first no job is active.
LEMMA InitCarry == Init => CarryInv
<1> SUFFICES ASSUME Init PROVE NoFailure /\ WayInv
  BY InitFetch, InitUnique DEF CarryInv
<1>1. NoFailure
  BY DEF Init, NoFailure
<1>2. \A d \in Devices : jobs[d].active = None
  BY DEF Init, EmptyState
<1>. QED
  BY <1>1, <1>2 DEF WayInv, OnItsWay

\* A copy on its way is in the queue or in a hand.
LEMMA OnItsWayIsCarried == CarryInv => ActiveJobIsCarried
<1> SUFFICES ASSUME CarryInv, ~ShuttingDown, NEW d \in Devices, jobs[d].active # None
             PROVE  Carries(jobs[d].active.id)
  BY DEF ActiveJobIsCarried
<1>1. OnItsWay(d) /\ HolderHasJob /\ queue \in Seq(Job)
  BY DEF CarryInv, WayInv, FetchInv, CacheInv, TypedInv, TypeOK
<1>2. PICK j \in Running \cup Coming : j.id = jobs[d].active.id
  BY <1>1 DEF OnItsWay, CopyOf
<1>3. CASE \E k \in 1..Len(queue) : j = queue[k]
  BY <1>1, <1>2, <1>3 DEF Carries
<1>4. CASE \E p \in Procs : pc[p] \in ComingStates \cup RunningStates /\ j = held[p]
  BY <1>1, <1>2, <1>4 DEF Carries, HolderHasJob, ComingStates, RunningStates
<1>. QED
  BY <1>3, <1>4 DEF Running, Coming

\* As long as no try_send of enqueue_job fails, and until the shutdown, an active
\* job is in the queue or in some process's hands, however the refreshes, the
\* starts, the finishes and the panics of the workers interleave: schedule, start
\* and finish hand each job to exactly one place.
THEOREM NoJobIsLostWithoutAFullQueue ==
  Spec /\ [][\A p \in Procs : ~QueueFull(p)]_vars => []ActiveJobIsCarried
<1>1. CarryInv /\ [Next]_vars /\ [\A p \in Procs : ~QueueFull(p)]_vars => CarryInv'
  <2>1. CarryInv /\ [Next]_vars /\ UNCHANGED vars => CarryInv'
    <3> SUFFICES ASSUME CarryInv, UNCHANGED vars PROVE CarryInv'
      OBVIOUS
    <3>1. FetchInv' /\ UniqueInv'
      BY NextFetch, NextUnique DEF CarryInv, FetchInv, CacheInv
    <3>2. NoFailure'
      BY DEF CarryInv, NoFailure, vars
    <3>3. WayInv'
      BY StutterWay DEF CarryInv, WayInv, WayNow, ShuttingDown, vars
    <3>. QED
      BY <3>1, <3>2, <3>3 DEF CarryInv
  <2>. QED
    BY <2>1, NextCarry
<1>. QED
  BY <1>1, InitCarry, OnItsWayIsCarried, PTL DEF Spec
=============================================================================
