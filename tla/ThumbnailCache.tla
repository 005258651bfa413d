--------------------------- MODULE ThumbnailCache ---------------------------
(***************************************************************************)
(* What the thumbnail cache promises for the devices whose snapshots carry *)
(* a revision, with no queue, no jobs and no processes: per device, the    *)
(* revision the cache is at and the status it shows.  A device moves only  *)
(* to the same or a newer revision, and the status is always about the     *)
(* task of that revision: it starts over as loading, is answered once, or  *)
(* is refused.  ThumbnailService implements this specification.            *)
(***************************************************************************)
EXTENDS Naturals

CONSTANTS Devices, Tasks, None, MaxRevision

VARIABLES
  revision,  \* the revision of the source of the snapshots
  history,   \* the task of each device at each revision
  latest,    \* the revision the cache is at, per device
  shown      \* the task and the status the cache shows, per device, or None

vars == <<revision, history, latest, shown>>

Init ==
  /\ revision = 0
  /\ history = [r \in 0..MaxRevision |-> [d \in Devices |-> None]]
  /\ latest = [d \in Devices |-> 0]
  /\ shown = [d \in Devices |-> None]

\* The source changes.
Change ==
  /\ revision < MaxRevision
  /\ revision' = revision + 1
  /\ \E tasks \in [Devices -> Tasks \cup {None}] :
       history' = [history EXCEPT ![revision + 1] = tasks]
  /\ UNCHANGED <<latest, shown>>

\* The cache moves device d to revision r, keeping a status about its task.
Observe(d, r) ==
  /\ latest[d] <= r /\ r <= revision
  /\ latest' = [latest EXCEPT ![d] = r]
  /\ LET t == history[r][d]
     IN  \/ t = None /\ shown' = [shown EXCEPT ![d] = None]
         \/ t # None /\ shown[d] # None /\ shown[d].task = t /\ UNCHANGED shown
         \/ t # None /\ shown' = [shown EXCEPT ![d] = [task |-> t, status |-> "loading"]]
  /\ UNCHANGED <<revision, history>>

\* A loading status is answered.
Answer(d, status) ==
  /\ shown[d] # None
  /\ shown[d].status = "loading"
  /\ shown' = [shown EXCEPT ![d].status = status]
  /\ UNCHANGED <<revision, history, latest>>

\* The cache moves device d to revision r but cannot load its task.
Refuse(d, r) ==
  /\ latest[d] <= r /\ r <= revision
  /\ history[r][d] # None
  /\ latest' = [latest EXCEPT ![d] = r]
  /\ shown' = [shown EXCEPT ![d] = [task |-> history[r][d], status |-> "unavailable"]]
  /\ UNCHANGED <<revision, history>>

Next ==
  \/ Change
  \/ \E d \in Devices :
       \/ \E r \in 0..MaxRevision : Observe(d, r) \/ Refuse(d, r)
       \/ \E status \in {"ready", "loading", "missing", "unavailable"} : Answer(d, status)

Spec == Init /\ [][Next]_vars
=============================================================================
