----------------------------- MODULE LivePromise -----------------------------
(***************************************************************************)
(* What the live store (live/store.rs) promises its readers about every    *)
(* device, whichever backend feeds it: a device shows a report only while  *)
(* it is connected, it becomes connected by a report of a session that was *)
(* announced as connecting, and once that session is lost it is shown as   *)
(* disconnected before the next one is announced.                          *)
(***************************************************************************)
CONSTANTS Devices

VARIABLES
  shown,  \* what is shown of each device
  report  \* the devices a report is shown of

vars == <<shown, report>>

Shown == {"absent", "disconnected", "connecting", "connected"}

TypeOK ==
  /\ shown \in [Devices -> Shown]
  /\ report \subseteq Devices

Init ==
  /\ shown = [d \in Devices |-> "absent"]
  /\ report = {}

\* A session is about to be tried; only the first may be unannounced.
Announce(d) ==
  /\ \/ shown[d] = "absent" /\ shown' = [shown EXCEPT ![d] = "disconnected"]
     \/ shown[d] \in {"absent", "disconnected"}
        /\ shown' = [shown EXCEPT ![d] = "connecting"]
  /\ UNCHANGED report

\* A report of the announced session arrives.
Report(d) ==
  /\ shown[d] \in {"connecting", "connected"}
  /\ shown' = [shown EXCEPT ![d] = "connected"]
  /\ report' = report \cup {d}

\* The session is lost, or never came about.
Lose(d) ==
  /\ shown[d] \in {"connecting", "connected"}
  /\ shown' = [shown EXCEPT ![d] = "disconnected"]
  /\ report' = report \ {d}

Next == \E d \in Devices : Announce(d) \/ Report(d) \/ Lose(d)

Spec == Init /\ [][Next]_vars
=============================================================================
