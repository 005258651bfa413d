------------------------------ MODULE LiveState ------------------------------
(***************************************************************************)
(* The live state of the printers: the MQTT supervisors of the Bambu       *)
(* devices (bambu/mqtt/supervisor.rs, session.rs) with the MQTT runtime    *)
(* they share (runtime.rs), the workers of the Moonraker devices           *)
(* (moonraker/backend.rs, client.rs), and the store both write             *)
(* (live/store.rs).                                                        *)
(*                                                                         *)
(* A supervisor changes the runtime under its lock and, when that is       *)
(* released, writes the store device by device, so that readers may see    *)
(* either before the other and one device before the next.                 *)
(*                                                                         *)
(* A report is abstracted to the ages of the messages it was merged from:  *)
(* "current" for those of the running session, "old" for those from before *)
(* it.  When a session begins, everything received so far becomes old.     *)
(***************************************************************************)
EXTENDS Naturals, Sequences

CONSTANTS
  Targets,         \* the MQTT brokers: the cloud's, and those of local printers
  DeviceIds,       \* the devices of each target, in their order
  Moonraker,       \* the Moonraker devices
  RequestCapacity, \* the capacity of the MQTT client's request queue
  None             \* the absent value of an Option

\* What a sequence holds.
Elements(s) == {s[i] : i \in DOMAIN s}

Bambu == UNION {Elements(DeviceIds[k]) : k \in Targets}
Devices == Bambu \cup Moonraker
Sources == Targets \cup Moonraker

\* The registry has one entry per device, so no two sources have a device in common.
ASSUME LiveAssumption ==
  /\ DeviceIds \in [Targets -> Seq(Bambu)]
  /\ \A k \in Targets : DeviceIds[k] # <<>>
  /\ \A k \in Targets : \A i, j \in DOMAIN DeviceIds[k] :
       DeviceIds[k][i] = DeviceIds[k][j] => i = j
  /\ \A j, k \in Targets : Elements(DeviceIds[j]) \cap Elements(DeviceIds[k]) # {} => j = k
  /\ Moonraker \cap (Bambu \cup Targets) = {}
  /\ RequestCapacity \in Nat

VARIABLES
  \* the MQTT runtime
  transport, \* the transport status of each target's connection
  failed,    \* the targets whose connection has an error
  ids,       \* the devices registered with each connection
  reports,   \* the merged report of each Bambu device, {} for None
  \* the live store
  store,     \* the record of each device, or None
  \* the tasks
  sup,       \* where each supervisor and each Moonraker worker is
  writing,   \* the devices a supervisor has still to write to the store
  merged,    \* the merged report a supervisor has in hand
  link,      \* what became of the network connection of each source
  shutdown   \* the shutdown was triggered

runtime == <<transport, failed, ids, reports>>
tasks == <<sup, writing, merged>>
vars == <<transport, failed, ids, reports, store, sup, writing, merged, link, shutdown>>

Ages == {"current", "old"}
Statuses == {"disconnected", "connecting", "connected"}
Record == [status : Statuses, error : BOOLEAN, report : SUBSET Ages]
ASSUME NoneAssumption == None \notin Record

SupervisorStates == {"register", "announce", "connect", "session", "publish",
                     "backoff", "done"}
Links == {"none", "up", "silent"}

TypeOK ==
  /\ transport \in [Targets -> Statuses]
  /\ failed \subseteq Targets
  /\ ids \in [Targets -> Seq(Bambu)]
  /\ reports \in [Bambu -> SUBSET Ages]
  /\ store \in [Devices -> Record \cup {None}]
  /\ sup \in [Sources -> SupervisorStates]
  /\ writing \in [Targets -> Seq(Bambu)]
  /\ merged \in [Targets -> SUBSET Ages]
  /\ link \in [Sources -> Links]
  /\ shutdown \in BOOLEAN

Init ==
  /\ transport = [k \in Targets |-> "disconnected"]
  /\ failed = {}
  /\ ids = [k \in Targets |-> <<>>]
  /\ reports = [d \in Bambu |-> {}]
  /\ store = [d \in Devices |-> None]
  /\ sup = [s \in Sources |-> IF s \in Targets THEN "register" ELSE "announce"]
  /\ writing = [k \in Targets |-> <<>>]
  /\ merged = [k \in Targets |-> {}]
  /\ link = [s \in Sources |-> "none"]
  /\ shutdown = FALSE

-----------------------------------------------------------------------------
(* LiveStateStore.                                                         *)

\* Mutated form: the report survives a lost connection.
SetConnectionKeepingReport(d, status, error) ==
  store' = [store EXCEPT ![d] =
              [status |-> status, error |-> error,
               report |-> IF store[d] = None THEN {} ELSE store[d].report]]

\* set_device_connection, with a status other than Connected: no caller has that.
SetDeviceConnection(d, status, error) ==
  store' = [store EXCEPT ![d] = [status |-> status, error |-> error, report |-> {}]]

\* publish_report
PublishReport(d, report) ==
  store' = [store EXCEPT ![d] =
              [status |-> "connected", error |-> FALSE, report |-> report]]

\* A session begins: what was received before is old.
Aged(report) == IF report = {} THEN {} ELSE {"old"}
AgeReports(ds) ==
  /\ reports' = [d \in Bambu |-> IF d \in ds THEN Aged(reports[d]) ELSE reports[d]]
  /\ store' = [d \in Devices |->
                 IF d \in ds /\ store[d] # None
                   THEN [store[d] EXCEPT !.report = Aged(@)]
                   ELSE store[d]]

-----------------------------------------------------------------------------
(* MQTT supervisors: supervise_target and run_runtime_once.                *)

\* The supervisor is not in the middle of writing the store.
Ready(k) == writing[k] = <<>>

At(k, place) == Ready(k) /\ sup[k] = place

\* The supervisor goes on at another place, after writing to the store what
\* became of devices ds.
ThenWrite(k, ds, place) ==
  /\ sup' = [sup EXCEPT ![k] = place]
  /\ writing' = [writing EXCEPT ![k] = ds]
  /\ UNCHANGED merged

\* register_connection: the first and only one of this target, whose devices no
\* other target has.
Register(k) ==
  /\ At(k, "register")
  /\ ids' = [ids EXCEPT ![k] = DeviceIds[k]]
  /\ ThenWrite(k, DeviceIds[k], "announce")
  /\ UNCHANGED <<transport, failed, reports, store, link, shutdown>>

\* set_connection_connecting
Announce(k) ==
  /\ At(k, "announce")
  /\ transport' = [transport EXCEPT ![k] = "connecting"]
  /\ failed' = failed \ {k}
  /\ ThenWrite(k, ids[k], "connect")
  /\ UNCHANGED <<ids, reports, store, link, shutdown>>

\* Mutated form: the last place in the queue is not used.
RequestsFitTightly(k) == 2 * Len(DeviceIds[k]) < RequestCapacity

\* ReportSession::connect queues a subscription and a request for each device, and
\* nobody takes them out of the queue before it returns.
RequestsFit(k) == 2 * Len(DeviceIds[k]) <= RequestCapacity

\* ReportSession::connect returns; set_connection_connected.
Connect(k) ==
  /\ At(k, "connect")
  /\ RequestsFit(k)
  /\ transport' = [transport EXCEPT ![k] = "connected"]
  /\ failed' = failed \ {k}
  /\ AgeReports(Elements(ids[k]))
  /\ link' = [link EXCEPT ![k] = "none"]
  /\ ThenWrite(k, ids[k], "session")
  /\ UNCHANGED <<ids, shutdown>>

\* Mutated form: the reports stay when the connection is lost.
KeepReports(k) == UNCHANGED reports

\* Mutated form: the devices are removed along with their reports.
RemoveDevices(k) ==
  reports' = [d \in Bambu \ Elements(ids[k]) |-> reports[d]]

\* clear_reports_for_devices
ClearReports(k) ==
  reports' = [d \in Bambu |-> IF d \in Elements(ids[k]) THEN {} ELSE reports[d]]

\* set_connection_disconnected.  The error stays as it is.
SetDisconnected(k) ==
  /\ transport' = [transport EXCEPT ![k] = "disconnected"]
  /\ ClearReports(k)
  /\ UNCHANGED <<failed, ids, store>>

\* Mutated form: a broker that is silent is never noticed.
SessionFailsIfTold(k) ==
  /\ At(k, "session") \/ At(k, "connect")
  /\ link[k] # "silent"
  /\ transport' = [transport EXCEPT ![k] = "disconnected"]
  /\ failed' = failed \cup {k}
  /\ ClearReports(k)
  /\ link' = [link EXCEPT ![k] = "none"]
  /\ ThenWrite(k, ids[k], "backoff")
  /\ UNCHANGED <<ids, store, shutdown>>

\* No session can be made, or its event loop fails: the broker refuses or closes the
\* connection, or does not answer its pings.  set_connection_error, and a sleep.
SessionFails(k) ==
  /\ At(k, "session") \/ At(k, "connect")
  /\ transport' = [transport EXCEPT ![k] = "disconnected"]
  /\ failed' = failed \cup {k}
  /\ ClearReports(k)
  /\ link' = [link EXCEPT ![k] = "none"]
  /\ ThenWrite(k, ids[k], "backoff")
  /\ UNCHANGED <<ids, store, shutdown>>

\* Mutated form: a session that the broker ends is not noted.
SessionEndsUnnoted(k) ==
  /\ At(k, "session")
  /\ link[k] = "up"
  /\ link' = [link EXCEPT ![k] = "none"]
  /\ sup' = [sup EXCEPT ![k] = "announce"]
  /\ UNCHANGED <<runtime, store, writing, merged, shutdown>>

\* The broker sends a disconnect: the next session follows without a sleep.
SessionEnds(k) ==
  /\ At(k, "session")
  /\ link[k] = "up"
  /\ SetDisconnected(k)
  /\ link' = [link EXCEPT ![k] = "none"]
  /\ ThenWrite(k, ids[k], "announce")
  /\ UNCHANGED shutdown

\* Mutated form: the shutdown is not looked at during a session.
StopsInBackoff(k) ==
  /\ shutdown
  /\ At(k, "backoff")
  /\ sup' = [sup EXCEPT ![k] = "done"]
  /\ UNCHANGED <<runtime, store, writing, merged, link, shutdown>>

\* shutdown.cancelled() wins a select!: the devices are shown as disconnected,
\* which in the sleep after a failure they are already.
Stops(k) ==
  /\ shutdown
  /\ \/ /\ At(k, "connect") \/ At(k, "session")
        /\ SetDisconnected(k)
        /\ ThenWrite(k, ids[k], "done")
     \/ /\ At(k, "backoff")
        /\ sup' = [sup EXCEPT ![k] = "done"]
        /\ UNCHANGED <<runtime, store, writing, merged>>
  /\ UNCHANGED <<link, shutdown>>

\* sleep_or_shutdown ends; a Moonraker worker sleeps in the same way.
WakeUp(s) ==
  /\ sup[s] = "backoff"
  /\ s \in Targets => Ready(s)
  /\ sup' = [sup EXCEPT ![s] = "announce"]
  /\ UNCHANGED <<runtime, store, writing, merged, link, shutdown>>

\* handle_publish
Accepts(k, d, retained) == d \in Elements(DeviceIds[k]) /\ ~retained

\* A report of device d arrives, which may be one the broker retained: merge_report
\* up to the release of the lock.
ReceiveReport(k, d, retained) ==
  /\ At(k, "session")
  /\ link[k] = "up"
  /\ Accepts(k, d, retained)
  /\ reports' = [reports EXCEPT ![d] = @ \cup {IF retained THEN "old" ELSE "current"}]
  /\ merged' = [merged EXCEPT ![k] = reports'[d]]
  /\ sup' = [sup EXCEPT ![k] = "publish"]
  /\ writing' = [writing EXCEPT ![k] = <<d>>]
  /\ UNCHANGED <<transport, failed, ids, store, link, shutdown>>

\* merge_report, publish_report of the merged report.
Publish(k) ==
  /\ sup[k] = "publish"
  /\ PublishReport(Head(writing[k]), merged[k])
  /\ writing' = [writing EXCEPT ![k] = <<>>]
  /\ merged' = [merged EXCEPT ![k] = {}]
  /\ sup' = [sup EXCEPT ![k] = "session"]
  /\ UNCHANGED <<runtime, link, shutdown>>

\* What is written of a device without a report: broker_connection, and the
\* connections that set_connection_* write.  Between the change and the write
\* nobody else changes the target's connection.
ShownAs(k) ==
  IF transport[k] = "disconnected" THEN "disconnected" ELSE "connecting"

\* The next device of the loop over set_device_connection.
WriteConnection(k) ==
  /\ writing[k] # <<>>
  /\ sup[k] # "publish"
  /\ SetDeviceConnection(Head(writing[k]), ShownAs(k), k \in failed)
  /\ writing' = [writing EXCEPT ![k] = Tail(@)]
  /\ UNCHANGED <<runtime, sup, merged, link, shutdown>>

-----------------------------------------------------------------------------
(* Moonraker workers: run_device and attempt_session.                      *)

\* set_device_connection, Connecting
MoonrakerAnnounce(m) ==
  /\ sup[m] = "announce"
  /\ SetDeviceConnection(m, "connecting", FALSE)
  /\ sup' = [sup EXCEPT ![m] = "connect"]
  /\ UNCHANGED <<runtime, writing, merged, link, shutdown>>

\* MoonrakerSession::connect returns with the first status, which is published.
MoonrakerConnect(m) ==
  /\ sup[m] = "connect"
  /\ link[m] # "silent"
  /\ link' = [link EXCEPT ![m] = "up"]
  /\ AgeReports({m})
  /\ sup' = [sup EXCEPT ![m] = "publish"]
  /\ UNCHANGED <<transport, failed, ids, writing, merged, shutdown>>

\* next_status: an update was merged into the status of this session.
MoonrakerUpdate(m) ==
  /\ sup[m] = "session"
  /\ link[m] = "up"
  /\ sup' = [sup EXCEPT ![m] = "publish"]
  /\ UNCHANGED <<runtime, store, writing, merged, link, shutdown>>

\* publish, once the job's metadata are there or their fetch has timed out.
MoonrakerPublish(m) ==
  /\ sup[m] = "publish"
  /\ PublishReport(m, {"current"})
  /\ sup' = [sup EXCEPT ![m] = "session"]
  /\ UNCHANGED <<runtime, writing, merged, link, shutdown>>

\* SessionResult::Failed: no session came about, or a read failed.  A read has no
\* timeout and nothing is sent, so that a silent peer is never noticed.
MoonrakerFails(m) ==
  /\ sup[m] \in {"connect", "session"}
  /\ link[m] # "silent"
  /\ SetDeviceConnection(m, "disconnected", TRUE)
  /\ link' = [link EXCEPT ![m] = "none"]
  /\ sup' = [sup EXCEPT ![m] = "backoff"]
  /\ UNCHANGED <<runtime, writing, merged, shutdown>>

\* SessionResult::Closed: the next session follows without a sleep.
MoonrakerCloses(m) ==
  /\ sup[m] = "session"
  /\ link[m] # "silent"
  /\ SetDeviceConnection(m, "disconnected", FALSE)
  /\ link' = [link EXCEPT ![m] = "none"]
  /\ sup' = [sup EXCEPT ![m] = "announce"]
  /\ UNCHANGED <<runtime, writing, merged, shutdown>>

\* SessionResult::Shutdown, or the shutdown during the sleep: the store is left as
\* it is.
MoonrakerStops(m) ==
  /\ shutdown
  /\ sup[m] \in {"connect", "session", "backoff"}
  /\ sup' = [sup EXCEPT ![m] = "done"]
  /\ UNCHANGED <<runtime, store, writing, merged, link, shutdown>>

-----------------------------------------------------------------------------
(* The network and the service.                                            *)

\* The broker accepts the connection that the event loop opens.
LinkComesUp(k) ==
  /\ sup[k] = "session"
  /\ link[k] = "none"
  /\ link' = [link EXCEPT ![k] = "up"]
  /\ UNCHANGED <<runtime, store, tasks, shutdown>>

\* The peer is gone without a word: it lost its power or its network.
LinkGoesSilent(s) ==
  /\ link[s] = "up" \/ (s \in Moonraker /\ sup[s] = "connect")
  /\ link[s] # "silent"
  /\ link' = [link EXCEPT ![s] = "silent"]
  /\ UNCHANGED <<runtime, store, tasks, shutdown>>

Shutdown ==
  /\ ~shutdown
  /\ shutdown' = TRUE
  /\ UNCHANGED <<runtime, store, tasks, link>>

\* What supervisor k's task does next of itself.
SupervisorProgress(k) ==
  \/ Register(k) \/ Announce(k) \/ Connect(k) \/ WakeUp(k) \/ Stops(k)
  \/ Publish(k) \/ WriteConnection(k)

SupervisorStep(k) ==
  \/ SupervisorProgress(k)
  \/ SessionFails(k) \/ SessionEnds(k)
  \/ \E d \in Bambu, retained \in BOOLEAN : ReceiveReport(k, d, retained)

\* What the task of Moonraker device m does next of itself.
WorkerProgress(m) ==
  \/ MoonrakerAnnounce(m) \/ MoonrakerPublish(m) \/ WakeUp(m) \/ MoonrakerStops(m)

WorkerStep(m) ==
  \/ WorkerProgress(m)
  \/ MoonrakerConnect(m) \/ MoonrakerUpdate(m) \/ MoonrakerFails(m)
  \/ MoonrakerCloses(m)

Environment ==
  \/ Shutdown
  \/ \E k \in Targets : LinkComesUp(k)
  \/ \E s \in Sources : LinkGoesSilent(s)

Next ==
  \/ \E k \in Targets : SupervisorStep(k)
  \/ \E m \in Moonraker : WorkerStep(m)
  \/ Environment

(***************************************************************************)
(* Fairness.  A task that can run runs.  The event loop's connection       *)
(* attempt comes to an end, and its keep-alive notices a silent broker.    *)
(* A select! picks among its ready branches at random, so a shutdown is    *)
(* not passed over for ever.  Nothing is assumed of what the printers send *)
(* or of how sessions end.                                                 *)
(***************************************************************************)
Fairness ==
  /\ \A k \in Targets :
       /\ WF_vars(SupervisorProgress(k)) /\ SF_vars(Stops(k))
       /\ WF_vars(/\ sup[k] = "session" /\ link[k] = "none"
                  /\ LinkComesUp(k) \/ SessionFails(k))
       /\ WF_vars(link[k] = "silent" /\ SessionFails(k))
  /\ \A m \in Moonraker :
       /\ WF_vars(WorkerProgress(m)) /\ SF_vars(MoonrakerStops(m))
       /\ WF_vars(sup[m] = "connect" /\ (MoonrakerConnect(m) \/ MoonrakerFails(m)))

Spec == Init /\ [][Next]_vars /\ Fairness

-----------------------------------------------------------------------------
(* Safety.                                                                 *)

\* "a stale snapshot can't survive a reconnect": what a reader sees of a printer
\* was all received in the running session, whatever was retained by the broker,
\* merged before a loss, or written late.
NothingOldIsShown ==
  \A d \in Devices : store[d] # None => store[d].report \subseteq {"current"}

\* The runtime, from which thumbnails are fetched, and the store, from which the
\* pages are made, agree on every device whose supervisor is not in between the
\* two; and "a device is fresh iff its connection.status == Connected".
StoreFollowsRuntime ==
  \A k \in Targets : Ready(k) => \A d \in Elements(ids[k]) :
    /\ store[d] # None
    /\ store[d].report = reports[d]
    /\ store[d].status = (IF reports[d] # {} THEN "connected" ELSE ShownAs(k))
    /\ store[d].error = (k \in failed)

\* The store keeps the promise to its readers.
ShownOf(d) == IF store[d] = None THEN "absent" ELSE store[d].status
Promise == INSTANCE LivePromise WITH
  shown <- [d \in Devices |-> ShownOf(d)],
  report <- {d \in Devices : store[d] # None /\ store[d].report # {}}
ImplementsPromise == Promise!Spec

-----------------------------------------------------------------------------
(* Liveness.                                                               *)

\* A broker that is gone without a word is noticed, and its devices are no longer
\* shown as connected.
LostBrokerIsNoticed ==
  \A k \in Targets : \A d \in Elements(DeviceIds[k]) :
    (ShownOf(d) = "connected" /\ link[k] = "silent") ~> ShownOf(d) # "connected"

\* The same of a Moonraker printer, for the "connection health we observed".
LostPrinterIsNoticed ==
  \A m \in Moonraker :
    (ShownOf(m) = "connected" /\ link[m] = "silent") ~> ShownOf(m) # "connected"

\* A target's supervisor never gives up and never hangs in an attempt.
AttemptsGoOn ==
  \A k \in Targets :
    /\ []<>(sup[k] \in {"connect", "session"} \/ shutdown)
    /\ sup[k] = "connect" ~> sup[k] # "connect"

\* At the shutdown every supervisor and worker ends by itself, and the devices of
\* the brokers are shown as disconnected.
ShutdownEnds ==
  shutdown ~> /\ \A s \in Sources : sup[s] = "done"
              /\ \A d \in Bambu : ShownOf(d) = "disconnected"
=============================================================================
