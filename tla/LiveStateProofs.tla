--------------------------- MODULE LiveStateProofs ---------------------------
(***************************************************************************)
(* Proofs about LiveState, for every set of brokers and printers, every    *)
(* number of devices of a broker and every capacity of the request queue.  *)
(* The invariants are proved from a strengthening that says, of each       *)
(* supervisor and each worker by itself, what its place means for the      *)
(* records of its devices; a step of one leaves those of the others alone. *)
(***************************************************************************)
EXTENDS LiveState, TLAPS

\* The devices of a target.
Own(k) == Elements(DeviceIds[k])

\* A record of device d is shown and a report of it is expected.
Expecting(d) == store[d] # None /\ store[d].status \in {"connecting", "connected"}

\* What the store shows of device d of target k when nothing is left to write.
Matches(k, d) ==
  /\ store[d] # None
  /\ store[d].report = reports[d]
  /\ store[d].status = (IF reports[d] # {} THEN "connected" ELSE ShownAs(k))
  /\ store[d].error = (k \in failed)

\* The devices are registered in the supervisor's first step.
Registered(k) ==
  /\ sup[k] = "register" => ids[k] = <<>> /\ writing[k] = <<>>
  /\ sup[k] # "register" => ids[k] = DeviceIds[k]

\* The transport status belongs to the supervisor's place.
TransportFits(k) ==
  /\ sup[k] \in {"session", "publish"} => transport[k] = "connected" /\ k \notin failed
  /\ sup[k] = "connect" => transport[k] = "connecting"
  /\ sup[k] \notin {"connect", "session", "publish"} => transport[k] = "disconnected"

\* The runtime has a report of the running session only, and none before what the
\* session's beginning changes in the store is written.
ReportsFit(k) ==
  /\ \A d \in Own(k) : reports[d] \subseteq {"current"}
  /\ (sup[k] \notin {"session", "publish"} \/ (sup[k] = "session" /\ writing[k] # <<>>))
       => \A d \in Own(k) : reports[d] = {}

\* What is left to write; before and after a session begins, it turns no device
\* that is shown as connected to connecting.
WritesFit(k) ==
  /\ Elements(writing[k]) \subseteq Own(k)
  /\ (writing[k] # <<>> /\ sup[k] \in {"connect", "session"})
       => \A d \in Own(k) : store[d] # None /\ store[d].status # "connected"
  /\ sup[k] = "publish" =>
       \E d \in Own(k) : /\ writing[k] = <<d>>
                         /\ merged[k] = reports[d]
                         /\ reports[d] # {}
                         /\ Expecting(d)

\* Every device with nothing left to write is shown as the runtime has it, and
\* what is shown of the others is not old either.
StoreFits(k) ==
  /\ sup[k] # "register" =>
       \A d \in Own(k) : d \notin Elements(writing[k]) => Matches(k, d)
  /\ \A d \in Own(k) : store[d] # None =>
       /\ store[d].report \subseteq {"current"}
       /\ store[d].report # {} => store[d].status = "connected"

TargetInv(k) ==
  Registered(k) /\ TransportFits(k) /\ ReportsFit(k) /\ WritesFit(k) /\ StoreFits(k)

\* What a Moonraker worker's place means for the record of its printer.
WorkerInv(m) ==
  /\ store[m] # None =>
       /\ store[m].report \subseteq {"current"}
       /\ store[m].report # {} => store[m].status = "connected"
  /\ (sup[m] \in {"announce", "backoff"} /\ store[m] # None)
       => store[m].status = "disconnected"
  /\ sup[m] \in {"connect", "publish", "session"} => Expecting(m)
  /\ sup[m] = "connect" => store[m].report = {}

LiveInv ==
  /\ TypeOK
  /\ \A k \in Targets : TargetInv(k)
  /\ \A m \in Moonraker : WorkerInv(m)

-----------------------------------------------------------------------------
(* Sequences of devices.                                                   *)

LEMMA EmptyElements == Elements(<<>>) = {}
<1> QED
  BY DEF Elements

LEMMA SingleElement == \A d : Elements(<<d>>) = {d}
<1> QED
  BY DEF Elements

\* The elements of a sequence are its head and those of its tail.
LEMMA HeadAndTail ==
  ASSUME NEW S, NEW s \in Seq(S), s # <<>>
  PROVE  /\ Head(s) \in Elements(s)
         /\ Tail(s) \in Seq(S)
         /\ Elements(Tail(s)) \subseteq Elements(s)
         /\ \A d \in Elements(s) : d = Head(s) \/ d \in Elements(Tail(s))
<1>1. /\ Len(s) \in Nat \ {0}
      /\ DOMAIN s = 1..Len(s)
      /\ Head(s) = s[1]
      /\ Tail(s) \in Seq(S)
      /\ Len(Tail(s)) = Len(s) - 1
      /\ \A i \in 1..(Len(s) - 1) : Tail(s)[i] = s[i + 1]
  OBVIOUS
<1>2. DOMAIN Tail(s) = 1..(Len(s) - 1)
  BY <1>1
<1>3. Elements(Tail(s)) \subseteq Elements(s)
  <2> SUFFICES ASSUME NEW i \in 1..(Len(s) - 1)
               PROVE  \E j \in 1..Len(s) : Tail(s)[i] = s[j]
    BY <1>1, <1>2 DEF Elements
  <2> QED
    BY <1>1
<1>4. ASSUME NEW i \in 1..Len(s)
      PROVE  s[i] = Head(s) \/ s[i] \in Elements(Tail(s))
  <2>1. CASE i = 1
    BY <1>1, <2>1
  <2>2. CASE i # 1
    <3>1. i - 1 \in 1..(Len(s) - 1) /\ Tail(s)[i - 1] = s[i]
      BY <1>1, <2>2
    <3> QED
      BY <1>2, <3>1 DEF Elements
  <2> QED
    BY <2>1, <2>2
<1> QED
  BY <1>1, <1>3, <1>4 DEF Elements

\* Every device of a target is a Bambu device, no two targets have one in common,
\* and no Moonraker device is one of a target.
LEMMA OwnDevices ==
  /\ \A k \in Targets : DeviceIds[k] \in Seq(Bambu) /\ Own(k) \subseteq Bambu
  /\ \A j, k \in Targets : \A d \in Own(j) : d \in Own(k) => j = k
  /\ \A d \in Bambu : \E k \in Targets : d \in Own(k)
  /\ Bambu \subseteq Devices /\ Moonraker \subseteq Devices
  /\ Targets \subseteq Sources /\ Moonraker \subseteq Sources
  /\ \A m \in Moonraker : m \notin Bambu /\ m \notin Targets
<1>1. \A k \in Targets : Own(k) \subseteq Bambu
  BY DEF Own, Bambu
<1>2. \A d \in Bambu : \E k \in Targets : d \in Own(k)
  BY DEF Own, Bambu
<1>3. \A j, k \in Targets : \A d \in Own(j) : d \in Own(k) => j = k
  BY LiveAssumption DEF Own
<1> QED
  BY <1>1, <1>2, <1>3, LiveAssumption DEF Devices, Sources

-----------------------------------------------------------------------------
(* What a step leaves alone.                                               *)

\* Nothing of supervisor j and its devices changes.
TargetUntouched(j) ==
  /\ transport'[j] = transport[j]
  /\ (j \in failed') = (j \in failed)
  /\ ids'[j] = ids[j]
  /\ sup'[j] = sup[j]
  /\ writing'[j] = writing[j]
  /\ merged'[j] = merged[j]
  /\ \A d \in Own(j) : reports'[d] = reports[d] /\ store'[d] = store[d]

\* Nothing of the worker of printer m changes.
WorkerUntouched(m) == sup'[m] = sup[m] /\ store'[m] = store[m]

LEMMA TargetFrame ==
  ASSUME NEW j \in Targets, TargetInv(j), TargetUntouched(j)
  PROVE  TargetInv(j)'
<1>1. Registered(j)' /\ TransportFits(j)'
  BY DEF TargetInv, TargetUntouched, Registered, TransportFits
<1>2. ReportsFit(j)'
  BY DEF TargetInv, TargetUntouched, ReportsFit
<1>3. WritesFit(j)'
  BY DEF TargetInv, TargetUntouched, WritesFit, Expecting
<1>4. StoreFits(j)'
  BY DEF TargetInv, TargetUntouched, StoreFits, Matches, ShownAs
<1> QED
  BY <1>1, <1>2, <1>3, <1>4 DEF TargetInv

LEMMA WorkerFrame ==
  ASSUME NEW m \in Moonraker, WorkerInv(m), WorkerUntouched(m)
  PROVE  WorkerInv(m)'
<1> QED
  BY DEF WorkerInv, WorkerUntouched, Expecting

\* A step of supervisor k touches no other supervisor and no worker.
OnlyTarget(k) ==
  /\ \A j \in Targets \ {k} : TargetUntouched(j)
  /\ \A m \in Moonraker : WorkerUntouched(m)

LEMMA SupervisorStepIsItsOwn ==
  ASSUME TypeOK, NEW k \in Targets, TargetInv(k), SupervisorStep(k)
  PROVE  OnlyTarget(k)
<1> USE OwnDevices DEF OnlyTarget, TargetUntouched, WorkerUntouched, TypeOK
<1>1. CASE Register(k)
  BY <1>1 DEF Register, ThenWrite
<1>2. CASE Announce(k)
  BY <1>2 DEF Announce, ThenWrite
<1>3. CASE Connect(k)
  <2>1. Elements(ids[k]) \subseteq Own(k)
    BY <1>3, EmptyElements DEF Connect, TargetInv, Registered, Own, At
  <2> QED
    BY <1>3, <2>1 DEF Connect, ThenWrite, AgeReports
<1>4. CASE WakeUp(k)
  BY <1>4 DEF WakeUp, runtime
<1>5. CASE Stops(k)
  <2>1. Elements(ids[k]) \subseteq Own(k)
    BY EmptyElements DEF TargetInv, Registered, Own
  <2> QED
    BY <1>5, <2>1 DEF Stops, SetDisconnected, ClearReports, ThenWrite, runtime
<1>6. CASE Publish(k)
  BY <1>6, SingleElement DEF Publish, PublishReport, TargetInv, WritesFit, runtime
<1>7. CASE WriteConnection(k)
  <2>1. Head(writing[k]) \in Own(k)
    BY <1>7, HeadAndTail DEF WriteConnection, TargetInv, WritesFit
  <2> QED
    BY <1>7, <2>1 DEF WriteConnection, SetDeviceConnection, runtime
<1>8. CASE SessionFails(k)
  <2>1. Elements(ids[k]) \subseteq Own(k)
    BY EmptyElements DEF TargetInv, Registered, Own
  <2> QED
    BY <1>8, <2>1 DEF SessionFails, ClearReports, ThenWrite
<1>9. CASE SessionEnds(k)
  <2>1. Elements(ids[k]) \subseteq Own(k)
    BY EmptyElements DEF TargetInv, Registered, Own
  <2> QED
    BY <1>9, <2>1 DEF SessionEnds, SetDisconnected, ClearReports, ThenWrite
<1>10. ASSUME NEW d \in Bambu, NEW retained \in BOOLEAN, ReceiveReport(k, d, retained)
       PROVE  OnlyTarget(k)
  <2>1. d \in Own(k)
    BY <1>10 DEF ReceiveReport, Accepts, Own
  <2>2. \A e \in Bambu : e # d => reports'[e] = reports[e]
    BY <1>10 DEF ReceiveReport
  <2>3. \A s \in Sources : s # k => sup'[s] = sup[s]
    BY <1>10 DEF ReceiveReport
  <2>4. \A j \in Targets : j # k => merged'[j] = merged[j] /\ writing'[j] = writing[j]
    BY <1>10 DEF ReceiveReport
  <2>5. UNCHANGED <<transport, failed, ids, store>>
    BY <1>10 DEF ReceiveReport
  <2> QED
    BY <2>1, <2>2, <2>3, <2>4, <2>5
<1> QED
  BY <1>1, <1>2, <1>3, <1>4, <1>5, <1>6, <1>7, <1>8, <1>9, <1>10
     DEF SupervisorStep, SupervisorProgress

\* A step of the worker of printer m touches no supervisor and no other worker.
OnlyWorker(m) ==
  /\ \A j \in Targets : TargetUntouched(j)
  /\ \A n \in Moonraker \ {m} : WorkerUntouched(n)

LEMMA WorkerStepIsItsOwn ==
  ASSUME TypeOK, NEW m \in Moonraker, WorkerStep(m)
  PROVE  OnlyWorker(m)
<1>1. /\ UNCHANGED runtime /\ UNCHANGED <<writing, merged>>
      /\ \A s \in Sources : s # m => sup'[s] = sup[s]
      /\ \A d \in Devices : d # m => store'[d] = store[d]
  <2>1. CASE MoonrakerConnect(m)
    <3>1. \A d \in Bambu : d \notin {m}
      BY OwnDevices
    <3>2. reports' = [d \in Bambu |-> reports[d]]
      BY <2>1, <3>1 DEF MoonrakerConnect, AgeReports
    <3>3. reports' = reports
      BY <3>2 DEF TypeOK
    <3>4. \A d \in Devices : d # m => store'[d] = store[d]
      BY <2>1 DEF MoonrakerConnect, AgeReports, TypeOK
    <3> QED
      BY <2>1, <3>3, <3>4 DEF MoonrakerConnect, TypeOK, runtime
  <2>2. CASE ~MoonrakerConnect(m)
    BY <2>2 DEF WorkerStep, WorkerProgress, MoonrakerAnnounce, MoonrakerPublish, WakeUp,
         MoonrakerStops, MoonrakerUpdate, MoonrakerFails, MoonrakerCloses,
         SetDeviceConnection, PublishReport, TypeOK, runtime
  <2> QED
    BY <2>1, <2>2
<1> QED
  BY <1>1, OwnDevices DEF OnlyWorker, TargetUntouched, WorkerUntouched, runtime

LEMMA EnvironmentTouchesNothing ==
  ASSUME Environment \/ UNCHANGED vars
  PROVE  /\ \A j \in Targets : TargetUntouched(j)
         /\ \A m \in Moonraker : WorkerUntouched(m)
<1> QED
  BY DEF Environment, Shutdown, LinkComesUp, LinkGoesSilent, TargetUntouched,
       WorkerUntouched, runtime, tasks, vars

-----------------------------------------------------------------------------
(* Types.                                                                  *)

LEMMA TypeInit == Init => TypeOK
<1> SUFFICES ASSUME Init PROVE TypeOK
  OBVIOUS
<1> USE DEF Init
<1>1. transport \in [Targets -> Statuses] /\ failed \subseteq Targets
  BY DEF Statuses
<1>2. ids \in [Targets -> Seq(Bambu)] /\ writing \in [Targets -> Seq(Bambu)]
  OBVIOUS
<1>3. reports \in [Bambu -> SUBSET Ages] /\ merged \in [Targets -> SUBSET Ages]
  OBVIOUS
<1>4. store \in [Devices -> Record \cup {None}]
  OBVIOUS
<1>5. sup \in [Sources -> SupervisorStates]
  BY DEF SupervisorStates
<1>6. link \in [Sources -> Links]
  BY DEF Links
<1> QED
  BY <1>1, <1>2, <1>3, <1>4, <1>5, <1>6 DEF TypeOK

\* What the store's operations write is a record.
LEMMA RecordTypes ==
  /\ \A status \in Statuses, error \in BOOLEAN :
       [status |-> status, error |-> error, report |-> {}] \in Record
  /\ \A report \in SUBSET Ages :
       [status |-> "connected", error |-> FALSE, report |-> report] \in Record
<1> QED
  BY DEF Record, Statuses

\* When a session begins, reports get older, and stay of their type.
LEMMA AgedTypes ==
  ASSUME TypeOK, NEW ds, AgeReports(ds)
  PROVE  reports' \in [Bambu -> SUBSET Ages] /\ store' \in [Devices -> Record \cup {None}]
<1>1. \A report : Aged(report) \in SUBSET Ages
  BY DEF Aged, Ages
<1>2. ASSUME NEW d \in Devices, store[d] # None
      PROVE  [store[d] EXCEPT !.report = Aged(@)] \in Record
  <2>1. store[d] \in Record
    BY <1>2 DEF TypeOK
  <2> QED
    BY <1>1, <2>1 DEF Record
<1> QED
  BY <1>1, <1>2 DEF AgeReports, TypeOK

LEMMA SupervisorTypes ==
  ASSUME TypeOK, NEW k \in Targets, TargetInv(k), SupervisorStep(k)
  PROVE  TypeOK'
<1> USE OwnDevices DEF TypeOK
<1>1. "announce" \in SupervisorStates /\ "connect" \in SupervisorStates
      /\ "session" \in SupervisorStates /\ "publish" \in SupervisorStates
      /\ "backoff" \in SupervisorStates /\ "done" \in SupervisorStates
      /\ "disconnected" \in Statuses /\ "connecting" \in Statuses
      /\ "connected" \in Statuses /\ "none" \in Links
  BY DEF SupervisorStates, Statuses, Links
<1>2. CASE Register(k)
  BY <1>1, <1>2 DEF Register, ThenWrite
<1>3. CASE Announce(k)
  BY <1>1, <1>3 DEF Announce, ThenWrite
<1>4. CASE Connect(k)
  <2>1. reports' \in [Bambu -> SUBSET Ages] /\ store' \in [Devices -> Record \cup {None}]
    BY <1>4, AgedTypes DEF Connect
  <2> QED
    BY <1>1, <1>4, <2>1 DEF Connect, ThenWrite
<1>5. CASE WakeUp(k)
  BY <1>1, <1>5 DEF WakeUp, runtime
<1>6. CASE Stops(k)
  <2>1. UNCHANGED <<link, shutdown>>
    BY <1>6 DEF Stops
  <2>2. CASE SetDisconnected(k) /\ ThenWrite(k, ids[k], "done")
    BY <1>1, <2>1, <2>2 DEF SetDisconnected, ClearReports, ThenWrite
  <2>3. CASE /\ sup' = [sup EXCEPT ![k] = "done"]
             /\ UNCHANGED <<runtime, store, writing, merged>>
    BY <1>1, <2>1, <2>3 DEF runtime
  <2> QED
    BY <1>6, <2>2, <2>3 DEF Stops
<1>7. CASE Publish(k)
  <2>1. Head(writing[k]) \in Own(k)
    BY <1>7 DEF Publish, TargetInv, WritesFit
  <2> QED
    BY <1>1, <1>7, <2>1, RecordTypes DEF Publish, PublishReport, runtime
<1>8. CASE WriteConnection(k)
  <2>1. Tail(writing[k]) \in Seq(Bambu)
    BY <1>8 DEF WriteConnection
  <2>2. ShownAs(k) \in Statuses
    BY <1>1 DEF ShownAs
  <2> DEFINE error == k \in failed
             record == [status |-> ShownAs(k), error |-> error, report |-> {}]
  <2>3. error \in BOOLEAN
    OBVIOUS
  <2>4. store' = [store EXCEPT ![Head(writing[k])] = record]
    BY <1>8 DEF WriteConnection, SetDeviceConnection
  <2> HIDE DEF error
  <2>5. record \in Record
    BY <2>2, <2>3, RecordTypes
  <2> HIDE DEF record
  <2> QED
    BY <1>8, <2>1, <2>4, <2>5 DEF WriteConnection, runtime
<1>9. CASE SessionFails(k)
  BY <1>1, <1>9 DEF SessionFails, ClearReports, ThenWrite
<1>10. CASE SessionEnds(k)
  BY <1>1, <1>10 DEF SessionEnds, SetDisconnected, ClearReports, ThenWrite
<1>11. ASSUME NEW d \in Bambu, NEW retained \in BOOLEAN, ReceiveReport(k, d, retained)
       PROVE  TypeOK'
  <2>1. reports' \in [Bambu -> SUBSET Ages]
    BY <1>11 DEF ReceiveReport, Ages
  <2>2. merged' \in [Targets -> SUBSET Ages]
    BY <1>11, <2>1 DEF ReceiveReport
  <2>3. writing' \in [Targets -> Seq(Bambu)] /\ sup' \in [Sources -> SupervisorStates]
    BY <1>1, <1>11 DEF ReceiveReport
  <2> QED
    BY <1>11, <2>1, <2>2, <2>3 DEF ReceiveReport
<1> HIDE DEF TypeOK
<1> QED
  BY <1>2, <1>3, <1>4, <1>5, <1>6, <1>7, <1>8, <1>9, <1>10, <1>11
     DEF SupervisorStep, SupervisorProgress

LEMMA WorkerTypes ==
  ASSUME TypeOK, NEW m \in Moonraker, WorkerStep(m)
  PROVE  TypeOK'
<1>1. CASE MoonrakerConnect(m)
  <2>1. reports' \in [Bambu -> SUBSET Ages] /\ store' \in [Devices -> Record \cup {None}]
    BY <1>1, AgedTypes DEF MoonrakerConnect
  <2> QED
    BY <1>1, <2>1 DEF MoonrakerConnect, TypeOK, SupervisorStates, Links
<1>2. CASE MoonrakerPublish(m)
  <2>1. {"current"} \in SUBSET Ages
    BY DEF Ages
  <2> QED
    BY <1>2, <2>1, RecordTypes
       DEF MoonrakerPublish, PublishReport, TypeOK, SupervisorStates, runtime
<1>3. CASE MoonrakerAnnounce(m) \/ MoonrakerFails(m) \/ MoonrakerCloses(m)
  BY <1>3, RecordTypes DEF MoonrakerAnnounce, MoonrakerFails, MoonrakerCloses,
       SetDeviceConnection, TypeOK, SupervisorStates, Statuses, Links, runtime
<1>4. CASE WakeUp(m) \/ MoonrakerStops(m) \/ MoonrakerUpdate(m)
  BY <1>4 DEF WakeUp, MoonrakerStops, MoonrakerUpdate, TypeOK, SupervisorStates, runtime
<1> QED
  BY <1>1, <1>2, <1>3, <1>4 DEF WorkerStep, WorkerProgress

LEMMA EnvironmentTypes ==
  ASSUME TypeOK, Environment \/ UNCHANGED vars
  PROVE  TypeOK'
<1>1. CASE Environment
  BY <1>1 DEF Environment, Shutdown, LinkComesUp, LinkGoesSilent, TypeOK, Links,
       runtime, tasks
<1>2. CASE UNCHANGED vars
  BY <1>2 DEF TypeOK, vars
<1> QED
  BY <1>1, <1>2

-----------------------------------------------------------------------------
(* The steps of a supervisor.                                              *)

\* When a session begins there is nothing left of the one before.
LEMMA NothingToAge ==
  ASSUME TypeOK, NEW ds, AgeReports(ds),
         \A d \in ds : d \in Bambu => reports[d] = {},
         \A d \in ds : d \in Devices => store[d] = None \/ store[d].report = {}
  PROVE  reports' = reports /\ store' = store
<1>1. \A d \in Bambu : reports'[d] = reports[d]
  BY DEF AgeReports, Aged
<1>2. ASSUME NEW d \in Devices, d \in ds, store[d] # None
      PROVE  [store[d] EXCEPT !.report = Aged(@)] = store[d]
  <2>1. store[d] \in Record
    BY <1>2 DEF TypeOK
  <2>2. store[d].report = {}
    BY <1>2
  <2> QED
    BY <2>1, <2>2 DEF Record, Aged
<1>3. \A d \in Devices : store'[d] = store[d]
  BY <1>2 DEF AgeReports
<1>4. reports' = [d \in Bambu |-> reports'[d]] /\ store' = [d \in Devices |-> store'[d]]
  BY DEF AgeReports
<1> QED
  BY <1>1, <1>3, <1>4 DEF TypeOK

\* What a supervisor that is not in its first step has registered, and what it
\* may rely on when nothing is left to write.
LEMMA RegisteredDevices ==
  ASSUME NEW k \in Targets, TargetInv(k), sup[k] # "register"
  PROVE  /\ ids[k] = DeviceIds[k] /\ Elements(ids[k]) = Own(k)
         /\ Ready(k) => \A d \in Own(k) : Matches(k, d)
<1> QED
  BY EmptyElements DEF TargetInv, Registered, StoreFits, Own, Ready

LEMMA RegisterKeepsInv ==
  ASSUME TypeOK, NEW k \in Targets, TargetInv(k), Register(k)
  PROVE  TargetInv(k)'
<1>1. /\ sup[k] = "register" /\ sup'[k] = "announce"
      /\ ids'[k] = DeviceIds[k] /\ writing'[k] = DeviceIds[k]
      /\ UNCHANGED <<transport, failed, reports, store, merged>>
  BY OwnDevices DEF Register, At, ThenWrite, TypeOK
<1>2. Registered(k)' /\ TransportFits(k)' /\ ReportsFit(k)'
  BY <1>1 DEF TargetInv, Registered, TransportFits, ReportsFit
<1>3. WritesFit(k)' /\ StoreFits(k)'
  BY <1>1 DEF TargetInv, WritesFit, StoreFits, Own
<1> QED
  BY <1>2, <1>3 DEF TargetInv

LEMMA AnnounceKeepsInv ==
  ASSUME TypeOK, NEW k \in Targets, TargetInv(k), Announce(k)
  PROVE  TargetInv(k)'
<1>1. /\ sup[k] = "announce" /\ sup'[k] = "connect" /\ Ready(k)
      /\ transport'[k] = "connecting" /\ k \notin failed'
      /\ ids'[k] = ids[k] /\ writing'[k] = ids[k]
      /\ UNCHANGED <<reports, store, merged>>
  BY OwnDevices DEF Announce, At, ThenWrite, TypeOK
<1>2. Registered(k)' /\ TransportFits(k)' /\ ReportsFit(k)'
  BY <1>1 DEF TargetInv, Registered, TransportFits, ReportsFit
<1>3. \A d \in Own(k) : store[d] # None /\ store[d].status = "disconnected"
  BY <1>1, RegisteredDevices
     DEF TargetInv, TransportFits, ReportsFit, Matches, ShownAs
<1>4. WritesFit(k)' /\ StoreFits(k)'
  BY <1>1, <1>3, RegisteredDevices DEF TargetInv, WritesFit, StoreFits
<1> QED
  BY <1>2, <1>4 DEF TargetInv

\* A session that begins changes no report: there is none.
LEMMA ConnectAgesNothing ==
  ASSUME TypeOK, NEW k \in Targets, TargetInv(k), Connect(k)
  PROVE  UNCHANGED <<reports, store>>
<1>1. sup[k] = "connect" /\ Ready(k) /\ AgeReports(Elements(ids[k]))
  BY DEF Connect, At
<1>2. \A d \in Own(k) : Matches(k, d) /\ reports[d] = {}
  BY <1>1, RegisteredDevices DEF TargetInv, ReportsFit
<1>3. Elements(ids[k]) = Own(k)
  BY <1>1, RegisteredDevices
<1> QED
  BY <1>1, <1>2, <1>3, NothingToAge DEF Matches

LEMMA ConnectKeepsInv ==
  ASSUME TypeOK, NEW k \in Targets, TargetInv(k), Connect(k)
  PROVE  TargetInv(k)'
<1>1. /\ sup[k] = "connect" /\ sup'[k] = "session" /\ Ready(k)
      /\ transport'[k] = "connected" /\ k \notin failed'
      /\ ids'[k] = ids[k] /\ writing'[k] = ids[k]
      /\ UNCHANGED <<reports, store, merged>>
  BY OwnDevices, ConnectAgesNothing DEF Connect, At, ThenWrite, TypeOK
<1>2. Registered(k)' /\ TransportFits(k)' /\ ReportsFit(k)'
  BY <1>1 DEF TargetInv, Registered, TransportFits, ReportsFit
<1>3. \A d \in Own(k) : store[d] # None /\ store[d].status = "connecting"
  BY <1>1, RegisteredDevices
     DEF TargetInv, TransportFits, ReportsFit, Matches, ShownAs
<1>4. WritesFit(k)' /\ StoreFits(k)'
  BY <1>1, <1>3, RegisteredDevices DEF TargetInv, WritesFit, StoreFits
<1> QED
  BY <1>2, <1>4 DEF TargetInv

\* A supervisor that loses its session, or is told of the shutdown, has nothing
\* left of the session's reports.
LEMMA LossKeepsInv ==
  ASSUME TypeOK, NEW k \in Targets, TargetInv(k),
         sup[k] \in {"connect", "session"},
         sup'[k] \in {"announce", "backoff", "done"},
         transport'[k] = "disconnected",
         ClearReports(k), writing'[k] = ids[k], ids'[k] = ids[k], UNCHANGED store
  PROVE  TargetInv(k)'
<1>1. ids[k] = DeviceIds[k] /\ Elements(ids[k]) = Own(k)
  BY RegisteredDevices
<1>2. \A d \in Own(k) : reports'[d] = {}
  BY <1>1, OwnDevices DEF ClearReports
<1>3. Registered(k)' /\ TransportFits(k)' /\ ReportsFit(k)'
  BY <1>1, <1>2 DEF TargetInv, Registered, TransportFits, ReportsFit
<1>4. WritesFit(k)' /\ StoreFits(k)'
  BY <1>1 DEF TargetInv, WritesFit, StoreFits
<1> QED
  BY <1>3, <1>4 DEF TargetInv

LEMMA SessionFailsKeepsInv ==
  ASSUME TypeOK, NEW k \in Targets, TargetInv(k), SessionFails(k)
  PROVE  TargetInv(k)'
<1>1. /\ sup[k] \in {"connect", "session"} /\ sup'[k] = "backoff"
      /\ transport'[k] = "disconnected"
      /\ ClearReports(k) /\ writing'[k] = ids[k] /\ ids'[k] = ids[k] /\ UNCHANGED store
  BY OwnDevices DEF SessionFails, At, ThenWrite, TypeOK
<1> QED
  BY <1>1, LossKeepsInv

LEMMA SessionEndsKeepsInv ==
  ASSUME TypeOK, NEW k \in Targets, TargetInv(k), SessionEnds(k)
  PROVE  TargetInv(k)'
<1>1. /\ sup[k] = "session" /\ sup'[k] = "announce"
      /\ transport'[k] = "disconnected"
      /\ ClearReports(k) /\ writing'[k] = ids[k] /\ ids'[k] = ids[k] /\ UNCHANGED store
  BY OwnDevices DEF SessionEnds, SetDisconnected, At, ThenWrite, TypeOK
<1> QED
  BY <1>1, LossKeepsInv

\* A supervisor that leaves its sleep changes nothing but its place.
LEMMA SleepKeepsInv ==
  ASSUME NEW k \in Targets, TargetInv(k), Ready(k),
         sup[k] = "backoff", sup'[k] \in {"announce", "done"},
         UNCHANGED <<runtime, store, writing, merged>>
  PROVE  TargetInv(k)'
<1>1. Registered(k)' /\ TransportFits(k)' /\ ReportsFit(k)'
  BY DEF TargetInv, Registered, TransportFits, ReportsFit, runtime
<1>2. WritesFit(k)'
  BY DEF TargetInv, WritesFit, runtime
<1>3. StoreFits(k)'
  BY DEF TargetInv, StoreFits, Matches, ShownAs, runtime
<1> QED
  BY <1>1, <1>2, <1>3 DEF TargetInv

LEMMA StopsKeepsInv ==
  ASSUME TypeOK, NEW k \in Targets, TargetInv(k), Stops(k)
  PROVE  TargetInv(k)'
<1>1. CASE /\ At(k, "connect") \/ At(k, "session")
           /\ SetDisconnected(k)
           /\ ThenWrite(k, ids[k], "done")
  <2>1. /\ sup[k] \in {"connect", "session"} /\ sup'[k] = "done"
        /\ transport'[k] = "disconnected"
        /\ ClearReports(k) /\ writing'[k] = ids[k] /\ ids'[k] = ids[k] /\ UNCHANGED store
    BY <1>1, OwnDevices DEF SetDisconnected, At, ThenWrite, TypeOK
  <2> QED
    BY <2>1, LossKeepsInv
<1>2. CASE /\ At(k, "backoff")
           /\ sup' = [sup EXCEPT ![k] = "done"]
           /\ UNCHANGED <<runtime, store, writing, merged>>
  <2>1. sup[k] = "backoff" /\ sup'[k] = "done" /\ Ready(k)
    BY <1>2, OwnDevices DEF At, TypeOK
  <2> QED
    BY <1>2, <2>1, SleepKeepsInv
<1> QED
  BY <1>1, <1>2 DEF Stops

LEMMA WakeUpKeepsInv ==
  ASSUME TypeOK, NEW k \in Targets, TargetInv(k), WakeUp(k)
  PROVE  TargetInv(k)'
<1>1. /\ sup[k] = "backoff" /\ sup'[k] = "announce" /\ Ready(k)
      /\ UNCHANGED <<runtime, store, writing, merged>>
  BY OwnDevices DEF WakeUp, TypeOK
<1> QED
  BY <1>1, SleepKeepsInv

\* Only a message of the running session is merged.
LEMMA ReceiveReportKeepsInv ==
  ASSUME TypeOK, NEW k \in Targets, TargetInv(k),
         NEW d \in Bambu, NEW retained \in BOOLEAN, ReceiveReport(k, d, retained)
  PROVE  TargetInv(k)'
<1>1. d \in Own(k) /\ ~retained
  BY DEF ReceiveReport, Accepts, Own
<1>2. /\ sup[k] = "session" /\ Ready(k) /\ sup'[k] = "publish"
      /\ writing'[k] = <<d>> /\ merged'[k] = reports'[d]
      /\ UNCHANGED <<transport, failed, ids, store>>
  BY OwnDevices DEF ReceiveReport, At, TypeOK
<1>3. /\ reports'[d] = reports[d] \cup {"current"}
      /\ \A e \in Own(k) : e # d => reports'[e] = reports[e]
  BY <1>1, OwnDevices DEF ReceiveReport, TypeOK
<1>4. \A e \in Own(k) : Matches(k, e)
  BY <1>2, RegisteredDevices
<1>5. Registered(k)' /\ TransportFits(k)'
  BY <1>2 DEF TargetInv, Registered, TransportFits
<1>6. ReportsFit(k)'
  BY <1>2, <1>3 DEF TargetInv, ReportsFit
<1>7. WritesFit(k)'
  <2>1. Expecting(d)
    BY <1>1, <1>2, <1>4 DEF Expecting, Matches, ShownAs, TargetInv, TransportFits
  <2>2. Elements(writing'[k]) \subseteq Own(k)
    BY <1>1, <1>2, SingleElement
  <2> QED
    BY <1>1, <1>2, <1>3, <2>1, <2>2 DEF WritesFit, Expecting
<1>8. StoreFits(k)'
  <2>1. \A e \in Own(k) : e \notin Elements(writing'[k]) => e # d
    BY <1>2, SingleElement
  <2> QED
    BY <1>2, <1>3, <1>4, <2>1 DEF TargetInv, StoreFits, Matches, ShownAs
<1> QED
  BY <1>5, <1>6, <1>7, <1>8 DEF TargetInv

LEMMA PublishKeepsInv ==
  ASSUME TypeOK, NEW k \in Targets, TargetInv(k), Publish(k)
  PROVE  TargetInv(k)'
<1>1. PICK d \in Own(k) : /\ writing[k] = <<d>>
                          /\ merged[k] = reports[d]
                          /\ reports[d] # {}
  BY DEF Publish, TargetInv, WritesFit
<1>2. /\ sup[k] = "publish" /\ sup'[k] = "session" /\ writing'[k] = <<>>
      /\ UNCHANGED runtime
  BY OwnDevices DEF Publish, TypeOK
<1>3. d \in Devices /\ Head(writing[k]) = d
  BY <1>1, OwnDevices
<1>4. /\ store'[d] = [status |-> "connected", error |-> FALSE, report |-> reports[d]]
      /\ \A e \in Own(k) : e # d => store'[e] = store[e]
  BY <1>1, <1>3, OwnDevices DEF Publish, PublishReport, TypeOK
<1>5. transport[k] = "connected" /\ k \notin failed /\ reports[d] \subseteq {"current"}
  BY <1>2 DEF TargetInv, TransportFits, ReportsFit
<1>6. store'[d] # None
  <2>1. reports[d] \in SUBSET Ages
    BY <1>5 DEF Ages
  <2> QED
    BY <1>4, <2>1, RecordTypes, NoneAssumption
<1>7. Registered(k)' /\ TransportFits(k)' /\ ReportsFit(k)'
  BY <1>2 DEF TargetInv, Registered, TransportFits, ReportsFit, runtime
<1>8. WritesFit(k)'
  BY <1>2, EmptyElements DEF WritesFit
<1>9. StoreFits(k)'
  <2>1. Matches(k, d)'
    <3>1. store'[d].error = FALSE /\ k \notin failed'
      BY <1>2, <1>4, <1>5 DEF runtime
    <3>2. (k \in failed') = FALSE
      BY <3>1
    <3>3. store'[d].error = (k \in failed')
      BY <3>1, <3>2, Zenon
    <3>4. /\ store'[d].report = reports'[d]
          /\ store'[d].status = (IF reports'[d] # {} THEN "connected" ELSE ShownAs(k)')
      BY <1>1, <1>2, <1>4 DEF runtime
    <3> QED
      BY <1>6, <3>3, <3>4 DEF Matches
  <2>2. ASSUME NEW e \in Own(k), e # d
        PROVE  Matches(k, e)'
    <3>1. Matches(k, e)
      BY <1>1, <1>2, <2>2, SingleElement DEF TargetInv, StoreFits
    <3> QED
      BY <1>2, <1>4, <2>2, <3>1 DEF Matches, ShownAs, runtime
  <2>3. \A e \in Own(k) : store'[e] # None =>
          /\ store'[e].report \subseteq {"current"}
          /\ store'[e].report # {} => store'[e].status = "connected"
    BY <1>4, <1>5 DEF TargetInv, StoreFits
  <2> QED
    BY <2>1, <2>2, <2>3 DEF StoreFits
<1> QED
  BY <1>7, <1>8, <1>9 DEF TargetInv

\* The loop over the devices shows the next one as the runtime has it.
LEMMA WriteConnectionKeepsInv ==
  ASSUME TypeOK, NEW k \in Targets, TargetInv(k), WriteConnection(k)
  PROVE  TargetInv(k)'
<1> SUFFICES ASSUME NEW d, d = Head(writing[k]),
                    NEW error, error = (k \in failed)
             PROVE  TargetInv(k)'
  OBVIOUS
<1>1. /\ writing[k] # <<>> /\ writing[k] \in Seq(Bambu) /\ sup[k] # "publish"
      /\ writing'[k] = Tail(writing[k]) /\ sup'[k] = sup[k] /\ merged'[k] = merged[k]
      /\ UNCHANGED runtime
  BY DEF WriteConnection, TypeOK
<1>2. /\ d \in Own(k)
      /\ Elements(writing'[k]) \subseteq Own(k)
      /\ \A e \in Elements(writing[k]) : e = d \/ e \in Elements(writing'[k])
  BY <1>1, HeadAndTail DEF TargetInv, WritesFit
<1>3. store' = [store EXCEPT ![d] = [status |-> ShownAs(k), error |-> error, report |-> {}]]
  BY DEF WriteConnection, SetDeviceConnection
<1>4. error \in BOOLEAN
  OBVIOUS
<1>5. /\ store'[d] = [status |-> ShownAs(k), error |-> error, report |-> {}]
      /\ \A e \in Own(k) : e # d => store'[e] = store[e]
  BY <1>2, <1>3, OwnDevices DEF TypeOK
<1>6. ShownAs(k) \in {"disconnected", "connecting"}
  BY DEF ShownAs
<1>7. store'[d] # None
  BY <1>4, <1>5, <1>6, RecordTypes, NoneAssumption DEF Statuses
<1>8. sup[k] # "register" /\ \A e \in Own(k) : reports[e] = {}
  BY <1>1 DEF TargetInv, Registered, ReportsFit
<1>9. Registered(k)' /\ TransportFits(k)' /\ ReportsFit(k)'
  BY <1>1, <1>8 DEF TargetInv, Registered, TransportFits, ReportsFit, runtime
<1>10. WritesFit(k)'
  <2>1. (sup[k] \in {"connect", "session"})
          => \A e \in Own(k) : store'[e] # None /\ store'[e].status # "connected"
    BY <1>1, <1>5, <1>6, <1>7 DEF TargetInv, WritesFit
  <2> QED
    BY <1>1, <1>2, <2>1 DEF WritesFit
<1>11. StoreFits(k)'
  <2>1. Matches(k, d)'
    <3>1. ShownAs(k)' = ShownAs(k) /\ (k \in failed') = (k \in failed)
      BY <1>1 DEF ShownAs, runtime
    <3>2. store'[d].error = (k \in failed')
      BY <1>5, <3>1
    <3> QED
      BY <1>1, <1>2, <1>5, <1>7, <1>8, <3>1, <3>2 DEF Matches, runtime
  <2>2. ASSUME NEW e \in Own(k), e # d, e \notin Elements(writing'[k])
        PROVE  Matches(k, e)'
    <3>1. Matches(k, e)
      BY <1>2, <1>8, <2>2 DEF TargetInv, StoreFits
    <3> QED
      BY <1>1, <1>5, <2>2, <3>1 DEF Matches, ShownAs, runtime
  <2>3. \A e \in Own(k) : store'[e] # None =>
          /\ store'[e].report \subseteq {"current"}
          /\ store'[e].report # {} => store'[e].status = "connected"
    BY <1>5 DEF TargetInv, StoreFits
  <2> QED
    BY <2>1, <2>2, <2>3 DEF StoreFits
<1> QED
  BY <1>9, <1>10, <1>11 DEF TargetInv

LEMMA SupervisorKeepsInv ==
  ASSUME TypeOK, NEW k \in Targets, TargetInv(k), SupervisorStep(k)
  PROVE  TargetInv(k)'
<1>1. CASE Register(k) \/ Announce(k) \/ Connect(k)
  BY <1>1, RegisterKeepsInv, AnnounceKeepsInv, ConnectKeepsInv
<1>2. CASE WakeUp(k) \/ Stops(k)
  BY <1>2, WakeUpKeepsInv, StopsKeepsInv
<1>3. CASE Publish(k) \/ WriteConnection(k)
  BY <1>3, PublishKeepsInv, WriteConnectionKeepsInv
<1>4. CASE SessionFails(k) \/ SessionEnds(k)
  BY <1>4, SessionFailsKeepsInv, SessionEndsKeepsInv
<1>5. ASSUME NEW d \in Bambu, NEW retained \in BOOLEAN, ReceiveReport(k, d, retained)
      PROVE  TargetInv(k)'
  BY <1>5, ReceiveReportKeepsInv
<1> QED
  BY <1>1, <1>2, <1>3, <1>4, <1>5 DEF SupervisorStep, SupervisorProgress

-----------------------------------------------------------------------------
(* The steps of a Moonraker worker.                                        *)

LEMMA WorkerKeepsInv ==
  ASSUME TypeOK, NEW m \in Moonraker, WorkerInv(m), WorkerStep(m)
  PROVE  WorkerInv(m)'
<1> USE OwnDevices
<1>1. CASE MoonrakerConnect(m)
  <2>1. UNCHANGED store
    BY <1>1, NothingToAge DEF MoonrakerConnect, WorkerInv, Expecting
  <2>2. sup[m] = "connect" /\ sup'[m] = "publish"
    BY <1>1 DEF MoonrakerConnect, TypeOK
  <2> QED
    BY <2>1, <2>2 DEF WorkerInv, Expecting
<1>2. CASE MoonrakerUpdate(m) \/ MoonrakerStops(m) \/ WakeUp(m)
  <2>1. /\ UNCHANGED store
        /\ \/ sup[m] = "session" /\ sup'[m] = "publish"
           \/ sup'[m] = "done"
           \/ sup[m] = "backoff" /\ sup'[m] = "announce"
    BY <1>2 DEF MoonrakerUpdate, MoonrakerStops, WakeUp, TypeOK
  <2> QED
    BY <2>1 DEF WorkerInv, Expecting
<1>3. CASE MoonrakerAnnounce(m)
  <2>1. /\ sup'[m] = "connect"
        /\ store'[m] = [status |-> "connecting", error |-> FALSE, report |-> {}]
    BY <1>3 DEF MoonrakerAnnounce, SetDeviceConnection, TypeOK
  <2>2. store'[m] # None
    BY <2>1, RecordTypes, NoneAssumption DEF Statuses
  <2> QED
    BY <2>1, <2>2 DEF WorkerInv, Expecting
<1>4. CASE MoonrakerPublish(m)
  <2>1. /\ sup'[m] = "session"
        /\ store'[m] = [status |-> "connected", error |-> FALSE, report |-> {"current"}]
    BY <1>4 DEF MoonrakerPublish, PublishReport, TypeOK
  <2>2. store'[m] # None
    BY <2>1, RecordTypes, NoneAssumption DEF Ages
  <2> QED
    BY <2>1, <2>2 DEF WorkerInv, Expecting
<1>5. CASE MoonrakerFails(m) \/ MoonrakerCloses(m)
  <2>1. /\ sup'[m] \in {"backoff", "announce"}
        /\ store'[m].status = "disconnected" /\ store'[m].report = {}
    BY <1>5 DEF MoonrakerFails, MoonrakerCloses, SetDeviceConnection, TypeOK
  <2> QED
    BY <2>1 DEF WorkerInv, Expecting
<1> QED
  BY <1>1, <1>2, <1>3, <1>4, <1>5 DEF WorkerStep, WorkerProgress

-----------------------------------------------------------------------------
(* The strengthening is inductive.                                         *)

LEMMA InitLiveInv == Init => LiveInv
<1> SUFFICES ASSUME Init PROVE LiveInv
  OBVIOUS
<1>1. TypeOK
  BY TypeInit
<1>2. ASSUME NEW k \in Targets PROVE TargetInv(k)
  <2>1. sup[k] = "register" /\ writing[k] = <<>> /\ ids[k] = <<>> /\ transport[k] = "disconnected"
    BY OwnDevices DEF Init
  <2>2. \A d \in Own(k) : reports[d] = {} /\ store[d] = None
    BY OwnDevices DEF Init
  <2> QED
    BY <2>1, <2>2, EmptyElements
       DEF TargetInv, Registered, TransportFits, ReportsFit, WritesFit, StoreFits
<1>3. ASSUME NEW m \in Moonraker PROVE WorkerInv(m)
  <2>1. sup[m] = "announce" /\ store[m] = None
    BY OwnDevices DEF Init
  <2> QED
    BY <2>1 DEF WorkerInv
<1> QED
  BY <1>1, <1>2, <1>3 DEF LiveInv

LEMMA NextLiveInv == LiveInv /\ [Next]_vars => LiveInv'
<1> SUFFICES ASSUME LiveInv, [Next]_vars PROVE LiveInv'
  OBVIOUS
<1>1. ASSUME NEW k \in Targets, SupervisorStep(k) PROVE LiveInv'
  <2>1. TypeOK' /\ TargetInv(k)' /\ OnlyTarget(k)
    BY <1>1, SupervisorTypes, SupervisorKeepsInv, SupervisorStepIsItsOwn DEF LiveInv
  <2>2. \A j \in Targets : j # k => TargetInv(j)'
    BY <2>1, TargetFrame DEF LiveInv, OnlyTarget
  <2>3. \A m \in Moonraker : WorkerInv(m)'
    BY <2>1, WorkerFrame DEF LiveInv, OnlyTarget
  <2> QED
    BY <2>1, <2>2, <2>3 DEF LiveInv
<1>2. ASSUME NEW m \in Moonraker, WorkerStep(m) PROVE LiveInv'
  <2>1. TypeOK' /\ WorkerInv(m)' /\ OnlyWorker(m)
    BY <1>2, WorkerTypes, WorkerKeepsInv, WorkerStepIsItsOwn DEF LiveInv
  <2>2. \A j \in Targets : TargetInv(j)'
    BY <2>1, TargetFrame DEF LiveInv, OnlyWorker
  <2>3. \A n \in Moonraker : n # m => WorkerInv(n)'
    BY <2>1, WorkerFrame DEF LiveInv, OnlyWorker
  <2> QED
    BY <2>1, <2>2, <2>3 DEF LiveInv
<1>3. CASE Environment \/ UNCHANGED vars
  <2>1. TypeOK'
    BY <1>3, EnvironmentTypes DEF LiveInv
  <2>2. /\ \A j \in Targets : TargetInv(j)'
        /\ \A m \in Moonraker : WorkerInv(m)'
    BY <1>3, EnvironmentTouchesNothing, TargetFrame, WorkerFrame DEF LiveInv
  <2> QED
    BY <2>1, <2>2 DEF LiveInv
<1> QED
  BY <1>1, <1>2, <1>3 DEF Next

\* The strengthening holds in every reachable state.
THEOREM LiveStateInvariant == Spec => []LiveInv
<1> QED
  BY InitLiveInv, NextLiveInv, PTL DEF Spec

\* Every state of the live store and of its writers is well typed.
THEOREM LiveTypeCorrect == Spec => []TypeOK
<1>1. LiveInv => TypeOK
  BY DEF LiveInv
<1> QED
  BY <1>1, LiveStateInvariant, PTL

\* What a reader sees of a printer was all received in the running session.
THEOREM ReportsAreCurrent == Spec => []NothingOldIsShown
<1>1. LiveInv => NothingOldIsShown
  BY OwnDevices DEF LiveInv, TargetInv, StoreFits, WorkerInv, NothingOldIsShown, Devices
<1> QED
  BY <1>1, LiveStateInvariant, PTL

\* The runtime and the store agree on every device with nothing left to write.
THEOREM StoreAgreesWithRuntime == Spec => []StoreFollowsRuntime
<1>1. LiveInv => StoreFollowsRuntime
  <2> SUFFICES ASSUME LiveInv, NEW k \in Targets, Ready(k), NEW d \in Elements(ids[k])
               PROVE  Matches(k, d)
    BY DEF StoreFollowsRuntime, Matches
  <2>1. TargetInv(k)
    BY DEF LiveInv
  <2>2. sup[k] # "register"
    BY <2>1, EmptyElements DEF TargetInv, Registered
  <2> QED
    BY <2>1, <2>2, RegisteredDevices
<1> QED
  BY <1>1, LiveStateInvariant, PTL

-----------------------------------------------------------------------------
(* The store keeps its promise.                                            *)

\* The state of the abstract specification.
ShownNow == [d \in Devices |-> ShownOf(d)]
ReportsNow == {d \in Devices : store[d] # None /\ store[d].report # {}}

\* A report is shown only of a connected device.
LEMMA ReportsAreOfConnected ==
  ASSUME LiveInv, NEW d \in Devices
  PROVE  /\ d \in ReportsNow => ShownOf(d) = "connected"
         /\ ShownOf(d) \in {"absent", "disconnected", "connecting", "connected"}
<1>1. d \in Bambu \/ d \in Moonraker
  BY DEF Devices
<1>2. store[d] # None /\ store[d].report # {} => store[d].status = "connected"
  BY <1>1, OwnDevices DEF LiveInv, TargetInv, StoreFits, WorkerInv
<1>3. store[d] # None => store[d].status \in Statuses
  BY DEF LiveInv, TypeOK, Record
<1> QED
  BY <1>2, <1>3 DEF ReportsNow, ShownOf, Statuses

\* A step that writes one record changes the abstract state of that device only.
LEMMA OneRecord ==
  ASSUME NEW d \in Devices, NEW record, record # None,
         TypeOK, store' = [store EXCEPT ![d] = record]
  PROVE  /\ ShownNow' = [ShownNow EXCEPT ![d] = record.status]
         /\ ReportsNow' = IF record.report # {} THEN ReportsNow \cup {d}
                          ELSE ReportsNow \ {d}
<1>1. store'[d] = record /\ \A e \in Devices : e # d => store'[e] = store[e]
  BY DEF TypeOK
<1>2. ShownOf(d)' = record.status
  BY <1>1 DEF ShownOf
<1>3. \A e \in Devices : e # d => ShownOf(e)' = ShownOf(e)
  BY <1>1 DEF ShownOf
<1>4. ShownNow' = [ShownNow EXCEPT ![d] = record.status]
  BY <1>2, <1>3 DEF ShownNow
<1>5. ReportsNow' = IF record.report # {} THEN ReportsNow \cup {d} ELSE ReportsNow \ {d}
  BY <1>1 DEF ReportsNow
<1> QED
  BY <1>4, <1>5

\* A device shown as disconnected: its session is lost or the first one is to be
\* tried, or nothing changes.
LEMMA DisconnectedIsAllowed ==
  ASSUME LiveInv, NEW d \in Devices, NEW error \in BOOLEAN,
         SetDeviceConnection(d, "disconnected", error)
  PROVE  Promise!Announce(d) \/ Promise!Lose(d) \/ UNCHANGED <<ShownNow, ReportsNow>>
<1> DEFINE record == [status |-> "disconnected", error |-> error, report |-> {}]
<1>1. record # None
  BY RecordTypes, NoneAssumption DEF Statuses
<1>2. /\ ShownNow' = [ShownNow EXCEPT ![d] = "disconnected"]
      /\ ReportsNow' = ReportsNow \ {d}
  <2>1. /\ store' = [store EXCEPT ![d] = record]
        /\ record.status = "disconnected" /\ record.report = {}
    BY DEF SetDeviceConnection
  <2> HIDE DEF record
  <2> QED
    BY <1>1, <2>1, OneRecord DEF LiveInv
<1>3. ShownNow[d] = ShownOf(d) /\ ShownNow = [e \in Devices |-> ShownNow[e]]
  BY DEF ShownNow
<1>4. CASE ShownOf(d) = "absent"
  <2>1. ReportsNow' = ReportsNow
    BY <1>2, <1>4, ReportsAreOfConnected
  <2> QED
    BY <1>2, <1>3, <1>4, <2>1 DEF Promise!Announce, ShownNow, ReportsNow
<1>5. CASE ShownOf(d) \in {"connecting", "connected"}
  BY <1>2, <1>3, <1>5 DEF Promise!Lose, ShownNow, ReportsNow
<1>6. CASE ShownOf(d) = "disconnected"
  <2>1. ReportsNow' = ReportsNow
    BY <1>2, <1>6, ReportsAreOfConnected
  <2>2. ShownNow' = ShownNow
    BY <1>2, <1>3, <1>6
  <2> QED
    BY <2>1, <2>2
<1> QED
  BY <1>4, <1>5, <1>6, ReportsAreOfConnected

\* A device that is not connected shown as connecting.
LEMMA ConnectingIsAllowed ==
  ASSUME LiveInv, NEW d \in Devices, NEW error \in BOOLEAN, ShownOf(d) # "connected",
         SetDeviceConnection(d, "connecting", error)
  PROVE  Promise!Announce(d) \/ UNCHANGED <<ShownNow, ReportsNow>>
<1> DEFINE record == [status |-> "connecting", error |-> error, report |-> {}]
<1>1. record # None
  BY RecordTypes, NoneAssumption DEF Statuses
<1>2. /\ ShownNow' = [ShownNow EXCEPT ![d] = "connecting"]
      /\ ReportsNow' = ReportsNow \ {d}
  <2>1. /\ store' = [store EXCEPT ![d] = record]
        /\ record.status = "connecting" /\ record.report = {}
    BY DEF SetDeviceConnection
  <2> HIDE DEF record
  <2> QED
    BY <1>1, <2>1, OneRecord DEF LiveInv
<1>3. ShownNow[d] = ShownOf(d) /\ ShownNow = [e \in Devices |-> ShownNow[e]]
  BY DEF ShownNow
<1>4. ReportsNow' = ReportsNow
  BY <1>2, ReportsAreOfConnected
<1>5. CASE ShownOf(d) \in {"absent", "disconnected"}
  BY <1>2, <1>3, <1>4, <1>5 DEF Promise!Announce, ShownNow, ReportsNow
<1>6. CASE ShownOf(d) = "connecting"
  <2>1. ShownNow' = ShownNow
    BY <1>2, <1>3, <1>6
  <2> QED
    BY <1>4, <2>1
<1> QED
  BY <1>5, <1>6, ReportsAreOfConnected

\* A report of a device of which one is expected.
LEMMA ReportIsAllowed ==
  ASSUME LiveInv, NEW d \in Devices, Expecting(d),
         NEW report \in SUBSET Ages, report # {}, PublishReport(d, report)
  PROVE  Promise!Report(d)
<1> DEFINE record == [status |-> "connected", error |-> FALSE, report |-> report]
<1>1. record # None
  BY RecordTypes, NoneAssumption
<1>2. /\ ShownNow' = [ShownNow EXCEPT ![d] = "connected"]
      /\ ReportsNow' = ReportsNow \cup {d}
  <2>1. /\ store' = [store EXCEPT ![d] = record]
        /\ record.status = "connected" /\ record.report # {}
    BY DEF PublishReport
  <2> HIDE DEF record
  <2> QED
    BY <1>1, <2>1, OneRecord DEF LiveInv
<1>3. ShownNow[d] \in {"connecting", "connected"}
  BY DEF ShownNow, ShownOf, Expecting
<1> QED
  BY <1>2, <1>3 DEF Promise!Report, ShownNow, ReportsNow

LEMMA SupervisorKeepsPromise ==
  ASSUME LiveInv, NEW k \in Targets, SupervisorStep(k)
  PROVE  (\E d \in Devices : Promise!Announce(d) \/ Promise!Report(d) \/ Promise!Lose(d))
         \/ UNCHANGED <<ShownNow, ReportsNow>>
<1> USE OwnDevices
<1>1. TypeOK /\ TargetInv(k)
  BY DEF LiveInv
<1>2. CASE Publish(k)
  <2>1. PICK d \in Own(k) : /\ writing[k] = <<d>> /\ merged[k] = reports[d]
                            /\ reports[d] # {} /\ Expecting(d)
    BY <1>1, <1>2 DEF Publish, TargetInv, WritesFit
  <2>2. d \in Devices /\ reports[d] \in SUBSET Ages /\ PublishReport(d, reports[d])
    BY <1>1, <1>2, <2>1 DEF Publish, TypeOK
  <2> QED
    BY <2>1, <2>2, ReportIsAllowed
<1>3. CASE WriteConnection(k)
  <2> SUFFICES ASSUME NEW d, d = Head(writing[k]),
                      NEW error, error = (k \in failed)
               PROVE  (\E e \in Devices : Promise!Announce(e) \/ Promise!Lose(e))
                      \/ UNCHANGED <<ShownNow, ReportsNow>>
    OBVIOUS
  <2>1. d \in Own(k) /\ d \in Devices /\ error \in BOOLEAN
    BY <1>1, <1>3, HeadAndTail DEF WriteConnection, TypeOK, TargetInv, WritesFit
  <2>2. SetDeviceConnection(d, ShownAs(k), error)
    BY <1>3 DEF WriteConnection
  <2>3. CASE transport[k] = "disconnected"
    BY <2>1, <2>2, <2>3, DisconnectedIsAllowed DEF ShownAs
  <2>4. CASE transport[k] # "disconnected"
    <3>1. sup[k] \in {"connect", "session"}
      BY <1>1, <1>3, <2>4 DEF WriteConnection, TargetInv, TransportFits
    <3>2. ShownOf(d) # "connected"
      BY <1>1, <1>3, <2>1, <3>1 DEF WriteConnection, TargetInv, WritesFit, ShownOf
    <3> QED
      BY <2>1, <2>2, <2>4, <3>2, ConnectingIsAllowed DEF ShownAs
  <2> QED
    BY <2>3, <2>4
<1>4. CASE ~Publish(k) /\ ~WriteConnection(k)
  <2>1. UNCHANGED store
    <3>1. CASE Connect(k)
      BY <1>1, <3>1, ConnectAgesNothing
    <3>2. CASE ~Connect(k)
      BY <1>4, <3>2 DEF SupervisorStep, SupervisorProgress, Register, Announce, WakeUp,
           Stops, SetDisconnected, SessionFails, SessionEnds, ReceiveReport
    <3> QED
      BY <3>1, <3>2
  <2> QED
    BY <2>1 DEF ShownNow, ShownOf, ReportsNow
<1> QED
  BY <1>2, <1>3, <1>4

LEMMA WorkerKeepsPromise ==
  ASSUME LiveInv, NEW m \in Moonraker, WorkerStep(m)
  PROVE  (\E d \in Devices : Promise!Announce(d) \/ Promise!Report(d) \/ Promise!Lose(d))
         \/ UNCHANGED <<ShownNow, ReportsNow>>
<1> USE OwnDevices
<1>1. TypeOK /\ WorkerInv(m)
  BY DEF LiveInv
<1>2. CASE MoonrakerAnnounce(m)
  <2>1. ShownOf(m) # "connected" /\ SetDeviceConnection(m, "connecting", FALSE)
    BY <1>1, <1>2 DEF MoonrakerAnnounce, WorkerInv, ShownOf
  <2> QED
    BY <2>1, ConnectingIsAllowed
<1>3. CASE MoonrakerPublish(m)
  <2>1. Expecting(m) /\ PublishReport(m, {"current"}) /\ {"current"} \in SUBSET Ages
    BY <1>1, <1>3 DEF MoonrakerPublish, WorkerInv, Ages
  <2> QED
    BY <2>1, ReportIsAllowed
<1>4. CASE MoonrakerFails(m) \/ MoonrakerCloses(m)
  <2>1. \E error \in BOOLEAN : SetDeviceConnection(m, "disconnected", error)
    BY <1>4 DEF MoonrakerFails, MoonrakerCloses
  <2> QED
    BY <2>1, DisconnectedIsAllowed
<1>5. CASE MoonrakerConnect(m) \/ MoonrakerUpdate(m) \/ MoonrakerStops(m) \/ WakeUp(m)
  <2>1. UNCHANGED store
    BY <1>1, <1>5, NothingToAge
       DEF MoonrakerConnect, MoonrakerUpdate, MoonrakerStops, WakeUp, WorkerInv, Expecting
  <2> QED
    BY <2>1 DEF ShownNow, ShownOf, ReportsNow
<1> QED
  BY <1>2, <1>3, <1>4, <1>5 DEF WorkerStep, WorkerProgress

\* The store, the runtime and everybody who writes them implement the promise.
THEOREM StoreKeepsPromise == Spec => ImplementsPromise
<1>1. Init => Promise!Init
  <2> SUFFICES ASSUME Init PROVE Promise!Init
    OBVIOUS
  <2>1. \A d \in Devices : store[d] = None
    BY DEF Init
  <2> QED
    BY <2>1 DEF Promise!Init, ShownOf
<1>2. LiveInv /\ [Next]_vars => [Promise!Next]_(Promise!vars)
  <2> SUFFICES ASSUME LiveInv, [Next]_vars
               PROVE  (\E d \in Devices : Promise!Announce(d) \/ Promise!Report(d) \/ Promise!Lose(d))
                      \/ UNCHANGED <<ShownNow, ReportsNow>>
    BY DEF Promise!Next, Promise!vars, ShownNow, ReportsNow
  <2>1. CASE Environment \/ UNCHANGED vars
    <3>1. UNCHANGED store
      BY <2>1 DEF Environment, Shutdown, LinkComesUp, LinkGoesSilent, vars
    <3> QED
      BY <3>1 DEF ShownNow, ShownOf, ReportsNow
  <2> QED
    BY <2>1, SupervisorKeepsPromise, WorkerKeepsPromise DEF Next
<1> QED
  BY <1>1, <1>2, LiveStateInvariant, PTL DEF Spec, ImplementsPromise, Promise!Spec

-----------------------------------------------------------------------------
(* A broker with too many devices.                                         *)

\* Supervisor k has not got a session.
NoSession(k) == sup[k] \notin {"session", "publish"}

\* A supervisor whose requests do not fit into the request queue never gets a
\* session, whatever happens: with a queue of 32, one of more than 16 devices.
THEOREM CrowdedBrokerHasNoSession ==
  ASSUME NEW k \in Targets, 2 * Len(DeviceIds[k]) > RequestCapacity
  PROVE  Spec => []NoSession(k)
<1>1. ~RequestsFit(k)
  BY OwnDevices, LiveAssumption DEF RequestsFit
<1>2. Init => NoSession(k)
  BY OwnDevices DEF Init, NoSession
<1>3. LiveInv /\ NoSession(k) /\ [Next]_vars => NoSession(k)'
  <2> SUFFICES ASSUME LiveInv, NoSession(k), [Next]_vars
               PROVE  NoSession(k)'
    OBVIOUS
  <2>1. CASE SupervisorStep(k)
    BY <1>1, <2>1, OwnDevices
       DEF SupervisorStep, SupervisorProgress, Register, Announce, Connect, WakeUp, Stops,
           Publish, WriteConnection, SessionFails, SessionEnds, ReceiveReport, At, ThenWrite,
           NoSession, LiveInv, TypeOK
  <2>2. CASE \E j \in Targets : j # k /\ SupervisorStep(j)
    BY <2>2, SupervisorStepIsItsOwn
       DEF LiveInv, OnlyTarget, TargetUntouched, NoSession
  <2>3. CASE \E m \in Moonraker : WorkerStep(m)
    BY <2>3, WorkerStepIsItsOwn DEF LiveInv, OnlyWorker, TargetUntouched, NoSession
  <2>4. CASE Environment \/ UNCHANGED vars
    BY <2>4, EnvironmentTouchesNothing DEF TargetUntouched, NoSession
  <2> QED
    BY <2>1, <2>2, <2>3, <2>4 DEF Next
<1> QED
  BY <1>2, <1>3, LiveStateInvariant, PTL DEF Spec
=============================================================================
