---------------------------- MODULE DeviceCatalog ----------------------------
(***************************************************************************)
(* How the devices of the service are resolved when it starts              *)
(* (devices/resolve.rs, registry.rs, access.rs, video.rs, and the MQTT      *)
(* targets and video sources made of the registry).                        *)
(*                                                                         *)
(* The command line names cloud devices by their id, and endpoints: of     *)
(* local Bambu printers, of their cameras, and of Moonraker printers.  A    *)
(* probe tells whose endpoint it is.  Probes run together and answer in    *)
(* any order, and any of them may fail.  Codes are told apart by where     *)
(* they come from: the device's own flag, the camera's flag, the cloud.    *)
(***************************************************************************)
EXTENDS Naturals, Sequences, SequencesExt

CONSTANTS
  None,            \* no value
  Configurations,  \* the command lines and cloud accounts considered
  Concurrency      \* STARTUP_PROBE_CONCURRENCY

\* session   there is a cloud token
\* cloud     the ids of --bbl-cloud-device
\* local     --bbl-local-device: the device that answers there, and the code
\* video     --bbl-video-device: the same, and whether it is the printer's default endpoint
\* snap      --snap-device: the serial number that answers there
\* bind      the account's devices, with the codes the cloud tells
IsList(s) == s \in Seq(ToSet(s))
CatalogAssumption ==
  /\ Concurrency \in Nat \ {0}
  /\ None \notin {"flag", "video", "bind", "default", "other", "nothing"}
  /\ \A c \in Configurations :
       /\ DOMAIN c = {"session", "cloud", "local", "video", "snap", "bind"}
       /\ c.session \in BOOLEAN
       /\ IsList(c.cloud) /\ IsList(c.local) /\ IsList(c.video) /\ IsList(c.snap) /\ IsList(c.bind)
       /\ c.bind # None
       /\ \A i \in DOMAIN c.local : c.local[i].id # None /\ c.local[i].code \in {None, "flag"}
       /\ \A i \in DOMAIN c.video :
            /\ c.video[i].id # None /\ c.video[i].code \in {None, "video"}
            /\ c.video[i].at \in {"default", "other"}
       /\ \A i \in DOMAIN c.snap : c.snap[i] # None
       /\ \A i \in DOMAIN c.bind : c.bind[i].code \in {None, "bind"}

VARIABLES
  config,     \* the configuration
  place,      \* the step of resolve_devices and ServiceGraph::build
  found,      \* the answers of the probes of this step, by their index
  catalog,    \* BindCatalog.devices
  asked,      \* how often the cloud was asked for the account's devices
  entries,    \* the devices, resolved so far or in the registry
  endpoints,  \* the camera endpoints of each entry
  outage      \* a probe or the cloud failed

vars == <<config, place, found, catalog, asked, entries, endpoints, outage>>

Places == {"cloud flags", "video", "catalog", "local", "access", "snap", "attach", "auto",
           "feeds", "done", "failed"}

Ids(list) == [i \in DOMAIN list |-> list[i].id]
IdSet(list) == ToSet(Ids(list))

Entry(id, feed, code) == [id |-> id, feed |-> feed, code |-> code, video |-> None]

TypeOK ==
  /\ config \in Configurations
  /\ place \in Places
  /\ \A i \in DOMAIN found : found[i] # None
  /\ catalog \in {None, config.bind}
  /\ \A i \in DOMAIN entries :
       /\ entries[i].feed \in {"cloud", "local", "moonraker"}
       /\ entries[i].code \in {None, "flag", "video", "bind"}
  /\ outage \in BOOLEAN

Init ==
  /\ config \in Configurations
  /\ place = "cloud flags"
  /\ found = <<>> /\ catalog = None /\ asked = 0 /\ entries = <<>> /\ endpoints = <<>>
  /\ outage = FALSE

Fail == place' = "failed" /\ UNCHANGED <<config, found, asked, catalog, entries, endpoints>>

\* ensure_unique_cloud_configs
CheckCloudFlags ==
  /\ place = "cloud flags"
  /\ IF IsInjective(config.cloud)
       THEN /\ place' = "video"
            /\ UNCHANGED <<config, found, asked, catalog, entries, endpoints>>
       ELSE Fail
  /\ UNCHANGED outage

-----------------------------------------------------------------------------
(* Probes.                                                                 *)

\* What is probed in a step; in the last one, the default camera endpoint of each local
\* device whose explicit one is another.
LocalEntries == {j \in DOMAIN entries : entries[j].feed = "local"}
Probed ==
  IF place = "video" THEN Ids(config.video)
  ELSE IF place = "local" THEN Ids(config.local)
  ELSE IF place = "snap" THEN config.snap
  ELSE IF place = "auto"
    THEN [j \in {i \in LocalEntries : entries[i].video # "default"} |-> entries[j].id]
  ELSE <<>>

\* The semaphore gives its permits in the order of the flags.
Unanswered == {i \in DOMAIN Probed : i \notin DOMAIN found}
Running == {i \in Unanswered : Cardinality({j \in Unanswered : j < i}) < Concurrency}

\* An answer is put in the place of its flag.
ProbeAnswers ==
  /\ \E i \in Running :
       found' = [j \in DOMAIN found \cup {i} |-> IF j = i THEN Probed[i] ELSE found[j]]
  /\ UNCHANGED <<config, place, catalog, asked, entries, endpoints, outage>>

\* A failed probe ends the startup, and the other probes with it; but a device without a
\* default camera endpoint is one without it.
ProbeFails ==
  /\ \E i \in Running :
       IF place = "auto"
         THEN /\ found' = [j \in DOMAIN found \cup {i} |-> IF j = i THEN "nothing" ELSE found[j]]
              /\ UNCHANGED <<config, place, catalog, asked, entries, endpoints>>
         ELSE Fail
  /\ outage' = TRUE

AllAnswered(step) == place = step /\ Unanswered = {}

-----------------------------------------------------------------------------
(* The devices and their access codes.                                     *)

\* ExplicitVideoEndpoints::resolve ends; for_device
VideosResolved ==
  /\ AllAnswered("video")
  /\ IF IsInjective(found)
       THEN /\ place' = "catalog" /\ found' = <<>>
            /\ UNCHANGED <<config, asked, catalog, entries, endpoints>>
       ELSE Fail
  /\ UNCHANGED outage

\* Of the command line c.
VideoOf(c, id) == {i \in DOMAIN c.video : c.video[i].id = id}
VideoCode(c, id) ==
  IF VideoOf(c, id) = {} THEN None ELSE c.video[CHOOSE i \in VideoOf(c, id) : TRUE].code

\* should_enumerate_cloud_catalog
Enumerates(c) == c.session /\ c.cloud = <<>> /\ c.local = <<>> /\ c.snap = <<>>

\* bound_cloud_devices answers; it needs a token.
AskCloud ==
  /\ config.session
  /\ catalog' = config.bind /\ asked' = asked + 1 /\ outage' = outage
CloudFails ==
  /\ asked' = (IF config.session THEN asked + 1 ELSE asked)
  /\ outage' = (outage \/ config.session)
  /\ place' = "failed"
  /\ UNCHANGED <<config, found, catalog, entries, endpoints>>

\* The cloud devices are those of the account, or those of the flags.
CloudDevices(c) ==
  IF Enumerates(c)
    THEN [i \in DOMAIN c.bind |-> Entry(c.bind[i].id, "cloud", c.bind[i].code)]
    ELSE [i \in DOMAIN c.cloud |-> Entry(c.cloud[i], "cloud", None)]

ListCloudDevices ==
  /\ place = "catalog"
  /\ \/ /\ IF Enumerates(config) THEN AskCloud ELSE UNCHANGED <<catalog, asked, outage>>
        /\ place' = "local"
        /\ UNCHANGED <<config, found, entries, endpoints>>
     \/ Enumerates(config) /\ CloudFails

\* infer_local_device_ids ends.
LocalsInferred ==
  /\ AllAnswered("local")
  /\ place' = "access"
  /\ UNCHANGED <<config, found, catalog, asked, entries, endpoints, outage>>

\* BindCatalog::load_device_from_cloud, when the catalog is there: the device's code.
BoundCode(list, id) ==
  LET at == {i \in DOMAIN list : list[i].id = id}
  IN IF at = {} THEN None ELSE list[CHOOSE i \in at : \A j \in at : i <= j].code

\* What a device that has no code takes: the camera's, or the cloud's.
Either(code, other) == IF code # None THEN code ELSE other
WithCode(c, id, code) == Either(code, Either(VideoCode(c, id), BoundCode(c.bind, id)))

\* load_device_from_cloud: the account's devices are asked for the first time one is needed.
NeedsCloud(id, code) == code = None /\ VideoCode(config, id) = None /\ catalog = None
LoadDevice(id, code) ==
  IF NeedsCloud(id, code) THEN AskCloud ELSE UNCHANGED <<catalog, asked, outage>>

\* resolve_local_devices, one device: no duplicate, and no device without a code.
ResolveLocal ==
  /\ place = "access" /\ Len(entries) < Len(config.local)
  /\ LET i == Len(entries) + 1
         flag == config.local[i].code
         code == WithCode(config, found[i], flag)
     IN \/ /\ found[i] \in IdSet(entries)
           /\ Fail /\ UNCHANGED outage
        \/ /\ found[i] \notin IdSet(entries)
           /\ LoadDevice(found[i], flag)
           /\ IF code = None
                THEN place' = "failed" /\ UNCHANGED entries
                ELSE /\ entries' = Append(entries, Entry(found[i], "local", code))
                     /\ UNCHANGED place
           /\ UNCHANGED <<config, found, endpoints>>
        \/ /\ found[i] \notin IdSet(entries) /\ NeedsCloud(found[i], flag)
           /\ CloudFails

LocalsResolved ==
  /\ place = "access" /\ Len(entries) = Len(config.local)
  /\ place' = "snap" /\ found' = <<>>
  /\ UNCHANGED <<config, catalog, asked, entries, endpoints, outage>>

\* DeviceRegistryBuilder::push
Push(list, entry) == IF entry.id \in IdSet(list) THEN list ELSE Append(list, entry)

\* The devices of a list, one after the other, those that are passed over left out.
PushAll(list, passed) ==
  LET pushed[k \in 0..Len(list)] ==
        IF k = 0 THEN <<>>
        ELSE IF list[k] \in passed THEN pushed[k - 1]
        ELSE Push(pushed[k - 1], list[k])
  IN pushed[Len(list)]

\* DeviceRegistryBuilder::new: local devices take the place of cloud devices; a cloud device
\* without an id is left out.
\* Mutated form: the cloud device stays.
BuiltKeepingCloud(cloud, local, moonraker) ==
  PushAll(cloud \o local \o moonraker, {e \in ToSet(cloud) : e.id = None})

Built(cloud, local, moonraker) ==
  PushAll(cloud \o local \o moonraker, {e \in ToSet(cloud) : e.id \in IdSet(local) \cup {None}})

\* resolve_moonraker_devices ends, and the registry is built.
BuildRegistry ==
  /\ AllAnswered("snap")
  /\ IF IsInjective(found)
       THEN /\ entries' = Built(CloudDevices(config), entries,
                                [i \in DOMAIN config.snap |-> Entry(found[i], "moonraker", None)])
            /\ endpoints' = [i \in DOMAIN entries' |-> <<>>]
            /\ place' = "attach" /\ found' = <<>>
            /\ UNCHANGED <<config, catalog, asked>>
       ELSE Fail
  /\ UNCHANGED outage

-----------------------------------------------------------------------------
(* The cameras.                                                            *)

Attached == {i \in DOMAIN config.video :
               \E j \in DOMAIN entries : entries[j].id = config.video[i].id /\ entries[j].video # None}

WithCamera(entry, code, at) == [id |-> entry.id, feed |-> entry.feed, code |-> code, video |-> at]

\* ExplicitVideoEndpoints::attach, one camera: it is of a Bambu device that is configured,
\* which takes its code when it has none.
AttachVideo ==
  /\ place = "attach"
  /\ \E i \in DOMAIN config.video \ Attached :
       /\ \A j \in 1..(i - 1) : j \in Attached
       /\ LET video == config.video[i]
              at == {j \in DOMAIN entries : entries[j].id = video.id /\ entries[j].feed # "moonraker"}
              own == entries[CHOOSE j \in at : TRUE].code
          IN \/ at = {} /\ Fail /\ UNCHANGED outage
             \/ /\ at # {} /\ LoadDevice(video.id, own)
                /\ entries' = [j \in DOMAIN entries |->
                     IF j \in at
                       THEN WithCamera(entries[j], WithCode(config, video.id, own), video.at)
                       ELSE entries[j]]
                /\ UNCHANGED <<config, place, found, endpoints>>
             \/ at # {} /\ NeedsCloud(video.id, own) /\ CloudFails

\* A registry without devices ends the startup.
VideosAttached ==
  /\ place = "attach" /\ Attached = DOMAIN config.video
  /\ place' = (IF entries = <<>> THEN "failed" ELSE "auto")
  /\ UNCHANGED <<config, found, catalog, asked, entries, endpoints, outage>>

\* resolve_video_endpoints: the explicit endpoint, and the default one that answered.
ResolveVideoEndpoints ==
  /\ AllAnswered("auto")
  /\ LET answering == {found[i] : i \in DOMAIN found}
     IN endpoints' = [j \in DOMAIN entries |->
                        (IF entries[j].video = None THEN <<>> ELSE <<entries[j].video>>)
                        \o (IF entries[j].id \in answering THEN <<"default">> ELSE <<>>)]
  /\ place' = "feeds"
  /\ UNCHANGED <<config, found, catalog, asked, entries, outage>>

\* video_source_for
HasVideo(j) ==
  \/ entries[j].feed = "moonraker"
  \/ endpoints[j] # <<>> /\ entries[j].code # None

-----------------------------------------------------------------------------
(* The MQTT targets: bambu::backend::spawn and cloud_mqtt_startup.          *)

CloudMqttIds == {entries[j].id : j \in {i \in DOMAIN entries : entries[i].feed = "cloud"}}
SpawnFeeds ==
  /\ place = "feeds"
  /\ place' = (IF CloudMqttIds # {} /\ ~config.session THEN "failed" ELSE "done")
  /\ UNCHANGED <<config, found, catalog, asked, entries, endpoints, outage>>

Next ==
  \/ CheckCloudFlags \/ ProbeAnswers \/ ProbeFails \/ VideosResolved \/ ListCloudDevices
  \/ LocalsInferred \/ ResolveLocal \/ LocalsResolved \/ BuildRegistry
  \/ AttachVideo \/ VideosAttached \/ ResolveVideoEndpoints \/ SpawnFeeds

Spec == Init /\ [][Next]_vars

-----------------------------------------------------------------------------
(* What the registry should be for the command line c.                     *)

LocalIds(c) == IdSet(c.local)
CloudIds(c) == IdSet(CloudDevices(c)) \ {None}
CloudCode(c, id) == IF c.session THEN BoundCode(c.bind, id) ELSE None
FlagOf(c, id) == c.local[CHOOSE i \in DOMAIN c.local : c.local[i].id = id].code

\* A device's own code, else the camera's, else the cloud's; a cloud device without a
\* camera needs none, and only has one when the account was listed.
ReferenceCode(c, id) ==
  IF id \in LocalIds(c)
    THEN Either(FlagOf(c, id), Either(VideoCode(c, id), CloudCode(c, id)))
  ELSE IF id \notin CloudIds(c) THEN None
  ELSE IF Enumerates(c) THEN Either(CloudCode(c, id), VideoCode(c, id))
  ELSE IF VideoOf(c, id) # {} THEN Either(VideoCode(c, id), CloudCode(c, id))
  ELSE None

ReferenceFeed(c, id) ==
  IF id \in LocalIds(c) THEN "local" ELSE IF id \in CloudIds(c) THEN "cloud" ELSE "moonraker"

\* The flags' devices in their order, and where a device comes first, not counting the cloud
\* flags of local devices.
ReferenceIds(c) == Ids(CloudDevices(c)) \o Ids(c.local) \o c.snap
Rank(c, id) ==
  Min({k \in DOMAIN ReferenceIds(c) :
         /\ ReferenceIds(c)[k] = id
         /\ k \in DOMAIN CloudDevices(c) => id \notin LocalIds(c)})

Devices(c) == LocalIds(c) \cup CloudIds(c) \cup ToSet(c.snap)

Usable(c) ==
  /\ IsInjective(c.cloud) /\ IsInjective(Ids(c.local))
  /\ IsInjective(Ids(c.video)) /\ IsInjective(c.snap)
  /\ \A id \in LocalIds(c) : ReferenceCode(c, id) # None
  /\ \A id \in IdSet(c.video) :
       /\ id \in LocalIds(c) \cup CloudIds(c)
       /\ ReferenceCode(c, id) = None => c.session
  /\ CloudIds(c) \ LocalIds(c) # {} => c.session
  /\ Devices(c) # {}

\* A startup fails for its configuration or for a probe or cloud that failed, and for no
\* order of its steps.  However the probes answered, one that succeeds has every configured
\* device once, cloud devices first and each kind in its order, local devices in place of
\* cloud ones, and each with its best code; and the cloud was asked at most once
\* (resolve_devices; registry.rs: "local MQTT owns the live data path"; access.rs: "The
\* cloud call is made at most once").
RegistryIsTheReference ==
  /\ asked <= 1
  /\ place = "failed" => outage \/ ~Usable(config)
  /\ place = "done" =>
       /\ Usable(config)
       /\ IsInjective(Ids(entries))
       /\ IdSet(entries) = Devices(config)
       /\ \A i, j \in DOMAIN entries : i < j => Rank(config, entries[i].id) < Rank(config, entries[j].id)
       /\ \A j \in DOMAIN entries :
            /\ entries[j].feed = ReferenceFeed(config, entries[j].id)
            /\ entries[j].code = ReferenceCode(config, entries[j].id)
=============================================================================
