------------------------------ MODULE Services ------------------------------
(***************************************************************************)
(* Seven components that share no state, side by side: `part' says which   *)
(* of them a behaviour is of.  In a behaviour that is not the server's,    *)
(* the server stays as it is initially, and the variables of any other     *)
(* component that does not run have no value.  A variable that several     *)
(* components have, like place, is that of the one that runs.              *)
(***************************************************************************)
EXTENDS ServiceTasks

CONSTANTS
  None, Torn, Partial,
  MaxClock, MaxLosses, SameInstant,
  Files, Parts, Minute, MaxElapsed, MaxPrints, MaxUnread, MaxFailures,
  Configurations, Concurrency,
  Pairers, Logins, Hosts, HostOf, MaxRuns,
  Archives, Jobs, Listings, Previews, MaxFetches,
  Selected, Reports, MaxRequests

VARIABLES
  part,
  control, current, clock, pending, driver, answers, armed, losses,
  printer, prints, parsed, unread, delay, status, anchor, live, failures,
  config, found, catalog, entries, endpoints, outage,
  pairings, account, client, inbox, approved, service, runs,
  disk, rest, reasons, broken, fetches,
  wanted, open, thumbKey, thumbPendingKey, thumbFailedKey, thumbRequest, thumbRetryTimer,
  thumbSlot, thumbObjectUrl, inFlight, objectUrls,
  place, job, asked, outcome, requests, content, temp

cameraVars == <<control, current, clock, pending, driver, answers, armed, losses>>
printVars == <<printer, prints, parsed, unread, delay, status, anchor, live, failures>>
catalogVars == <<config, found, catalog, entries, endpoints, outage>>
credentialVars == <<pairings, account, client, inbox, approved, service, runs>>
fetchVars == <<disk, rest, reasons, broken, fetches>>
pageVars == <<wanted, open, thumbKey, thumbPendingKey, thumbFailedKey, thumbRequest,
              thumbRetryTimer, thumbSlot, thumbObjectUrl, inFlight, objectUrls>>
\* Those that several of the components have.
commonVars == <<place, job, asked, outcome, requests, content, temp>>
servicesVars == <<part, vars, cameraVars, printVars, catalogVars, credentialVars, fetchVars,
            pageVars, commonVars>>

-----------------------------------------------------------------------------
\* The components; where one has its proofs in a module, with what is proved of it.
Camera == INSTANCE CameraControlProofs
Moonraker == INSTANCE MoonrakerPrintProofs
Catalog == INSTANCE DeviceCatalogProofs
Credential == INSTANCE CredentialsProofs
Fetch == INSTANCE ThumbnailFetch
Page == INSTANCE OverlayPage

ASSUME ServicesAssumption ==
  /\ TasksAssumption /\ Camera!CameraAssumption /\ Moonraker!PrintAssumption
  /\ Catalog!CatalogAssumption /\ Credential!CredentialAssumption /\ Fetch!FetchAssumption
  /\ Page!PageAssumption

NoCamera ==
  /\ control = None /\ current = None /\ clock = None /\ pending = None /\ driver = None
  /\ answers = None /\ armed = None /\ losses = None
NoPrint ==
  /\ printer = None /\ prints = None /\ parsed = None /\ unread = None /\ delay = None
  /\ status = None /\ anchor = None /\ live = None /\ failures = None
NoCatalog ==
  /\ config = None /\ found = None /\ catalog = None /\ entries = None /\ endpoints = None
  /\ outage = None
NoCredential ==
  /\ pairings = None /\ account = None /\ client = None /\ inbox = None /\ approved = None
  /\ service = None /\ runs = None
NoPage ==
  /\ wanted = None /\ open = None /\ thumbKey = None /\ thumbPendingKey = None
  /\ thumbFailedKey = None /\ thumbRequest = None /\ thumbRetryTimer = None
  /\ thumbSlot = None /\ thumbObjectUrl = None /\ inFlight = None /\ objectUrls = None
NoFetch == disk = None /\ rest = None /\ reasons = None /\ broken = None /\ fetches = None

NoCommon ==
  /\ place = None /\ job = None /\ asked = None /\ outcome = None /\ requests = None
  /\ content = None /\ temp = None

ServicesInit ==
  /\ Init
  /\ \/ /\ part = "server" /\ NoCommon
        /\ NoCamera /\ NoPrint /\ NoCatalog /\ NoCredential /\ NoFetch /\ NoPage
     \/ /\ part = "camera" /\ Camera!Init
        /\ NoPrint /\ NoCatalog /\ NoCredential /\ NoFetch /\ NoPage
        /\ job = None /\ asked = None /\ content = None /\ temp = None
     \/ /\ part = "print" /\ Moonraker!Init
        /\ NoCamera /\ NoCatalog /\ NoCredential /\ NoFetch /\ NoPage
        /\ asked = None /\ outcome = None /\ requests = None /\ content = None /\ temp = None
     \/ /\ part = "catalog" /\ Catalog!Init
        /\ NoCamera /\ NoPrint /\ NoCredential /\ NoFetch /\ NoPage
        /\ job = None /\ outcome = None /\ requests = None /\ content = None /\ temp = None
     \/ /\ part = "credentials" /\ Credential!Init
        /\ NoCamera /\ NoPrint /\ NoCatalog /\ NoFetch /\ NoPage
        /\ job = None /\ outcome = None
     \/ /\ part = "fetch" /\ Fetch!Init
        /\ NoCamera /\ NoPrint /\ NoCatalog /\ NoCredential /\ NoPage
        /\ asked = None /\ requests = None
     \/ /\ part = "page" /\ Page!Init /\ NoCommon
        /\ NoCamera /\ NoPrint /\ NoCatalog /\ NoCredential /\ NoFetch

\* The component's step; nothing of the others moves.
ServicesNext ==
  \/ /\ part = "server" /\ Next
     /\ UNCHANGED <<part, cameraVars, printVars, catalogVars, credentialVars, fetchVars, pageVars,
                    commonVars>>
  \/ /\ part = "camera" /\ Camera!Next
     /\ UNCHANGED <<part, vars, printVars, catalogVars, credentialVars, fetchVars, pageVars,
                    job, asked, content, temp>>
  \/ /\ part = "print" /\ Moonraker!Next
     /\ UNCHANGED <<part, vars, cameraVars, catalogVars, credentialVars, fetchVars, pageVars,
                    asked, outcome, requests, content, temp>>
  \/ /\ part = "catalog" /\ Catalog!Next
     /\ UNCHANGED <<part, vars, cameraVars, printVars, credentialVars, fetchVars, pageVars,
                    job, outcome, requests, content, temp>>
  \/ /\ part = "credentials" /\ Credential!Next
     /\ UNCHANGED <<part, vars, cameraVars, printVars, catalogVars, fetchVars, pageVars,
                    job, outcome>>
  \/ /\ part = "fetch" /\ Fetch!Next
     /\ UNCHANGED <<part, vars, cameraVars, printVars, catalogVars, credentialVars, pageVars,
                    asked, requests>>
  \/ /\ part = "page" /\ Page!Next
     /\ UNCHANGED <<part, vars, cameraVars, printVars, catalogVars, credentialVars, fetchVars,
                    commonVars>>

\* Fairness of the server and of the printer's task, as in their modules.
ServicesFairness ==
  /\ WF_vars(part = "server" /\ (Bind \/ BindFails))
  /\ WF_vars(part = "server" /\ ServerEnds)
  /\ WF_vars(part = "server" /\ AllJoined)
  /\ WF_vars(part = "server" /\ GraceExpires)
  /\ WF_vars(part = "server" /\ AbortExpires)
  /\ WF_vars(part = "server" /\ Exit)
  /\ \A s \in Streams :
       /\ WF_vars(part = "server" /\ Send(s))
       /\ WF_vars(part = "server" /\ Polled(s))
       /\ SF_vars(part = "server" /\ EndStream(s))
  /\ WF_<<printVars, place, job>>(part = "print" /\ Moonraker!TaskActs)
  /\ WF_<<printVars, place, job>>(part = "print" /\ Moonraker!RetryDue)
  /\ WF_<<printVars, place, job>>(part = "print" /\ Moonraker!OtherUpdate)

ServicesSpec == ServicesInit /\ [][ServicesNext]_servicesVars /\ ServicesFairness

-----------------------------------------------------------------------------
(* The components' properties, each about the behaviours of its component. *)

\* Every component's state is well typed, whatever it does.
ServicesTypeOK ==
  /\ TypeOK
  /\ part = "camera" => Camera!TypeOK
  /\ part = "print" => Moonraker!TypeOK
  /\ part = "catalog" => Catalog!TypeOK
  /\ part = "credentials" => Credential!TypeOK
  /\ part = "fetch" => Fetch!TypeOK
  /\ part = "page" => Page!TypeOK

\* After the answer to a stop nothing arms the camera again (SnapMqttPublisher::invoke).
StopIsTheLastWord == part = "camera" => Camera!StopIsTheLastWord

\* The slicer's facts that are shown are of the shown file, and the start time of a print
\* of it (JobFacts).
FactsAreOfTheFile == part = "print" => Moonraker!FactsAreOfTheFile

\* The estimate is of the print it is shown with (EtaTracker::estimate).
EstimateIsOfThePrint == part = "print" => Moonraker!EstimateIsOfThePrint

\* The time that is left does not grow while the progress stands still (EtaTracker).
CountsDown == [][part = "print" => Moonraker!DoesNotGrow]_servicesVars

\* Metadata that Moonraker parses late is shown all the same, though not a start time that
\* it gets later still (METADATA_RETRY).
LateMetadataIsShown ==
  \A file \in Files :
    part = "print" /\ Moonraker!Awaited(file) ~> part = "print" /\ Moonraker!Settled(file)

\* The registry is the reference's, however the probes answered (devices/resolve.rs).
RegistryIsTheReference == part = "catalog" => Catalog!RegistryIsTheReference

\* The credential files are whole at every moment (write_atomic).
FilesAreWhole == part = "credentials" => Credential!FilesAreWhole

\* A saved pairing is of its own client (run_bootstrap).
PairingIsOurs == part = "credentials" => Credential!PairingIsOurs

\* A picture is the best of its source (select_thumbnail_entry, select_cloud_task).
PictureIsTheBest == part = "fetch" => Fetch!PictureIsTheBest

\* The picture on the page is of the print last named (renderThumb, renderThumbBlob).
PictureIsOfThePrint == [][part = "page" => Page!KeepsToThePrint]_servicesVars

\* A print that is named anew is asked for, or shown (overlay.test.mjs).
NewKeyIsTried == [][part = "page" => Page!TriesTheNewKey]_servicesVars
=============================================================================
