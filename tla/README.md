# machin3d-overlay: TLA+ models and proofs

machin3d-overlay is a server that shows what 3D printers are doing: it follows
Bambu printers over MQTT and Moonraker printers over WebSockets, keeps a live
state per device, and serves overlays, thumbnails of the current print and MJPEG
video. This directory models its concurrent core, its startup, its credentials and
the page it serves in TLA+, checks the models with TLC and proves their main safety
properties with TLAPS, for every number of devices, brokers, viewers, workers and
requests.

Source paths below are relative to the crate's `src/` directory; `overlay.js` is in
`assets/static/`.

## 1. Inventory

| Part | Source | State | Operations | What makes it correct |
|---|---|---|---|---|
| MQTT runtime | `bambu/mqtt/runtime.rs`, `state.rs` | connections, reports and active tasks per device, a revision | register, connecting, connected, disconnected, error, merge a report, snapshot | one revision per change; a report is published with the connection it came over; what is published agrees with what is stored |
| Live store | `live/store.rs`, `state.rs` | one live state per device, a change channel (128) | publish a report, set a connection, remove, snapshot, subscribe | a device shows a report only while connected; no change is lost on a subscriber that lags |
| MQTT supervisor and session | `bambu/mqtt/supervisor.rs`, `session.rs`, `target.rs` | reconnect delay | connect, receive, back off, shut down | every lost connection is noted before the next attempt |
| Moonraker backend | `moonraker/backend.rs`, `client.rs`, `report.rs`, `metadata.rs` | the merged status, job facts by file name, ETA tracker | connect, subscribe, merge notifications, fetch metadata, publish, back off | no fact of one file and no estimate of one print is shown for another; late metadata is shown |
| Thumbnail job states | `thumbnail/job_state.rs` | per device: cached status, active job with a pending one, newest snapshot order | schedule, clear, start, finish, mark enqueue failed | the status is about the newest task; every loading status has a job that ends it |
| Thumbnail service | `thumbnail/service.rs`, `jobs.rs`, `web/thumbnail.rs` | the job queue (64), workers, fetch permits | refresh by the watcher and by web requests, enqueue, spawn, fetch, finish, reap panics, shut down | as above under every interleaving; loading ends |
| Thumbnail fetchers | `thumbnail/bambu_cloud.rs`, `bambu_local.rs`, `archive.rs`, `moonraker.rs` | the places still to try, a temporary archive of up to half a gigabyte | try a place, download, unpack, choose an entry, a task or a preview, classify a failure | the picture is the best of its source; temporary files are removed |
| Video streams | `video/stream.rs`, `worker.rs`, `source.rs`, `web/video.rs` | per device: clients, worker handle; lifecycle queue (64), observers | subscribe, leave, spawn or join a worker, observe its end, shut down | one worker per device; whoever watches has one; nobody watching, none |
| Bambu video worker | `video/connection.rs` | the remembered endpoint | try the endpoints, read frames, back off | every endpoint is tried |
| Moonraker video worker | `video/moonraker.rs`, `video/u1_camera.rs` | the armed camera; the MQTT session with its pending requests | wake, poll, back off, stop; invoke, deliver an answer, time out | the camera is re-armed while watched and handed back; after an answered stop nothing arms it |
| Device registry | `devices/registry.rs`, `resolve.rs`, `access.rs`, `video.rs` | the bind catalog, read-only after the start | probe endpoints concurrently, resolve access codes, merge cloud, local and Moonraker devices, attach cameras | what comes out depends on the configuration only; a local entry overrides the cloud's; the cloud is asked once |
| Service tasks | `service.rs`, `server.rs`, `main.rs` | background tasks, their monitors and abort handles, the shutdown flag | spawn, wait for a failure, signal, drain, shut down with a grace period, abort, drop | every task ends or is aborted; video workers get their time; `serve` returns |
| Web handlers | `web.rs`, `web/*` | an event stream's receiver and its last payload | pages, payloads, the event stream | no change stays unseen by a stream; a stream ends with the shutdown |
| U1 pairing | `moonraker/u1/*` | a token file | confirm, ask for authorization, hear answers, time out, upsert | a saved credential is the client's own, which the printer accepted |
| Bambu login and API | `bambu/*` | a token file; none between calls | log in with a code, save the token; HTTP, parsing, TLS | the token file is whole at every moment |
| Command line, secrets | `cli.rs`, `secret*.rs`, `endpoint.rs` | files | parsing, atomic saves | a failure leaves no credential in a temporary file |
| Overlay page | `overlay.js` | the print last named, the picture in its slot, requests, images and a retry timer | events, requests, responses, bodies, decoded images, retries | the picture is of the print; every object URL is revoked |

How they interact. The supervisors call the MQTT runtime, which changes its state
under one lock and then, with the lock released, writes the live store; Moonraker
backends write the live store alone. A write of the live store sends a message on
the change channel, which the thumbnail watcher and the event streams receive.
The watcher and every thumbnail request read snapshots of both and apply them to
the job states under the lock of `ThumbnailJobs`; a job handed out goes through
the queue to a worker task. Viewers share one video worker per device; a worker's
handle is in the device's stream and its task also with the lifecycle monitor. The
event streams feed the page, which asks for a thumbnail when the print it is told of
changes; the request goes to the thumbnail service, whose worker runs a fetch.

What is hard here: snapshots taken before an await and applied after it; a job
that is scheduled, queued and noted as failed in three steps; tasks that outlive
the state they were started for; a channel that drops messages; a worker that
decides to leave while somebody subscribes; answers that come late or to somebody
else; requests of a page that overtake each other; crashes in the middle of a save;
panics, aborts and a shutdown at any await. `PROJECT.json` lists each hazard at its line with the properties for it.

## 2. Plan

Done, most important behaviour first:

1. `JobState`, `ThumbnailService`, `ThumbnailCache` (abstract), `MCThumbnail`;
   proofs in `ThumbnailServiceProofs`, which begins with the lemmas about `JobState`.
2. `VideoStreams`, `MCVideo`; proofs in `VideoStreamsProofs`.
3. `LiveState`, `LivePromise` (abstract), `MCLive`; proofs in `LiveStateProofs`.
4. `ServiceTasks` (the tasks, the shutdown and the event streams).
5. `MoonrakerPrint`, `CameraControl`, `ThumbnailFetch`: what is inside a Moonraker
   session, a call to the camera and a fetch; proofs of the first two in
   `MoonrakerPrintProofs` and `CameraControlProofs`.
6. `DeviceCatalog` (the startup against a reference) and `Credentials`; proofs in
   `DeviceCatalogProofs` and `CredentialsProofs`.
7. `OverlayPage`.
8. `Services`, which has the components of 4 to 7 side by side, and `MCServices`, which
   instantiates it; `ServicesProofs` has the proofs about `ServiceTasks`,
   `ThumbnailFetch` and `OverlayPage`, and those about all of them together.

The safety properties that runs with "pass" check are all proved (section 6); what
would go further is a proof of liveness, which the prover does not reach.

## 3. The modules and the code

### JobState

`DeviceThumbnailState` as a record, and each of its methods as an operator on it.
All run under one lock, so each is one step where it is used. `cached`, `active`
(with `pending`) and `latest` are the three fields; `latest = 0` is the code's
`None`, since no order is below 0. `HandsOut` is the `Some(job)` of `schedule`,
`StartOutcome` and `FinishOutcome` are what `start` and `finish` return. Data left
out: the image, the messages, and the clock, of which `blocks_refresh` only tells
apart that there is no retry time, that it lies ahead and that it has passed.

### ThumbnailService

Processes: the watcher (`watch_task_changes`), the web requests
(`ThumbnailService::thumbnail`) and the workers (`run_fetch_job`), named by the id
of their job. `pc` says where each is, `held` which job it has in hand, and
`order`, `seen`, `todo` and `target` are its local variables. A process may be
interrupted at every lock it takes: taking the MQTT snapshot, taking the live
snapshot, applying one device, `try_send`, noting a failed `try_send`, receiving a
job, starting it, getting a permit and finishing it are steps of their own.

The MQTT runtime appears as its revision and, in `history`, the active task of
each Bambu device at each revision, so a process that took revision `r` needs to
remember `r` only. Changes of a connection that clear no task (connecting,
connected, a device registered) raise the revision and nothing else; they are
covered by reports that change no task. `unsent` holds the devices whose write is
made but not announced, `backlog` counts the messages in the change channel, one
above the capacity standing for a receiver that lags. `live` is the live store's
task of each Moonraker device.

Job ids: `next_id` never repeats one. A job id nobody holds can stand for any id
never used, so `JobIds` is a pool from which an id not in use is taken. A request
may be dropped by the server at each of its awaits (`DropRequest`).

`Ftps` are the devices whose fetch may go to the printer's own FTPS server. Such a fetch
may fall silent (`FallsSilent`): `connect_local_ftps` sets its timeouts after the TLS
connection and the greeting, and on the control stream only, so that a printer which
says nothing more holds the blocking task, and with it the worker and its permit. It
may answer after all, but nothing makes it.

### ThumbnailCache

What the service promises for Bambu devices, without queue, jobs or processes: a
device moves to the same or a newer revision, its status is about the task of that
revision, starts as loading and is answered once or refused.

### VideoStreams

Viewers (`VideoStreams::subscribe` and the response body), worker tasks, the
lifecycle monitor with its observers, and the shutdown. `worker` is the handle in
each stream's mutex, `finished` and `aborted` the flags of the tasks, `lifecycle`
the queue to the monitor. Between `tokio::spawn` and `try_send` the viewer is in
`register` and holds the worker mutex. A worker is in the place its task waits at.
A Bambu worker tries `OrderEndpoints` one after the other; an endpoint that accepts the
TCP connection may leave the TLS handshake unanswered (`Stalls`, `HandshakeEnds`), for
which `authenticate_stream` has no timeout. A Moonraker worker wakes the camera when
`due`, polls and sleeps, and stops the camera on every way out. `camera` says who armed a camera; `Unattended` is an armed camera whose
worker panicked, was aborted, or got no answer to its stop.

The count of clients is the set of viewers with a guard. The notification that the
last client left only shortens a sleep or a read that has a timeout anyway, so it is
left out. Frames are abstracted to the set of viewers one was sent to.

### LiveState

The MQTT supervisors (`supervise_target`, `run_runtime_once`), one per broker; the
runtime they change (`transport`, `failed`, `ids`, `reports`); the Moonraker workers
(`run_device`, `attempt_session`); and the live store (`store`). `sup` says where each
is. A method of the runtime changes its state under the lock and then calls the store
once per device: `writing` holds the devices still to be written, and
`WriteConnection` is one turn of the loop, `Publish` the last call of `merge_report`.
Everything else may come in between.

Of a report only the age of what it was merged from is kept: `"current"` was received
in the running session, `"old"` before it. When a session begins (`Connect`,
`MoonrakerConnect`) all there is becomes old; a retained message is old from the
start. What a report says is left out, and so are the lengths of the sleeps.

`RequestsFit` is the queue of the MQTT client: `ReportSession::connect` puts two
requests per device into it before anybody takes one out. `link` is what became of
the TCP connection: not there yet, up, or silent, which is a peer that is gone without
a word. An MQTT session notices by its keep-alive, a Moonraker session never does.

`register_connection` is written for a device that changes its connection or is
dropped; no caller in the crate does that, since the registry has one entry per
device and each target is registered once. The model has that one call.

### LivePromise

What readers of the store are promised of a device, without backends: it becomes
connected by a report of a session that was announced as connecting, and once it is
lost it is shown as disconnected, without a report, before the next announcement.

### ServiceTasks

The life of `serve`: it serves, drains the HTTP server, waits for its tasks through a
grace period and an abort, returns and exits (`main`). A background task is running,
finished, panicked or cancelled; `unjoined` are the exits nobody has taken from the
monitors, `abortable` the handles that are still held, `told` those that were told to
abort. The task that watches the video workers (`Monitor`) has its queue and its
observers; a worker takes a while to leave when it sees the shutdown (`WorkerLeaves`),
and the end of the process cuts off one that has not (`cut`). An event stream
(`current_print_events`) takes a snapshot, sends it, and waits in a `select!` for the
shutdown, its timer and the change channel; the live state is its version.

### CameraControl

The transport a worker chooses for one U1 camera, and its calls. Over MQTT a call is a
request whose id is the time of day in milliseconds (`clock`, `Now`), `pending` are the
ids whose answer is waited for, and the driver task hands the answers out. The worker
leaves its loop also in the middle of a start, whose request then stays pending.
Answers and sessions may be lost. `SameInstant` says whether two calls may be made in
one millisecond; the run and the theorem exclude it, since the id of such calls does
not tell their answers apart (section 5).

### MoonrakerPrint

A printer that starts, goes on with and clears prints, and the task that follows it:
the session's merged `status`, the `anchor` of the estimate and the `job` facts. Prints
are numbered, and the number stands for the print's start time. `run` in a status, an
anchor or a report is the number of the print it was made of; the code does not have
it, the properties do. Moonraker parses the metadata of a file at its own time, and what
it answers then may be without a start time; the session keeps what it was answered and
does not ask again. `slicer` in a report is the file whose estimate and weight it shows.

### DeviceCatalog

`resolve_devices` in its order of steps. The probes of a step run under a semaphore and
their answers are put in the places of their flags; each may fail. `WithCode` is what
the two hydrating functions do: a device without a code takes its camera's, or the
cloud's, which is asked once. The reference (`RegistryIsTheReference`) is not computed as
the code computes it: it says of the finished registry that it has each device once, in
the order of the flags, with its feed and its best code, and names the command lines
that may fail (`Usable`).

### Credentials

The commands that get credentials, each run one or more times and each ended by a crash
at any step: `snap-pair` with the printer's one channel, on which every client hears
every answer, and `bbl-login`. Both save by `write_atomic`, whose temporary file and
rename are steps of their own. `serve` reads both files.

### ThumbnailFetch

One fetch after the other, for the reports in `Jobs`: the candidate places of a 3MF one
by one, with the download, the temporary archive and the choice of an entry; the task
list of the cloud; the previews of Moonraker. The printer goes on writing its files
meanwhile. An archive is the relationships and entries that `select_thumbnail_entry`
tells apart.

### OverlayPage

The slot of the picture in `overlay.js`. A key stands for the pair of a URL and a task,
as `thumbKey`, `thumbPendingKey` and `thumbFailedKey` always hold pairs. Each request is
in flight in three stages (response, body, image) of its own, and its callbacks check
whether it is still wanted as the script does. The events come from `KeyOf`, which is
what the service makes of a report.

### Services

`ServiceTasks` with the modules of the six components after it, side by side: `part` says
which component a behaviour is of, `ServicesInit` and `ServicesNext` are the component's
own, and what does not run has no value. Nothing of the components is restated: they
are instances of their modules, or of the modules with their proofs, so that the
lemmas proved of a component are there for the composition.

## 4. The runs

| Run | Module, configuration | Shows |
|---|---|---|
| `thumbnail_bambu` | `MCThumbnail`, `ThumbnailBambu.cfg` | one Bambu device, two tasks, two requests, a queue of one job: job states stay coherent (`LoadingHasItsJob`), the cache is about the newest snapshot seen (`CacheShowsLatest`), requests get no older status than their own snapshot (`ServedIsFresh`), a fetch starts from the newest report (`FetchStartsFromLatest`), no change is lost on the watcher though it lags (`WatcherIsUpToDate`), and the abstract cache is implemented (`ImplementsCache`) |
| `thumbnail_moonraker` | `MCThumbnail`, `ThumbnailMoonraker.cfg` | one Moonraker device, whose snapshots all have the same order: no active job is lost (`ActiveJobIsCarried`) |
| `thumbnail_live` | `MCThumbnail`, `ThumbnailLive.cfg` | liveness while the queue has room: a loading status ends unless silent printers hold its fetch or every permit (`LoadingEnds`), every revision reaches the cache (`RevisionsReachTheCache`) |
| `thumbnail_wedge` | `MCThumbnail`, `ThumbnailWedge.cfg` | violation: with a full queue a device may stay loading for ever |
| `thumbnail_stale_moonraker` | `MCThumbnail`, `ThumbnailStaleMoonraker.cfg` | violation: an old Moonraker snapshot may undo a newer one |
| `video_moonraker` | `MCVideo`, `VideoMoonraker.cfg` | two viewers of one Moonraker device: one worker per device, the camera has a worker that will disarm it, nobody disarms another's; an unwatched worker ends, a watched camera is armed again and again |
| `video_bambu_live` | `MCVideo`, `VideoBambuLive.cfg` | a dead worker is replaced (`DeadWorkerIsReplaced`), a viewer gets frames wherever the printer serves them unless a handshake is left unanswered (`ViewersGetFrames`) |
| `video_lost_worker` | `MCVideo`, `VideoLostWorker.cfg` | violation: a viewer who comes while the worker is leaving has none |
| `live_state` | `MCLive`, `LiveState.cfg` | two brokers, one with two devices, and a Moonraker printer: nothing old is shown (`NothingOldIsShown`), the store follows the runtime (`StoreFollowsRuntime`) and keeps its promise (`ImplementsPromise`); a lost broker is noticed, supervisors go on trying, and the shutdown ends all |
| `live_silent_printer` | `MCLive`, `LiveSilentPrinter.cfg` | violation: a Moonraker printer that lost its power is shown as connected for ever |
| `services` | `MCServices`, `Services.cfg` | seven components that share no state, each in all its behaviours. The server: `NoChangeIsMissed`, `WorkersHaveTheirWindow`, `NoTaskIsLeftRunning`, `ServeReturns`. A U1 camera: `StopIsTheLastWord`. A Moonraker print: `FactsAreOfTheFile`, `EstimateIsOfThePrint`, `CountsDown`, `LateMetadataIsShown`. The startup: `RegistryIsTheReference`. The credentials: `FilesAreWhole`, `PairingIsOurs`. A fetch: `PictureIsTheBest`. The page: `PictureIsOfThePrint` |
| `overlay_stuck` | `MCServices`, `OverlayStuck.cfg` | violation: a print that comes back while another's thumbnail is asked for is not asked for |

### Bounds, and why they are enough

`MaxRevision` (2 or 3) is the number of MQTT changes: three are the fewest for a
task, another task and the return to the first, which `Redirected` treats apart,
with the clear between them. `MaxReports` is the same for Moonraker devices.
`QueueCapacity` is 64 in the code. A queue of one job meets the full queue at once
(`thumbnail_bambu`, `thumbnail_wedge`); the runs about jobs that are never lost and
about liveness give the queue as much room as there can be jobs, so that it never
fills, since with a full queue the code does not keep these properties
(`thumbnail_wedge`, and a request that is dropped between a failed `try_send` and
its note). `ChangeCapacity` is 128 in the code, and 1 here so that the watcher
lags after two messages. `MaxFetches` is one permit, so that workers wait for it;
two in `thumbnail_live`, where the silent fetch of a job that was cleared must not hold
up the next one, which takes three revisions; web requests are left out there, as a job
is the same whoever scheduled it, and no liveness is claimed of a request. `JobIds` are as many as can be in use at
once under the other bounds; `ScheduleDevice` waits when none is free, which no
run's liveness depends on.
For the streams: two viewers are what a join, a second spawn and a departure under
a subscriber take; two worker names are the one in the handle and the next, or one
aborted that has not ended. `QueueCapacity` 1 makes the lifecycle
queue full with one worker not yet received. One panic and one move of a printer's
video server (`MaxPanics`, `MaxMoves`) meet each place at which they may happen.
Tasks and requests are symmetric, and symmetry is used only in runs without
liveness. The video runs use none.

For the live state: two devices of one broker are what the loop over the store takes
to be interrupted between them, and the second broker and the Moonraker printer show
that the sources do not disturb each other. `RequestCapacity` is 32 in the code; 4 is
what the two devices just fill (16 devices in the code), 2 is too little (17). The
sessions are not counted: `LiveState` is finite without a bound.

For `services`: two tasks are one that fails and one that the others' failure cuts
short; two video workers fill the queue of one and meet the drain. One event stream, a
channel of one message and two writes make it lag. Five instants let a camera be
started twice and stopped; two losses take one answer and one session. Two files, two
prints, two parts of progress and one failure let the metadata of one file come while
another is printed, and a print follow one that had come as far. The command lines have
every relation of up to three cloud, local, camera and Moonraker flags to each other
and to the account's list (`Configurations`), with two probes at a time. Two pairings
with one printer share its channel, and one login crashes and is run again. Two
fetches show what the first leaves behind. Three requests of the page are the first
print's, the second's and a return.

Deadlock is checked in the thumbnail runs, but in `thumbnail_wedge` and
`thumbnail_live`, where no request ever comes, and not in the other runs: after the shutdown the streams (with
every viewer gone), the supervisors and the server really stop, and so do the fetches,
commands and pages when their bounds are reached.

### Fairness

Weak fairness for every step of a task that can run: the runtime polls ready tasks, and
the waits of a fetch and of a video worker have a timeout, with two exceptions. Of the
FTPS connection and download of a local printer that has fallen silent, and of a TLS
handshake that a video server leaves unanswered, nothing is assumed: there the code has
no time limit, and `LoadingEnds` and `ViewersGetFrames` name the states in which
somebody waits for them (`HeldUp`, `HeldInHandshake`). Strong fairness for
the three branches of the watcher's `select!`, which picks among ready branches at
random: receiving a change, receiving a job, reaping a worker that panicked. The
fetch permits and the reaping are assumed only as a whole (some worker gets one),
which is less than the FIFO semaphore gives. For the streams, strong fairness of
`ReadFrame`: where a printer serves video, not every connection breaks before its
first frame. For the supervisors and the Moonraker workers: weak fairness of
what a task does of itself and of the end of a connection attempt, strong fairness of
the shutdown's branch of a `select!`, which is picked at random when a message is ready
too. That the event loop fails when its broker is silent is its keep-alive.
For the server: weak fairness of its own steps, of the two periods and of an event
stream whose client reads, strong fairness of the shutdown's branch in the stream. For a
Moonraker session: weak fairness of the task, of the passing of `METADATA_RETRY` and of
updates, which Klipper sends all the time. In `Services` the same, each for the
behaviours of its component.
Nothing is assumed of printers' reports, of requests and viewers, of
panics, or of the shutdown.

## 5. Disagreements with the text of the repository

- `thumbnail_wedge`: `enqueue_job` notes a failed `try_send` under the order of the
  job it could not queue; a newer snapshot that the loading status covers makes
  that note too old to be taken, and the active job is in no queue and no worker.
- `thumbnail_stale_moonraker`: Moonraker snapshots are ordered by the MQTT
  revision, which does not move with them.
- `video_lost_worker`: `ensure_worker` joins a worker that has left its loop and is
  handing the camera back.
- `live_silent_printer`: `next_status` has no timeout and sends nothing, so the
  "connection health we observed" stays at connected when the printer is gone.
- `overlay_stuck`: `renderThumb` empties the slot for a new request and leaves the key of
  the picture it took out, so the print of that picture counts as rendered when it comes
  back. The other print's request goes on; when it fails the slot stays loading until
  the print ends or the page is loaded anew.

Without a run:

- `ReportSession::connect` waits for room in a request queue that nobody empties before
  it returns; with more than 16 cloud devices it waits for ever
  (`CrowdedBrokerHasNoSession`, for every number; `RequestsFitTightly` is the same case
  as a mutant).
- "A device has at most one active fetch" (`job_state.rs`) does not hold, since `clear`
  drops an active job that runs and the next print of the device gets a job of its own;
  the late result is rejected, which `ActiveJobIsCarried` and `LoadingHasItsJob` check.
- An incomplete 3MF of a cloud print is meant to be answered as loading (tests at
  `bambu_local.rs:337` and `:387`), but `fetch_local_3mf_thumbnail_with_mode` puts the
  candidates' errors into one text (`bambu_local.rs:125`), in which
  `is_incomplete_3mf_error` finds no cause: `TriedPlacesAreNeverLoading`.
- A download that breaks off leaves its temporary file, since the `TempArchive` that
  removes it is made after the download (`bambu_local.rs:199`):
  `OnlyBrokenDownloadsRemain` says that nothing else is left.
- `drive_eventloop` ends with the first error of the session (`u1_camera.rs:458`), and
  nothing connects again: every later start of that worker fails, while
  `u1_camera.rs:8-9` says that monitor mode "has to be re-armed on HEARTBEAT for as long
  as anyone is watching".
- Two calls to the camera in one millisecond have the same id. With `SameInstant = TRUE`
  the answer to the start ends the stop, and `StopIsTheLastWord` is violated.
- A second print of the same file in one session keeps the metadata, and so the start
  time, of the first (`backend.rs:216`), which `metadata.rs:27` calls that of the "current
  job"; `FactsAreOfTheFile` is therefore about the file.
- Metadata that came without a `print_start_time` is kept and never asked for again
  (`backend.rs:222-227`, `metadata.rs:27-29`): the start time of that print is not shown.
  `LateMetadataIsShown` is therefore about the metadata and not about the start time.
- A local printer that falls silent in the TLS connection, the greeting or the download
  keeps its fetch for ever: `connect_local_ftps` sets `FTP_TIMEOUT` after the first two and
  on the control stream only, `retrieve_thumbnail` sets none on the data stream, and
  nothing limits the blocking task (`bambu_local.rs:82`, `:143-156`, `:169-175`). The device
  stays loading, a permit is gone, and the end of the runtime waits for the blocking
  thread. `LoadingEnds` excepts it.
- A video server that accepts the connection and leaves the TLS handshake unanswered keeps
  the worker, its viewers without a frame, and the worker also when they have gone
  (`connection.rs:88`, `:129-157`), until the shutdown. `ViewersGetFrames` excepts it.
- A Moonraker session that the printer closes is followed by the next at once, without
  the delay (`backend.rs:81`).

## 6. Proofs

`ThumbnailServiceProofs` begins with lemmas about the operators of `JobState`: each
preserves the type of a device state and `Coherent`, and says what becomes of `latest`
and of the task shown. It proves, for all values of the constants that meet
`NoneAssumption`, `ServiceAssumption` and `ConnectionAssumption` (a connection has
devices: `cloud_mqtt_startup` makes none without, and a local one has its printer):

- `TypeCorrect`: `TypeOK`.
- `CacheIsConsistent`: `CacheShowsLatest`; `LoadingIsBacked`: `LoadingHasItsJob`.
  Neither is inductive. The strengthening `CacheInv` adds that every job, in hand,
  queued, active or pending, carries the task its order names in `history`
  (`KnownJob`): without it a job could be noted as failed, or promoted, for a task
  that no snapshot of that order showed.
- `ServiceImplementsCache`: the refinement, step by step. Every action changes at
  most one device's record, in one of five ways (`AllowedStep`), each of which is a
  step of the abstract cache or a stutter.
- `ServedStatusIsFresh`: `ServedIsFresh`. `latest` never decreases, and a request
  that reached `respond` has itself applied its snapshot.
- `NoChangeIsLostOnTheWatcher`: `WatcherIsUpToDate`. The strengthening `WatcherInv` says
  of a watcher at work what it will have done when it waits: unless a change is still to
  be announced or received, its snapshot is the current revision while devices are left,
  and the devices it has done are at that revision. It uses `ConnectionAssumption`: a
  revision without a device is never announced.
- `FetchesStartFromTheNewest`: `FetchStartsFromLatest`. A worker holds a copy of a job
  that the record may have overtaken, so the strengthening `NewestInv` is about every
  copy in a hand or in the queue: the job that waits is of the newest snapshot and no
  copy has its id, and a copy of an active job that has not started, with nothing
  waiting behind it, is of the newest snapshot. That a new id is in no copy
  (`NewJobNewest`) and that a Bambu revision shows one task carry it through `schedule`.
- `NoJobIsLostWithoutAFullQueue`: `ActiveJobIsCarried` for every capacity, of the
  behaviours in which no `try_send` fails; with a full queue a job can be lost
  (`thumbnail_wedge`). The strengthening is in two parts. `UniqueInv`: the jobs no worker
  has begun (queued, in hand, waiting) have different ids, and none is the name of a
  worker, so that `SpawnWorker` takes no job from a worker. `WayInv`: until the shutdown a
  copy of an active job that has not started is in the queue, in the hand of who enqueues
  it or with its new worker, and of one that has started with the worker that fetches
  for it. It takes `NewestInv` to know that the job `start` or `finish` hands back is of
  the same device.

`VideoStreamsProofs`, for all values that meet `StreamsAssumption` (the endpoints are
distinct, as `ResolvedVideoEndpoints::add` makes them):

- `StreamsTypeCorrect`: `TypeOK`. `OneWorkerAtATime`: `OneWorkerPerDevice`.
  `CamerasAreHandedBack`: `ArmedCameraHasItsWorker`. `CamerasAreNotTaken`:
  `StopsOwnCamera`.
- The strengthening `StreamInv` says who refers to a live worker: its device's handle,
  or the one viewer who holds the handle's mutex and is about to register it, and that
  viewer found no worker in the handle. Without it a viewer could register a second
  worker beside one in the handle. Who armed a camera is still before the end of its
  task.

`LiveStateProofs`, for all values that meet `LiveAssumption` (no two sources have a
device in common) and `NoneAssumption`:

- `LiveTypeCorrect`: `TypeOK`. `ReportsAreCurrent`: `NothingOldIsShown`.
  `StoreAgreesWithRuntime`: `StoreFollowsRuntime`. `StoreKeepsPromise`: the refinement
  `ImplementsPromise`.
- The strengthening `LiveInv` says, of each supervisor by itself, what its place means:
  the transport status, that there is no report outside a session nor before its
  beginning is written (`ReportsFit`), which devices may differ from the runtime
  (`StoreFits`), and that what is left to write turns no connected device to connecting
  (`WritesFit`). `NothingOldIsShown` is not inductive: a report in hand, or left in the
  runtime by the session before, could be written. A step of one source leaves the
  part of every other untouched (`TargetFrame`, `WorkerFrame`), since no device has two.
- `CrowdedBrokerHasNoSession`: with more requests than the queue has room for, a
  supervisor never gets a session.

`MoonrakerPrintProofs`, for all files, numbers of prints, progress and updates on their
way that meet `PrintAssumption`:

- `PrintTypeCorrect`: `TypeOK`. `FactsBelongToTheFile`: `FactsAreOfTheFile`.
  `EstimatesAreOfThePrint`: `EstimateIsOfThePrint`. `TheRemainderCountsDown`:
  `CountsDown`.
- None of the last three is inductive. The strengthening `PrintInv` says that the
  updates on their way lead from what the session has merged to what the printer is,
  through states that follow each other (`SeenInv`): since no update is lost within a
  session, it sees the beginning of every print, where no time has elapsed and the
  tracker forgets its anchor. So an anchor is of the print of the status
  (`AnchorInv`), a job's start time of a print of its file (`FactsInv`), and what is
  shown was made with the anchor (`ShownInv`). The rest is arithmetic of whole minutes
  (`DivFacts` and the lemmas after it).

`DeviceCatalogProofs`, for all command lines and accounts that meet `CatalogAssumption`,
which says only of what form they are:

- `CatalogTypeCorrect`: `TypeOK`. `TheRegistryIsResolved`: `RegistryIsTheReference`.
- What `PushAll` makes of a list is a function that refers to itself. That it exists for
  every length (`PushedUpTo`), and has the first of each id in the order of the list
  (`Firsts`), is proved by induction on numbers with a lemma of its own (`CountUp`),
  which takes a set and no operator: the least number that is missing has a
  predecessor that is not.
- The strengthening `CatalogInv` says what each step leaves behind: the answers of a
  probe are at the places of their flags, in whatever order they came (`FoundInv`); what
  was checked of the command line (`CheckedInv`); the local devices and their codes
  (`LocalsInv`); and of the registry that a device whose camera was attached has its
  best code and any other the one it came with (`RegistryInv`).

`CredentialsProofs`, for all values that meet `CredentialAssumption`:

- `CredentialFilesAreWhole`: `FilesAreWhole`. `PairingsAreOurs`: `PairingIsOurs`.
  `TempFilesAreRemoved`: only a crash leaves a temporary file.
- The strengthening says that what is renamed is whole, and follows the certificate: a
  notification in an inbox, a token to be saved and a saved token are good or not for
  this client, so that one that is saved was checked against the client's own identifier.

`CameraControlProofs`, for all values that meet `CameraAssumption`: `CameraTypeCorrect`
and, when `SameInstant` is false, `AnsweredStopIsTheLastWord`. In a session the ids grow
along the queue of requests, every answer has a smaller one than every request, and none
is above the clock (`OrderInv`, `ClockInv`), so that the answer with the id of the stop
leaves no request behind it.

`ServicesProofs`, for all values that meet `ServicesAssumption`, which is the assumptions
of the components.

- The server. `ServerTypeCorrect`: `TypeOK`. `TasksAreEnded`: `NoTaskIsLeftRunning`.
  `WorkersGetTheGracePeriod`: `WorkersHaveTheirWindow`. `ChangesReachStreams`:
  `NoChangeIsMissed`. The strengthening `ShutdownInv` says that until `serve` returns
  every task has its abort handle or was told to abort (`ExitInv`), that this is told
  for a cause only, an expired period or a panic (`CauseInv`), and that a live worker is
  queued or observed, so that a monitor which finished leaves none but those in its
  queue (`WorkerInv`). `NoChangeIsMissed` is inductive beside the types.
- The fetch. `OnlyBrokenDownloadsRemain` and `TriedPlacesAreNeverLoading`. `FetchInv`
  says what each place has: a place of the job's own source (`RouteInv`), an archive that
  was downloaded, the task that matches the report among those that were listed, the
  largest of the previews that were told (`ContentInv`), and no answer before the end
  (`AnswerInv`).
- The page. `PageTypeCorrect`, `PicturesAreOfThePrint` (`PictureIsOfThePrint`) and
  `UrlsAreRevoked`. `PageInv` says that the pending key is the wanted one unless the
  wanted one is the rendered or the failed one (`PendingInv`), that the retry timer is
  for the pending key and the last request is done with while it runs (`TimerInv`), and
  that nothing is pending while a picture is in the slot (`SlotInv`).
- All together. A step of the whole is one of the component that runs (`PartStep`), so
  every behaviour is a behaviour of its component (`PartsAreTheirComponents`; of a
  Moonraker session without its fairness, which the theorem does not need). The
  invariants of the components carry over, and with them every safety property that the
  run `services` checks: `ServicesTypeCorrect`, `ServicesStopTheCamera` (when
  `SameInstant` is false), `ServicesKnowTheFile`, `ServicesEstimateThePrint`,
  `ServicesCountDown`, `ServicesResolveTheReference`, `ServicesKeepFilesWhole`,
  `ServicesPairTheirOwn`, `ServicesFetchTheBest` and `ServicesShowThePrint`.

Model-checked only: everything about liveness (`LoadingEnds`,
`RevisionsReachTheCache`, `UnwatchedWorkerEnds`, `WatchedCameraIsRearmed`, `DeadWorkerIsReplaced`,
`ViewersGetFrames`, `LostBrokerIsNoticed`, `AttemptsGoOn`, `ShutdownEnds`,
`ServeReturns`, `LateMetadataIsShown`), which rests on fairness and so on `ENABLED`,
beyond the prover.

## 7. What is not modelled

HTTP, TLS, MQTT and WebSocket framing, the parsing of reports and flags, the bytes of
archives and images, the layout and texts of the pages and of the terminal monitor: I/O
and data without an interleaving of their own. Of a report the temperatures, materials
and layers are left out, on which no state depends. The components run apart:
`ThumbnailService` has the outcomes of a fetch and not the steps of `ThumbnailFetch`,
`VideoStreams` the outcomes of a call and not those of `CameraControl`, and
`ServiceTasks` has tasks that run and end; the product of their states is out of TLC's
reach and shows nothing the outcomes do not. A device that moves to another connection
or is removed from the runtime is left out, since no caller does it.
