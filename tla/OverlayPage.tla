---------------------------- MODULE OverlayPage ----------------------------
(***************************************************************************)
(* The page that streaming software shows (assets/static/overlay.js): the  *)
(* slot with the picture of the print.  An event names the print; the      *)
(* picture is asked for over HTTP, and the response, its body and the      *)
(* decoded image each come in a task of their own, in whatever order the   *)
(* requests of several prints make of them.                                *)
(*                                                                         *)
(* A key stands for a pair of the script: thumbKey for thumbUrl and        *)
(* thumbKey, and so for what is pending and what has failed.               *)
(***************************************************************************)
EXTENDS Naturals, Sequences, SequencesExt

CONSTANTS
  None,        \* no value
  Selected,    \* the printer the page was opened for, or None
  Reports,     \* what the events say: the printers, each with its print
  MaxRequests  \* a bound on the requests

PageAssumption == MaxRequests \in Nat

VARIABLES
  wanted,           \* the key of the last event
  open,             \* whether the event stream is
  thumbKey, thumbPendingKey, thumbFailedKey,
  thumbRequest,     \* the number of the last request
  thumbRetryTimer,  \* the key that is asked for again when the timer fires, or None
  thumbSlot,        \* what the slot shows
  thumbObjectUrl,   \* the object URL of the picture, named by its request
  inFlight,         \* the requests that are not done with
  objectUrls        \* the object URLs that exist

keys == <<thumbKey, thumbPendingKey, thumbFailedKey>>
shown == <<thumbSlot, thumbObjectUrl, objectUrls>>
vars == <<wanted, open, keys, thumbRequest, thumbRetryTimer, shown, inFlight>>

-----------------------------------------------------------------------------
(* What an event says.                                                     *)

\* active_report in device_summary/snapshot.rs: a live report counts while its connection is
\* there, and the catalog's only for a device that has no feed.
IsPrinting(device) ==
  /\ device.feed \in {"connected", "none"}
  /\ device.status \in {"RUNNING", "PAUSED"}

\* thumbnail_task
ThumbnailTask(device) ==
  IF ~IsPrinting(device) THEN None
  ELSE IF device.task # None THEN device.task ELSE device.filename

\* The payload has a thumbnail URL for a device with such a task, and none otherwise.
KeyOf(device) ==
  IF device = None \/ ThumbnailTask(device) = None THEN None
  ELSE [url |-> device.id, task |-> ThumbnailTask(device)]

PickDevice(devices) ==
  LET chosen == SelectSeq(devices, LAMBDA d : d.id = Selected)
  IN CASE chosen # <<>> -> Head(chosen)
       [] chosen = <<>> /\ devices # <<>> -> Head(devices)
       [] OTHER -> None

Keys == {KeyOf(PickDevice(r)) : r \in Reports} \ {None}

Empty == [shows |-> "empty", of |-> None]
Loading == [shows |-> "loading", of |-> None]

TypeOK ==
  /\ {wanted, thumbKey, thumbPendingKey, thumbFailedKey, thumbRetryTimer} \subseteq Keys \cup {None}
  /\ open \in BOOLEAN
  /\ thumbRequest \in Nat
  /\ thumbSlot \in {Empty, Loading} \cup [shows : {"picture"}, of : Keys]
  /\ thumbObjectUrl \in 1..thumbRequest \cup {None}
  /\ inFlight \subseteq [id : 1..thumbRequest, key : Keys, stage : {"response", "body", "image"}]
  /\ objectUrls \subseteq 1..thumbRequest

Init ==
  /\ wanted = None /\ open = TRUE
  /\ thumbKey = None /\ thumbPendingKey = None /\ thumbFailedKey = None
  /\ thumbRequest = 0 /\ thumbRetryTimer = None
  /\ thumbSlot = Empty /\ thumbObjectUrl = None
  /\ inFlight = {} /\ objectUrls = {}

-----------------------------------------------------------------------------
(* renderThumb.                                                            *)

\* setThumbLoading, setThumbEmpty; `urls' are what is left of the object URLs so far.
SetThumb(slot, urls) ==
  /\ thumbSlot' = slot
  /\ thumbObjectUrl' = None
  /\ objectUrls' = urls \ {thumbObjectUrl}

\* Mutated form: the retry timer goes on.
ClearKeepingTimer ==
  /\ thumbRequest' = thumbRequest + 1
  /\ thumbKey' = None /\ thumbPendingKey' = None /\ thumbFailedKey' = None
  /\ SetThumb(Empty, objectUrls)
  /\ UNCHANGED <<thumbRetryTimer, inFlight>>

ClearThumb ==
  /\ thumbRetryTimer' = None
  /\ thumbRequest' = thumbRequest + 1
  /\ thumbKey' = None /\ thumbPendingKey' = None /\ thumbFailedKey' = None
  /\ SetThumb(Empty, objectUrls)
  /\ UNCHANGED inFlight

RequestThumb(key) ==
  /\ thumbRetryTimer' = None
  /\ thumbRequest' = thumbRequest + 1
  /\ thumbPendingKey' = key
  /\ SetThumb(Loading, objectUrls)
  /\ inFlight' = inFlight \cup {[id |-> thumbRequest + 1, key |-> key, stage |-> "response"]}
  /\ UNCHANGED <<thumbKey, thumbFailedKey>>

\* The early returns: the key has failed, is rendered or is pending.
Known(key) ==
  IF key = None THEN thumbKey = None /\ thumbPendingKey = None
  ELSE key \in {thumbFailedKey, thumbKey, thumbPendingKey}

RenderThumb(key, force) ==
  IF ~force /\ Known(key)
    THEN UNCHANGED <<keys, thumbRequest, thumbRetryTimer, shown, inFlight>>
    ELSE /\ thumbRequest < MaxRequests
         /\ IF key = None THEN ClearThumb ELSE RequestThumb(key)

\* The slot is emptied unless a picture has been rendered since it was last emptied.
MarkThumbFailed(key, urls) ==
  /\ thumbRetryTimer' = None
  /\ thumbPendingKey' = None /\ thumbFailedKey' = key
  /\ IF thumbKey = None THEN SetThumb(Empty, urls)
     ELSE objectUrls' = urls /\ UNCHANGED <<thumbSlot, thumbObjectUrl>>
  /\ UNCHANGED <<thumbKey, thumbRequest>>

-----------------------------------------------------------------------------
(* The tasks of the page.                                                  *)

\* An event of the stream, while the browser has it open or opens it again.
HandlePrintEvent ==
  /\ open
  /\ \E devices \in Reports : wanted' = KeyOf(PickDevice(devices))
  /\ RenderThumb(wanted', FALSE)
  /\ UNCHANGED open

\* connectEvents, onerror: the browser does not open it again.
StreamCloses ==
  /\ open /\ open' = FALSE
  /\ wanted' = None
  /\ RenderThumb(None, FALSE)

TimerFires ==
  /\ thumbRetryTimer # None
  /\ RenderThumb(thumbRetryTimer, TRUE)
  /\ UNCHANGED <<wanted, open>>

\* Mutated form: that something is pending is enough.
SomethingIsPending(f) == thumbPendingKey # None

StillWanted(f) == f.id = thumbRequest /\ thumbPendingKey = f.key

Done(f) == inFlight' = inFlight \ {f}
Proceed(f, stage) == inFlight' = (inFlight \ {f}) \cup {[f EXCEPT !.stage = stage]}

\* A response or a body of a request that was replaced.
Dropped(f) ==
  /\ f.stage # "image" /\ ~StillWanted(f)
  /\ Done(f)
  /\ UNCHANGED <<wanted, open, keys, thumbRequest, thumbRetryTimer, shown>>

\* 202: the timer's callback keeps the key.
ResponseIsLoading(f) ==
  /\ f.stage = "response" /\ StillWanted(f)
  /\ thumbRetryTimer' = f.key
  /\ Done(f)
  /\ UNCHANGED <<wanted, open, keys, thumbRequest, shown>>

ResponseIsOk(f) ==
  /\ f.stage = "response" /\ StillWanted(f)
  /\ Proceed(f, "body")
  /\ UNCHANGED <<wanted, open, keys, thumbRequest, thumbRetryTimer, shown>>

\* Another status, or the connection breaks before the response or in its body.
FetchFails(f) ==
  /\ f.stage \in {"response", "body"} /\ f.id = thumbRequest
  /\ MarkThumbFailed(f.key, objectUrls)
  /\ Done(f)
  /\ UNCHANGED <<wanted, open>>

BodyArrives(f) ==
  /\ f.stage = "body" /\ StillWanted(f)
  /\ objectUrls' = objectUrls \cup {f.id}
  /\ Proceed(f, "image")
  /\ UNCHANGED <<wanted, open, keys, thumbRequest, thumbRetryTimer, thumbSlot, thumbObjectUrl>>

ImageLoads(f) ==
  /\ f.stage = "image"
  /\ Done(f)
  /\ IF StillWanted(f)
       THEN /\ thumbSlot' = [shows |-> "picture", of |-> f.key]
            /\ thumbObjectUrl' = f.id
            /\ objectUrls' = objectUrls \ {thumbObjectUrl}
            /\ thumbKey' = f.key /\ thumbPendingKey' = None /\ thumbFailedKey' = None
       ELSE /\ objectUrls' = objectUrls \ {f.id}
            /\ UNCHANGED <<keys, thumbSlot, thumbObjectUrl>>
  /\ UNCHANGED <<wanted, open, thumbRequest, thumbRetryTimer>>

ImageFails(f) ==
  /\ f.stage = "image" /\ Done(f)
  /\ IF f.id = thumbRequest
       THEN MarkThumbFailed(f.key, objectUrls \ {f.id})
       ELSE /\ objectUrls' = objectUrls \ {f.id}
            /\ UNCHANGED <<keys, thumbRequest, thumbRetryTimer, thumbSlot, thumbObjectUrl>>
  /\ UNCHANGED <<wanted, open>>

Next ==
  \/ HandlePrintEvent \/ StreamCloses \/ TimerFires
  \/ \E f \in inFlight :
       \/ Dropped(f) \/ ResponseIsLoading(f) \/ ResponseIsOk(f) \/ FetchFails(f)
       \/ BodyArrives(f) \/ ImageLoads(f) \/ ImageFails(f)

Spec == Init /\ [][Next]_vars

-----------------------------------------------------------------------------
\* Whatever the order in which responses, bodies, images and the retry timer come: a picture
\* that is put into the slot, or left there by an event, is the answer to a request for the
\* print that the last event named, and after an error or an event without printers there is
\* none.  Excepted is a print that comes back, as the one rendered or the one failed last: its
\* events return before the request for the print in between is given up (renderThumb,
\* renderThumbBlob).
KeepsToThePrint ==
  /\ thumbSlot'.shows = "picture"
  /\ <<thumbSlot', wanted'>> # <<thumbSlot, wanted>>
  => \/ thumbSlot'.of = wanted'
     \/ wanted' # None /\ wanted' \in {thumbKey, thumbFailedKey}

PictureIsOfThePrint == [][KeepsToThePrint]_vars

\* Every object URL is that of the picture or of an image that is being decoded: a page that
\* stays open for months keeps no picture it has replaced (revokeThumbObjectUrl, onload,
\* onerror).
NoUrlLeaks ==
  \A u \in objectUrls :
    u = thumbObjectUrl \/ \E f \in inFlight : f.id = u /\ f.stage = "image"

\* An event that names another print, whose picture is not the one that failed last, leaves
\* that picture in the slot or asks for it (overlay.test.mjs: "a new key should retry").
TriesTheNewKey ==
  wanted' \notin {None, wanted, thumbFailedKey} =>
    thumbPendingKey' = wanted' \/ thumbSlot' = [shows |-> "picture", of |-> wanted']

NewKeyIsTried == [][TriesTheNewKey]_vars
=============================================================================
