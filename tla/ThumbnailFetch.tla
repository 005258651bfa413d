--------------------------- MODULE ThumbnailFetch ---------------------------
(***************************************************************************)
(* What one fetch of the thumbnail service does (fetch_thumbnail in        *)
(* thumbnail/service.rs): from the 3MF on a local Bambu printer            *)
(* (bambu_local.rs, archive.rs), from the account's task list              *)
(* (bambu_cloud.rs), or from a Moonraker printer (moonraker.rs).           *)
(*                                                                         *)
(* The printer goes on writing its 3MF while the fetch tries one place     *)
(* after the other, and every request of the fetch may fail.  An archive   *)
(* is what its relationships and its entries tell apart.                   *)
(***************************************************************************)
EXTENDS Naturals, Sequences, SequencesExt

CONSTANTS
  None,      \* no value
  Partial,   \* a 3MF the printer has not finished
  Archives,  \* the 3MF files that are considered
  Jobs,      \* the reports a fetch is started with
  Listings,  \* the answers of the cloud's task list
  Previews,  \* the answers of Moonraker's metadata
  MaxFetches \* a bound on the fetches

FetchAssumption ==
  /\ MaxFetches \in Nat
  /\ \A a \in Archives : a.relationships \in Seq([type : STRING, target : STRING])
  /\ \A j \in Jobs : j.route \in {"local", "cloud", "moonraker"}
  /\ Listings \subseteq Seq([id : Nat, title : STRING, start : Nat \cup {None},
                            cover : STRING \cup {None}])
  /\ Previews \subseteq Seq([path : STRING \cup {None}, area : Nat])

VARIABLES
  disk,     \* what the printer holds in each place: an archive, Partial or None
  place,    \* the step of the fetch
  job,      \* what it is for
  rest,     \* the places it has still to try
  content,  \* what it has downloaded or been told
  outcome,  \* the status it answers with, and what of
  reasons,  \* why each place it has tried had no picture
  temp,     \* the files in the directory for temporary files
  broken,   \* the downloads of an archive that broke off
  fetches

fetch == <<job, rest, reasons>>
vars == <<disk, place, fetch, content, outcome, temp, broken, fetches>>

Directories == {"cache", "root", "model"}
Images == {"thumbnail.png", "small.png", "plate.png", "photo.jpg"}
Reasons == {"no answer", "incomplete", "no picture"}
Unanswered == [status |-> "none", of |-> None]

TypeOK ==
  /\ disk \in [Directories -> Archives \cup {Partial, None}]
  /\ place \in {"idle", "retrieve", "extract", "tasks", "cover", "metadata", "preview"}
  /\ job \in Jobs \cup {None}
  /\ rest \in {<<>>, <<"root">>, <<"model">>, <<"cache">>, <<"root", "model">>,
               <<"cache", "root", "model">>}
  /\ reasons \in Seq(Reasons) /\ Len(reasons) <= 3
  /\ outcome.status \in {"none", "ready", "loading", "missing", "unavailable"}
  /\ temp \in Nat /\ broken \in Nat /\ fetches \in 0..MaxFetches

Init ==
  /\ disk = [d \in Directories |-> None]
  /\ place = "idle" /\ job = None /\ rest = <<>> /\ reasons = <<>>
  /\ content = None /\ outcome = Unanswered
  /\ temp = 0 /\ broken = 0 /\ fetches = 0

\* The printer receives or unpacks a 3MF, at once or with a moment at which it is partial.
PrinterWrites ==
  /\ \E d \in Directories, a \in Archives \cup {Partial} :
       /\ disk[d] \notin Archives /\ disk[d] # a
       /\ disk' = [disk EXCEPT ![d] = a]
  /\ UNCHANGED <<place, fetch, content, outcome, temp, broken, fetches>>

Answer(status, of) == place' = "idle" /\ outcome' = [status |-> status, of |-> of]

-----------------------------------------------------------------------------
(* A local Bambu printer.                                                  *)

\* local_file_candidates: a path with a directory is tried as it is.
Candidates(name) ==
  IF name = "plain" THEN <<"cache", "root", "model">>
  ELSE IF name = "rooted" THEN <<"model">>
  ELSE <<>>

Preparing(j) == j.cloud /\ j.percent \notin {None, 100}

Incomplete(causes) == "incomplete" \in causes

\* classify_local_thumbnail_failure, on the causes an error carries.
Classify(j, causes) == IF j.cloud /\ Incomplete(causes) THEN "loading" ELSE "unavailable"

\* The error of fetch_local_3mf_thumbnail_with_mode is one text: it carries no cause.
NoCause == {}

\* fetch_thumbnail: a cloud print that is being prepared is not looked for.
BeginLocal(j) ==
  /\ j.route = "local"
  /\ rest' = IF Preparing(j) THEN <<>> ELSE Candidates(j.name)
  /\ IF rest' = <<>>
       THEN Answer(IF Preparing(j) THEN "loading"
                   ELSE IF j.name = "blank" THEN "unavailable" ELSE Classify(j, NoCause), None)
       ELSE place' = "retrieve" /\ outcome' = Unanswered

\* The next place, or the failure of all of them.
NextPlace(reason) ==
  /\ reasons' = Append(reasons, reason)
  /\ rest' = Tail(rest)
  /\ IF Tail(rest) = <<>>
       THEN Answer(Classify(job, NoCause), None)
       ELSE place' = "retrieve" /\ UNCHANGED outcome

\* The connection, the login or the RETR fails: no file has been made for it.
RetrieveFails ==
  /\ place = "retrieve"
  /\ NextPlace("no answer")
  /\ UNCHANGED <<disk, job, content, temp, broken, fetches>>

\* The file is made before the first byte is read, and only a complete download gets the
\* TempArchive that removes it.
DownloadBreaks ==
  /\ place = "retrieve" /\ disk[Head(rest)] # None
  /\ temp' = temp + 1 /\ broken' = broken + 1
  /\ NextPlace("no answer")
  /\ UNCHANGED <<disk, job, content, fetches>>

Download ==
  /\ place = "retrieve" /\ disk[Head(rest)] # None
  /\ content' = disk[Head(rest)]
  /\ temp' = temp + 1
  /\ place' = "extract"
  /\ UNCHANGED <<disk, fetch, outcome, broken, fetches>>

\* THUMBNAIL_REL_PRIORITY and FALLBACK_THUMBNAIL_NAMES
Priority == <<"opc", "middle", "small">>
Fallbacks == <<"thumbnail.png", "small.png", "plate.png">>

\* The relationships of a type whose target is an image of the archive.
RelatedAt(a, k) ==
  {i \in DOMAIN a.relationships :
     /\ a.relationships[i].type = Priority[k]
     /\ a.relationships[i].target \in Images \cap DOMAIN a.entries}
Ranks(a) == {k \in DOMAIN Priority : RelatedAt(a, k) # {}}
Known(a) == {k \in DOMAIN Fallbacks : Fallbacks[k] \in DOMAIN a.entries}

\* Mutated form: the names are looked at before the relationships.
SelectedByName(a) == IF Known(a) # {} THEN Fallbacks[Min(Known(a))] ELSE None

\* select_thumbnail_entry: type by type, the first relationship; with none left the names
\* decide, the well-known ones in their order, then the first image.
SelectedEntry(a) ==
  IF Ranks(a) # {} THEN a.relationships[Min(RelatedAt(a, Min(Ranks(a))))].target
  ELSE IF Known(a) # {} THEN Fallbacks[Min(Known(a))]
  ELSE IF "photo.jpg" \in DOMAIN a.entries THEN "photo.jpg"
  ELSE None

\* read_thumbnail_entry: an empty or too large entry is an error, not a reason to take the
\* next one.
Picture(a) ==
  IF SelectedEntry(a) # None /\ a.entries[SelectedEntry(a)] = "image" THEN SelectedEntry(a) ELSE None

\* The rest of retrieve_thumbnail; the file is removed when it returns.
Extract ==
  /\ place = "extract"
  /\ IF content # Partial /\ Picture(content) # None
       THEN /\ Answer("ready", [archive |-> content, entry |-> Picture(content)])
            /\ UNCHANGED <<rest, reasons>>
       ELSE NextPlace(IF content = Partial THEN "incomplete" ELSE "no picture")
  /\ content' = None
  /\ temp' = temp - 1
  /\ UNCHANGED <<disk, job, broken, fetches>>

\* finalize_retr_stream or the rewind fails.
FinalizeFails ==
  /\ place = "extract"
  /\ NextPlace("no answer")
  /\ content' = None
  /\ temp' = temp - 1
  /\ UNCHANGED <<disk, job, broken, fetches>>

-----------------------------------------------------------------------------
(* The cloud and Moonraker.                                                *)

\* select_cloud_task: by its id, else by its title, else by its start time; of several the
\* first.
TasksWith(tasks, j, field) ==
  IF j[field] = None THEN {} ELSE {i \in DOMAIN tasks : tasks[i][field] = j[field]}
Matching(tasks, j) ==
  LET At(field) == TasksWith(tasks, j, field)
  IN IF At("id") # {} THEN tasks[Min(At("id"))]
     ELSE IF At("title") # {} THEN tasks[Min(At("title"))]
     ELSE IF At("start") # {} THEN tasks[Min(At("start"))]
     ELSE None

\* pick_thumbnail: the largest with a path; of several the last.
Usable(thumbnails) == {i \in DOMAIN thumbnails : thumbnails[i].path # None}
IsLargest(thumbnails, i) ==
  \A k \in Usable(thumbnails) :
    \/ thumbnails[k].area < thumbnails[i].area
    \/ thumbnails[k].area = thumbnails[i].area /\ k <= i
Largest(thumbnails) ==
  IF Usable(thumbnails) = {} THEN None
  ELSE thumbnails[CHOOSE i \in Usable(thumbnails) : IsLargest(thumbnails, i)]

BeginRemote(j) ==
  /\ j.route # "local"
  /\ rest' = <<>>
  /\ outcome' = Unanswered
  /\ place' = IF j.route = "cloud" THEN "tasks" ELSE "metadata"

\* A request fails, times out, or is answered with an error or with too many bytes.
RequestFails ==
  /\ place \in {"tasks", "cover", "metadata", "preview"}
  /\ Answer("unavailable", None)
  /\ content' = None
  /\ UNCHANGED <<disk, fetch, temp, broken, fetches>>

TasksAnswer ==
  /\ place = "tasks"
  /\ \E tasks \in Listings :
       LET task == Matching(tasks, job)
       IN IF task = None \/ task.cover = None
            THEN Answer("unavailable", None) /\ UNCHANGED content
            ELSE place' = "cover" /\ content' = [task |-> task, tasks |-> tasks] /\ UNCHANGED outcome
  /\ UNCHANGED <<disk, fetch, temp, broken, fetches>>

MetadataAnswers ==
  /\ place = "metadata"
  /\ \E thumbnails \in Previews \cup {None} :
       LET largest == IF thumbnails = None THEN None ELSE Largest(thumbnails)
       IN IF largest = None
            THEN Answer("missing", None) /\ UNCHANGED content
            ELSE place' = "preview" /\ content' = [largest |-> largest, of |-> thumbnails]
                 /\ UNCHANGED outcome
  /\ UNCHANGED <<disk, fetch, temp, broken, fetches>>

ImageArrives ==
  /\ place \in {"cover", "preview"}
  /\ Answer("ready", content)
  /\ content' = None
  /\ UNCHANGED <<disk, fetch, temp, broken, fetches>>

-----------------------------------------------------------------------------
\* fetch_thumbnail in service.rs: the device's own source.
Begin ==
  /\ place = "idle" /\ fetches < MaxFetches
  /\ fetches' = fetches + 1
  /\ \E j \in Jobs :
       /\ job' = j
       /\ BeginLocal(j) \/ BeginRemote(j)
  /\ reasons' = <<>>
  /\ UNCHANGED <<disk, content, temp, broken>>

Next ==
  \/ PrinterWrites \/ Begin
  \/ RetrieveFails \/ DownloadBreaks \/ Download \/ Extract \/ FinalizeFails
  \/ TasksAnswer \/ MetadataAnswers \/ ImageArrives \/ RequestFails

Spec == Init /\ [][Next]_vars

-----------------------------------------------------------------------------
\* The ranks of the relationships of an archive that name an image.
RelationRank(a, n) ==
  {k \in DOMAIN Priority : \E i \in DOMAIN a.relationships :
     a.relationships[i] = [type |-> Priority[k], target |-> n]}

BestOfArchive(of) ==
  \A n \in Images \cap DOMAIN of.archive.entries :
    \A k \in RelationRank(of.archive, n) : \E l \in RelationRank(of.archive, of.entry) : l <= k
TaskOfTheJob(of) ==
  job.id # None /\ (\E i \in DOMAIN of.tasks : of.tasks[i].id = job.id) => of.task.id = job.id
LargestPreview(of) ==
  \A i \in DOMAIN of.of : of.of[i].path = None \/ of.of[i].area <= of.largest.area

\* Whatever was tried before and however the disk changed meanwhile, a picture that is
\* answered with is the best of its source.  Of a 3MF, no image of the archive stands before
\* it: a relationship of a better type, or any relationship when it has none itself.  Of a
\* task list, it is of the task with the report's id when that task is listed.  Of
\* Moonraker's previews, none is larger (select_thumbnail_entry, select_cloud_task,
\* pick_thumbnail).
PictureIsTheBest ==
  outcome.status = "ready" =>
    /\ job.route = "local" => BestOfArchive(outcome.of)
    /\ job.route = "cloud" => TaskOfTheJob(outcome.of)
    /\ job.route = "moonraker" => LargestPreview(outcome.of)

\* A 3MF may have half a gigabyte.  Between two fetches the only ones in the directory for
\* temporary files are those whose download broke off (download_3mf_to_temp_file, which
\* has no TempArchive until the download is complete).
OnlyBrokenDownloadsStay == place # "extract" => temp = broken

\* Once a place has been tried, the answer of a failed fetch is never that the thumbnail is
\* loading, whatever the reasons: the causes that would say so are gone when the failure is
\* classified (fetch_local_3mf_thumbnail_with_mode, classify_local_thumbnail_failure).
TriedIsNeverLoading == reasons # <<>> => outcome.status # "loading"
=============================================================================
