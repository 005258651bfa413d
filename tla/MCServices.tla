----------------------------- MODULE MCServices -----------------------------
(***************************************************************************)
(* Services with small command lines, archives, reports and answers.       *)
(***************************************************************************)
EXTENDS Services

CONSTANTS a, b, c, h1

-----------------------------------------------------------------------------
(* Two Bambu printers and a Moonraker one: command lines and accounts.     *)

UpTo(n, S) == UNION {[1..k -> S] : k \in 0..n}
MCConfigurations ==
  [session : BOOLEAN,
   cloud : {<<>>, <<a>>, <<b, a>>, <<a, a>>},
   local : UpTo(2, [id : {a, b}, code : {None, "flag"}]),
   video : {<<>>, <<[id |-> a, code |-> None, at |-> "default"]>>,
            <<[id |-> a, code |-> "video", at |-> "other"]>>}
           \cup {<<[id |-> b, code |-> None, at |-> "default"],
                   [id |-> d, code |-> "video", at |-> "other"]>> : d \in {a, b}},
   snap : {<<>>, <<c>>, <<a, c>>, <<c, c>>},
   bind : {<<>>, <<[id |-> b, code |-> None], [id |-> None, code |-> None],
                   [id |-> a, code |-> "bind"]>>}]

MCHosts == {h1}
MCHostOf == [p \in Pairers |-> h1]

\* A 3MF whose best relationship is not the first, one whose only relationship points to no
\* entry, and one whose preferred entry is empty.
Related(type, target) == [type |-> type, target |-> target]
Archive(relationships, images, empty) ==
  [relationships |-> relationships,
   entries |-> [n \in images \cup empty |-> IF n \in empty THEN "empty" ELSE "image"]]
MCArchives ==
  {Archive(<<Related("small", "plate.png"), Related("opc", "photo.jpg")>>,
           {"plate.png", "photo.jpg", "thumbnail.png"}, {}),
   Archive(<<Related("opc", "gone")>>, {"photo.jpg", "model"}, {}),
   Archive(<<>>, {"photo.jpg"}, {"thumbnail.png"})}

Local(cloud, percent, name) ==
  [route |-> "local", cloud |-> cloud, percent |-> percent, name |-> name]
MCJobs ==
  {Local(TRUE, 99, "plain"), Local(FALSE, 99, "plain"), Local(TRUE, 100, "rooted"),
   Local(TRUE, None, "blank")}
  \cup [route : {"cloud"}, id : {None, 2, 4}, title : {"cube"}, start : {None, 7}]
  \cup [route : {"moonraker"}]

Listed(id, title, start, cover) == [id |-> id, title |-> title, start |-> start, cover |-> cover]
MCListings ==
  {<<>>, <<Listed(1, "cube", None, "cover"), Listed(2, "cube", 7, "cover")>>,
   <<Listed(3, "other", 7, "cover")>>, <<Listed(1, "cube", 7, None)>>}

Preview(path, area) == [path |-> path, area |-> area]
MCPreviews ==
  {<<>>, <<Preview(None, 9), Preview("s", 1), Preview("l", 4), Preview("m", 2)>>}

\* Printer b's page, where a prints all the time: two prints of b, by their file and by their
\* task, a print whose connection is lost, one that has finished, and an error.
Device(id, feed, says, named, file) ==
  [id |-> id, feed |-> feed, status |-> says, task |-> named, filename |-> file]
MCReports ==
  {<<>>} \cup
  {<<Device(a, "connected", "RUNNING", None, "file"), device>> :
     device \in {Device(b, "connected", "RUNNING", None, "file"),
                Device(b, "connected", "PAUSED", "task", "file"),
                Device(b, "lost", "RUNNING", None, "file"),
                Device(b, "none", "FINISH", "task", "file")}}
=============================================================================
