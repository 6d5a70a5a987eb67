----------------------------- MODULE ImageDesk -----------------------------
(***************************************************************************)
(* Requests on the image history (api/gallery.py): an export builds an     *)
(* archive of selected images off the event loop while others delete or    *)
(* edit them, and its temporary file must go whatever happens; a source    *)
(* image is decoded and stored; favourites and tags are edited.            *)
(***************************************************************************)
EXTENDS Sequences, Ordered

CONSTANTS
  Images,
  Asked,     \* the ids of the export request, in its order
  Updates,   \* PATCH requests
  Image,     \* Image[u]: the image an update is about
  Change,    \* Change[u]: what it sets: [favorite |-> v or None, tags |-> v or None]
  Contents,  \* what an upload may be: "image", "bomb", "mismatch", "corrupt", "large"
  None

DeskAssumption ==
  /\ Asked \in Seq(Images)
  /\ \A u \in Updates : Image[u] \in Images /\ Change[u] \in [{"favorite", "tags"} -> Nat \cup {None}]
  /\ None \notin Nat \cup [{"favorite", "tags"} -> Nat] \cup Seq([id : Images, image : BOOLEAN])

VARIABLES
  row,      \* the images table: [favorite, tags] or None
  files,    \* images whose original exists
  deleting, \* images whose files a deletion has removed, their rows not yet
  export,   \* the step of the export request
  records,  \* the images it exports
  zip,      \* its temporary file: the members written, or None without a file
  worker,   \* the thread that builds it
  due,      \* records it has yet to write
  seen,     \* history: originals that existed when the request looked
  leaked,   \* history: the request ended between naming the file and building it
  update,   \* the step of each update
  copy,     \* the row it has read
  after,    \* history: updates that ended after this one began
  upload,   \* the step of the upload request
  content,  \* what it uploads
  decoder,  \* the step of its thread
  temporary, stored  \* the files of its token

exportVars == <<export, records, zip, worker, due, seen, leaked>>
updateVars == <<update, copy, after>>
uploadVars == <<upload, content, decoder, temporary, stored>>
vars == <<row, files, deleting, exportVars, updateVars, uploadVars>>

Fields == {"favorite", "tags"}
Fresh == [f \in Fields |-> 0]
Rows == {i \in Images : row[i] # None}

Init ==
  /\ row = [i \in Images |-> Fresh] /\ files = Images /\ deleting = {}
  /\ export = "idle" /\ records = <<>> /\ zip = None /\ worker = "none" /\ due = <<>>
  /\ seen = {} /\ leaked = FALSE
  /\ update = [u \in Updates |-> "idle"] /\ copy = [u \in Updates |-> None] /\ after = [u \in Updates |-> {}]
  /\ upload = "idle" /\ content = None /\ decoder = "none" /\ temporary = FALSE /\ stored = FALSE

-----------------------------------------------------------------------------
(* The export                                                              *)

\* dict.fromkeys: each id once, where it came first.
Distinct == Selected(Asked, {i \in DOMAIN Asked : \A j \in 1 .. i - 1 : Asked[j] # Asked[i]})

\* get_images: the rows, then the originals that exist.
Select ==
  /\ export = "idle"
  /\ export' = "check" /\ records' = Among(Distinct, Rows)
  /\ UNCHANGED <<row, files, deleting, zip, worker, due, seen, leaked, updateVars, uploadVars>>

\* A file of its own is made before the payloads are.
Check ==
  /\ export = "check"
  /\ records' = Among(records, files)
  /\ seen' = files
  /\ IF records' = <<>> THEN export' = "refused" /\ zip' = None
     ELSE export' = "named" /\ zip' = <<>>
  /\ UNCHANGED <<row, files, deleting, worker, due, leaked, updateVars, uploadVars>>

\* build_temporary_artifact: a shielded thread.
Build ==
  /\ export = "named"
  /\ export' = "building" /\ worker' = "queued" /\ due' = records
  /\ UNCHANGED <<row, files, deleting, records, zip, seen, leaked, updateVars, uploadVars>>

\* The client goes, or a payload is refused, before that.
CutEarly ==
  /\ export = "named"
  /\ export' = "cut" /\ leaked' = TRUE
  /\ UNCHANGED <<row, files, deleting, records, zip, worker, due, seen, updateVars, uploadVars>>

\* Mutant: the file is removed at once, under the thread.
CancelUnlinks ==
  /\ export = "building"
  /\ export' = "cut" /\ zip' = None
  /\ UNCHANGED <<row, files, deleting, records, worker, due, seen, leaked, updateVars, uploadVars>>

\* The client goes while the thread builds: it goes on, and a callback removes
\* what it has made.
Cancel ==
  /\ export = "building"
  /\ export' = IF worker \in {"done", "failed"} THEN "cut" ELSE "cancelled"
  /\ zip' = IF worker \in {"done", "failed"} THEN None ELSE zip
  /\ UNCHANGED <<row, files, deleting, records, worker, due, seen, leaked, updateVars, uploadVars>>

\* _write_image_export_archive: opened, then each record.
OpenArchive ==
  /\ worker = "queued"
  /\ worker' = "writing" /\ zip' = <<>>
  /\ UNCHANGED <<row, files, deleting, export, records, due, seen, leaked, updateVars, uploadVars>>

WriteRecord ==
  /\ worker = "writing" /\ due # <<>>
  /\ due' = Tail(due)
  /\ zip' = IF zip = None THEN None ELSE Append(zip, [id |-> Head(due), image |-> Head(due) \in files])
  /\ UNCHANGED <<row, files, deleting, export, records, worker, seen, leaked, updateVars, uploadVars>>

\* The original goes between is_file and the read, or the disk is full.
WorkerEnds ==
  /\ worker = "writing"
  /\ \/ due = <<>> /\ worker' = "done"
     \/ worker' = "failed"
  /\ UNCHANGED <<row, files, deleting, export, records, zip, due, seen, leaked, updateVars, uploadVars>>

\* _cleanup_finished_worker, or the request's own handler when it waits.
CleanUp ==
  /\ worker \in {"done", "failed"}
  /\ \/ export = "cancelled" /\ export' = "cut"
     \/ export = "building" /\ worker = "failed" /\ export' = "failed"
  /\ zip' = None
  /\ UNCHANGED <<row, files, deleting, records, worker, due, seen, leaked, updateVars, uploadVars>>

Send ==
  /\ export = "building" /\ worker = "done"
  /\ export' = "sending"
  /\ UNCHANGED <<row, files, deleting, records, zip, worker, due, seen, leaked, updateVars, uploadVars>>

\* The background task of the response.
Sent ==
  /\ export = "sending"
  /\ export' = "sent" /\ zip' = None
  /\ UNCHANGED <<row, files, deleting, records, worker, due, seen, leaked, updateVars, uploadVars>>

-----------------------------------------------------------------------------
(* Deletions and edits                                                     *)

\* delete_image: the files in a thread, the row when the request commits.
DeleteFiles(i) ==
  /\ i \in Rows \ deleting
  /\ files' = files \ {i} /\ deleting' = deleting \cup {i}
  /\ UNCHANGED <<row, exportVars, updateVars, uploadVars>>

DeleteRow(i) ==
  /\ i \in deleting
  /\ row' = [row EXCEPT ![i] = None] /\ deleting' = deleting \ {i}
  /\ UNCHANGED <<files, exportVars, updateVars, uploadVars>>

\* update_image: the row is read, the fields of the request set, and committed
\* at the end of the request.
ReadRow(u) ==
  /\ update[u] = "idle"
  /\ update' = [update EXCEPT ![u] = IF row[Image[u]] = None THEN "refused" ELSE "read"]
  /\ copy' = [copy EXCEPT ![u] = row[Image[u]]]
  /\ UNCHANGED <<row, files, deleting, exportVars, after, uploadVars>>

\* Mutant: every column is written back, as it was read.
WrittenWhole(u, old) ==
  [f \in Fields |-> IF Change[u][f] # None THEN Change[u][f] ELSE copy[u][f]]

\* A column is written when its new value is not the one that was read.
Written(u, old) ==
  [f \in Fields |-> IF Change[u][f] \notin {None, copy[u][f]} THEN Change[u][f] ELSE old[f]]

\* The row may be gone by then: the commit fails.
CommitUpdate(u) ==
  /\ update[u] = "read"
  /\ IF row[Image[u]] # None
     THEN /\ row' = [row EXCEPT ![Image[u]] = Written(u, row[Image[u]])]
          /\ update' = [update EXCEPT ![u] = "done"]
          /\ after' = [v \in Updates |-> IF v # u /\ update[v] \in {"read", "done"} THEN after[v] \cup {u} ELSE after[v]]
     ELSE row' = row /\ after' = after /\ update' = [update EXCEPT ![u] = "refused"]
  /\ UNCHANGED <<files, deleting, exportVars, copy, uploadVars>>

-----------------------------------------------------------------------------
(* An upload                                                               *)

\* read_limited_upload, then the thread.
Upload(c) ==
  /\ upload = "idle"
  /\ content' = c
  /\ IF c = "large" THEN upload' = "refused" /\ decoder' = "none"
     ELSE upload' = "waiting" /\ decoder' = "decoding"
  /\ UNCHANGED <<row, files, deleting, exportVars, updateVars, temporary, stored>>

\* _decode_and_store_upload: a format outside the list, a MIME type of another
\* format, a decompression bomb and a broken file are refused before anything
\* is written.
Decode ==
  /\ decoder = "decoding"
  /\ decoder' = IF content = "image" THEN "saving" ELSE "refused"
  /\ UNCHANGED <<row, files, deleting, exportVars, updateVars, upload, content, temporary, stored>>

SaveTemporary ==
  /\ decoder = "saving" /\ ~temporary
  /\ temporary' = TRUE
  /\ UNCHANGED <<row, files, deleting, exportVars, updateVars, upload, content, decoder, stored>>

\* The save fails partway: the file that it had begun goes.
SaveFails ==
  /\ decoder = "saving"
  /\ decoder' = "refused" /\ temporary' = FALSE
  /\ UNCHANGED <<row, files, deleting, exportVars, updateVars, upload, content, stored>>

Replace ==
  /\ decoder = "saving" /\ temporary
  /\ decoder' = "stored" /\ temporary' = FALSE /\ stored' = TRUE
  /\ UNCHANGED <<row, files, deleting, exportVars, updateVars, upload, content>>

\* The client may go: the thread ends its work without it.
AnswerUpload ==
  /\ upload = "waiting"
  /\ upload' = CASE decoder = "stored" -> "token" [] decoder = "refused" -> "refused" [] OTHER -> "gone"
  /\ UNCHANGED <<row, files, deleting, exportVars, updateVars, content, decoder, temporary, stored>>

Next ==
  \/ Select \/ Check \/ Build \/ CutEarly \/ Cancel \/ OpenArchive \/ WriteRecord \/ WorkerEnds
  \/ CleanUp \/ Send \/ Sent
  \/ (\E i \in Images : DeleteFiles(i) \/ DeleteRow(i))
  \/ (\E u \in Updates : ReadRow(u) \/ CommitUpdate(u))
  \/ (\E c \in Contents : Upload(c)) \/ Decode \/ SaveTemporary \/ SaveFails \/ Replace \/ AnswerUpload

Spec == Init /\ [][Next]_vars

-----------------------------------------------------------------------------

\* The requests' steps, and what the archive may hold.
TypeOK ==
  /\ row \in [Images -> [Fields -> Nat] \cup {None}] /\ files \subseteq Images
  /\ deleting \subseteq Rows /\ seen \subseteq Images /\ leaked \in BOOLEAN
  /\ export \in {"idle", "check", "refused", "named", "building", "cut", "cancelled", "failed", "sending", "sent"}
  /\ worker \in {"none", "queued", "writing", "done", "failed"}
  /\ update \in [Updates -> {"idle", "read", "done", "refused"}]
  /\ records \in Seq(Images) /\ due \in Seq(Images)
  /\ zip = None \/ \A i \in DOMAIN zip : zip[i] \in [id : Images, image : BOOLEAN]
  /\ upload \in {"idle", "waiting", "refused", "token", "gone"}
  /\ decoder \in {"none", "decoding", "saving", "refused", "stored"}
  /\ temporary \in BOOLEAN /\ stored \in BOOLEAN

\* The archive that is sent names each chosen image once, in the order of the
\* request, and lacks the picture only of one deleted since the request looked
\* (get_images, _write_image_export_archive).
ExportTrue ==
  export = "sending" =>
    /\ zip # None /\ [i \in DOMAIN zip |-> zip[i].id] = records
    /\ \A i, j \in DOMAIN records : i # j => records[i] # records[j]
    /\ \A i \in DOMAIN zip : zip[i].image \/ (records[i] \in seen /\ records[i] \notin files)

\* When the request is over and its thread too, the temporary file is gone,
\* unless the request ended before the thread began: nothing removes it then
\* (export_images makes the file before it makes the payloads).
NoArchiveLeft ==
  /\ export \in {"refused", "failed", "sent", "cut"} /\ worker \notin {"queued", "writing"} => zip = None \/ leaked
  /\ leaked => worker = "none"

\* What an update sets stays until another update of the same field that ended
\* after this one began (update_image, the session's commit).
UpdatesKept ==
  \A u \in Updates : update[u] = "done" /\ row[Image[u]] # None =>
    \A f \in Fields : Change[u][f] # None =>
      \/ row[Image[u]][f] = Change[u][f]
      \/ \E v \in after[u] : Image[v] = Image[u] /\ Change[v][f] = row[Image[u]][f]

\* A stored source is a whole image, a token that was answered resolves, and no
\* temporary file outlives the thread, whether or not the client waited.
UploadsWhole ==
  /\ stored => content = "image" /\ decoder = "stored"
  /\ upload = "token" => stored
  /\ decoder \in {"none", "refused", "stored"} => ~temporary

=============================================================================
