------------------------------- MODULE Gallery -------------------------------
(***************************************************************************)
(* The image history: what a job saves (image_diffusers._persist,          *)
(* util/imaging.py) and commits (job_results.finish_image), what deletion  *)
(* removes and what the media doctor restores (services/gallery_service.py *)
(* and api/gallery.py), at startup and on request.  An image is three      *)
(* files of one name and one row; files and rows change in separate steps. *)
(***************************************************************************)
EXTENDS Naturals, FiniteSets

CONSTANTS
  Pics,       \* file names, <seed>_<random> of a day
  Doctors,    \* POST /images/reconcile requests
  Deleters,   \* DELETE /images/{id} requests
  Boot,       \* the reconciliation of the startup
  Batch,      \* bound: images of a job
  MaxRows,    \* bound: rows ever inserted
  MaxCrashes, \* bound: restarts
  Dropped,    \* in place of a deleted row: ids are never used again
  None

Scanners == Doctors \cup {Boot}
RowIds == 1 .. MaxRows

\* The two values that stand for no row are no rows.
GalleryAssumption ==
  /\ Batch \in Nat \ {0} /\ MaxRows \in Nat /\ MaxCrashes \in Nat
  /\ Boot \notin Doctors /\ None \notin Scanners
  /\ Dropped # None /\ {None, Dropped} \cap [pic : Pics, thumb : BOOLEAN, missing : BOOLEAN] = {}
  /\ None \notin Pics \X {"side", "thumb"}

VARIABLES
  serving,   \* the startup is over
  png, side, thumb,  \* the files: originals, sidecars, thumbnails
  row,       \* the images table: [pic, thumb, missing], Dropped or None
  writing,   \* <<picture, step>> that the job saves, or None
  produced,  \* the pictures that its generate has saved
  busy,      \* a job runs
  doctor,    \* the step of each reconciliation
  known,     \* the rows it has read
  adds,      \* the rows it will insert
  sets,      \* the rows it will update: [row -> new value]
  holder,    \* who holds _RECONCILIATION_LOCK
  deleting,  \* the row each deletion works on
  clean,     \* its files are all unlinked
  crashes,
  raced,     \* history: names taken twice, and originals that a scan has taken
             \* for lost while their row was on its way: committed after the scan
             \* had read the rows, or not yet, by their job or another scan
  gone       \* history: deleted with every file

fileVars == <<png, side, thumb>>
jobVars == <<writing, produced, busy>>
doctorVars == <<doctor, known, adds, sets, holder>>
deleteVars == <<deleting, clean>>
vars == <<serving, fileVars, row, jobVars, doctorVars, deleteVars, crashes, raced, gone>>

Row(p, t) == [pic |-> p, thumb |-> t, missing |-> FALSE]
Rows == {i \in RowIds : row[i] \notin {None, Dropped}}
RowsOf(p) == {i \in Rows : row[i].pic = p}
NoSets == [i \in {} |-> None]

Init ==
  /\ serving = FALSE /\ png = {} /\ side = {} /\ thumb = {}
  /\ row = [i \in RowIds |-> None]
  /\ writing = None /\ produced = {} /\ busy = FALSE
  /\ doctor = [d \in Scanners |-> "new"] /\ known = [d \in Scanners |-> {}]
  /\ adds = [d \in Scanners |-> {}] /\ sets = [d \in Scanners |-> NoSets] /\ holder = None
  /\ deleting = [d \in Deleters |-> None] /\ clean = [d \in Deleters |-> FALSE]
  /\ crashes = 0 /\ raced = {} /\ gone = {}

-----------------------------------------------------------------------------
(* A job: the original, its sidecar, its thumbnail, and rows at the end    *)

StartJob ==
  /\ serving /\ ~busy
  /\ busy' = TRUE /\ produced' = {}
  /\ UNCHANGED <<serving, fileVars, row, writing, doctorVars, deleteVars, crashes, raced, gone>>

\* The name may be that of an earlier image: four random digits after the seed.
SavePng(p) ==
  /\ busy /\ writing = None /\ Cardinality(produced) < Batch /\ p \notin produced
  /\ png' = png \cup {p} /\ writing' = <<p, "side">>
  /\ raced' = IF p \in png \cup side \cup gone \/ RowsOf(p) # {} THEN raced \cup {p} ELSE raced
  /\ UNCHANGED <<serving, side, thumb, row, produced, busy, doctorVars, deleteVars, crashes, gone>>

SaveSidecar ==
  /\ writing # None /\ writing[2] = "side"
  /\ side' = side \cup {writing[1]} /\ writing' = <<writing[1], "thumb">>
  /\ UNCHANGED <<serving, png, thumb, row, produced, busy, doctorVars, deleteVars, crashes, raced, gone>>

SaveThumb ==
  /\ writing # None /\ writing[2] = "thumb"
  /\ thumb' = thumb \cup {writing[1]} /\ writing' = None /\ produced' = produced \cup {writing[1]}
  /\ UNCHANGED <<serving, png, side, row, busy, doctorVars, deleteVars, crashes, raced, gone>>

\* The table with rows of new ids.
Inserted(tab, new) ==
  LET free == {i \in RowIds : tab[i] = None}
      place == CHOOSE f \in [new -> free] : \A a, b \in new : f[a] = f[b] => a = b
  IN [i \in RowIds |-> IF \E a \in new : place[a] = i THEN CHOOSE a \in new : place[a] = i ELSE tab[i]]
Room(new) == Cardinality(new) <= Cardinality({i \in RowIds : row[i] = None})

FinishImage ==
  /\ busy /\ writing = None /\ produced # {} /\ Room(produced)
  /\ row' = Inserted(row, {Row(p, TRUE) : p \in produced})
  /\ busy' = FALSE /\ produced' = {}
  /\ UNCHANGED <<serving, fileVars, writing, doctorVars, deleteVars, crashes, raced, gone>>

\* Cancelled or failed, with some images saved and one perhaps half saved.
JobEnds ==
  /\ busy
  /\ busy' = FALSE /\ writing' = None /\ produced' = {}
  /\ UNCHANGED <<serving, fileVars, row, doctorVars, deleteVars, crashes, raced, gone>>

-----------------------------------------------------------------------------
(* delete_image                                                            *)

BeginDelete(d, i) ==
  /\ serving /\ deleting[d] = None /\ i \in Rows
  /\ deleting' = [deleting EXCEPT ![d] = i] /\ clean' = [clean EXCEPT ![d] = FALSE]
  /\ UNCHANGED <<serving, fileVars, row, jobVars, doctorVars, crashes, raced, gone>>

\* The original, the thumbnail that the row names and the sidecar are unlinked;
\* a locked one (K: those that stay) does not stop the deletion.
Unlink(d, K) ==
  /\ deleting[d] # None /\ ~clean[d] /\ deleting[d] \in Rows
  /\ LET p == row[deleting[d]].pic IN
     /\ png' = IF "png" \in K THEN png ELSE png \ {p}
     /\ side' = IF "side" \in K THEN side ELSE side \ {p}
     /\ thumb' = IF "thumb" \in K \/ ~row[deleting[d]].thumb THEN thumb ELSE thumb \ {p}
  /\ clean' = [clean EXCEPT ![d] = TRUE]
  /\ UNCHANGED <<serving, row, jobVars, doctorVars, deleting, crashes, raced, gone>>

\* The commit comes after the handler; a row that is already gone is no error.
EndDelete(d) ==
  /\ deleting[d] # None
  /\ clean[d] \/ deleting[d] \notin Rows
  /\ LET i == deleting[d] IN
     /\ row' = [row EXCEPT ![i] = Dropped]
     /\ gone' = IF i \in Rows /\ row[i].pic \notin png \cup side THEN gone \cup {row[i].pic} ELSE gone
  /\ deleting' = [deleting EXCEPT ![d] = None] /\ clean' = [clean EXCEPT ![d] = FALSE]
  /\ UNCHANGED <<serving, fileVars, jobVars, doctorVars, crashes, raced>>

-----------------------------------------------------------------------------
(* reconcile_media                                                         *)

MayRun(d) == IF d = Boot THEN ~serving ELSE serving

\* The lock, and the rows.
BeginReconcile(d) ==
  /\ MayRun(d) /\ doctor[d] = "new" /\ holder = None
  /\ holder' = d /\ doctor' = [doctor EXCEPT ![d] = "scan"]
  /\ known' = [known EXCEPT ![d] = {<<i, row[i]>> : i \in Rows}]
  /\ UNCHANGED <<serving, fileVars, row, jobVars, adds, sets, deleteVars, crashes, raced, gone>>

\* Mutant of Recovered: the rows are not consulted.
RecoversKnown(d) == png \cap side

\* Originals with a sidecar and no row that it knows become rows; the sidecar
\* tells their parameters.
Recovered(d) == (png \cap side) \ {k[2].pic : k \in known[d]}

\* What a known row becomes: flagged when its original is gone, otherwise not,
\* and its thumbnail found, made again or given up (T: those that can be made).
Probed(r, T) ==
  IF r.pic \notin png THEN [r EXCEPT !.missing = TRUE]
  ELSE [r EXCEPT !.missing = FALSE, !.thumb = (r.thumb /\ r.pic \in thumb) \/ r.pic \in thumb \cup T]

Pending(d) == UNION {{a.pic : a \in adds[e]} : e \in Scanners \ {d}}

Scan(d) ==
  /\ doctor[d] = "scan"
  /\ \E T \in SUBSET (png \ thumb) :
       /\ T \subseteq {k[2].pic : k \in known[d]} \cup Recovered(d)
       /\ thumb' = thumb \cup T
       /\ adds' = [adds EXCEPT ![d] = {Row(p, p \in thumb \cup T) : p \in Recovered(d)}]
       /\ sets' = [sets EXCEPT ![d] =
            LET changed == {k \in known[d] : Probed(k[2], T) # k[2]}
            IN [i \in {k[1] : k \in changed} |-> Probed((CHOOSE k \in changed : k[1] = i)[2], T)]]
  /\ raced' = raced \cup {p \in Recovered(d) :
       RowsOf(p) \ {k[1] : k \in known[d]} # {} \/ p \in produced \cup Pending(d) \/ (writing # None /\ writing[1] = p)}
  /\ doctor' = [doctor EXCEPT ![d] = "commit"] /\ holder' = None
  /\ UNCHANGED <<serving, png, side, row, jobVars, known, deleteVars, crashes, gone>>

\* Mutant of Fits: a deleted row is inserted again.
MergesDeleted(d) == TRUE

\* Every row it updates is still there.
Fits(d) == DOMAIN sets[d] \subseteq Rows

\* The request's session is committed after the lock is free.  An update of a
\* row deleted meanwhile undoes all of it.
Commit(d) ==
  /\ doctor[d] = "commit"
  /\ Fits(d)
  /\ Room(adds[d])
  /\ row' = Inserted([i \in RowIds |-> IF i \in DOMAIN sets[d] THEN sets[d][i] ELSE row[i]], adds[d])
  /\ doctor' = [doctor EXCEPT ![d] = "new"] /\ serving' = TRUE
  /\ known' = [known EXCEPT ![d] = {}]
  /\ adds' = [adds EXCEPT ![d] = {}] /\ sets' = [sets EXCEPT ![d] = NoSets]
  /\ UNCHANGED <<fileVars, jobVars, holder, deleteVars, crashes, raced, gone>>

RollBack(d) ==
  /\ doctor[d] = "commit" /\ ~Fits(d)
  /\ doctor' = [doctor EXCEPT ![d] = "new"]
  /\ known' = [known EXCEPT ![d] = {}]
  /\ adds' = [adds EXCEPT ![d] = {}] /\ sets' = [sets EXCEPT ![d] = NoSets]
  /\ UNCHANGED <<serving, fileVars, row, jobVars, holder, deleteVars, crashes, raced, gone>>

\* The server stops at any point; files and committed rows stay.
Crash ==
  /\ serving /\ crashes < MaxCrashes
  /\ crashes' = crashes + 1 /\ serving' = FALSE
  /\ busy' = FALSE /\ writing' = None /\ produced' = {}
  /\ doctor' = [d \in Scanners |-> "new"] /\ known' = [d \in Scanners |-> {}]
  /\ adds' = [d \in Scanners |-> {}] /\ sets' = [d \in Scanners |-> NoSets] /\ holder' = None
  /\ deleting' = [d \in Deleters |-> None] /\ clean' = [d \in Deleters |-> FALSE]
  /\ UNCHANGED <<fileVars, row, raced, gone>>

-----------------------------------------------------------------------------

Next ==
  \/ StartJob \/ (\E p \in Pics : SavePng(p)) \/ SaveSidecar \/ SaveThumb \/ FinishImage \/ JobEnds
  \/ \E d \in Deleters :
       \/ \E i \in RowIds : BeginDelete(d, i)
       \/ \E K \in SUBSET {"png", "side", "thumb"} : Unlink(d, K)
       \/ EndDelete(d)
  \/ \E d \in Scanners : BeginReconcile(d) \/ Scan(d) \/ Commit(d) \/ RollBack(d)
  \/ Crash

Spec == Init /\ [][Next]_vars

-----------------------------------------------------------------------------

\* Every variable has its type; only a reconciliation that scans holds the lock.
TypeOK ==
  /\ serving \in BOOLEAN /\ busy \in BOOLEAN /\ crashes \in 0 .. MaxCrashes
  /\ png \subseteq Pics /\ side \subseteq Pics /\ thumb \subseteq Pics /\ produced \subseteq Pics
  /\ \A i \in Rows : row[i].pic \in Pics /\ row[i].thumb \in BOOLEAN /\ row[i].missing \in BOOLEAN
  /\ \A d \in Scanners : doctor[d] = "scan" <=> holder = d
  /\ (writing # None \/ produced # {}) => busy
  /\ raced \subseteq Pics /\ gone \subseteq Pics

\* An image has one row: what a crash, a failure or a cancellation left without
\* a row is recovered once, however often the doctor runs, and nothing that has
\* a row is recovered (except names that raced holds).
OneRowPerFile == \A p \in Pics \ raced : Cardinality(RowsOf(p)) <= 1

\* An image deleted with its files does not come back, whatever the doctor had
\* read before (delete_image against reconcile_media).
DeletedStays == \A p \in gone \ raced : RowsOf(p) = {}

=============================================================================
