----------------------------- MODULE ModelFiles -----------------------------
(***************************************************************************)
(* The model folders and who changes them: download batches                *)
(* (api/downloads.py, services/model_download_service.py and               *)
(* model_download_transport.py), deletion (services/model_storage.py) and  *)
(* the registry's scans (backends/registry.py), while jobs want, load and  *)
(* free models.  A file is known by the batch that wrote it.  A download   *)
(* from a URL writes a .part file that a rename makes visible, the hub's   *)
(* client shows a file when it is whole, and a repository becomes a folder *)
(* that it fills file by file where everybody looks.  A folder counts from *)
(* the file on that tells its kind; without it nobody sees a model in it.  *)
(***************************************************************************)
EXTENDS Naturals, FiniteSets

CONSTANTS
  Files,     \* top-level names in a kind folder
  Curated,   \* POST /downloads/start requests
  Custom,    \* POST /downloads/custom requests
  Deletes,   \* DELETE /models/installed requests
  Rescans,   \* POST /models/rescan requests
  Hashed,    \* files whose specification carries a SHA256
  Repos,     \* names that are folders: whole repositories of the hub
  Shipped,   \* files that were there at the start
  None

Posts == Curated \cup Custom
Requests == Posts \cup Deletes \cup Rescans

ASSUME FilesAssumption ==
  /\ Curated \cap Custom = {} /\ Posts \cap Deletes = {}
  /\ (Posts \cup Deletes) \cap Rescans = {}
  /\ Hashed \subseteq Files \ Repos /\ Repos \subseteq Files /\ Shipped \subseteq Files
  /\ None \notin Requests \cup Files \cup {"old", "torn"}
  /\ Posts \cap {"old", "torn"} = {}

VARIABLES
  status,    \* _status["state"]
  at,        \* the step each request or its background task has come to
  todo,      \* the items of a download request, then those its batch has not begun
  item,      \* the file a request works on
  failed,    \* <<batch, file>> pairs: the items that the batch reports as failed
  disk,      \* the file visible at each name: its writer, "old", "torn" or None
  part,      \* the same of the .part file beside it
  whole,     \* <<writer, file>> pairs whose last chunk is written
  spoiled,   \* those whose bytes are not the model's
  reserved,  \* _RESERVED_PATHS
  staged,    \* staged[d]: the file that a deletion has renamed
  listed,    \* the registry's snapshot
  scanner,   \* who holds _scan_lock
  seen,      \* what its walk has found
  left,      \* and what it has not reached
  wanted,    \* files of queued and running jobs
  resident,  \* files of the resident and parked models
  spared,    \* history: files that have waited for a job or stayed
             \* on the GPU since a deletion read the jobs
  overlap,   \* history: two batches have run at once
  jobPaths,  \* the files of jobs that a deletion has read from the database
  rescanDue  \* history: disk has changed and no request will scan it

fileVars == <<disk, part, whole, spoiled>>
batchVars == <<status, todo, item, failed, overlap>>
deleteVars == <<reserved, staged, spared, jobPaths>>
scanVars == <<listed, scanner, seen, left, rescanDue>>
useVars == <<wanted, resident>>
vars == <<at, fileVars, batchVars, deleteVars, scanVars, useVars>>

Batching == {"next", "hub", "fill", "request", "stream", "publish", "verify"}

Goto(r, s) == at' = [at EXCEPT ![r] = s]
Set(f, v) == disk' = [disk EXCEPT ![f] = v]
Present(f) == disk[f] # None
Running == {p \in Posts : at[p] \in Batching}
Intact(w, f) == (w = "old" \/ <<w, f>> \in whole) /\ <<w, f>> \notin spoiled

Init ==
  /\ status = "idle" /\ at = [r \in Requests |-> "new"]
  /\ todo = [p \in Posts |-> {}] /\ item = [r \in Requests |-> None]
  /\ failed = {} /\ overlap = FALSE
  /\ disk = [f \in Files |-> IF f \in Shipped THEN "old" ELSE None]
  /\ part = [f \in Files |-> None] /\ whole = {} /\ spoiled = {}
  /\ reserved = {} /\ staged = [d \in Deletes |-> None]
  /\ spared = [d \in Deletes |-> {}] /\ jobPaths = [d \in Deletes |-> {}]
  /\ listed = Shipped /\ scanner = None /\ seen = {} /\ left = {} /\ rescanDue = FALSE
  /\ wanted = {} /\ resident = {}

-----------------------------------------------------------------------------
(* Starting a download: the endpoint, start and start_custom               *)

\* 409 while a download runs, 422 when nothing is selected.
Post(p) ==
  /\ at[p] = "new"
  /\ IF status = "running"
     THEN Goto(p, "over") /\ UNCHANGED todo
     ELSE /\ Goto(p, "posted")
          /\ \E named \in SUBSET Files \ {{}} : todo' = [todo EXCEPT ![p] = named]
  /\ UNCHANGED <<fileVars, status, item, failed, overlap, deleteVars, scanVars, useVars>>

\* start looks again in its thread, under a lock that it gives back; when a
\* download runs by now it returns, and the endpoint goes on.
Look(p) ==
  /\ at[p] = "posted"
  /\ Goto(p, IF status = "running" THEN "started" ELSE "looked")
  /\ UNCHANGED <<fileVars, batchVars, deleteVars, scanVars, useVars>>

\* An unknown key, a bad specification, no hub client or no disk space: 400.
Refuse(p) ==
  /\ at[p] = "looked"
  /\ Goto(p, "over")
  /\ UNCHANGED <<fileVars, batchVars, deleteVars, scanVars, useVars>>

Pending(p) == {f \in todo[p] : p \in Curated => ~Present(f)}

Start(p) ==
  /\ at[p] = "looked"
  /\ status' = IF Pending(p) = {} THEN "done" ELSE "running"
  /\ Goto(p, "started")
  /\ UNCHANGED <<fileVars, todo, item, failed, overlap, deleteVars, scanVars, useVars>>

\* The endpoint creates the task when a download is running by now.
Launch(p) ==
  /\ at[p] = "started"
  /\ IF status = "running"
     THEN /\ Goto(p, "next") /\ todo' = [todo EXCEPT ![p] = Pending(p)]
          /\ overlap' = (overlap \/ Running # {})
     ELSE Goto(p, "over") /\ UNCHANGED <<todo, overlap>>
  /\ UNCHANGED <<fileVars, status, item, failed, deleteVars, scanVars, useVars>>

-----------------------------------------------------------------------------
(* The batch: run_blocking, run_blocking_custom and download_url           *)

\* A curated item and one named by its repository come from the hub, another
\* from there or from a URL, whose old .part file goes first.
NextItem(p) ==
  /\ at[p] = "next"
  /\ \E f \in todo[p] :
       /\ item' = [item EXCEPT ![p] = f]
       /\ todo' = [todo EXCEPT ![p] = @ \ {f}]
       /\ \/ Goto(p, "hub") /\ UNCHANGED part
          \/ /\ p \in Custom /\ f \notin Repos
             /\ Goto(p, "request") /\ part' = [part EXCEPT ![f] = None]
  /\ UNCHANGED <<status, failed, overlap, disk, whole, spoiled, deleteVars, scanVars, useVars>>

\* hf_hub_download
HubFile(p) ==
  /\ at[p] = "hub" /\ item[p] \notin Repos
  /\ Set(item[p], p) /\ whole' = whole \cup {<<p, item[p]>>}
  /\ Goto(p, "next")
  /\ UNCHANGED <<part, spoiled, batchVars, deleteVars, scanVars, useVars>>

\* snapshot_download has come to the file that tells the folder's kind, in a
\* folder of its own or over the files of an older one,
RepoShows(p) ==
  /\ at[p] = "hub" /\ item[p] \in Repos
  /\ Set(item[p], p)
  /\ Goto(p, "fill")
  /\ UNCHANGED <<part, whole, spoiled, batchVars, deleteVars, scanVars, useVars>>

\* and to its last one.  When a deletion has taken the folder meanwhile, only
\* the rest is there, with that file or without.
RepoFilled(p) ==
  /\ at[p] = "fill"
  /\ LET f == item[p] IN
       IF disk[f] = p
       THEN whole' = whole \cup {<<p, f>>} /\ UNCHANGED disk
       ELSE disk' \in {disk, [disk EXCEPT ![f] = "torn"]} /\ UNCHANGED whole
  /\ Goto(p, "next")
  /\ UNCHANGED <<part, spoiled, batchVars, deleteVars, scanVars, useVars>>

\* Mutant: the response is written to the visible name.
OpenVisible(p) ==
  /\ at[p] = "request"
  /\ Set(item[p], p)
  /\ Goto(p, "stream")
  /\ UNCHANGED <<batchVars, part, whole, spoiled, deleteVars, scanVars, useVars>>

\* Every redirect passed the address checks: the .part file is opened, and
\* emptied when another batch has opened it meanwhile.
OpenPart(p) ==
  /\ at[p] = "request"
  /\ LET f == item[p] IN
       IF part[f] = None
       THEN part' = [part EXCEPT ![f] = p] /\ UNCHANGED spoiled
       ELSE spoiled' = spoiled \cup {<<part[f], f>>, <<p, f>>} /\ UNCHANGED part
  /\ Goto(p, "stream")
  /\ UNCHANGED <<batchVars, disk, whole, deleteVars, scanVars, useVars>>

\* The last chunk; the bytes may not be what the specification's hash says.
LastChunk(p) ==
  /\ at[p] = "stream"
  /\ LET f == item[p] IN
       /\ whole' = whole \cup {<<p, f>>}
       /\ spoiled' \in {spoiled} \cup
            IF f \in Hashed THEN {spoiled \cup {<<p, f>>}} ELSE {}
  /\ Goto(p, "publish")
  /\ UNCHANGED <<batchVars, disk, part, deleteVars, scanVars, useVars>>

\* replace() renames whatever .part file there is.
Publish(p) ==
  /\ at[p] = "publish" /\ part[item[p]] # None
  /\ Set(item[p], part[item[p]]) /\ part' = [part EXCEPT ![item[p]] = None]
  /\ Goto(p, IF item[p] \in Hashed THEN "verify" ELSE "next")
  /\ UNCHANGED <<batchVars, whole, spoiled, deleteVars, scanVars, useVars>>

\* A network error, a refused address, a full disk or a missing .part file: the
\* batch counts the failure.  The handler of download_url removes the .part file
\* that is there; what the hub's client has put into a folder stays.
ItemFails(p) ==
  /\ at[p] \in {"hub", "fill", "request", "stream"} \/ (at[p] = "publish" /\ part[item[p]] = None)
  /\ part' = IF at[p] \in {"hub", "fill"} THEN part ELSE [part EXCEPT ![item[p]] = None]
  /\ failed' = failed \cup {<<p, item[p]>>} /\ Goto(p, "next")
  /\ UNCHANGED <<status, todo, item, overlap, disk, whole, spoiled, deleteVars, scanVars, useVars>>

\* verify_sha256: a mismatch removes the file that is visible by now.
Verify(p) ==
  /\ at[p] = "verify"
  /\ LET f == item[p] IN
       IF Present(f) /\ Intact(disk[f], f)
       THEN UNCHANGED <<disk, failed>>
       ELSE Set(f, None) /\ failed' = failed \cup {<<p, f>>}
  /\ Goto(p, "next")
  /\ UNCHANGED <<status, todo, item, overlap, part, whole, spoiled, deleteVars, scanVars, useVars>>

BatchEnds(p) ==
  /\ at[p] = "next" /\ todo[p] = {}
  /\ status' = IF \E f \in Files : <<p, f>> \in failed THEN "error" ELSE "done"
  /\ Goto(p, "scan")
  /\ UNCHANGED <<fileVars, todo, item, failed, overlap, deleteVars, scanVars, useVars>>

-----------------------------------------------------------------------------
(* Deletion: delete_installed_model and model_storage.delete               *)

InUse == wanted \cup resident

\* Mutant: only what is on the GPU is refused.
ReadNothing(d) ==
  /\ at[d] = "new" /\ status # "running"
  /\ spared' = [spared EXCEPT ![d] = InUse]
  /\ Goto(d, "read")
  /\ UNCHANGED <<jobPaths, fileVars, batchVars, reserved, staged, scanVars, useVars>>

\* 409 while a download runs; the rows of the jobs are read here.
ReadJobs(d) ==
  /\ at[d] = "new" /\ status # "running"
  /\ jobPaths' = [jobPaths EXCEPT ![d] = wanted]
  /\ spared' = [spared EXCEPT ![d] = InUse]
  /\ Goto(d, "read")
  /\ UNCHANGED <<fileVars, batchVars, reserved, staged, scanVars, useVars>>

DeleteRefused(d) ==
  /\ at[d] = "new" /\ status = "running"
  /\ Goto(d, "over")
  /\ UNCHANGED <<fileVars, batchVars, deleteVars, scanVars, useVars>>

\* Under _DELETE_LOCK the arbiter is asked again.
Reserve(d) ==
  /\ at[d] = "read"
  /\ \E f \in Files :
       IF Present(f) /\ f \notin reserved \cup resident \cup jobPaths[d]
       THEN /\ reserved' = reserved \cup {f} /\ item' = [item EXCEPT ![d] = f]
            /\ Goto(d, "reserved")
       ELSE Goto(d, "over") /\ UNCHANGED <<reserved, item>>
  /\ UNCHANGED <<fileVars, status, todo, failed, overlap, staged, spared, jobPaths, scanVars, useVars>>

Unreserve(d) == reserved' = reserved \ {item[d]}

\* The rename; a file that is locked or gone is an error.
Stage(d) ==
  /\ at[d] = "reserved"
  /\ \/ /\ Present(item[d])
        /\ staged' = [staged EXCEPT ![d] = disk[item[d]]] /\ Set(item[d], None)
        /\ Goto(d, "staged") /\ UNCHANGED reserved
     \/ Unreserve(d) /\ Goto(d, "over") /\ UNCHANGED <<staged, disk>>
  /\ UNCHANGED <<part, whole, spoiled, batchVars, spared, jobPaths, scanVars, useVars>>

\* Mutant: the endpoint leaves the scan to the next rescan.
RemovedUnscanned(d) ==
  /\ at[d] = "staged"
  /\ staged' = [staged EXCEPT ![d] = None]
  /\ Unreserve(d) /\ Goto(d, "over")
  /\ UNCHANGED <<fileVars, batchVars, spared, jobPaths, scanVars, useVars>>

Removed(d) ==
  /\ at[d] = "staged"
  /\ staged' = [staged EXCEPT ![d] = None]
  /\ Unreserve(d) /\ Goto(d, "scan")
  /\ UNCHANGED <<fileVars, batchVars, spared, jobPaths, scanVars, useVars>>

\* What is left of the staged path is renamed back, over a newer file too, and
\* counts as old; the endpoint answers 409 and does not scan.
RolledBack(d) ==
  /\ at[d] = "staged"
  /\ \E rest \in {"old", "torn"} : Set(item[d], rest)
  /\ staged' = [staged EXCEPT ![d] = None]
  /\ Unreserve(d) /\ Goto(d, "over") /\ rescanDue' = TRUE
  /\ UNCHANGED <<part, whole, spoiled, batchVars, spared, jobPaths, listed, scanner, seen, left, useVars>>

-----------------------------------------------------------------------------
(* Scans: one at a time, off the loop; the snapshot is published whole     *)

ScanBegins(r) ==
  /\ at[r] = "scan" \/ (r \in Rescans /\ at[r] = "new")
  /\ scanner = None
  /\ scanner' = r /\ seen' = {} /\ left' = Files /\ rescanDue' = FALSE
  /\ Goto(r, "walk")
  /\ UNCHANGED <<fileVars, batchVars, deleteVars, listed, useVars>>

ScanReads ==
  /\ scanner # None
  /\ \E f \in left :
       /\ left' = left \ {f}
       /\ seen' = IF Present(f) THEN seen \cup {f} ELSE seen
  /\ UNCHANGED <<at, fileVars, batchVars, deleteVars, listed, scanner, rescanDue, useVars>>

ScanEnds ==
  /\ scanner # None /\ left = {}
  /\ listed' = seen /\ seen' = {} /\ scanner' = None /\ Goto(scanner, "over")
  /\ UNCHANGED <<fileVars, batchVars, deleteVars, left, rescanDue, useVars>>

ScanFails ==
  /\ scanner # None
  /\ scanner' = None /\ seen' = {} /\ left' = {} /\ rescanDue' = TRUE /\ Goto(scanner, "over")
  /\ UNCHANGED <<fileVars, batchVars, deleteVars, listed, useVars>>

-----------------------------------------------------------------------------
(* Jobs and the arbiter, seen from here                                    *)

Uses(w, n) ==
  /\ wanted' = w /\ resident' = n
  /\ spared' = [d \in Deletes |-> spared[d] \cap (n \cup (w \ resident))]
  /\ UNCHANGED <<at, fileVars, batchVars, reserved, staged, jobPaths, scanVars>>

QueueJob(f) == f \in listed \ wanted /\ Uses(wanted \cup {f}, resident)
Load(f) == f \in wanted \ resident /\ Present(f) /\ Uses(wanted, resident \cup {f})
JobEnds(f) == f \in wanted /\ Uses(wanted \ {f}, resident)
Free(f) == f \in resident /\ Uses(wanted, resident \ {f})

Download(p) ==
  \/ Post(p) \/ Look(p) \/ Refuse(p) \/ Start(p) \/ Launch(p)
  \/ NextItem(p) \/ HubFile(p) \/ RepoShows(p) \/ RepoFilled(p) \/ OpenPart(p)
  \/ LastChunk(p) \/ Publish(p) \/ ItemFails(p) \/ Verify(p) \/ BatchEnds(p)

Delete(d) ==
  \/ ReadJobs(d) \/ DeleteRefused(d) \/ Reserve(d) \/ Stage(d)
  \/ Removed(d) \/ RolledBack(d)

Next ==
  \/ \E p \in Posts : Download(p)
  \/ \E d \in Deletes : Delete(d)
  \/ \E r \in Requests : ScanBegins(r)
  \/ ScanReads \/ ScanEnds \/ ScanFails
  \/ \E f \in Files : QueueJob(f) \/ Load(f) \/ JobEnds(f) \/ Free(f)

Spec == Init /\ [][Next]_vars

-----------------------------------------------------------------------------
(* Properties                                                              *)

Steps ==
  Batching \cup {"new", "posted", "looked", "started", "read", "reserved", "staged",
                 "scan", "walk", "over"}
Holding(d) == at[d] \in {"reserved", "staged"}

RequestsTyped ==
  /\ status \in {"idle", "running", "done", "error"} /\ overlap \in BOOLEAN
  /\ at \in [Requests -> Steps]
  /\ \A p \in Posts : at[p] \notin {"read", "reserved", "staged"}
  /\ \A p \in Curated : at[p] \notin {"request", "stream", "publish", "verify"}
  /\ \A d \in Deletes : at[d] \in {"new", "read", "reserved", "staged", "scan", "walk", "over"}
  /\ \A r \in Rescans : at[r] \in {"new", "walk", "over"}
FilesTyped ==
  /\ disk \in [Files -> Posts \cup {"old", "torn", None}] /\ part \in [Files -> Custom \cup {None}]
  /\ whole \subseteq Posts \X Files /\ failed \subseteq Posts \X Files /\ spoiled \subseteq Custom \X Files
  /\ todo \in [Posts -> SUBSET Files] /\ item \in [Requests -> Files \cup {None}]
  /\ \A p \in Running : at[p] # "next" => item[p] \in Files
  /\ \A p \in Running : at[p] = "fill" => item[p] \in Repos
DeletionsTyped ==
  /\ staged \in [Deletes -> Posts \cup {"old", "torn", None}]
  /\ reserved \subseteq Files /\ spared \in [Deletes -> SUBSET Files] /\ jobPaths \in [Deletes -> SUBSET Files]
  /\ wanted \subseteq Files /\ resident \subseteq Files
ReservedByDeletions ==
  /\ \A d \in Deletes : Holding(d) => item[d] \in reserved
  /\ \A f \in reserved : \E d \in Deletes : Holding(d) /\ item[d] = f
  /\ \A d, e \in Deletes : Holding(d) /\ Holding(e) /\ item[d] = item[e] => d = e
ScansTyped ==
  /\ listed \subseteq Files /\ seen \subseteq Files /\ left \subseteq Files /\ seen \cap left = {}
  /\ scanner \in Requests \cup {None} /\ rescanDue \in BOOLEAN
  /\ \A r \in Requests : at[r] = "walk" <=> scanner = r

\* Requests come through the steps of their kind, a batch that works on an item
\* has one, the lock of the scans belongs to the request that walks, and what is
\* reserved is what the deletions under way have, each a file of its own.
TypeOK == RequestsTyped /\ FilesTyped /\ DeletionsTyped /\ ReservedByDeletions /\ ScansTyped

Filling(p, f) == at[p] = "fill" /\ item[p] = f

\* The .part file's promise: while batches do not overlap, no name shows a file
\* whose last chunk is still to come, and when none is being downloaded or
\* verified none shows one that failed its hash.  It is not the folders': a
\* repository that is being filled is shown, and stays, listed as a model and
\* taken for present, after its download has failed; but then its batch has
\* reported it.  What a deletion tore in the middle of the download is "torn".
WholeFilesOnly ==
  ~overlap =>
    \A f \in Files : disk[f] \in Posts =>
      /\ \/ <<disk[f], f>> \in whole
         \/ f \in Repos /\ (<<disk[f], f>> \in failed \/ Filling(disk[f], f))
      /\ <<disk[f], f>> \in spoiled => \E p \in Posts : at[p] = "verify" /\ item[p] = f

Settled == \A r \in Requests : at[r] \in {"new", "posted", "looked", "started", "over"}

\* Once every batch, deletion and scan is over the registry lists what is on
\* disk, however scans overlapped with the changes, unless a scan failed or a
\* deletion was rolled back after the last one.
InventoryCurrent ==
  Settled /\ ~rescanDue => listed = {f \in Files : Present(f)}

\* A deletion never takes a file that has waited for a job or stayed on the GPU
\* ever since it read the rows, also when the job has loaded it or has ended
\* meanwhile.
StagesNoSpared ==
  \A d \in Deletes : at'[d] = "staged" /\ at[d] # "staged" => item[d] \notin spared[d]

DeleteSpares == [][StagesNoSpared]_vars

=============================================================================
