-------------------------- MODULE ModelFilesProofs --------------------------
(***************************************************************************)
(* What ModelFiles guarantees for any files and any requests that download,*)
(* delete and scan them: single batches publish whole files, the registry  *)
(* comes to list what is on disk, and a deletion spares what is used.      *)
(***************************************************************************)
EXTENDS ModelFiles, TLAPS

\* Before its batch runs a request has written nothing.
Unbegun == {"new", "posted", "looked", "started"}

\* While batches do not overlap a .part file is that of the one under way, and
\* what a name shows is an item that its batch has come to, whole when it was
\* renamed or when the hub gave it; only its hash can be wrong, until it has been verified.
OneBatch ==
  ~overlap =>
    /\ \A p, q \in Running : p = q
    /\ \A f \in Files : part[f] # None => at[part[f]] \in {"stream", "publish"} /\ item[part[f]] = f
    /\ \A p \in Running : at[p] = "publish" => <<p, item[p]>> \in whole
    /\ \A p \in Running : at[p] # "next" => item[p] \notin todo[p]
    /\ \A p \in Posts, f \in Files : <<p, f>> \in spoiled =>
         /\ f \in Hashed /\ at[p] \notin Unbegun /\ f \notin todo[p]
         /\ at[p] \in {"hub", "request", "stream"} => item[p] # f
    /\ \A p \in Posts, f \in Files : disk[f] = p =>
         /\ at[p] \notin Unbegun /\ f \notin todo[p]
         /\ at[p] \in {"hub", "request", "stream", "publish"} => item[p] # f

\* What a deletion must spare is in the paths it read or still on the GPU, until
\* it has asked for both.
SparedKnown ==
  \A d \in Deletes :
    /\ at[d] = "read" => spared[d] \subseteq jobPaths[d] \cup resident
    /\ at[d] = "reserved" => item[d] \notin spared[d]

\* A change of the disk is followed by a scan, seen by the one under way, or in
\* the list, unless a request that owed the scan has failed.
Followed ==
  rescanDue \/ (\E r \in Requests : at[r] \in Batching \cup {"staged", "scan"})
    \/ IF scanner # None
       THEN \A f \in Files \ left : f \in seen <=> Present(f)
       ELSE listed = {f \in Files : Present(f)}

Sound == TypeOK /\ OneBatch /\ WholeFilesOnly /\ SparedKnown /\ Followed

-----------------------------------------------------------------------------
\* Every request goes from a step of its kind to another one.
LEMMA RequestsTypedKept ==
  ASSUME Sound, [Next]_vars
  PROVE  RequestsTyped'
<1> USE FilesAssumption DEF Sound, TypeOK, RequestsTyped, Steps, Batching, Running, Requests, Posts, Goto, fileVars, batchVars, deleteVars, scanVars, useVars
<1>1. ASSUME NEW p \in Posts, Post(p) PROVE RequestsTyped'
  BY <1>1 DEF Post
<1>2. ASSUME NEW p \in Posts, Look(p) PROVE RequestsTyped'
  BY <1>2 DEF Look
<1>3. ASSUME NEW p \in Posts, Refuse(p) PROVE RequestsTyped'
  BY <1>3 DEF Refuse
<1>4. ASSUME NEW p \in Posts, Start(p) PROVE RequestsTyped'
  BY <1>4 DEF Start
<1>5. ASSUME NEW p \in Posts, Launch(p) PROVE RequestsTyped'
  BY <1>5 DEF Launch
<1>6. ASSUME NEW p \in Posts, NextItem(p) PROVE RequestsTyped'
  BY <1>6 DEF NextItem
<1>7. ASSUME NEW p \in Posts, HubFile(p) PROVE RequestsTyped'
  BY <1>7 DEF HubFile
<1>8. ASSUME NEW p \in Posts, OpenPart(p) PROVE RequestsTyped'
  BY <1>8 DEF OpenPart
<1>9. ASSUME NEW p \in Posts, LastChunk(p) PROVE RequestsTyped'
  BY <1>9 DEF LastChunk
<1>10. ASSUME NEW p \in Posts, Publish(p) PROVE RequestsTyped'
  BY <1>10 DEF Publish
<1>11. ASSUME NEW p \in Posts, ItemFails(p) PROVE RequestsTyped'
  BY <1>11 DEF ItemFails
<1>12. ASSUME NEW p \in Posts, Verify(p) PROVE RequestsTyped'
  BY <1>12 DEF Verify
<1>13. ASSUME NEW p \in Posts, BatchEnds(p) PROVE RequestsTyped'
  BY <1>13 DEF BatchEnds
<1>14. ASSUME NEW d \in Deletes, ReadJobs(d) PROVE RequestsTyped'
  BY <1>14 DEF ReadJobs
<1>15. ASSUME NEW d \in Deletes, DeleteRefused(d) PROVE RequestsTyped'
  BY <1>15 DEF DeleteRefused
<1>16. ASSUME NEW d \in Deletes, Reserve(d) PROVE RequestsTyped'
  BY <1>16 DEF Reserve
<1>17. ASSUME NEW d \in Deletes, Stage(d) PROVE RequestsTyped'
  BY <1>17 DEF Stage
<1>18. ASSUME NEW d \in Deletes, Removed(d) PROVE RequestsTyped'
  BY <1>18 DEF Removed
<1>19. ASSUME NEW d \in Deletes, RolledBack(d) PROVE RequestsTyped'
  BY <1>19 DEF RolledBack
<1>20. ASSUME NEW r \in Requests, ScanBegins(r) PROVE RequestsTyped'
  BY <1>20 DEF ScanBegins
<1>21. CASE ScanReads
  BY <1>21 DEF ScanReads
<1>22. CASE ScanEnds
  BY <1>22 DEF ScanEnds
<1>23. CASE ScanFails
  BY <1>23 DEF ScanFails
<1>24. ASSUME NEW f \in Files, QueueJob(f) PROVE RequestsTyped'
  BY <1>24 DEF QueueJob, Uses
<1>25. ASSUME NEW f \in Files, Load(f) PROVE RequestsTyped'
  BY <1>25 DEF Load, Uses
<1>26. ASSUME NEW f \in Files, JobEnds(f) PROVE RequestsTyped'
  BY <1>26 DEF JobEnds, Uses
<1>27. ASSUME NEW f \in Files, Free(f) PROVE RequestsTyped'
  BY <1>27 DEF Free, Uses
<1>28. CASE UNCHANGED vars
  BY <1>28 DEF vars
<1>29. ASSUME NEW p \in Posts, RepoShows(p) PROVE RequestsTyped'
  BY <1>29 DEF RepoShows
<1>30. ASSUME NEW p \in Posts, RepoFilled(p) PROVE RequestsTyped'
  BY <1>30 DEF RepoFilled
<1> QED
  BY <1>1, <1>2, <1>3, <1>4, <1>5, <1>6, <1>7, <1>8, <1>9, <1>10, <1>11, <1>12, <1>13, <1>14, <1>15, <1>16, <1>17, <1>18, <1>19, <1>20, <1>21, <1>22, <1>23, <1>24, <1>25, <1>26, <1>27, <1>28, <1>29, <1>30 DEF Next, Download, Delete

\* Batches write only files, and an item is set before it is worked on.
LEMMA FilesTypedKept ==
  ASSUME Sound, [Next]_vars
  PROVE  FilesTyped'
<1> USE FilesAssumption DEF Sound, TypeOK, RequestsTyped, Steps, Batching, Running, Requests, Posts, Goto, FilesTyped, Set, fileVars, batchVars, deleteVars, scanVars, useVars
<1>1. ASSUME NEW p \in Posts, Post(p) PROVE FilesTyped'
  BY <1>1 DEF Post
<1>2. ASSUME NEW p \in Posts, Look(p) PROVE FilesTyped'
  BY <1>2 DEF Look
<1>3. ASSUME NEW p \in Posts, Refuse(p) PROVE FilesTyped'
  BY <1>3 DEF Refuse
<1>4. ASSUME NEW p \in Posts, Start(p) PROVE FilesTyped'
  BY <1>4 DEF Start
<1>5. ASSUME NEW p \in Posts, Launch(p) PROVE FilesTyped'
  BY <1>5 DEF Launch, Pending
<1>6. ASSUME NEW p \in Posts, NextItem(p) PROVE FilesTyped'
  BY <1>6 DEF NextItem
<1>7. ASSUME NEW p \in Posts, HubFile(p) PROVE FilesTyped'
  BY <1>7 DEF HubFile
<1>8. ASSUME NEW p \in Posts, OpenPart(p) PROVE FilesTyped'
  BY <1>8 DEF OpenPart
<1>9. ASSUME NEW p \in Posts, LastChunk(p) PROVE FilesTyped'
  BY <1>9 DEF LastChunk
<1>10. ASSUME NEW p \in Posts, Publish(p) PROVE FilesTyped'
  BY <1>10 DEF Publish
<1>11. ASSUME NEW p \in Posts, ItemFails(p) PROVE FilesTyped'
  BY <1>11 DEF ItemFails
<1>12. ASSUME NEW p \in Posts, Verify(p) PROVE FilesTyped'
  BY <1>12 DEF Verify
<1>13. ASSUME NEW p \in Posts, BatchEnds(p) PROVE FilesTyped'
  BY <1>13 DEF BatchEnds
<1>14. ASSUME NEW d \in Deletes, ReadJobs(d) PROVE FilesTyped'
  BY <1>14 DEF ReadJobs
<1>15. ASSUME NEW d \in Deletes, DeleteRefused(d) PROVE FilesTyped'
  BY <1>15 DEF DeleteRefused
<1>16. ASSUME NEW d \in Deletes, Reserve(d) PROVE FilesTyped'
  BY <1>16 DEF Reserve
<1>17. ASSUME NEW d \in Deletes, Stage(d) PROVE FilesTyped'
  BY <1>17 DEF Stage
<1>18. ASSUME NEW d \in Deletes, Removed(d) PROVE FilesTyped'
  BY <1>18 DEF Removed
<1>19. ASSUME NEW d \in Deletes, RolledBack(d) PROVE FilesTyped'
  <2>1. PICK rest \in {"old", "torn"} : disk' = [disk EXCEPT ![item[d]] = rest]
    BY <1>19 DEF RolledBack
  <2>2. disk' \in [Files -> Posts \cup {"old", "torn", None}]
    BY <2>1
  <2> QED
    BY <1>19, <2>2 DEF RolledBack
<1>20. ASSUME NEW r \in Requests, ScanBegins(r) PROVE FilesTyped'
  BY <1>20 DEF ScanBegins
<1>21. CASE ScanReads
  BY <1>21 DEF ScanReads
<1>22. CASE ScanEnds
  BY <1>22 DEF ScanEnds
<1>23. CASE ScanFails
  BY <1>23 DEF ScanFails
<1>24. ASSUME NEW f \in Files, QueueJob(f) PROVE FilesTyped'
  BY <1>24 DEF QueueJob, Uses
<1>25. ASSUME NEW f \in Files, Load(f) PROVE FilesTyped'
  BY <1>25 DEF Load, Uses
<1>26. ASSUME NEW f \in Files, JobEnds(f) PROVE FilesTyped'
  BY <1>26 DEF JobEnds, Uses
<1>27. ASSUME NEW f \in Files, Free(f) PROVE FilesTyped'
  BY <1>27 DEF Free, Uses
<1>28. CASE UNCHANGED vars
  BY <1>28 DEF vars
<1>29. ASSUME NEW p \in Posts, RepoShows(p) PROVE FilesTyped'
  BY <1>29 DEF RepoShows
<1>30. ASSUME NEW p \in Posts, RepoFilled(p) PROVE FilesTyped'
  BY <1>30 DEF RepoFilled
<1> QED
  BY <1>1, <1>2, <1>3, <1>4, <1>5, <1>6, <1>7, <1>8, <1>9, <1>10, <1>11, <1>12, <1>13, <1>14, <1>15, <1>16, <1>17, <1>18, <1>19, <1>20, <1>21, <1>22, <1>23, <1>24, <1>25, <1>26, <1>27, <1>28, <1>29, <1>30 DEF Next, Download, Delete

\* Deletions, and the jobs and the GPU that use the files.
LEMMA DeletionsTypedKept ==
  ASSUME Sound, [Next]_vars
  PROVE  DeletionsTyped'
<1> USE FilesAssumption DEF Sound, TypeOK, RequestsTyped, Steps, Batching, Running, Requests, Posts, Goto, FilesTyped, DeletionsTyped, ScansTyped, Set, Unreserve, fileVars, batchVars, deleteVars, scanVars, useVars
<1>1. ASSUME NEW p \in Posts, Post(p) PROVE DeletionsTyped'
  BY <1>1 DEF Post
<1>2. ASSUME NEW p \in Posts, Look(p) PROVE DeletionsTyped'
  BY <1>2 DEF Look
<1>3. ASSUME NEW p \in Posts, Refuse(p) PROVE DeletionsTyped'
  BY <1>3 DEF Refuse
<1>4. ASSUME NEW p \in Posts, Start(p) PROVE DeletionsTyped'
  BY <1>4 DEF Start
<1>5. ASSUME NEW p \in Posts, Launch(p) PROVE DeletionsTyped'
  BY <1>5 DEF Launch
<1>6. ASSUME NEW p \in Posts, NextItem(p) PROVE DeletionsTyped'
  BY <1>6 DEF NextItem
<1>7. ASSUME NEW p \in Posts, HubFile(p) PROVE DeletionsTyped'
  BY <1>7 DEF HubFile
<1>8. ASSUME NEW p \in Posts, OpenPart(p) PROVE DeletionsTyped'
  BY <1>8 DEF OpenPart
<1>9. ASSUME NEW p \in Posts, LastChunk(p) PROVE DeletionsTyped'
  BY <1>9 DEF LastChunk
<1>10. ASSUME NEW p \in Posts, Publish(p) PROVE DeletionsTyped'
  BY <1>10 DEF Publish
<1>11. ASSUME NEW p \in Posts, ItemFails(p) PROVE DeletionsTyped'
  BY <1>11 DEF ItemFails
<1>12. ASSUME NEW p \in Posts, Verify(p) PROVE DeletionsTyped'
  BY <1>12 DEF Verify
<1>13. ASSUME NEW p \in Posts, BatchEnds(p) PROVE DeletionsTyped'
  BY <1>13 DEF BatchEnds
<1>14. ASSUME NEW d \in Deletes, ReadJobs(d) PROVE DeletionsTyped'
  BY <1>14 DEF ReadJobs, InUse
<1>15. ASSUME NEW d \in Deletes, DeleteRefused(d) PROVE DeletionsTyped'
  BY <1>15 DEF DeleteRefused
<1>16. ASSUME NEW d \in Deletes, Reserve(d) PROVE DeletionsTyped'
  BY <1>16 DEF Reserve, Present
<1>17. ASSUME NEW d \in Deletes, Stage(d) PROVE DeletionsTyped'
  BY <1>17 DEF Stage, Present, Holding, ReservedByDeletions
<1>18. ASSUME NEW d \in Deletes, Removed(d) PROVE DeletionsTyped'
  BY <1>18 DEF Removed
<1>19. ASSUME NEW d \in Deletes, RolledBack(d) PROVE DeletionsTyped'
  BY <1>19 DEF RolledBack
<1>20. ASSUME NEW r \in Requests, ScanBegins(r) PROVE DeletionsTyped'
  BY <1>20 DEF ScanBegins
<1>21. CASE ScanReads
  BY <1>21 DEF ScanReads
<1>22. CASE ScanEnds
  BY <1>22 DEF ScanEnds
<1>23. CASE ScanFails
  BY <1>23 DEF ScanFails
<1>24. ASSUME NEW f \in Files, QueueJob(f) PROVE DeletionsTyped'
  BY <1>24 DEF QueueJob, Uses
<1>25. ASSUME NEW f \in Files, Load(f) PROVE DeletionsTyped'
  BY <1>25 DEF Load, Uses
<1>26. ASSUME NEW f \in Files, JobEnds(f) PROVE DeletionsTyped'
  BY <1>26 DEF JobEnds, Uses
<1>27. ASSUME NEW f \in Files, Free(f) PROVE DeletionsTyped'
  BY <1>27 DEF Free, Uses
<1>28. CASE UNCHANGED vars
  BY <1>28 DEF vars
<1>29. ASSUME NEW p \in Posts, RepoShows(p) PROVE DeletionsTyped'
  BY <1>29 DEF RepoShows
<1>30. ASSUME NEW p \in Posts, RepoFilled(p) PROVE DeletionsTyped'
  BY <1>30 DEF RepoFilled
<1> QED
  BY <1>1, <1>2, <1>3, <1>4, <1>5, <1>6, <1>7, <1>8, <1>9, <1>10, <1>11, <1>12, <1>13, <1>14, <1>15, <1>16, <1>17, <1>18, <1>19, <1>20, <1>21, <1>22, <1>23, <1>24, <1>25, <1>26, <1>27, <1>28, <1>29, <1>30 DEF Next, Download, Delete

\* A deletion gives back its own reservation, on every way.
LEMMA ReservedByDeletionsKept ==
  ASSUME Sound, [Next]_vars
  PROVE  ReservedByDeletions'
<1> USE FilesAssumption DEF Sound, TypeOK, RequestsTyped, Steps, Batching, Running, Requests, Posts, Goto, FilesTyped, ReservedByDeletions, Holding, Unreserve, fileVars, batchVars, deleteVars, scanVars, useVars
<1>1. ASSUME NEW p \in Posts, Post(p) PROVE ReservedByDeletions'
  BY <1>1 DEF Post
<1>2. ASSUME NEW p \in Posts, Look(p) PROVE ReservedByDeletions'
  BY <1>2 DEF Look
<1>3. ASSUME NEW p \in Posts, Refuse(p) PROVE ReservedByDeletions'
  BY <1>3 DEF Refuse
<1>4. ASSUME NEW p \in Posts, Start(p) PROVE ReservedByDeletions'
  BY <1>4 DEF Start
<1>5. ASSUME NEW p \in Posts, Launch(p) PROVE ReservedByDeletions'
  BY <1>5 DEF Launch
<1>6. ASSUME NEW p \in Posts, NextItem(p) PROVE ReservedByDeletions'
  BY <1>6 DEF NextItem
<1>7. ASSUME NEW p \in Posts, HubFile(p) PROVE ReservedByDeletions'
  BY <1>7 DEF HubFile
<1>8. ASSUME NEW p \in Posts, OpenPart(p) PROVE ReservedByDeletions'
  BY <1>8 DEF OpenPart
<1>9. ASSUME NEW p \in Posts, LastChunk(p) PROVE ReservedByDeletions'
  BY <1>9 DEF LastChunk
<1>10. ASSUME NEW p \in Posts, Publish(p) PROVE ReservedByDeletions'
  BY <1>10 DEF Publish
<1>11. ASSUME NEW p \in Posts, ItemFails(p) PROVE ReservedByDeletions'
  BY <1>11 DEF ItemFails
<1>12. ASSUME NEW p \in Posts, Verify(p) PROVE ReservedByDeletions'
  BY <1>12 DEF Verify
<1>13. ASSUME NEW p \in Posts, BatchEnds(p) PROVE ReservedByDeletions'
  BY <1>13 DEF BatchEnds
<1>14. ASSUME NEW d \in Deletes, ReadJobs(d) PROVE ReservedByDeletions'
  BY <1>14 DEF ReadJobs
<1>15. ASSUME NEW d \in Deletes, DeleteRefused(d) PROVE ReservedByDeletions'
  BY <1>15 DEF DeleteRefused
<1>16. ASSUME NEW d \in Deletes, Reserve(d) PROVE ReservedByDeletions'
  BY <1>16 DEF Reserve
<1>17. ASSUME NEW d \in Deletes, Stage(d) PROVE ReservedByDeletions'
  BY <1>17 DEF Stage
<1>18. ASSUME NEW d \in Deletes, Removed(d) PROVE ReservedByDeletions'
  BY <1>18 DEF Removed
<1>19. ASSUME NEW d \in Deletes, RolledBack(d) PROVE ReservedByDeletions'
  BY <1>19 DEF RolledBack
<1>20. ASSUME NEW r \in Requests, ScanBegins(r) PROVE ReservedByDeletions'
  BY <1>20 DEF ScanBegins
<1>21. CASE ScanReads
  BY <1>21 DEF ScanReads
<1>22. CASE ScanEnds
  BY <1>22 DEF ScanEnds, ScansTyped
<1>23. CASE ScanFails
  BY <1>23 DEF ScanFails, ScansTyped
<1>24. ASSUME NEW f \in Files, QueueJob(f) PROVE ReservedByDeletions'
  BY <1>24 DEF QueueJob, Uses
<1>25. ASSUME NEW f \in Files, Load(f) PROVE ReservedByDeletions'
  BY <1>25 DEF Load, Uses
<1>26. ASSUME NEW f \in Files, JobEnds(f) PROVE ReservedByDeletions'
  BY <1>26 DEF JobEnds, Uses
<1>27. ASSUME NEW f \in Files, Free(f) PROVE ReservedByDeletions'
  BY <1>27 DEF Free, Uses
<1>28. CASE UNCHANGED vars
  BY <1>28 DEF vars
<1>29. ASSUME NEW p \in Posts, RepoShows(p) PROVE ReservedByDeletions'
  BY <1>29 DEF RepoShows
<1>30. ASSUME NEW p \in Posts, RepoFilled(p) PROVE ReservedByDeletions'
  BY <1>30 DEF RepoFilled
<1> QED
  BY <1>1, <1>2, <1>3, <1>4, <1>5, <1>6, <1>7, <1>8, <1>9, <1>10, <1>11, <1>12, <1>13, <1>14, <1>15, <1>16, <1>17, <1>18, <1>19, <1>20, <1>21, <1>22, <1>23, <1>24, <1>25, <1>26, <1>27, <1>28, <1>29, <1>30 DEF Next, Download, Delete

\* The request that walks has the lock, and finds only what it has reached.
LEMMA ScansTypedKept ==
  ASSUME Sound, [Next]_vars
  PROVE  ScansTyped'
<1> USE FilesAssumption DEF Sound, TypeOK, RequestsTyped, Steps, Batching, Running, Requests, Posts, Goto, DeletionsTyped, ScansTyped, fileVars, batchVars, deleteVars, scanVars, useVars
<1>1. ASSUME NEW p \in Posts, Post(p) PROVE ScansTyped'
  BY <1>1 DEF Post
<1>2. ASSUME NEW p \in Posts, Look(p) PROVE ScansTyped'
  BY <1>2 DEF Look
<1>3. ASSUME NEW p \in Posts, Refuse(p) PROVE ScansTyped'
  BY <1>3 DEF Refuse
<1>4. ASSUME NEW p \in Posts, Start(p) PROVE ScansTyped'
  BY <1>4 DEF Start
<1>5. ASSUME NEW p \in Posts, Launch(p) PROVE ScansTyped'
  BY <1>5 DEF Launch
<1>6. ASSUME NEW p \in Posts, NextItem(p) PROVE ScansTyped'
  BY <1>6 DEF NextItem
<1>7. ASSUME NEW p \in Posts, HubFile(p) PROVE ScansTyped'
  BY <1>7 DEF HubFile
<1>8. ASSUME NEW p \in Posts, OpenPart(p) PROVE ScansTyped'
  BY <1>8 DEF OpenPart
<1>9. ASSUME NEW p \in Posts, LastChunk(p) PROVE ScansTyped'
  BY <1>9 DEF LastChunk
<1>10. ASSUME NEW p \in Posts, Publish(p) PROVE ScansTyped'
  BY <1>10 DEF Publish
<1>11. ASSUME NEW p \in Posts, ItemFails(p) PROVE ScansTyped'
  BY <1>11 DEF ItemFails
<1>12. ASSUME NEW p \in Posts, Verify(p) PROVE ScansTyped'
  BY <1>12 DEF Verify
<1>13. ASSUME NEW p \in Posts, BatchEnds(p) PROVE ScansTyped'
  BY <1>13 DEF BatchEnds
<1>14. ASSUME NEW d \in Deletes, ReadJobs(d) PROVE ScansTyped'
  BY <1>14 DEF ReadJobs
<1>15. ASSUME NEW d \in Deletes, DeleteRefused(d) PROVE ScansTyped'
  BY <1>15 DEF DeleteRefused
<1>16. ASSUME NEW d \in Deletes, Reserve(d) PROVE ScansTyped'
  BY <1>16 DEF Reserve
<1>17. ASSUME NEW d \in Deletes, Stage(d) PROVE ScansTyped'
  BY <1>17 DEF Stage
<1>18. ASSUME NEW d \in Deletes, Removed(d) PROVE ScansTyped'
  BY <1>18 DEF Removed
<1>19. ASSUME NEW d \in Deletes, RolledBack(d) PROVE ScansTyped'
  BY <1>19 DEF RolledBack
<1>20. ASSUME NEW r \in Requests, ScanBegins(r) PROVE ScansTyped'
  BY <1>20 DEF ScanBegins
<1>21. CASE ScanReads
  BY <1>21 DEF ScanReads
<1>22. CASE ScanEnds
  BY <1>22 DEF ScanEnds
<1>23. CASE ScanFails
  BY <1>23 DEF ScanFails
<1>24. ASSUME NEW f \in Files, QueueJob(f) PROVE ScansTyped'
  BY <1>24 DEF QueueJob, Uses
<1>25. ASSUME NEW f \in Files, Load(f) PROVE ScansTyped'
  BY <1>25 DEF Load, Uses
<1>26. ASSUME NEW f \in Files, JobEnds(f) PROVE ScansTyped'
  BY <1>26 DEF JobEnds, Uses
<1>27. ASSUME NEW f \in Files, Free(f) PROVE ScansTyped'
  BY <1>27 DEF Free, Uses
<1>28. CASE UNCHANGED vars
  BY <1>28 DEF vars
<1>29. ASSUME NEW p \in Posts, RepoShows(p) PROVE ScansTyped'
  BY <1>29 DEF RepoShows
<1>30. ASSUME NEW p \in Posts, RepoFilled(p) PROVE ScansTyped'
  BY <1>30 DEF RepoFilled
<1> QED
  BY <1>1, <1>2, <1>3, <1>4, <1>5, <1>6, <1>7, <1>8, <1>9, <1>10, <1>11, <1>12, <1>13, <1>14, <1>15, <1>16, <1>17, <1>18, <1>19, <1>20, <1>21, <1>22, <1>23, <1>24, <1>25, <1>26, <1>27, <1>28, <1>29, <1>30 DEF Next, Download, Delete

\* A second batch is the end of the claim; a single one finds only .part files
\* that it has opened itself, and comes to each item once.
LEMMA OneBatchKept ==
  ASSUME Sound, [Next]_vars
  PROVE  OneBatch'
<1> USE FilesAssumption DEF Sound, TypeOK, RequestsTyped, Steps, Batching, Running, Requests, Posts, Goto, FilesTyped, OneBatch, Unbegun, Set, fileVars, batchVars, deleteVars, scanVars, useVars
<1>1. ASSUME NEW p \in Posts, Post(p) PROVE OneBatch'
  BY <1>1 DEF Post
<1>2. ASSUME NEW p \in Posts, Look(p) PROVE OneBatch'
  BY <1>2 DEF Look
<1>3. ASSUME NEW p \in Posts, Refuse(p) PROVE OneBatch'
  BY <1>3 DEF Refuse
<1>4. ASSUME NEW p \in Posts, Start(p) PROVE OneBatch'
  BY <1>4 DEF Start
<1>5. ASSUME NEW p \in Posts, Launch(p) PROVE OneBatch'
  <2>1. CASE status # "running"
    BY <1>5, <2>1 DEF Launch
  <2>2. CASE status = "running"
    <3> SUFFICES ASSUME ~overlap' PROVE OneBatch'
      BY DEF OneBatch
    <3>1. ~overlap /\ Running = {}
      BY <1>5, <2>2 DEF Launch
    <3>2. at' = [at EXCEPT ![p] = "next"] /\ todo' = [todo EXCEPT ![p] = Pending(p)]
      BY <1>5, <2>2 DEF Launch
    <3>3. UNCHANGED <<item, part, whole, spoiled, disk>>
      BY <1>5 DEF Launch
    <3>4. at[p] = "started" /\ Pending(p) \subseteq todo[p]
      BY <1>5 DEF Launch, Pending
    <3>5. \A f \in Files : part[f] = None /\ disk[f] # p
      BY <3>1, <3>4
    <3> QED
      BY <3>1, <3>2, <3>3, <3>4, <3>5
  <2> QED
    BY <2>1, <2>2
<1>6. ASSUME NEW p \in Posts, NextItem(p) PROVE OneBatch'
  BY <1>6 DEF NextItem
<1>7. ASSUME NEW p \in Posts, HubFile(p) PROVE OneBatch'
  BY <1>7 DEF HubFile
<1>8. ASSUME NEW p \in Posts, OpenPart(p) PROVE OneBatch'
  BY <1>8 DEF OpenPart
<1>9. ASSUME NEW p \in Posts, LastChunk(p) PROVE OneBatch'
  BY <1>9 DEF LastChunk
<1>10. ASSUME NEW p \in Posts, Publish(p) PROVE OneBatch'
  BY <1>10 DEF Publish
<1>11. ASSUME NEW p \in Posts, ItemFails(p) PROVE OneBatch'
  BY <1>11 DEF ItemFails
<1>12. ASSUME NEW p \in Posts, Verify(p) PROVE OneBatch'
  BY <1>12 DEF Verify
<1>13. ASSUME NEW p \in Posts, BatchEnds(p) PROVE OneBatch'
  BY <1>13 DEF BatchEnds
<1>14. ASSUME NEW d \in Deletes, ReadJobs(d) PROVE OneBatch'
  BY <1>14 DEF ReadJobs
<1>15. ASSUME NEW d \in Deletes, DeleteRefused(d) PROVE OneBatch'
  BY <1>15 DEF DeleteRefused
<1>16. ASSUME NEW d \in Deletes, Reserve(d) PROVE OneBatch'
  BY <1>16 DEF Reserve
<1>17. ASSUME NEW d \in Deletes, Stage(d) PROVE OneBatch'
  BY <1>17 DEF Stage
<1>18. ASSUME NEW d \in Deletes, Removed(d) PROVE OneBatch'
  BY <1>18 DEF Removed
<1>19. ASSUME NEW d \in Deletes, RolledBack(d) PROVE OneBatch'
  BY <1>19 DEF RolledBack
<1>20. ASSUME NEW r \in Requests, ScanBegins(r) PROVE OneBatch'
  BY <1>20 DEF ScanBegins
<1>21. CASE ScanReads
  BY <1>21 DEF ScanReads
<1>22. CASE ScanEnds
  BY <1>22 DEF ScanEnds, ScansTyped
<1>23. CASE ScanFails
  BY <1>23 DEF ScanFails, ScansTyped
<1>24. ASSUME NEW f \in Files, QueueJob(f) PROVE OneBatch'
  BY <1>24 DEF QueueJob, Uses
<1>25. ASSUME NEW f \in Files, Load(f) PROVE OneBatch'
  BY <1>25 DEF Load, Uses
<1>26. ASSUME NEW f \in Files, JobEnds(f) PROVE OneBatch'
  BY <1>26 DEF JobEnds, Uses
<1>27. ASSUME NEW f \in Files, Free(f) PROVE OneBatch'
  BY <1>27 DEF Free, Uses
<1>28. CASE UNCHANGED vars
  BY <1>28 DEF vars
<1>29. ASSUME NEW p \in Posts, RepoShows(p) PROVE OneBatch'
  BY <1>29 DEF RepoShows
<1>30. ASSUME NEW p \in Posts, RepoFilled(p) PROVE OneBatch'
  BY <1>30 DEF RepoFilled
<1> QED
  BY <1>1, <1>2, <1>3, <1>4, <1>5, <1>6, <1>7, <1>8, <1>9, <1>10, <1>11, <1>12, <1>13, <1>14, <1>15, <1>16, <1>17, <1>18, <1>19, <1>20, <1>21, <1>22, <1>23, <1>24, <1>25, <1>26, <1>27, <1>28, <1>29, <1>30 DEF Next, Download, Delete

\* So what it renames is whole, and what fails its hash goes before the next item.
LEMMA WholeFilesKept ==
  ASSUME Sound, [Next]_vars
  PROVE  WholeFilesOnly'
<1> USE FilesAssumption DEF Sound, TypeOK, RequestsTyped, Steps, Batching, Running, Requests, Posts, Goto, FilesTyped, OneBatch, WholeFilesOnly, Filling, Set, fileVars, batchVars, deleteVars, scanVars, useVars
<1>1. ASSUME NEW p \in Posts, Post(p) PROVE WholeFilesOnly'
  BY <1>1 DEF Post
<1>2. ASSUME NEW p \in Posts, Look(p) PROVE WholeFilesOnly'
  BY <1>2 DEF Look
<1>3. ASSUME NEW p \in Posts, Refuse(p) PROVE WholeFilesOnly'
  BY <1>3 DEF Refuse
<1>4. ASSUME NEW p \in Posts, Start(p) PROVE WholeFilesOnly'
  BY <1>4 DEF Start
<1>5. ASSUME NEW p \in Posts, Launch(p) PROVE WholeFilesOnly'
  BY <1>5 DEF Launch
<1>6. ASSUME NEW p \in Posts, NextItem(p) PROVE WholeFilesOnly'
  BY <1>6 DEF NextItem
<1>7. ASSUME NEW p \in Posts, HubFile(p) PROVE WholeFilesOnly'
  BY <1>7 DEF HubFile
<1>8. ASSUME NEW p \in Posts, OpenPart(p) PROVE WholeFilesOnly'
  BY <1>8 DEF OpenPart
<1>9. ASSUME NEW p \in Posts, LastChunk(p) PROVE WholeFilesOnly'
  BY <1>9 DEF LastChunk
<1>10. ASSUME NEW p \in Posts, Publish(p) PROVE WholeFilesOnly'
  BY <1>10 DEF Publish
<1>11. ASSUME NEW p \in Posts, ItemFails(p) PROVE WholeFilesOnly'
  BY <1>11 DEF ItemFails
<1>12. ASSUME NEW p \in Posts, Verify(p) PROVE WholeFilesOnly'
  BY <1>12 DEF Verify, Present, Intact
<1>13. ASSUME NEW p \in Posts, BatchEnds(p) PROVE WholeFilesOnly'
  BY <1>13 DEF BatchEnds
<1>14. ASSUME NEW d \in Deletes, ReadJobs(d) PROVE WholeFilesOnly'
  BY <1>14 DEF ReadJobs
<1>15. ASSUME NEW d \in Deletes, DeleteRefused(d) PROVE WholeFilesOnly'
  BY <1>15 DEF DeleteRefused
<1>16. ASSUME NEW d \in Deletes, Reserve(d) PROVE WholeFilesOnly'
  BY <1>16 DEF Reserve
<1>17. ASSUME NEW d \in Deletes, Stage(d) PROVE WholeFilesOnly'
  BY <1>17 DEF Stage
<1>18. ASSUME NEW d \in Deletes, Removed(d) PROVE WholeFilesOnly'
  BY <1>18 DEF Removed
<1>19. ASSUME NEW d \in Deletes, RolledBack(d) PROVE WholeFilesOnly'
  BY <1>19 DEF RolledBack
<1>20. ASSUME NEW r \in Requests, ScanBegins(r) PROVE WholeFilesOnly'
  BY <1>20 DEF ScanBegins
<1>21. CASE ScanReads
  BY <1>21 DEF ScanReads
<1>22. CASE ScanEnds
  BY <1>22 DEF ScanEnds, ScansTyped
<1>23. CASE ScanFails
  BY <1>23 DEF ScanFails, ScansTyped
<1>24. ASSUME NEW f \in Files, QueueJob(f) PROVE WholeFilesOnly'
  BY <1>24 DEF QueueJob, Uses
<1>25. ASSUME NEW f \in Files, Load(f) PROVE WholeFilesOnly'
  BY <1>25 DEF Load, Uses
<1>26. ASSUME NEW f \in Files, JobEnds(f) PROVE WholeFilesOnly'
  BY <1>26 DEF JobEnds, Uses
<1>27. ASSUME NEW f \in Files, Free(f) PROVE WholeFilesOnly'
  BY <1>27 DEF Free, Uses
<1>28. CASE UNCHANGED vars
  BY <1>28 DEF vars
<1>29. ASSUME NEW p \in Posts, RepoShows(p) PROVE WholeFilesOnly'
  BY <1>29 DEF RepoShows
<1>30. ASSUME NEW p \in Posts, RepoFilled(p) PROVE WholeFilesOnly'
  BY <1>30 DEF RepoFilled
<1> QED
  BY <1>1, <1>2, <1>3, <1>4, <1>5, <1>6, <1>7, <1>8, <1>9, <1>10, <1>11, <1>12, <1>13, <1>14, <1>15, <1>16, <1>17, <1>18, <1>19, <1>20, <1>21, <1>22, <1>23, <1>24, <1>25, <1>26, <1>27, <1>28, <1>29, <1>30 DEF Next, Download, Delete

\* A use that ends is not spared any more, and one that begins is not yet.
LEMMA SparedKnownKept ==
  ASSUME Sound, [Next]_vars
  PROVE  SparedKnown'
<1> USE FilesAssumption DEF Sound, TypeOK, RequestsTyped, Steps, Batching, Running, Requests, Posts, Goto, FilesTyped, DeletionsTyped, SparedKnown, fileVars, batchVars, deleteVars, scanVars, useVars
<1>1. ASSUME NEW p \in Posts, Post(p) PROVE SparedKnown'
  BY <1>1 DEF Post
<1>2. ASSUME NEW p \in Posts, Look(p) PROVE SparedKnown'
  BY <1>2 DEF Look
<1>3. ASSUME NEW p \in Posts, Refuse(p) PROVE SparedKnown'
  BY <1>3 DEF Refuse
<1>4. ASSUME NEW p \in Posts, Start(p) PROVE SparedKnown'
  BY <1>4 DEF Start
<1>5. ASSUME NEW p \in Posts, Launch(p) PROVE SparedKnown'
  BY <1>5 DEF Launch
<1>6. ASSUME NEW p \in Posts, NextItem(p) PROVE SparedKnown'
  BY <1>6 DEF NextItem
<1>7. ASSUME NEW p \in Posts, HubFile(p) PROVE SparedKnown'
  BY <1>7 DEF HubFile
<1>8. ASSUME NEW p \in Posts, OpenPart(p) PROVE SparedKnown'
  BY <1>8 DEF OpenPart
<1>9. ASSUME NEW p \in Posts, LastChunk(p) PROVE SparedKnown'
  BY <1>9 DEF LastChunk
<1>10. ASSUME NEW p \in Posts, Publish(p) PROVE SparedKnown'
  BY <1>10 DEF Publish
<1>11. ASSUME NEW p \in Posts, ItemFails(p) PROVE SparedKnown'
  BY <1>11 DEF ItemFails
<1>12. ASSUME NEW p \in Posts, Verify(p) PROVE SparedKnown'
  BY <1>12 DEF Verify
<1>13. ASSUME NEW p \in Posts, BatchEnds(p) PROVE SparedKnown'
  BY <1>13 DEF BatchEnds
<1>14. ASSUME NEW d \in Deletes, ReadJobs(d) PROVE SparedKnown'
  BY <1>14 DEF ReadJobs, InUse
<1>15. ASSUME NEW d \in Deletes, DeleteRefused(d) PROVE SparedKnown'
  BY <1>15 DEF DeleteRefused
<1>16. ASSUME NEW d \in Deletes, Reserve(d) PROVE SparedKnown'
  BY <1>16 DEF Reserve
<1>17. ASSUME NEW d \in Deletes, Stage(d) PROVE SparedKnown'
  BY <1>17 DEF Stage
<1>18. ASSUME NEW d \in Deletes, Removed(d) PROVE SparedKnown'
  BY <1>18 DEF Removed
<1>19. ASSUME NEW d \in Deletes, RolledBack(d) PROVE SparedKnown'
  BY <1>19 DEF RolledBack
<1>20. ASSUME NEW r \in Requests, ScanBegins(r) PROVE SparedKnown'
  BY <1>20 DEF ScanBegins
<1>21. CASE ScanReads
  BY <1>21 DEF ScanReads
<1>22. CASE ScanEnds
  BY <1>22 DEF ScanEnds, ScansTyped
<1>23. CASE ScanFails
  BY <1>23 DEF ScanFails, ScansTyped
<1>24. ASSUME NEW f \in Files, QueueJob(f) PROVE SparedKnown'
  BY <1>24 DEF QueueJob, Uses
<1>25. ASSUME NEW f \in Files, Load(f) PROVE SparedKnown'
  BY <1>25 DEF Load, Uses
<1>26. ASSUME NEW f \in Files, JobEnds(f) PROVE SparedKnown'
  BY <1>26 DEF JobEnds, Uses
<1>27. ASSUME NEW f \in Files, Free(f) PROVE SparedKnown'
  BY <1>27 DEF Free, Uses
<1>28. CASE UNCHANGED vars
  BY <1>28 DEF vars
<1>29. ASSUME NEW p \in Posts, RepoShows(p) PROVE SparedKnown'
  BY <1>29 DEF RepoShows
<1>30. ASSUME NEW p \in Posts, RepoFilled(p) PROVE SparedKnown'
  BY <1>30 DEF RepoFilled
<1> QED
  BY <1>1, <1>2, <1>3, <1>4, <1>5, <1>6, <1>7, <1>8, <1>9, <1>10, <1>11, <1>12, <1>13, <1>14, <1>15, <1>16, <1>17, <1>18, <1>19, <1>20, <1>21, <1>22, <1>23, <1>24, <1>25, <1>26, <1>27, <1>28, <1>29, <1>30 DEF Next, Download, Delete

\* Whoever changes the disk scans later or has given up; a scan under way reads
\* the change or is followed by another.
LEMMA FollowedKept ==
  ASSUME Sound, [Next]_vars
  PROVE  Followed'
<1> USE FilesAssumption DEF Sound, TypeOK, RequestsTyped, Steps, Batching, Running, Requests, Posts, Goto, FilesTyped, ScansTyped, Followed, Set, Present, fileVars, batchVars, deleteVars, scanVars, useVars
<1>1. ASSUME NEW p \in Posts, Post(p) PROVE Followed'
  BY <1>1 DEF Post
<1>2. ASSUME NEW p \in Posts, Look(p) PROVE Followed'
  BY <1>2 DEF Look
<1>3. ASSUME NEW p \in Posts, Refuse(p) PROVE Followed'
  BY <1>3 DEF Refuse
<1>4. ASSUME NEW p \in Posts, Start(p) PROVE Followed'
  BY <1>4 DEF Start
<1>5. ASSUME NEW p \in Posts, Launch(p) PROVE Followed'
  BY <1>5 DEF Launch
<1>6. ASSUME NEW p \in Posts, NextItem(p) PROVE Followed'
  BY <1>6 DEF NextItem
<1>7. ASSUME NEW p \in Posts, HubFile(p) PROVE Followed'
  BY <1>7 DEF HubFile
<1>8. ASSUME NEW p \in Posts, OpenPart(p) PROVE Followed'
  BY <1>8 DEF OpenPart
<1>9. ASSUME NEW p \in Posts, LastChunk(p) PROVE Followed'
  BY <1>9 DEF LastChunk
<1>10. ASSUME NEW p \in Posts, Publish(p) PROVE Followed'
  BY <1>10 DEF Publish
<1>11. ASSUME NEW p \in Posts, ItemFails(p) PROVE Followed'
  BY <1>11 DEF ItemFails
<1>12. ASSUME NEW p \in Posts, Verify(p) PROVE Followed'
  BY <1>12 DEF Verify
<1>13. ASSUME NEW p \in Posts, BatchEnds(p) PROVE Followed'
  BY <1>13 DEF BatchEnds
<1>14. ASSUME NEW d \in Deletes, ReadJobs(d) PROVE Followed'
  BY <1>14 DEF ReadJobs
<1>15. ASSUME NEW d \in Deletes, DeleteRefused(d) PROVE Followed'
  BY <1>15 DEF DeleteRefused
<1>16. ASSUME NEW d \in Deletes, Reserve(d) PROVE Followed'
  BY <1>16 DEF Reserve
<1>17. ASSUME NEW d \in Deletes, Stage(d) PROVE Followed'
  BY <1>17 DEF Stage
<1>18. ASSUME NEW d \in Deletes, Removed(d) PROVE Followed'
  BY <1>18 DEF Removed
<1>19. ASSUME NEW d \in Deletes, RolledBack(d) PROVE Followed'
  BY <1>19 DEF RolledBack
<1>20. ASSUME NEW r \in Requests, ScanBegins(r) PROVE Followed'
  BY <1>20 DEF ScanBegins
<1>21. CASE ScanReads
  <2>1. PICK f \in left : left' = left \ {f} /\ seen' = IF Present(f) THEN seen \cup {f} ELSE seen
    BY <1>21 DEF ScanReads
  <2>2. \A g \in Files : Present(g)' <=> Present(g)
    BY <1>21 DEF ScanReads
  <2>3. UNCHANGED <<at, scanner, rescanDue, listed, disk>>
    BY <1>21 DEF ScanReads
  <2>4. \A g \in Files \ left' : g = f \/ g \in Files \ left
    BY <2>1
  <2>5. ASSUME \A g \in Files \ left : g \in seen <=> Present(g)
        PROVE  \A g \in Files \ left' : g \in seen' <=> Present(g)'
    <3> TAKE g \in Files \ left'
    <3>1. CASE g = f
      BY <2>1, <2>2, <3>1
    <3>2. CASE g # f
      BY <2>1, <2>2, <2>4, <2>5, <3>2
    <3> QED
      BY <3>1, <3>2
  <2> QED
    BY <1>21, <2>2, <2>3, <2>5 DEF ScanReads
<1>22. CASE ScanEnds
  BY <1>22 DEF ScanEnds
<1>23. CASE ScanFails
  BY <1>23 DEF ScanFails
<1>24. ASSUME NEW f \in Files, QueueJob(f) PROVE Followed'
  BY <1>24 DEF QueueJob, Uses
<1>25. ASSUME NEW f \in Files, Load(f) PROVE Followed'
  BY <1>25 DEF Load, Uses
<1>26. ASSUME NEW f \in Files, JobEnds(f) PROVE Followed'
  BY <1>26 DEF JobEnds, Uses
<1>27. ASSUME NEW f \in Files, Free(f) PROVE Followed'
  BY <1>27 DEF Free, Uses
<1>28. CASE UNCHANGED vars
  BY <1>28 DEF vars
<1>29. ASSUME NEW p \in Posts, RepoShows(p) PROVE Followed'
  BY <1>29 DEF RepoShows
<1>30. ASSUME NEW p \in Posts, RepoFilled(p) PROVE Followed'
  BY <1>30 DEF RepoFilled
<1> QED
  BY <1>1, <1>2, <1>3, <1>4, <1>5, <1>6, <1>7, <1>8, <1>9, <1>10, <1>11, <1>12, <1>13, <1>14, <1>15, <1>16, <1>17, <1>18, <1>19, <1>20, <1>21, <1>22, <1>23, <1>24, <1>25, <1>26, <1>27, <1>28, <1>29, <1>30 DEF Next, Download, Delete

\* A deletion that renames its file has asked.
LEMMA StagesAsked ==
  ASSUME Sound, [Next]_vars
  PROVE  StagesNoSpared
<1> USE FilesAssumption DEF Sound, TypeOK, RequestsTyped, Steps, Batching, Running, Requests, Posts, Goto, SparedKnown, StagesNoSpared, fileVars, batchVars, deleteVars, scanVars, useVars
<1>1. ASSUME NEW p \in Posts, Post(p) PROVE StagesNoSpared
  BY <1>1 DEF Post
<1>2. ASSUME NEW p \in Posts, Look(p) PROVE StagesNoSpared
  BY <1>2 DEF Look
<1>3. ASSUME NEW p \in Posts, Refuse(p) PROVE StagesNoSpared
  BY <1>3 DEF Refuse
<1>4. ASSUME NEW p \in Posts, Start(p) PROVE StagesNoSpared
  BY <1>4 DEF Start
<1>5. ASSUME NEW p \in Posts, Launch(p) PROVE StagesNoSpared
  BY <1>5 DEF Launch
<1>6. ASSUME NEW p \in Posts, NextItem(p) PROVE StagesNoSpared
  BY <1>6 DEF NextItem
<1>7. ASSUME NEW p \in Posts, HubFile(p) PROVE StagesNoSpared
  BY <1>7 DEF HubFile
<1>8. ASSUME NEW p \in Posts, OpenPart(p) PROVE StagesNoSpared
  BY <1>8 DEF OpenPart
<1>9. ASSUME NEW p \in Posts, LastChunk(p) PROVE StagesNoSpared
  BY <1>9 DEF LastChunk
<1>10. ASSUME NEW p \in Posts, Publish(p) PROVE StagesNoSpared
  BY <1>10 DEF Publish
<1>11. ASSUME NEW p \in Posts, ItemFails(p) PROVE StagesNoSpared
  BY <1>11 DEF ItemFails
<1>12. ASSUME NEW p \in Posts, Verify(p) PROVE StagesNoSpared
  BY <1>12 DEF Verify
<1>13. ASSUME NEW p \in Posts, BatchEnds(p) PROVE StagesNoSpared
  BY <1>13 DEF BatchEnds
<1>14. ASSUME NEW d \in Deletes, ReadJobs(d) PROVE StagesNoSpared
  BY <1>14 DEF ReadJobs
<1>15. ASSUME NEW d \in Deletes, DeleteRefused(d) PROVE StagesNoSpared
  BY <1>15 DEF DeleteRefused
<1>16. ASSUME NEW d \in Deletes, Reserve(d) PROVE StagesNoSpared
  BY <1>16 DEF Reserve
<1>17. ASSUME NEW d \in Deletes, Stage(d) PROVE StagesNoSpared
  BY <1>17 DEF Stage
<1>18. ASSUME NEW d \in Deletes, Removed(d) PROVE StagesNoSpared
  BY <1>18 DEF Removed
<1>19. ASSUME NEW d \in Deletes, RolledBack(d) PROVE StagesNoSpared
  BY <1>19 DEF RolledBack
<1>20. ASSUME NEW r \in Requests, ScanBegins(r) PROVE StagesNoSpared
  BY <1>20 DEF ScanBegins
<1>21. CASE ScanReads
  BY <1>21 DEF ScanReads
<1>22. CASE ScanEnds
  BY <1>22 DEF ScanEnds, ScansTyped
<1>23. CASE ScanFails
  BY <1>23 DEF ScanFails, ScansTyped
<1>24. ASSUME NEW f \in Files, QueueJob(f) PROVE StagesNoSpared
  BY <1>24 DEF QueueJob, Uses
<1>25. ASSUME NEW f \in Files, Load(f) PROVE StagesNoSpared
  BY <1>25 DEF Load, Uses
<1>26. ASSUME NEW f \in Files, JobEnds(f) PROVE StagesNoSpared
  BY <1>26 DEF JobEnds, Uses
<1>27. ASSUME NEW f \in Files, Free(f) PROVE StagesNoSpared
  BY <1>27 DEF Free, Uses
<1>28. CASE UNCHANGED vars
  BY <1>28 DEF vars
<1>29. ASSUME NEW p \in Posts, RepoShows(p) PROVE StagesNoSpared
  BY <1>29 DEF RepoShows
<1>30. ASSUME NEW p \in Posts, RepoFilled(p) PROVE StagesNoSpared
  BY <1>30 DEF RepoFilled
<1> QED
  BY <1>1, <1>2, <1>3, <1>4, <1>5, <1>6, <1>7, <1>8, <1>9, <1>10, <1>11, <1>12, <1>13, <1>14, <1>15, <1>16, <1>17, <1>18, <1>19, <1>20, <1>21, <1>22, <1>23, <1>24, <1>25, <1>26, <1>27, <1>28, <1>29, <1>30 DEF Next, Download, Delete

LEMMA Inductive == Sound /\ [Next]_vars => Sound'
<1> SUFFICES ASSUME Sound, [Next]_vars PROVE Sound'
  OBVIOUS
<1>1. TypeOK'
  BY RequestsTypedKept, FilesTypedKept, DeletionsTypedKept, ReservedByDeletionsKept, ScansTypedKept DEF TypeOK
<1> QED
  BY <1>1, OneBatchKept, WholeFilesKept, SparedKnownKept, FollowedKept DEF Sound

LEMMA Initially == Init => Sound
<1> SUFFICES ASSUME Init PROVE Sound
  OBVIOUS
<1> USE FilesAssumption DEF Init, Requests, Posts
<1>1. TypeOK
  BY DEF TypeOK, RequestsTyped, Steps, Batching, FilesTyped, Running, DeletionsTyped, ReservedByDeletions, Holding, ScansTyped
<1>2. OneBatch /\ WholeFilesOnly
  BY DEF OneBatch, WholeFilesOnly, Running, Batching
<1>3. SparedKnown /\ Followed
  BY DEF SparedKnown, Followed, Present
<1> QED
  BY <1>1, <1>2, <1>3 DEF Sound

LEMMA AlwaysSound == Spec => []Sound
  BY Initially, Inductive, PTL DEF Spec

-----------------------------------------------------------------------------
\* Requests, files, reservations and the lock of the scans are what TypeOK says,
\* for any files and requests: a deletion that fails anywhere gives its
\* reservation back (model_storage.delete).
THEOREM TypeCorrect == Spec => []TypeOK
<1>1. Sound => TypeOK
  BY DEF Sound
<1> QED
  BY AlwaysSound, <1>1, PTL

\* While batches do not overlap no name shows a file that is not whole, whatever
\* fails on the way (download_url, verify_sha256), but for the folders of the hub's
\* repositories: one that is not whole is being filled or was reported as failed.
THEOREM FilesWhole == Spec => []WholeFilesOnly
<1>1. Sound => WholeFilesOnly
  BY DEF Sound
<1> QED
  BY AlwaysSound, <1>1, PTL

\* However many downloads, deletions and rescans overlap with a scan, the last
\* of them leaves a list of what is on disk (scan_async).
THEOREM ListCurrent == Spec => []InventoryCurrent
<1>1. Sound => InventoryCurrent
  BY FilesAssumption DEF Sound, TypeOK, RequestsTyped, ScansTyped, Followed, InventoryCurrent, Settled, Batching, Requests
<1> QED
  BY AlwaysSound, <1>1, PTL

\* A deletion stages no file that has been wanted or on the GPU ever since it
\* read the rows, although it asks for the two at different times
\* (delete_installed_model).
THEOREM UsedSpared == Spec => DeleteSpares
<1>1. Sound /\ [Next]_vars => [StagesNoSpared]_vars
  BY StagesAsked
<1> QED
  BY AlwaysSound, <1>1, PTL DEF Spec, DeleteSpares

=============================================================================
