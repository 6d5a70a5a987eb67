--------------------------- MODULE SchedulerProofs ---------------------------
(***************************************************************************)
(* What Scheduler guarantees for any jobs, models and requests and any     *)
(* number of restarts.  Every invariant is about data that was read before *)
(* an await and is used after it: the layers below say what remains true   *)
(* of it meanwhile.                                                        *)
(***************************************************************************)
EXTENDS Scheduler, TLAPS

\* Stages in which the worker holds a picked job, in which _current_job_id
\* names it, and in which its transaction holds rows it has read.
Owning == {"acquire", "generate", "save", "write", "requeue", "putback", "unwind"}
Held == Owning \cup {"commit", "begin"}
Reading == {"adopt", "choose", "commit", "write", "putback"}

\* Which attributes are set at which stage, and that what was read exists.
Staged ==
  /\ TypeOK
  /\ job # None <=> at \in Held
  /\ at # "dead" => current = (IF at \in Owning THEN job ELSE None)
  /\ at \notin Reading => rows = {}
  /\ at = "commit" => rows = {job}
  /\ at \in {"write", "putback"} => rows \subseteq {job}
  /\ at \in {"save", "write"} => verdict # "none"
  /\ at \in Held => status[job] # "none"
  /\ \A j \in rows : status[j] # "none"
  /\ \A c \in Clients :
       /\ req[c].kind = "delete" => req[c].job \in Jobs
       /\ \A j \in req[c].rows : status[j] # "none"

\* What the reads of running rows are still worth when they are used.
Picked ==
  /\ RunningIsWorkers
  /\ at = "adopt" => With({"running"}) \subseteq rows
  /\ at = "write" /\ job \notin rows => status[job] = "gone"
  /\ at = "putback" /\ job \notin rows => status[job] # "running"
  /\ at = "unwind" => status[job] # "running"

\* Nothing was archived for a job that may still run.
Unsaved ==
  /\ \A j \in Jobs : status[j] \in {"none", "queued", "running"} => results[j] = 0
  /\ at \in {"adopt", "choose", "commit"} => \A j \in rows : results[j] = 0
  /\ at \in Held \ {"unwind"} => results[job] = 0

Saved == ResultsOnce /\ Unsaved

\* A job that was told to stop will not be saved as done, nor run again before an
\* orphan of it is adopted.
Stopped(j) ==
  /\ status[j] \notin {"none", "queued"}
  /\ \/ at \in {"off", "orphans", "dead"}
     \/ at = "adopt" /\ j \in rows
     \/ j = job /\ at = "generate" /\ cancel
     \/ j = job /\ at \in {"save", "write"} /\ verdict # "done"
     \/ j = job /\ at = "unwind" /\ status[j] # "running"
     \/ j # job /\ j \notin rows /\ status[j] # "running"
Deafened ==
  /\ CancelWhileGenerating
  /\ \A j \in heard : Stopped(j)

\* A row is deleted, never undone.
RowsKept == \A j \in Jobs : status[j] # "none" => status'[j] # "none"

\* The steps of everybody but the worker.
OtherStep == ClientStep \/ GpuStep \/ ProcessStep \/ Over

-----------------------------------------------------------------------------
(* Stages and types.                                                       *)

\* What a commit leaves in each row.
LEMMA WrittenRows ==
  ASSUME TypeOK, NEW s \in Statuses
  PROVE  /\ Written(s) \in [Jobs -> Statuses]
         /\ \A j \in Jobs : Written(s)[j] = IF j \in rows THEN s ELSE status[j]
  BY DEF TypeOK, TableTyped, Written, Statuses

\* The worker keeps what its stages promise.
LEMMA WorkerStaged == Staged /\ WorkerStep => Staged'
<1> SUFFICES ASSUME Staged, WorkerStep PROVE Staged'
  OBVIOUS
<1> USE JobsAssumption
    DEF RowsKept, Staged, TypeOK, TableTyped, WorkerTyped, FlagsTyped, ClientsTyped,
        ClientRequest, Statuses, Finished, Held, Owning, Reading, Reserved, tableVars,
        workerVars, flagVars, gpuVars, clientVars
<1>1. CASE FindOrphans
  BY <1>1 DEF FindOrphans, With
<1>2. CASE AdoptOrphans
  <2>1. status' \in {status, Written("queued")}
    BY <1>2 DEF AdoptOrphans, Die, CanWrite, Table, WriteFails, Written, With
  <2>2. status' \in [Jobs -> Statuses] /\ RowsKept
    BY <2>1, WrittenRows
  <2>3. TypeOK'
    BY <1>2, <2>2 DEF AdoptOrphans, Die, CanWrite, Table, WriteFails, With
  <2>4. \A j \in rows' \cup ({job'} \ {None}) : status'[j] # "none"
    BY <1>2, <2>2 DEF AdoptOrphans, Die, CanWrite, Table, WriteFails, With
  <2> QED
    BY <1>2, <2>2, <2>3, <2>4 DEF AdoptOrphans, Die, CanWrite, Table, WriteFails, With
<1>3. CASE Look
  <2>1. TypeOK'
    BY <1>3 DEF Look, With
  <2> QED
    BY <1>3, <2>1 DEF Look, With
<1>4. CASE Choose
  BY <1>4 DEF Choose, Runnable
<1>5. CASE CommitPick
  <2>1. status' \in {status, Written("running")}
    BY <1>5 DEF CommitPick, Die, CanWrite, Table, WriteFails, Written, With
  <2>2. status' \in [Jobs -> Statuses] /\ RowsKept
    BY <2>1, WrittenRows
  <2>3. TypeOK'
    BY <1>5, <2>2 DEF CommitPick, Die, CanWrite, Table, WriteFails, With
  <2>4. \A j \in rows' \cup ({job'} \ {None}) : status'[j] # "none"
    BY <1>5, <2>2 DEF CommitPick, Die, CanWrite, Table, WriteFails, With
  <2> QED
    BY <1>5, <2>2, <2>3, <2>4 DEF CommitPick, Die, CanWrite, Table, WriteFails, With
<1>6. CASE ClearWakeup
  BY <1>6 DEF ClearWakeup
<1>7. CASE Wake
  BY <1>7 DEF Wake
<1>8. CASE BeginRun
  BY <1>8 DEF BeginRun
<1>9. CASE Acquire
  BY <1>9 DEF Acquire
<1>10. CASE Generate
  BY <1>10 DEF Generate
<1>11. CASE SaveRead
  BY <1>11 DEF SaveRead, Table, With
<1>12. CASE SaveWrite
  <2>1. \/ status' = Written(verdict)
        \/ /\ Follow[job] \in Jobs
           /\ status' = [Written(verdict) EXCEPT ![Follow[job]] = "queued"]
    BY <1>12 DEF SaveWrite, CanWrite, Table, Written, With
  <2>2. /\ Written(verdict) \in [Jobs -> Statuses]
        /\ \A j \in Jobs : status[j] # "none" => Written(verdict)[j] # "none"
    BY <1>12, WrittenRows DEF SaveWrite
  <2>3. status' \in [Jobs -> Statuses] /\ RowsKept
    BY <2>1, <2>2
  <2>4. results' \in [Jobs -> Nat]
    <3>1. PICK n \in Stored : results' = [results EXCEPT ![job] = @ + n]
      BY <1>12 DEF SaveWrite
    <3>2. n \in Nat /\ job \in Jobs
      BY <1>12, <3>1 DEF Stored, SaveWrite
    <3>3. results[job] + n \in Nat
      BY <3>2
    <3> QED
      BY <3>1, <3>3
  <2> QED
    BY <1>12, <2>3, <2>4 DEF SaveWrite
<1>13. CASE SaveFails
  BY <1>13 DEF SaveFails, Die
<1>14. CASE RequeueRead
  BY <1>14 DEF RequeueRead, With
<1>15. CASE RequeueWrite
  <2>1. status' \in {status, Written("queued")}
    BY <1>15 DEF RequeueWrite, Die, CanWrite, Table, Written, With
  <2>2. status' \in [Jobs -> Statuses] /\ RowsKept
    BY <2>1, WrittenRows
  <2>3. TypeOK'
    BY <1>15, <2>2 DEF RequeueWrite, Die, CanWrite, Table, With
  <2>4. \A j \in rows' \cup ({job'} \ {None}) : status'[j] # "none"
    BY <1>15, <2>2 DEF RequeueWrite, Die, CanWrite, Table, With
  <2> QED
    BY <1>15, <2>2, <2>3, <2>4 DEF RequeueWrite, Die, CanWrite, Table, With
<1>16. CASE Unwind
  BY <1>16 DEF Unwind, With
<1> QED
  BY <1>1, <1>2, <1>3, <1>4, <1>5, <1>6, <1>7, <1>8, <1>9, <1>10, <1>11, <1>12, <1>13,
     <1>14, <1>15, <1>16
     DEF WorkerStep

\* Requests and the process keep it too.
LEMMA OtherStaged == Staged /\ OtherStep => Staged'
<1> SUFFICES ASSUME Staged, OtherStep PROVE Staged'
  OBVIOUS
<1> USE JobsAssumption
    DEF RowsKept, Staged, TypeOK, TableTyped, WorkerTyped, FlagsTyped, ClientsTyped,
        ClientRequest, Statuses, Finished, Held, Owning, Reading, Reserved, tableVars,
        workerVars, flagVars, gpuVars, clientVars
<1>1. ASSUME NEW j \in Jobs, Create(j) PROVE Staged'
  <2>1. status' \in [Jobs -> Statuses]
    BY <1>1 DEF Create
  <2>2. RowsKept
    BY <1>1 DEF Create
  <2>3. wakeup' \in BOOLEAN
    BY <1>1 DEF Create
  <2> QED
    BY <1>1, <2>1, <2>2, <2>3 DEF Create
<1>2. ASSUME NEW c \in Clients, NEW j \in Jobs, DeleteRead(c, j) PROVE Staged'
  BY <1>2 DEF DeleteRead, Row, Quiet
<1>3. ASSUME NEW c \in Clients, DeleteRunning(c) PROVE Staged'
  <2>1. req' = [req EXCEPT ![c] = Quiet] /\ req[c].job \in Jobs
    BY <1>3 DEF DeleteRunning
  <2>2. told' \subseteq Jobs
    BY <1>3, <2>1 DEF DeleteRunning
  <2>3. heard' \subseteq Jobs
    BY <1>3, <2>1 DEF DeleteRunning
  <2>4. cancel' \in BOOLEAN
    BY <1>3, <2>1 DEF DeleteRunning
  <2>5. UNCHANGED <<tableVars, workerVars, current, wakeup, up, gpuVars, starts>>
    BY <1>3 DEF DeleteRunning
  <2>6. ClientsTyped' /\ FlagsTyped'
    BY <2>1, <2>2, <2>3, <2>4, <2>5 DEF Quiet
  <2> QED
    BY <2>1, <2>5, <2>6 DEF Quiet
<1>4. ASSUME NEW c \in Clients, DeleteOther(c) PROVE Staged'
  BY <1>4 DEF DeleteOther, Row, Quiet
<1>5. ASSUME NEW c \in Clients, ClearRead(c) PROVE Staged'
  BY <1>5 DEF ClearRead, With, Quiet
<1>6. ASSUME NEW c \in Clients, ClearWrite(c) PROVE Staged'
  BY <1>6 DEF ClearWrite, Quiet
<1>7. CASE VoiceReserve
  BY <1>7 DEF VoiceReserve
<1>8. CASE VoiceReserved
  BY <1>8 DEF VoiceReserved
<1>9. CASE VoiceLive
  BY <1>9 DEF VoiceLive
<1>10. CASE VoiceStops
  BY <1>10 DEF VoiceStops
<1>11. CASE VoiceEnds
  BY <1>11 DEF VoiceEnds
<1>12. ASSUME NEW m \in Models, Pinned(m) PROVE Staged'
  BY <1>12 DEF Pinned
<1>13. CASE Unpinned
  BY <1>13 DEF Unpinned
<1>14. CASE Start
  BY <1>14 DEF Start
<1>15. CASE RequestStop
  <2>1. cancel' \in BOOLEAN
    BY <1>15 DEF RequestStop
  <2>2. heard' \subseteq Jobs
    BY <1>15 DEF RequestStop
  <2>3. /\ up' = FALSE /\ wakeup' = TRUE
        /\ UNCHANGED <<tableVars, workerVars, current, gpuVars, req, told, starts>>
    BY <1>15 DEF RequestStop
  <2>4. TableTyped' /\ WorkerTyped'
    BY <2>3
  <2>5. FlagsTyped' /\ ClientsTyped'
    BY <2>1, <2>2, <2>3
  <2> QED
    BY <2>3, <2>4, <2>5
<1>16. CASE ProcessEnds
  BY <1>16 DEF ProcessEnds, Quiet
<1>17. CASE Over
  BY <1>17 DEF Over, vars
<1> QED
  BY <1>1, <1>2, <1>3, <1>4, <1>5, <1>6, <1>7, <1>8, <1>9, <1>10, <1>11, <1>12, <1>13,
     <1>14, <1>15, <1>16, <1>17
     DEF OtherStep, ClientStep, GpuStep, ProcessStep

\* The program starts in a proper stage.
LEMMA InitStaged == Init => Staged
<1> SUFFICES ASSUME Init PROVE Staged
  OBVIOUS
<1>1. TableTyped /\ ClientsTyped
  BY DEF Init, Quiet, TableTyped, ClientsTyped, ClientRequest, Statuses
<1> QED
  BY <1>1, JobsAssumption
     DEF Init, Quiet, Staged, TypeOK, WorkerTyped, FlagsTyped, Finished, Held, Owning,
         Reading, Reserved

\* Staged is inductive.
LEMMA StagedStep == Staged /\ [Next]_vars => Staged'
<1>1. CASE UNCHANGED vars
  BY <1>1 DEF vars, tableVars, workerVars, flagVars, gpuVars, clientVars, Staged, TypeOK,
              TableTyped, WorkerTyped, FlagsTyped, ClientsTyped, Held, Owning, Reading
<1> QED
  BY <1>1, WorkerStaged, OtherStaged DEF Next, OtherStep

\* Staged always holds.
LEMMA StagedInvariant == Spec => []Staged
  BY InitStaged, StagedStep, PTL DEF Spec

\* Every row, attribute and request keeps its type, whatever was deleted, cleared
\* or lost between a read and its write.
THEOREM TypeCorrect == Spec => []TypeOK
<1>1. Staged => TypeOK
  BY DEF Staged
<1> QED
  BY <1>1, StagedInvariant, PTL

-----------------------------------------------------------------------------
(* The picked job.                                                         *)

\* What the worker marks running it holds,
LEMMA WorkerPicked == Staged /\ Picked /\ WorkerStep => Picked'
<1> SUFFICES ASSUME Staged, Picked, WorkerStep PROVE Picked'
  OBVIOUS
<1> USE JobsAssumption
    DEF Staged, Picked, RunningIsWorkers, TypeOK, TableTyped, WorkerTyped, FlagsTyped,
        ClientsTyped, ClientRequest, Statuses, Finished, With, Held, Owning, Reading,
        tableVars, workerVars, flagVars, gpuVars, clientVars
<1>1. CASE FindOrphans
  BY <1>1 DEF FindOrphans
<1>2. CASE AdoptOrphans
  BY <1>2 DEF AdoptOrphans, Die, CanWrite, Table, WriteFails, Written
<1>3. CASE Look
  BY <1>3 DEF Look
<1>4. CASE Choose
  BY <1>4 DEF Choose, Runnable
<1>5. CASE CommitPick
  BY <1>5 DEF CommitPick, Die, CanWrite, Table, WriteFails, Written
<1>6. CASE ClearWakeup
  BY <1>6 DEF ClearWakeup
<1>7. CASE Wake
  BY <1>7 DEF Wake
<1>8. CASE BeginRun
  BY <1>8 DEF BeginRun
<1>9. CASE Acquire
  BY <1>9 DEF Acquire
<1>10. CASE Generate
  BY <1>10 DEF Generate
<1>11. CASE SaveRead
  BY <1>11 DEF SaveRead, Table
<1>12. CASE SaveWrite
  <2>1. at = "write" /\ at' = "unwind" /\ rows \subseteq Table /\ verdict # "running" /\ job' = job
    BY <1>12 DEF SaveWrite, CanWrite
  <2>2. \/ status' = Written(verdict)
        \/ status[Follow[job]] = "none" /\ status' = [Written(verdict) EXCEPT ![Follow[job]] = "queued"]
    BY <1>12 DEF SaveWrite
  <2>3. \A j \in Jobs : status'[j] = "running" => status[j] = "running" /\ j \notin rows
    BY <2>1, <2>2 DEF Written
  <2>4. status'[job] # "running"
    BY <2>1, <2>3
  <2> QED
    BY <2>1, <2>3, <2>4
<1>13. CASE SaveFails
  BY <1>13 DEF SaveFails, Die
<1>14. CASE RequeueRead
  BY <1>14 DEF RequeueRead
<1>15. CASE RequeueWrite
  <2>1. CASE at = "putback" /\ status' = Written("queued") /\ at' = "unwind" /\ UNCHANGED job
    BY <2>1 DEF Written
  <2>2. CASE at' = "dead" /\ UNCHANGED status
    BY <2>2
  <2> QED
    BY <1>15, <2>1, <2>2 DEF RequeueWrite, Die
<1>16. CASE Unwind
  BY <1>16 DEF Unwind
<1> QED
  BY <1>1, <1>2, <1>3, <1>4, <1>5, <1>6, <1>7, <1>8, <1>9, <1>10, <1>11, <1>12, <1>13,
     <1>14, <1>15, <1>16
     DEF WorkerStep

\* and nobody else marks a row running.
LEMMA OtherPicked == Staged /\ Picked /\ OtherStep => Picked'
<1> SUFFICES ASSUME Staged, Picked, OtherStep PROVE Picked'
  OBVIOUS
<1> USE JobsAssumption
    DEF Staged, Picked, RunningIsWorkers, TypeOK, TableTyped, WorkerTyped, FlagsTyped,
        ClientsTyped, ClientRequest, Statuses, Finished, With, Held, Owning, Reading,
        tableVars, workerVars, flagVars, gpuVars, clientVars
<1>1. ASSUME NEW j \in Jobs, Create(j) PROVE Picked'
  BY <1>1 DEF Create
<1>2. ASSUME NEW c \in Clients, NEW j \in Jobs, DeleteRead(c, j) PROVE Picked'
  BY <1>2 DEF DeleteRead, Row, Quiet
<1>3. ASSUME NEW c \in Clients, DeleteRunning(c) PROVE Picked'
  BY <1>3 DEF DeleteRunning, Ending, Quiet
<1>4. ASSUME NEW c \in Clients, DeleteOther(c) PROVE Picked'
  BY <1>4 DEF DeleteOther, Row, Quiet
<1>5. ASSUME NEW c \in Clients, ClearRead(c) PROVE Picked'
  BY <1>5 DEF ClearRead, With, Quiet
<1>6. ASSUME NEW c \in Clients, ClearWrite(c) PROVE Picked'
  BY <1>6 DEF ClearWrite, Quiet
<1>7. CASE VoiceReserve
  BY <1>7 DEF VoiceReserve
<1>8. CASE VoiceReserved
  BY <1>8 DEF VoiceReserved
<1>9. CASE VoiceLive
  BY <1>9 DEF VoiceLive
<1>10. CASE VoiceStops
  BY <1>10 DEF VoiceStops
<1>11. CASE VoiceEnds
  BY <1>11 DEF VoiceEnds
<1>12. ASSUME NEW m \in Models, Pinned(m) PROVE Picked'
  BY <1>12 DEF Pinned
<1>13. CASE Unpinned
  BY <1>13 DEF Unpinned
<1>14. CASE Start
  BY <1>14 DEF Start
<1>15. CASE RequestStop
  BY <1>15 DEF RequestStop
<1>16. CASE ProcessEnds
  BY <1>16 DEF ProcessEnds, Quiet
<1>17. CASE Over
  BY <1>17 DEF Over, vars
<1> QED
  BY <1>1, <1>2, <1>3, <1>4, <1>5, <1>6, <1>7, <1>8, <1>9, <1>10, <1>11, <1>12, <1>13,
     <1>14, <1>15, <1>16, <1>17
     DEF OtherStep, ClientStep, GpuStep, ProcessStep

-----------------------------------------------------------------------------
(* Results.                                                                *)

\* What a save leaves: the job's row, unless it is gone, the result, and the row
\* of the tool call's job.
LEMMA SaveWriteEffect ==
  ASSUME Staged, Picked, Saved, SaveWrite
  PROVE  /\ at = "write" /\ at' = "unwind" /\ rows' = {} /\ UNCHANGED <<job, verdict, heard>>
         /\ job \in Jobs /\ results[job] = 0 /\ verdict \in Finished
         /\ \A j \in Jobs :
              \/ results'[j] = IF j = job /\ verdict = "done" THEN 1 ELSE results[j]
              \/ j = job /\ KeepsText /\ results'[j] = 1
         /\ \A j \in Jobs \ {job} :
              \/ status'[j] = status[j]
              \/ /\ j = Follow[job] /\ verdict = "done"
                 /\ status[j] = "none" /\ status'[j] = "queued"
         /\ status'[job] = IF job \in rows THEN verdict ELSE "gone"
<1> USE JobsAssumption
    DEF Staged, Picked, Saved, Unsaved, TypeOK, TableTyped, WorkerTyped, ClientsTyped,
        Statuses, Finished, Held, Owning, workerVars, clientVars
<1>1. /\ at = "write" /\ at' = "unwind" /\ rows' = {} /\ UNCHANGED <<job, verdict, heard>>
      /\ job \in Jobs /\ results[job] = 0 /\ verdict \in Finished
  BY DEF SaveWrite
<1>2. \A j \in Jobs :
        \/ results'[j] = IF j = job /\ verdict = "done" THEN 1 ELSE results[j]
        \/ j = job /\ KeepsText /\ results'[j] = 1
  <2>1. PICK n \in Stored : results' = [results EXCEPT ![job] = @ + n]
    BY DEF SaveWrite
  <2> QED
    BY <1>1, <2>1 DEF Stored
<1>3. \A j \in Jobs \ {job} :
        \/ status'[j] = status[j]
        \/ /\ j = Follow[job] /\ verdict = "done"
           /\ status[j] = "none" /\ status'[j] = "queued"
  BY <1>1, WrittenRows DEF SaveWrite
<1>4. status'[job] = IF job \in rows THEN verdict ELSE "gone"
  BY <1>1, WrittenRows DEF SaveWrite
<1> QED
  BY <1>1, <1>2, <1>3, <1>4

\* The worker archives a result with its status,
LEMMA WorkerSaved == Staged /\ Picked /\ Saved /\ WorkerStep => Saved'
<1> SUFFICES ASSUME Staged, Picked, Saved, WorkerStep PROVE Saved'
  OBVIOUS
<1> USE JobsAssumption
    DEF Staged, Picked, RunningIsWorkers, Saved, ResultsOnce, Unsaved, TypeOK,
        TableTyped, WorkerTyped, FlagsTyped, ClientsTyped, ClientRequest, Statuses,
        Finished, With, Held, Owning, Reading, tableVars, workerVars, flagVars, gpuVars,
        clientVars
<1>1. CASE FindOrphans
  BY <1>1 DEF FindOrphans
<1>2. CASE AdoptOrphans
  BY <1>2 DEF AdoptOrphans, Die, CanWrite, Table, WriteFails, Written
<1>3. CASE Look
  BY <1>3 DEF Look
<1>4. CASE Choose
  BY <1>4 DEF Choose, Runnable
<1>5. CASE CommitPick
  BY <1>5 DEF CommitPick, Die, CanWrite, Table, WriteFails, Written
<1>6. CASE ClearWakeup
  BY <1>6 DEF ClearWakeup
<1>7. CASE Wake
  BY <1>7 DEF Wake
<1>8. CASE BeginRun
  BY <1>8 DEF BeginRun
<1>9. CASE Acquire
  BY <1>9 DEF Acquire
<1>10. CASE Generate
  BY <1>10 DEF Generate
<1>11. CASE SaveRead
  BY <1>11 DEF SaveRead, Table
<1>12. CASE SaveWrite
  <2>1. ResultsOnce'
    BY <1>12, SaveWriteEffect DEF KeepsText
  <2>2. Unsaved'
    BY <1>12, SaveWriteEffect DEF KeepsText
  <2> QED
    BY <2>1, <2>2
<1>13. CASE SaveFails
  BY <1>13 DEF SaveFails, Die
<1>14. CASE RequeueRead
  BY <1>14 DEF RequeueRead
<1>15. CASE RequeueWrite
  BY <1>15 DEF RequeueWrite, Die, CanWrite, Table, Written
<1>16. CASE Unwind
  BY <1>16 DEF Unwind
<1> QED
  BY <1>1, <1>2, <1>3, <1>4, <1>5, <1>6, <1>7, <1>8, <1>9, <1>10, <1>11, <1>12, <1>13,
     <1>14, <1>15, <1>16
     DEF WorkerStep

\* and no request makes a finished job runnable.
LEMMA OtherSaved == Staged /\ Picked /\ Saved /\ OtherStep => Saved'
<1> SUFFICES ASSUME Staged, Picked, Saved, OtherStep PROVE Saved'
  OBVIOUS
<1> USE JobsAssumption
    DEF Staged, Picked, RunningIsWorkers, Saved, ResultsOnce, Unsaved, TypeOK,
        TableTyped, WorkerTyped, FlagsTyped, ClientsTyped, ClientRequest, Statuses,
        Finished, With, Held, Owning, Reading, tableVars, workerVars, flagVars, gpuVars,
        clientVars
<1>1. ASSUME NEW j \in Jobs, Create(j) PROVE Saved'
  BY <1>1 DEF Create
<1>2. ASSUME NEW c \in Clients, NEW j \in Jobs, DeleteRead(c, j) PROVE Saved'
  BY <1>2 DEF DeleteRead, Row, Quiet
<1>3. ASSUME NEW c \in Clients, DeleteRunning(c) PROVE Saved'
  BY <1>3 DEF DeleteRunning, Ending, Quiet
<1>4. ASSUME NEW c \in Clients, DeleteOther(c) PROVE Saved'
  BY <1>4 DEF DeleteOther, Row, Quiet
<1>5. ASSUME NEW c \in Clients, ClearRead(c) PROVE Saved'
  BY <1>5 DEF ClearRead, With, Quiet
<1>6. ASSUME NEW c \in Clients, ClearWrite(c) PROVE Saved'
  BY <1>6 DEF ClearWrite, Quiet
<1>7. CASE VoiceReserve
  BY <1>7 DEF VoiceReserve
<1>8. CASE VoiceReserved
  BY <1>8 DEF VoiceReserved
<1>9. CASE VoiceLive
  BY <1>9 DEF VoiceLive
<1>10. CASE VoiceStops
  BY <1>10 DEF VoiceStops
<1>11. CASE VoiceEnds
  BY <1>11 DEF VoiceEnds
<1>12. ASSUME NEW m \in Models, Pinned(m) PROVE Saved'
  BY <1>12 DEF Pinned
<1>13. CASE Unpinned
  BY <1>13 DEF Unpinned
<1>14. CASE Start
  BY <1>14 DEF Start
<1>15. CASE RequestStop
  BY <1>15 DEF RequestStop
<1>16. CASE ProcessEnds
  BY <1>16 DEF ProcessEnds, Quiet
<1>17. CASE Over
  BY <1>17 DEF Over, vars
<1> QED
  BY <1>1, <1>2, <1>3, <1>4, <1>5, <1>6, <1>7, <1>8, <1>9, <1>10, <1>11, <1>12, <1>13,
     <1>14, <1>15, <1>16, <1>17
     DEF OtherStep, ClientStep, GpuStep, ProcessStep

-----------------------------------------------------------------------------
(* What was read, when it is written.                                      *)

\* What requests may have done to a row since the worker read it.
Reached ==
  /\ at \in {"choose", "commit"} =>
       \A j \in rows : status[j] \in {"queued", "cancelled", "gone"}
  /\ at = "adopt" => \A j \in rows : status[j] \in {"running", "cancelled", "gone"}
  /\ at \in Held \ {"commit", "unwind"} => status[job] \in {"running", "cancelled", "gone"}

\* The worker moves the job it holds on,
LEMMA WorkerReached == Staged /\ Picked /\ Reached /\ WorkerStep => Reached'
<1> SUFFICES ASSUME Staged, Picked, Reached, WorkerStep PROVE Reached'
  OBVIOUS
<1> USE JobsAssumption
    DEF Staged, Picked, RunningIsWorkers, Reached, TypeOK, TableTyped, WorkerTyped,
        FlagsTyped, ClientsTyped, ClientRequest, Statuses, Finished, With, Held, Owning,
        Reading, tableVars, workerVars, flagVars, gpuVars, clientVars
<1>1. CASE FindOrphans
  BY <1>1 DEF FindOrphans
<1>2. CASE AdoptOrphans
  BY <1>2 DEF AdoptOrphans, Die, CanWrite, Table, WriteFails, Written
<1>3. CASE Look
  BY <1>3 DEF Look
<1>4. CASE Choose
  BY <1>4 DEF Choose, Runnable
<1>5. CASE CommitPick
  BY <1>5 DEF CommitPick, Die, CanWrite, Table, WriteFails, Written
<1>6. CASE ClearWakeup
  BY <1>6 DEF ClearWakeup
<1>7. CASE Wake
  BY <1>7 DEF Wake
<1>8. CASE BeginRun
  BY <1>8 DEF BeginRun
<1>9. CASE Acquire
  BY <1>9 DEF Acquire
<1>10. CASE Generate
  BY <1>10 DEF Generate
<1>11. CASE SaveRead
  BY <1>11 DEF SaveRead, Table
<1>12. CASE SaveWrite
  BY <1>12 DEF SaveWrite, CanWrite, Table, Written
<1>13. CASE SaveFails
  BY <1>13 DEF SaveFails, Die
<1>14. CASE RequeueRead
  BY <1>14 DEF RequeueRead
<1>15. CASE RequeueWrite
  BY <1>15 DEF RequeueWrite, Die, CanWrite, Table, Written
<1>16. CASE Unwind
  BY <1>16 DEF Unwind
<1> QED
  BY <1>1, <1>2, <1>3, <1>4, <1>5, <1>6, <1>7, <1>8, <1>9, <1>10, <1>11, <1>12, <1>13,
     <1>14, <1>15, <1>16
     DEF WorkerStep

\* and everybody else can only cancel it or take its row away.
LEMMA OtherReached == Staged /\ Picked /\ Reached /\ OtherStep => Reached'
<1> SUFFICES ASSUME Staged, Picked, Reached, OtherStep PROVE Reached'
  OBVIOUS
<1> USE JobsAssumption
    DEF Staged, Picked, RunningIsWorkers, Reached, TypeOK, TableTyped, WorkerTyped,
        FlagsTyped, ClientsTyped, ClientRequest, Statuses, Finished, With, Held, Owning,
        Reading, tableVars, workerVars, flagVars, gpuVars, clientVars
<1>1. ASSUME NEW j \in Jobs, Create(j) PROVE Reached'
  BY <1>1 DEF Create
<1>2. ASSUME NEW c \in Clients, NEW j \in Jobs, DeleteRead(c, j) PROVE Reached'
  BY <1>2 DEF DeleteRead, Row, Quiet
<1>3. ASSUME NEW c \in Clients, DeleteRunning(c) PROVE Reached'
  BY <1>3 DEF DeleteRunning, Ending, Quiet
<1>4. ASSUME NEW c \in Clients, DeleteOther(c) PROVE Reached'
  BY <1>4 DEF DeleteOther, Row, Quiet
<1>5. ASSUME NEW c \in Clients, ClearRead(c) PROVE Reached'
  BY <1>5 DEF ClearRead, With, Quiet
<1>6. ASSUME NEW c \in Clients, ClearWrite(c) PROVE Reached'
  BY <1>6 DEF ClearWrite, Quiet
<1>7. CASE VoiceReserve
  BY <1>7 DEF VoiceReserve
<1>8. CASE VoiceReserved
  BY <1>8 DEF VoiceReserved
<1>9. CASE VoiceLive
  BY <1>9 DEF VoiceLive
<1>10. CASE VoiceStops
  BY <1>10 DEF VoiceStops
<1>11. CASE VoiceEnds
  BY <1>11 DEF VoiceEnds
<1>12. ASSUME NEW m \in Models, Pinned(m) PROVE Reached'
  BY <1>12 DEF Pinned
<1>13. CASE Unpinned
  BY <1>13 DEF Unpinned
<1>14. CASE Start
  BY <1>14 DEF Start
<1>15. CASE RequestStop
  BY <1>15 DEF RequestStop
<1>16. CASE ProcessEnds
  BY <1>16 DEF ProcessEnds, Quiet
<1>17. CASE Over
  BY <1>17 DEF Over, vars
<1> QED
  BY <1>1, <1>2, <1>3, <1>4, <1>5, <1>6, <1>7, <1>8, <1>9, <1>10, <1>11, <1>12, <1>13,
     <1>14, <1>15, <1>16, <1>17
     DEF OtherStep, ClientStep, GpuStep, ProcessStep

-----------------------------------------------------------------------------
(* Cancelling.                                                             *)

\* A generation that was told to stop is not saved as done,
LEMMA WorkerDeafened == Staged /\ Picked /\ Saved /\ Reached /\ Deafened /\ WorkerStep => Deafened'
<1> SUFFICES ASSUME Staged, Picked, Saved, Reached, Deafened, WorkerStep PROVE Deafened'
  OBVIOUS
<1> USE JobsAssumption
    DEF Staged, Picked, RunningIsWorkers, Saved, ResultsOnce, Unsaved, Deafened,
        Stopped, CancelWhileGenerating, TypeOK, TableTyped, WorkerTyped, FlagsTyped,
        ClientsTyped, ClientRequest, Statuses, Finished, With, Held, Owning, Reading,
        tableVars, workerVars, flagVars, gpuVars, clientVars
<1>1. CASE FindOrphans
  BY <1>1 DEF FindOrphans
<1>2. CASE AdoptOrphans
  BY <1>2 DEF AdoptOrphans, Die, CanWrite, Table, WriteFails, Written
<1>3. CASE Look
  BY <1>3 DEF Look
<1>4. CASE Choose
  BY <1>4 DEF Choose, Runnable
<1>5. CASE CommitPick
  BY <1>5 DEF CommitPick, Die, CanWrite, Table, WriteFails, Written
<1>6. CASE ClearWakeup
  BY <1>6 DEF ClearWakeup
<1>7. CASE Wake
  BY <1>7 DEF Wake
<1>8. CASE BeginRun
  BY <1>8 DEF BeginRun
<1>9. CASE Acquire
  BY <1>9 DEF Acquire
<1>10. CASE Generate
  BY <1>10 DEF Generate
<1>11. CASE SaveRead
  BY <1>11 DEF SaveRead, Table
<1>12. CASE SaveWrite
  BY <1>12, SaveWriteEffect DEF KeepsText
<1>13. CASE SaveFails
  BY <1>13 DEF SaveFails, Die
<1>14. CASE RequeueRead
  BY <1>14 DEF RequeueRead
<1>15. CASE RequeueWrite
  <2>1. at = "putback" /\ rows \subseteq {job} /\ UNCHANGED <<results, heard>>
    BY <1>15 DEF RequeueWrite
  <2>2. job \notin heard
    BY <2>1
  <2>3. CASE at' = "unwind" /\ status' = Written("queued") /\ UNCHANGED job /\ rows' = {}
               /\ CanWrite
    <3>1. \A j \in Jobs \ {job} : status'[j] = status[j]
      BY <2>1, <2>3 DEF Written
    <3>2. \A j \in Jobs : status'[j] = "none" <=> status[j] = "none"
      BY <2>1, <2>3 DEF Written, CanWrite, Table
    <3>3. \A j \in Jobs : status'[j] = "done" => status[j] = "done"
      BY <2>3 DEF Written
    <3>4. CancelWhileGenerating'
      BY <2>1, <3>2, <3>3
    <3>5. \A j \in heard' : Stopped(j)'
      BY <2>1, <2>2, <2>3, <3>1
    <3> QED
      BY <3>4, <3>5
  <2>4. CASE at' = "dead" /\ UNCHANGED status
    BY <2>1, <2>4
  <2> QED
    BY <1>15, <2>3, <2>4 DEF RequeueWrite, Die
<1>16. CASE Unwind
  BY <1>16 DEF Unwind
<1> QED
  BY <1>1, <1>2, <1>3, <1>4, <1>5, <1>6, <1>7, <1>8, <1>9, <1>10, <1>11, <1>12, <1>13,
     <1>14, <1>15, <1>16
     DEF WorkerStep

\* and a request stops only a generation that has not returned.
LEMMA OtherDeafened == Staged /\ Picked /\ Saved /\ Reached /\ Deafened /\ OtherStep => Deafened'
<1> SUFFICES ASSUME Staged, Picked, Saved, Reached, Deafened, OtherStep PROVE Deafened'
  OBVIOUS
<1> USE JobsAssumption
    DEF Staged, Picked, RunningIsWorkers, Saved, ResultsOnce, Unsaved, Deafened,
        Stopped, CancelWhileGenerating, TypeOK, TableTyped, WorkerTyped, FlagsTyped,
        ClientsTyped, ClientRequest, Statuses, Finished, With, Held, Owning, Reading,
        tableVars, workerVars, flagVars, gpuVars, clientVars
<1>1. ASSUME NEW j \in Jobs, Create(j) PROVE Deafened'
  BY <1>1 DEF Create
<1>2. ASSUME NEW c \in Clients, NEW j \in Jobs, DeleteRead(c, j) PROVE Deafened'
  BY <1>2 DEF DeleteRead, Row, Quiet
<1>0. at = "generate" => /\ job \in Jobs /\ current = job /\ results[job] = 0
                         /\ status[job] \in {"running", "cancelled", "gone"}
                         /\ Follow[job] # None => status[Follow[job]] = "none"
  BY DEF Reached
<1>3. ASSUME NEW c \in Clients, DeleteRunning(c) PROVE Deafened'
  <2>1. UNCHANGED <<tableVars, workerVars>>
    BY <1>3 DEF DeleteRunning
  <2>2. CASE heard' = heard /\ (cancel' = cancel \/ cancel' = TRUE)
    BY <2>1, <2>2
  <2>3. CASE heard' = heard \cup {job} /\ at = "generate" /\ cancel' = TRUE
    BY <1>0, <2>1, <2>3
  <2> QED
    BY <1>0, <1>3, <2>2, <2>3 DEF DeleteRunning
<1>4. ASSUME NEW c \in Clients, DeleteOther(c) PROVE Deafened'
  BY <1>4 DEF DeleteOther, Row, Quiet
<1>5. ASSUME NEW c \in Clients, ClearRead(c) PROVE Deafened'
  BY <1>5 DEF ClearRead, With, Quiet
<1>6. ASSUME NEW c \in Clients, ClearWrite(c) PROVE Deafened'
  BY <1>6 DEF ClearWrite, Quiet
<1>7. CASE VoiceReserve
  BY <1>7 DEF VoiceReserve
<1>8. CASE VoiceReserved
  BY <1>8 DEF VoiceReserved
<1>9. CASE VoiceLive
  BY <1>9 DEF VoiceLive
<1>10. CASE VoiceStops
  BY <1>10 DEF VoiceStops
<1>11. CASE VoiceEnds
  BY <1>11 DEF VoiceEnds
<1>12. ASSUME NEW m \in Models, Pinned(m) PROVE Deafened'
  BY <1>12 DEF Pinned
<1>13. CASE Unpinned
  BY <1>13 DEF Unpinned
<1>14. CASE Start
  BY <1>14 DEF Start
<1>15. CASE RequestStop
  <2>1. UNCHANGED <<tableVars, workerVars>> /\ cancel' = (current # None)
    BY <1>15 DEF RequestStop
  <2>2. CASE heard' = heard /\ at # "generate"
    BY <2>1, <2>2
  <2>3. CASE heard' = heard \cup {job} /\ at = "generate" /\ cancel' = TRUE
    BY <1>0, <2>1, <2>3
  <2> QED
    BY <1>0, <1>15, <2>1, <2>2, <2>3 DEF RequestStop
<1>16. CASE ProcessEnds
  BY <1>16 DEF ProcessEnds, Quiet
<1>17. CASE Over
  BY <1>17 DEF Over, vars
<1> QED
  BY <1>1, <1>2, <1>3, <1>4, <1>5, <1>6, <1>7, <1>8, <1>9, <1>10, <1>11, <1>12, <1>13,
     <1>14, <1>15, <1>16, <1>17
     DEF OtherStep, ClientStep, GpuStep, ProcessStep

-----------------------------------------------------------------------------
(* The layers together.                                                    *)

Safe == Staged /\ Picked /\ Saved /\ Reached /\ Deafened

\* Nothing has been picked, archived or cancelled at first.
LEMMA InitSafe == Init => Safe
<1> SUFFICES ASSUME Init PROVE Safe
  OBVIOUS
<1>1. Staged
  BY InitStaged
<1>2. Picked /\ Saved /\ Reached /\ Deafened
  BY JobsAssumption
     DEF Init, Picked, RunningIsWorkers, Saved, ResultsOnce, Unsaved, Reached, Deafened,
         CancelWhileGenerating, With, Finished, Held, Owning
<1> QED
  BY <1>1, <1>2 DEF Safe

\* The five layers are inductive together.
LEMMA SafeStep == Safe /\ [Next]_vars => Safe'
<1> SUFFICES ASSUME Safe, [Next]_vars PROVE Safe'
  OBVIOUS
<1>1. Staged'
  BY StagedStep DEF Safe
<1>2. CASE UNCHANGED vars
  BY <1>1, <1>2
     DEF Safe, vars, tableVars, workerVars, flagVars, gpuVars, clientVars, Picked,
         RunningIsWorkers, Saved, ResultsOnce, Unsaved, Reached, Deafened, Stopped,
         CancelWhileGenerating, With
<1>3. CASE WorkerStep
  BY <1>1, <1>3, WorkerPicked, WorkerSaved, WorkerReached, WorkerDeafened DEF Safe
<1>4. CASE OtherStep
  BY <1>1, <1>4, OtherPicked, OtherSaved, OtherReached, OtherDeafened DEF Safe
<1> QED
  BY <1>2, <1>3, <1>4 DEF Next, OtherStep

\* They always hold.
LEMMA SafeInvariant == Spec => []Safe
  BY InitSafe, SafeStep, PTL DEF Spec

\* A row is marked running only for the job the worker holds, except until the
\* next process has adopted the rows of one that died: the blind writes of
\* _requeue, cancel_job and clear_finished never leave a second running row.
THEOREM OneRunningRow == Spec => []RunningIsWorkers
<1>1. Safe => RunningIsWorkers
  BY DEF Safe, Picked
<1> QED
  BY <1>1, SafeInvariant, PTL

\* A result is stored once, with the status of its job and with the job of its tool
\* call, through any number of crashes and requeues.
THEOREM ResultsArchivedOnce == Spec => []ResultsOnce
<1>1. Safe => ResultsOnce
  BY DEF Safe, Saved
<1> QED
  BY <1>1, SafeInvariant, PTL

\* A generation whose cancel flag was set before it returned never counts as done: it
\* archives no image or video, leaves at most the text of a reply, and queues no tool
\* call, in this process and after any restarts, unless the next process found its
\* job still running and generates it anew.
THEOREM CancelledArchivesNothing == Spec => []CancelWhileGenerating
<1>1. Safe => CancelWhileGenerating
  BY DEF Safe, Deafened
<1> QED
  BY <1>1, SafeInvariant, PTL

-----------------------------------------------------------------------------
(* The abstract specification.                                             *)

\* A step of the abstract specification, or none.
Legal == [Life!Next]_(Life!vars)

\* A step that leaves the rows and the results alone is none of the abstract one's.
LEMMA Unseen ==
  ASSUME UNCHANGED tableVars
  PROVE  Legal
  BY DEF Legal, Life!vars, tableVars

\* The results, as a set, stay when none is archived.
LEMMA ArchivedKept ==
  ASSUME UNCHANGED results
  PROVE  {j \in Jobs : results'[j] > 0} = {j \in Jobs : results[j] > 0}
  OBVIOUS

\* Each commit of the worker is one step in the life of the rows that it writes:
\* the adoption of orphans and a requeue are Requeue, a pick is Begin, a save is
\* Archive, Fail or Stop.
LEMMA WorkerLegal == Safe /\ WorkerStep => Legal
<1> SUFFICES ASSUME Safe, WorkerStep PROVE Legal
  OBVIOUS
<1> USE JobsAssumption
    DEF Safe, Staged, TypeOK, TableTyped, WorkerTyped, Statuses, Finished, Held, Owning
<1>0. CASE UNCHANGED tableVars
  BY <1>0, Unseen
<1>1. ASSUME CanWrite, status' = Written("queued"), UNCHANGED results,
             \A j \in rows : status[j] \in {"running", "cancelled", "gone"} /\ results[j] = 0
      PROVE  Legal
  <2>1. \A j \in rows : status[j] \in {"running", "cancelled"} /\ ~(results[j] > 0)
    BY <1>1 DEF CanWrite, Table, With
  <2>2. Life!Requeue
    BY <1>1, <2>1, ArchivedKept DEF Life!Requeue, Written
  <2> QED
    BY <2>2 DEF Legal, Life!Next
<1>2. CASE AdoptOrphans
  <2>1. CASE UNCHANGED status
    BY <1>2, <2>1, Unseen DEF AdoptOrphans, tableVars
  <2>2. CASE CanWrite /\ status' = Written("queued")
    <3>1. \A j \in rows : status[j] \in {"running", "cancelled", "gone"} /\ results[j] = 0
      BY <1>2 DEF AdoptOrphans, Reached, Saved, Unsaved
    <3> QED
      BY <1>1, <1>2, <2>2, <3>1 DEF AdoptOrphans
  <2> QED
    BY <1>2, <2>1, <2>2 DEF AdoptOrphans
<1>3. CASE CommitPick
  <2>1. CASE UNCHANGED status
    BY <1>3, <2>1, Unseen DEF CommitPick, tableVars
  <2>2. CASE CanWrite /\ status' = Written("running")
    <3>1. at = "commit" /\ rows = {job} /\ job \in Jobs /\ UNCHANGED results
      BY <1>3 DEF CommitPick
    <3>2. status[job] \in {"queued", "cancelled"} /\ ~(results[job] > 0)
      BY <2>2, <3>1 DEF CanWrite, Table, With, Reached, Saved, Unsaved
    <3>3. \A i \in Jobs : status[i] # "running"
      BY <3>1, <3>2 DEF Picked, RunningIsWorkers, With
    <3>4. status' = [status EXCEPT ![job] = "running"]
      BY <2>2, <3>1 DEF Written
    <3>5. Life!Begin(job)
      BY <3>1, <3>2, <3>3, <3>4, ArchivedKept DEF Life!Begin, Life!Become
    <3> QED
      BY <3>1, <3>5 DEF Legal, Life!Next
  <2> QED
    BY <1>3, <2>1, <2>2 DEF CommitPick
<1>4. CASE SaveWrite
  <2>1. /\ at = "write" /\ job \in Jobs /\ results[job] = 0 /\ verdict \in Finished
        /\ \A j \in Jobs :
             \/ results'[j] = IF j = job /\ verdict = "done" THEN 1 ELSE results[j]
             \/ j = job /\ KeepsText /\ results'[j] = 1
    BY <1>4, SaveWriteEffect
  <2>2. status[job] \in {"running", "cancelled", "gone"} /\ ~(results[job] > 0)
    BY <2>1 DEF Reached
  <2>3. job \notin rows <=> status[job] = "gone"
    BY <1>4, <2>1 DEF SaveWrite, CanWrite, Table, With, Picked
  <2> DEFINE s == IF status[job] = "gone" THEN "gone" ELSE verdict
  <2>4. Written(verdict) = [status EXCEPT ![job] = s]
    BY <2>1, <2>2, <2>3 DEF Written
  <2>5. CASE verdict = "done"
    <3>1. {j \in Jobs : results'[j] > 0} = {j \in Jobs : results[j] > 0} \cup {job}
      BY <2>1, <2>5 DEF KeepsText
    <3>2. Written(verdict) = [status EXCEPT ![job] = IF @ = "gone" THEN @ ELSE "done"]
      BY <2>1, <2>4, <2>5
    <3>3. \/ status' = Written(verdict)
          \/ \E k \in {Follow[job]} \ {None} :
               status[k] = "none" /\ status' = [Written(verdict) EXCEPT ![k] = "queued"]
      BY <1>4 DEF SaveWrite
    <3>4. PICK j \in Jobs : j = job
      BY <2>1
    <3>5. Life!Archive(j)
      BY <2>1, <2>2, <3>1, <3>2, <3>3, <3>4 DEF Life!Archive, Life!Unfinished, Life!Done
    <3> QED
      BY <3>5 DEF Legal, Life!Next
  <2>6. CASE verdict # "done"
    <3>1. status' = [status EXCEPT ![job] = s]
      BY <1>4, <2>4, <2>6 DEF SaveWrite
    <3>2. CASE verdict = "error"
      <4>1. {j \in Jobs : results'[j] > 0} = {j \in Jobs : results[j] > 0}
        BY <2>1, <3>2 DEF KeepsText
      <4>2. PICK j \in Jobs : j = job
        BY <2>1
      <4>3. Life!Fail(j)
        BY <2>1, <2>2, <3>1, <3>2, <4>1, <4>2 DEF Life!Fail, Life!Unfinished, Life!Become
      <4> QED
        BY <4>3 DEF Legal, Life!Next
    <3>3. CASE verdict = "cancelled"
      <4>1. {j \in Jobs : results'[j] > 0} \in
              {{j \in Jobs : results[j] > 0}, {j \in Jobs : results[j] > 0} \cup {job}}
        BY <2>1, <3>3
      <4>2. PICK j \in Jobs : j = job
        BY <2>1
      <4>3. Life!Stop(j)
        BY <2>1, <2>2, <3>1, <3>3, <4>1, <4>2 DEF Life!Stop, Life!Unfinished, Life!Become
      <4> QED
        BY <4>3 DEF Legal, Life!Next
    <3> QED
      BY <2>1, <2>6, <3>2, <3>3
  <2> QED
    BY <2>5, <2>6
<1>5. CASE RequeueWrite
  <2>1. CASE UNCHANGED status
    BY <1>5, <2>1, Unseen DEF RequeueWrite, tableVars
  <2>2. CASE CanWrite /\ status' = Written("queued")
    <3>1. \A j \in rows : status[j] \in {"running", "cancelled", "gone"} /\ results[j] = 0
      BY <1>5 DEF RequeueWrite, Reached, Saved, Unsaved
    <3> QED
      BY <1>1, <1>5, <2>2, <3>1 DEF RequeueWrite
  <2> QED
    BY <1>5, <2>1, <2>2 DEF RequeueWrite
<1> QED
  BY <1>0, <1>2, <1>3, <1>4, <1>5
     DEF WorkerStep, FindOrphans, Look, Choose, ClearWakeup, Wake, BeginRun, Acquire,
         Generate, SaveRead, SaveFails, RequeueRead, Unwind, tableVars

\* A request's write is one step too: Submit, Cancel or Clear.
LEMMA OtherLegal == Safe /\ OtherStep => Legal
<1> SUFFICES ASSUME Safe, OtherStep PROVE Legal
  OBVIOUS
<1> USE JobsAssumption
    DEF Safe, Staged, TypeOK, TableTyped, ClientsTyped, ClientRequest, Statuses, Finished
<1>0. CASE UNCHANGED tableVars
  BY <1>0, Unseen
<1>1. ASSUME NEW j \in Jobs, Create(j) PROVE Legal
  <2>1. Life!Submit(j)
    BY <1>1, ArchivedKept DEF Create, Life!Submit, Life!Become
  <2> QED
    BY <2>1 DEF Legal, Life!Next
<1>2. ASSUME NEW c \in Clients, DeleteOther(c) PROVE Legal
  <2>1. CASE UNCHANGED status
    BY <1>2, <2>1, Unseen DEF DeleteOther, tableVars
  <2>2. CASE Row(req[c].job) /\ status' = [status EXCEPT ![req[c].job] = "cancelled"]
    <3>1. req[c].job \in Jobs /\ UNCHANGED results
      BY <1>2 DEF DeleteOther
    <3>2. Life!Cancel(req[c].job)
      BY <2>2, <3>1, ArchivedKept DEF Row, Life!Cancel, Life!Become
    <3> QED
      BY <3>1, <3>2 DEF Legal, Life!Next
  <2> QED
    BY <1>2, <2>1, <2>2 DEF DeleteOther
<1>3. ASSUME NEW c \in Clients, ClearWrite(c) PROVE Legal
  <2>1. req[c].rows \in SUBSET Jobs /\ \A j \in req[c].rows : status[j] # "none"
    OBVIOUS
  <2>2. Life!Clear
    BY <1>3, <2>1, ArchivedKept DEF ClearWrite, Life!Clear
  <2> QED
    BY <2>2 DEF Legal, Life!Next
<1> QED
  BY <1>0, <1>1, <1>2, <1>3
     DEF OtherStep, ClientStep, GpuStep, ProcessStep, DeleteRead, DeleteRunning, ClearRead,
         VoiceReserve, VoiceReserved, VoiceLive, VoiceStops, VoiceEnds, Pinned, Unpinned,
         Start, RequestStop, ProcessEnds, Over, vars, tableVars

\* The queue keeps its promise for any jobs, requests, failures and restarts: every
\* step of it maps to a step of JobLife or to none.  One job runs at a time, and a
\* job of which a result is stored is never run again, requeued or marked as failed,
\* whatever row was overwritten between a read and a write.
THEOREM JobLifeImplemented == Spec => ImplementsJobLife
<1>1. Init => Life!Init
  BY DEF Init, Life!Init
<1>2. Safe /\ [Next]_vars => [Life!Next]_(Life!vars)
  <2>1. CASE UNCHANGED vars
    BY <2>1, Unseen DEF Legal, vars
  <2> QED
    BY <2>1, WorkerLegal, OtherLegal DEF Legal, Next, OtherStep
<1> QED
  BY <1>1, <1>2, SafeInvariant, PTL DEF Spec, ImplementsJobLife, Life!Spec
=============================================================================
