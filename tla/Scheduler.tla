----------------------------- MODULE Scheduler -----------------------------
(***************************************************************************)
(* The job queue: rows of the jobs table, the one Worker that runs them    *)
(* (backend/app/core/scheduler.py, job_results.py) and the endpoints that  *)
(* change them meanwhile (api/jobs.py, services/queue_service.py).         *)
(* Every session reads rows, suspends, and later writes them by primary    *)
(* key; SQLite takes no lock for the read and the UPDATE has no WHERE on   *)
(* the old status, so the last writer wins.  A read and a write are steps  *)
(* of their own here, and so is every await between them.  Which row is    *)
(* picked among the runnable ones is left open.                            *)
(***************************************************************************)
EXTENDS FiniteSets, Naturals

CONSTANTS
  Jobs,      \* job ids
  Submitted, \* those the API creates; the others are queued by tool calls
  Chats,     \* those of a language model
  Follow,    \* the job that a job's tool call may queue, or None
  Models,
  ModelOf,   \* model each job needs
  Clients,   \* concurrent DELETE and clear requests
  DbFails,   \* TRUE: a transaction of the worker may fail
  MaxStarts, \* bound: how often the process is started
  None

ASSUME JobsAssumption ==
  /\ None \notin Jobs \cup Models
  /\ Submitted \subseteq Jobs /\ Chats \subseteq Jobs
  /\ Follow \in [Jobs -> (Jobs \ Submitted) \cup {None}]
  /\ \A i, j \in Jobs : Follow[i] = Follow[j] /\ Follow[i] # None => i = j
  /\ ModelOf \in [Jobs -> Models]
  /\ DbFails \in BOOLEAN /\ MaxStarts \in Nat

VARIABLES
  status,  \* Job.status, "none" before the row exists and "gone" after
  results, \* how often a result of the job was stored: images, a video, a text, or
           \* the text that a cancelled language model had come to
  at,      \* where the worker task is suspended
  job,     \* snapshot.id: the job it has picked
  rows,    \* rows its current transaction has read
  verdict, \* what it is about to save
  caught,  \* a failure of that save is still caught by _run
  current, \* _current_job_id
  cancel,  \* _cancel_current
  wakeup,  \* _wakeup is set
  up,      \* _running
  voice,   \* voice session: off, reserving (holds the arbiter's lock), reserved,
           \* live, and stopped while its lane is still reserved
  pin,     \* pinned model
  req,     \* request of each client
  told,    \* jobs that a DELETE found running, before their generation had ended
  heard,   \* those whose generation was told to stop, until a later process finds
           \* one still running and queues it for another
  starts   \* how often the process was started

tableVars == <<status, results>>
workerVars == <<at, job, rows, verdict, caught>>
flagVars == <<current, cancel, wakeup, up>>
gpuVars == <<voice, pin>>
clientVars == <<req, told, heard>>
vars == <<tableVars, workerVars, flagVars, gpuVars, clientVars, starts>>

Quiet == [kind |-> "idle", job |-> None, seen |-> "none", rows |-> {}]

Init ==
  /\ status = [j \in Jobs |-> "none"] /\ results = [j \in Jobs |-> 0]
  /\ at = "off" /\ job = None /\ rows = {} /\ verdict = "none" /\ caught = FALSE
  /\ current = None /\ cancel = FALSE /\ wakeup = FALSE /\ up = FALSE
  /\ voice = "off" /\ pin = None
  /\ req = [c \in Clients |-> Quiet] /\ told = {} /\ heard = {}
  /\ starts = 0

-----------------------------------------------------------------------------
(* Rows                                                                    *)

Finished == {"done", "error", "cancelled"}
With(s) == {j \in Jobs : status[j] \in s}
Row(j) == status[j] \notin {"none", "gone"}
Table == With({"queued", "running"} \cup Finished)

\* An UPDATE of a row that is gone raises StaleDataError.
CanWrite == rows \subseteq Table
WriteFails == DbFails \/ ~CanWrite

Written(s) == [j \in Jobs |-> IF j \in rows THEN s ELSE status[j]]

-----------------------------------------------------------------------------
(* Worker._loop, _requeue_orphans and _pick_next                           *)

\* Nothing restarts the worker task when an exception ends it.
Die ==
  /\ at' = "dead" /\ job' = None /\ rows' = {}
  /\ verdict' = "none" /\ caught' = FALSE

FindOrphans ==
  /\ at = "orphans"
  /\ rows' = With({"running"})
  /\ at' = "adopt"
  /\ UNCHANGED <<tableVars, job, verdict, caught, flagVars, gpuVars, clientVars, starts>>

\* Mutant: the orphans of the last process keep their status.
AdoptNothing ==
  /\ at = "adopt"
  /\ at' = "look" /\ rows' = {}
  /\ UNCHANGED <<tableVars, job, verdict, caught, flagVars, gpuVars, clientVars, starts>>

AdoptOrphans ==
  /\ at = "adopt"
  /\ \/ /\ CanWrite
        /\ status' = Written("queued") /\ heard' = heard \ rows
        /\ at' = "look" /\ rows' = {}
        /\ UNCHANGED <<job, verdict, caught>>
     \/ WriteFails /\ Die /\ UNCHANGED <<status, heard>>
  /\ UNCHANGED <<results, flagVars, gpuVars, req, told, starts>>

Reserved == {"reserved", "live", "stopped"}

\* The voice guard is read and _wakeup cleared without a suspension.
Look ==
  /\ at = "look"
  /\ IF ~up
     THEN at' = "ended" /\ UNCHANGED <<rows, wakeup>>
     ELSE IF voice \in Reserved
     THEN at' = "wait" /\ wakeup' = FALSE /\ UNCHANGED rows
     ELSE \/ at' = "choose" /\ rows' = With({"queued"}) /\ UNCHANGED wakeup
          \/ DbFails /\ at' = "dead" /\ UNCHANGED <<rows, wakeup>>
  /\ UNCHANGED <<tableVars, job, verdict, caught, current, cancel, up, gpuVars,
                 clientVars, starts>>

Runnable == {j \in rows : pin # None => ModelOf[j] = pin}

Choose ==
  /\ at = "choose"
  /\ \/ \E j \in Runnable : job' = j /\ rows' = {j} /\ at' = "commit"
     \/ Runnable = {} /\ at' = "clear" /\ rows' = {} /\ UNCHANGED job
  /\ UNCHANGED <<tableVars, verdict, caught, flagVars, gpuVars, clientVars, starts>>

CommitPick ==
  /\ at = "commit"
  /\ \/ /\ CanWrite
        /\ status' = Written("running")
        /\ at' = "begin" /\ rows' = {}
        /\ UNCHANGED <<job, verdict, caught>>
     \/ WriteFails /\ Die /\ UNCHANGED status
  /\ UNCHANGED <<results, flagVars, gpuVars, clientVars, starts>>

\* The empty transaction has ended: a notify() since its SELECT is wiped out.
ClearWakeup ==
  /\ at = "clear"
  /\ wakeup' = FALSE
  /\ at' = "wait"
  /\ UNCHANGED <<tableVars, job, rows, verdict, caught, current, cancel, up, gpuVars,
                 clientVars, starts>>

\* Mutant: the wait has no timeout.
WakeWhenNotified ==
  /\ at = "wait" /\ wakeup
  /\ at' = "look"
  /\ UNCHANGED <<tableVars, job, rows, verdict, caught, flagVars, gpuVars, clientVars,
                 starts>>

\* wait_for(_wakeup.wait(), timeout=2.0): the event or two seconds.
Wake ==
  /\ at = "wait"
  /\ at' = "look"
  /\ UNCHANGED <<tableVars, job, rows, verdict, caught, flagVars, gpuVars, clientVars,
                 starts>>

-----------------------------------------------------------------------------
(* Worker._run                                                             *)

BeginRun ==
  /\ at = "begin"
  /\ current' = job /\ cancel' = FALSE
  /\ at' = IF voice = "live" THEN "requeue" ELSE "acquire"
  /\ UNCHANGED <<tableVars, job, rows, verdict, caught, wakeup, up, gpuVars, clientVars,
                 starts>>

\* get_backend and arbiter.acquire, which waits for the arbiter's lock.
Acquire ==
  /\ at = "acquire" /\ voice # "reserving"
  /\ \/ voice = "off" /\ at' = "generate" /\ UNCHANGED <<verdict, caught>>
     \/ /\ voice # "off" \/ (pin # None /\ ModelOf[job] # pin)
        /\ at' = "requeue" /\ UNCHANGED <<verdict, caught>>
     \/ at' = "save" /\ verdict' = "error" /\ caught' = FALSE
  /\ UNCHANGED <<tableVars, job, rows, flagVars, gpuVars, clientVars, starts>>

\* Mutant: the flag is not looked at when the backend returns.
GenerateDeaf ==
  /\ at = "generate"
  /\ at' = "save"
  /\ \/ verdict' = "done" /\ caught' = TRUE
     \/ cancel /\ verdict' = "cancelled" /\ caught' = FALSE
     \/ verdict' = "error" /\ caught' = FALSE
  /\ UNCHANGED <<tableVars, job, rows, flagVars, gpuVars, clientVars, starts>>

\* The backend returns, raises GenerationCancelled, or raises something else.
Generate ==
  /\ at = "generate"
  /\ at' = "save"
  /\ \/ verdict' = (IF cancel THEN "cancelled" ELSE "done") /\ caught' = TRUE
     \/ cancel /\ verdict' = "cancelled" /\ caught' = FALSE
     \/ verdict' = "error" /\ caught' = FALSE
  /\ UNCHANGED <<tableVars, job, rows, flagVars, gpuVars, clientVars, starts>>

\* Mutant: images are archived in a transaction of their own.
ArchiveFirst ==
  /\ at = "save"
  /\ rows' = {job} \cap Table
  /\ at' = "write"
  /\ results' = IF verdict = "done" THEN [results EXCEPT ![job] = @ + 1] ELSE results
  /\ UNCHANGED <<status, job, verdict, caught, flagVars, gpuVars, clientVars, starts>>

\* finish_image, finish_video, finish_llm, mark_cancelled and fail: session.get
SaveRead ==
  /\ at = "save"
  /\ rows' = {job} \cap Table
  /\ at' = "write"
  /\ UNCHANGED <<tableVars, job, verdict, caught, flagVars, gpuVars, clientVars, starts>>

\* Of a language model that returned although its flag was set, mark_cancelled
\* keeps the text, when there is any.
KeepsText == verdict = "cancelled" /\ caught /\ job \in Chats
Stored == IF verdict = "done" THEN {1} ELSE IF KeepsText THEN {0, 1} ELSE {0}

\* ... and commit: the result, the status and the tool call's job together.
SaveWrite ==
  /\ at = "write" /\ CanWrite
  /\ at' = "unwind" /\ rows' = {}
  /\ \/ status' = Written(verdict) /\ UNCHANGED wakeup
     \/ /\ verdict = "done" /\ Follow[job] # None /\ status[Follow[job]] = "none"
        /\ status' = [Written(verdict) EXCEPT ![Follow[job]] = "queued"]
        /\ wakeup' = TRUE
  /\ \E n \in Stored : results' = [results EXCEPT ![job] = @ + n]
  /\ UNCHANGED <<job, verdict, caught, current, cancel, up, gpuVars, clientVars, starts>>

\* Mutant: a save that fails leaves its result behind.
SaveFailsArchived ==
  /\ at = "write" /\ WriteFails
  /\ IF caught
     THEN /\ at' = "save" /\ verdict' = "error" /\ caught' = FALSE /\ rows' = {}
          /\ results' = [results EXCEPT ![job] = IF verdict = "done" THEN @ + 1 ELSE @]
          /\ UNCHANGED <<status, job, current, cancel>>
     ELSE Die /\ current' = None /\ cancel' = FALSE /\ UNCHANGED tableVars
  /\ UNCHANGED <<wakeup, up, gpuVars, clientVars, starts>>

\* A save that fails inside the try block becomes an error; one that fails in
\* an except clause ends the worker, after the finally block.
SaveFails ==
  /\ at = "write" /\ WriteFails
  /\ IF caught
     THEN /\ at' = "save" /\ verdict' = "error" /\ caught' = FALSE /\ rows' = {}
          /\ UNCHANGED <<job, current, cancel>>
     ELSE Die /\ current' = None /\ cancel' = FALSE
  /\ UNCHANGED <<tableVars, wakeup, up, gpuVars, clientVars, starts>>

RequeueRead ==
  /\ at = "requeue"
  /\ rows' = {job} \cap With({"running"})
  /\ at' = "putback"
  /\ UNCHANGED <<tableVars, job, verdict, caught, flagVars, gpuVars, clientVars, starts>>

\* On a failure _current_job_id is reset only when acquire was the caller.
RequeueWrite ==
  /\ at = "putback"
  /\ \/ /\ CanWrite
        /\ status' = Written("queued")
        /\ at' = "unwind" /\ rows' = {}
        /\ UNCHANGED <<job, verdict, caught, current, cancel>>
     \/ /\ WriteFails /\ Die
        /\ current' \in {current, None} /\ cancel' \in {cancel, FALSE}
        /\ UNCHANGED status
  /\ UNCHANGED <<results, wakeup, up, gpuVars, clientVars, starts>>

\* record_profile, after_job and release: their failures are only logged.
Unwind ==
  /\ at = "unwind"
  /\ current' = None /\ cancel' = FALSE
  /\ at' = "look" /\ job' = None /\ verdict' = "none" /\ caught' = FALSE
  /\ told' = told \cap With({"queued", "running"})
  /\ UNCHANGED <<tableVars, rows, wakeup, up, gpuVars, req, heard, starts>>

-----------------------------------------------------------------------------
(* Process                                                                 *)

Start ==
  /\ at = "off" /\ starts < MaxStarts
  /\ at' = "orphans" /\ up' = TRUE
  /\ starts' = starts + 1
  /\ UNCHANGED <<tableVars, job, rows, verdict, caught, current, cancel, wakeup, gpuVars,
                 clientVars>>

\* The lifespan's shutdown: the server has drained its requests.
RequestStop ==
  /\ up /\ req = [c \in Clients |-> Quiet]
  /\ up' = FALSE /\ cancel' = (current # None) /\ wakeup' = TRUE
  /\ heard' = IF current # None /\ at = "generate" THEN heard \cup {current} ELSE heard
  /\ UNCHANGED <<tableVars, workerVars, current, gpuVars, req, told, starts>>

\* A crash, or the end of a shutdown, which cancels a worker that takes too
\* long.  Only the table is left; what was told to stop and had not ended by then
\* is still marked running in it.
ProcessEnds ==
  /\ at # "off"
  /\ at' = "off" /\ job' = None /\ rows' = {} /\ verdict' = "none" /\ caught' = FALSE
  /\ current' = None /\ cancel' = FALSE /\ wakeup' = FALSE /\ up' = FALSE
  /\ voice' = "off" /\ pin' = None
  /\ req' = [c \in Clients |-> Quiet]
  /\ UNCHANGED <<tableVars, told, heard, starts>>

-----------------------------------------------------------------------------
(* Requests                                                                *)

\* notify() follows the commit without a suspension; a batch created during a
\* voice session does not notify.
Create(j) ==
  /\ up /\ j \in Submitted /\ status[j] = "none"
  /\ status' = [status EXCEPT ![j] = "queued"]
  /\ wakeup' = TRUE \/ (voice = "live" /\ UNCHANGED wakeup)
  /\ UNCHANGED <<results, workerVars, current, cancel, up, gpuVars, clientVars, starts>>

DeleteRead(c, j) ==
  /\ up /\ req[c] = Quiet /\ Row(j)
  /\ req' = [req EXCEPT ![c] =
       [kind |-> "delete", job |-> j, seen |-> status[j], rows |-> {j}]]
  /\ UNCHANGED <<tableVars, workerVars, flagVars, gpuVars, told, heard, starts>>

Ending(j) == status[j] # "running" \/ at \in {"save", "write", "unwind"}

\* The row was running: worker.cancel_running, whose result is not looked at.
DeleteRunning(c) ==
  /\ req[c].kind = "delete" /\ req[c].seen = "running"
  /\ told' = IF Ending(req[c].job) THEN told ELSE told \cup {req[c].job}
  /\ IF current = req[c].job
     THEN /\ cancel' = TRUE
          /\ heard' = IF at = "generate" THEN heard \cup {current} ELSE heard
     ELSE UNCHANGED <<cancel, heard>>
  /\ req' = [req EXCEPT ![c] = Quiet]
  /\ UNCHANGED <<tableVars, workerVars, current, wakeup, up, gpuVars, starts>>

\* It was queued: cancel_job gets the same object from the session, status
\* included, and the commit overwrites whatever the row holds by now.
DeleteOther(c) ==
  /\ req[c].kind = "delete" /\ req[c].seen # "running"
  /\ IF req[c].seen = "queued" /\ Row(req[c].job)
     THEN status' = [status EXCEPT ![req[c].job] = "cancelled"]
     ELSE UNCHANGED status
  /\ req' = [req EXCEPT ![c] = Quiet]
  /\ UNCHANGED <<results, workerVars, flagVars, gpuVars, told, heard, starts>>

ClearRead(c) ==
  /\ up /\ req[c] = Quiet
  /\ req' = [req EXCEPT ![c] =
       [kind |-> "clear", job |-> None, seen |-> "none", rows |-> With(Finished)]]
  /\ UNCHANGED <<tableVars, workerVars, flagVars, gpuVars, told, heard, starts>>

ClearWrite(c) ==
  /\ req[c].kind = "clear"
  /\ status' = [j \in Jobs |-> IF j \in req[c].rows THEN "gone" ELSE status[j]]
  /\ req' = [req EXCEPT ![c] = Quiet]
  /\ UNCHANGED <<results, workerVars, flagVars, gpuVars, told, heard, starts>>

-----------------------------------------------------------------------------
(* The voice session and the pin, as the worker meets them: Arbiter says   *)
(* why they can change only then.                                          *)

VoiceReserve ==
  /\ up /\ voice = "off" /\ current = None /\ pin = None
  /\ voice' = "reserving"
  /\ UNCHANGED <<tableVars, workerVars, flagVars, pin, clientVars, starts>>

VoiceReserved ==
  /\ voice = "reserving"
  /\ voice' = "reserved"
  /\ UNCHANGED <<tableVars, workerVars, flagVars, pin, clientVars, starts>>

VoiceLive ==
  /\ voice = "reserved"
  /\ voice' = "live"
  /\ UNCHANGED <<tableVars, workerVars, flagVars, pin, clientVars, starts>>

VoiceStops ==
  /\ voice = "live"
  /\ voice' = "stopped"
  /\ UNCHANGED <<tableVars, workerVars, flagVars, pin, clientVars, starts>>

\* deactivate_lane, or rollback_lane when the session could not start.
VoiceEnds ==
  /\ voice \in {"reserved", "stopped"}
  /\ voice' = "off" /\ wakeup' = TRUE
  /\ UNCHANGED <<tableVars, workerVars, current, cancel, up, pin, clientVars, starts>>

Pinned(m) ==
  /\ up /\ voice = "off" /\ pin = None
  /\ at \in {"generate", "save", "write", "unwind"} => m = ModelOf[job]
  /\ pin' = m
  /\ UNCHANGED <<tableVars, workerVars, flagVars, voice, clientVars, starts>>

Unpinned ==
  /\ pin # None
  /\ pin' = None
  /\ UNCHANGED <<tableVars, workerVars, flagVars, voice, clientVars, starts>>

-----------------------------------------------------------------------------
WorkerStep ==
  \/ FindOrphans \/ AdoptOrphans \/ Look \/ Choose \/ CommitPick \/ ClearWakeup \/ Wake
  \/ BeginRun \/ Acquire \/ Generate \/ SaveRead \/ SaveWrite \/ SaveFails
  \/ RequeueRead \/ RequeueWrite \/ Unwind

ClientStep ==
  \/ \E j \in Jobs : Create(j)
  \/ \E c \in Clients, j \in Jobs : DeleteRead(c, j)
  \/ \E c \in Clients :
       DeleteRunning(c) \/ DeleteOther(c) \/ ClearRead(c) \/ ClearWrite(c)

GpuStep ==
  \/ VoiceReserve \/ VoiceReserved \/ VoiceLive \/ VoiceStops \/ VoiceEnds
  \/ (\E m \in Models : Pinned(m)) \/ Unpinned

ProcessStep == Start \/ RequestStop \/ ProcessEnds

Over == at = "off" /\ starts = MaxStarts /\ UNCHANGED vars

Next == WorkerStep \/ ClientStep \/ GpuStep \/ ProcessStep \/ Over

Spec == Init /\ [][Next]_vars

\* The event loop resumes a task whose await has ended; backend calls, database
\* calls and the voice reservation's unloads are bounded.
FairSpec == Spec /\ WF_vars(WorkerStep) /\ WF_vars(VoiceReserved)

-----------------------------------------------------------------------------
(* Properties                                                              *)

Statuses == {"none", "queued", "running", "gone"} \cup Finished

ClientRequest ==
  [kind : {"idle", "delete", "clear"}, job : Jobs \cup {None},
   seen : {"none", "queued", "running"} \cup Finished, rows : SUBSET Jobs]

TableTyped == status \in [Jobs -> Statuses] /\ results \in [Jobs -> Nat]
WorkerTyped ==
  /\ at \in {"off", "orphans", "adopt", "look", "choose", "commit", "clear", "wait",
             "begin", "acquire", "generate", "save", "write", "requeue", "putback",
             "unwind", "ended", "dead"}
  /\ job \in Jobs \cup {None} /\ rows \subseteq Jobs
  /\ verdict \in {"none"} \cup Finished /\ caught \in BOOLEAN
FlagsTyped ==
  /\ current \in Jobs \cup {None} /\ cancel \in BOOLEAN
  /\ wakeup \in BOOLEAN /\ up \in BOOLEAN
ClientsTyped ==
  req \in [Clients -> ClientRequest] /\ told \subseteq Jobs /\ heard \subseteq Jobs

\* Every row, attribute and request keeps its type.
TypeOK ==
  /\ TableTyped /\ WorkerTyped /\ FlagsTyped /\ ClientsTyped
  /\ voice \in {"off", "reserving"} \cup Reserved /\ pin \in Models \cup {None}
  /\ starts \in Nat

\* A row is marked running only for the job the worker holds, or until the next
\* worker has adopted the orphans of a process that died: two rows never run at
\* once, whatever was deleted, overwritten or lost in between.
RunningIsWorkers ==
  \A j \in With({"running"}) : j = job \/ at \in {"off", "orphans", "adopt", "dead"}

\* "orphan requeue on restart": a job that is run again has stored nothing, so a
\* result is stored at most once; it is stored together with the status and with
\* the job its tool call asks for.
ResultsOnce ==
  \A j \in Jobs :
    /\ results[j] <= 1
    /\ status[j] = "done" => results[j] = 1
    /\ Follow[j] # None /\ status[Follow[j]] # "none" => results[j] = 1

\* A generation that was told to stop, by a DELETE or by the shutdown, never counts
\* as done, even if it had already finished when the flag was set: it archives no
\* image or video, a reply leaves at most its text (mark_cancelled), and no tool
\* call of it is followed.  This holds for as long as the job exists, over
\* restarts, but for a job that the process left before it had ended: the next
\* process takes it for an orphan and generates it anew.
CancelWhileGenerating ==
  \A j \in heard :
    /\ status[j] # "done" /\ (results[j] > 0 => j \in Chats)
    /\ Follow[j] # None => status[Follow[j]] = "none"

\* "signal the worker to abort it; the worker marks it CANCELLED" (cancel_job):
\* a job whose DELETE found it running, with its generation still to end, does
\* not end as done.
NeverDoneOnceTold == \A j \in told : status'[j] # "done" \/ status[j] = "done"
CancelHonoured == [][NeverDoneOnceTold]_vars

\* The life of the jobs, as the abstract specification sees it.
Life == INSTANCE JobLife WITH
  life <- status,
  stored <- {j \in Jobs : results[j] > 0}

\* Every step of the worker and of the requests, with the rows they read before
\* others wrote them, with crashes and with transactions that fail, is a legal
\* step of the jobs' lives: one job runs at a time, and a job of which a result is
\* stored, a cancelled reply's text too, is not run again, requeued or reported as
\* failed.
ImplementsJobLife == Life!Spec

\* What keeps the queue from moving.
Parked == voice # "off" \/ pin # None \/ ~up \/ at = "dead"

\* The queue is worked off, unless the voice session, a pin or the end of the
\* worker keeps it: a notify() lost between the SELECT and the clear of the
\* event delays a job, and neither a failed transaction nor a job that requeues
\* itself strands the others.
QueueMoves ==
  (\E j \in Jobs : status[j] = "queued") ~> (\A j \in Jobs : status[j] # "queued") \/ Parked
=============================================================================
