------------------------------ MODULE Lifespan ------------------------------
(***************************************************************************)
(* Start and stop of the application (lifespan of main.py): the steps of   *)
(* the start, and the phases of the stop, each of which may fail or run    *)
(* out of its time while jobs and requests still run.                      *)
(*                                                                         *)
(* Of the GPU there is what uses it: the voice session, a job, and the     *)
(* servers of the embedding service and of the resident model, which are   *)
(* processes of their own and outlive this one.                            *)
(***************************************************************************)
EXTENDS Integers, Sequences, FiniteSets

CONSTANTS
  Requests,   \* requests that change something
  MaxStarts,  \* bound: starts
  MaxJobs     \* bound: jobs that are picked

LifespanAssumption == {MaxStarts, MaxJobs} \subseteq Nat

VARIABLES
  stage,     \* "off", "starting", "serving", "stopping"
  at,        \* the step of the start or the phase of the stop
  starts,    \* starts so far
  accepting, \* app.state.accepting_mutations
  admitting, \* the worker's loop goes on: request_stop has not been called
  worker,    \* "none", "idle", "looking", "picked", "running", "ended"
  jobs,      \* jobs picked so far
  gpu,       \* what uses the GPU
  request,   \* "out", "inside"
  late,      \* history: phases that failed or ran out of time
  carried,   \* history: requests were inside when the stop began
  surprise,  \* history: jobs that were begun since the stop began
  left       \* what uses the GPU and no process knows of

vars == <<stage, at, starts, accepting, admitting, worker, jobs, gpu, request, late, carried, surprise, left>>

Startup == <<"posture", "directories", "settings", "tuning", "llama build", "log", "reap",
             "database", "history", "profiles", "models", "worker">>

\* Steps whose failure is logged and does not stop the start.
Caught == {"tuning", "llama build", "profiles"}

Phases == <<"voice", "worker", "embedding", "arbiter", "event log">>

Servers == {"embedding", "model"}

Init ==
  /\ stage = "off" /\ at = 0 /\ starts = 0 /\ accepting = FALSE /\ admitting = FALSE
  /\ worker = "none" /\ jobs = 0 /\ gpu = {} /\ request = [r \in Requests |-> "out"]
  /\ late = {} /\ carried = FALSE /\ surprise = 0 /\ left = {}

Begin ==
  /\ stage = "off" /\ starts < MaxStarts
  /\ stage' = "starting" /\ at' = 1 /\ starts' = starts + 1
  /\ UNCHANGED <<accepting, admitting, worker, jobs, gpu, request, late, carried, surprise, left>>

\* The servers of earlier processes are reaped before anything is started; the
\* worker is started when all else is there.
StartStep ==
  /\ stage = "starting"
  /\ IF Startup[at] = "reap" THEN left' = {} /\ late' = {} /\ carried' = FALSE
     ELSE UNCHANGED <<left, late, carried>>
  /\ IF at < Len(Startup) THEN at' = at + 1 /\ UNCHANGED <<stage, accepting, admitting, worker>>
     ELSE stage' = "serving" /\ at' = 0 /\ accepting' = TRUE /\ admitting' = TRUE /\ worker' = "idle"
  /\ UNCHANGED <<starts, jobs, gpu, request, surprise>>

StartFails ==
  /\ stage = "starting" /\ Startup[at] \notin Caught /\ stage' = "off" /\ at' = 0
  /\ UNCHANGED <<starts, accepting, admitting, worker, jobs, gpu, request, late, carried, surprise, left>>

-----------------------------------------------------------------------------
Running == stage \in {"serving", "stopping"}

Enter(r) ==
  /\ Running /\ accepting /\ request[r] = "out" /\ request' = [request EXCEPT ![r] = "inside"]
  /\ UNCHANGED <<stage, at, starts, accepting, admitting, worker, jobs, gpu, late, carried, surprise, left>>

Leave(r) ==
  /\ Running /\ request[r] = "inside" /\ request' = [request EXCEPT ![r] = "out"]
  /\ UNCHANGED <<stage, at, starts, accepting, admitting, worker, jobs, gpu, late, carried, surprise, left>>

\* A request that is inside starts a voice session, or embeds.
Use(r, what) ==
  /\ Running /\ request[r] = "inside" /\ what \in {"voice", "embedding"}
  /\ what = "voice" => "job" \notin gpu
  /\ gpu' = gpu \cup {what}
  /\ UNCHANGED <<stage, at, starts, accepting, admitting, worker, jobs, request, late, carried, surprise, left>>

\* _loop: the worker looks whether it is to stop and whether a session has the GPU,
\* and then reads the queue, which takes a while.
Look ==
  /\ Running /\ worker = "idle" /\ admitting /\ "voice" \notin gpu
  /\ worker' = "looking"
  /\ UNCHANGED <<stage, at, starts, accepting, admitting, jobs, gpu, request, late, carried, surprise, left>>

Pick ==
  /\ Running /\ worker = "looking"
  /\ \/ worker' = "idle" /\ UNCHANGED jobs
     \/ jobs < MaxJobs /\ worker' = "picked" /\ jobs' = jobs + 1
  /\ UNCHANGED <<stage, at, starts, accepting, admitting, gpu, request, late, carried, surprise, left>>

RunJob ==
  /\ Running /\ worker = "picked" /\ "voice" \notin gpu
  /\ worker' = "running" /\ gpu' = gpu \cup {"job", "model"}
  /\ surprise' = IF stage = "stopping" THEN surprise + 1 ELSE surprise
  /\ UNCHANGED <<stage, at, starts, accepting, admitting, jobs, request, late, carried, left>>

\* A job ends, or a lane takes its turn and it goes back to the queue.
EndJob ==
  /\ Running /\ worker \in {"picked", "running"}
  /\ worker' = "idle" /\ gpu' = gpu \ {"job"}
  /\ UNCHANGED <<stage, at, starts, accepting, admitting, jobs, request, late, carried, surprise, left>>

-----------------------------------------------------------------------------
\* A fault: the worker is told to stop when its own phase begins.
BeginStopAdmitting ==
  /\ stage = "serving" /\ stage' = "stopping" /\ at' = 1
  /\ accepting' = FALSE /\ UNCHANGED admitting
  /\ carried' = (\E r \in Requests : request[r] = "inside")
  /\ surprise' = 0 /\ UNCHANGED <<starts, worker, jobs, gpu, request, late, left>>

BeginStop ==
  /\ stage = "serving" /\ stage' = "stopping" /\ at' = 1
  /\ accepting' = FALSE /\ admitting' = FALSE
  /\ carried' = (\E r \in Requests : request[r] = "inside")
  /\ surprise' = 0 /\ UNCHANGED <<starts, worker, jobs, gpu, request, late, left>>

\* What a phase that ends in time has put away.  The worker's phase waits for the
\* job, which is then cancelled.
PutAway(phase) ==
  CASE phase = "voice" -> {"voice"}
    [] phase = "worker" -> {"job"}
    [] phase = "embedding" -> {"embedding"}
    [] phase = "arbiter" -> {"model"}
    [] phase = "event log" -> {}

PhaseEnds ==
  /\ stage = "stopping" /\ at <= Len(Phases) /\ at' = at + 1
  /\ gpu' = gpu \ PutAway(Phases[at])
  /\ worker' = IF Phases[at] = "worker" THEN "ended" ELSE worker
  /\ admitting' = IF Phases[at] = "worker" THEN FALSE ELSE admitting
  /\ UNCHANGED <<stage, starts, accepting, jobs, request, late, carried, surprise, left>>

\* _shutdown_phase: a phase that fails or takes too long is left behind.
PhaseLate ==
  /\ stage = "stopping" /\ at <= Len(Phases) /\ at' = at + 1
  /\ late' = late \cup {Phases[at]}
  /\ UNCHANGED <<stage, starts, accepting, admitting, worker, jobs, gpu, request, carried, surprise, left>>

\* What was left behind may end yet.
LateEnds(phase) ==
  /\ stage = "stopping" /\ phase \in late /\ gpu' = gpu \ PutAway(phase)
  /\ worker' = IF phase = "worker" THEN "ended" ELSE worker
  /\ UNCHANGED <<stage, at, starts, accepting, admitting, jobs, request, late, carried, surprise, left>>

\* The process ends, or is killed at any time; its servers do not end with it.
Exit(killed) ==
  /\ IF killed THEN stage # "off" ELSE stage = "stopping" /\ at = Len(Phases) + 1
  /\ stage' = "off" /\ at' = 0 /\ left' = left \cup (gpu \cap Servers)
  /\ late' = IF killed THEN late \cup {"killed"} ELSE late
  /\ accepting' = FALSE /\ admitting' = FALSE /\ worker' = "none" /\ gpu' = {}
  /\ request' = [r \in Requests |-> "out"]
  /\ UNCHANGED <<starts, jobs, carried, surprise>>

Next ==
  \/ Begin \/ StartStep \/ StartFails
  \/ \E r \in Requests : Enter(r) \/ Leave(r) \/ \E what \in {"voice", "embedding"} : Use(r, what)
  \/ Look \/ Pick \/ RunJob \/ EndJob
  \/ BeginStop \/ PhaseEnds \/ PhaseLate \/ (\E phase \in late : LateEnds(phase))
  \/ \E killed \in BOOLEAN : Exit(killed)

Spec == Init /\ [][Next]_vars

-----------------------------------------------------------------------------
\* The values of the variables.
TypeOK ==
  /\ stage \in {"off", "starting", "serving", "stopping"} /\ at \in 0..Len(Startup)
  /\ starts \in 0..MaxStarts /\ jobs \in 0..MaxJobs
  /\ worker \in {"none", "idle", "looking", "picked", "running", "ended"} /\ surprise \in 0..MaxJobs
  /\ gpu \subseteq {"voice", "job"} \cup Servers /\ left \subseteq Servers
  /\ request \in [Requests -> {"out", "inside"}]
  /\ late \subseteq {Phases[i] : i \in DOMAIN Phases} \cup {"killed"}

\* "A queued job could start in the gap": one at most is begun once the stop has
\* begun, the one that the worker was picking then.
NoJobInTheGap == surprise <= 1

\* When the process has ended, no server of it holds the GPU, unless a phase
\* failed or was late, the process was killed, or requests were inside when the
\* stop began: what they start after its phase is not stopped.
NothingLeft == stage = "off" /\ late = {} /\ ~carried => left = {}

\* And whatever is left is gone before the worker of the next process starts.
LeftReaped == stage = "serving" => left = {}
=============================================================================
