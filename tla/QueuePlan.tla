----------------------------- MODULE QueuePlan ------------------------------
(***************************************************************************)
(* The order in which jobs run (core/scheduler_planning.py): the choice    *)
(* within a priority tier, the plan that GET /jobs/plan predicts from it   *)
(* (api/jobs.py), and the worker that draws the same choice one job at a   *)
(* time (Worker._pick_next) while jobs come, change priority and go, and   *)
(* pins, the voice lane and failures move the GPU.                         *)
(***************************************************************************)
EXTENDS Naturals, FiniteSets, Sequences

CONSTANTS
  JobModels,  \* models of the jobs
  TypeOf,     \* TypeOf[m]: llm, image, ...
  Priorities,
  MaxQueued,    \* bound: jobs ever created; ids grow with created_at
  PlanLimit,  \* rows that the endpoint reads
  None

PlanAssumption ==
  /\ Priorities \subseteq Nat /\ MaxQueued \in Nat /\ PlanLimit \in Nat \ {0}
  /\ None \notin JobModels

VARIABLES
  queue,      \* the rows that are queued
  created,    \* jobs created so far
  seated,     \* the model of arbiter.current
  pinned,     \* the model of the resident pin
  forecast,   \* history: the answer of the last GET /jobs/plan
  since,      \* history: what has run since then, as plan steps
  swapped,    \* history: and the swaps this took
  disturbed   \* history: something else has changed the queue or the GPU

vars == <<queue, created, seated, pinned, forecast, since, swapped, disturbed>>

Init ==
  /\ queue = {} /\ created = 0 /\ seated = None /\ pinned = None
  /\ forecast = None /\ since = <<>> /\ swapped = 0 /\ disturbed = FALSE

Oldest(js) == CHOOSE j \in js : \A x \in js : j.id <= x.id
Tier(js) == {j \in js : \A x \in js : x.prio <= j.prio}

\* Mutant: the resident's type counts before its model.
SelectByType(tier, m) ==
  LET alike == {j \in tier : m # None /\ TypeOf[j.model] = TypeOf[m]}
  IN Oldest(IF alike # {} THEN alike ELSE tier)

\* select_in_tier: the resident's model, else its type, else the oldest.
SelectInTier(tier, m) ==
  LET same == {j \in tier : j.model = m}
      alike == {j \in tier : m # None /\ TypeOf[j.model] = TypeOf[m]}
  IN Oldest(IF same # {} THEN same ELSE IF alike # {} THEN alike ELSE tier)

\* A step is a run of jobs of one model.
AddRun(steps, m) ==
  IF steps # <<>> /\ steps[Len(steps)].model = m
  THEN [steps EXCEPT ![Len(steps)].count = @ + 1]
  ELSE Append(steps, [model |-> m, count |-> 1])

Swap(m, next) == IF m # None /\ next # m THEN 1 ELSE 0

\* plan_queue continued from steps that have run already.
RECURSIVE Plan(_, _, _, _)
Plan(js, m, steps, swaps) ==
  IF js = {} THEN [steps |-> steps, swaps |-> swaps]
  ELSE LET j == SelectInTier(Tier(js), m)
       IN Plan(js \ {j}, j.model, AddRun(steps, j.model), swaps + Swap(m, j.model))

Newest(js) == {j \in js : Cardinality({x \in js : x.id > j.id}) < PlanLimit}

-----------------------------------------------------------------------------
Disturb == disturbed' = TRUE /\ UNCHANGED <<forecast, since, swapped>>

Create(m, p) ==
  /\ created < MaxQueued
  /\ created' = created + 1
  /\ queue' = queue \cup {[id |-> created, model |-> m, prio |-> p]}
  /\ Disturb /\ UNCHANGED <<seated, pinned>>

SetPriority(j, p) ==
  /\ p # j.prio
  /\ queue' = (queue \ {j}) \cup {[j EXCEPT !.prio = p]}
  /\ Disturb /\ UNCHANGED <<created, seated, pinned>>

CancelJob(j) ==
  /\ queue' = queue \ {j}
  /\ Disturb /\ UNCHANGED <<created, seated, pinned>>

\* GET /jobs/plan.
QueuePlanned ==
  /\ queue # {}
  /\ forecast' = Plan(Newest(queue), seated, <<>>, 0)
  /\ since' = <<>> /\ swapped' = 0
  /\ disturbed' = (pinned # None \/ Cardinality(queue) > PlanLimit)
  /\ UNCHANGED <<queue, created, seated, pinned>>

\* Mutant: the worker looks for the resident's model below the top tier too.
ChosenAnyTier(js, m) ==
  LET same == {j \in js : j.model = m}
  IN IF same # {} THEN Oldest(same) ELSE SelectInTier(Tier(js), m)

Chosen(js, m) == SelectInTier(Tier(js), m)

\* The worker picks among the rows that a pin admits and seats the model.
RunNext ==
  LET runnable == IF pinned = None THEN queue ELSE {j \in queue : j.model = pinned} IN
    /\ runnable # {}
    /\ LET j == Chosen(runnable, seated) IN
         /\ queue' = queue \ {j} /\ seated' = j.model
         /\ since' = AddRun(since, j.model) /\ swapped' = swapped + Swap(seated, j.model)
    /\ UNCHANGED <<created, pinned, forecast, disturbed>>

\* The job's model does not load: the job fails and nothing is resident.
RunFails ==
  /\ queue # {} /\ pinned = None
  /\ queue' = queue \ {Chosen(queue, seated)} /\ seated' = None
  /\ Disturb /\ UNCHANGED <<created, pinned>>

\* A voice session, a free request or an idle unload empties the GPU.
Vacated ==
  /\ seated # None /\ seated' = None /\ pinned' = None
  /\ Disturb /\ UNCHANGED <<queue, created>>

PinModel(m) ==
  /\ seated' = m /\ pinned' = m
  /\ Disturb /\ UNCHANGED <<queue, created>>

Unpinned ==
  /\ pinned # None /\ pinned' = None
  /\ Disturb /\ UNCHANGED <<queue, created, seated>>

Next ==
  \/ \E m \in JobModels : PinModel(m) \/ \E p \in Priorities : Create(m, p)
  \/ \E j \in queue : CancelJob(j) \/ \E p \in Priorities : SetPriority(j, p)
  \/ QueuePlanned \/ RunNext \/ RunFails \/ Vacated \/ Unpinned

Spec == Init /\ [][Next]_vars

-----------------------------------------------------------------------------
(* Properties                                                              *)

\* Rows are distinct and known, and so are the seated and the pinned model.
TypeOK ==
  /\ created \in 0..MaxQueued /\ {seated, pinned} \subseteq JobModels \cup {None}
  /\ \A j \in queue : j.id < created /\ j.model \in JobModels /\ j.prio \in Priorities
  /\ \A i, j \in queue : i.id = j.id => i = j
  /\ pinned # None => seated = pinned

\* "Uses the same selection rule as the live worker": what has run since the
\* forecast and what the rule predicts now add up to the forecast, as long as
\* nothing else changes the queue or the GPU.
PlanHonoured ==
  forecast # None /\ ~disturbed => forecast = Plan(queue, seated, since, swapped)

\* The rule minimises swaps within a tier: draining the queue at one priority
\* loads each model once, and the resident one not at all.
FewestSwaps ==
  LET js == Tier(queue)
      models == {j.model : j \in js}
  IN js # {} => Plan(js, seated, <<>>, 0).swaps =
                  Cardinality(models \ {seated}) - (IF seated = None THEN 1 ELSE 0)
=============================================================================
