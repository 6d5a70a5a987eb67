------------------------------ MODULE JobLife ------------------------------
(***************************************************************************)
(* What the queue promises about the life of a job, without saying how:    *)
(* jobs run one at a time, a job may be run again only while no result of  *)
(* it has been stored, and a stored result is never followed by a run or   *)
(* by an error of its job.  A request may overwrite the status of a job at *)
(* any time, but only by cancelling the job or by clearing its row.        *)
(***************************************************************************)
CONSTANTS
  Jobs,
  Follow, \* the job that a job's result may queue, or None
  None

VARIABLES
  life,    \* the status of each job, "none" before its row and "gone" after
  stored   \* jobs of which a result is stored

vars == <<life, stored>>

Init == life = [j \in Jobs |-> "none"] /\ stored = {}

Become(j, s) == life' = [life EXCEPT ![j] = s]

Submit(j) ==
  /\ life[j] = "none"
  /\ Become(j, "queued")
  /\ UNCHANGED stored

\* A job that is cancelled while it is being picked is begun all the same.
Begin(j) ==
  /\ life[j] \in {"queued", "cancelled"} /\ j \notin stored
  /\ \A i \in Jobs : life[i] # "running"
  /\ Become(j, "running")
  /\ UNCHANGED stored

Unfinished(j) == life[j] \in {"running", "cancelled", "gone"} /\ j \notin stored

Done(j) == [life EXCEPT ![j] = IF @ = "gone" THEN @ ELSE "done"]

\* The result with the status, unless the row is gone, and with the next job.
Archive(j) ==
  /\ Unfinished(j)
  /\ stored' = stored \cup {j}
  /\ \/ life' = Done(j)
     \/ \E k \in {Follow[j]} \ {None} :
          life[k] = "none" /\ life' = [Done(j) EXCEPT ![k] = "queued"]

\* A job may end so again after it was cancelled.
Fail(j) ==
  /\ Unfinished(j)
  /\ Become(j, IF life[j] = "gone" THEN "gone" ELSE "error")
  /\ UNCHANGED stored

\* One that is stopped may keep what it had come to.
Stop(j) ==
  /\ Unfinished(j)
  /\ Become(j, IF life[j] = "gone" THEN "gone" ELSE "cancelled")
  /\ stored' \in {stored, stored \cup {j}}

\* One job by its run, or those of a process that died by the next one.
Requeue ==
  /\ \E S \in SUBSET Jobs :
       /\ \A j \in S : life[j] \in {"running", "cancelled"} /\ j \notin stored
       /\ life' = [j \in Jobs |-> IF j \in S THEN "queued" ELSE life[j]]
  /\ UNCHANGED stored

Cancel(j) ==
  /\ life[j] \notin {"none", "gone"}
  /\ Become(j, "cancelled")
  /\ UNCHANGED stored

\* What was read as finished, whatever has become of it.
Clear ==
  /\ \E S \in SUBSET Jobs :
       /\ \A j \in S : life[j] # "none"
       /\ life' = [j \in Jobs |-> IF j \in S THEN "gone" ELSE life[j]]
  /\ UNCHANGED stored

Next ==
  \/ \E j \in Jobs : Submit(j) \/ Begin(j) \/ Archive(j) \/ Fail(j) \/ Stop(j) \/ Cancel(j)
  \/ Requeue \/ Clear

Spec == Init /\ [][Next]_vars
=============================================================================
