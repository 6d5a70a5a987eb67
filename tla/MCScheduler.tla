---------------------------- MODULE MCScheduler ----------------------------
(***************************************************************************)
(* Finite instances of Scheduler: two submitted jobs for two models; the   *)
(* first is a chat job whose tool call may queue a third.                  *)
(***************************************************************************)
EXTENDS Scheduler, TLC

CONSTANTS chat, image, reply, llm, sd

MCJobs == {chat, image, reply}
MCSubmitted == {chat, image}
MCModels == {llm, sd}
MCFollow == (chat :> reply) @@ (image :> None) @@ (reply :> None)
MCModelOf == (chat :> llm) @@ (image :> sd) @@ (reply :> sd)

\* Two jobs and no tool call, for the runs that need no third.
MCTwoJobs == {chat, image}
MCTwoFollow == (chat :> None) @@ (image :> None)
MCTwoModelOf == (chat :> llm) @@ (image :> sd)
=============================================================================
