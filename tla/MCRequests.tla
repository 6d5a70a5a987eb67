----------------------------- MODULE MCRequests -----------------------------
(***************************************************************************)
(* One run of three parts that share no state: a conversation and its jobs *)
(* (ChatTurns), the llama-server processes, and the speech requests        *)
(* (Processes).  Each behaviour is one of the part which; the others stay  *)
(* at their start.                                                         *)
(***************************************************************************)
EXTENDS ChatTurns, Processes

VARIABLE which

MCInit == which \in {"chat", "servers", "speech"} /\ Init /\ ServerInit /\ SpeechInit

MCNext ==
  \/ which = "chat" /\ Next /\ UNCHANGED <<which, serverVars, speechVars>>
  \/ which = "servers" /\ ServerNext /\ UNCHANGED <<which, vars, speechVars>>
  \/ which = "speech" /\ SpeechNext /\ UNCHANGED <<which, vars, serverVars>>

MCSpec == MCInit /\ [][MCNext]_<<which, vars, serverVars, speechVars>>
=============================================================================
