---------------------------- MODULE ProcessProofs ----------------------------
(***************************************************************************)
(* What holds of the processes that the application starts.                *)
(*                                                                         *)
(* Speech on request, for any requests, cancellations, voice sessions and  *)
(* deaths of the server: the lanes are those of the requests that use the  *)
(* GPU, or that were cancelled while they left one; a voice session has    *)
(* the GPU to itself but for shared lanes and work that nobody waits for,  *)
(* such work is known, and what is answered is whole.                      *)
(*                                                                         *)
(* The llama-server processes, for any pids, models and number of          *)
(* processes: the start ends no process but the chat server that an        *)
(* earlier run recorded, no server is unknown to the application unless it *)
(* lost it, and what is asked of a port is answered by the model asked.    *)
(***************************************************************************)
EXTENDS Processes, TLAPS

Held == {"spawn", "running", "leaving"}

\* Where the request is for whose work the GPU is used, and what it has been told.
WorkKnown ==
  \A r \in working :
    /\ stage[r] \in {"running", "leaving", "kill", "over"}
    /\ stage[r] # "running" => r \in strays
    /\ stage[r] = "leaving" => outcome[r] \in {"timeout", "cancelled"}
    /\ stage[r] = "over" /\ r \in Syntheses => outcome[r] \in {"lost", "cancelled"}

\* A request that does not share its lane finds it registered; two of a kind share.
LaneHeld ==
  /\ \A r \in Requests \ shared : stage[r] \in Held => Kind(r) \in lanes
  /\ \A q, r \in Requests :
       stage[q] \in Held /\ stage[r] \in Held /\ Kind(q) = Kind(r) /\ q # r => {q, r} \subseteq shared

\* How far the files of a request are when it is at a stage or has an outcome.
FilesFollow ==
  \A r \in Requests :
    /\ stage[r] = "record" => outcome[r] = "done"
    /\ outcome[r] = "done" => audio[r] = "whole" /\ stage[r] \in {"leaving", "record"}
    /\ meta[r] # Nobody => audio[r] = "whole" /\ stage[r] \in {"record", "over"}
    /\ outcome[r] = "ok" => audio[r] = "whole" /\ meta[r] = "whole" /\ stage[r] = "over"
    /\ r \in Transcriptions /\ stage[r] \in {"lane", "record"} \cup Held => audio[r] = "whole"

Sound == SpeechTypeOK /\ WorkKnown /\ LaneHeld /\ LanesLeft /\ FilesFollow

-----------------------------------------------------------------------------
(* The steps of a request.                                                  *)

\* No step gives a variable a value of another type, nor a voice session's lane
\* another one beside it.
LEMMA TypeOKKept ==
  ASSUME Sound, [SpeechNext]_speechVars
  PROVE  SpeechTypeOK'
<1> USE SpeechAssumption DEF Sound, SpeechTypeOK, Stages, Outcomes, Requests, Kind, Goto, Answer, files, voice
<1>1. ASSUME NEW r \in Requests, Check(r) PROVE SpeechTypeOK'
  BY <1>1 DEF Check
<1>2. ASSUME NEW r \in Requests, Upload(r) PROVE SpeechTypeOK'
  BY <1>2 DEF Upload
<1>3. ASSUME NEW r \in Requests, TakeLane(r) PROVE SpeechTypeOK'
  BY <1>3 DEF TakeLane, Kind, Holding
<1>4. ASSUME NEW r \in Requests, Start(r) PROVE SpeechTypeOK'
  BY <1>4 DEF Start
<1>5. ASSUME NEW r \in Requests, WriteAudio(r) PROVE SpeechTypeOK'
  BY <1>5 DEF WriteAudio
<1>6. ASSUME NEW r \in Requests, Finish(r) PROVE SpeechTypeOK'
  BY <1>6 DEF Finish, Written, Kind
<1>7. ASSUME NEW r \in Requests, TimeOut(r) PROVE SpeechTypeOK'
  BY <1>7 DEF TimeOut
<1>8. ASSUME NEW r \in Requests, LeaveLane(r) PROVE SpeechTypeOK'
  BY <1>8 DEF LeaveLane, AfterLane, Kind
<1>9. ASSUME NEW r \in Requests, Kill(r) PROVE SpeechTypeOK'
  BY <1>9 DEF Kill, Kind
<1>10. ASSUME NEW r \in Requests, Unlink(r) PROVE SpeechTypeOK'
  BY <1>10 DEF Unlink
<1>11. ASSUME NEW r \in Requests, Record(r) PROVE SpeechTypeOK'
  BY <1>11 DEF Record
<1>12. ASSUME NEW r \in Requests, Cancel(r) PROVE SpeechTypeOK'
  BY <1>12 DEF Cancel, Abandon, CancelEarly, CancelLeaving, CancelRecord
<1>13. CASE StartVoice
  BY <1>13 DEF StartVoice
<1>14. CASE StopVoice
  BY <1>14 DEF StopVoice
<1>15. CASE Die
  BY <1>15 DEF Die
<1>16. CASE UNCHANGED speechVars
  BY <1>16 DEF speechVars
<1> QED
  BY <1>1, <1>2, <1>3, <1>4, <1>5, <1>6, <1>7, <1>8, <1>9, <1>10, <1>11, <1>12, <1>13, <1>14, <1>15, <1>16 DEF SpeechNext

\* Work starts with a request that waits for it; where the request goes on without
\* it, it is a stray, and it ends before a synthesis answers its timeout.
LEMMA WorkKnownKept ==
  ASSUME Sound, [SpeechNext]_speechVars
  PROVE  WorkKnown'
<1> USE SpeechAssumption DEF Sound, SpeechTypeOK, Stages, Outcomes, Requests, WorkKnown, Goto, Answer, files, voice
<1>1. ASSUME NEW r \in Requests, Check(r) PROVE WorkKnown'
  BY <1>1 DEF Check
<1>2. ASSUME NEW r \in Requests, Upload(r) PROVE WorkKnown'
  BY <1>2 DEF Upload
<1>3. ASSUME NEW r \in Requests, TakeLane(r) PROVE WorkKnown'
  BY <1>3 DEF TakeLane, Holding
<1>4. ASSUME NEW r \in Requests, Start(r) PROVE WorkKnown'
  BY <1>4 DEF Start
<1>5. ASSUME NEW r \in Requests, WriteAudio(r) PROVE WorkKnown'
  BY <1>5 DEF WriteAudio
<1>6. ASSUME NEW r \in Requests, Finish(r) PROVE WorkKnown'
  BY <1>6 DEF Finish, Written
<1>7. ASSUME NEW r \in Requests, TimeOut(r) PROVE WorkKnown'
  BY <1>7 DEF TimeOut
<1>8. ASSUME NEW r \in Requests, LeaveLane(r) PROVE WorkKnown'
  BY <1>8 DEF LeaveLane, AfterLane
<1>9. ASSUME NEW r \in Requests, Kill(r) PROVE WorkKnown'
  BY <1>9 DEF Kill
<1>10. ASSUME NEW r \in Requests, Unlink(r) PROVE WorkKnown'
  BY <1>10 DEF Unlink
<1>11. ASSUME NEW r \in Requests, Record(r) PROVE WorkKnown'
  BY <1>11 DEF Record
<1>12. ASSUME NEW r \in Requests, Cancel(r) PROVE WorkKnown'
  BY <1>12 DEF Cancel, Abandon, CancelEarly, CancelLeaving, CancelRecord
<1>13. CASE StartVoice
  BY <1>13 DEF StartVoice
<1>14. CASE StopVoice
  BY <1>14 DEF StopVoice
<1>15. CASE Die
  BY <1>15 DEF Die
<1>16. CASE UNCHANGED speechVars
  BY <1>16 DEF speechVars
<1> QED
  BY <1>1, <1>2, <1>3, <1>4, <1>5, <1>6, <1>7, <1>8, <1>9, <1>10, <1>11, <1>12, <1>13, <1>14, <1>15, <1>16 DEF SpeechNext

\* A request takes a lane that has no holder or shares it from then on; only one
\* that shares can lose its lane to another's exit.
LEMMA LaneHeldKept ==
  ASSUME Sound, [SpeechNext]_speechVars
  PROVE  LaneHeld'
<1> USE SpeechAssumption DEF Sound, SpeechTypeOK, Stages, Outcomes, Requests, LaneHeld, Held, Goto, Answer, files, voice
<1>1. ASSUME NEW r \in Requests, Check(r) PROVE LaneHeld'
  BY <1>1 DEF Check
<1>2. ASSUME NEW r \in Requests, Upload(r) PROVE LaneHeld'
  BY <1>2 DEF Upload
<1>3. ASSUME NEW r \in Requests, TakeLane(r) PROVE LaneHeld'
  BY <1>3 DEF TakeLane, Holding
<1>4. ASSUME NEW r \in Requests, Start(r) PROVE LaneHeld'
  BY <1>4 DEF Start
<1>5. ASSUME NEW r \in Requests, WriteAudio(r) PROVE LaneHeld'
  BY <1>5 DEF WriteAudio
<1>6. ASSUME NEW r \in Requests, Finish(r) PROVE LaneHeld'
  BY <1>6 DEF Finish, Written
<1>7. ASSUME NEW r \in Requests, TimeOut(r) PROVE LaneHeld'
  BY <1>7 DEF TimeOut
<1>8. ASSUME NEW r \in Requests, LeaveLane(r) PROVE LaneHeld'
  BY <1>8 DEF LeaveLane, AfterLane
<1>9. ASSUME NEW r \in Requests, Kill(r) PROVE LaneHeld'
  BY <1>9 DEF Kill
<1>10. ASSUME NEW r \in Requests, Unlink(r) PROVE LaneHeld'
  BY <1>10 DEF Unlink
<1>11. ASSUME NEW r \in Requests, Record(r) PROVE LaneHeld'
  BY <1>11 DEF Record
<1>12. ASSUME NEW r \in Requests, Cancel(r) PROVE LaneHeld'
  BY <1>12 DEF Cancel, Abandon, CancelEarly, CancelLeaving, CancelRecord
<1>13. CASE StartVoice
  BY <1>13 DEF StartVoice
<1>14. CASE StopVoice
  <2>1. \A r \in Requests : Kind(r) # "voice"
    BY DEF Kind
  <2>2. /\ lanes' = lanes \ {"voice"}
        /\ UNCHANGED <<stage, shared>>
    BY <1>14 DEF StopVoice
  <2>3. \A r \in Requests \ shared : stage'[r] \in Held => Kind(r) \in lanes'
    BY <2>1, <2>2
  <2> QED
    BY <2>2, <2>3
<1>15. CASE Die
  BY <1>15 DEF Die
<1>16. CASE UNCHANGED speechVars
  BY <1>16 DEF speechVars
<1> QED
  BY <1>1, <1>2, <1>3, <1>4, <1>5, <1>6, <1>7, <1>8, <1>9, <1>10, <1>11, <1>12, <1>13, <1>14, <1>15, <1>16 DEF SpeechNext

\* A lane is registered with a holder, and goes with the first one that leaves it.
LEMMA LanesLeftKept ==
  ASSUME Sound, [SpeechNext]_speechVars
  PROVE  LanesLeft'
<1> USE SpeechAssumption DEF Sound, SpeechTypeOK, Stages, Outcomes, Requests, LanesLeft, Holding, Goto, Answer, files, voice
<1>1. ASSUME NEW r \in Requests, Check(r) PROVE LanesLeft'
  BY <1>1 DEF Check
<1>2. ASSUME NEW r \in Requests, Upload(r) PROVE LanesLeft'
  BY <1>2 DEF Upload
<1>3. ASSUME NEW r \in Requests, TakeLane(r) PROVE LanesLeft'
  BY <1>3 DEF TakeLane
<1>4. ASSUME NEW r \in Requests, Start(r) PROVE LanesLeft'
  BY <1>4 DEF Start
<1>5. ASSUME NEW r \in Requests, WriteAudio(r) PROVE LanesLeft'
  BY <1>5 DEF WriteAudio
<1>6. ASSUME NEW r \in Requests, Finish(r) PROVE LanesLeft'
  BY <1>6 DEF Finish, Written
<1>7. ASSUME NEW r \in Requests, TimeOut(r) PROVE LanesLeft'
  BY <1>7 DEF TimeOut
<1>8. ASSUME NEW r \in Requests, LeaveLane(r) PROVE LanesLeft'
  BY <1>8 DEF LeaveLane, AfterLane
<1>9. ASSUME NEW r \in Requests, Kill(r) PROVE LanesLeft'
  BY <1>9 DEF Kill
<1>10. ASSUME NEW r \in Requests, Unlink(r) PROVE LanesLeft'
  BY <1>10 DEF Unlink
<1>11. ASSUME NEW r \in Requests, Record(r) PROVE LanesLeft'
  BY <1>11 DEF Record
<1>12. ASSUME NEW r \in Requests, Cancel(r) PROVE LanesLeft'
  BY <1>12 DEF Cancel, Abandon, CancelEarly, CancelLeaving, CancelRecord
<1>13. CASE StartVoice
  <2>1. lanes' \ {"voice"} = {}
    BY <1>13 DEF StartVoice
  <2> QED
    BY <2>1
<1>14. CASE StopVoice
  BY <1>14 DEF StopVoice
<1>15. CASE Die
  BY <1>15 DEF Die
<1>16. CASE UNCHANGED speechVars
  BY <1>16 DEF speechVars
<1> QED
  BY <1>1, <1>2, <1>3, <1>4, <1>5, <1>6, <1>7, <1>8, <1>9, <1>10, <1>11, <1>12, <1>13, <1>14, <1>15, <1>16 DEF SpeechNext

\* The files of a request follow its stages, also where its work goes on alone.
LEMMA FilesFollowKept ==
  ASSUME Sound, [SpeechNext]_speechVars
  PROVE  FilesFollow'
<1> USE SpeechAssumption DEF Sound, SpeechTypeOK, Stages, Outcomes, Requests, FilesFollow, Held, Goto, Answer, files, voice
<1>1. ASSUME NEW r \in Requests, Check(r) PROVE FilesFollow'
  BY <1>1 DEF Check
<1>2. ASSUME NEW r \in Requests, Upload(r) PROVE FilesFollow'
  BY <1>2 DEF Upload
<1>3. ASSUME NEW r \in Requests, TakeLane(r) PROVE FilesFollow'
  BY <1>3 DEF TakeLane, Holding
<1>4. ASSUME NEW r \in Requests, Start(r) PROVE FilesFollow'
  BY <1>4 DEF Start
<1>5. ASSUME NEW r \in Requests, WriteAudio(r) PROVE FilesFollow'
  BY <1>5 DEF WriteAudio
<1>6. ASSUME NEW r \in Requests, Finish(r) PROVE FilesFollow'
  BY <1>6 DEF Finish, Written
<1>7. ASSUME NEW r \in Requests, TimeOut(r) PROVE FilesFollow'
  BY <1>7 DEF TimeOut
<1>8. ASSUME NEW r \in Requests, LeaveLane(r) PROVE FilesFollow'
  BY <1>8 DEF LeaveLane, AfterLane
<1>9. ASSUME NEW r \in Requests, Kill(r) PROVE FilesFollow'
  BY <1>9 DEF Kill
<1>10. ASSUME NEW r \in Requests, Unlink(r) PROVE FilesFollow'
  BY <1>10 DEF Unlink
<1>11. ASSUME NEW r \in Requests, Record(r) PROVE FilesFollow'
  BY <1>11 DEF Record
<1>12. ASSUME NEW r \in Requests, Cancel(r) PROVE FilesFollow'
  BY <1>12 DEF Cancel, Abandon, CancelEarly, CancelLeaving, CancelRecord
<1>13. CASE StartVoice
  BY <1>13 DEF StartVoice
<1>14. CASE StopVoice
  BY <1>14 DEF StopVoice
<1>15. CASE Die
  BY <1>15 DEF Die
<1>16. CASE UNCHANGED speechVars
  BY <1>16 DEF speechVars
<1> QED
  BY <1>1, <1>2, <1>3, <1>4, <1>5, <1>6, <1>7, <1>8, <1>9, <1>10, <1>11, <1>12, <1>13, <1>14, <1>15, <1>16 DEF SpeechNext

\* At the start nothing is requested, and no lane is registered.
LEMMA InitSound == SpeechInit => Sound
  BY SpeechAssumption
     DEF SpeechInit, Sound, SpeechTypeOK, Stages, Outcomes, WorkKnown, LaneHeld, Held, LanesLeft, FilesFollow

\* No request, voice session or death of the server leaves it.
LEMMA SoundKept == Sound /\ [SpeechNext]_speechVars => Sound'
  BY TypeOKKept, WorkKnownKept, LaneHeldKept, LanesLeftKept, FilesFollowKept DEF Sound

\* The invariant holds of every behaviour.
LEMMA SoundHolds == SpeechSpec => []Sound
  BY InitSound, SoundKept, PTL DEF SpeechSpec

-----------------------------------------------------------------------------
(* What is guaranteed.                                                      *)

\* Requests, their files and the lanes have their types, and a voice session's
\* lane has no other beside it (activate_lane).
THEOREM TypeCorrect == SpeechSpec => []SpeechTypeOK
<1>1. Sound => SpeechTypeOK
  BY DEF Sound
<1> QED
  BY <1>1, SoundHolds, PTL

\* The GPU is not shown as busy for ever, nor a voice session refused: every lane
\* is that of a request that has not left it, but for the kinds that one cancelled on
\* its way out has deserted (gpu_lane).
THEOREM LanesOfRequests == SpeechSpec => []LanesLeft
<1>1. Sound => LanesLeft
  BY DEF Sound
<1> QED
  BY <1>1, SoundHolds, PTL

\* Work on the GPU is shown and no voice session is beside it, but for requests
\* that shared their lane and work that nobody waits for any more.
THEOREM WorkShown == SpeechSpec => []ShownUnlessShared
<1>1. ASSUME Sound PROVE ShownUnlessShared
  <2> SUFFICES ASSUME NEW r \in working \ (shared \cup strays)
               PROVE  Kind(r) \in lanes /\ "voice" \notin lanes
    BY DEF ShownUnlessShared
  <2>1. r \in Requests \ shared /\ stage[r] = "running"
    BY <1>1 DEF Sound, SpeechTypeOK, WorkKnown
  <2>2. Kind(r) \in lanes
    BY <1>1, <2>1 DEF Sound, LaneHeld, Held
  <2>3. Kind(r) # "voice"
    BY DEF Kind
  <2> QED
    BY <1>1, <2>2, <2>3 DEF Sound, SpeechTypeOK
<1> QED
  BY <1>1, SoundHolds, PTL

\* Work goes on that no request waits for only after a timeout, a cancellation or a
\* death of the server, and a synthesis is killed before its timeout is answered: one
\* that runs on is that of a request that was cancelled or died with the server.
THEOREM NothingForgotten == SpeechSpec => []NoneForgotten
<1>1. Sound => NoneForgotten
  BY DEF Sound, SpeechTypeOK, Requests, WorkKnown, NoneForgotten
<1> QED
  BY <1>1, SoundHolds, PTL

\* What is answered is on the disk whole, with whole metadata, and no metadata
\* name an audio that was cut off.
THEOREM AnswersWhole == SpeechSpec => []ResultsWhole
<1>1. Sound => ResultsWhole
  BY DEF Sound, FilesFollow, ResultsWhole
<1> QED
  BY <1>1, SoundHolds, PTL

-----------------------------------------------------------------------------
(* The llama-server processes.                                              *)

Proc == [kind : Kinds \cup {"other"}, model : ChatModels \cup EmbedModels \cup {Nobody}, born : Nat]
Server == [step : {"none", "spawned", "waiting", "loaded", "cleanup", "ended", "ready", "asking"},
           model : ChatModels \cup EmbedModels \cup {Nobody}, pid : Pids \cup {Nobody},
           born : Nat \cup {Nobody}]

\* Births tell processes apart, whichever pids they have: a birth names at most one
\* process, the handle of a server and the record know theirs by it, and what a handle
\* has ended is gone.
Known ==
  /\ ServerTypeOK
  /\ procs \in [Pids -> Proc \cup {Nobody}] /\ server \in [Kinds -> Server]
  /\ listening \in [Kinds -> Pids \cup {Nobody}]
  /\ \A p, q \in Pids : Alive(p) /\ Alive(q) /\ procs[p].born = procs[q].born => p = q
  /\ \A k \in Kinds :
       /\ server[k].step = "none" => server[k] = NoServer
       /\ server[k].born # Nobody => server[k].born < births
       /\ \A p \in Pids : Alive(p) /\ procs[p].born = server[k].born =>
            p = server[k].pid /\ procs[p].kind = k /\ procs[p].model = server[k].model
  /\ server["embed"].step \in {"none", "waiting", "ready", "asking"}
  /\ server["chat"].step \notin {"ready", "asking"}
  /\ server["chat"].step = "spawned" /\ Alive(server["chat"].pid) => ChildLives("chat")
  /\ server["chat"].step = "ended" =>
       \A p \in Pids : Alive(p) => procs[p].born # server["chat"].born
  /\ record # Nobody /\ record.born # Nobody => record.born \in Nat /\ record.born < births
  /\ record # Nobody =>
       \A p \in Pids : Alive(p) /\ procs[p].born = record.born => procs[p].kind = "chat"
  /\ app = "down" => \A k \in Kinds : server[k] = NoServer

\* Every server is registered, lost, or recorded for the next start.
Traced ==
  /\ NoUnknownServer
  /\ app = "down" => \A p \in Pids :
       Alive(p) /\ procs[p].kind \in Kinds => Recorded(p) \/ procs[p].born \in lost

-----------------------------------------------------------------------------
(* Births.                                                                  *)

\* At the start of the computer there is no process.
LEMMA InitKnown == ServersAssumption /\ ServerInit => Known
  BY DEF ServerInit, Known, ServerTypeOK, Kinds, ModelsOf, NoServer, Server, Alive, ServersAssumption

\* The chat server's handle and record name the child.
LEMMA ChatKnown ==
  ASSUME ServersAssumption, Known,
         \/ \E mod \in ChatModels : Spawn(mod)
         \/ WriteRecord \/ WriteFails \/ (\E k \in Kinds : Healthy(k)) \/ Unhealthy
         \/ WaitCancelled \/ Terminate \/ RemoveRecord \/ Complete
  PROVE  Known'
<1> USE DEF Known, ServerTypeOK, Kinds, ModelsOf, NoServer, Server, Proc, Alive, ChildLives, ToStep,
           ServersAssumption
<1>1. ASSUME NEW mod \in ChatModels, Spawn(mod) PROVE Known'
  BY <1>1 DEF Spawn, Starts
<1>2. CASE WriteRecord
  <2>1. server["chat"].pid \in Pids /\ server["chat"].born \in Nat \cup {Nobody}
    BY <1>2 DEF WriteRecord
  <2>2. /\ record'.pid \in Pids
        /\ record'.born # Nobody => record'.born \in Nat /\ record'.born < births
    BY <1>2, <2>1 DEF WriteRecord
  <2>3. ASSUME NEW p \in Pids, procs[p] # Nobody, procs[p].born = record'.born
        PROVE  procs[p].kind = "chat"
    BY <1>2, <2>1, <2>3 DEF WriteRecord
  <2>4. /\ server' = [server EXCEPT !["chat"].step = "waiting"]
        /\ UNCHANGED <<procs, listening, app, births, answer, lost>>
    BY <1>2 DEF WriteRecord
  <2>5. /\ ServerTypeOK' /\ server' \in [Kinds -> Server]
        /\ procs' \in [Pids -> Proc \cup {Nobody}] /\ listening' \in [Kinds -> Pids \cup {Nobody}]
    BY <2>1, <2>2, <2>4
  <2>6. \A k \in Kinds :
          /\ server'[k].step = "none" => server'[k] = NoServer
          /\ server'[k].born = server[k].born /\ server'[k].pid = server[k].pid
          /\ server'[k].model = server[k].model
    BY <2>1, <2>4
  <2>7. app = "up" /\ server'["chat"].step = "waiting" /\ server'["embed"] = server["embed"]
    BY <1>2, <2>4 DEF WriteRecord
  <2>8. \A k \in Kinds : server'[k].born # Nobody => server'[k].born < births
    BY <2>6
  <2>9. \A k \in Kinds : \A p \in Pids : procs'[p] # Nobody /\ procs'[p].born = server'[k].born =>
          p = server'[k].pid /\ procs'[p].kind = k /\ procs'[p].model = server'[k].model
    BY <2>4, <2>6
  <2>10. record' # Nobody =>
          \A p \in Pids : procs'[p] # Nobody /\ procs'[p].born = record'.born =>
            procs'[p].kind = "chat"
    BY <2>3, <2>4
  <2>11. \A p, q \in Pids :
           procs'[p] # Nobody /\ procs'[q] # Nobody /\ procs'[p].born = procs'[q].born => p = q
    BY <2>4
  <2>12. \A p \in Pids : p # Nobody
    OBVIOUS
  <2>13. server'["embed"].step \in {"none", "waiting", "ready", "asking"}
         /\ app' = "up" /\ births' = births
    BY <2>4, <2>7
  <2> HIDE DEF Proc, Server, ServerTypeOK
  <2> QED
    BY <2>2, <2>5, <2>6, <2>7, <2>8, <2>9, <2>10, <2>11, <2>12, <2>13
<1>3. CASE WriteFails
  <2>1. lost' \subseteq 0..(MaxBorn - 1)
    <3>1. \A p \in Pids : procs[p] # Nobody => procs[p].born \in 0..(MaxBorn - 1)
      OBVIOUS
    <3>2. CASE Alive(server["chat"].pid)
      <4>1. server["chat"].pid \in Pids /\ procs[server["chat"].pid].born \in 0..(MaxBorn - 1)
        BY <1>3, <3>1, <3>2 DEF WriteFails
      <4>2. lost' = lost \cup {procs[server["chat"].pid].born}
        BY <1>3, <3>2 DEF WriteFails
      <4> QED
        BY <4>1, <4>2
    <3>3. CASE ~Alive(server["chat"].pid)
      BY <1>3, <3>3 DEF WriteFails
    <3> QED
      BY <3>2, <3>3
  <2>2. server' = [server EXCEPT !["chat"] = NoServer] /\ app = "up"
        /\ UNCHANGED <<procs, listening, record, app, births, answer>>
    BY <1>3 DEF WriteFails
  <2> QED
    BY <2>1, <2>2
<1>4. ASSUME NEW k \in Kinds, Healthy(k) PROVE Known'
  BY <1>4 DEF Healthy
<1>5. CASE Unhealthy
  BY <1>5 DEF Unhealthy
<1>6. CASE Terminate
  BY <1>6 DEF Terminate, Ended
<1>7. CASE RemoveRecord
  BY <1>7 DEF RemoveRecord
<1>8. CASE Complete
  BY <1>8 DEF Complete, Served
<1>9. CASE WaitCancelled
  <2>1. lost' \subseteq 0..(MaxBorn - 1)
    <3>1. \A p \in Pids : procs[p] # Nobody => procs[p].born \in 0..(MaxBorn - 1)
      OBVIOUS
    <3>2. CASE ChildLives("chat")
      <4>1. server["chat"].pid \in Pids /\ procs[server["chat"].pid].born \in 0..(MaxBorn - 1)
        BY <1>9, <3>1, <3>2 DEF WaitCancelled
      <4>2. lost' = lost \cup {procs[server["chat"].pid].born}
        BY <1>9, <3>2 DEF WaitCancelled
      <4> QED
        BY <4>1, <4>2
    <3>3. CASE ~ChildLives("chat")
      BY <1>9, <3>3 DEF WaitCancelled
    <3> QED
      BY <3>2, <3>3
  <2>2. server' = [server EXCEPT !["chat"] = NoServer] /\ app = "up"
        /\ UNCHANGED <<procs, listening, record, app, births, answer>>
    BY <1>9 DEF WaitCancelled
  <2> QED
    BY <2>1, <2>2
<1> QED
  BY <1>1, <1>2, <1>3, <1>4, <1>5, <1>6, <1>7, <1>8, <1>9

\* So does the embedding server's handle.
LEMMA EmbedKnown ==
  ASSUME ServersAssumption, Known,
         \/ \E mod \in EmbedModels : EmbedHit(mod) \/ EmbedSpawn(mod)
         \/ EmbedStop \/ EmbedFails \/ EmbedReply
  PROVE  Known'
<1> USE DEF Known, ServerTypeOK, Kinds, ModelsOf, NoServer, Server, Proc, Alive, ChildLives, ToStep,
           ServersAssumption
<1>1. ASSUME NEW mod \in EmbedModels, EmbedHit(mod) PROVE Known'
  BY <1>1 DEF EmbedHit, EmbedIdle
<1>2. ASSUME NEW mod \in EmbedModels, EmbedSpawn(mod) PROVE Known'
  BY <1>2 DEF EmbedSpawn, EmbedIdle, Starts
<1>3. CASE EmbedStop
  BY <1>3 DEF EmbedStop, EmbedIdle, Ended
<1>4. CASE EmbedFails
  BY <1>4 DEF EmbedFails
<1>5. CASE EmbedReply
  BY <1>5 DEF EmbedReply, Served
<1> QED
  BY <1>1, <1>2, <1>3, <1>4, <1>5

\* Processes come with births of their own.
LEMMA SystemKnown ==
  ASSUME ServersAssumption, Known,
         \/ \E p \in Pids : Listen(p) \/ Dies(p) \/ Foreign(p)
         \/ Crash \/ StartUp \/ StartDenied \/ UNCHANGED serverVars
  PROVE  Known'
<1> USE DEF Known, ServerTypeOK, Kinds, ModelsOf, NoServer, Server, Proc, Alive, ChildLives, ToStep,
           ServersAssumption
<1>1. ASSUME NEW p \in Pids, Listen(p) PROVE Known'
  BY <1>1 DEF Listen, Ended
<1>2. ASSUME NEW p \in Pids, Dies(p) PROVE Known'
  BY <1>2 DEF Dies, Ended
<1>3. ASSUME NEW p \in Pids, Foreign(p) PROVE Known'
  BY <1>3 DEF Foreign, Starts
<1>4. CASE Crash
  <2>1. /\ app' = "down" /\ server' = [k \in Kinds |-> NoServer]
        /\ UNCHANGED <<procs, listening, record, births, answer>>
    BY <1>4 DEF Crash
  <2>2. lost' \subseteq 0..(MaxBorn - 1)
    <3>1. \A p \in Pids : procs[p] # Nobody => procs[p].born \in 0..(MaxBorn - 1)
      OBVIOUS
    <3>2. \A b \in lost' : b \in lost \/ \E p \in Pids : procs[p] # Nobody /\ b = procs[p].born
      BY <1>4 DEF Crash
    <3>3. lost \subseteq 0..(MaxBorn - 1)
      OBVIOUS
    <3> HIDE DEF Known
    <3> QED
      BY <3>1, <3>2, <3>3
  <2>3. server' \in [Kinds -> Server] /\ \A k \in Kinds : server'[k] = NoServer
    BY <2>1
  <2> QED
    BY <2>1, <2>2, <2>3
<1>5. CASE StartUp
  <2>1. app' = "up" /\ UNCHANGED <<server, births, answer, lost>>
        /\ app = "down" /\ \A k \in Kinds : server[k] = NoServer
    BY <1>5 DEF StartUp
  <2>2. CASE UNCHANGED <<procs, listening>> /\ record' \in {record, Nobody}
    BY <2>1, <2>2
  <2>3. CASE record # Nobody /\ Ended(record.pid) /\ record' = Nobody
    BY <2>1, <2>3 DEF Ended
  <2>4. CASE record = Nobody
    BY <1>5, <2>2, <2>4 DEF StartUp
  <2>5. CASE record # Nobody /\ procs[record.pid] = Nobody
    BY <1>5, <2>2, <2>5 DEF StartUp
  <2>6. CASE record # Nobody /\ procs[record.pid] # Nobody /\ Recorded(record.pid)
    BY <1>5, <2>3, <2>6 DEF StartUp
  <2>7. CASE record # Nobody /\ procs[record.pid] # Nobody /\ ~Recorded(record.pid)
    BY <1>5, <2>2, <2>7 DEF StartUp
  <2> HIDE DEF Known
  <2> QED
    BY <2>4, <2>5, <2>6, <2>7
<1>6. CASE StartDenied
  <2>1. lost' \subseteq 0..(MaxBorn - 1)
    <3>1. record.pid \in Pids /\ procs[record.pid] # Nobody
      BY <1>6 DEF StartDenied
    <3>2. procs[record.pid].born \in 0..(MaxBorn - 1)
      BY <3>1
    <3> QED
      BY <1>6, <3>2 DEF StartDenied
  <2>2. app' = "up" /\ UNCHANGED <<procs, listening, record, server, births, answer>>
    BY <1>6 DEF StartDenied
  <2> QED
    BY <2>1, <2>2
<1>7. CASE UNCHANGED serverVars
  BY <1>7 DEF serverVars
<1> QED
  BY <1>1, <1>2, <1>3, <1>4, <1>5, <1>6, <1>7

-----------------------------------------------------------------------------
(* The servers on the GPU.                                                  *)

\* At the start of the computer nothing is untraced.
LEMMA InitTraced == ServersAssumption /\ ServerInit => Traced
  BY DEF ServerInit, Traced, NoUnknownServer, Alive

\* A swap or a failed load of the chat model leaves no server behind.
LEMMA ChatTraced ==
  ASSUME ServersAssumption, Known, Traced,
         \/ \E mod \in ChatModels : Spawn(mod)
         \/ WriteRecord \/ WriteFails \/ (\E k \in Kinds : Healthy(k)) \/ Unhealthy
         \/ WaitCancelled \/ Terminate \/ RemoveRecord \/ Complete
  PROVE  Traced'
<1> USE DEF Known, Traced, NoUnknownServer, Recorded, ServerTypeOK, Kinds, ModelsOf, NoServer,
           Server, Proc, Alive, ChildLives, ToStep, ServersAssumption
<1>1. ASSUME NEW mod \in ChatModels, Spawn(mod) PROVE Traced'
  BY <1>1 DEF Spawn, Starts
<1>2. CASE WriteRecord
  BY <1>2 DEF WriteRecord
<1>3. CASE WriteFails
  BY <1>3 DEF WriteFails
<1>4. ASSUME NEW k \in Kinds, Healthy(k) PROVE Traced'
  BY <1>4 DEF Healthy
<1>5. CASE Unhealthy
  BY <1>5 DEF Unhealthy
<1>6. CASE Terminate
  BY <1>6 DEF Terminate, Ended
<1>7. CASE RemoveRecord
  BY <1>7 DEF RemoveRecord
<1>8. CASE Complete
  BY <1>8 DEF Complete, Served
<1>9. CASE WaitCancelled
  BY <1>9 DEF WaitCancelled
<1> QED
  BY <1>1, <1>2, <1>3, <1>4, <1>5, <1>6, <1>7, <1>8, <1>9

\* Nor does one of the embedding model.
LEMMA EmbedTraced ==
  ASSUME ServersAssumption, Known, Traced,
         \/ \E mod \in EmbedModels : EmbedHit(mod) \/ EmbedSpawn(mod)
         \/ EmbedStop \/ EmbedFails \/ EmbedReply
  PROVE  Traced'
<1> USE DEF Known, Traced, NoUnknownServer, Recorded, ServerTypeOK, Kinds, ModelsOf, NoServer,
           Server, Proc, Alive, ChildLives, ToStep, ServersAssumption
<1>1. ASSUME NEW mod \in EmbedModels, EmbedHit(mod) PROVE Traced'
  BY <1>1 DEF EmbedHit, EmbedIdle
<1>2. ASSUME NEW mod \in EmbedModels, EmbedSpawn(mod) PROVE Traced'
  BY <1>2 DEF EmbedSpawn, EmbedIdle, Starts
<1>3. CASE EmbedStop
  BY <1>3 DEF EmbedStop, EmbedIdle, Ended
<1>4. CASE EmbedFails
  BY <1>4 DEF EmbedFails
<1>5. CASE EmbedReply
  BY <1>5 DEF EmbedReply, Served
<1> QED
  BY <1>1, <1>2, <1>3, <1>4, <1>5

\* A crash loses what is not recorded, and the start reaps what is.
LEMMA SystemTraced ==
  ASSUME ServersAssumption, Known, Traced,
         \/ \E p \in Pids : Listen(p) \/ Dies(p) \/ Foreign(p)
         \/ Crash \/ StartUp \/ StartDenied \/ UNCHANGED serverVars
  PROVE  Traced'
<1> USE DEF Known, Traced, NoUnknownServer, Recorded, ServerTypeOK, Kinds, ModelsOf, NoServer,
           Server, Proc, Alive, ChildLives, ToStep, ServersAssumption
<1>1. ASSUME NEW p \in Pids, Listen(p) PROVE Traced'
  BY <1>1 DEF Listen, Ended
<1>2. ASSUME NEW p \in Pids, Dies(p) PROVE Traced'
  BY <1>2 DEF Dies, Ended
<1>3. ASSUME NEW p \in Pids, Foreign(p) PROVE Traced'
  BY <1>3 DEF Foreign, Starts
<1>4. CASE Crash
  BY <1>4 DEF Crash
<1>5. CASE StartUp
  BY <1>5 DEF StartUp, Ended, Recorded
<1>6. CASE StartDenied
  BY <1>6 DEF StartDenied
<1>7. CASE UNCHANGED serverVars
  BY <1>7 DEF serverVars
<1> QED
  BY <1>1, <1>2, <1>3, <1>4, <1>5, <1>6, <1>7

\* With no server lost, who listens on a port is the child of the handle.
LEMMA OwnListener ==
  ASSUME ServersAssumption, Known, Traced, lost = {}, app = "up",
         NEW k \in Kinds, Alive(listening[k])
  PROVE  Served(k) = server[k].model
<1>1. listening[k] \in Pids /\ procs[listening[k]].kind = k
  BY DEF Known, ServerTypeOK, Alive
<1>2. procs[listening[k]].born = server[k].born
  BY <1>1 DEF Traced, NoUnknownServer
<1> QED
  BY <1>1, <1>2 DEF Known, Served

\* So an answer is that of the model asked, when it is given and afterwards.
LEMMA StepAnswered ==
  ASSUME ServersAssumption, Known, Traced, AnsweredByOwnModel, [ServerNext]_serverVars
  PROVE  AnsweredByOwnModel'
<1> USE DEF AnsweredByOwnModel
<1>1. lost' = {} => lost = {}
  BY DEF ServerNext, Spawn, WriteRecord, WriteFails, Healthy, Unhealthy, WaitCancelled, Terminate, RemoveRecord, Complete,
         EmbedHit, EmbedSpawn, EmbedStop, EmbedFails, EmbedReply, Listen, Dies, Foreign, Crash, StartUp,
         StartDenied, serverVars
<1>2. CASE Complete
  <2>1. app = "up" /\ Alive(listening["chat"])
    BY <1>2 DEF Complete, Known, NoServer, Kinds, ServerTypeOK
  <2> QED
    BY <1>1, <1>2, <2>1, OwnListener DEF Complete, Kinds
<1>3. CASE EmbedReply
  <2>1. app = "up"
    BY <1>3 DEF EmbedReply, Known, NoServer, Kinds, ServerTypeOK
  <2>2. CASE Alive(listening["embed"])
    BY <1>1, <1>3, <2>1, <2>2, OwnListener DEF EmbedReply, Kinds
  <2>3. CASE ~Alive(listening["embed"])
    BY <1>1, <1>3, <2>3 DEF EmbedReply
  <2> QED
    BY <2>2, <2>3
<1>4. CASE ~Complete /\ ~EmbedReply
  <2>1. answer' = answer
    BY <1>4 DEF ServerNext, Spawn, WriteRecord, WriteFails, Healthy, Unhealthy, WaitCancelled, Terminate, RemoveRecord,
         EmbedHit, EmbedSpawn, EmbedStop, EmbedFails, Listen, Dies, Foreign, Crash, StartUp,
         StartDenied, serverVars
  <2> QED
    BY <1>1, <2>1
<1> QED
  BY <1>2, <1>3, <1>4

\* The start ends only the process that the record identifies, and that is a chat server.
LEMMA StepReaps ==
  ASSUME ServersAssumption, Known, [ServerNext]_serverVars
  PROVE  StartEndsOwn
<1> SUFFICES ASSUME app = "down", app' = "up", NEW p \in Pids, Alive(p), procs'[p] = Nobody
             PROVE  procs[p].kind = "chat"
  BY DEF StartEndsOwn
<1>1. StartUp \/ StartDenied
  BY DEF ServerNext, Spawn, WriteRecord, WriteFails, Healthy, Unhealthy, WaitCancelled, Terminate, RemoveRecord, Complete,
         EmbedHit, EmbedSpawn, EmbedStop, EmbedFails, EmbedReply, EmbedIdle, Listen, Dies, Foreign,
         Crash, serverVars
<1>2. CASE StartUp
  <2>1. record # Nobody /\ Recorded(record.pid) /\ p = record.pid
    BY <1>2 DEF StartUp, Recorded, Ended, Alive, Known
  <2> QED
    BY <2>1 DEF Known, Recorded
<1>3. CASE StartDenied
  BY <1>3 DEF StartDenied, Alive
<1> QED
  BY <1>1, <1>2, <1>3

-----------------------------------------------------------------------------
(* Theorems                                                                 *)

\* A step keeps births distinct and what the handles and the record know.
LEMMA StepKnown == ServersAssumption /\ Known /\ [ServerNext]_serverVars => Known'
  BY ChatKnown, EmbedKnown, SystemKnown DEF ServerNext

\* A step leaves every server registered, lost, or recorded.
LEMMA StepTraced == ServersAssumption /\ Known /\ Traced /\ [ServerNext]_serverVars => Traced'
  BY ChatTraced, EmbedTraced, SystemTraced DEF ServerNext

\* The steps above, along every behaviour.
LEMMA ServersTraced == ASSUME ServersAssumption PROVE ServerSpec => [](Known /\ Traced)
<1>1. ServerInit => Known /\ Traced
  BY InitKnown, InitTraced
<1>2. Known /\ Traced /\ [ServerNext]_serverVars => (Known /\ Traced)'
  BY StepKnown, StepTraced
<1> QED
  BY <1>1, <1>2, PTL DEF ServerSpec

\* Processes, handles, ports and the record keep their types, pids reused or not.
THEOREM ServersTyped == ASSUME ServersAssumption PROVE ServerSpec => []ServerTypeOK
<1>1. Known => ServerTypeOK
  BY DEF Known
<1> QED
  BY <1>1, ServersTraced, PTL

\* Every server that runs beside the application is the one it has registered, or one
\* that it lost in a crash, with a record it could not write or a reap it was denied.
THEOREM NoServerUnknown == ASSUME ServersAssumption PROVE ServerSpec => []NoUnknownServer
<1>1. Traced => NoUnknownServer
  BY DEF Traced
<1> QED
  BY <1>1, ServersTraced, PTL

\* The start ends no process but a chat server: births, not pids, identify it.
THEOREM ReapsOwn == ASSUME ServersAssumption PROVE ServerSpec => ReapsOnlyItsOwn
<1>1. Known /\ [ServerNext]_serverVars => [StartEndsOwn]_serverVars
  BY StepReaps
<1> QED
  BY <1>1, ServersTraced, PTL DEF ServerSpec, ReapsOnlyItsOwn

\* While no server has been lost, the model that was asked is the one that answers.
THEOREM OwnAnswers == ASSUME ServersAssumption PROVE ServerSpec => []AnsweredByOwnModel
<1>1. ServerInit => AnsweredByOwnModel
  BY DEF ServerInit, AnsweredByOwnModel
<1>2. Known /\ Traced /\ AnsweredByOwnModel /\ [ServerNext]_serverVars => AnsweredByOwnModel'
  BY StepAnswered
<1> QED
  BY <1>1, <1>2, ServersTraced, PTL DEF ServerSpec

=============================================================================
