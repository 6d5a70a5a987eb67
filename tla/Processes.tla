------------------------------ MODULE Processes ------------------------------
(***************************************************************************)
(* The processes and threads that the application starts beside its jobs,  *)
(* in two parts that share no state.                                       *)
(*                                                                         *)
(* The llama-server processes: the chat server of the loaded language      *)
(* model (backends/llm_llamacpp.py), which a pid file records so that the  *)
(* next start can end it (util/pidfiles.py), and the embedding server      *)
(* (services/embedding_service.py), which nothing records.  A server       *)
(* listens on its kind's fixed port when no other does, and exits when one *)
(* does.  The operating system reuses pids; born stands for a process's    *)
(* start time, executable and command line.                                *)
(*                                                                         *)
(* Speech synthesis and transcription on request (api/tts.py with its      *)
(* llama-tts process, api/transcription.py with its thread), the GPU lane  *)
(* that each takes by the kind of its work, the exclusive lane of a live   *)
(* voice session, and the files that are left in outputs.  The settings    *)
(* put both kinds on the GPU; on the CPU there is no lane.  One await is   *)
(* one step: between any two of them other requests run, and at any of     *)
(* them the request may be cancelled.                                      *)
(***************************************************************************)
EXTENDS Naturals, FiniteSets

CONSTANTS
  Pids, ChatModels, EmbedModels,
  MaxBorn,   \* bound: processes that ever start
  Nobody

ServersAssumption ==
  MaxBorn \in Nat /\ ChatModels \cap EmbedModels = {}
  /\ Nobody \notin Nat \cup Pids \cup ChatModels \cup EmbedModels

ASSUME ServersAssumption

Kinds == {"chat", "embed"}
ModelsOf(k) == IF k = "chat" THEN ChatModels ELSE EmbedModels

VARIABLES
  procs,      \* procs[pid]: the live process: its kind, model and birth
  listening,  \* listening[k]: the pid that answers on the port of kind k
  record,     \* llama-server.pid
  app,        \* the application: "up" or "down"
  server,     \* server[k]: _proc, a handle on one process, _model_id and what the
              \* load has come to
  births,     \* processes started so far
  answer,     \* history: the last answer: the model asked and the one that spoke
  lost        \* history: births of servers that the application lost

serverVars == <<procs, listening, record, app, server, births, answer, lost>>

NoServer == [step |-> "none", model |-> Nobody, pid |-> Nobody, born |-> Nobody]
Alive(p) == p # Nobody /\ procs[p] # Nobody
\* _proc.returncode is None: the child itself, not what may have its pid by now.
ChildLives(k) == Alive(server[k].pid) /\ procs[server[k].pid].born = server[k].born
Served(k) == IF Alive(listening[k]) THEN procs[listening[k]].model ELSE Nobody

ServerInit ==
  /\ procs = [p \in Pids |-> Nobody] /\ listening = [k \in Kinds |-> Nobody]
  /\ record = Nobody /\ app = "down" /\ server = [k \in Kinds |-> NoServer]
  /\ births = 0 /\ answer = [asked |-> Nobody, by |-> Nobody] /\ lost = {}

\* The process p has ended.
Ended(p) ==
  /\ procs' = [procs EXCEPT ![p] = Nobody]
  /\ listening' = [k \in Kinds |-> IF listening[k] = p THEN Nobody ELSE listening[k]]

\* A child keeps its pid until the loop has reaped it, so until the record.
Starts(p, k, mod) ==
  /\ procs[p] = Nobody /\ births < MaxBorn
  /\ ~(server["chat"].step = "spawned" /\ server["chat"].pid = p)
  /\ births' = births + 1
  /\ procs' = [procs EXCEPT ![p] = [kind |-> k, model |-> mod, born |-> births]]

ToStep(k, s) == server' = [server EXCEPT ![k].step = s]

-----------------------------------------------------------------------------
(* Loading and unloading the chat model; the arbiter admits one at a time  *)

Spawn(mod) ==
  /\ app = "up" /\ server["chat"].step = "none"
  /\ \E p \in Pids :
       /\ Starts(p, "chat", mod)
       /\ server' = [server EXCEPT !["chat"] =
                     [step |-> "spawned", model |-> mod, pid |-> p, born |-> births]]
  /\ UNCHANGED <<listening, record, app, answer, lost>>

\* A child that is gone by now leaves a record without identity.
WriteRecord ==
  /\ server["chat"].step = "spawned"
  /\ LET p == server["chat"].pid IN
       record' = [pid |-> p, born |-> IF Alive(p) THEN procs[p].born ELSE Nobody]
  /\ ToStep("chat", "waiting")
  /\ UNCHANGED <<procs, listening, app, births, answer, lost>>

\* The disk is full or the folder read-only: load raises and forgets the child.
WriteFails ==
  /\ server["chat"].step = "spawned"
  /\ LET p == server["chat"].pid IN
       lost' = IF Alive(p) THEN lost \cup {procs[p].born} ELSE lost
  /\ server' = [server EXCEPT !["chat"] = NoServer]
  /\ UNCHANGED <<procs, listening, record, app, births, answer>>

\* _wait_healthy: the child lives and somebody answers on the port.
Healthy(k) ==
  /\ server[k].step = "waiting" /\ ChildLives(k) /\ Alive(listening[k])
  /\ ToStep(k, IF k = "chat" THEN "loaded" ELSE "asking")
  /\ UNCHANGED <<procs, listening, record, app, births, answer, lost>>

\* The child has exited, the deadline has passed, or unload was called.
Unhealthy ==
  /\ server["chat"].step \in {"waiting", "loaded"}
  /\ ToStep("chat", "cleanup")
  /\ UNCHANGED <<procs, listening, record, app, births, answer, lost>>

\* A cancellation is no Exception, and unload does nothing for what is not
\* loaded: the next load puts its own child in the place of this one.
WaitCancelled ==
  /\ server["chat"].step = "waiting"
  /\ LET p == server["chat"].pid IN
       lost' = IF ChildLives("chat") THEN lost \cup {procs[p].born} ELSE lost
  /\ server' = [server EXCEPT !["chat"] = NoServer]
  /\ UNCHANGED <<procs, listening, record, app, births, answer>>

\* Mutant: the process is asked to terminate and not waited for.
TerminateOnly ==
  /\ server["chat"].step = "cleanup"
  /\ ToStep("chat", "ended")
  /\ UNCHANGED <<procs, listening, record, app, births, answer, lost>>

\* _cleanup_process: terminate, wait, kill and wait.
Terminate ==
  /\ server["chat"].step = "cleanup"
  /\ IF ChildLives("chat") THEN Ended(server["chat"].pid)
     ELSE UNCHANGED <<procs, listening>>
  /\ ToStep("chat", "ended")
  /\ UNCHANGED <<record, app, births, answer, lost>>

RemoveRecord ==
  /\ server["chat"].step = "ended"
  /\ record' = Nobody /\ server' = [server EXCEPT !["chat"] = NoServer]
  /\ UNCHANGED <<procs, listening, app, births, answer, lost>>

\* A completion asks whoever listens; without anybody it fails.
Complete ==
  /\ server["chat"].step = "loaded" /\ Alive(listening["chat"])
  /\ answer' = [asked |-> server["chat"].model, by |-> Served("chat")]
  /\ UNCHANGED <<procs, listening, record, app, server, births, lost>>

-----------------------------------------------------------------------------
(* Embedding requests, one at a time                                       *)

EmbedIdle == app = "up" /\ server["embed"].step \in {"none", "ready"}

\* The registered server runs this model: no wait, also after a failed one.
EmbedHit(mod) ==
  /\ EmbedIdle /\ ChildLives("embed") /\ server["embed"].model = mod
  /\ ToStep("embed", "asking")
  /\ UNCHANGED <<procs, listening, record, app, births, answer, lost>>

\* _stop_locked, for another model, a dead server or at shutdown.
EmbedStop ==
  /\ EmbedIdle /\ server["embed"].step = "ready"
  /\ IF ChildLives("embed") THEN Ended(server["embed"].pid)
     ELSE UNCHANGED <<procs, listening>>
  /\ server' = [server EXCEPT !["embed"] = NoServer]
  /\ UNCHANGED <<record, app, births, answer, lost>>

EmbedSpawn(mod) ==
  /\ EmbedIdle /\ server["embed"].step = "none"
  /\ \E p \in Pids :
       /\ Starts(p, "embed", mod)
       /\ server' = [server EXCEPT !["embed"] =
                     [step |-> "waiting", model |-> mod, pid |-> p, born |-> births]]
  /\ UNCHANGED <<listening, record, app, answer, lost>>

\* Mutant: a failed wait forgets the process.
EmbedForgotten ==
  /\ server["embed"].step = "waiting"
  /\ server' = [server EXCEPT !["embed"] = NoServer]
  /\ UNCHANGED <<procs, listening, record, app, births, answer, lost>>

\* The child exited or the deadline passed: it stays registered.
EmbedFails ==
  /\ server["embed"].step = "waiting"
  /\ ToStep("embed", "ready")
  /\ UNCHANGED <<procs, listening, record, app, births, answer, lost>>

EmbedReply ==
  /\ server["embed"].step = "asking"
  /\ answer' = IF Alive(listening["embed"])
               THEN [asked |-> server["embed"].model, by |-> Served("embed")] ELSE answer
  /\ ToStep("embed", "ready")
  /\ UNCHANGED <<procs, listening, record, app, births, lost>>

-----------------------------------------------------------------------------
(* Processes, crashes and the next start                                   *)

\* A server that has loaded its model takes the port, or exits.
Listen(p) ==
  /\ Alive(p) /\ procs[p].kind \in Kinds
  /\ LET k == procs[p].kind IN
       IF listening[k] = Nobody
       THEN listening' = [listening EXCEPT ![k] = p] /\ UNCHANGED procs
       ELSE listening[k] # p /\ Ended(p)
  /\ UNCHANGED <<record, app, server, births, answer, lost>>

\* A server crashes; a foreign process ends.
Dies(p) ==
  /\ Alive(p) /\ Ended(p)
  /\ UNCHANGED <<record, app, server, births, answer, lost>>

\* Something else runs under a pid that is free, another llama-server perhaps.
Foreign(p) ==
  /\ Starts(p, "other", Nobody)
  /\ UNCHANGED <<listening, record, app, server, answer, lost>>

\* Mutant: a live process with the pid and the name is ours.
RecordedByPid(p) == record # Nobody /\ record.pid = p

Recorded(p) == record # Nobody /\ record.pid = p /\ record.born = procs[p].born

\* The application dies, or leaves before its shutdown phases have finished.
Crash ==
  /\ app = "up"
  /\ app' = "down" /\ server' = [k \in Kinds |-> NoServer]
  /\ lost' = lost \cup
       {procs[p].born : p \in {x \in Pids : Alive(x) /\ procs[x].kind \in Kinds /\ ~Recorded(x)}}
  /\ UNCHANGED <<procs, listening, record, births, answer>>

\* lifespan: reap_known_pidfiles.  A record of a dead process goes, one of a
\* process that is not the recorded child stays.
StartUp ==
  /\ app = "down" /\ app' = "up"
  /\ CASE record = Nobody -> UNCHANGED <<procs, listening, record>>
       [] record # Nobody /\ procs[record.pid] = Nobody ->
            record' = Nobody /\ UNCHANGED <<procs, listening>>
       [] record # Nobody /\ procs[record.pid] # Nobody /\ Recorded(record.pid) ->
            Ended(record.pid) /\ record' = Nobody
       [] OTHER -> UNCHANGED <<procs, listening, record>>
  /\ UNCHANGED <<server, births, answer, lost>>

\* psutil may not read the process.
StartDenied ==
  /\ app = "down" /\ record # Nobody /\ procs[record.pid] # Nobody
  /\ app' = "up"
  /\ lost' = lost \cup {procs[record.pid].born}
  /\ UNCHANGED <<procs, listening, record, server, births, answer>>

ServerNext ==
  \/ \E mod \in ChatModels : Spawn(mod)
  \/ WriteRecord \/ WriteFails \/ (\E k \in Kinds : Healthy(k)) \/ Unhealthy \/ WaitCancelled
  \/ Terminate \/ RemoveRecord \/ Complete
  \/ \E mod \in EmbedModels : EmbedHit(mod) \/ EmbedSpawn(mod)
  \/ EmbedStop \/ EmbedFails \/ EmbedReply
  \/ \E p \in Pids : Listen(p) \/ Dies(p) \/ Foreign(p)
  \/ Crash \/ StartUp \/ StartDenied

ServerSpec == ServerInit /\ [][ServerNext]_serverVars

-----------------------------------------------------------------------------
(* Properties                                                              *)

\* A process has a kind and a birth, a registered server a pid, and each port
\* one of the live processes of its kind.
ServerTypeOK ==
  /\ app \in {"up", "down"} /\ births \in 0..MaxBorn /\ lost \subseteq 0..(MaxBorn - 1)
  /\ \A p \in Pids : Alive(p) => procs[p].kind \in {"chat", "embed", "other"} /\ procs[p].born < births
  /\ \A k \in Kinds :
       /\ server[k].step = "none" <=> server[k].pid = Nobody
       /\ server[k].model \in ModelsOf(k) \cup {Nobody}
       /\ listening[k] # Nobody => Alive(listening[k]) /\ procs[listening[k]].kind = k
  /\ record # Nobody => record.pid \in Pids

\* reap_pidfile's promise: the start ends no process but the very chat server
\* that an earlier run recorded, whatever has taken its pid meanwhile.
StartEndsOwn ==
  app = "down" /\ app' = "up" =>
    \A p \in Pids : Alive(p) /\ procs'[p] = Nobody => procs[p].kind = "chat"

ReapsOnlyItsOwn == [][StartEndsOwn]_serverVars

\* Every server that runs beside the application is the one it has registered,
\* unless a crash, a failed record, a cancelled load or a denied reap has lost
\* it: failed health waits and swaps leave nothing behind on the GPU.
NoUnknownServer ==
  app = "up" => \A p \in Pids :
    Alive(p) /\ procs[p].kind \in Kinds =>
      procs[p].born \in {server[procs[p].kind].born} \cup lost

\* While no server has been lost, a completion comes from the model that is
\* loaded and an embedding from the model asked for, although both are sent to
\* a port that the next server takes over.
AnsweredByOwnModel == lost = {} => answer.asked = answer.by

-----------------------------------------------------------------------------
(* Speech synthesis and transcription                                      *)

CONSTANTS
  Syntheses,       \* POST /api/tts/generate requests
  Transcriptions,  \* POST /api/transcription/transcribe requests
  MaxSessions,     \* bound: voice sessions
  MaxDeaths        \* bound: times the server dies

ASSUME SpeechAssumption ==
  /\ Syntheses \cap Transcriptions = {}
  /\ Nobody \notin Syntheses \cup Transcriptions \cup {"partial", "whole", "done", "ok"}
  /\ {MaxSessions, MaxDeaths} \subseteq Nat

VARIABLES
  stage,     \* the await a request is suspended in, "new" or "over"
  outcome,   \* what it will answer, Nobody before it is known
  lanes,     \* _lanes: the kinds of work that are registered, and "voice"
  working,   \* requests whose process or thread is on the GPU
  audio,     \* a request's audio in outputs: Nobody, "partial", "whole"
  meta,      \* its metadata file: Nobody, "partial", "whole"
  sessions,  \* voice sessions started
  deaths,
  shared,    \* history: two requests of one kind had their lane at a time
  strays,    \* history: work that nobody waits for any more
  deserted   \* history: kinds whose lane a cancelled request could not leave

speechVars == <<stage, outcome, lanes, working, audio, meta, sessions, deaths, shared, strays, deserted>>
files == <<audio, meta>>
voice == <<sessions, deaths>>
Requests == Syntheses \cup Transcriptions
Kind(r) == IF r \in Syntheses THEN "tts" ELSE "transcribe"
Goto(r, s) == stage' = [stage EXCEPT ![r] = s]
Answer(r, o) == outcome' = [outcome EXCEPT ![r] = o]

SpeechInit ==
  /\ stage = [r \in Requests |-> "new"] /\ outcome = [r \in Requests |-> Nobody]
  /\ lanes = {} /\ working = {} /\ audio = [r \in Requests |-> Nobody] /\ meta = [r \in Requests |-> Nobody]
  /\ sessions = 0 /\ deaths = 0 /\ shared = {} /\ strays = {} /\ deserted = {}

\* The binary or engine, the text or upload, or the model is missing: an error.
Check(r) ==
  /\ stage[r] = "new"
  /\ \/ Goto(r, IF r \in Syntheses THEN "lane" ELSE "upload") /\ UNCHANGED outcome
     \/ Goto(r, "over") /\ Answer(r, "refused")
  /\ UNCHANGED <<lanes, working, files, voice, shared, strays, deserted>>

\* The audio to transcribe is kept in outputs before anything else.
Upload(r) ==
  /\ stage[r] = "upload" /\ Goto(r, "lane")
  /\ audio' = [audio EXCEPT ![r] = "whole"]
  /\ UNCHANGED <<outcome, lanes, working, meta, voice, shared, strays, deserted>>

Holding(kind) == {r \in Requests : stage[r] \in {"spawn", "running", "leaving"} /\ Kind(r) = kind}

\* activate_lane: one lane for a kind, whoever takes it; a voice session that
\* has its own keeps the others out.
TakeLane(r) ==
  /\ stage[r] = "lane"
  /\ IF "voice" \in lanes
     THEN Goto(r, "over") /\ Answer(r, "conflict") /\ UNCHANGED <<lanes, shared>>
     ELSE /\ lanes' = lanes \cup {Kind(r)} /\ Goto(r, "spawn") /\ UNCHANGED outcome
          /\ shared' = IF Holding(Kind(r)) = {} THEN shared ELSE shared \cup Holding(Kind(r)) \cup {r}
  /\ UNCHANGED <<working, files, voice, strays, deserted>>

\* The process or the thread starts, or cannot.
Start(r) ==
  /\ stage[r] = "spawn"
  /\ \/ Goto(r, "running") /\ working' = working \cup {r} /\ UNCHANGED outcome
     \/ Goto(r, "leaving") /\ Answer(r, "failed") /\ UNCHANGED working
  /\ UNCHANGED <<lanes, files, voice, shared, strays, deserted>>

\* llama-tts writes its output as it goes.
WriteAudio(r) ==
  /\ r \in working \cap Syntheses /\ audio[r] = Nobody
  /\ audio' = [audio EXCEPT ![r] = "partial"]
  /\ UNCHANGED <<stage, outcome, lanes, working, meta, voice, shared, strays, deserted>>

Written(r) == IF r \in Syntheses THEN [audio EXCEPT ![r] = "whole"] ELSE audio

\* The work ends; whoever waits for it, if anybody does, goes on.
Finish(r) ==
  /\ r \in working /\ working' = working \ {r} /\ strays' = strays \ {r}
  /\ IF stage[r] = "running"
     THEN /\ Goto(r, "leaving")
          /\ \/ Answer(r, "done") /\ audio' = Written(r)
             \/ Answer(r, "failed") /\ UNCHANGED audio
     ELSE UNCHANGED <<stage, outcome>> /\ audio' \in {audio, Written(r)}
  /\ UNCHANGED <<lanes, meta, voice, shared, deserted>>

\* wait_for gives up: the process is still there and so is the thread, which
\* nothing can stop.
TimeOut(r) ==
  /\ stage[r] = "running" /\ Goto(r, "leaving") /\ Answer(r, "timeout")
  /\ strays' = strays \cup {r}
  /\ UNCHANGED <<lanes, working, files, voice, shared, deserted>>

\* Mutant: the metadata are written of whatever the process has left.
AfterLaneRecords(r) ==
  CASE outcome[r] = "timeout" /\ r \in Syntheses -> "kill"
    [] outcome[r] \in {"failed", "done"} -> "record"
    [] OTHER -> "over"

\* What a way out of the lane leads to.
AfterLane(r) ==
  CASE outcome[r] = "timeout" /\ r \in Syntheses -> "kill"
    [] outcome[r] = "failed" /\ r \in Syntheses -> "unlink"
    [] outcome[r] = "done" -> "record"
    [] OTHER -> "over"

\* Mutant: the lane stays when the work has failed.
LeaveLaneWhenDone(r) ==
  /\ stage[r] = "leaving" /\ Goto(r, AfterLane(r))
  /\ lanes' = IF outcome[r] = "failed" THEN lanes ELSE lanes \ {Kind(r)}
  /\ UNCHANGED <<outcome, working, files, voice, shared, strays, deserted>>

\* deactivate_lane, on every way out of the lane: once it has the arbiter's lock.
LeaveLane(r) ==
  /\ stage[r] = "leaving" /\ lanes' = lanes \ {Kind(r)} /\ deserted' = deserted \ {Kind(r)}
  /\ Goto(r, AfterLane(r))
  /\ UNCHANGED <<outcome, working, files, voice, shared, strays>>

\* Mutant: the lane is left before the work has ended, and nothing else known of it.
AbandonUnseen(r) ==
  /\ stage[r] = "running" /\ Goto(r, "leaving") /\ Answer(r, "cancelled")
  /\ UNCHANGED <<lanes, working, files, voice, shared, strays, deserted>>

\* The request is cancelled where it waits for its work: CancelledError is caught
\* neither by except TimeoutError nor by except OSError, so that the lane is left
\* and llama-tts goes on, as the thread of a transcription does.
Abandon(r) ==
  /\ stage[r] = "running" /\ Goto(r, "leaving") /\ Answer(r, "cancelled")
  /\ strays' = strays \cup {r}
  /\ UNCHANGED <<lanes, working, files, voice, shared, deserted>>

\* It is cancelled before: the upload is written in its thread or not begun, a
\* process that is being started is killed by asyncio, and a thread that has not
\* begun never does.
CancelEarly(r) ==
  /\ \/ stage[r] \in {"upload", "lane"} /\ Goto(r, "over")
     \/ stage[r] = "spawn" /\ Goto(r, "leaving")
  /\ Answer(r, "cancelled")
  /\ \/ stage[r] = "upload" /\ audio' = [audio EXCEPT ![r] = "whole"]
     \/ UNCHANGED audio
  /\ UNCHANGED <<lanes, working, meta, voice, shared, strays, deserted>>

\* It is cancelled while it waits for the arbiter's lock to leave its lane, which
\* stays; what would have come after is left out, the kill of a timeout with it.
CancelLeaving(r) ==
  /\ stage[r] = "leaving" /\ Goto(r, "over") /\ Answer(r, "cancelled")
  /\ deserted' = deserted \cup ({Kind(r)} \cap lanes)
  /\ UNCHANGED <<lanes, working, files, voice, shared, strays>>

\* It is cancelled while the thread writes the metadata, which goes on.
CancelRecord(r) ==
  /\ stage[r] = "record" /\ Goto(r, "over") /\ Answer(r, "cancelled")
  /\ meta' \in {meta, [meta EXCEPT ![r] = "whole"]}
  /\ UNCHANGED <<lanes, working, audio, voice, shared, strays, deserted>>

Cancel(r) == Abandon(r) \/ CancelEarly(r) \/ CancelLeaving(r) \/ CancelRecord(r)

\* Mutant: the request is answered and the process goes on.
KillNothing(r) ==
  /\ stage[r] = "kill" /\ Goto(r, "over")
  /\ UNCHANGED <<outcome, lanes, working, files, voice, shared, strays, deserted>>

\* A process that has timed out is killed after its lane was left.
Kill(r) ==
  /\ stage[r] = "kill" /\ working' = working \ {r} /\ strays' = strays \ {r}
  /\ Goto(r, "over")
  /\ UNCHANGED <<outcome, lanes, files, voice, shared, deserted>>

\* What a failed synthesis wrote is deleted.
Unlink(r) ==
  /\ stage[r] = "unlink" /\ Goto(r, "over")
  /\ audio' = [audio EXCEPT ![r] = Nobody]
  /\ UNCHANGED <<outcome, lanes, working, meta, voice, shared, strays, deserted>>

\* The metadata is written in a thread, and the request answered.
Record(r) ==
  /\ stage[r] = "record"
  /\ \/ meta[r] = Nobody /\ meta' = [meta EXCEPT ![r] = "partial"] /\ UNCHANGED <<stage, outcome>>
     \/ /\ meta[r] = "partial" /\ meta' = [meta EXCEPT ![r] = "whole"]
        /\ Goto(r, "over") /\ Answer(r, "ok")
  /\ UNCHANGED <<lanes, working, audio, voice, shared, strays, deserted>>

\* Mutant: a voice session looks for another session only.
StartVoiceBeside ==
  /\ sessions < MaxSessions /\ "voice" \notin lanes
  /\ lanes' = lanes \cup {"voice"} /\ sessions' = sessions + 1
  /\ UNCHANGED <<stage, outcome, working, files, deaths, shared, strays, deserted>>

\* A voice session: its lane is refused while another is registered.
StartVoice ==
  /\ sessions < MaxSessions /\ lanes = {}
  /\ lanes' = {"voice"} /\ sessions' = sessions + 1
  /\ UNCHANGED <<stage, outcome, working, files, deaths, shared, strays, deserted>>

StopVoice ==
  /\ "voice" \in lanes /\ lanes' = lanes \ {"voice"}
  /\ UNCHANGED <<stage, outcome, working, files, voice, shared, strays, deserted>>

\* The server dies and is started again: its threads are gone, a llama-tts
\* process has no pid file and runs on.
Die ==
  /\ deaths < MaxDeaths /\ deaths' = deaths + 1
  /\ lanes' = {} /\ deserted' = {}
  /\ stage' = [r \in Requests |-> IF stage[r] = "new" THEN "new" ELSE "over"]
  /\ outcome' = [r \in Requests |-> IF stage[r] \in {"new", "over"} THEN outcome[r] ELSE "lost"]
  /\ working' = working \cap Syntheses /\ strays' = working \cap Syntheses
  /\ UNCHANGED <<files, sessions, shared>>

SpeechNext ==
  \/ \E r \in Requests :
       Check(r) \/ Upload(r) \/ TakeLane(r) \/ Start(r) \/ WriteAudio(r) \/ Finish(r) \/ TimeOut(r)
       \/ LeaveLane(r) \/ Kill(r) \/ Unlink(r) \/ Record(r) \/ Cancel(r)
  \/ StartVoice \/ StopVoice \/ Die

SpeechSpec == SpeechInit /\ [][SpeechNext]_speechVars

-----------------------------------------------------------------------------
Stages == {"new", "upload", "lane", "spawn", "running", "leaving", "kill", "unlink", "record", "over"}
Outcomes == {Nobody, "refused", "conflict", "failed", "timeout", "cancelled", "done", "ok", "lost"}

\* The values of the variables: the exclusive lane has no other beside it.
SpeechTypeOK ==
  /\ stage \in [Requests -> Stages] /\ outcome \in [Requests -> Outcomes]
  /\ lanes \subseteq {"tts", "transcribe"} \/ lanes = {"voice"}
  /\ working \subseteq Requests
  /\ audio \in [Requests -> {Nobody, "partial", "whole"}] /\ meta \in [Requests -> {Nobody, "partial", "whole"}]
  /\ sessions \in 0..MaxSessions /\ deaths \in 0..MaxDeaths
  /\ shared \subseteq Requests /\ strays \subseteq Requests
  /\ deserted \subseteq lanes \cap {"tts", "transcribe"}

\* A lane is scoped "so it is always released, even if the work raises": the GPU
\* is not shown as busy for ever, nor a voice session refused, since a kind's
\* lane is registered only while one of its requests has not left it
\* (gpu_lane; not so when the request is cancelled on its way out).
LaneReleased == \A kind \in lanes \ {"voice"} : Holding(kind) # {}

\* A kind's lane is registered only while one of its requests has not left it,
\* whether it ended, failed, timed out or was cancelled at its work, or until the
\* next one leaves when one was cancelled while it waited for the arbiter's lock.
LanesLeft == \A kind \in lanes \ {"voice"} : Holding(kind) # {} \/ kind \in deserted

\* "A live voice session, GPU TTS, or GPU transcribe reports an active label",
\* unless two requests of the kind shared the lane or nobody waits for the work
\* any more; so a voice session has the GPU to itself but for these.
ShownUnlessShared == \A r \in working \ (shared \cup strays) : Kind(r) \in lanes /\ "voice" \notin lanes

\* Work goes on without a request that waits for it only where the request has
\* timed out, was cancelled or died with the server; and a synthesis that times
\* out is killed before its request is answered.  That of a cancelled request is
\* not: llama-tts goes on, with its lane left.
NoneForgotten ==
  \A r \in working :
    stage[r] # "running" =>
      r \in strays /\ (stage[r] = "over" => r \in Transcriptions \/ outcome[r] \in {"lost", "cancelled"})

\* What is answered is there: the audio whole and its metadata with it; and the
\* metadata names no audio that was cut off.
ResultsWhole ==
  /\ \A r \in Requests : outcome[r] = "ok" => audio[r] = "whole" /\ meta[r] = "whole"
  /\ \A r \in Requests : meta[r] # Nobody => audio[r] = "whole"
=============================================================================
