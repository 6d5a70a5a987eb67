---------------------------- MODULE VoiceSession ----------------------------
(***************************************************************************)
(* The live voice session: the endpoints that start and stop it            *)
(* (backend/app/api/voice_engine.py), the one audio thread that runs what  *)
(* they ask for (run_audio_io and services/voice_engine/realtime.py), the  *)
(* conversion thread of a session, and the GPU that is handed over between *)
(* the session and the worker.  A request can be cancelled in each of its  *)
(* awaits; a call that the audio thread has begun goes on without it.      *)
(***************************************************************************)
EXTENDS Naturals, Sequences, SequencesExt

CONSTANTS
  Starts,  \* POST /session/start requests
  Stops,   \* POST /session/stop requests, and the shutdown's phase
  Cancels, \* TRUE: requests may be cancelled
  None

ASSUME RequestsAssumption ==
  /\ Starts \cap Stops = {}
  /\ None \notin Starts \cup Stops \cup {"worker"}
  /\ "worker" \notin Starts \cup Stops
  /\ Cancels \in BOOLEAN

VARIABLES
  stage,     \* the await each request is suspended in
  life,      \* the request that holds _voice_lifecycle_lock
  cancelled, \* requests that were cancelled
  calls,     \* _AUDIO_IO_EXECUTOR: the requests whose calls it has to run
  audio,     \* what the head of calls is doing: idle, loading, opening, closing
  session,   \* _SESSION, named after the request that started it
  streams,   \* sessions whose PortAudio streams are open
  threads,   \* sessions whose conversion thread runs
  told,      \* sessions whose _stop event is set
  owner,     \* who has the GPU: none, model, voice (the exclusive lane)
  lock,      \* who holds the arbiter's lock: None, a start, or "worker"
  prior,     \* the resident that activate_lane displaced: none, model
  job        \* the worker's job

apiVars == <<stage, life, cancelled>>
deviceVars == <<streams, threads, told>>
audioVars == <<calls, audio, session, deviceVars>>
gpuVars == <<owner, lock, prior>>
vars == <<apiVars, audioVars, gpuVars, job>>

Clients == Starts \cup Stops
Goto(r, s) == stage' = [stage EXCEPT ![r] = s]
Leave(r) == Goto(r, "over") /\ life' = IF life = r THEN None ELSE life

Init ==
  /\ stage = [r \in Clients |-> "new"] /\ life = None /\ cancelled = {}
  /\ calls = <<>> /\ audio = "idle" /\ session = None
  /\ streams = {} /\ threads = {} /\ told = {}
  /\ owner = "none" /\ lock = None /\ prior = "none"
  /\ job = "none"

-----------------------------------------------------------------------------
(* The endpoints                                                           *)

TakeLife(r) ==
  /\ r \in Starts /\ stage[r] = "new" /\ life = None
  /\ life' = r /\ Goto(r, "begun")
  /\ UNCHANGED <<cancelled, audioVars, gpuVars, job>>

\* 409 when a session is live; no model or a missing asset end it too.
StartChecks(r) ==
  /\ stage[r] = "begun"
  /\ \/ session = None /\ Goto(r, "reserve") /\ UNCHANGED life
     \/ Leave(r)
  /\ UNCHANGED <<cancelled, audioVars, gpuVars, job>>

\* _voice_idle_guard: running_job_id is set from _run to its end.
WorkerBusy == job \in {"waiting", "loading", "running", "ending"}

Submit(r) == calls' = Append(calls, r) /\ Goto(r, "audio")

\* Mutant: the request raises past the release of the lifecycle lock.
RefusedKeepsLife(r) ==
  /\ stage[r] = "reserve" /\ lock = None
  /\ Goto(r, "over")
  /\ UNCHANGED <<life, cancelled, audioVars, gpuVars, job>>

\* A conflict: the worker's job, a pin or another lane is in the way.
Refused(r) ==
  /\ stage[r] = "reserve" /\ lock = None
  /\ Leave(r)
  /\ UNCHANGED <<cancelled, audioVars, gpuVars, job>>

\* activate_lane: the worker's job refuses it, a pin or another lane may.
\* A resident is unloaded first; otherwise the lane is there at once.
Reserve(r) ==
  /\ stage[r] = "reserve" /\ lock = None /\ ~WorkerBusy
  /\ prior' = owner
  /\ \/ /\ owner = "model" /\ lock' = r /\ Goto(r, "empty")
        /\ UNCHANGED <<calls, owner>>
     \/ /\ owner = "none" /\ owner' = "voice" /\ Submit(r)
        /\ UNCHANGED lock
  /\ UNCHANGED <<life, cancelled, audio, session, deviceVars, job>>

Reserved(r) ==
  /\ stage[r] = "empty"
  /\ owner' = "voice" /\ lock' = None /\ Submit(r)
  /\ UNCHANGED <<life, cancelled, audio, session, deviceVars, prior, job>>

UnloadFails(r) ==
  /\ stage[r] = "empty"
  /\ owner' \in {"model", "none"} /\ lock' = None /\ Leave(r)
  /\ UNCHANGED <<cancelled, audioVars, prior, job>>

\* Mutant: it looks for itself, and with no session to be seen does not ask.
StopLooksFirst(r) ==
  /\ r \in Stops /\ stage[r] = "new" /\ life = None
  /\ life' = r
  /\ IF session = None THEN Goto(r, "release") /\ UNCHANGED calls ELSE Submit(r)
  /\ UNCHANGED <<cancelled, audio, session, deviceVars, gpuVars, job>>

\* shutdown_voice_session asks the audio thread whether a session is live.
StopCalls(r) ==
  /\ r \in Stops /\ stage[r] = "new" /\ life = None
  /\ life' = r /\ Submit(r)
  /\ UNCHANGED <<cancelled, audio, session, deviceVars, gpuVars, job>>

\* The session is live: the response is sent.
Started(r) ==
  /\ stage[r] = "opened"
  /\ Leave(r)
  /\ UNCHANGED <<cancelled, audioVars, gpuVars, job>>

\* rollback_lane and deactivate_lane remove the lane under the arbiter's lock;
\* a rollback reloads the prior resident before it gives the lock back.
ReleaseLane(r) ==
  /\ stage[r] = "release" /\ lock = None
  /\ owner' = IF owner = "voice" THEN "none" ELSE owner
  /\ IF r \in Starts /\ prior = "model"
     THEN lock' = r /\ Goto(r, "restore") /\ UNCHANGED life
     ELSE Leave(r) /\ UNCHANGED lock
  /\ UNCHANGED <<cancelled, audioVars, prior, job>>

\* A failed load is logged: the response is the failure of the start.
Restore(r) ==
  /\ stage[r] = "restore"
  /\ owner' \in {"model", "none"} /\ lock' = None /\ Leave(r)
  /\ UNCHANGED <<cancelled, audioVars, prior, job>>

-----------------------------------------------------------------------------
(* Cancelling: a CancelledError is raised where the request is suspended   *)

\* Before the lane is there nothing has to be undone.
CancelEarly(r) ==
  /\ stage[r] \in {"new", "begun", "reserve"}
  /\ Leave(r)
  /\ UNCHANGED <<audioVars, gpuVars>>

CancelUnload(r) ==
  /\ stage[r] = "empty"
  /\ owner' \in {"model", "none"} /\ lock' = None /\ Leave(r)
  /\ UNCHANGED <<audioVars, prior>>

Running(r) == calls # <<>> /\ Head(calls) = r /\ audio # "idle"

\* The executor drops a call that it has not begun and finishes one that it
\* has: the handlers give the lane back at once in either case.
CancelCall(r) ==
  /\ stage[r] \in {"audio", "opened"}
  /\ Goto(r, "release")
  /\ \/ \E i \in DOMAIN calls :
          calls[i] = r /\ ~Running(r) /\ calls' = RemoveAt(calls, i)
     \/ (Running(r) \/ stage[r] = "opened") /\ UNCHANGED calls
  /\ UNCHANGED <<life, audio, session, deviceVars, gpuVars>>

\* A second cancellation, of the handler: it is suspended only while another
\* request holds the arbiter's lock, or in the load of the prior resident.
CancelRelease(r) ==
  /\ stage[r] = "release" /\ lock # None
  /\ Leave(r)
  /\ UNCHANGED <<audioVars, gpuVars>>

CancelRestore(r) ==
  /\ stage[r] = "restore"
  /\ owner' = "none" /\ lock' = None /\ Leave(r)
  /\ UNCHANGED <<audioVars, prior>>

Cancel(r) ==
  /\ Cancels
  /\ cancelled' = cancelled \cup {r}
  /\ UNCHANGED job
  /\ \/ CancelEarly(r) \/ CancelUnload(r) \/ CancelCall(r)
     \/ CancelRelease(r) \/ CancelRestore(r)

-----------------------------------------------------------------------------
(* The audio thread                                                        *)

Caller == Head(calls)
Idle == calls # <<>> /\ audio = "idle"

\* The call ends; its request goes on at s unless it was cancelled.
Reply(s) ==
  /\ calls' = Tail(calls) /\ audio' = "idle"
  /\ IF stage[Caller] = "audio" THEN Goto(Caller, s) ELSE UNCHANGED stage

StartCall ==
  /\ Idle /\ Caller \in Starts
  /\ IF session # None
     THEN Reply("release")
     ELSE audio' = "loading" /\ UNCHANGED <<calls, stage>>
  /\ UNCHANGED <<life, cancelled, session, deviceVars, gpuVars, job>>

\* The stream is made and the consumer started before its callbacks are.
OpenDevices ==
  /\ audio = "loading"
  /\ audio' = "opening"
  /\ streams' = streams \cup {Caller} /\ threads' = threads \cup {Caller}
  /\ UNCHANGED <<apiVars, calls, session, told, gpuVars, job>>

OpenOk ==
  /\ audio = "opening"
  /\ session' = Caller
  /\ Reply("opened")
  /\ UNCHANGED <<life, cancelled, deviceVars, gpuVars, job>>

\* Mutant: the exception leaves start_session without the clean-up.
StartFailsOpen ==
  /\ audio \in {"loading", "opening"}
  /\ Reply("release")
  /\ UNCHANGED <<life, cancelled, session, deviceVars, gpuVars, job>>

\* Mutant: the endpoint answers a failed start without a rollback.
StartFailsSilently ==
  /\ audio \in {"loading", "opening"}
  /\ told' = told \cup {Caller} /\ streams' = streams \ {Caller}
  /\ Reply("opened")
  /\ UNCHANGED <<life, cancelled, session, threads, gpuVars, job>>

\* session.stop() in the handler of start_session, which then raises.
StartFails ==
  /\ audio \in {"loading", "opening"}
  /\ told' = told \cup {Caller}
  /\ audio' = "closing"
  /\ UNCHANGED <<apiVars, calls, session, streams, threads, gpuVars, job>>

StopCall ==
  /\ Idle /\ Caller \in Stops
  /\ IF session = None
     THEN Reply("release") /\ UNCHANGED told
     ELSE /\ told' = told \cup {session} /\ audio' = "closing"
          /\ UNCHANGED <<calls, stage>>
  /\ UNCHANGED <<life, cancelled, session, streams, threads, gpuVars, job>>

\* The thread was joined, or the five seconds are over; the streams close.
\* A start that failed closes its own session, which was never published.
Closed ==
  LET closing == IF Caller \in Stops THEN session ELSE Caller
  IN /\ audio = "closing"
     /\ streams' = streams \ {closing}
     /\ session' = IF closing = session THEN None ELSE session
     /\ Reply("release")
     /\ UNCHANGED <<life, cancelled, threads, told, gpuVars, job>>

\* The conversion thread reads its event between two chunks.
ThreadEnds(s) ==
  /\ s \in threads \cap told
  /\ threads' = threads \ {s}
  /\ UNCHANGED <<apiVars, calls, audio, session, streams, told, gpuVars, job>>

-----------------------------------------------------------------------------
(* The worker and the arbiter's other users                                *)

Working(from, to) ==
  /\ job = from /\ job' = to
  /\ UNCHANGED <<apiVars, audioVars, prior>>

\* _pick_next: between its check and _run it waits for the database.
Pick ==
  /\ session = None /\ owner # "voice"
  /\ Working("none", "picked") /\ UNCHANGED <<owner, lock>>

\* _run sets running_job_id and looks for a session again.
BeginRun ==
  /\ Working("picked", IF session # None THEN "ending" ELSE "waiting")
  /\ UNCHANGED <<owner, lock>>

\* Mutant: _ensure_locked trusts the check that _pick_next made.
AcquireUnchecked ==
  /\ lock = None
  /\ Working("waiting", "loading")
  /\ lock' = "worker" /\ UNCHANGED owner

\* acquire: the lane is a conflict, and the job goes back to the queue.
Acquire ==
  /\ lock = None
  /\ \/ /\ owner = "voice"
        /\ Working("waiting", "ending") /\ UNCHANGED <<owner, lock>>
     \/ /\ owner # "voice" /\ lock' = "worker"
        /\ Working("waiting", "loading") /\ UNCHANGED owner

Loaded ==
  /\ owner' = "model" /\ lock' = None
  /\ Working("loading", "running")

LoadFails ==
  /\ owner' \in {"model", "none"} /\ lock' = None
  /\ Working("loading", "ending")

\* The lease is released before running_job_id is.
JobEnds ==
  /\ Working("running", "ending") \/ Working("ending", "none")
  /\ UNCHANGED <<owner, lock>>

\* ensure and free_all of other endpoints: not over a lane nor a lease.
OtherUse ==
  /\ lock = None /\ owner # "voice" /\ job # "running"
  /\ owner' \in {"model", "none"} \ {owner}
  /\ UNCHANGED <<apiVars, audioVars, lock, prior, job>>

Over ==
  /\ \A r \in Clients : stage[r] = "over"
  /\ calls = <<>> /\ threads \cap told = {}
  /\ UNCHANGED vars

-----------------------------------------------------------------------------

Request(r) ==
  \/ TakeLife(r) \/ StartChecks(r) \/ Refused(r) \/ Reserve(r) \/ Reserved(r)
  \/ UnloadFails(r) \/ StopCalls(r) \/ Started(r) \/ ReleaseLane(r) \/ Restore(r)

AudioThread ==
  StartCall \/ OpenDevices \/ OpenOk \/ StartFails \/ StopCall \/ Closed

Worker ==
  Pick \/ BeginRun \/ Acquire \/ Loaded \/ LoadFails \/ JobEnds

Next ==
  \/ \E r \in Clients : Request(r) \/ Cancel(r)
  \/ \E s \in Starts : ThreadEnds(s)
  \/ AudioThread \/ Worker \/ OtherUse \/ Over

Spec == Init /\ [][Next]_vars

\* The audio thread, loads and unloads end (bounded joins and health waits),
\* and asyncio.Lock serves its waiters in order.
FairSpec ==
  /\ Spec
  /\ WF_vars(AudioThread)
  /\ WF_vars(Loaded \/ LoadFails)
  /\ \A r \in Clients :
       /\ WF_vars(Request(r))
       /\ SF_vars(Refused(r) \/ Reserve(r)) /\ SF_vars(ReleaseLane(r))

-----------------------------------------------------------------------------
(* Properties                                                              *)

\* The requests, the audio thread, the devices, the GPU and the worker have
\* their types; only a start or the worker suspends in the arbiter's lock.
TypeOK ==
  /\ stage \in [Clients -> {"new", "begun", "reserve", "empty", "audio",
                            "opened", "release", "restore", "over"}]
  /\ life \in Clients \cup {None} /\ cancelled \subseteq Clients
  /\ calls \in Seq(Clients)
  /\ audio \in {"idle", "loading", "opening", "closing"}
  /\ session \in Starts \cup {None}
  /\ streams \subseteq Starts /\ threads \subseteq Starts /\ told \subseteq Starts
  /\ owner \in {"none", "model", "voice"}
  /\ lock \in Starts \cup {None, "worker"}
  /\ prior \in {"none", "model"}
  /\ job \in {"none", "picked", "waiting", "loading", "running", "ending"}

SessionUsesGpu == session # None \/ audio \in {"loading", "opening"}

\* While no request has been cancelled, a session that is live or being opened
\* has the GPU for itself, whatever the worker decided before the handoff.
VoiceAlone == cancelled = {} /\ SessionUsesGpu => owner = "voice"

\* Once every request is answered the lane stands for a live session: no
\* failed, refused or cancelled request leaves the queue parked behind it.
LaneInUse == owner = "voice" /\ life = None => session # None

Opening == IF audio \in {"loading", "opening", "closing"} THEN {Caller} ELSE {}

\* Streams are open, and conversion threads that nobody told to stop run, only
\* for the live session and the one the audio thread works on: a session that
\* failed to open or whose request has gone leaves neither behind.
NoOrphans == streams \cup (threads \ told) \subseteq {session} \cup Opening

\* A stop that was not cancelled leaves nothing: no session, not even one that
\* a cancelled start was still opening, no open stream, no call, no lane.
StopReleases ==
  [][\A r \in Stops \ cancelled' :
       stage[r] # "over" /\ stage'[r] = "over" =>
         session' = None /\ streams' = {} /\ calls' = <<>> /\ owner' # "voice"]_vars

\* Whoever takes the lifecycle lock gives it back, cancelled or not: the next
\* start or stop is never locked out.
LifeReleased == \A r \in Clients : life = r ~> life # r

\* voice_engine_session_start: "Atomically hand the GPU from the arbiter to a
\* live Voice session": a session is not live without the lane.
HandedOver == session # None => owner = "voice"
=============================================================================
