------------------------------ MODULE Arbiter ------------------------------
(***************************************************************************)
(* GpuArbiter (backend/app/core/arbiter.py): the one owner of the GPU.     *)
(* A request holds the arbiter's asyncio lock from its first check to its  *)
(* last assignment, but suspends inside it whenever a backend loads, parks *)
(* or unloads.  op is the request that holds the lock; op.stage says which *)
(* await it is suspended in.  Between two awaits the event loop runs one   *)
(* request only; such a stretch is cut into a few short steps here         *)
(* ("ensure", "admit", "drain", "restore", "done", "raise"), which shows   *)
(* lock-free readers more states than they can see and hides none.         *)
(* EventBus.publish never suspends, so publishing is left out, and a       *)
(* request that is refused changes nothing and has no action.              *)
(***************************************************************************)
EXTENDS FiniteSets, Naturals

CONSTANTS
  Backends,    \* GpuBackend objects, one per model
  Servers,     \* those that run a llama-server process (GGUF models)
  Parkable,    \* those with can_keep_warm: diffusers image pipelines
  Fixed,       \* those whose parts may be on the GPU without offload hooks
  Direct,      \* those ensure() is called for (only the tests call it)
  Owners,      \* job ids that may lease a backend
  Pins,        \* ids under which a resident may be pinned
  SharedLanes, \* "tts", "transcribe": reported, not exclusive
  Requests,    \* HTTP requests that run inside a shared lane
  VoiceLane,   \* the exclusive lane of the realtime voice session
  Configs,     \* llama launch configurations
  PoolMax,     \* settings.keep_warm_max_models
  MaxLost,     \* bound: backends adrift or astray at a time
  LateRecycle, \* TRUE: after_job may rebuild a pipeline whose acquire failed
  None

ASSUME BackendsAssumption ==
  /\ Servers \subseteq Backends
  /\ Parkable \subseteq Backends /\ Fixed \subseteq Parkable
  /\ Direct \subseteq Backends
  /\ Servers \cap Parkable = {}
  /\ None \notin Backends
ASSUME ClientsAssumption ==
  /\ VoiceLane \notin SharedLanes /\ VoiceLane \notin Backends /\ VoiceLane # None
  /\ None \notin Owners /\ None \notin Pins /\ None \notin SharedLanes
ASSUME BoundsAssumption ==
  /\ PoolMax \in Nat /\ MaxLost \in Nat
  /\ Configs # {}
  /\ LateRecycle \in BOOLEAN

VARIABLES
  current,   \* _current
  pool,      \* _warm_backends
  pin,       \* _resident_pin
  uses,      \* _active_uses
  lanes,     \* _lanes (ids; a lane id always carries the same label)
  exclusive, \* _exclusive_lanes
  loaded,    \* backends whose _loaded flag is set
  warm,      \* backends whose _warm flag is set
  vram,      \* backends whose weights really occupy the GPU
  launched,  \* launch configuration each loaded server was started with
  saved,     \* history: servers that settings were saved under or while loading
  adrift,    \* history: backends whose weights a failed call left on the GPU, or
             \* which were loaded without a seat, until they get one or unload
  strays,    \* history: backends with a process or a thread of a cancelled call,
             \* which nothing waits for any more
  config,    \* settings.llama_ctx / ngl / backend / context_type
  wants,     \* the model of the job the worker has picked
  running,   \* Worker._current_job_id, read by the idle guards
  work,      \* how far it is: new, using (inside backend.generate()), over (in
             \* its finally block), refused (ArbiterConflict), left
  stopping,  \* the lifespan's shutdown has begun: no HTTP request is left
  users,     \* lane each shared-lane request is inside, or None
  handoff,   \* the voice session: none, starting, live
  prior,     \* resident the voice handoff displaced
  op         \* request holding _lock

backendVars == <<loaded, warm, vram, launched, saved, adrift, strays>>
ownerVars == <<current, pool, pin, uses>>
laneVars == <<lanes, exclusive, users, handoff, prior>>
jobVars == <<wants, running, work, stopping>>
vars == <<ownerVars, laneVars, backendVars, jobVars, config, op>>

-----------------------------------------------------------------------------
Pin == [id : Pins, model : Backends]

Kinds == {"idle", "closed", "ensure", "acquire", "free_all", "shutdown",
          "release_pin", "ensure_pinned", "reconfigure", "activate", "rollback"}
Syncs == {"ensure", "admit", "drain", "restore", "done", "raise", "conflict"}
Awaits == {"park", "unload", "evict", "load", "profile", "cleanup"}

\* A request: who asks (by), the backend it wants (target), the warm backend
\* it is unloading (victim), and, for those that may have to put it back, the
\* resident and the pin it found (old, oldPin).
Request(kind, by, target, stage) ==
  [kind |-> kind, by |-> by, target |-> target, stage |-> stage, victim |-> None,
   old |-> IF kind \in {"ensure_pinned", "activate"} THEN current ELSE None,
   oldPin |-> IF kind \in {"ensure_pinned", "release_pin"} THEN pin ELSE None,
   restoring |-> FALSE]

Resting(kind) ==
  [kind |-> kind, by |-> None, target |-> None, stage |-> "rest",
   victim |-> None, old |-> None, oldPin |-> None, restoring |-> FALSE]

Idle == Resting("idle")
Closed == Resting("closed")

\* Mutant: the rollback asks for the new model again.
IncomingForgetsOld == op.target

Incoming == IF op.restoring THEN op.old ELSE op.target
InUse == \E o \in Owners : uses[o] # None
Goto(stage) == op' = [op EXCEPT !.stage = stage]
AwaitIn(stage, b) == op' = [op EXCEPT !.stage = stage, !.victim = b]

Init ==
  /\ current = None /\ pool = {} /\ pin = None
  /\ uses = [o \in Owners |-> None]
  /\ lanes = {} /\ exclusive = {}
  /\ loaded = {} /\ warm = {} /\ vram = {}
  /\ config \in Configs
  /\ launched = [b \in Servers |-> None] /\ saved = {}
  /\ adrift = {} /\ strays = {}
  /\ wants = None /\ running = None /\ work = "left" /\ stopping = FALSE
  /\ users = [r \in Requests |-> None]
  /\ handoff = "none" /\ prior = None
  /\ op = Idle

-----------------------------------------------------------------------------
(* Requests that wait for the lock and take it.                            *)

Ensure(b) ==
  /\ op = Idle
  /\ op' = Request("ensure", None, b, "ensure")
  /\ UNCHANGED <<ownerVars, laneVars, backendVars, jobVars, config>>

Acquire(o) ==
  /\ op = Idle /\ running = o /\ work = "new"
  /\ ~InUse
  /\ op' = Request("acquire", o, wants, "ensure")
  /\ UNCHANGED <<ownerVars, laneVars, backendVars, jobVars, config>>

Release(o) ==
  /\ op = Idle /\ uses[o] # None /\ work = "over"
  /\ uses' = [uses EXCEPT ![o] = None]
  /\ work' = "left"
  /\ UNCHANGED <<current, pool, pin, laneVars, backendVars, wants, running, stopping,
                 config, op>>

\* Mutant: a pinned resident can be freed.
FreeAllPinned ==
  /\ op = Idle
  /\ ~InUse /\ lanes = {}
  /\ op' = Request("free_all", None, None, "drain")
  /\ UNCHANGED <<ownerVars, laneVars, backendVars, jobVars, config>>

FreeAll ==
  /\ op = Idle
  /\ ~InUse /\ pin = None /\ lanes = {}
  /\ op' = Request("free_all", None, None, "drain")
  /\ UNCHANGED <<ownerVars, laneVars, backendVars, jobVars, config>>

ForceShutdown ==
  /\ op = Idle /\ stopping
  /\ uses' = [o \in Owners |-> None]
  /\ pin' = None
  /\ lanes' = {} /\ exclusive' = {}
  /\ op' = Request("shutdown", None, None, "drain")
  /\ UNCHANGED <<current, pool, users, handoff, prior, backendVars, jobVars, config>>

PinCurrent(p) ==
  /\ op = Idle
  /\ exclusive = {}
  /\ pin # None => pin.id = p
  /\ current # None /\ current \in loaded
  /\ pin' = [id |-> p, model |-> current]
  /\ UNCHANGED <<current, pool, uses, laneVars, backendVars, jobVars, config, op>>

\* unpin() with no id drops whatever pin there is.
Unpin(p) ==
  /\ op = Idle
  /\ pin # None
  /\ p # None => pin.id = p
  /\ pin' = None
  /\ UNCHANGED <<current, pool, uses, laneVars, backendVars, jobVars, config, op>>

ReleasePin(p, unload) ==
  /\ op = Idle
  /\ running = None /\ ~InUse
  /\ pin # None /\ pin.id = p
  /\ pin' = None
  /\ op' = IF unload THEN Request("release_pin", p, None, "drain") ELSE op
  /\ UNCHANGED <<current, pool, uses, laneVars, backendVars, jobVars, config>>

EnsurePinned(b, p) ==
  /\ op = Idle
  /\ running = None /\ ~InUse /\ exclusive = {}
  /\ pin # None => pin.id = p
  /\ IF current = b /\ b \in loaded
     THEN pin' = [id |-> p, model |-> b] /\ op' = op
     ELSE pin' = None /\ op' = Request("ensure_pinned", p, b, "ensure")
  /\ UNCHANGED <<current, pool, uses, laneVars, backendVars, jobVars, config>>

\* Mutant: no idle guard.
ReconfigureBusy ==
  /\ op = Idle
  /\ IF current \in Servers
     THEN /\ pin = None
          /\ op' = Request("reconfigure", None, None, "unload")
          /\ UNCHANGED config
     ELSE /\ config' \in Configs
          /\ UNCHANGED op
  /\ UNCHANGED <<ownerVars, laneVars, backendVars, jobVars>>

\* Mutant: the resident server is not unloaded first.
ReconfigureInPlace ==
  /\ op = Idle
  /\ running = None
  /\ config' \in Configs
  /\ UNCHANGED <<ownerVars, laneVars, backendVars, jobVars, op>>

\* POST /llm/config: the family is GGUF, so only a llama-server resident matches.
Reconfigure ==
  /\ op = Idle
  /\ running = None
  /\ IF current \in Servers
     THEN /\ pin = None
          /\ op' = Request("reconfigure", None, None, "unload")
          /\ UNCHANGED config
     ELSE /\ config' \in Configs
          /\ UNCHANGED op
  /\ UNCHANGED <<ownerVars, laneVars, backendVars, jobVars>>

\* The voice session's exclusive lane: unload_resident is always set.
ActivateVoice ==
  /\ op = Idle /\ handoff = "none"
  /\ exclusive = {} /\ lanes = {}
  /\ running = None /\ ~InUse /\ pin = None
  /\ op' = Request("activate", VoiceLane, None, "drain")
  /\ UNCHANGED <<ownerVars, laneVars, backendVars, jobVars, config>>

RollbackVoice ==
  /\ op = Idle /\ handoff = "starting"
  /\ lanes' = lanes \ {VoiceLane}
  /\ exclusive' = exclusive \ {VoiceLane}
  /\ handoff' = "none" /\ prior' = None
  /\ op' = IF prior = None THEN op ELSE Request("rollback", VoiceLane, prior, "ensure")
  /\ UNCHANGED <<ownerVars, users, backendVars, jobVars, config>>

DeactivateVoice ==
  /\ op = Idle /\ handoff = "live"
  /\ lanes' = lanes \ {VoiceLane}
  /\ exclusive' = exclusive \ {VoiceLane}
  /\ handoff' = "none" /\ prior' = None
  /\ UNCHANGED <<ownerVars, users, backendVars, jobVars, config, op>>

\* gpu_lane: the scope a TTS or transcription request runs in.
EnterLane(r, l) ==
  /\ op = Idle /\ users[r] = None
  /\ exclusive = {}
  /\ lanes' = lanes \cup {l}
  /\ users' = [users EXCEPT ![r] = l]
  /\ UNCHANGED <<ownerVars, exclusive, handoff, prior, backendVars, jobVars, config, op>>

\* One that is cancelled while it waits for the lock never leaves.
LeaveLane(r) ==
  /\ op = Idle /\ users[r] # None
  /\ lanes' = lanes \ {users[r]}
  /\ users' = [users EXCEPT ![r] = None]
  /\ UNCHANGED <<ownerVars, exclusive, handoff, prior, backendVars, jobVars, config, op>>

-----------------------------------------------------------------------------
(* Outcomes of the backend calls.  Any of them may raise.  Any may also be *)
(* cancelled: an HTTP request at whichever await it has reached, those of  *)
(* its rollback included, the worker by Worker.stop, the shutdown never.   *)

Cancellable ==
  /\ op.kind # "shutdown"
  /\ op.kind = "acquire" => stopping

\* What a call that does not end well leaves of b: weights without a flag or a
\* seat, or a process or a thread of its own.
Drifts(b) == adrift' = adrift \cup {b} /\ Cardinality(adrift' \cup strays) <= MaxLost
Strays(b) ==
  /\ Cancellable
  /\ strays' = strays \cup {b} /\ Cardinality(adrift \cup strays') <= MaxLost

\* A thread that was not waited for may go on freeing or filling the GPU.
MayFree(b) == vram' \in {vram \ {b}} \cup {v \in {vram} : b \in strays}

Clear(b) ==
  /\ loaded' = loaded \ {b} /\ warm' = warm \ {b} /\ MayFree(b)
  /\ saved' = saved \ {b}
  /\ launched' = [c \in Servers |-> IF c = b THEN None ELSE launched[c]]
  /\ UNCHANGED strays

\* unload() returns at once when the flags say there is nothing to unload: the
\* weights of a load that failed stay.
Unloadable(b) == b \in loaded \/ (b \in Parkable /\ b \in warm)

UnloadReturns(b) ==
  IF Unloadable(b) THEN Clear(b) /\ adrift' = adrift \ {b} ELSE UNCHANGED backendVars

\* A pipeline drops its weights and flags in a finally block; a server backend
\* keeps its flags and its process, and the shutdown and the rollback of a pin
\* handoff forget it.
UnloadFails(b) ==
  /\ Unloadable(b)
  /\ IF b \in Servers
     THEN /\ IF op.kind = "shutdown" \/ op.stage = "cleanup"
             THEN Drifts(b)
             ELSE UNCHANGED adrift
          /\ UNCHANGED <<loaded, warm, vram, launched, saved, strays>>
     ELSE Clear(b) /\ UNCHANGED adrift

\* A cancelled wait for the server to die leaves the flags behind.
UnloadCancelled(b) ==
  /\ Strays(b) /\ Unloadable(b)
  /\ vram' \in {vram, vram \ {b}}
  /\ IF b \in Servers
     THEN UNCHANGED <<loaded, warm>>
     ELSE loaded' = loaded \ {b} /\ warm' = warm \ {b}
  /\ UNCHANGED <<launched, saved, adrift>>

\* All servers listen on one port: the one a cancelled load left there may be
\* the one that answers the health check, and the new one exits.
Haunted(b) == b \in Servers /\ Servers \cap strays # {}

\* A server may have read its arguments before settings were saved or after.
LoadReturns(b) ==
  /\ loaded' = loaded \cup {b} /\ warm' = warm \ {b}
  /\ IF Haunted(b)
     THEN vram' \in {vram, vram \cup {b}} /\ Drifts(b)
     ELSE vram' = vram \cup {b} /\ UNCHANGED adrift
  /\ IF b \in Servers
     THEN \E c \in IF b \in saved \/ Haunted(b) THEN Configs ELSE {config} :
            launched' = [launched EXCEPT ![b] = c]
     ELSE UNCHANGED launched
  /\ UNCHANGED <<saved, strays>>

\* Mutant: the process of a server that did not become healthy is not killed.
LoadRaisesLeaking(b) ==
  /\ vram' = vram \cup {b}
  /\ saved' = saved \ {b}
  /\ UNCHANGED <<loaded, warm, launched, adrift, strays>>

\* A server whose load fails is killed.  A pipeline is kept in _pipe before the
\* acceleration that may still fail, and so stays on the GPU with no flag that
\* says so.  A cancelled load leaves its process, or its thread, to itself: only
\* an Exception is cleaned up after.
LoadRaises(b) ==
  /\ \/ UNCHANGED <<vram, adrift, strays>>
     \/ b \notin Servers /\ vram' = vram \cup {b} /\ Drifts(b) /\ UNCHANGED strays
     \/ Strays(b) /\ vram' \in {vram, vram \cup {b}} /\ UNCHANGED adrift
  /\ saved' = saved \ {b}
  /\ UNCHANGED <<loaded, warm, launched>>

\* A park moves an SDXL pipeline and frees the offload hooks of another; parts
\* without hooks stay where they are.
ParkReturns(b) ==
  /\ loaded' = loaded \ {b} /\ warm' = warm \cup {b}
  /\ \/ MayFree(b) /\ adrift' = adrift \ {b}
     \/ b \in Fixed /\ UNCHANGED vram /\ Drifts(b)
  /\ UNCHANGED <<launched, saved, strays>>

ParkRaises(b) ==
  /\ \/ UNCHANGED <<vram, strays>>
     \/ Strays(b) /\ vram' \in {vram, vram \ {b}}
  /\ UNCHANGED <<loaded, warm, launched, saved, adrift>>

-----------------------------------------------------------------------------
(* _ensure_locked                                                          *)

\* _keep_warm_decision: RAM decides, within the bounds below.
MayPark(b) ==
  /\ b \in Parkable
  /\ Cardinality(pool) < PoolMax \/ (PoolMax > 0 /\ b \in pool)

EnsureStep ==
  /\ op.stage = "ensure"
  /\ \/ /\ InUse \/ exclusive # {}
        /\ Goto("conflict")
     \/ /\ ~InUse /\ exclusive = {}
        /\ current = Incoming
        /\ Goto(IF current \in loaded THEN "done" ELSE "admit")
     \/ /\ ~InUse /\ exclusive = {}
        /\ current = None
        /\ Goto("admit")
     \/ /\ ~InUse /\ exclusive = {}
        /\ current \notin {None, Incoming}
        /\ \/ pin # None /\ Goto("conflict")
           \/ /\ pin = None
              /\ \/ MayPark(current) /\ current \in loaded /\ Goto("park")
                 \/ Goto("unload")
  /\ UNCHANGED <<ownerVars, laneVars, backendVars, jobVars, config>>

\* _guard_budget: warm models are evicted one by one, the incoming one last.
Victims == IF pool \ {Incoming} # {} THEN pool \ {Incoming} ELSE pool

AdmitStep ==
  /\ op.stage = "admit"
  /\ IF Incoming \in loaded
     THEN current' = Incoming /\ Goto("done")
     ELSE /\ UNCHANGED current
          /\ \/ Goto("load")
             \/ \E v \in Victims : AwaitIn("evict", v)
             \/ pool = {} /\ Goto("raise")
  /\ UNCHANGED <<pool, pin, uses, laneVars, backendVars, jobVars, config>>

ParkStep ==
  /\ op.stage = "park"
  /\ \/ /\ ParkReturns(current)
        /\ pool' = pool \cup {current} /\ current' = None
        /\ Goto("admit")
     \/ ParkRaises(current) /\ Goto("raise") /\ UNCHANGED <<pool, current>>
  /\ UNCHANGED <<pin, uses, laneVars, jobVars, config>>

EvictStep ==
  /\ op.stage = "evict"
  /\ \/ /\ UnloadReturns(op.victim)
        /\ pool' = pool \ {op.victim}
        /\ AwaitIn(IF op.target = None THEN "drain" ELSE "admit", None)
     \/ /\ UnloadFails(op.victim)
        /\ IF op.kind = "shutdown"
           THEN pool' = pool \ {op.victim} /\ AwaitIn("drain", None)
           ELSE pool' = pool /\ AwaitIn("raise", None)
     \/ UnloadCancelled(op.victim) /\ AwaitIn("raise", None) /\ UNCHANGED pool
  /\ UNCHANGED <<current, pin, uses, laneVars, jobVars, config>>

LoadStep ==
  /\ op.stage = "load"
  /\ \/ LoadReturns(Incoming) /\ Goto("profile")
     \/ LoadRaises(Incoming) /\ Goto("raise")
  /\ UNCHANGED <<ownerVars, laneVars, jobVars, config>>

\* Mutant: a warm model that resumed stays in the pool.
ProfileStepKeepsWarm ==
  /\ op.stage = "profile"
  /\ current' = Incoming
  /\ Goto("done")
  /\ UNCHANGED <<pool, pin, uses, laneVars, backendVars, jobVars, config>>

\* _record_profile swallows every Exception, but not a cancellation, which leaves
\* a loaded model without its seat.
ProfileStep ==
  /\ op.stage = "profile"
  /\ \/ /\ pool' = pool \ {Incoming} /\ current' = Incoming
        /\ Goto("done")
        /\ adrift' = IF Haunted(Incoming) THEN adrift ELSE adrift \ {Incoming}
     \/ Cancellable /\ Drifts(Incoming) /\ Goto("raise") /\ UNCHANGED <<pool, current>>
  /\ UNCHANGED <<pin, uses, laneVars, loaded, warm, vram, launched, saved, strays,
                 jobVars, config>>

-----------------------------------------------------------------------------
(* _unload_current and _free_all_locked                                    *)

AfterUnload ==
  CASE op.target # None -> "admit"
    [] op.kind = "reconfigure" -> "done"
    [] OTHER -> "drain"

\* Mutant: the shutdown keeps a resident that it could not unload.
UnloadStepKeeps ==
  /\ op.stage = "unload"
  /\ \/ /\ UnloadReturns(current)
        /\ pool' = pool \ {current} /\ current' = None
        /\ Goto(AfterUnload)
     \/ /\ UnloadFails(current)
        /\ Goto(IF op.kind = "shutdown" THEN "drain" ELSE "raise")
        /\ UNCHANGED <<pool, current>>
     \/ UnloadCancelled(current) /\ Goto("raise") /\ UNCHANGED <<pool, current>>
  /\ UNCHANGED <<pin, uses, laneVars, jobVars, config>>

UnloadStep ==
  /\ op.stage = "unload"
  /\ \/ /\ UnloadReturns(current)
        /\ pool' = pool \ {current} /\ current' = None
        /\ Goto(AfterUnload)
     \/ /\ UnloadFails(current)
        /\ pool' = pool
        /\ IF op.kind = "shutdown"
           THEN current' = None /\ Goto("drain")
           ELSE UNCHANGED current /\ Goto("raise")
     \/ UnloadCancelled(current) /\ Goto("raise") /\ UNCHANGED <<pool, current>>
  /\ UNCHANGED <<pin, uses, laneVars, jobVars, config>>

\* Mutant: the warm models are forgotten.
DrainStepResidentOnly ==
  /\ op.stage = "drain"
  /\ IF current # None THEN Goto("unload") ELSE Goto("done")
  /\ UNCHANGED <<ownerVars, laneVars, backendVars, jobVars, config>>

DrainStep ==
  /\ op.stage = "drain"
  /\ \/ current # None /\ Goto("unload")
     \/ current = None /\ \E v \in pool : AwaitIn("evict", v)
     \/ current = None /\ pool = {} /\ Goto("done")
  /\ UNCHANGED <<ownerVars, laneVars, backendVars, jobVars, config>>

-----------------------------------------------------------------------------
(* How each request ends.                                                  *)

Done ==
  /\ op.stage = "done"
  /\ op' = IF op.kind = "shutdown" THEN Closed ELSE Idle
  /\ uses' = IF op.kind = "acquire" THEN [uses EXCEPT ![op.by] = op.target] ELSE uses
  /\ work' = IF op.kind = "acquire" THEN "using" ELSE work
  /\ pin' = CASE op.kind = "ensure_pinned" /\ ~op.restoring
                   -> [id |-> op.by, model |-> op.target]
              [] op.kind = "ensure_pinned" /\ op.restoring -> op.oldPin
              [] OTHER -> pin
  /\ IF op.kind = "activate"
     THEN /\ lanes' = lanes \cup {op.by} /\ exclusive' = exclusive \cup {op.by}
          /\ handoff' = "starting" /\ prior' = op.old
     ELSE UNCHANGED <<lanes, exclusive, handoff, prior>>
  /\ IF op.kind = "reconfigure" THEN config' \in Configs ELSE UNCHANGED config
  /\ UNCHANGED <<current, pool, users, backendVars, wants, running, stopping>>

\* ensure_pinned: what its rollback has to unload first.
Debris ==
  IF current \notin {None, op.old} THEN {current}
  ELSE IF op.target # op.old /\ (op.target \in loaded \cup warm) THEN {op.target}
  ELSE {}

Raise ==
  /\ op.stage \in {"raise", "conflict"}
  /\ IF op.kind = "ensure_pinned" /\ ~op.restoring
     THEN /\ pin' = None
          /\ \/ \E b \in Debris : AwaitIn("cleanup", b)
             \/ Debris = {} /\ Goto("restore")
     ELSE /\ op' = IF op.kind = "shutdown" THEN Closed ELSE Idle
          /\ pin' = CASE op.kind = "release_pin" -> op.oldPin
                      [] op.kind = "ensure_pinned" -> None
                      [] OTHER -> pin
  /\ work' = CASE op.kind # "acquire" -> work
              [] op.stage = "raise" -> "over"
              [] OTHER -> "refused"
  /\ UNCHANGED <<current, pool, uses, laneVars, backendVars, wants, running, stopping, config>>

CleanupStep ==
  /\ op.stage = "cleanup"
  /\ UnloadReturns(op.victim) \/ UnloadFails(op.victim) \/ UnloadCancelled(op.victim)
  /\ pool' = pool \ {op.victim}
  /\ current' = IF current = op.victim THEN None ELSE current
  /\ AwaitIn("restore", None)
  /\ UNCHANGED <<pin, uses, laneVars, jobVars, config>>

RestoreStep ==
  /\ op.stage = "restore"
  /\ IF op.old = None
     THEN pin' = op.oldPin /\ op' = Idle
     ELSE op' = [op EXCEPT !.stage = "ensure", !.restoring = TRUE] /\ UNCHANGED pin
  /\ UNCHANGED <<current, pool, uses, laneVars, backendVars, jobVars, config>>

-----------------------------------------------------------------------------
(* What goes on outside the lock: the worker's job, the voice session and  *)
(* the settings endpoint.                                                  *)

\* _pick_next reads the pin and the lanes, then waits for the database.
Pick(b) ==
  /\ wants = None /\ ~stopping
  /\ exclusive = {} /\ handoff # "live"
  /\ pin # None => pin.model = b
  /\ wants' = b
  /\ UNCHANGED <<ownerVars, laneVars, backendVars, running, work, stopping, config, op>>

JobBegin(o) ==
  /\ op.kind # "closed" /\ wants # None /\ running = None
  /\ running' = o /\ work' = "new"
  /\ UNCHANGED <<ownerVars, laneVars, backendVars, wants, stopping, config, op>>

EndWork ==
  /\ op.kind # "closed" /\ work = "using"
  /\ work' = "over"
  /\ UNCHANGED <<ownerVars, laneVars, backendVars, wants, running, stopping, config, op>>

\* after_job rebuilds a pipeline that has grown since it was loaded; when that
\* fails the flags are cleared and what was built stays in _pipe.  It runs for
\* every job but a refused one, and so without the lease when acquire itself has
\* failed: what has "grown" then is the process's torch memory, which any pipeline
\* on the GPU fills.
Recycle(o) ==
  /\ op.kind # "closed" /\ work = "over" /\ running = o
  /\ wants \in Parkable \cap (loaded \cup warm)
  /\ uses[o] = wants \/ (LateRecycle /\ vram \ Servers # {})
  /\ \/ /\ loaded' = loaded \cup {wants} /\ vram' = vram \cup {wants}
        /\ UNCHANGED adrift
     \/ /\ loaded' = loaded \ {wants}
        /\ \/ vram' = vram \ {wants} /\ UNCHANGED adrift
           \/ vram' = vram \cup {wants} /\ Drifts(wants)
  /\ warm' = warm \ {wants}
  /\ UNCHANGED <<launched, saved, strays, ownerVars, laneVars, jobVars, config, op>>

JobEnd ==
  /\ op.kind \notin {"closed", "acquire"} /\ work # "using"
  /\ running # None /\ uses[running] = None
  /\ wants' = None /\ running' = None /\ work' = "left"
  /\ UNCHANGED <<ownerVars, laneVars, backendVars, stopping, config, op>>

VoiceStarted ==
  /\ handoff = "starting"
  /\ handoff' = "live"
  /\ UNCHANGED <<ownerVars, lanes, exclusive, users, prior, backendVars, jobVars, config, op>>

\* PUT /settings/overrides: _apply sets the launch settings beside the arbiter,
\* under a server that runs or is being started.
SaveSettings ==
  /\ ~stopping
  /\ config' \in Configs \ {config}
  /\ saved' = saved \cup
       {b \in Servers : b \in loaded \/ (op.stage = "load" /\ b = Incoming)}
  /\ UNCHANGED <<ownerVars, laneVars, loaded, warm, vram, launched, adrift, strays,
                 jobVars, op>>

\* uvicorn has drained the requests when the lifespan's shutdown begins; a job
\* may still be running, and a voice session may still be live.
Stop ==
  /\ ~stopping
  /\ op.kind \in {"idle", "acquire"}
  /\ handoff # "starting" /\ \A r \in Requests : users[r] = None
  /\ stopping' = TRUE
  /\ UNCHANGED <<ownerVars, laneVars, backendVars, wants, running, work, config, op>>

Exited == op = Closed /\ UNCHANGED vars

LockStep ==
  \/ EnsureStep \/ AdmitStep \/ ParkStep \/ EvictStep \/ LoadStep \/ ProfileStep
  \/ UnloadStep \/ DrainStep \/ Done \/ Raise \/ CleanupStep \/ RestoreStep

Call ==
  \/ \E b \in Direct : Ensure(b)
  \/ FreeAll \/ Reconfigure
  \/ \E p \in Pins : PinCurrent(p)
  \/ \E p \in Pins \cup {None} : Unpin(p)
  \/ \E p \in Pins, u \in BOOLEAN : ReleasePin(p, u)
  \/ \E b \in Backends, p \in Pins : EnsurePinned(b, p)
  \/ ActivateVoice \/ RollbackVoice
  \/ \E r \in Requests, l \in SharedLanes : EnterLane(r, l)
  \/ \E r \in Requests : LeaveLane(r)

\* What is still called once no HTTP request is left.
Begin ==
  \/ ~stopping /\ Call
  \/ \E o \in Owners : Acquire(o)
  \/ \E o \in Owners : Release(o)
  \/ DeactivateVoice \/ ForceShutdown

Outside ==
  \/ \E b \in Backends : Pick(b)
  \/ \E o \in Owners : JobBegin(o) \/ Recycle(o)
  \/ EndWork \/ JobEnd \/ VoiceStarted \/ SaveSettings \/ Stop

Next == LockStep \/ Begin \/ Outside \/ Exited

Spec == Init /\ [][Next]_vars

\* Every backend call is bounded (the health wait times out after 120 s, a
\* process is killed 10 s after terminate, a thread returns), so a request
\* that holds the lock keeps moving.
FairSpec == Spec /\ WF_vars(LockStep)

-----------------------------------------------------------------------------
(* Properties                                                              *)

\* What holds the GPU, as the abstract specification sees it.
Ownership == INSTANCE GpuOwnership WITH
  holder <- IF exclusive # {} THEN VoiceLane ELSE current,
  leased <- InUse,
  pinned <- pin # None /\ current = pin.model

\* Every step of the arbiter, its failed swaps and rollbacks included, is a
\* legal change of ownership: the resident is never swapped in place, nor
\* unloaded while leased or pinned, nor seated beside the voice lane.
ImplementsOwnership == Ownership!Spec

BackendOrNone == Backends \cup {None}

LockRequest ==
  [kind : Kinds, stage : Syncs \cup Awaits \cup {"rest"},
   by : Owners \cup Pins \cup {VoiceLane, None},
   target : BackendOrNone, victim : BackendOrNone, old : BackendOrNone,
   oldPin : Pin \cup {None}, restoring : BOOLEAN]

\* Every variable keeps the type its Python attribute has.
TypeOK ==
  /\ current \in BackendOrNone
  /\ pool \subseteq Backends
  /\ pin \in Pin \cup {None}
  /\ uses \in [Owners -> BackendOrNone]
  /\ lanes \subseteq SharedLanes \cup {VoiceLane}
  /\ exclusive \subseteq {VoiceLane}
  /\ loaded \subseteq Backends /\ warm \subseteq Parkable /\ vram \subseteq Backends
  /\ adrift \subseteq Backends /\ strays \subseteq Backends
  /\ launched \in [Servers -> Configs \cup {None}] /\ saved \subseteq Servers /\ config \in Configs
  /\ running \in Owners \cup {None} /\ work \in {"new", "using", "over", "refused", "left"}
  /\ wants \in BackendOrNone /\ stopping \in BOOLEAN
  /\ users \in [Requests -> SharedLanes \cup {None}]
  /\ handoff \in {"none", "starting", "live"} /\ prior \in BackendOrNone
  /\ op \in LockRequest

\* Weights the arbiter has no word of: a load that failed after _pipe was set, a
\* park in place, a call that was cancelled.
Untold == adrift \cup strays

\* "At most one GPU resident at a time" (module docstring): whatever fails or is
\* cancelled, the weights of two models are never on the GPU together, but for
\* those that a failed load, a park in place or a cancelled call left there.  (With
\* LateRecycle others can be.)
OneResident == \A b, c \in vram \ Untold : b = c

\* A leased backend is the resident and stays loaded until its job has left
\* generate(), although every request re-checks the lease only once, before
\* its awaits, and reconfigure never checks it at all.
LeaseHoldsResident ==
  \A o \in Owners : uses[o] # None =>
    /\ uses[o] = current /\ exclusive = {}
    /\ work = "using" => current \in loaded

\* "Exclusive lanes cannot coexist with a heavy resident" (__init__): while
\* voice owns the GPU nothing is resident, parked, pinned, leased or in a lane.
ExclusiveAlone ==
  exclusive # {} =>
    /\ current = None /\ pool = {} /\ pin = None /\ ~InUse
    /\ lanes = exclusive

\* "Keep the current resident model in VRAM until the pin is released"
\* (pin_current): while a pin stands, jobs run on the model it keeps.
JobRunsPinned == InUse /\ pin # None => current = pin.model

\* The keep-warm pool never outgrows its limit, never holds the resident (unless
\* it was seated after a load whose request was cancelled), and knows every parked
\* pipeline: one it forgot would keep its RAM for good.
PoolSound ==
  /\ Cardinality(pool) <= PoolMax
  /\ current \in pool => current \in adrift
  /\ warm \subseteq pool

\* A resident llama-server runs with the launch settings the API reports, unless
\* they were saved since its load began (POST /llm/config reconfigures the arbiter,
\* PUT /settings/overrides goes past it), its load was cancelled before it had its
\* seat, or a cancelled start left a server at the port.
ResidentRunsConfig ==
  /\ current \in (Servers \cap loaded) \ (saved \cup adrift)
  /\ Servers \cap strays = {}
  => launched[current] = config

\* "If the target load fails, the prior resident and pin are restored", and
\* "rollback must also run for cancellation" (ensure_pinned): a pin handoff that
\* was rolled back leaves the old resident, the old pin and nothing else on the
\* GPU, but for weights no flag tells of.
RolledBack ==
  op.kind = "ensure_pinned" /\ op.restoring /\ op.stage = "done" /\ op' = Idle =>
    /\ current' = op.old /\ pin' = op.oldPin
    /\ vram' \ Untold' \subseteq {op.old} /\ op.old \in vram' \cup Untold'
HandoffRollsBack == [][RolledBack]_vars

\* A request that has the lock eventually gives it back, whatever fails: a
\* request that kept it would stop every later one.
LockReleased == (op # Idle) ~> (op = Idle \/ op = Closed)
=============================================================================
