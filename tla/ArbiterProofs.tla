--------------------------- MODULE ArbiterProofs ---------------------------
(***************************************************************************)
(* Proofs about GpuArbiter, for any number of models, jobs, pins, lanes    *)
(* and requests.  TypeOK, LeaseHoldsResident, ExclusiveAlone and           *)
(* OneResident are not inductive: whether a step may unload or seat a      *)
(* model depends on what its request checked before its earlier awaits.    *)
(* Shape, Claims and Occupancy say what is known of a request at each of   *)
(* its stages, and together they are inductive.  On these layers rest the  *)
(* proofs about the keep-warm pool, the launch configuration of a resident *)
(* server, the promise of GpuOwnership, and the rollback of a pin handoff. *)
(***************************************************************************)
EXTENDS Arbiter, TLAPS, FiniteSetTheorems

\* Requests that seat a model, and requests that empty the GPU.
Swaps == {"ensure", "acquire", "ensure_pinned", "rollback"}
Drains == {"free_all", "shutdown", "release_pin", "activate"}

\* Who asks for what, and which stages its request goes through.
Shape ==
  /\ TypeOK
  /\ running # None => wants \in Backends
  /\ op.kind \in {"idle", "closed"} <=> op.stage = "rest"
  /\ op.kind \in Swaps => op.target \in Backends
  /\ op.kind \notin Swaps => op.target = None
  /\ op.kind = "acquire" => op.by \in Owners /\ op.by = running /\ work = "new"
  /\ op.kind = "ensure_pinned" => op.by \in Pins
  /\ op.kind = "activate" => op.by = VoiceLane
  /\ op.kind = "idle" => op = Idle
  /\ stopping => op.kind \in {"idle", "acquire", "shutdown", "closed"}
  /\ op.restoring => op.kind = "ensure_pinned" /\ op.old \in Backends
  /\ op.stage \in {"ensure", "conflict", "admit", "park", "load", "profile"}
       => op.kind \in Swaps
  /\ op.stage \in {"cleanup", "restore"} => op.kind = "ensure_pinned" /\ ~op.restoring
  /\ op.stage = "drain" => op.kind \in Drains
  /\ op.stage = "evict" => op.kind \in Swaps \cup Drains
  /\ op.stage = "unload" => current \in Backends
  /\ op.stage = "park" => current \in Parkable
  /\ op.stage \in {"evict", "cleanup"} => op.victim \in Backends

\* What a request's checks still guarantee after its awaits.
Claims ==
  /\ \A o \in Owners : uses[o] # None =>
       /\ running = o /\ uses[o] = current /\ exclusive = {}
       /\ work \in {"using", "over"}
       /\ work = "using" => current \in loaded
  /\ InUse =>
       \/ op.stage = "rest"
       \/ op.stage \in {"ensure", "conflict"} /\ op.kind \in {"ensure", "rollback"}
  /\ exclusive # {} =>
       /\ current = None /\ pool = {} /\ pin = None /\ lanes = exclusive
       /\ \/ op.stage = "rest"
          \/ op.stage \in {"ensure", "conflict"} /\ op.kind \in {"ensure", "acquire"}
  /\ op.kind = "activate" => lanes = {} /\ pin = None
  /\ op.kind \in Drains /\ op.stage = "done" => current = None /\ pool = {}
  /\ op.kind = "acquire" /\ op.stage = "profile" => op.target \in loaded
  /\ op.kind = "acquire" /\ op.stage = "done" => current = op.target /\ op.target \in loaded

\* What is on the GPU has its flag and its seat, or has just been loaded for it.
Accounted ==
  \A b \in vram \ Untold :
    /\ b \in loaded
    /\ b = current \/ (op.stage = "profile" /\ b = Incoming)

\* What each stage knows of the resident.
Seated ==
  /\ op.stage \in {"admit", "load", "profile"} => current \in {None, Incoming}
  /\ op.stage = "profile" => Incoming \in loaded
  /\ op.stage = "evict" /\ op.target # None => current \in {None, Incoming}
  /\ op.kind = "ensure_pinned" /\ ~op.restoring /\ op.stage # "done"
       => current \in {None, op.old}
  /\ op.stage = "cleanup" => current # op.victim

Occupancy == OneResident /\ Accounted /\ Seated

Known == LateRecycle = FALSE /\ Shape /\ Claims /\ Occupancy

-----------------------------------------------------------------------------
(* How the steps build the next request.                                   *)

\* Waiting for a call or moving to another stage keeps what was asked.
SameRequest ==
  /\ op'.kind = op.kind /\ op'.by = op.by /\ op'.target = op.target
  /\ op'.old = op.old /\ op'.oldPin = op.oldPin

\* Moving to another stage keeps the request's other fields.
LEMMA GotoKeeps ==
  ASSUME op \in LockRequest, NEW stage \in Syncs \cup Awaits, Goto(stage)
  PROVE  /\ op' \in LockRequest /\ SameRequest
         /\ op'.stage = stage /\ op'.victim = op.victim /\ op'.restoring = op.restoring
  BY DEF LockRequest, Goto, SameRequest

\* So does waiting for a warm backend's call.
LEMMA AwaitInKeeps ==
  ASSUME op \in LockRequest, NEW stage \in Syncs \cup Awaits, NEW b \in BackendOrNone,
         AwaitIn(stage, b)
  PROVE  /\ op' \in LockRequest /\ SameRequest
         /\ op'.stage = stage /\ op'.victim = b /\ op'.restoring = op.restoring
<1>1. op' = [kind |-> op.kind, by |-> op.by, target |-> op.target, stage |-> stage,
             victim |-> b, old |-> op.old, oldPin |-> op.oldPin,
             restoring |-> op.restoring]
  BY DEF LockRequest, AwaitIn
<1> QED
  BY <1>1 DEF LockRequest, SameRequest

\* So does going back to the prior resident.
LEMMA RestoreKeeps ==
  ASSUME op \in LockRequest, op' = [op EXCEPT !.stage = "ensure", !.restoring = TRUE]
  PROVE  /\ op' \in LockRequest /\ SameRequest
         /\ op'.stage = "ensure" /\ op'.victim = op.victim /\ op'.restoring
<1>1. op' = [kind |-> op.kind, by |-> op.by, target |-> op.target, stage |-> "ensure",
             victim |-> op.victim, old |-> op.old, oldPin |-> op.oldPin,
             restoring |-> TRUE]
  BY DEF LockRequest
<1> QED
  BY <1>1 DEF LockRequest, SameRequest, Syncs

\* A request that takes the lock remembers what it must put back.
LEMMA RequestTyped ==
  ASSUME TypeOK, NEW kind \in Kinds, NEW by \in Owners \cup Pins \cup {VoiceLane, None},
         NEW target \in BackendOrNone, NEW stage \in Syncs \cup Awaits,
         op' = Request(kind, by, target, stage)
  PROVE  /\ op' \in LockRequest
         /\ op'.kind = kind /\ op'.by = by /\ op'.target = target /\ op'.stage = stage
         /\ op'.victim = None /\ ~op'.restoring
         /\ kind = "ensure_pinned" => op'.old = current
  BY DEF LockRequest, Request, TypeOK, BackendOrNone

\* Nobody holds the lock.
LEMMA RestTyped ==
  /\ Idle \in LockRequest /\ Closed \in LockRequest
  /\ Idle.kind = "idle" /\ Idle.stage = "rest" /\ Idle.target = None /\ ~Idle.restoring
  /\ Closed.kind = "closed" /\ Closed.stage = "rest" /\ Closed.target = None
  /\ ~Closed.restoring
  BY DEF LockRequest, Idle, Closed, Resting, Kinds, Syncs, Awaits, BackendOrNone

-----------------------------------------------------------------------------
(* Types, and which request is at which stage.                              *)

\* A request that holds the lock keeps the shape of its stage.
LEMMA LockStepShape == Shape /\ LockStep => Shape'
<1> SUFFICES ASSUME Shape, LockStep PROVE Shape'
  OBVIOUS
<1> USE BackendsAssumption, ClientsAssumption
    DEF Shape, TypeOK, BackendOrNone, Kinds, Syncs, Awaits, Pin, Swaps, Drains,
        Untold, MayFree, Drifts, Strays, Haunted, ownerVars, laneVars, backendVars, jobVars
<1>1. CASE EnsureStep
  BY <1>1, GotoKeeps DEF EnsureStep, MayPark, Incoming, InUse, SameRequest, LockRequest
<1>2. CASE AdmitStep
  BY <1>2, GotoKeeps, AwaitInKeeps
     DEF AdmitStep, Incoming, Victims, SameRequest, LockRequest
<1>3. CASE ParkStep
  BY <1>3, GotoKeeps DEF ParkStep, ParkReturns, ParkRaises, SameRequest, LockRequest
<1>4. CASE EvictStep
  BY <1>4, AwaitInKeeps
     DEF EvictStep, UnloadReturns, UnloadFails, UnloadCancelled, Unloadable, Clear,
         SameRequest, LockRequest
<1>5. CASE LoadStep
  BY <1>5, GotoKeeps
     DEF LoadStep, LoadReturns, LoadRaises, Incoming, SameRequest, LockRequest
<1>6. CASE ProfileStep
  BY <1>6, GotoKeeps DEF ProfileStep, Incoming, SameRequest, LockRequest
<1>7. CASE UnloadStep
  BY <1>7, GotoKeeps
     DEF UnloadStep, AfterUnload, UnloadReturns, UnloadFails, UnloadCancelled,
         Unloadable, Clear, SameRequest, LockRequest
<1>8. CASE DrainStep
  BY <1>8, GotoKeeps, AwaitInKeeps DEF DrainStep, SameRequest, LockRequest
<1>9. CASE Done
  BY <1>9 DEF Done, Idle, Closed, Resting, LockRequest
<1>10. CASE Raise
  BY <1>10, GotoKeeps, AwaitInKeeps, RestTyped
     DEF Raise, Debris, SameRequest, LockRequest
<1>11. CASE CleanupStep
  BY <1>11, AwaitInKeeps
     DEF CleanupStep, UnloadReturns, UnloadFails, UnloadCancelled, Unloadable, Clear, SameRequest,
         LockRequest
<1>12. CASE RestoreStep
  BY <1>12, RestoreKeeps, RestTyped DEF RestoreStep, SameRequest, LockRequest
<1> QED
  BY <1>1, <1>2, <1>3, <1>4, <1>5, <1>6, <1>7, <1>8, <1>9, <1>10, <1>11, <1>12
     DEF LockStep

\* Neither does an HTTP request that takes the lock disturb it,
LEMMA CallShape == Shape /\ ~stopping /\ Call => Shape'
<1> SUFFICES ASSUME Shape, ~stopping /\ Call PROVE Shape'
  OBVIOUS
<1> USE BackendsAssumption, ClientsAssumption
    DEF Shape, TypeOK, BackendOrNone, Kinds, Syncs, Awaits, Pin, Swaps, Drains,
        Untold, MayFree, Drifts, Strays, Haunted, ownerVars, laneVars, backendVars, jobVars
<1>1. ASSUME NEW b \in Direct, Ensure(b) PROVE Shape'
  BY <1>1, RequestTyped DEF Ensure
<1>2. CASE FreeAll
  BY <1>2, RequestTyped DEF FreeAll
<1>3. CASE Reconfigure
  BY <1>3, RequestTyped DEF Reconfigure
<1>4. ASSUME NEW p \in Pins, PinCurrent(p) PROVE Shape'
  BY <1>4 DEF PinCurrent
<1>5. ASSUME NEW p \in Pins \cup {None}, Unpin(p) PROVE Shape'
  BY <1>5 DEF Unpin
<1>6. ASSUME NEW p \in Pins, NEW u \in BOOLEAN, ReleasePin(p, u) PROVE Shape'
  BY <1>6, RequestTyped DEF ReleasePin
<1>7. ASSUME NEW b \in Backends, NEW p \in Pins, EnsurePinned(b, p) PROVE Shape'
  BY <1>7, RequestTyped DEF EnsurePinned
<1>8. CASE ActivateVoice
  BY <1>8 DEF ActivateVoice, Request, LockRequest
<1>9. CASE RollbackVoice
  BY <1>9 DEF RollbackVoice, Request, LockRequest
<1>10. ASSUME NEW r \in Requests, NEW l \in SharedLanes, EnterLane(r, l) PROVE Shape'
  BY <1>10 DEF EnterLane
<1>11. ASSUME NEW r \in Requests, LeaveLane(r) PROVE Shape'
  BY <1>11 DEF LeaveLane
<1> QED
  BY <1>1, <1>2, <1>3, <1>4, <1>5, <1>6, <1>7, <1>8, <1>9, <1>10, <1>11 DEF Call

\* nor the worker's and the shutdown's requests,
LEMMA BeginShape == Shape /\ Begin => Shape'
<1> SUFFICES ASSUME Shape, Begin PROVE Shape'
  OBVIOUS
<1> USE BackendsAssumption, ClientsAssumption
    DEF Shape, TypeOK, BackendOrNone, Kinds, Syncs, Awaits, Pin, Swaps, Drains,
        Untold, MayFree, Drifts, Strays, Haunted, ownerVars, laneVars, backendVars, jobVars
<1>1. CASE ~stopping /\ Call
  BY <1>1, CallShape
<1>2. ASSUME NEW o \in Owners, Acquire(o) PROVE Shape'
  BY <1>2, RequestTyped DEF Acquire
<1>3. ASSUME NEW o \in Owners, Release(o) PROVE Shape'
  BY <1>3, RestTyped DEF Release
<1>4. CASE DeactivateVoice
  BY <1>4 DEF DeactivateVoice
<1>5. CASE ForceShutdown
  BY <1>5, RequestTyped DEF ForceShutdown
<1> QED
  BY <1>1, <1>2, <1>3, <1>4, <1>5 DEF Begin

\* nor what goes on outside the lock.
LEMMA OutsideShape == Shape /\ Outside => Shape'
<1> SUFFICES ASSUME Shape, Outside PROVE Shape'
  OBVIOUS
<1> USE BackendsAssumption, ClientsAssumption
    DEF Shape, TypeOK, BackendOrNone, Kinds, Syncs, Awaits, Pin, Swaps, Drains,
        Untold, MayFree, Drifts, Strays, Haunted, ownerVars, laneVars, backendVars, jobVars
<1>1. ASSUME NEW b \in Backends, Pick(b) PROVE Shape'
  BY <1>1 DEF Pick
<1>2. ASSUME NEW o \in Owners, JobBegin(o) PROVE Shape'
  BY <1>2 DEF JobBegin
<1>3. ASSUME NEW o \in Owners, Recycle(o) PROVE Shape'
  BY <1>3 DEF Recycle, Clear
<1>4. CASE EndWork
  BY <1>4 DEF EndWork
<1>5. CASE JobEnd
  BY <1>5 DEF JobEnd
<1>6. CASE VoiceStarted
  BY <1>6 DEF VoiceStarted
<1>7. CASE SaveSettings
  BY <1>7 DEF SaveSettings
<1>8. CASE Stop
  BY <1>8 DEF Stop
<1> QED
  BY <1>1, <1>2, <1>3, <1>4, <1>5, <1>6, <1>7, <1>8 DEF Outside

\* The arbiter starts in shape.
LEMMA InitShape == Init => Shape
<1> SUFFICES ASSUME Init PROVE Shape
  OBVIOUS
<1>1. op = Idle /\ op \in LockRequest
  BY RestTyped DEF Init
<1>2. /\ uses \in [Owners -> BackendOrNone]
      /\ launched \in [Servers -> Configs \cup {None}]
      /\ users \in [Requests -> SharedLanes \cup {None}]
  BY DEF Init, BackendOrNone
<1>3. TypeOK
  BY <1>1, <1>2 DEF Init, TypeOK, BackendOrNone
<1> QED
  BY <1>1, <1>3, RestTyped DEF Init, Shape, Swaps

\* Shape is inductive.
LEMMA ShapeStep == Shape /\ [Next]_vars => Shape'
<1>1. CASE UNCHANGED vars
  BY <1>1 DEF vars, Shape, TypeOK, ownerVars, laneVars, backendVars, jobVars
<1> QED
  BY <1>1, LockStepShape, BeginShape, OutsideShape DEF Next, Exited

\* Shape always holds.
LEMMA ShapeInvariant == Spec => []Shape
  BY InitShape, ShapeStep, PTL DEF Spec

\* Every attribute of the arbiter keeps its type through every request, whatever
\* the backend calls do: Shape is inductive and says it of each stage.
THEOREM TypeCorrect == Spec => []TypeOK
<1>1. Shape => TypeOK
  BY DEF Shape
<1> QED
  BY <1>1, ShapeInvariant, PTL

-----------------------------------------------------------------------------
(* What a request may rely on after its awaits.                             *)

\* No step of the request that holds the lock breaks a claim made before it.
LEMMA LockStepClaims == Shape /\ Claims /\ LockStep => Claims'
<1> SUFFICES ASSUME Shape /\ Claims, LockStep PROVE Claims'
  OBVIOUS
<1> USE BackendsAssumption, ClientsAssumption
    DEF Shape, Claims, InUse, TypeOK, BackendOrNone, Kinds, Syncs, Awaits, Pin,
        Swaps, Drains, ownerVars, laneVars, backendVars, jobVars
<1>1. CASE EnsureStep
  BY <1>1, GotoKeeps DEF EnsureStep, MayPark, Incoming, SameRequest, LockRequest
<1>2. CASE AdmitStep
  BY <1>2, GotoKeeps, AwaitInKeeps
     DEF AdmitStep, Incoming, Victims, SameRequest, LockRequest
<1>3. CASE ParkStep
  BY <1>3, GotoKeeps DEF ParkStep, ParkReturns, ParkRaises, SameRequest, LockRequest
<1>4. CASE EvictStep
  BY <1>4, AwaitInKeeps
     DEF EvictStep, UnloadReturns, UnloadFails, UnloadCancelled, Unloadable, Clear,
         SameRequest, LockRequest
<1>5. CASE LoadStep
  BY <1>5, GotoKeeps
     DEF LoadStep, LoadReturns, LoadRaises, Incoming, SameRequest, LockRequest
<1>6. CASE ProfileStep
  BY <1>6, GotoKeeps DEF ProfileStep, Incoming, SameRequest, LockRequest
<1>7. CASE UnloadStep
  BY <1>7, GotoKeeps
     DEF UnloadStep, AfterUnload, UnloadReturns, UnloadFails, UnloadCancelled,
         Unloadable, Clear, SameRequest, LockRequest
<1>8. CASE DrainStep
  BY <1>8, GotoKeeps, AwaitInKeeps DEF DrainStep, SameRequest, LockRequest
<1>9. CASE Done
  <2>1. op' \in {Idle, Closed} /\ op'.stage = "rest" /\ op'.kind \in {"idle", "closed"}
    BY <1>9, RestTyped DEF Done
  <2>2. ~InUse /\ exclusive = {}
    BY <1>9 DEF Done
  <2>3. CASE op.kind = "acquire"
    <3>1. /\ current = op.target /\ op.target \in loaded
          /\ op.by = running /\ op.by \in Owners
      BY <1>9, <2>3 DEF Done
    <3>2. /\ uses' = [uses EXCEPT ![op.by] = op.target] /\ work' = "using"
          /\ UNCHANGED <<current, loaded, running, exclusive, lanes, pool, pin>>
      BY <1>9, <2>3 DEF Done
    <3> QED
      BY <2>1, <2>2, <2>3, <3>1, <3>2
  <2>4. CASE op.kind = "activate"
    <3>1. lanes = {} /\ pin = None /\ current = None /\ pool = {}
      BY <1>9, <2>4 DEF Done
    <3>2. /\ lanes' = {VoiceLane} /\ exclusive' = {VoiceLane}
          /\ UNCHANGED <<current, uses, pool, pin>>
      BY <1>9, <2>4, <3>1 DEF Done
    <3> QED
      BY <2>1, <2>2, <3>1, <3>2
  <2>5. CASE op.kind \notin {"acquire", "activate"}
    <3>1. UNCHANGED <<uses, exclusive>>
      BY <1>9, <2>5 DEF Done
    <3> QED
      BY <2>1, <2>2, <3>1
  <2> QED
    BY <2>3, <2>4, <2>5
<1>10. CASE Raise
  BY <1>10, GotoKeeps, AwaitInKeeps, RestTyped
     DEF Raise, Debris, SameRequest, LockRequest
<1>11. CASE CleanupStep
  BY <1>11, AwaitInKeeps
     DEF CleanupStep, UnloadReturns, UnloadFails, UnloadCancelled, Unloadable, Clear, SameRequest,
         LockRequest
<1>12. CASE RestoreStep
  BY <1>12, RestoreKeeps, RestTyped DEF RestoreStep, SameRequest, LockRequest
<1> QED
  BY <1>1, <1>2, <1>3, <1>4, <1>5, <1>6, <1>7, <1>8, <1>9, <1>10, <1>11, <1>12
     DEF LockStep

\* Nor does an HTTP request: each checks the claims before it takes the lock.
LEMMA CallClaims == Shape /\ Claims /\ ~stopping /\ Call => Claims'
<1> SUFFICES ASSUME Shape /\ Claims, ~stopping /\ Call PROVE Claims'
  OBVIOUS
<1> USE BackendsAssumption, ClientsAssumption
    DEF Shape, Claims, InUse, TypeOK, BackendOrNone, Kinds, Syncs, Awaits, Pin,
        Swaps, Drains, ownerVars, laneVars, backendVars, jobVars
<1>1. ASSUME NEW b \in Direct, Ensure(b) PROVE Claims'
  BY <1>1, RequestTyped DEF Ensure
<1>2. CASE FreeAll
  BY <1>2, RequestTyped DEF FreeAll
<1>3. CASE Reconfigure
  BY <1>3, RequestTyped DEF Reconfigure
<1>4. ASSUME NEW p \in Pins, PinCurrent(p) PROVE Claims'
  BY <1>4, RestTyped DEF PinCurrent
<1>5. ASSUME NEW p \in Pins \cup {None}, Unpin(p) PROVE Claims'
  BY <1>5, RestTyped DEF Unpin
<1>6. ASSUME NEW p \in Pins, NEW u \in BOOLEAN, ReleasePin(p, u) PROVE Claims'
  BY <1>6, RequestTyped DEF ReleasePin
<1>7. ASSUME NEW b \in Backends, NEW p \in Pins, EnsurePinned(b, p) PROVE Claims'
  <2>1. ~InUse' /\ exclusive' = {}
    BY <1>7 DEF EnsurePinned
  <2>2. op' = op \/ op'.kind = "ensure_pinned"
    BY <1>7, RequestTyped DEF EnsurePinned
  <2> QED
    BY <1>7, <2>1, <2>2, RestTyped DEF EnsurePinned
<1>8. CASE ActivateVoice
  BY <1>8 DEF ActivateVoice, Request, LockRequest
<1>9. CASE RollbackVoice
  BY <1>9 DEF RollbackVoice, Request, LockRequest
<1>10. ASSUME NEW r \in Requests, NEW l \in SharedLanes, EnterLane(r, l) PROVE Claims'
  BY <1>10, RestTyped DEF EnterLane
<1>11. ASSUME NEW r \in Requests, LeaveLane(r) PROVE Claims'
  BY <1>11, RestTyped DEF LeaveLane
<1> QED
  BY <1>1, <1>2, <1>3, <1>4, <1>5, <1>6, <1>7, <1>8, <1>9, <1>10, <1>11 DEF Call

\* Nor do the worker's lease and release, voice ending and the shutdown.
LEMMA BeginClaims == Shape /\ Claims /\ Begin => Claims'
<1> SUFFICES ASSUME Shape /\ Claims, Begin PROVE Claims'
  OBVIOUS
<1> USE BackendsAssumption, ClientsAssumption
    DEF Shape, Claims, InUse, TypeOK, BackendOrNone, Kinds, Syncs, Awaits, Pin,
        Swaps, Drains, ownerVars, laneVars, backendVars, jobVars
<1>1. CASE ~stopping /\ Call
  BY <1>1, CallClaims
<1>2. ASSUME NEW o \in Owners, Acquire(o) PROVE Claims'
  BY <1>2, RequestTyped DEF Acquire
<1>3. ASSUME NEW o \in Owners, Release(o) PROVE Claims'
  BY <1>3, RestTyped DEF Release
<1>4. CASE DeactivateVoice
  BY <1>4, RestTyped DEF DeactivateVoice
<1>5. CASE ForceShutdown
  BY <1>5, RequestTyped DEF ForceShutdown
<1> QED
  BY <1>1, <1>2, <1>3, <1>4, <1>5 DEF Begin

\* Nor does what goes on outside the lock.
LEMMA OutsideClaims == Shape /\ Claims /\ Outside => Claims'
<1> SUFFICES ASSUME Shape /\ Claims, Outside PROVE Claims'
  OBVIOUS
<1> USE BackendsAssumption, ClientsAssumption
    DEF Shape, Claims, InUse, TypeOK, BackendOrNone, Kinds, Syncs, Awaits, Pin,
        Swaps, Drains, ownerVars, laneVars, backendVars, jobVars
<1>1. ASSUME NEW b \in Backends, Pick(b) PROVE Claims'
  BY <1>1 DEF Pick
<1>2. ASSUME NEW o \in Owners, JobBegin(o) PROVE Claims'
  BY <1>2 DEF JobBegin
<1>3. ASSUME NEW o \in Owners, Recycle(o) PROVE Claims'
  BY <1>3 DEF Recycle, Clear
<1>4. CASE EndWork
  BY <1>4 DEF EndWork
<1>5. CASE JobEnd
  BY <1>5 DEF JobEnd
<1>6. CASE VoiceStarted
  BY <1>6 DEF VoiceStarted
<1>7. CASE SaveSettings
  BY <1>7 DEF SaveSettings
<1>8. CASE Stop
  BY <1>8 DEF Stop
<1> QED
  BY <1>1, <1>2, <1>3, <1>4, <1>5, <1>6, <1>7, <1>8 DEF Outside

\* Nothing is claimed at the start.
LEMMA InitClaims == Init => Claims
  BY RestTyped, ClientsAssumption DEF Init, Claims, InUse, Drains

\* Claims is inductive, given Shape.
LEMMA ClaimsStep == Shape /\ Claims /\ [Next]_vars => Claims'
<1>1. CASE UNCHANGED vars
  BY <1>1 DEF vars, Claims, InUse, ownerVars, laneVars, backendVars, jobVars
<1> QED
  BY <1>1, LockStepClaims, BeginClaims, OutsideClaims DEF Next, Exited

\* Claims always holds.
LEMMA ClaimsInvariant == Spec => []Claims
  BY InitClaims, ClaimsStep, ShapeInvariant, PTL DEF Spec

\* A leased backend is the resident, and stays loaded while its job generates:
\* one check of the lease at the start of each request is enough, for any number
\* of models, jobs and requests.
THEOREM LeaseHolds == Spec => []LeaseHoldsResident
<1>1. Claims => LeaseHoldsResident
  BY DEF Claims, LeaseHoldsResident
<1> QED
  BY <1>1, ClaimsInvariant, PTL

\* While the voice session owns the GPU nothing else does, although its lane is
\* only entered after the awaits that emptied the GPU.
THEOREM ExclusiveIsAlone == Spec => []ExclusiveAlone
<1>1. Claims => ExclusiveAlone
  BY DEF Claims, ExclusiveAlone, InUse
<1> QED
  BY <1>1, ClaimsInvariant, PTL

-----------------------------------------------------------------------------
(* What is on the GPU.                                                      *)

\* Loads, parks and unloads, failed or cancelled ones too, keep the GPU accounted for.
LEMMA LockStepOccupancy == Known /\ LockStep => Occupancy'
<1> SUFFICES ASSUME Known, LockStep PROVE Occupancy'
  OBVIOUS
<1> USE BackendsAssumption, ClientsAssumption
    DEF Known, Shape, Claims, Occupancy, OneResident, Accounted, Seated, InUse,
        TypeOK, BackendOrNone, Kinds, Syncs, Awaits, Swaps, Drains, Incoming, Cancellable,
        Untold, MayFree, Drifts, Strays, Haunted,
        ownerVars, laneVars, backendVars, jobVars
<1>1. CASE EnsureStep
  <2>1. OneResident'
    BY <1>1, GotoKeeps DEF EnsureStep, MayPark, SameRequest, LockRequest
  <2>2. Accounted'
    BY <1>1, GotoKeeps DEF EnsureStep, MayPark, SameRequest, LockRequest
  <2>3. Seated'
    BY <1>1, GotoKeeps DEF EnsureStep, MayPark, SameRequest, LockRequest
  <2> QED
    BY <2>1, <2>2, <2>3
<1>2. CASE AdmitStep
  <2>1. OneResident'
    BY <1>2, GotoKeeps, AwaitInKeeps DEF AdmitStep, Victims, SameRequest, LockRequest
  <2>2. Accounted'
    BY <1>2, GotoKeeps, AwaitInKeeps DEF AdmitStep, Victims, SameRequest, LockRequest
  <2>3. Seated'
    BY <1>2, GotoKeeps, AwaitInKeeps DEF AdmitStep, Victims, SameRequest, LockRequest
  <2> QED
    BY <2>1, <2>2, <2>3
<1>3. CASE ParkStep
  <2>1. OneResident'
    BY <1>3, GotoKeeps DEF ParkStep, ParkReturns, ParkRaises, SameRequest, LockRequest
  <2>2. Accounted'
    BY <1>3, GotoKeeps DEF ParkStep, ParkReturns, ParkRaises, SameRequest, LockRequest
  <2>3. Seated'
    BY <1>3, GotoKeeps DEF ParkStep, ParkReturns, ParkRaises, SameRequest, LockRequest
  <2> QED
    BY <2>1, <2>2, <2>3
<1>4. CASE EvictStep
  <2>1. OneResident'
    BY <1>4, AwaitInKeeps
       DEF EvictStep, UnloadReturns, UnloadFails, UnloadCancelled, Unloadable, Clear,
           SameRequest, LockRequest
  <2>2. Accounted'
    BY <1>4, AwaitInKeeps
       DEF EvictStep, UnloadReturns, UnloadFails, UnloadCancelled, Unloadable, Clear,
           SameRequest, LockRequest
  <2>3. Seated'
    BY <1>4, AwaitInKeeps
       DEF EvictStep, UnloadReturns, UnloadFails, UnloadCancelled, Unloadable, Clear,
           SameRequest, LockRequest
  <2> QED
    BY <2>1, <2>2, <2>3
<1>5. CASE LoadStep
  <2>1. OneResident'
    BY <1>5, GotoKeeps DEF LoadStep, LoadReturns, LoadRaises, SameRequest, LockRequest
  <2>2. Accounted'
    BY <1>5, GotoKeeps DEF LoadStep, LoadReturns, LoadRaises, SameRequest, LockRequest
  <2>3. Seated'
    BY <1>5, GotoKeeps DEF LoadStep, LoadReturns, LoadRaises, SameRequest, LockRequest
  <2> QED
    BY <2>1, <2>2, <2>3
<1>6. CASE ProfileStep
  BY <1>6, GotoKeeps DEF ProfileStep, SameRequest, LockRequest
<1>7. CASE UnloadStep
  <2>1. OneResident'
    BY <1>7, GotoKeeps
       DEF UnloadStep, AfterUnload, UnloadReturns, UnloadFails, UnloadCancelled,
           Unloadable, Clear, SameRequest, LockRequest
  <2>2. Accounted'
    BY <1>7, GotoKeeps
       DEF UnloadStep, AfterUnload, UnloadReturns, UnloadFails, UnloadCancelled,
           Unloadable, Clear, SameRequest, LockRequest
  <2>3. Seated'
    BY <1>7, GotoKeeps
       DEF UnloadStep, AfterUnload, UnloadReturns, UnloadFails, UnloadCancelled,
           Unloadable, Clear, SameRequest, LockRequest
  <2> QED
    BY <2>1, <2>2, <2>3
<1>8. CASE DrainStep
  BY <1>8, GotoKeeps, AwaitInKeeps DEF DrainStep, SameRequest, LockRequest
<1>9. CASE Done
  BY <1>9, RestTyped DEF Done, SameRequest, LockRequest
<1>10. CASE Raise
  BY <1>10, GotoKeeps, AwaitInKeeps, RestTyped
     DEF Raise, Debris, SameRequest, LockRequest
<1>11. CASE CleanupStep
  BY <1>11, AwaitInKeeps
     DEF CleanupStep, UnloadReturns, UnloadFails, UnloadCancelled, Unloadable, Clear, SameRequest,
         LockRequest
<1>12. CASE RestoreStep
  BY <1>12, RestoreKeeps, RestTyped DEF RestoreStep, SameRequest, LockRequest
<1> QED
  BY <1>1, <1>2, <1>3, <1>4, <1>5, <1>6, <1>7, <1>8, <1>9, <1>10, <1>11, <1>12
     DEF LockStep

\* An HTTP request that takes the lock starts from an accounted GPU.
LEMMA CallOccupancy == Known /\ ~stopping /\ Call => Occupancy'
<1> SUFFICES ASSUME Known, ~stopping /\ Call PROVE Occupancy'
  OBVIOUS
<1> USE BackendsAssumption, ClientsAssumption
    DEF Known, Shape, Claims, Occupancy, OneResident, Accounted, Seated, InUse,
        TypeOK, BackendOrNone, Kinds, Syncs, Awaits, Swaps, Drains, Incoming, Cancellable,
        Untold, MayFree, Drifts, Strays, Haunted,
        ownerVars, laneVars, backendVars, jobVars
<1>1. ASSUME NEW b \in Direct, Ensure(b) PROVE Occupancy'
  BY <1>1, RequestTyped, RestTyped DEF Ensure
<1>2. CASE FreeAll
  BY <1>2, RequestTyped, RestTyped DEF FreeAll
<1>3. CASE Reconfigure
  BY <1>3, RequestTyped, RestTyped DEF Reconfigure
<1>4. ASSUME NEW p \in Pins, PinCurrent(p) PROVE Occupancy'
  BY <1>4, RestTyped DEF PinCurrent
<1>5. ASSUME NEW p \in Pins \cup {None}, Unpin(p) PROVE Occupancy'
  BY <1>5, RestTyped DEF Unpin
<1>6. ASSUME NEW p \in Pins, NEW u \in BOOLEAN, ReleasePin(p, u) PROVE Occupancy'
  BY <1>6, RequestTyped, RestTyped DEF ReleasePin
<1>7. ASSUME NEW b \in Backends, NEW p \in Pins, EnsurePinned(b, p) PROVE Occupancy'
  BY <1>7, RequestTyped, RestTyped DEF EnsurePinned
<1>8. CASE ActivateVoice
  BY <1>8, RestTyped DEF ActivateVoice, Request, LockRequest
<1>9. CASE RollbackVoice
  BY <1>9, RestTyped DEF RollbackVoice, Request, LockRequest
<1>10. ASSUME NEW r \in Requests, NEW l \in SharedLanes, EnterLane(r, l) PROVE Occupancy'
  BY <1>10, RestTyped DEF EnterLane
<1>11. ASSUME NEW r \in Requests, LeaveLane(r) PROVE Occupancy'
  BY <1>11, RestTyped DEF LeaveLane
<1> QED
  BY <1>1, <1>2, <1>3, <1>4, <1>5, <1>6, <1>7, <1>8, <1>9, <1>10, <1>11 DEF Call

\* So do the worker's requests; the shutdown loads nothing.
LEMMA BeginOccupancy == Known /\ Begin => Occupancy'
<1> SUFFICES ASSUME Known, Begin PROVE Occupancy'
  OBVIOUS
<1> USE BackendsAssumption, ClientsAssumption
    DEF Known, Shape, Claims, Occupancy, OneResident, Accounted, Seated, InUse,
        TypeOK, BackendOrNone, Kinds, Syncs, Awaits, Swaps, Drains, Incoming, Cancellable,
        Untold, MayFree, Drifts, Strays, Haunted,
        ownerVars, laneVars, backendVars, jobVars
<1>1. CASE ~stopping /\ Call
  BY <1>1, CallOccupancy
<1>2. ASSUME NEW o \in Owners, Acquire(o) PROVE Occupancy'
  BY <1>2, RequestTyped, RestTyped DEF Acquire
<1>3. ASSUME NEW o \in Owners, Release(o) PROVE Occupancy'
  BY <1>3, RestTyped DEF Release
<1>4. CASE DeactivateVoice
  BY <1>4, RestTyped DEF DeactivateVoice
<1>5. CASE ForceShutdown
  BY <1>5, RequestTyped, RestTyped DEF ForceShutdown
<1> QED
  BY <1>1, <1>2, <1>3, <1>4, <1>5 DEF Begin

\* A job that ends, rebuilds its pipeline or is picked changes no occupant.
LEMMA OutsideOccupancy == Known /\ Outside => Occupancy'
<1> SUFFICES ASSUME Known, Outside PROVE Occupancy'
  OBVIOUS
<1> USE BackendsAssumption, ClientsAssumption
    DEF Known, Shape, Claims, Occupancy, OneResident, Accounted, Seated, InUse,
        TypeOK, BackendOrNone, Kinds, Syncs, Awaits, Swaps, Drains, Incoming, Cancellable,
        Untold, MayFree, Drifts, Strays, Haunted,
        ownerVars, laneVars, backendVars, jobVars
<1>1. ASSUME NEW b \in Backends, Pick(b) PROVE Occupancy'
  BY <1>1 DEF Pick
<1>2. ASSUME NEW o \in Owners, JobBegin(o) PROVE Occupancy'
  BY <1>2 DEF JobBegin
<1>3. ASSUME NEW o \in Owners, Recycle(o) PROVE Occupancy'
  BY <1>3 DEF Recycle, Clear
<1>4. CASE EndWork
  BY <1>4 DEF EndWork
<1>5. CASE JobEnd
  BY <1>5 DEF JobEnd
<1>6. CASE VoiceStarted
  BY <1>6 DEF VoiceStarted
<1>7. CASE SaveSettings
  BY <1>7 DEF SaveSettings
<1>8. CASE Stop
  BY <1>8 DEF Stop
<1> QED
  BY <1>1, <1>2, <1>3, <1>4, <1>5, <1>6, <1>7, <1>8 DEF Outside

\* The GPU starts empty.
LEMMA InitOccupancy == Init => Occupancy
  BY RestTyped DEF Init, Occupancy, OneResident, Accounted, Seated

\* Occupancy is inductive, given Shape and Claims.
LEMMA OccupancyStep == Known /\ [Next]_vars => Occupancy'
<1>1. CASE UNCHANGED vars
  BY <1>1
     DEF vars, Known, Occupancy, OneResident, Accounted, Seated, Incoming, Untold,
         ownerVars, laneVars, backendVars, jobVars
<1> QED
  BY <1>1, LockStepOccupancy, BeginOccupancy, OutsideOccupancy DEF Next, Exited

\* Two models never share the GPU, whichever call fails or is cancelled and
\* however many models, jobs and requests there are, but for the weights that a
\* failed load of a pipeline, a park in place or a cancelled call leaves there, and
\* as long as after_job rebuilds a pipeline only under the job's lease (the run
\* arbiter_one_resident shows what happens when it does not).
THEOREM OneResidentHolds ==
  ASSUME LateRecycle = FALSE
  PROVE  Spec => []OneResident
<1>1. Shape /\ Claims /\ Occupancy /\ [Next]_vars => Occupancy'
  BY OccupancyStep DEF Known
<1>2. Occupancy => OneResident
  BY DEF Occupancy
<1> QED
  BY <1>1, <1>2, InitOccupancy, ShapeInvariant, ClaimsInvariant, PTL DEF Spec

-----------------------------------------------------------------------------
(* What the layers leave out.                                              *)

\* The pool, and what keeps a model from being parked and loaded at once.
Pooled ==
  /\ IsFiniteSet(pool)
  /\ PoolSound
  /\ op.stage = "park" => Cardinality(pool) < PoolMax \/ current \in pool
  /\ op.stage = "profile" => Incoming \notin warm
  /\ \A b \in loaded \cap pool : b \in adrift \/ (op.stage = "profile" /\ b = Incoming)

\* Which servers are loaded, and with which configuration.
Configured ==
  /\ Servers \cap strays = {} =>
       \A b \in (Servers \cap loaded) \ saved :
         b \notin adrift \/ (op.stage = "profile" /\ b = Incoming) => launched[b] = config
  /\ op.stage = "load" => Incoming \notin Servers \cap loaded
  /\ op.kind = "reconfigure" /\ op.stage = "done" => current = None
  /\ \A b \in Servers \cap loaded :
       b = current \/ b \in adrift \/ (op.stage = "profile" /\ b = Incoming)

-----------------------------------------------------------------------------
(* The keep-warm pool.                                                      *)

\* A pool that models have left is within the limit.
LEMMA PoolShrinks ==
  ASSUME IsFiniteSet(pool), Cardinality(pool) <= PoolMax, pool' \subseteq pool,
         PoolMax \in Nat
  PROVE  IsFiniteSet(pool') /\ Cardinality(pool') <= PoolMax
  BY FS_Subset, FS_CardinalityType

\* A model that enters the pool makes it larger by one at most.
LEMMA PoolGrows ==
  ASSUME IsFiniteSet(pool), NEW b, pool' = pool \cup {b}, Cardinality(pool) < PoolMax,
         PoolMax \in Nat
  PROVE  IsFiniteSet(pool') /\ Cardinality(pool') <= PoolMax
  BY FS_AddElement, FS_CardinalityType

\* No step of the request that holds the lock makes the pool unsound.
LEMMA LockStepPooled == Known /\ Pooled /\ LockStep => Pooled'
<1> SUFFICES ASSUME Known /\ Pooled, LockStep PROVE Pooled'
  OBVIOUS
<1> USE BackendsAssumption, ClientsAssumption, BoundsAssumption
    DEF Known, Shape, Claims, Seated, Occupancy, Pooled, PoolSound, InUse, TypeOK,
        BackendOrNone, Kinds, Syncs, Awaits, Swaps, Drains, Incoming, Cancellable,
        Untold, MayFree, Drifts, Strays, Haunted,
        ownerVars, laneVars, backendVars, jobVars
<1>1. CASE EnsureStep
  BY <1>1, GotoKeeps DEF EnsureStep, MayPark, SameRequest, LockRequest
<1>2. CASE AdmitStep
  BY <1>2, GotoKeeps, AwaitInKeeps DEF AdmitStep, Victims, SameRequest, LockRequest
<1>3. CASE ParkStep
  <2>1. pool' = pool \/ (pool' = pool \cup {current} /\ Cardinality(pool) < PoolMax)
    <3>1. pool' = pool \/ pool' = pool \cup {current}
      BY <1>3 DEF ParkStep
    <3>2. Cardinality(pool) < PoolMax \/ current \in pool
      BY <1>3 DEF ParkStep
    <3>3. current \in pool => pool \cup {current} = pool
      OBVIOUS
    <3> QED
      BY ONLY <3>1, <3>2, <3>3
  <2>2. IsFiniteSet(pool') /\ Cardinality(pool') <= PoolMax
    BY <2>1, PoolGrows
  <2> QED
    BY <2>2, <1>3, GotoKeeps DEF ParkStep, ParkReturns, ParkRaises, SameRequest, LockRequest
<1>4. CASE EvictStep
  <2>1. pool' \subseteq pool
    BY <1>4 DEF EvictStep
  <2>2. IsFiniteSet(pool') /\ Cardinality(pool') <= PoolMax
    BY <2>1, PoolShrinks
  <2>3. (current' \in pool' => current' \in adrift') /\ warm' \subseteq pool'
    BY <1>4, AwaitInKeeps
       DEF EvictStep, UnloadReturns, UnloadFails, UnloadCancelled, Unloadable, Clear,
           SameRequest, LockRequest
  <2> QED
    BY <2>2, <2>3, <1>4, AwaitInKeeps
       DEF EvictStep, UnloadReturns, UnloadFails, UnloadCancelled, Unloadable, Clear,
           SameRequest, LockRequest
<1>5. CASE LoadStep
  BY <1>5, GotoKeeps DEF LoadStep, LoadReturns, LoadRaises, SameRequest, LockRequest
<1>6. CASE ProfileStep
  <2>1. pool' \subseteq pool
    BY <1>6 DEF ProfileStep
  <2>2. IsFiniteSet(pool') /\ Cardinality(pool') <= PoolMax
    BY <2>1, PoolShrinks
  <2>3. (current' \in pool' => current' \in adrift') /\ warm' \subseteq pool'
    BY <1>6, GotoKeeps
       DEF ProfileStep, SameRequest, LockRequest
  <2> QED
    BY <2>2, <2>3, <1>6, GotoKeeps
       DEF ProfileStep, SameRequest, LockRequest
<1>7. CASE UnloadStep
  <2>1. pool' \subseteq pool
    BY <1>7 DEF UnloadStep
  <2>2. IsFiniteSet(pool') /\ Cardinality(pool') <= PoolMax
    BY <2>1, PoolShrinks
  <2>3. (current' \in pool' => current' \in adrift') /\ warm' \subseteq pool'
    BY <1>7, GotoKeeps
       DEF UnloadStep, AfterUnload, UnloadReturns, UnloadFails, UnloadCancelled,
           Unloadable, Clear, SameRequest, LockRequest
  <2> QED
    BY <2>2, <2>3, <1>7, GotoKeeps
       DEF UnloadStep, AfterUnload, UnloadReturns, UnloadFails, UnloadCancelled,
           Unloadable, Clear, SameRequest, LockRequest
<1>8. CASE DrainStep
  BY <1>8, GotoKeeps, AwaitInKeeps DEF DrainStep, SameRequest, LockRequest
<1>9. CASE Done
  BY <1>9, RestTyped DEF Done, SameRequest, LockRequest
<1>10. CASE Raise
  BY <1>10, GotoKeeps, AwaitInKeeps, RestTyped
     DEF Raise, Debris, SameRequest, LockRequest
<1>11. CASE CleanupStep
  <2>1. pool' \subseteq pool
    BY <1>11 DEF CleanupStep
  <2>2. IsFiniteSet(pool') /\ Cardinality(pool') <= PoolMax
    BY <2>1, PoolShrinks
  <2>3. (current' \in pool' => current' \in adrift') /\ warm' \subseteq pool'
    BY <1>11, AwaitInKeeps
       DEF CleanupStep, UnloadReturns, UnloadFails, UnloadCancelled, Unloadable, Clear, SameRequest,
           LockRequest
  <2> QED
    BY <2>2, <2>3, <1>11, AwaitInKeeps
       DEF CleanupStep, UnloadReturns, UnloadFails, UnloadCancelled, Unloadable, Clear, SameRequest,
           LockRequest
<1>12. CASE RestoreStep
  BY <1>12, RestoreKeeps, RestTyped DEF RestoreStep, SameRequest, LockRequest
<1> QED
  BY <1>1, <1>2, <1>3, <1>4, <1>5, <1>6, <1>7, <1>8, <1>9, <1>10, <1>11, <1>12
     DEF LockStep

\* Neither does an HTTP request that takes the lock.
LEMMA CallPooled == Known /\ Pooled /\ ~stopping /\ Call => Pooled'
<1> SUFFICES ASSUME Known /\ Pooled, ~stopping /\ Call PROVE Pooled'
  OBVIOUS
<1> USE BackendsAssumption, ClientsAssumption, BoundsAssumption
    DEF Known, Shape, Claims, Seated, Occupancy, Pooled, PoolSound, InUse, TypeOK,
        BackendOrNone, Kinds, Syncs, Awaits, Swaps, Drains, Incoming, Cancellable,
        Untold, MayFree, Drifts, Strays, Haunted,
        ownerVars, laneVars, backendVars, jobVars
<1>1. ASSUME NEW b \in Direct, Ensure(b) PROVE Pooled'
  BY <1>1, RequestTyped, RestTyped DEF Ensure
<1>2. CASE FreeAll
  BY <1>2, RequestTyped, RestTyped DEF FreeAll
<1>3. CASE Reconfigure
  BY <1>3, RequestTyped, RestTyped DEF Reconfigure
<1>4. ASSUME NEW p \in Pins, PinCurrent(p) PROVE Pooled'
  BY <1>4, RestTyped DEF PinCurrent
<1>5. ASSUME NEW p \in Pins \cup {None}, Unpin(p) PROVE Pooled'
  BY <1>5, RestTyped DEF Unpin
<1>6. ASSUME NEW p \in Pins, NEW u \in BOOLEAN, ReleasePin(p, u) PROVE Pooled'
  BY <1>6, RequestTyped, RestTyped DEF ReleasePin
<1>7. ASSUME NEW b \in Backends, NEW p \in Pins, EnsurePinned(b, p) PROVE Pooled'
  BY <1>7, RequestTyped, RestTyped DEF EnsurePinned
<1>8. CASE ActivateVoice
  BY <1>8, RestTyped DEF ActivateVoice, Request, LockRequest
<1>9. CASE RollbackVoice
  BY <1>9, RestTyped DEF RollbackVoice, Request, LockRequest
<1>10. ASSUME NEW r \in Requests, NEW l \in SharedLanes, EnterLane(r, l) PROVE Pooled'
  BY <1>10, RestTyped DEF EnterLane
<1>11. ASSUME NEW r \in Requests, LeaveLane(r) PROVE Pooled'
  BY <1>11, RestTyped DEF LeaveLane
<1> QED
  BY <1>1, <1>2, <1>3, <1>4, <1>5, <1>6, <1>7, <1>8, <1>9, <1>10, <1>11 DEF Call

\* Nor do the worker and the shutdown.
LEMMA BeginPooled == Known /\ Pooled /\ Begin => Pooled'
<1> SUFFICES ASSUME Known /\ Pooled, Begin PROVE Pooled'
  OBVIOUS
<1> USE BackendsAssumption, ClientsAssumption, BoundsAssumption
    DEF Known, Shape, Claims, Seated, Occupancy, Pooled, PoolSound, InUse, TypeOK,
        BackendOrNone, Kinds, Syncs, Awaits, Swaps, Drains, Incoming, Cancellable,
        Untold, MayFree, Drifts, Strays, Haunted,
        ownerVars, laneVars, backendVars, jobVars
<1>1. CASE ~stopping /\ Call
  BY <1>1, CallPooled
<1>2. ASSUME NEW o \in Owners, Acquire(o) PROVE Pooled'
  BY <1>2, RequestTyped, RestTyped DEF Acquire
<1>3. ASSUME NEW o \in Owners, Release(o) PROVE Pooled'
  BY <1>3, RestTyped DEF Release
<1>4. CASE DeactivateVoice
  BY <1>4, RestTyped DEF DeactivateVoice
<1>5. CASE ForceShutdown
  BY <1>5, RequestTyped, RestTyped DEF ForceShutdown
<1> QED
  BY <1>1, <1>2, <1>3, <1>4, <1>5 DEF Begin

\* Nor does what goes on outside the lock.
LEMMA OutsidePooled == Known /\ Pooled /\ Outside => Pooled'
<1> SUFFICES ASSUME Known /\ Pooled, Outside PROVE Pooled'
  OBVIOUS
<1> USE BackendsAssumption, ClientsAssumption, BoundsAssumption
    DEF Known, Shape, Claims, Seated, Occupancy, Pooled, PoolSound, InUse, TypeOK,
        BackendOrNone, Kinds, Syncs, Awaits, Swaps, Drains, Incoming, Cancellable,
        Untold, MayFree, Drifts, Strays, Haunted,
        ownerVars, laneVars, backendVars, jobVars
<1>1. ASSUME NEW b \in Backends, Pick(b) PROVE Pooled'
  BY <1>1 DEF Pick
<1>2. ASSUME NEW o \in Owners, JobBegin(o) PROVE Pooled'
  BY <1>2 DEF JobBegin
<1>3. ASSUME NEW o \in Owners, Recycle(o) PROVE Pooled'
  BY <1>3 DEF Recycle, Clear
<1>4. CASE EndWork
  BY <1>4 DEF EndWork
<1>5. CASE JobEnd
  BY <1>5 DEF JobEnd
<1>6. CASE VoiceStarted
  BY <1>6 DEF VoiceStarted
<1>7. CASE SaveSettings
  BY <1>7 DEF SaveSettings
<1>8. CASE Stop
  BY <1>8 DEF Stop
<1> QED
  BY <1>1, <1>2, <1>3, <1>4, <1>5, <1>6, <1>7, <1>8 DEF Outside

\* The pool starts empty.
LEMMA InitPooled == Init => Pooled
  BY RestTyped, BoundsAssumption, FS_EmptySet DEF Init, Pooled, PoolSound

\* Pooled is inductive, given the layers before it.
LEMMA PooledStep == Known /\ Pooled /\ [Next]_vars => Pooled'
<1>1. CASE UNCHANGED vars
  BY <1>1
     DEF vars, Pooled, PoolSound, InUse, Incoming,
         ownerVars, laneVars, backendVars, jobVars
<1> QED
  BY <1>1, LockStepPooled, BeginPooled, OutsidePooled DEF Next, Exited

\* The keep-warm pool stays within its limit, never holds a resident but one whose
\* load was cancelled before it had its seat, and knows every parked pipeline,
\* whichever park, eviction or load fails or is cancelled, for any limit and any
\* number of models.
THEOREM PoolIsSound ==
  ASSUME LateRecycle = FALSE
  PROVE  Spec => []PoolSound
<1>1. Shape /\ Claims /\ Occupancy /\ [Next]_vars => Occupancy'
  BY OccupancyStep DEF Known
<1>2. Shape /\ Claims /\ Occupancy /\ Pooled /\ [Next]_vars => Pooled'
  BY PooledStep DEF Known
<1>3. Pooled => PoolSound
  BY DEF Pooled
<1> QED
  BY <1>1, <1>2, <1>3, InitOccupancy, InitPooled, ShapeInvariant, ClaimsInvariant, PTL
     DEF Spec

-----------------------------------------------------------------------------
(* The launch configuration.                                               *)

\* In the lock a server is loaded with the configuration of its time and unloaded before
\* that changes.
LEMMA LockStepConfigured == Known /\ Configured /\ LockStep => Configured'
<1> SUFFICES ASSUME Known /\ Configured, LockStep PROVE Configured'
  OBVIOUS
<1> USE BackendsAssumption, ClientsAssumption, BoundsAssumption
    DEF Known, Shape, Claims, Seated, Occupancy, Configured, InUse, TypeOK,
        BackendOrNone, Kinds, Syncs, Awaits, Swaps, Drains, Incoming, Cancellable,
        Untold, MayFree, Drifts, Strays, Haunted,
        ownerVars, laneVars, backendVars, jobVars
<1>1. CASE EnsureStep
  BY <1>1, GotoKeeps DEF EnsureStep, MayPark, SameRequest, LockRequest
<1>2. CASE AdmitStep
  BY <1>2, GotoKeeps, AwaitInKeeps DEF AdmitStep, Victims, SameRequest, LockRequest
<1>3. CASE ParkStep
  BY <1>3, GotoKeeps DEF ParkStep, ParkReturns, ParkRaises, SameRequest, LockRequest
<1>4. CASE EvictStep
  BY <1>4, AwaitInKeeps
     DEF EvictStep, UnloadReturns, UnloadFails, UnloadCancelled, Unloadable, Clear,
         SameRequest, LockRequest
<1>5. CASE LoadStep
  BY <1>5, GotoKeeps DEF LoadStep, LoadReturns, LoadRaises, SameRequest, LockRequest
<1>6. CASE ProfileStep
  BY <1>6, GotoKeeps DEF ProfileStep, SameRequest, LockRequest
<1>7. CASE UnloadStep
  BY <1>7, GotoKeeps
     DEF UnloadStep, AfterUnload, UnloadReturns, UnloadFails, UnloadCancelled,
         Unloadable, Clear, SameRequest, LockRequest
<1>8. CASE DrainStep
  BY <1>8, GotoKeeps, AwaitInKeeps DEF DrainStep, SameRequest, LockRequest
<1>9. CASE Done
  BY <1>9, RestTyped DEF Done, SameRequest, LockRequest
<1>10. CASE Raise
  BY <1>10, GotoKeeps, AwaitInKeeps, RestTyped
     DEF Raise, Debris, SameRequest, LockRequest
<1>11. CASE CleanupStep
  BY <1>11, AwaitInKeeps
     DEF CleanupStep, UnloadReturns, UnloadFails, UnloadCancelled, Unloadable, Clear, SameRequest,
         LockRequest
<1>12. CASE RestoreStep
  BY <1>12, RestoreKeeps, RestTyped DEF RestoreStep, SameRequest, LockRequest
<1> QED
  BY <1>1, <1>2, <1>3, <1>4, <1>5, <1>6, <1>7, <1>8, <1>9, <1>10, <1>11, <1>12
     DEF LockStep

\* Neither does an HTTP request that takes the lock.
LEMMA CallConfigured == Known /\ Configured /\ ~stopping /\ Call => Configured'
<1> SUFFICES ASSUME Known /\ Configured, ~stopping /\ Call PROVE Configured'
  OBVIOUS
<1> USE BackendsAssumption, ClientsAssumption, BoundsAssumption
    DEF Known, Shape, Claims, Seated, Occupancy, Configured, InUse, TypeOK,
        BackendOrNone, Kinds, Syncs, Awaits, Swaps, Drains, Incoming, Cancellable,
        Untold, MayFree, Drifts, Strays, Haunted,
        ownerVars, laneVars, backendVars, jobVars
<1>1. ASSUME NEW b \in Direct, Ensure(b) PROVE Configured'
  BY <1>1, RequestTyped, RestTyped DEF Ensure
<1>2. CASE FreeAll
  BY <1>2, RequestTyped, RestTyped DEF FreeAll
<1>3. CASE Reconfigure
  BY <1>3, RequestTyped, RestTyped DEF Reconfigure
<1>4. ASSUME NEW p \in Pins, PinCurrent(p) PROVE Configured'
  BY <1>4, RestTyped DEF PinCurrent
<1>5. ASSUME NEW p \in Pins \cup {None}, Unpin(p) PROVE Configured'
  BY <1>5, RestTyped DEF Unpin
<1>6. ASSUME NEW p \in Pins, NEW u \in BOOLEAN, ReleasePin(p, u) PROVE Configured'
  BY <1>6, RequestTyped, RestTyped DEF ReleasePin
<1>7. ASSUME NEW b \in Backends, NEW p \in Pins, EnsurePinned(b, p) PROVE Configured'
  BY <1>7, RequestTyped, RestTyped DEF EnsurePinned
<1>8. CASE ActivateVoice
  BY <1>8, RestTyped DEF ActivateVoice, Request, LockRequest
<1>9. CASE RollbackVoice
  BY <1>9, RestTyped DEF RollbackVoice, Request, LockRequest
<1>10. ASSUME NEW r \in Requests, NEW l \in SharedLanes, EnterLane(r, l) PROVE Configured'
  BY <1>10, RestTyped DEF EnterLane
<1>11. ASSUME NEW r \in Requests, LeaveLane(r) PROVE Configured'
  BY <1>11, RestTyped DEF LeaveLane
<1> QED
  BY <1>1, <1>2, <1>3, <1>4, <1>5, <1>6, <1>7, <1>8, <1>9, <1>10, <1>11 DEF Call

\* Nor do the worker and the shutdown.
LEMMA BeginConfigured == Known /\ Configured /\ Begin => Configured'
<1> SUFFICES ASSUME Known /\ Configured, Begin PROVE Configured'
  OBVIOUS
<1> USE BackendsAssumption, ClientsAssumption, BoundsAssumption
    DEF Known, Shape, Claims, Seated, Occupancy, Configured, InUse, TypeOK,
        BackendOrNone, Kinds, Syncs, Awaits, Swaps, Drains, Incoming, Cancellable,
        Untold, MayFree, Drifts, Strays, Haunted,
        ownerVars, laneVars, backendVars, jobVars
<1>1. CASE ~stopping /\ Call
  BY <1>1, CallConfigured
<1>2. ASSUME NEW o \in Owners, Acquire(o) PROVE Configured'
  BY <1>2, RequestTyped, RestTyped DEF Acquire
<1>3. ASSUME NEW o \in Owners, Release(o) PROVE Configured'
  BY <1>3, RestTyped DEF Release
<1>4. CASE DeactivateVoice
  BY <1>4, RestTyped DEF DeactivateVoice
<1>5. CASE ForceShutdown
  BY <1>5, RequestTyped, RestTyped DEF ForceShutdown
<1> QED
  BY <1>1, <1>2, <1>3, <1>4, <1>5 DEF Begin

\* Nor does what goes on outside the lock.
LEMMA OutsideConfigured == Known /\ Configured /\ Outside => Configured'
<1> SUFFICES ASSUME Known /\ Configured, Outside PROVE Configured'
  OBVIOUS
<1> USE BackendsAssumption, ClientsAssumption, BoundsAssumption
    DEF Known, Shape, Claims, Seated, Occupancy, Configured, InUse, TypeOK,
        BackendOrNone, Kinds, Syncs, Awaits, Swaps, Drains, Incoming, Cancellable,
        Untold, MayFree, Drifts, Strays, Haunted,
        ownerVars, laneVars, backendVars, jobVars
<1>1. ASSUME NEW b \in Backends, Pick(b) PROVE Configured'
  BY <1>1 DEF Pick
<1>2. ASSUME NEW o \in Owners, JobBegin(o) PROVE Configured'
  BY <1>2 DEF JobBegin
<1>3. ASSUME NEW o \in Owners, Recycle(o) PROVE Configured'
  BY <1>3 DEF Recycle, Clear
<1>4. CASE EndWork
  BY <1>4 DEF EndWork
<1>5. CASE JobEnd
  BY <1>5 DEF JobEnd
<1>6. CASE VoiceStarted
  BY <1>6 DEF VoiceStarted
<1>7. CASE SaveSettings
  BY <1>7 DEF SaveSettings
<1>8. CASE Stop
  BY <1>8 DEF Stop
<1> QED
  BY <1>1, <1>2, <1>3, <1>4, <1>5, <1>6, <1>7, <1>8 DEF Outside

\* No server is loaded at the start.
LEMMA InitConfigured == Init => Configured
  BY RestTyped DEF Init, Configured

\* Configured is inductive, given the layers before it.
LEMMA ConfiguredStep == Known /\ Configured /\ [Next]_vars => Configured'
<1>1. CASE UNCHANGED vars
  BY <1>1 DEF vars, Configured, Incoming, ownerVars, laneVars, backendVars, jobVars
<1> QED
  BY <1>1, LockStepConfigured, BeginConfigured, OutsideConfigured DEF Next, Exited

\* A resident server runs with the settings that the API reports, although the
\* reconfiguration, the saves and the swaps that put servers on the GPU interleave
\* with everything else, unless settings were saved since its load began, the load was
\* cancelled before it had its seat, or a cancelled start left a server at the port.
THEOREM ResidentConfigured ==
  ASSUME LateRecycle = FALSE
  PROVE  Spec => []ResidentRunsConfig
<1>1. Shape /\ Claims /\ Occupancy /\ [Next]_vars => Occupancy'
  BY OccupancyStep DEF Known
<1>2. Shape /\ Claims /\ Occupancy /\ Configured /\ [Next]_vars => Configured'
  BY ConfiguredStep DEF Known
<1>3. Configured => ResidentRunsConfig
  BY DEF Configured, ResidentRunsConfig
<1>4. Init => Configured
  BY InitConfigured
<1> QED
  BY <1>1, <1>2, <1>3, <1>4, InitOccupancy, ShapeInvariant, ClaimsInvariant, PTL
     DEF Spec

-----------------------------------------------------------------------------
(* The arbiter implements GpuOwnership.                                     *)

\* No pin stands while a model is taken off the GPU.
Unpinned ==
  op.stage \in {"park", "unload"} \/ op.kind \in Drains \cup {"reconfigure"} => pin = None

\* A request in the lock looks for a pin before it goes on to a park or an unload.
LEMMA LockStepUnpinned == Known /\ Unpinned /\ LockStep => Unpinned'
<1> SUFFICES ASSUME Known /\ Unpinned, LockStep PROVE Unpinned'
  OBVIOUS
<1> USE BackendsAssumption, ClientsAssumption, BoundsAssumption
    DEF Known, Shape, Claims, Seated, Occupancy, Unpinned, InUse, TypeOK,
        BackendOrNone, Kinds, Syncs, Awaits, Swaps, Drains, Incoming, Cancellable,
        Untold, MayFree, Drifts, Strays, Haunted,
        ownerVars, laneVars, backendVars, jobVars
<1>1. CASE EnsureStep
  BY <1>1, GotoKeeps DEF EnsureStep, MayPark, SameRequest, LockRequest
<1>2. CASE AdmitStep
  BY <1>2, GotoKeeps, AwaitInKeeps DEF AdmitStep, Victims, SameRequest, LockRequest
<1>3. CASE ParkStep
  BY <1>3, GotoKeeps DEF ParkStep, ParkReturns, ParkRaises, SameRequest, LockRequest
<1>4. CASE EvictStep
  BY <1>4, AwaitInKeeps
     DEF EvictStep, UnloadReturns, UnloadFails, UnloadCancelled, Unloadable, Clear,
         SameRequest, LockRequest
<1>5. CASE LoadStep
  BY <1>5, GotoKeeps DEF LoadStep, LoadReturns, LoadRaises, SameRequest, LockRequest
<1>6. CASE ProfileStep
  BY <1>6, GotoKeeps DEF ProfileStep, SameRequest, LockRequest
<1>7. CASE UnloadStep
  BY <1>7, GotoKeeps
     DEF UnloadStep, AfterUnload, UnloadReturns, UnloadFails, UnloadCancelled,
         Unloadable, Clear, SameRequest, LockRequest
<1>8. CASE DrainStep
  BY <1>8, GotoKeeps, AwaitInKeeps DEF DrainStep, SameRequest, LockRequest
<1>9. CASE Done
  BY <1>9, RestTyped DEF Done, SameRequest, LockRequest
<1>10. CASE Raise
  BY <1>10, GotoKeeps, AwaitInKeeps, RestTyped
     DEF Raise, Debris, SameRequest, LockRequest
<1>11. CASE CleanupStep
  BY <1>11, AwaitInKeeps
     DEF CleanupStep, UnloadReturns, UnloadFails, UnloadCancelled, Unloadable, Clear, SameRequest,
         LockRequest
<1>12. CASE RestoreStep
  BY <1>12, RestoreKeeps, RestTyped DEF RestoreStep, SameRequest, LockRequest
<1> QED
  BY <1>1, <1>2, <1>3, <1>4, <1>5, <1>6, <1>7, <1>8, <1>9, <1>10, <1>11, <1>12
     DEF LockStep

\* No HTTP request pins a model while one is being taken off.
LEMMA CallUnpinned == Known /\ Unpinned /\ ~stopping /\ Call => Unpinned'
<1> SUFFICES ASSUME Known /\ Unpinned, ~stopping /\ Call PROVE Unpinned'
  OBVIOUS
<1> USE BackendsAssumption, ClientsAssumption, BoundsAssumption
    DEF Known, Shape, Claims, Seated, Occupancy, Unpinned, InUse, TypeOK,
        BackendOrNone, Kinds, Syncs, Awaits, Swaps, Drains, Incoming, Cancellable,
        Untold, MayFree, Drifts, Strays, Haunted,
        ownerVars, laneVars, backendVars, jobVars
<1>1. ASSUME NEW b \in Direct, Ensure(b) PROVE Unpinned'
  BY <1>1, RequestTyped, RestTyped DEF Ensure
<1>2. CASE FreeAll
  BY <1>2, RequestTyped, RestTyped DEF FreeAll
<1>3. CASE Reconfigure
  BY <1>3, RequestTyped, RestTyped DEF Reconfigure
<1>4. ASSUME NEW p \in Pins, PinCurrent(p) PROVE Unpinned'
  BY <1>4, RestTyped DEF PinCurrent
<1>5. ASSUME NEW p \in Pins \cup {None}, Unpin(p) PROVE Unpinned'
  BY <1>5, RestTyped DEF Unpin
<1>6. ASSUME NEW p \in Pins, NEW u \in BOOLEAN, ReleasePin(p, u) PROVE Unpinned'
  BY <1>6, RequestTyped, RestTyped DEF ReleasePin
<1>7. ASSUME NEW b \in Backends, NEW p \in Pins, EnsurePinned(b, p) PROVE Unpinned'
  BY <1>7, RequestTyped, RestTyped DEF EnsurePinned
<1>8. CASE ActivateVoice
  BY <1>8, RestTyped DEF ActivateVoice, Request, LockRequest
<1>9. CASE RollbackVoice
  BY <1>9, RestTyped DEF RollbackVoice, Request, LockRequest
<1>10. ASSUME NEW r \in Requests, NEW l \in SharedLanes, EnterLane(r, l) PROVE Unpinned'
  BY <1>10, RestTyped DEF EnterLane
<1>11. ASSUME NEW r \in Requests, LeaveLane(r) PROVE Unpinned'
  BY <1>11, RestTyped DEF LeaveLane
<1> QED
  BY <1>1, <1>2, <1>3, <1>4, <1>5, <1>6, <1>7, <1>8, <1>9, <1>10, <1>11 DEF Call

\* Nor do the worker and the shutdown.
LEMMA BeginUnpinned == Known /\ Unpinned /\ Begin => Unpinned'
<1> SUFFICES ASSUME Known /\ Unpinned, Begin PROVE Unpinned'
  OBVIOUS
<1> USE BackendsAssumption, ClientsAssumption, BoundsAssumption
    DEF Known, Shape, Claims, Seated, Occupancy, Unpinned, InUse, TypeOK,
        BackendOrNone, Kinds, Syncs, Awaits, Swaps, Drains, Incoming, Cancellable,
        Untold, MayFree, Drifts, Strays, Haunted,
        ownerVars, laneVars, backendVars, jobVars
<1>1. CASE ~stopping /\ Call
  BY <1>1, CallUnpinned
<1>2. ASSUME NEW o \in Owners, Acquire(o) PROVE Unpinned'
  BY <1>2, RequestTyped, RestTyped DEF Acquire
<1>3. ASSUME NEW o \in Owners, Release(o) PROVE Unpinned'
  BY <1>3, RestTyped DEF Release
<1>4. CASE DeactivateVoice
  BY <1>4, RestTyped DEF DeactivateVoice
<1>5. CASE ForceShutdown
  BY <1>5, RequestTyped, RestTyped DEF ForceShutdown
<1> QED
  BY <1>1, <1>2, <1>3, <1>4, <1>5 DEF Begin

\* Nor does what goes on outside the lock.
LEMMA OutsideUnpinned == Known /\ Unpinned /\ Outside => Unpinned'
<1> SUFFICES ASSUME Known /\ Unpinned, Outside PROVE Unpinned'
  OBVIOUS
<1> USE BackendsAssumption, ClientsAssumption, BoundsAssumption
    DEF Known, Shape, Claims, Seated, Occupancy, Unpinned, InUse, TypeOK,
        BackendOrNone, Kinds, Syncs, Awaits, Swaps, Drains, Incoming, Cancellable,
        Untold, MayFree, Drifts, Strays, Haunted,
        ownerVars, laneVars, backendVars, jobVars
<1>1. ASSUME NEW b \in Backends, Pick(b) PROVE Unpinned'
  BY <1>1 DEF Pick
<1>2. ASSUME NEW o \in Owners, JobBegin(o) PROVE Unpinned'
  BY <1>2 DEF JobBegin
<1>3. ASSUME NEW o \in Owners, Recycle(o) PROVE Unpinned'
  BY <1>3 DEF Recycle, Clear
<1>4. CASE EndWork
  BY <1>4 DEF EndWork
<1>5. CASE JobEnd
  BY <1>5 DEF JobEnd
<1>6. CASE VoiceStarted
  BY <1>6 DEF VoiceStarted
<1>7. CASE SaveSettings
  BY <1>7 DEF SaveSettings
<1>8. CASE Stop
  BY <1>8 DEF Stop
<1> QED
  BY <1>1, <1>2, <1>3, <1>4, <1>5, <1>6, <1>7, <1>8 DEF Outside

\* No model is pinned at the start.
LEMMA InitUnpinned == Init => Unpinned
  BY DEF Init, Unpinned

\* Unpinned is inductive, given the layers before it.
LEMMA UnpinnedStep == Known /\ Unpinned /\ [Next]_vars => Unpinned'
<1>1. CASE UNCHANGED vars
  BY <1>1 DEF vars, Unpinned, ownerVars, laneVars, backendVars, jobVars
<1> QED
  BY <1>1, LockStepUnpinned, BeginUnpinned, OutsideUnpinned DEF Next, Exited

\* What a step of the arbiter may be for its promise.
Legal == [Ownership!Next]_(Ownership!vars)

\* A step that moves no owner is a stutter.
LEMMA Stutters == UNCHANGED <<current, exclusive, uses, pin>> => Legal
  BY DEF Legal, Ownership!vars, InUse

\* A pin comes or goes while its holder stays.
LEMMA PinMoves ==
  ASSUME ClientsAssumption, BackendsAssumption, UNCHANGED <<current, exclusive, uses>>,
         pin' \in Pin \cup {None}, exclusive # {} => pin' = None
  PROVE  Legal
<1>1. CASE pin' # None /\ current = pin'.model
  BY <1>1 DEF Legal, Ownership!Next, Ownership!PinResident, InUse, Pin
<1>2. CASE ~(pin' # None /\ current = pin'.model)
  BY <1>2 DEF Legal, Ownership!Next, Ownership!DropPin, InUse
<1> QED
  BY <1>1, <1>2

\* A model is seated on an empty GPU.
LEMMA Seats ==
  ASSUME BackendsAssumption, current = None, current' \in Backends, exclusive = {},
         ~InUse, pin \in Pin \cup {None}, UNCHANGED <<exclusive, uses, pin>>
  PROVE  Legal
<1>1. Ownership!Seat(current')
  BY DEF Ownership!Seat, Ownership!Free, InUse, Pin
<1> QED
  BY <1>1 DEF Legal, Ownership!Next

\* A model that nobody leases or pins leaves it.
LEMMA Leaves ==
  ASSUME current' = None, exclusive = {}, ~InUse, pin = None,
         UNCHANGED <<exclusive, uses, pin>>
  PROVE  Legal
<1>1. CASE current = None
  BY <1>1, Stutters
<1>2. CASE current # None
  BY <1>2 DEF Legal, Ownership!Next, Ownership!Vacate, Ownership!Free, InUse
<1> QED
  BY <1>1, <1>2

\* So does the voice lane.
LEMMA VoiceLeaves ==
  ASSUME ClientsAssumption, exclusive # {} => current = None /\ ~InUse /\ pin = None,
         exclusive' = {}, UNCHANGED <<current, uses, pin>>
  PROVE  Legal
<1>1. CASE exclusive = {}
  BY <1>1, Stutters
<1>2. CASE exclusive # {}
  BY <1>2 DEF Legal, Ownership!Next, Ownership!Vacate, Ownership!Free, InUse
<1> QED
  BY <1>1, <1>2

\* Every step inside the lock moves the GPU legally.
LEMMA LockStepLegal == Known /\ Unpinned /\ LockStep => Legal
<1> SUFFICES ASSUME Known /\ Unpinned, LockStep PROVE Legal
  OBVIOUS
<1> USE BackendsAssumption, ClientsAssumption DEF ownerVars, laneVars
<1>1. /\ op.stage # "rest" /\ op.stage \notin {"ensure", "conflict"} => exclusive = {} /\ ~InUse
      /\ pin \in Pin \cup {None} /\ op.oldPin \in Pin \cup {None}
      /\ exclusive # {} => pin = None
  BY DEF Known, Shape, TypeOK, LockRequest, Claims
<1>2. op.stage \in {"admit", "profile"} => Incoming \in Backends /\ current \in {None, Incoming}
  BY DEF Known, Shape, Occupancy, Seated, Incoming, Swaps
<1>3. op.stage \in {"park", "unload"} => pin = None
  BY DEF Known, Unpinned
<1>4. CASE EnsureStep \/ LoadStep \/ DrainStep \/ EvictStep
  BY <1>4, Stutters DEF EnsureStep, LoadStep, DrainStep, EvictStep
<1>5. CASE AdmitStep \/ ProfileStep
  <2>1. /\ UNCHANGED <<exclusive, uses, pin>> /\ current' \in {current, Incoming}
        /\ op.stage \in {"admit", "profile"}
    BY <1>5 DEF AdmitStep, ProfileStep
  <2> QED
    BY <1>1, <1>2, <2>1, Seats, Stutters
<1>6. CASE ParkStep \/ UnloadStep
  <2>1. /\ UNCHANGED <<exclusive, uses, pin>> /\ current' \in {current, None}
        /\ op.stage \in {"park", "unload"}
    BY <1>6 DEF ParkStep, UnloadStep
  <2> QED
    BY <1>1, <1>3, <2>1, Leaves, Stutters
<1>7. CASE CleanupStep
  BY <1>7, Stutters DEF CleanupStep, Known, Occupancy, Seated
<1>8. CASE Raise \/ RestoreStep
  <2>1. UNCHANGED <<current, exclusive, uses>> /\ pin' \in {None, pin, op.oldPin}
    BY <1>8 DEF Raise, RestoreStep
  <2>2. exclusive # {} => pin' = None
    <3>1. exclusive # {} => op.stage = "conflict" /\ op.kind \in {"ensure", "acquire"}
      BY <1>8 DEF Raise, RestoreStep, Known, Claims
    <3> QED
      BY <1>1, <1>8, <3>1 DEF Raise, RestoreStep
  <2> QED
    BY <1>1, <2>1, <2>2, PinMoves
<1>9. CASE Done /\ op.kind = "acquire"
  BY <1>1, <1>9 DEF Done, Known, Claims, Shape, TypeOK, Swaps, InUse, Legal,
     Ownership!Next, Ownership!Lease
<1>10. CASE Done /\ op.kind = "activate"
  <2>1. /\ current = None /\ pin = None /\ UNCHANGED <<current, uses, pin>>
        /\ exclusive = {} /\ ~InUse /\ exclusive' = {VoiceLane}
    BY <1>1, <1>10 DEF Done, Known, Claims, Shape, Drains
  <2>2. Ownership!Seat(VoiceLane)
    BY <2>1 DEF Ownership!Seat, Ownership!Free, InUse
  <2> QED
    BY <2>2 DEF Legal, Ownership!Next
<1>11. CASE Done /\ op.kind = "ensure_pinned"
  <2>1. /\ UNCHANGED <<current, exclusive, uses>> /\ exclusive = {}
        /\ pin' \in {[id |-> op.by, model |-> op.target], op.oldPin}
    BY <1>1, <1>11 DEF Done
  <2>2. pin' \in Pin \cup {None}
    BY <1>1, <1>11, <2>1 DEF Pin, Known, Shape, Swaps
  <2> QED
    BY <2>1, <2>2, PinMoves
<1>12. CASE Done /\ op.kind \notin {"acquire", "activate", "ensure_pinned"}
  BY <1>12, Stutters DEF Done
<1> QED
  BY <1>4, <1>5, <1>6, <1>7, <1>8, <1>9, <1>10, <1>11, <1>12 DEF LockStep

\* So does every request that takes the lock, leases, pins or leaves a lane.
LEMMA BeginLegal == Known /\ Begin => Legal
<1> SUFFICES ASSUME Known, Begin PROVE Legal
  OBVIOUS
<1> USE BackendsAssumption, ClientsAssumption DEF ownerVars, laneVars
<1>1. /\ exclusive # {} => current = None /\ ~InUse /\ pin = None
      /\ exclusive \subseteq {VoiceLane} /\ current \in Backends \cup {None}
  BY DEF Known, Claims, Shape, TypeOK, BackendOrNone, InUse
<1>2. ASSUME NEW b \in Direct, Ensure(b) PROVE Legal
  BY <1>2, Stutters DEF Ensure
<1>3. CASE FreeAll \/ Reconfigure \/ ActivateVoice
  BY <1>3, Stutters DEF FreeAll, Reconfigure, ActivateVoice
<1>4. ASSUME NEW p \in Pins, PinCurrent(p) PROVE Legal
  BY <1>1, <1>4, PinMoves DEF PinCurrent, Pin
<1>5. ASSUME NEW p \in Pins \cup {None}, Unpin(p) PROVE Legal
  BY <1>5, PinMoves DEF Unpin
<1>6. ASSUME NEW p \in Pins, NEW u \in BOOLEAN, ReleasePin(p, u) PROVE Legal
  BY <1>6, PinMoves DEF ReleasePin
<1>7. ASSUME NEW b \in Backends, NEW p \in Pins, EnsurePinned(b, p) PROVE Legal
  BY <1>7, PinMoves DEF EnsurePinned, Pin
<1>8. CASE RollbackVoice \/ DeactivateVoice
  BY <1>1, <1>8, VoiceLeaves DEF RollbackVoice, DeactivateVoice
<1>9. ASSUME NEW r \in Requests, NEW l \in SharedLanes, EnterLane(r, l) PROVE Legal
  BY <1>9, Stutters DEF EnterLane
<1>10. ASSUME NEW r \in Requests, LeaveLane(r) PROVE Legal
  BY <1>10, Stutters DEF LeaveLane
<1>11. ASSUME NEW o \in Owners, Acquire(o) PROVE Legal
  BY <1>11, Stutters DEF Acquire
<1>12. ASSUME NEW o \in Owners, Release(o) PROVE Legal
  <2>1. UNCHANGED <<current, exclusive, pin>> /\ (InUse' => InUse)
    BY <1>12 DEF Release, InUse, Known, Shape, TypeOK
  <2>2. CASE InUse'
    BY <2>1, <2>2 DEF Legal, Ownership!vars
  <2>3. CASE ~InUse'
    BY <2>1, <2>3 DEF Legal, Ownership!Next, Ownership!EndLease
  <2> QED
    BY <2>2, <2>3
<1>13. CASE ForceShutdown
  <2>1. ~InUse' /\ pin' = None /\ exclusive' = {} /\ current' = current
    BY <1>13 DEF ForceShutdown, InUse
  <2> QED
    BY <1>1, <2>1 DEF Legal, Ownership!Next, Ownership!Terminate
<1> QED
  BY <1>2, <1>3, <1>4, <1>5, <1>6, <1>7, <1>8, <1>9, <1>10, <1>11, <1>12, <1>13
     DEF Begin, Call

\* What goes on outside the lock moves no owner.
LEMMA OutsideLegal == Outside => Legal
  BY Stutters
     DEF Outside, Pick, JobBegin, Recycle, EndWork, JobEnd, VoiceStarted, SaveSettings,
         Stop, ownerVars, laneVars

\* Nobody holds the GPU at the start.
LEMMA InitLegal == Init => Ownership!Init
  BY DEF Init, Ownership!Init, InUse

\* The arbiter keeps its promise: every step of it, whatever fails, maps to a step
\* of GpuOwnership or to none.  The resident is never swapped in place, nor taken
\* away while leased or pinned, nor seated beside the voice lane, for any number
\* of models, jobs and requests.
THEOREM OwnershipImplemented ==
  ASSUME LateRecycle = FALSE
  PROVE  Spec => ImplementsOwnership
<1>1. Shape /\ Claims /\ Occupancy /\ [Next]_vars => Occupancy'
  BY OccupancyStep DEF Known
<1>2. Shape /\ Claims /\ Occupancy /\ Unpinned /\ [Next]_vars => Unpinned'
  BY UnpinnedStep DEF Known
<1>3. UNCHANGED vars => Legal
  BY Stutters DEF vars, ownerVars, laneVars
<1>4. Shape /\ Claims /\ Occupancy /\ Unpinned /\ [Next]_vars
        => [Ownership!Next]_(Ownership!vars)
  BY <1>3, LockStepLegal, BeginLegal, OutsideLegal DEF Known, Legal, Next, Exited
<1> QED
  BY <1>1, <1>2, <1>4, InitOccupancy, InitUnpinned, InitLegal, ShapeInvariant,
     ClaimsInvariant, PTL
     DEF Spec, ImplementsOwnership, Ownership!Spec

-----------------------------------------------------------------------------
(* The rollback of a pin handoff.                                           *)

\* What has its flag set is on the GPU, and a swap that is done has seated its model.
Filled ==
  /\ loaded \subseteq vram \cup Untold
  /\ op.kind \in Swaps /\ op.stage = "profile" =>
       /\ Incoming \in loaded
       /\ Incoming \in vram \/ Haunted(Incoming)
  /\ op.kind \in Swaps /\ op.stage = "done" => current = Incoming /\ Incoming \in loaded

\* A swap that is done has seated its model and filled the GPU with it.
LEMMA LockStepFilled == Known /\ Filled /\ LockStep => Filled'
<1> SUFFICES ASSUME Known /\ Filled, LockStep PROVE Filled'
  OBVIOUS
<1> USE BackendsAssumption, ClientsAssumption, BoundsAssumption
    DEF Known, Shape, Claims, Seated, Occupancy, Filled, InUse,
        TypeOK, BackendOrNone, Kinds, Syncs, Awaits, Swaps, Drains, Incoming, Cancellable,
        Untold, MayFree, Drifts, Strays, Haunted,
        ownerVars, laneVars, backendVars, jobVars
<1>1. CASE EnsureStep
  BY <1>1, GotoKeeps DEF EnsureStep, MayPark, SameRequest, LockRequest
<1>2. CASE AdmitStep
  BY <1>2, GotoKeeps, AwaitInKeeps DEF AdmitStep, Victims, SameRequest, LockRequest
<1>3. CASE ParkStep
  BY <1>3, GotoKeeps DEF ParkStep, ParkReturns, ParkRaises, SameRequest, LockRequest
<1>4. CASE EvictStep
  BY <1>4, AwaitInKeeps
     DEF EvictStep, UnloadReturns, UnloadFails, UnloadCancelled, Unloadable, Clear,
         SameRequest, LockRequest
<1>5. CASE LoadStep
  BY <1>5, GotoKeeps DEF LoadStep, LoadReturns, LoadRaises, SameRequest, LockRequest
<1>6. CASE ProfileStep
  BY <1>6, GotoKeeps DEF ProfileStep, SameRequest, LockRequest
<1>7. CASE UnloadStep
  BY <1>7, GotoKeeps
     DEF UnloadStep, AfterUnload, UnloadReturns, UnloadFails, UnloadCancelled,
         Unloadable, Clear, SameRequest, LockRequest
<1>8. CASE DrainStep
  BY <1>8, GotoKeeps, AwaitInKeeps DEF DrainStep, SameRequest, LockRequest
<1>9. CASE Done
  BY <1>9, RestTyped DEF Done, SameRequest, LockRequest
<1>10. CASE Raise
  BY <1>10, GotoKeeps, AwaitInKeeps, RestTyped
     DEF Raise, Debris, SameRequest, LockRequest
<1>11. CASE CleanupStep
  BY <1>11, AwaitInKeeps
     DEF CleanupStep, UnloadReturns, UnloadFails, UnloadCancelled, Unloadable, Clear, SameRequest,
         LockRequest
<1>12. CASE RestoreStep
  BY <1>12, RestoreKeeps, RestTyped DEF RestoreStep, SameRequest, LockRequest
<1> QED
  BY <1>1, <1>2, <1>3, <1>4, <1>5, <1>6, <1>7, <1>8, <1>9, <1>10, <1>11, <1>12
     DEF LockStep

\* No HTTP request takes a model off the GPU and leaves its flag.
LEMMA CallFilled == Known /\ Filled /\ ~stopping /\ Call => Filled'
<1> SUFFICES ASSUME Known /\ Filled, ~stopping /\ Call PROVE Filled'
  OBVIOUS
<1> USE BackendsAssumption, ClientsAssumption, BoundsAssumption
    DEF Known, Shape, Claims, Seated, Occupancy, Filled, InUse,
        TypeOK, BackendOrNone, Kinds, Syncs, Awaits, Swaps, Drains, Incoming, Cancellable,
        Untold, MayFree, Drifts, Strays, Haunted,
        ownerVars, laneVars, backendVars, jobVars
<1>1. ASSUME NEW b \in Direct, Ensure(b) PROVE Filled'
  BY <1>1, RequestTyped, RestTyped DEF Ensure
<1>2. CASE FreeAll
  BY <1>2, RequestTyped, RestTyped DEF FreeAll
<1>3. CASE Reconfigure
  BY <1>3, RequestTyped, RestTyped DEF Reconfigure
<1>4. ASSUME NEW p \in Pins, PinCurrent(p) PROVE Filled'
  BY <1>4, RestTyped DEF PinCurrent
<1>5. ASSUME NEW p \in Pins \cup {None}, Unpin(p) PROVE Filled'
  BY <1>5, RestTyped DEF Unpin
<1>6. ASSUME NEW p \in Pins, NEW u \in BOOLEAN, ReleasePin(p, u) PROVE Filled'
  BY <1>6, RequestTyped, RestTyped DEF ReleasePin
<1>7. ASSUME NEW b \in Backends, NEW p \in Pins, EnsurePinned(b, p) PROVE Filled'
  BY <1>7, RequestTyped, RestTyped DEF EnsurePinned
<1>8. CASE ActivateVoice
  BY <1>8, RestTyped DEF ActivateVoice, Request, LockRequest
<1>9. CASE RollbackVoice
  BY <1>9, RestTyped DEF RollbackVoice, Request, LockRequest
<1>10. ASSUME NEW r \in Requests, NEW l \in SharedLanes, EnterLane(r, l) PROVE Filled'
  BY <1>10, RestTyped DEF EnterLane
<1>11. ASSUME NEW r \in Requests, LeaveLane(r) PROVE Filled'
  BY <1>11, RestTyped DEF LeaveLane
<1> QED
  BY <1>1, <1>2, <1>3, <1>4, <1>5, <1>6, <1>7, <1>8, <1>9, <1>10, <1>11 DEF Call

\* Nor do the worker and the shutdown.
LEMMA BeginFilled == Known /\ Filled /\ Begin => Filled'
<1> SUFFICES ASSUME Known /\ Filled, Begin PROVE Filled'
  OBVIOUS
<1> USE BackendsAssumption, ClientsAssumption, BoundsAssumption
    DEF Known, Shape, Claims, Seated, Occupancy, Filled, InUse,
        TypeOK, BackendOrNone, Kinds, Syncs, Awaits, Swaps, Drains, Incoming, Cancellable,
        Untold, MayFree, Drifts, Strays, Haunted,
        ownerVars, laneVars, backendVars, jobVars
<1>1. CASE ~stopping /\ Call
  BY <1>1, CallFilled
<1>2. ASSUME NEW o \in Owners, Acquire(o) PROVE Filled'
  BY <1>2, RequestTyped, RestTyped DEF Acquire
<1>3. ASSUME NEW o \in Owners, Release(o) PROVE Filled'
  BY <1>3, RestTyped DEF Release
<1>4. CASE DeactivateVoice
  BY <1>4, RestTyped DEF DeactivateVoice
<1>5. CASE ForceShutdown
  BY <1>5, RequestTyped, RestTyped DEF ForceShutdown
<1> QED
  BY <1>1, <1>2, <1>3, <1>4, <1>5 DEF Begin

\* Nor does what goes on outside the lock.
LEMMA OutsideFilled == Known /\ Filled /\ Outside => Filled'
<1> SUFFICES ASSUME Known /\ Filled, Outside PROVE Filled'
  OBVIOUS
<1> USE BackendsAssumption, ClientsAssumption, BoundsAssumption
    DEF Known, Shape, Claims, Seated, Occupancy, Filled, InUse,
        TypeOK, BackendOrNone, Kinds, Syncs, Awaits, Swaps, Drains, Incoming, Cancellable,
        Untold, MayFree, Drifts, Strays, Haunted,
        ownerVars, laneVars, backendVars, jobVars
<1>1. ASSUME NEW b \in Backends, Pick(b) PROVE Filled'
  BY <1>1 DEF Pick
<1>2. ASSUME NEW o \in Owners, JobBegin(o) PROVE Filled'
  BY <1>2 DEF JobBegin
<1>3. ASSUME NEW o \in Owners, Recycle(o) PROVE Filled'
  BY <1>3 DEF Recycle, Clear
<1>4. CASE EndWork
  BY <1>4 DEF EndWork
<1>5. CASE JobEnd
  BY <1>5 DEF JobEnd
<1>6. CASE VoiceStarted
  BY <1>6 DEF VoiceStarted
<1>7. CASE SaveSettings
  BY <1>7 DEF SaveSettings
<1>8. CASE Stop
  BY <1>8 DEF Stop
<1> QED
  BY <1>1, <1>2, <1>3, <1>4, <1>5, <1>6, <1>7, <1>8 DEF Outside

\* The GPU and the flags start empty.
LEMMA InitFilled == Init => Filled
  BY RestTyped DEF Init, Filled, Swaps

\* Filled is inductive, given the layers before it.
LEMMA FilledStep == Known /\ Filled /\ [Next]_vars => Filled'
<1>1. CASE UNCHANGED vars
  BY <1>1 DEF vars, Filled, InUse, Incoming, Untold, Haunted, ownerVars, laneVars,
     backendVars, jobVars
<1> QED
  BY <1>1, LockStepFilled, BeginFilled, OutsideFilled DEF Next, Exited

\* A handoff that ends after its rollback has put back the prior resident.
LEMMA RollbackRestores == Known /\ Filled /\ Next => RolledBack
<1> SUFFICES ASSUME Known, Filled, Next, op.kind = "ensure_pinned", op.restoring,
                    op.stage = "done", op' = Idle
             PROVE  /\ current' = op.old /\ pin' = op.oldPin
                    /\ vram' \ Untold' \subseteq {op.old} /\ op.old \in vram' \cup Untold'
  BY DEF RolledBack
<1>1. current = op.old /\ op.old \in loaded
  BY DEF Filled, Swaps, Incoming
<1>2. op.old \in vram \cup Untold
  BY <1>1 DEF Filled
<1>3. vram \ Untold \subseteq {op.old}
  BY <1>1 DEF Known, Occupancy, Accounted
<1>4. op # Idle /\ op # Closed
  BY RestTyped
<1>5. Done
  BY <1>4 DEF Next, LockStep, EnsureStep, AdmitStep, ParkStep, EvictStep, LoadStep,
     ProfileStep, UnloadStep, DrainStep, Raise, CleanupStep, RestoreStep, Begin, Call,
     Ensure, Acquire, Release, FreeAll, Reconfigure, PinCurrent, Unpin, ReleasePin,
     EnsurePinned, ActivateVoice, RollbackVoice, EnterLane, LeaveLane, DeactivateVoice,
     ForceShutdown, Outside, Pick, JobBegin, Recycle, EndWork, JobEnd, VoiceStarted,
     SaveSettings, Stop, Exited
<1> QED
  BY <1>1, <1>2, <1>3, <1>5 DEF Done, backendVars, Untold

\* "If the target load fails, the prior resident and pin are restored", also when the
\* request is cancelled: a handoff that ends after its rollback leaves the old resident,
\* the old pin and nothing else on the GPU, but for weights no flag tells of, whatever
\* else failed or was cancelled on the way.
THEOREM HandoffRestored ==
  ASSUME LateRecycle = FALSE
  PROVE  Spec => HandoffRollsBack
<1>1. Shape /\ Claims /\ Occupancy /\ [Next]_vars => Occupancy'
  BY OccupancyStep DEF Known
<1>2. Shape /\ Claims /\ Occupancy /\ Filled /\ [Next]_vars => Filled'
  BY FilledStep DEF Known
<1>3. Shape /\ Claims /\ Occupancy /\ Filled /\ [Next]_vars => [RolledBack]_vars
  BY RollbackRestores DEF Known
<1> QED
  BY <1>1, <1>2, <1>3, InitOccupancy, InitFilled, ShapeInvariant, ClaimsInvariant, PTL
     DEF Spec, HandoffRollsBack
=============================================================================
