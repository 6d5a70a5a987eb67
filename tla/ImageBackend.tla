---------------------------- MODULE ImageBackend ----------------------------
(***************************************************************************)
(* One diffusers image model (backends/image_diffusers.py and              *)
(* image_diffusers_parts): the pipeline, its edit and ControlNet views,    *)
(* its LoRA adapters, and what loading, parking, a job, the clean-up after *)
(* a job and a recycle leave of them.  Calls come from the arbiter and the *)
(* worker, one at a time; request_stop comes at any moment.                *)
(***************************************************************************)
EXTENDS Naturals, FiniteSets

CONSTANTS
  Loras,      \* LoRA ids of the registry
  AdapterOf,  \* AdapterOf[l]: the adapter name made of the id
  Turbo,      \* the name of the accelerating adapter
  TurboSet,   \* settings.sdxl_turbo_lora is set
  CacheMax,   \* settings.image_lora_cache_max, not negative
  MinJobs,    \* settings.image_recycle_min_jobs
  Jobs,       \* job parameters: [loras, turbo, init, mask, control, batch]
  MaxImages,  \* bound: images of a resident model
  None

ImageAssumption ==
  /\ DOMAIN AdapterOf = Loras /\ CacheMax \in Nat /\ MinJobs \in Nat
  /\ \A l \in Loras : AdapterOf[l] # Turbo
  /\ \A j \in Jobs : j.loras \subseteq Loras /\ j.batch \in Nat \ {0}

VARIABLES
  sdxl,       \* the descriptor's family is SDXL, else a family kept off the
              \* GPU between calls (enable_model_cpu_offload)
  loaded, warm,
  pipe,       \* _pipe: a number for each pipeline built, 0 for None
  serial,     \* the number of the last pipeline (1 and 2 alternate)
  onGpu,      \* the pipeline's weights occupy the accelerator
  views,      \* _img2img_pipe, _inpaint_pipe: the pipeline each shares, or 0
  nets,       \* _controlnet_models
  netPipes,   \* _controlnet_pipes: [key -> the pipeline each shares]
  features,   \* _active_features has "sdxl_turbo_lora"
  deletes,    \* the pipeline's class has delete_adapters
  adapters,   \* adapters the pipeline holds: [name -> the id it was loaded from]
  active,     \* the adapters set_adapters has chosen
  enabled,    \* enable_lora / disable_lora
  cached,     \* the keys of _loaded_loras
  lastUsed,   \* _loaded_lora_last_used
  index,      \* _generation_index
  baseline,   \* _accelerator_allocated_baseline_gb is known
  step,       \* what the backend is doing
  job,        \* the parameters of the job that it runs
  due,        \* images of its batch not yet begun
  stop,       \* _stop
  made,       \* what the last image was asked to be made with, and was
  others,     \* the arbiter has loaded another model
  stale,      \* history: a load failed after _pipe was set, or an adapter
              \* call failed halfway, since the last load
  unpruned    \* the last clean-up could not prune

pipeVars == <<loaded, warm, pipe, serial, onGpu, views, nets, netPipes, features, deletes, baseline>>
loraVars == <<adapters, active, enabled, cached, lastUsed>>
jobVars == <<job, due, stop, made, index>>
vars == <<sdxl, pipeVars, loraVars, jobVars, step, others, stale, unpruned>>

Modes == {"text2img", "img2img", "inpaint"}
Mode(j) == IF j.init /\ j.mask THEN "inpaint" ELSE IF j.init THEN "img2img" ELSE "text2img"
Names(ls) == {AdapterOf[l] : l \in ls}
TurboName == IF features THEN {Turbo} ELSE {}
NoViews == [v \in {"img2img", "inpaint"} |-> 0]
NoAdapters == [n \in {} |-> None]
NoUses == [l \in {} |-> 0]
With(f, g) == [x \in DOMAIN f \cup DOMAIN g |-> IF x \in DOMAIN g THEN g[x] ELSE f[x]]
Only(f, S) == [x \in DOMAIN f \cap S |-> f[x]]

Init ==
  /\ sdxl \in BOOLEAN /\ loaded = FALSE /\ warm = FALSE
  /\ pipe = 0 /\ serial = 1 /\ onGpu = FALSE /\ views = NoViews
  /\ nets = {} /\ netPipes = NoUses /\ features = FALSE /\ deletes = TRUE
  /\ adapters = NoAdapters /\ active = {} /\ enabled = FALSE
  /\ cached = {} /\ lastUsed = NoUses /\ index = 0 /\ baseline = FALSE
  /\ step = "idle" /\ job = None /\ due = 0 /\ stop = FALSE /\ made = None
  /\ others = FALSE /\ stale = {} /\ unpruned = FALSE

-----------------------------------------------------------------------------
(* load, park, unload: the arbiter's calls                                 *)

Idle == step = "idle" /\ job = None

\* load of a warm pipeline: back to the accelerator.
Resume ==
  /\ Idle /\ ~others /\ ~loaded /\ warm /\ pipe # 0
  /\ loaded' = TRUE /\ warm' = FALSE /\ onGpu' = sdxl /\ baseline' \in BOOLEAN
  /\ UNCHANGED <<sdxl, pipe, serial, views, nets, netPipes, features, deletes, loraVars, jobVars,
                 step, others, stale, unpruned>>

\* The features and the LoRA tables are emptied, then the family's loader runs.
ClearedFeatures == features' = FALSE /\ UNCHANGED <<cached, lastUsed>>
Cleared == features' = FALSE /\ cached' = {} /\ lastUsed' = NoUses

\* A pipeline is built and placed; it replaces what _pipe held.
Built ==
  /\ serial' = 3 - serial /\ pipe' = serial' /\ deletes' \in BOOLEAN
  /\ onGpu' = sdxl /\ adapters' = NoAdapters /\ active' = {} /\ enabled' = FALSE
  /\ stale' = {}

Load ==
  /\ Idle /\ ~others /\ ~loaded /\ ~(warm /\ pipe # 0)
  /\ step' = "load"
  /\ Cleared
  /\ UNCHANGED <<sdxl, loaded, warm, pipe, serial, onGpu, views, nets, netPipes, deletes, baseline,
                 adapters, active, enabled, jobVars, others, stale, unpruned>>

Build ==
  /\ step \in {"load", "reload"}
  /\ Built
  /\ step' = IF step = "load" THEN "tune" ELSE "retune"
  /\ UNCHANGED <<sdxl, loaded, warm, views, nets, netPipes, features, baseline, cached, lastUsed,
                 jobVars, others, unpruned>>

BuildFails ==
  /\ step \in {"load", "reload"}
  /\ step' = "idle"
  /\ job' = None
  /\ UNCHANGED <<sdxl, pipeVars, loraVars, due, stop, made, index, others, stale, unpruned>>

\* _apply_acceleration: attention, step cache, the turbo adapter, compilation.
Tune ==
  /\ step \in {"tune", "retune"}
  /\ LET turbo == sdxl /\ TurboSet IN
     /\ features' = turbo
     /\ adapters' = IF turbo THEN With(adapters, [n \in {Turbo} |-> Turbo]) ELSE adapters
     /\ active' = IF turbo THEN {Turbo} ELSE active
     /\ enabled' = (turbo \/ enabled)
  /\ loaded' = TRUE /\ baseline' \in BOOLEAN
  /\ step' = "idle" /\ job' = None
  /\ UNCHANGED <<sdxl, warm, pipe, serial, onGpu, views, nets, netPipes, deletes, cached, lastUsed,
                 due, stop, made, index, others, stale, unpruned>>

\* It raises (a bad setting, no peft, no turbo file): _pipe is already set.
TuneFails ==
  /\ step \in {"tune", "retune"}
  /\ stale' = stale \cup {"pipe"}
  /\ step' = "idle" /\ job' = None
  /\ UNCHANGED <<sdxl, pipeVars, loraVars, due, stop, made, index, others, unpruned>>

\* park: the pipeline moves to the CPU, or its hooks are freed.
HooksFreed == onGpu' = sdxl
MovedOff == onGpu' = FALSE

Park ==
  /\ Idle /\ loaded /\ pipe # 0
  /\ MovedOff /\ loaded' = FALSE /\ warm' = TRUE
  /\ UNCHANGED <<sdxl, pipe, serial, views, nets, netPipes, features, deletes, baseline, loraVars,
                 jobVars, step, others, stale, unpruned>>

\* Mutant: the edit views stay and go on with the old weights.
FreedButViews ==
  /\ pipe' = 0 /\ onGpu' = FALSE /\ nets' = {} /\ netPipes' = NoUses
  /\ loaded' = FALSE /\ warm' = FALSE /\ baseline' = FALSE
  /\ adapters' = NoAdapters /\ active' = {} /\ enabled' = FALSE
  /\ Cleared /\ UNCHANGED views

\* _free_pipeline_sync and _clear_resident_state.
Freed ==
  /\ pipe' = 0 /\ onGpu' = FALSE /\ views' = NoViews /\ nets' = {} /\ netPipes' = NoUses
  /\ loaded' = FALSE /\ warm' = FALSE /\ baseline' = FALSE
  /\ adapters' = NoAdapters /\ active' = {} /\ enabled' = FALSE
  /\ Cleared

Unload ==
  /\ Idle /\ (loaded \/ warm)
  /\ Freed
  /\ index' = 0 /\ stale' = {}
  /\ UNCHANGED <<sdxl, serial, deletes, job, due, stop, made, step, others, unpruned>>

\* The arbiter loads another model once unload or park has returned; it goes on
\* when that one is gone.
OtherLoads ==
  /\ Idle /\ ~loaded /\ ~others
  /\ others' = TRUE
  /\ UNCHANGED <<sdxl, pipeVars, loraVars, jobVars, step, stale, unpruned>>

OtherGone ==
  /\ others
  /\ others' = FALSE
  /\ UNCHANGED <<sdxl, pipeVars, loraVars, jobVars, step, stale, unpruned>>

-----------------------------------------------------------------------------
(* generate                                                                *)

Valid(j) == (j.mask => j.init) /\ (j.control # None => sdxl)

Generate(j) ==
  /\ Idle /\ loaded /\ index + j.batch <= MaxImages
  /\ job' = j /\ due' = j.batch
  /\ IF Valid(j) THEN step' = "image" /\ stop' = FALSE ELSE step' = "clean" /\ stop' = stop
  /\ UNCHANGED <<sdxl, pipeVars, loraVars, made, index, others, stale, unpruned>>

\* POST /jobs/{id}/cancel of the running job.
RequestStop ==
  /\ job # None /\ ~stop
  /\ stop' = TRUE
  /\ UNCHANGED <<sdxl, pipeVars, loraVars, step, job, due, made, index, others, stale, unpruned>>

NextImage ==
  /\ step = "image" /\ due > 0
  /\ due' = due - 1 /\ index' = index + 1 /\ step' = "loras"
  /\ UNCHANGED <<sdxl, pipeVars, loraVars, job, stop, made, others, stale, unpruned>>

BatchDone ==
  /\ step = "image" /\ due = 0
  /\ step' = "clean"
  /\ UNCHANGED <<sdxl, pipeVars, loraVars, jobVars, others, stale, unpruned>>

\* The adapters that LoRAs S bring, and what the backend remembers of them.
Loadable(S) ==
  /\ \A l \in S : AdapterOf[l] \notin DOMAIN adapters
  /\ \A k, l \in S : AdapterOf[k] = AdapterOf[l] => k = l
Bring(S) == With(adapters, [n \in Names(S) |-> CHOOSE l \in S : AdapterOf[l] = n])
Use(S) == /\ cached' = cached \cup S
          /\ lastUsed' = With(lastUsed, [l \in S |-> index])

\* The adapters of this job: the turbo adapter unless the job turns it off, and
\* its LoRAs, loaded on first use; without any the adapters are disabled.
Chosen == Names(job.loras) \cup (IF job.turbo THEN TurboName ELSE {})

SwitchOnOnly == IF Chosen # {} THEN active' = Chosen /\ enabled' = TRUE ELSE UNCHANGED <<active, enabled>>
Switch == IF Chosen # {} THEN active' = Chosen /\ enabled' = TRUE ELSE active' = active /\ enabled' = FALSE

ApplyLoras ==
  /\ step = "loras"
  /\ LET new == job.loras \ cached IN
     /\ Loadable(new)
     /\ adapters' = Bring(new)
     /\ Use(job.loras)
     /\ Chosen \subseteq DOMAIN adapters'
  /\ Switch
  /\ step' = "view"
  /\ UNCHANGED <<sdxl, pipeVars, jobVars, others, stale, unpruned>>

\* One is refused: its file is gone, its name is taken (two ids with the same
\* name, or an adapter that is there without being remembered), or the pipeline
\* has loaded half of it.  Those before it are loaded and remembered.
LoraFails ==
  /\ step = "loras"
  /\ \E l \in job.loras \ cached, S \in SUBSET job.loras, half \in BOOLEAN :
       LET new == S \ cached IN
       /\ l \notin S /\ Loadable(new)
       /\ half => AdapterOf[l] \notin DOMAIN adapters \cup Names(new)
       /\ adapters' = IF half THEN With(Bring(new), [n \in {AdapterOf[l]} |-> l]) ELSE Bring(new)
       /\ stale' = IF half THEN stale \cup {"adapter"} ELSE stale
       /\ Use(S)
  /\ step' = "clean"
  /\ UNCHANGED <<sdxl, pipeVars, active, enabled, jobVars, others, unpruned>>

\* set_adapters does not know one of them: a deletion had failed halfway.
AdapterMissing ==
  /\ step = "loras" /\ Loadable(job.loras \ cached)
  /\ ~(Chosen \subseteq DOMAIN Bring(job.loras \ cached))
  /\ adapters' = Bring(job.loras \ cached) /\ Use(job.loras)
  /\ step' = "clean"
  /\ UNCHANGED <<sdxl, pipeVars, active, enabled, jobVars, others, stale, unpruned>>

\* The pipeline that the mode calls: the resident one, an edit view that shares
\* its weights, or a ControlNet pipeline, built on first use within the memory
\* budget; the ControlNet itself is loaded once for all modes.  Families whose
\* pipeline edits itself have no view of their own: the same for what follows.
Key == <<job.control, Mode(job)>>

PickView ==
  /\ step = "view"
  /\ IF job.control # None
     THEN /\ nets' = nets \cup {job.control}
          /\ netPipes' = IF Key \in DOMAIN netPipes THEN netPipes
                         ELSE With(netPipes, [k \in {Key} |-> pipe])
          /\ views' = views
     ELSE /\ views' = IF Mode(job) # "text2img" /\ views[Mode(job)] = 0
                      THEN [views EXCEPT ![Mode(job)] = pipe] ELSE views
          /\ UNCHANGED <<nets, netPipes>>
  /\ onGpu' = TRUE
  /\ step' = "denoise"
  /\ UNCHANGED <<sdxl, loaded, warm, pipe, serial, features, deletes, baseline, loraVars, jobVars,
                 others, stale, unpruned>>

\* A source is gone, the budget refuses the ControlNet, it does not load, or
\* its pipeline cannot be built: the ControlNet then stays.
ViewFails ==
  /\ step = "view"
  /\ LET building == job.control # None /\ Key \notin DOMAIN netPipes IN
     /\ job.init \/ building
     /\ nets' \in {nets, IF building THEN nets \cup {job.control} ELSE nets}
  /\ step' = "clean"
  /\ UNCHANGED <<sdxl, loaded, warm, pipe, serial, onGpu, views, netPipes, features, deletes,
                 baseline, loraVars, jobVars, others, stale, unpruned>>

\* The denoise loop ends and the image is saved.
Denoised ==
  /\ step = "denoise"
  /\ made' = [asked |-> [loras |-> job.loras, turbo |-> job.turbo /\ features],
              used |-> IF enabled THEN {adapters[n] : n \in active} ELSE {},
              by |-> IF job.control # None THEN netPipes[Key]
                     ELSE IF Mode(job) # "text2img" THEN views[Mode(job)] ELSE pipe,
              resident |-> pipe, sure |-> "adapter" \notin stale]
  /\ step' = "image"
  /\ UNCHANGED <<sdxl, pipeVars, loraVars, job, due, stop, index, others, stale, unpruned>>

\* A step callback sees _stop, or the device is out of memory.
DenoiseEnds ==
  /\ step = "denoise"
  /\ step' = "clean"
  /\ UNCHANGED <<sdxl, pipeVars, loraVars, jobVars, others, stale, unpruned>>

-----------------------------------------------------------------------------
(* after_job                                                               *)

\* The oldest cached LoRAs beyond the limit, sparing those of this job (all of
\* them when nothing may be cached).
Evicted(E) ==
  IF CacheMax = 0 THEN E = cached
  ELSE /\ E \subseteq cached \ job.loras
       /\ \A e \in E, k \in (cached \ job.loras) \ E : lastUsed[e] <= lastUsed[k]
       /\ LET over == IF Cardinality(cached) > CacheMax THEN Cardinality(cached) - CacheMax ELSE 0
              spare == Cardinality(cached \ job.loras)
          IN Cardinality(E) = IF over < spare THEN over ELSE spare

Forget(E) == cached' = cached \ E /\ lastUsed' = Only(lastUsed, cached')

\* Without delete_adapters only a full prune is possible, and not with turbo.
Prune ==
  /\ step = "clean"
  /\ \E E \in SUBSET cached :
       /\ Evicted(E)
       /\ IF deletes \/ (E = cached /\ ~features)
          THEN /\ Forget(E)
               /\ adapters' = Only(adapters, DOMAIN adapters \ Names(E))
               /\ active' = active \ Names(E)
               /\ unpruned' = FALSE
          ELSE UNCHANGED <<cached, lastUsed, adapters, active>> /\ unpruned' = (E # {})
  /\ onGpu' = sdxl
  /\ step' = "weigh"
  /\ UNCHANGED <<sdxl, loaded, warm, pipe, serial, views, nets, netPipes, features, deletes, baseline,
                 enabled, jobVars, others, stale>>

\* delete_adapters fails, with some of them gone.
PruneFails ==
  /\ step = "clean" /\ deletes
  /\ \E E \in SUBSET cached \ {{}}, G \in SUBSET cached :
       /\ Evicted(E) /\ G \subseteq E
       /\ adapters' = Only(adapters, DOMAIN adapters \ Names(G))
       /\ active' = active \ Names(G)
       /\ stale' = IF G # {} THEN stale \cup {"adapter"} ELSE stale
  /\ unpruned' = TRUE /\ onGpu' = sdxl
  /\ step' = "weigh"
  /\ UNCHANGED <<sdxl, loaded, warm, pipe, serial, views, nets, netPipes, features, deletes, baseline,
                 enabled, cached, lastUsed, jobVars, others>>

Settle ==
  /\ step = "weigh"
  /\ step' = "idle" /\ job' = None
  /\ UNCHANGED <<sdxl, pipeVars, loraVars, due, stop, made, index, others, stale, unpruned>>

\* Memory has grown over the baseline: the pipeline is freed and loaded again.
Recycle ==
  /\ step = "weigh" /\ baseline /\ index >= (IF MinJobs > 1 THEN MinJobs ELSE 1)
  /\ Freed
  /\ step' = "reload" /\ stale' = {}
  /\ UNCHANGED <<sdxl, serial, deletes, jobVars, others, unpruned>>

-----------------------------------------------------------------------------

Next ==
  \/ Resume \/ Load \/ Build \/ BuildFails \/ Tune \/ TuneFails \/ Park \/ Unload
  \/ OtherLoads \/ OtherGone
  \/ (\E j \in Jobs : Generate(j)) \/ RequestStop \/ NextImage \/ BatchDone
  \/ ApplyLoras \/ LoraFails \/ AdapterMissing \/ PickView \/ ViewFails
  \/ Denoised \/ DenoiseEnds
  \/ Prune \/ PruneFails \/ Settle \/ Recycle

Spec == Init /\ [][Next]_vars

-----------------------------------------------------------------------------

\* Every variable has its type, the LoRA tables have the same keys, a resident
\* pipeline exists, and no view outlives it.
TypeOK ==
  /\ sdxl \in BOOLEAN /\ loaded \in BOOLEAN /\ warm \in BOOLEAN /\ ~(loaded /\ warm)
  /\ pipe \in 0 .. 2 /\ serial \in 1 .. 2 /\ onGpu \in BOOLEAN
  /\ (loaded \/ warm) => pipe # 0
  /\ DOMAIN lastUsed = cached /\ cached \subseteq Loras
  /\ index \in 0 .. MaxImages /\ due \in Nat /\ stop \in BOOLEAN
  /\ job \in Jobs \cup {None} /\ unpruned \in BOOLEAN /\ stale \subseteq {"pipe", "adapter"}
  /\ enabled \in BOOLEAN /\ features \in BOOLEAN /\ deletes \in BOOLEAN
  /\ DOMAIN adapters \subseteq Names(Loras) \cup {Turbo}
  /\ \A v \in DOMAIN views : views[v] \in {0, pipe}
  /\ \A k \in DOMAIN netPipes : netPipes[k] = pipe /\ k[1] \in nets

\* An image is made by the LoRAs that its job asks for and no others: none of
\* an earlier job stays on, none is taken for another of the same adapter name,
\* and the turbo adapter is on exactly when the model has it and the job does
\* not turn it off (_apply_runtime_loras over jobs, views, pruning, recycling).
\* It is made by the resident pipeline's own weights.  Not claimed after an
\* adapter call that failed halfway: a name may then hold another id's weights.
UsesItsLoras ==
  made # None =>
    /\ made.sure => made.used = made.asked.loras \cup (IF made.asked.turbo THEN {Turbo} ELSE {})
    /\ made.by = made.resident

\* After a job whose clean-up could prune, the cache is within its limit or
\* holds this job's LoRAs only, and what is remembered as loaded is what the
\* pipeline holds (_prune_lora_cache, _load_lora_adapter).
CacheTrue ==
  /\ step = "weigh" /\ ~unpruned =>
       Cardinality(cached) <= CacheMax \/ cached \subseteq job.loras
  /\ stale = {} /\ step \notin {"load", "reload"} =>
       DOMAIN adapters = Names(cached) \cup TurboName

\* While the arbiter has another model on the accelerator this one has nothing
\* there but the ControlNets of a parked pipeline, which park does not move,
\* unless a load failed with its pipeline built (park, unload, after_job).
AloneOnGpu ==
  others /\ "pipe" \notin stale => ~onGpu /\ (nets # {} => warm)

=============================================================================
