----------------------------- MODULE Placement -----------------------------
(***************************************************************************)
(* Where the parts of an image pipeline are (the family loaders of         *)
(* image_diffusers_parts, anima_runtime.py, accelerator_runtime.py): the   *)
(* loader places the text encoders, the denoiser and the VAE; a job moves  *)
(* them stage by stage; after_job, park and a resume move them again.      *)
(***************************************************************************)
EXTENDS Naturals

CONSTANT None

VARIABLES
  model,    \* the family, whether it is a Nunchaku checkpoint, the quant and
            \* the offload setting its loader reads, the accelerator
  place,    \* where each part is, None without a pipeline
  step,     \* what the backend does; in a job, the part that runs
  image,    \* the job has a source image
  resumed   \* history: the pipeline has been parked and loaded again

vars == <<model, place, step, image, resumed>>

\* A part is on the "cpu" or the "gpu" and stays there; "idle" in RAM or "busy"
\* on the accelerator under the hooks of the model offload; "stream": its
\* layers come and go; "blocks": so they do, but some stay; "fixed" on the
\* accelerator by the 4-bit loader.
Places == {"cpu", "gpu", "idle", "busy", "stream", "blocks", "fixed"}
Families == {"sdxl", "anima", "flux", "flux2", "qwen", "edit", "kontext", "z"}

Models ==
  {m \in [family : Families, fp4 : BOOLEAN, quant : {"bnb", "none", "odd"},
          offload : {"model", "sequential", "none", "odd"}, gpu : {"cuda", "rocm", "mps", "cpu"}] :
     m.fp4 => m.family \in {"flux", "flux2", "qwen", "z"}}

\* In the order of the hooks.
Order == <<"clip", "text", "dit", "vae">>
Parts(m) == {"text", "dit", "vae"} \cup (IF m.family \in {"sdxl", "flux", "kontext"} THEN {"clip"} ELSE {})
CudaFamily(m) == m.gpu \in {"cuda", "rocm"}

\* Mutant: only Nunchaku checkpoints are kept from other accelerators.
SupportedButMps(m) == m.gpu # "cpu" /\ (m.fp4 => CudaFamily(m))

\* _ensure_runtime_support.
Supported(m) ==
  /\ m.gpu # "cpu"
  /\ m.fp4 => CudaFamily(m)
  /\ m.gpu \in {"mps", "rocm"} => m.family = "sdxl"

-----------------------------------------------------------------------------
(* What a loader makes of the parts: a placement, or {} when it raises      *)

Whole(m, where) == [p \in Parts(m) |-> where]
Moved(m) == Whole(m, "gpu")
ModelOffload(m) == IF CudaFamily(m) THEN Whole(m, "idle") ELSE Moved(m)
Sequential(m) == IF CudaFamily(m) THEN {Whole(m, "stream")} ELSE {}

\* _place_repo_pipeline.
PlaceRepo(m) ==
  CASE m.offload = "sequential" -> Sequential(m)
    [] m.offload = "none" -> {Moved(m)}
    [] m.offload = "model" -> {ModelOffload(m)}
    [] OTHER -> {}

\* The 4-bit loader places what it quantises, and the VAE is moved; the rest
\* stays where it was read.
BnbLoaded(m, quantised) ==
  [p \in Parts(m) |-> IF p \in quantised THEN "fixed" ELSE IF p = "vae" THEN "gpu" ELSE "cpu"]

LoadRepo(m) ==
  CASE m.quant = "odd" -> {}
    [] m.quant = "bnb" -> {BnbLoaded(m, {"text", "dit"})}
    [] OTHER -> PlaceRepo(m)

LoadFlux2(m) ==
  IF m.quant = "none" /\ m.offload = "odd" THEN {ModelOffload(m)} ELSE LoadRepo(m)

\* The transformer and the VAE on the device, whatever the settings.
LoadNunchakuFlux2(m) ==
  {[BnbLoaded(m, IF m.quant = "bnb" THEN {"text"} ELSE {}) EXCEPT !["dit"] = "gpu"]}

\* The transformer stages its own blocks; an encoder in 4 bits is on the device.
LoadNunchakuQwen(m) ==
  CASE m.quant = "odd" -> {}
    [] m.quant = "bnb" -> {[BnbLoaded(m, {"text"}) EXCEPT !["dit"] = "blocks"]}
    [] OTHER -> {[s EXCEPT !["dit"] = "blocks"] : s \in Sequential(m)}

LoadNunchakuZ(m) == {IF m.offload = "none" THEN Moved(m) ELSE ModelOffload(m)}

\* _load_pipeline_sync.
Loaders(m) ==
  CASE m.family = "anima" -> {Whole(m, "cpu")}
    [] m.family = "flux2" -> IF m.fp4 THEN LoadNunchakuFlux2(m) ELSE LoadFlux2(m)
    [] m.family \in {"edit", "kontext"} -> LoadRepo(m)
    [] m.family = "qwen" -> IF m.fp4 THEN LoadNunchakuQwen(m) ELSE LoadRepo(m)
    [] m.family = "z" -> IF m.fp4 THEN LoadNunchakuZ(m) ELSE LoadRepo(m)
    [] m.family = "flux" -> {ModelOffload(m)}
    [] OTHER -> {Moved(m)}

-----------------------------------------------------------------------------

Init ==
  /\ model \in Models
  /\ place = None /\ step = "off" /\ image = FALSE /\ resumed = FALSE

Load ==
  /\ step = "off"
  /\ IF Supported(model) /\ Loaders(model) # {}
     THEN place' \in Loaders(model) /\ step' = "ready"
     ELSE place' = None /\ step' = "refused"
  /\ UNCHANGED <<model, image, resumed>>

\* A hooked part comes when it is called, and the one before it in the order
\* goes; Anima moves its parts itself, and so leaves none behind but the
\* denoiser, which waits while the source is encoded.
Before(p, q) == \E i \in 1 .. 3 : Order[i] = p /\ Order[i + 1] = q

Called(p) ==
  IF model.family = "anima"
  THEN [q \in Parts(model) |->
          IF q = p \/ (q = "dit" /\ p = "vae" /\ step = "text") THEN "gpu" ELSE "cpu"]
  ELSE [q \in Parts(model) |->
          IF place[q] \notin {"idle", "busy"} THEN place[q]
          ELSE IF q = p THEN "busy" ELSE IF Before(q, p) THEN "idle" ELSE place[q]]

\* maybe_free_model_hooks: nothing to do without hooks.
Freed ==
  [q \in Parts(model) |->
     IF model.family = "anima" THEN "cpu" ELSE IF place[q] = "busy" THEN "idle" ELSE place[q]]

Begin ==
  /\ step = "ready"
  /\ image' \in BOOLEAN
  /\ step' = IF "clip" \in Parts(model) THEN "clip" ELSE "text"
  /\ place' = Called(step')
  /\ UNCHANGED <<model, resumed>>

SecondEncoder ==
  /\ step = "clip"
  /\ step' = "text" /\ place' = Called("text")
  /\ UNCHANGED <<model, image, resumed>>

EncodeSource ==
  /\ step = "text" /\ image
  /\ step' = "source" /\ place' = Called("vae")
  /\ UNCHANGED <<model, image, resumed>>

Denoise ==
  /\ step = IF image THEN "source" ELSE "text"
  /\ step' = "dit" /\ place' = Called("dit")
  /\ UNCHANGED <<model, image, resumed>>

Decode ==
  /\ step = "dit"
  /\ step' = "vae" /\ place' = Called("vae")
  /\ UNCHANGED <<model, image, resumed>>

Return ==
  /\ step = "vae"
  /\ step' = "after" /\ place' = Freed
  /\ UNCHANGED <<model, image, resumed>>

\* A step callback sees the stop, the device is out of memory, a part is on
\* another device than its input.
Interrupted ==
  /\ step \in {"clip", "text", "source", "dit", "vae"}
  /\ step' = "after"
  /\ UNCHANGED <<model, place, image, resumed>>

\* _stabilize_after_job_sync.
AfterJob ==
  /\ step = "after"
  /\ step' = "ready" /\ image' = FALSE
  /\ place' = IF model.family = "sdxl" THEN place ELSE Freed
  /\ UNCHANGED <<model, resumed>>

\* Mutant: SDXL stays where it is.
ParkedHooks == Freed

\* _park_pipeline_sync.
Parked == IF model.family = "sdxl" THEN Whole(model, "cpu") ELSE Freed

Park ==
  /\ step = "ready"
  /\ step' = "parked" /\ place' = Parked
  /\ UNCHANGED <<model, image, resumed>>

\* _resume_pipeline_sync: SDXL moves, every other family is put under the model
\* offload, however its loader had placed it.  Diffusers may refuse that for a
\* part in 4 bits or one that stages itself: the load then fails.
Resume ==
  /\ step = "parked"
  /\ \/ /\ step' = "ready" /\ resumed' = TRUE
        /\ place' = CASE model.family = "sdxl" -> Moved(model)
                      [] model.family = "anima" -> Freed
                      [] OTHER -> ModelOffload(model)
     \/ /\ \E p \in Parts(model) : place[p] \in {"fixed", "blocks"}
        /\ step' = "parked" /\ UNCHANGED <<place, resumed>>
  /\ UNCHANGED <<model, image>>

Unload ==
  /\ step \in {"ready", "parked"}
  /\ step' = "off" /\ place' = None /\ resumed' = FALSE
  /\ UNCHANGED <<model, image>>

Next ==
  \/ Load \/ Begin \/ SecondEncoder \/ EncodeSource \/ Denoise \/ Decode \/ Return
  \/ Interrupted \/ AfterJob \/ Park \/ Resume \/ Unload

Spec == Init /\ [][Next]_vars

-----------------------------------------------------------------------------

Runs == {"clip", "text", "source", "dit", "vae"}
PartOf(s) == IF s = "source" THEN "vae" ELSE s
Holds == {p \in DOMAIN place : place[p] \in {"gpu", "busy", "blocks", "fixed"}}

\* A pipeline exists exactly from a load to an unload, each of its parts
\* somewhere, and only families that do not stage themselves use hooks.
TypeOK ==
  /\ model \in Models /\ image \in BOOLEAN /\ resumed \in BOOLEAN
  /\ step \in {"off", "refused", "ready", "after", "parked"} \cup Runs
  /\ IF step \in {"off", "refused"} THEN place = None ELSE place \in [Parts(model) -> Places]
  /\ place # None /\ model.family \in {"sdxl", "anima"} => \A p \in DOMAIN place : place[p] \in {"cpu", "gpu"}

\* The placements that stay on the accelerator between calls: the 4-bit loader,
\* "none", and the two Nunchaku loaders that do not offload the whole pipeline.
StaysOn ==
  /\ model.family \notin {"sdxl", "anima", "flux"}
  /\ IF model.fp4 THEN model.family \in {"flux2", "qwen"} \/ model.offload = "none"
     ELSE model.quant = "bnb" \/ model.offload = "none"

\* A park is to "move out of VRAM but keep CPU state warm" (GpuBackend.park).
\* Between jobs and while parked a family other than SDXL has nothing on the
\* accelerator, whatever interrupted the last job, unless its placement stays
\* there; and then all of it stays, parked too, until a resume has put the
\* pipeline under the model offload.  A parked SDXL pipeline is off (after_job,
\* park, _resume_pipeline_sync).
OffBetweenCalls ==
  /\ step \in {"ready", "parked"} /\ model.family # "sdxl" => (Holds # {} <=> StaysOn /\ ~resumed)
  /\ step = "parked" /\ model.family = "sdxl" => Holds = {}
  /\ step = "ready" /\ model.family = "sdxl" => Holds = Parts(model)

\* While a part of a staged family runs, none of the parts of the other stages
\* shares the accelerator with it: no encoder with the denoiser, no denoiser
\* with the decoder.  A source's VAE may wait beside the denoiser, and the
\* other way round (Anima's __call__, the hooks' order).
StagesAlone ==
  step \in Runs /\ model.family # "sdxl" /\ (resumed \/ ~StaysOn) =>
    /\ step \in {"dit", "vae"} => Holds \cap {"clip", "text"} = {}
    /\ step = "vae" => Holds \subseteq {"vae"}
    /\ step = "dit" /\ ~image => Holds \subseteq {"dit"}
    /\ step \in {"clip", "text"} => "dit" \notin Holds

\* A part that runs is not left in RAM, but for the two that the 4-bit path of
\* Kontext (its CLIP encoder) and an unquantised FLUX.2 Nunchaku encoder leave
\* there: no loader call moves those.
RunsOnDevice ==
  step \in Runs =>
    \/ place[PartOf(step)] \notin {"cpu", "idle"}
    \/ model.family = "kontext" /\ model.quant = "bnb" /\ step = "clip"
    \/ model.family = "flux2" /\ model.fp4 /\ model.quant # "bnb" /\ step = "text"

=============================================================================
