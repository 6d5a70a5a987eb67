--------------------------- MODULE HardwareProfile ---------------------------
(***************************************************************************)
(* What the machine can do: the probe's report, the install profile that   *)
(* is resolved from it at setup and again in the application, where torch  *)
(* answers too, and which models the application takes.  The same resolver *)
(* runs in two processes on two reports that may differ.  Every model has  *)
(* the RAM and the support files it needs.                                 *)
(***************************************************************************)
EXTENDS Naturals, Sequences, FiniteSets, SequencesExt

CONSTANTS
  Devices,  \* kinds of GPU: vendor, name, vram (a rank of Tiers), cap
  MaxGpus,
  Models,   \* models on disk: type, family, quant
  None

Systems == {<<"linux", "x86">>, <<"linux", "arm">>, <<"windows", "x86">>, <<"darwin", "arm">>}

\* hardware_tier, worst first.
Tiers == <<"low_vram", "safe_8gb", "balanced_12gb", "rich_16gb_plus", "large_24gb_plus">>

ProfileAssumption ==
  /\ MaxGpus \in Nat
  /\ \A d \in Devices : d.vendor \in {"nvidia", "amd"} /\ d.vram \in DOMAIN Tiers

VARIABLES
  machine,   \* os, gpus in the order of the bus, torch's order, ROCm's support
  usual,     \* what the machine's tools answer as a rule
  torch,     \* the torch that is installed: "none", "cuda", "rocm" or "mps"
  nunchaku,  \* its fp4 kernels are installed
  setup,     \* how the last setup went: "none", "stub", "odd" or "real"
  app,       \* the profile that the application has resolved, or None
  stub       \* settings.stub_mode

vars == <<machine, usual, torch, nunchaku, setup, app, stub>>

-----------------------------------------------------------------------------
(* The probe.                                                              *)

Entry(vendor, name, vram, cap) == [vendor |-> vendor, name |-> name, vram |-> vram, cap |-> cap]

OfVendor(gpus, vendor) == SelectSeq(gpus, LAMBDA g : g.vendor = vendor)
Listed(gpus, Row(_)) == [i \in DOMAIN gpus |-> Row(gpus[i])]

\* Drivers before the query answer without compute_cap.
NvidiaSmi(answer) ==
  IF answer.smi = "none" THEN <<>>
  ELSE Listed(OfVendor(machine.gpus, "nvidia"),
              LAMBDA g : Entry(g.vendor, <<g.name>>, g.vram, IF answer.smi = "full" THEN g.cap ELSE None))

\* AdapterRAM has 32 bits: no card shows more than 4 GB.
WindowsVideo ==
  IF machine.os[1] = "windows" THEN Listed(machine.gpus, LAMBDA g : Entry(g.vendor, <<g.name>>, 1, None)) ELSE <<>>

Lspci(answer) ==
  IF answer.lspci THEN Listed(machine.gpus, LAMBDA g : Entry(g.vendor, <<"pci", g.name>>, None, None)) ELSE <<>>

AppleSilicon ==
  IF machine.os = <<"darwin", "arm">> THEN <<Entry("apple", <<"Apple">>, None, None)>> ELSE <<>>

\* One entry for a vendor and name; what it lacks comes from the later ones.
Merge(gpus) ==
  LET same(i) == {j \in DOMAIN gpus : j >= i /\ gpus[j].vendor = gpus[i].vendor /\ gpus[j].name = gpus[i].name}
      first(i) == \A j \in 1..(i - 1) : i \notin same(j)
      fill(i, field) ==
        LET having == {j \in same(i) : gpus[j][field] # None}
        IN IF having = {} THEN None ELSE gpus[CHOOSE j \in having : \A k \in having : j <= k][field]
      heads == SelectSeq([i \in DOMAIN gpus |-> i], first)
  IN [n \in DOMAIN heads |->
        Entry(gpus[heads[n]].vendor, gpus[heads[n]].name, fill(heads[n], "vram"), fill(heads[n], "cap"))]

\* The n-th torch device is taken for the n-th entry of its vendor.
AttachTorch(gpus, devices, vendor) ==
  LET own == SelectSeq([i \in DOMAIN gpus |-> i], LAMBDA i : gpus[i].vendor = vendor)
      known(i) == {n \in DOMAIN own \cap DOMAIN devices : own[n] = i}
      or(value, other) == IF value = None THEN other ELSE value
  IN [i \in DOMAIN gpus |->
        IF known(i) = {} THEN gpus[i]
        ELSE LET d == devices[CHOOSE n \in known(i) : TRUE]
             IN [gpus[i] EXCEPT !.vram = or(@, d.vram), !.cap = or(@, d.cap)]]
     \o SubSeq(devices, Len(own) + 1, Len(devices))

\* What the installed torch can use.
TorchVendor == IF torch = "rocm" THEN "amd" ELSE "nvidia"
TorchDevices ==
  LET own == Listed(OfVendor(machine.gpus, TorchVendor), LAMBDA g : Entry(g.vendor, <<g.name>>, g.vram, g.cap))
  IN IF torch = "cuda" \/ (torch = "rocm" /\ machine.rocm # "unsupported")
     THEN IF machine.reversed THEN Reverse(own) ELSE own
     ELSE <<>>

Report(answer, withTorch) ==
  LET seen == Merge(NvidiaSmi(answer) \o WindowsVideo \o Lspci(answer) \o AppleSilicon)
  IN [rocm |-> answer.rocm,
      gpus |-> Merge(AttachTorch(seen, IF withTorch THEN TorchDevices ELSE <<>>, TorchVendor))]

-----------------------------------------------------------------------------
(* The resolver.                                                           *)

\* _install_target of the manifest.
HasTarget(profile) ==
  CASE profile = "nvidia-cuda" -> machine.os \in {<<"linux", "x86">>, <<"windows", "x86">>}
    [] profile = "amd-rocm-linux" -> machine.os = <<"linux", "x86">>
    [] profile = "apple-mps" -> machine.os = <<"darwin", "arm">>
    [] OTHER -> TRUE

Rank(gpu) == IF gpu = None \/ gpu.vram = None THEN 0 ELSE gpu.vram

BestGpu(report, vendor) ==
  LET own == OfVendor(report.gpus, vendor)
      best(i) == /\ \A j \in DOMAIN own : Rank(own[i]) >= Rank(own[j])
                 /\ \A j \in 1..(i - 1) : Rank(own[i]) > Rank(own[j])
  IN IF own = <<>> THEN None ELSE own[CHOOSE i \in DOMAIN own : best(i)]

Candidate(profile, gpu) == [id |-> profile, gpu |-> gpu]

Candidates(report) ==
  LET nvidia == BestGpu(report, "nvidia")
      amd == BestGpu(report, "amd")
      apple == BestGpu(report, "apple")
      amdProfile == IF HasTarget("amd-rocm-linux") /\ report.rocm # "unsupported" THEN "amd-rocm-linux" ELSE "cpu-safe"
  IN (IF nvidia # None /\ HasTarget("nvidia-cuda") THEN <<Candidate("nvidia-cuda", nvidia)>> ELSE <<>>)
     \o (IF amd # None THEN <<Candidate(amdProfile, amd)>> ELSE <<>>)
     \o (IF HasTarget("apple-mps") THEN <<Candidate("apple-mps", apple)>> ELSE <<>>)
     \o <<Candidate("cpu-safe", None)>>

Backend(profile) ==
  CASE profile = "nvidia-cuda" -> "cuda" [] profile = "amd-rocm-linux" -> "rocm"
    [] profile = "apple-mps" -> "mps" [] OTHER -> "cpu"

\* An Ampere card or newer, with memory that is known and not low.
AllowNunchaku(candidate) ==
  /\ candidate.id = "nvidia-cuda" /\ candidate.gpu.cap # None
  /\ candidate.gpu.cap >= 80 /\ Rank(candidate.gpu) >= 2

\* A fault: The optional features as the manifest lists them.
OptionalFeaturesAll(candidate) ==
  CASE candidate.id = "nvidia-cuda" -> {"cuda_llama_binaries", "onnxruntime_cuda", "nunchaku_cuda"}
    [] candidate.id = "apple-mps" -> {"metal_llama_binaries"}
    [] OTHER -> {}

OptionalFeatures(candidate) ==
  CASE candidate.id = "nvidia-cuda" ->
         {"cuda_llama_binaries", "onnxruntime_cuda"}
           \cup IF AllowNunchaku(candidate) THEN {"nunchaku_cuda"} ELSE {}
    [] candidate.id = "apple-mps" -> {"metal_llama_binaries"}
    [] OTHER -> {}

ImageFamilies == {"sdxl", "flux", "flux2", "qwen-image", "z-image"}
MinTier(family) ==
  CASE family = "sdxl" -> 2 [] family = "flux" -> 3 [] family \in ImageFamilies -> 4
    [] family \in {"ltx-video", "cogvideo"} -> 2 [] OTHER -> 4

ImagePolicy(candidate, family) ==
  LET backend == Backend(candidate.id) IN
  IF \/ backend = "cpu"
     \/ family # "sdxl" /\ (backend = "mps" \/ ~AllowNunchaku(candidate))
  THEN "hidden"
  ELSE IF backend = "mps" \/ Rank(candidate.gpu) >= MinTier(family) THEN "recommended" ELSE "advanced"

VideoPolicy(candidate, family) ==
  LET backend == Backend(candidate.id) IN
  IF backend # "cuda"
  THEN IF backend # "cpu" /\ family = "cogvideo" THEN "recommended" ELSE "hidden"
  ELSE IF Rank(candidate.gpu) < 2 \/ family = "animatediff" THEN "hidden"
  ELSE IF family = "ltx-video" THEN "recommended" ELSE "advanced"

\* resolve_profile; prefer is a profile or None.
Resolve(report, prefer) ==
  LET wanted == SelectSeq(Candidates(report), LAMBDA c : prefer \in {None, c.id})
      chosen == wanted[1]
  IN [id |-> chosen.id, gpu |-> chosen.gpu, optional |-> OptionalFeatures(chosen),
      nunchaku |-> AllowNunchaku(chosen)]

-----------------------------------------------------------------------------
(* The application.                                                        *)

EffectiveStub == stub \/ app.id = "cpu-safe"
ActiveBackend == IF EffectiveStub THEN "cpu" ELSE Backend(app.id)
NunchakuFeature == ActiveBackend = "cuda" /\ app.nunchaku /\ "nunchaku_cuda" \in app.optional

\* _image_unavailable_reason has nothing to say.
ImageAvailable(model) ==
  /\ model.family = "anima" => ActiveBackend = "cuda"
  /\ model.quant = "nunchaku" => NunchakuFeature /\ nunchaku
  /\ ~(ActiveBackend = "rocm" /\ model.quant = "bnb")
  /\ ActiveBackend = "mps" => model.family = "sdxl"
  /\ model.family \in ImageFamilies => ImagePolicy(app, model.family) # "hidden"
  /\ ActiveBackend # "cpu"

VideoAvailable(model) ==
  IF ActiveBackend # "cuda"
  THEN model.family = "cogvideo" /\ ActiveBackend \in {"rocm", "mps"}
  ELSE model.family # "animatediff" /\ VideoPolicy(app, model.family) # "hidden"

\* compatibility_for_model.
Available(model) ==
  \/ EffectiveStub
  \/ model.type = "image" /\ ImageAvailable(model)
  \/ model.type = "video" /\ VideoAvailable(model)
  \/ model.type = "llm"

\* require_available of the accelerator's runtime, before a load.
Accelerated ==
  CASE ActiveBackend \in {"cuda", "rocm"} -> TorchDevices # <<>>
    [] ActiveBackend = "mps" -> torch = "mps"
    [] OTHER -> FALSE

\* The image models of plan_for_profile.
StarterImages ==
  IF app.id = "cpu-safe" THEN {}
  ELSE {[type |-> "image", family |-> "sdxl", quant |-> "plain"]}
       \cup IF app.id = "nvidia-cuda" /\ "nunchaku_cuda" \in app.optional
            THEN {[type |-> "image", family |-> "flux", quant |-> "nunchaku"]} ELSE {}

-----------------------------------------------------------------------------

Machines ==
  {m \in [os : Systems, gpus : UNION {[1..n -> Devices] : n \in 0..MaxGpus}, reversed : BOOLEAN,
          rocm : {"official", "community_experimental", "unsupported"}] :
     /\ m.os[1] = "darwin" => m.gpus = <<>>
     /\ Len(m.gpus) < 2 => ~m.reversed
     /\ (OfVendor(m.gpus, "amd") = <<>> \/ m.os[1] # "linux") => m.rocm = "unsupported"}

Answers(m) ==
  {a \in [smi : {"none", "old", "full"}, lspci : BOOLEAN,
          rocm : {"official", "community_experimental", "unsupported"}] :
     /\ OfVendor(m.gpus, "nvidia") = <<>> => a.smi = "none"
     /\ m.os[1] # "linux" => ~a.lspci
     /\ a.rocm \in {m.rocm, "unsupported"}}

\* A tool that is missing now, or takes longer than its time.
Odd(a) == {[usual EXCEPT !.smi = "none"], [usual EXCEPT !.rocm = "unsupported"]} \ {a}

Init ==
  /\ machine \in Machines /\ usual \in Answers(machine)
  /\ torch = "none" /\ nunchaku = FALSE /\ setup = "none"
  /\ app = None /\ stub = FALSE

\* The probe runs in the host's Python, without torch.  CPU-safe installs none
\* and leaves what an earlier setup installed.
Setup(mode, answer) ==
  LET p == Resolve(Report(answer, FALSE), IF mode = "stub" THEN "cpu-safe" ELSE None) IN
  /\ app = None
  /\ torch' = IF p.id = "cpu-safe" THEN torch ELSE Backend(p.id)
  /\ nunchaku' \in IF "nunchaku_cuda" \in p.optional THEN {nunchaku, TRUE} ELSE {nunchaku}
  /\ setup' = IF mode = "stub" THEN "stub" ELSE IF answer = usual THEN "real" ELSE "odd"
  /\ UNCHANGED <<machine, usual, app, stub>>

\* get_capability_profile resolves once; a refresh does it again.
ResolveInApp(answer) ==
  /\ setup # "none"
  /\ app' = Resolve(Report(answer, TRUE), None)
  /\ UNCHANGED <<machine, usual, torch, nunchaku, setup, stub>>

SetStub ==
  /\ app # None /\ stub' = ~stub
  /\ UNCHANGED <<machine, usual, torch, nunchaku, setup, app>>

Exit ==
  /\ app # None /\ app' = None
  /\ UNCHANGED <<machine, usual, torch, nunchaku, setup, stub>>

Next ==
  \/ \E mode \in {"real", "stub"}, answer \in {usual} \cup Odd(usual) : Setup(mode, answer)
  \/ \E answer \in {usual} \cup Odd(usual) : ResolveInApp(answer)
  \/ SetStub \/ Exit

Spec == Init /\ [][Next]_vars

-----------------------------------------------------------------------------

TypeOK ==
  /\ machine \in Machines /\ usual \in Answers(machine)
  /\ torch \in {"none", "cuda", "rocm", "mps"} /\ {nunchaku, stub} \subseteq BOOLEAN
  /\ app # None => app.id \in {"nvidia-cuda", "amd-rocm-linux", "apple-mps", "cpu-safe"}

Devs == {machine.gpus[i] : i \in DOMAIN machine.gpus}
Alike == \A d, e \in Devs : d.vendor = e.vendor => d = e

\* The profile is that of a card in the machine: no card is given more memory,
\* or another's capability, whichever tools answer and under whatever names
\* they list it.  Not when an old driver leaves the capabilities to torch, which
\* counts the cards in its own order (_merge_gpus, _attach_torch_devices).
PrimaryReal ==
  (app # None /\ app.gpu # None /\ app.id # "apple-mps" /\ (usual.smi # "old" \/ Alike)) =>
    \E d \in Devs : /\ d.vendor = app.gpu.vendor /\ Rank(app.gpu) <= d.vram
                    /\ app.gpu.cap \in {None, d.cap}

\* What was set up for the machine is what the application needs on it: the
\* report with torch resolves to a profile that the installed torch runs, also
\* when a tool does not answer then (resolve_profile twice, require_available).
TorchFits ==
  (app # None /\ ~EffectiveStub /\ setup = "real") => Accelerated

\* The policy that is shown and the check at the queue agree: what is hidden
\* is refused and what is recommended is not, starter downloads included
\* (_model_policy and plan_for_profile against compatibility_for_model).
PolicyHonoured ==
  (app # None /\ ~EffectiveStub) =>
    /\ \A model \in Models :
         LET policy == IF model.type = "video" THEN VideoPolicy(app, model.family)
                       ELSE IF model.family \in ImageFamilies THEN ImagePolicy(app, model.family) ELSE "neutral"
         IN model.type # "llm" =>
              /\ policy = "hidden" => ~Available(model)
              /\ policy = "recommended" /\ model.quant = "plain" => Available(model)
    /\ \A model \in StarterImages : model.quant = "nunchaku" => (nunchaku => Available(model))
    /\ \A model \in StarterImages : model.quant = "plain" => Available(model)

=============================================================================
