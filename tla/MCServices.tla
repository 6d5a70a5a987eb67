------------------------------ MODULE MCServices ------------------------------
(***************************************************************************)
(* Finite instances of the services around the scheduler, checked in one   *)
(* run: those of Services, whose constants the configuration gives, and    *)
(* nine more. Each behaviour is one of the component which, the others are *)
(* absent, so that the states of the run are the sum of theirs.            *)
(***************************************************************************)
EXTENDS Services, TLC

CONSTANTS
  m1, m2, m3,                  \* QueuePlan
  l1, l2, l3, canny,           \* ImageBackend
  save1, save2,                \* SettingsStore
  q1, q2, x1,                  \* VoiceRecorder
  va, vb, v1,                  \* VoiceEngine
  u1, u2, u3, w1, w2, v2, \* VoiceTuning
  la, lb, patch1, patch2, \* ImageDesk
  vconv1, vconv2, vslot      \* VoiceDesk

\* What each of the two requests changes.
MCPatchOf == (save1 :> {"attention", "bin"}) @@ (save2 :> {"attention", "ctx"})

JobModels == {m1, m2, m3}
TypeOf == (m1 :> "llm") @@ (m2 :> "llm") @@ (m3 :> "image")
Priorities == {0, 1}
MaxQueued == 3
PlanLimit == 2

Loras == {l1, l2, l3}
AdapterOf == (l1 :> "a") @@ (l2 :> "b") @@ (l3 :> "b")
Turbo == "turbo"
TurboSet == TRUE
CacheMax == 1
MinJobs == 1
MaxImages == 2
ImageJob(loras, turbo, init, mask, control, batch) ==
  [loras |-> loras, turbo |-> turbo, init |-> init, mask |-> mask, control |-> control, batch |-> batch]
Jobs == {ImageJob({l1}, TRUE, FALSE, FALSE, None, 2), ImageJob({l1, l2}, FALSE, TRUE, FALSE, None, 1),
         ImageJob({}, TRUE, TRUE, TRUE, None, 1), ImageJob({l3}, TRUE, FALSE, FALSE, canny, 1)}

Rate == 1
Chunk == 2
Blocks == {1, 2}
MaxCaptured == 5

MCTuningPatch ==
  (u1 :> (("pitch" :> "up") @@ ("denoise" :> "dtln") @@ ("pass" :> "off")))
  @@ (u2 :> (("pitch" :> "down") @@ ("denoise" :> Bad))) @@ (u3 :> (("denoise" :> "off") @@ ("pass" :> "on")))
MCKeyOrder == <<"pitch", "denoise", "pass">>
MCTuningDefaults == ("pitch" :> "default") @@ ("denoise" :> "off") @@ ("pass" :> "off")

Gpu(vendor, name, vram, cap) == [vendor |-> vendor, name |-> name, vram |-> vram, cap |-> cap]
Devices == {Gpu("nvidia", "turing", 5, 75), Gpu("nvidia", "ada", 2, 89), Gpu("amd", "rx", 5, None)}
MaxGpus == 2
DiskModel(type, family, quant) == [type |-> type, family |-> family, quant |-> quant]
OnDisk ==
  {DiskModel("image", "sdxl", "plain"), DiskModel("image", "sdxl", "bnb"), DiskModel("image", "flux", "plain"),
   DiskModel("image", "flux", "nunchaku"), DiskModel("image", "qwen-image", "plain"),
   DiskModel("image", "anima", "plain"), DiskModel("video", "ltx-video", "plain"),
   DiskModel("video", "cogvideo", "plain"), DiskModel("video", "animatediff", "plain"),
   DiskModel("llm", "gguf", "plain")}

Pieces == {1, 3}
Hop == 2
Frame == 4
Block == 2
Extras == {2, 4}
Fades == {0, 1}
Search == 1
Hold == 1
Flush == 1
MaxSamples == 7

VideoRequest(width, count, window, variant, given) ==
  [width |-> width, frames |-> count, window |-> window, mode |-> variant, source |-> given]
Families == {"ltx", "wan", "cogvideo", "hunyuan"}
VideoRequests ==
  {VideoRequest(None, None, window, None, given) : window \in {None, 4}, given \in BOOLEAN}
  \cup {VideoRequest(None, 500, None, None, given) : given \in BOOLEAN}
  \cup {VideoRequest(width, 50, None, variant, TRUE) : width \in {300, 5000}, variant \in {"t2v", "i2v"}}
Limits == {640, 1000}
MaxFrames == 81
VideoDefault == [width |-> 704, frames |-> 49, window |-> 9]
Steps == 1
VideoMaxJobs == 2
VideoMaxCrashes == 1

LongText == [len |-> 9, breaks |-> {3}, dots |-> {5}]
ShortText == [len |-> 3, breaks |-> {}, dots |-> {}]
MCTextOf == [u \in Uploads |-> IF u = "long" THEN LongText ELSE ShortText]
MCTexts == {LongText, ShortText}
MCModelOrder == <<"ma", "mb">>

SchemaMaxStarts == 4
SchemaMaxCrashes == 3

DefaultSteps == 6
KindSteps == [k \in {"lightning", "turbo", "anima", "z-turbo", "flux2"} |->
   IF k \in {"lightning", "turbo"} THEN 4 ELSE IF k = "anima" THEN 3 ELSE IF k = "z-turbo" THEN 5 ELSE 2]
MinEffective == 4
Strengths == {0, 50, 99}
StepCounts == {1, 3, 6}
Widths == {300, 544, 608, 1024, 1600}
Batches == {1, 2}
Margins == {<<0, 0, 0, 0>>, <<1, 0, 0, 2>>, <<2, 2, 0, 0>>, <<1, 1, 1, 1>>, <<3, 3, 0, 1>>}
Shapes == {<<4, 4>>, <<1, 3>>, <<3, 1>>}
Wide == 4
High == 4

MCSelection == <<lb, la, lb>>
MCPatchImage == (patch1 :> la) @@ (patch2 :> la)
MCPatchChange ==
  (patch1 :> [favorite |-> 1, tags |-> None]) @@ (patch2 :> [favorite |-> 0, tags |-> 1])

EveryAsset == {"vec-768-layer-12.onnx", "content_vec_500.onnx", "rmvpe.pt", "dtln_model_1.onnx", "dtln_model_2.onnx"}
MCSlotFiles == {{"checkpoint.pth", "weights.safetensors"}}
MCAssetSets == {EveryAsset, EveryAsset \ {"vec-768-layer-12.onnx", "dtln_model_2.onnx"}, {"dtln_model_1.onnx", "rmvpe.pt"}}

\* The variables of a component that is not of Services, in the order of its module.
VARIABLES
  var1, var2, var3, var4, var5, var6, var7, var8, var9, var10, var11, var12,
  var13, var14, var15, var16, var17, var18, var19, var20, var21, var22, var23,
  var24, var25, var26

TheQueuePlan == INSTANCE QueuePlan
  WITH queue <- var1, created <- var2, seated <- var3, pinned <- var4,
       forecast <- var5, since <- var6, swapped <- var7, disturbed <- var8
TheImageBackend == INSTANCE ImageBackend
  WITH sdxl <- var1, loaded <- var2, warm <- var3, pipe <- var4,
       serial <- var5, onGpu <- var6, views <- var7, nets <- var8,
       netPipes <- var9, features <- var10, deletes <- var11,
       adapters <- var12, active <- var13, enabled <- var14, cached <- var15,
       lastUsed <- var16, index <- var17, baseline <- var18, step <- var19,
       job <- var20, due <- var21, stop <- var22, made <- var23,
       others <- var24, stale <- var25, unpruned <- var26
TheStream == INSTANCE VoiceStream
  WITH captured <- var1, input <- var2, output <- var3, pushed <- var4,
       inMarks <- var5, outMarks <- var6, callback <- var7, worker <- var8,
       heard <- var9, early <- var10, stopping <- var11
TheMachine == INSTANCE HardwareProfile
  WITH Models <- OnDisk, machine <- var1, usual <- var2, torch <- var3,
       nunchaku <- var4, setup <- var5, app <- var6, stub <- var7
TheProcessor == INSTANCE VoiceProcessor
  WITH captured <- var1, denoiseMode <- var2, denoiser <- var3,
       pending <- var4, fifo <- var5, inBlocks <- var6, context <- var7,
       noise <- var8, blocks <- var9, gate <- var10, tailFlush <- var11,
       sola <- var12, played <- var13, quiet <- var14, idle <- var15,
       cuts <- var16, primes <- var17
TheVideo == INSTANCE Video
  WITH Default <- VideoDefault, Requests <- VideoRequests,
       MaxJobs <- VideoMaxJobs, MaxCrashes <- VideoMaxCrashes, family <- var1,
       limit <- var2, jobs <- var3, job <- var4, phase <- var5, done <- var6,
       shown <- var7, pipe <- var8, i2vPipe <- var9, loads <- var10,
       halt <- var11, stop <- var12, files <- var13, rows <- var14,
       deleting <- var15, crashes <- var16, strays <- var17, torn <- var18
TheSchema == INSTANCE Schema
  WITH MaxStarts <- SchemaMaxStarts, MaxCrashes <- SchemaMaxCrashes, disk <- var1, conn <- var2,
       open <- var3, todo <- var4, server <- var5, starts <- var6,
       crashes <- var7, torn <- var8, made <- var9
ThePlacement == INSTANCE Placement
  WITH model <- var1, place <- var2, step <- var3, image <- var4,
       resumed <- var5
TheImageEdit == INSTANCE ImageEdit
  WITH req <- var1, step <- var2, width <- var3, index <- var4, todo <- var5,
       taken <- var6, shown <- var7, stop <- var8, canvas <- var9,
       meta <- var10

\* What the modules assume of their constants.
ASSUME ServicesAssumed == ServicesAssumption
ASSUME
  /\ TheQueuePlan!PlanAssumption /\ TheImageBackend!ImageAssumption
  /\ TheStream!StreamAssumption /\ TheMachine!ProfileAssumption
  /\ TheProcessor!ProcessorAssumption /\ TheVideo!VideoAssumption
  /\ TheSchema!SchemaAssumption /\ TheImageEdit!EditAssumption

allVars ==
  <<var1, var2, var3, var4, var5, var6, var7, var8, var9, var10, var11,
    var12, var13, var14, var15, var16, var17, var18, var19, var20, var21,
    var22, var23, var24, var25, var26>>

\* None of the components of Services.
NoService == OnlyVoice /\ NoVoice

\* The variables that a component with n of its own does not have; those of Services
\* have none of these.
Unused(n) ==
  /\ IF n = 0 THEN var1 = None /\ var2 = None /\ var3 = None /\ var4 = None /\ var5 = None ELSE NoService
  /\ IF n <= 5 THEN var6 = None ELSE TRUE
  /\ IF n <= 6 THEN var7 = None ELSE TRUE
  /\ IF n <= 7 THEN var8 = None ELSE TRUE
  /\ IF n <= 8 THEN var9 = None ELSE TRUE
  /\ IF n <= 9 THEN var10 = None ELSE TRUE
  /\ IF n <= 10 THEN var11 = None ELSE TRUE
  /\ IF n <= 11 THEN var12 = None ELSE TRUE
  /\ IF n <= 12 THEN var13 = None ELSE TRUE
  /\ IF n <= 13 THEN var14 = None ELSE TRUE
  /\ IF n <= 14 THEN var15 = None ELSE TRUE
  /\ IF n <= 15 THEN var16 = None ELSE TRUE
  /\ IF n <= 16 THEN var17 = None ELSE TRUE
  /\ IF n <= 17 THEN var18 = None ELSE TRUE
  /\ IF n <= 18 THEN var19 = None ELSE TRUE
  /\ IF n <= 19 THEN var20 = None ELSE TRUE
  /\ IF n <= 20 THEN var21 = None ELSE TRUE
  /\ IF n <= 21 THEN var22 = None ELSE TRUE
  /\ IF n <= 22 THEN var23 = None ELSE TRUE
  /\ IF n <= 23 THEN var24 = None ELSE TRUE
  /\ IF n <= 24 THEN var25 = None ELSE TRUE
  /\ IF n <= 25 THEN var26 = None ELSE TRUE

Unchanged(n) ==
  /\ UNCHANGED vars
  /\ n <= 5 => UNCHANGED var6
  /\ n <= 6 => UNCHANGED var7
  /\ n <= 7 => UNCHANGED var8
  /\ n <= 8 => UNCHANGED var9
  /\ n <= 9 => UNCHANGED var10
  /\ n <= 10 => UNCHANGED var11
  /\ n <= 11 => UNCHANGED var12
  /\ n <= 12 => UNCHANGED var13
  /\ n <= 13 => UNCHANGED var14
  /\ n <= 14 => UNCHANGED var15
  /\ n <= 15 => UNCHANGED var16
  /\ n <= 16 => UNCHANGED var17
  /\ n <= 17 => UNCHANGED var18
  /\ n <= 18 => UNCHANGED var19
  /\ n <= 19 => UNCHANGED var20
  /\ n <= 20 => UNCHANGED var21
  /\ n <= 21 => UNCHANGED var22
  /\ n <= 22 => UNCHANGED var23
  /\ n <= 23 => UNCHANGED var24
  /\ n <= 24 => UNCHANGED var25
  /\ n <= 25 => UNCHANGED var26

MCInit ==
  \/ Init /\ Unused(0)
  \/ which = "plan" /\ TheQueuePlan!Init /\ Unused(8)
  \/ which = "images" /\ TheImageBackend!Init /\ Unused(26)
  \/ which = "stream" /\ TheStream!Init /\ Unused(11)
  \/ which = "machine" /\ TheMachine!Init /\ Unused(7)
  \/ which = "processor" /\ TheProcessor!Init /\ Unused(17)
  \/ which = "video" /\ TheVideo!Init /\ Unused(18)
  \/ which = "schema" /\ TheSchema!Init /\ Unused(9)
  \/ which = "placement" /\ ThePlacement!Init /\ Unused(5)
  \/ which = "edit" /\ TheImageEdit!Init /\ Unused(10)

MCNext ==
  \/ Next /\ UNCHANGED allVars
  \/ which = "plan" /\ TheQueuePlan!Next /\ Unchanged(8)
  \/ which = "images" /\ TheImageBackend!Next /\ Unchanged(26)
  \/ which = "stream" /\ TheStream!Next /\ Unchanged(11)
  \/ which = "machine" /\ TheMachine!Next /\ Unchanged(7)
  \/ which = "processor" /\ TheProcessor!Next /\ Unchanged(17)
  \/ which = "video" /\ TheVideo!Next /\ Unchanged(18)
  \/ which = "schema" /\ TheSchema!Next /\ Unchanged(9)
  \/ which = "placement" /\ ThePlacement!Next /\ Unchanged(5)
  \/ which = "edit" /\ TheImageEdit!Next /\ Unchanged(10)

MCSpec == MCInit /\ [][MCNext]_<<vars, allVars>>

-----------------------------------------------------------------------------

\* The variables of the component that moves have their types.
TypeOK ==
  \/ /\ which \in {"runtime", "feed", "settings", "gate", "lifespan", "history", "attachments", "rag", "library", "desk",
                   "backups", "tuning", "engine", "recorder", "voicedesk", "extract"}
     /\ ServicesTypeOK
  \/ which = "plan" /\ TheQueuePlan!TypeOK
  \/ which = "images" /\ TheImageBackend!TypeOK
  \/ which = "stream" /\ TheStream!TypeOK
  \/ which = "machine" /\ TheMachine!TypeOK
  \/ which = "processor" /\ TheProcessor!TypeOK
  \/ which = "video" /\ TheVideo!TypeOK
  \/ which = "schema" /\ TheSchema!TypeOK
  \/ which = "placement" /\ ThePlacement!TypeOK
  \/ which = "edit" /\ TheImageEdit!TypeOK

\* "Uses the same selection rule as the live worker": what has run since the
\* forecast and what the rule predicts now add up to the forecast, as long as
\* nothing else changes the queue or the GPU.  And the rule minimises swaps
\* within a tier: draining the queue at one priority loads each model once, and
\* the resident one not at all.  The profile is that of a card in the machine,
\* what was set up for the machine is what the application needs on it, and what
\* the policy shows as hidden is refused and as recommended is not, whichever
\* tools answer at setup and later (get_plan; _merge_gpus, resolve_profile in
\* two processes, compatibility_for_model).
ForecastsTrue ==
  /\ which = "plan" => TheQueuePlan!PlanHonoured /\ TheQueuePlan!FewestSwaps
  /\ which = "machine" =>
       TheMachine!PrimaryReal /\ TheMachine!TorchFits /\ TheMachine!PolicyHonoured

\* An image is made by the LoRAs that its job asks for and no others: none of
\* an earlier job stays on, none is taken for another of the same adapter name,
\* and the turbo adapter is on exactly when the model has it and the job does
\* not turn it off, unless an adapter call has failed halfway.  After a job
\* whose clean-up could prune, the cache is within its limit or holds this
\* job's LoRAs only, and what is remembered as loaded is what the pipeline
\* holds.  While the arbiter has another model on the accelerator this one has
\* nothing there but the ControlNets of a parked pipeline, unless a load failed
\* with its pipeline built (_apply_runtime_loras, _prune_lora_cache, park,
\* unload).  Of the other families a pipeline leaves the accelerator between
\* jobs, whatever interrupted one, unless its placement keeps it there; its
\* stages do not share the accelerator; and what runs is on it.  An edit always
\* has steps to run, a source that fits is on the canvas and is not repainted,
\* and the metadata say how the image was made, but for FLUX.2 with an edit
\* mode of its own (_effective_strength, _outpaint_canvas, _add_edit_meta).
\* The numbers of a clip are resolved when it is queued and again when it runs,
\* with settings that may have changed: it is never larger than what the decode
\* budget was computed for.  Its progress never shows more than was done.  A
\* clip that is listed has all its files, and files without a row are those of
\* a clip that was cancelled, failed or lost (_normalize_video_params,
\* generate, _persist, finish_video, delete_video).  Whatever overflows, is
\* dropped or is pulled short, an audio ring holds consecutive samples up to
\* the last one pushed, at the positions its counters name, and the measured
\* latency is that of the sample which is heard, unless it was played before
\* its chunk was marked (_Ring and _SampleClock, between the callback and the
\* conversion worker).  The raw samples and the pitch of a block advance together,
\* sample for sample and in order, but for what the denoiser held when it was
\* turned off, and the denoised content stays a frame less a hop behind them,
\* neither more nor less, once it is warm; each frame of the context
\* keeps the noise drawn for it; the seam continues where the emitted audio
\* stopped; and the gate leaves out a block only after speech has had its tail
\* (ChunkProcessor.process, DTLNDenoiser.process_stream, SquelchGate).
PipelinesTrue ==
  /\ which = "images" =>
       TheImageBackend!UsesItsLoras /\ TheImageBackend!CacheTrue /\ TheImageBackend!AloneOnGpu
  /\ which = "placement" =>
       /\ ThePlacement!OffBetweenCalls /\ ThePlacement!StagesAlone
       /\ ThePlacement!RunsOnDevice
  /\ which = "edit" => /\ TheImageEdit!ScheduleTrue /\ TheImageEdit!OnGrid
                       /\ TheImageEdit!SourceKept /\ TheImageEdit!MetaTrue
  /\ which = "video" =>
       /\ TheVideo!AsAdmitted /\ TheVideo!ProgressHonest
       /\ TheVideo!ClipsWhole /\ TheVideo!PipesTogether
  /\ which = "stream" => TheStream!RingsConsecutive /\ TheStream!MeasuresWhatIsHeard
  /\ which = "processor" =>
       /\ TheProcessor!RawWithPitch /\ TheProcessor!ContentLag /\ TheProcessor!NoisePinned
       /\ TheProcessor!SeamContinues /\ TheProcessor!TailFlushed

\* The server serves with the whole schema, whatever release the database was
\* from and wherever earlier starts died, unless one died between a table and
\* its indexes; it can start again, unless one left the table that was to
\* replace another; and the rows of the images are there all the time
\* (migrations/, init_db).
StoreTrue == which = "schema" => TheSchema!SchemaWhole /\ TheSchema!StartsAgain /\ TheSchema!RowsKept

=============================================================================
