----------------------------- MODULE VoiceDesk -----------------------------
(***************************************************************************)
(* Converting a file by the voice engine (api/voice_engine.py with         *)
(* slots.py and assets.py): a request checks the voice and the shared      *)
(* models, stores its upload, waits for the engine and converts in a       *)
(* thread, while files come and go and the denoise setting is changed;     *)
(* and the request that fetches the shared models.                         *)
(***************************************************************************)
EXTENDS Naturals, FiniteSets, Sequences

CONSTANTS
  Slots,       \* the folders of models/voice
  Convs,       \* requests to convert a file
  SlotFiles, AssetSets,  \* what folders and the shared models may change to
  MaxChanges,  \* bound on the changes of files and settings and on the fetches
  None

VARIABLES
  slot,     \* slot[s]: the weight files in the folder and the one params.json names
  assets,   \* the files under models/voice/pretrain
  beside,   \* shared models' files in models/voice itself
  denoise,  \* the engine's input_denoise
  changes,
  voice,    \* _loaded_model
  voiceId,  \* _loaded_model_id
  loads,    \* threads between the check of the loaded model and its name
  overlap,  \* history: a thread looked for the loaded model while another loaded one
  stale,    \* history: slots that changed since they were loaded
  lock,     \* who has the engine's lock
  req,      \* each request: its step, voice, denoise parameter, content
  thread,   \* the step of its conversion thread
  got,      \* the model its thread was given
  temp,     \* requests whose upload is on disk
  output,   \* their output file: "part", "whole" or None
  moved,    \* history: requests since whose check something changed
  fetch,    \* the step of the fetch and what it has to load
  running   \* the download status

fileVars == <<slot, assets, beside, denoise, changes>>
modelVars == <<voice, voiceId, loads, overlap, stale>>
convVars == <<lock, req, thread, got, temp, output, moved>>
fetchVars == <<fetch, running>>
vars == <<fileVars, modelVars, convVars, fetchVars>>

-----------------------------------------------------------------------------
(* What is on disk                                                         *)

\* In the order of their names.  load_model can read the first only.
Weights == <<"checkpoint.pth", "weights.safetensors">>
Loadable(f) == f = Weights[1]

Vec == {"vec-768-layer-12.onnx", "content_vec_500.onnx"}
Dtln == {"dtln_model_1.onnx", "dtln_model_2.onnx"}
AssetFiles == Vec \cup {"rmvpe.pt"} \cup Dtln

VoiceDeskAssumption ==
  /\ MaxChanges \in Nat
  /\ None \notin Slots \cup Convs \cup [slot : Slots, file : {Weights[1]}]
  /\ None \notin {"off", "dtln", "part", "whole", Weights[1], Weights[2]}
  /\ SlotFiles \subseteq SUBSET {Weights[1], Weights[2]} /\ AssetSets \subseteq SUBSET AssetFiles

\* _choose_model_file: the hint when its file is there, else the first by name.
Choice(folder) ==
  LET there == {i \in DOMAIN Weights : Weights[i] \in folder.files}
  IN IF folder.hint \in folder.files THEN folder.hint
     ELSE IF there = {} THEN None ELSE Weights[CHOOSE i \in there : \A j \in there : i <= j]
Chosen(s) == Choice(slot[s])

\* discover_assets: any file of content_vec will do, denoise_dtln needs both.
Missing == (IF assets \cap Vec = {} THEN {"content_vec"} ELSE {})
           \cup (IF "rmvpe.pt" \notin assets THEN {"rmvpe"} ELSE {})
Paired == Dtln \subseteq assets

\* Mutant: the optional pair is not looked at.
AssetErrorRequired(mode) == Missing # {}

\* _asset_error.
AssetError(mode) ==
  \/ Missing # {}
  \/ (IF mode = None THEN denoise ELSE mode) = "dtln" /\ ~Paired

Request(s, mode, content, at) == [at |-> at, slot |-> s, mode |-> mode, content |-> content]
NoRequest == Request(None, None, None, "idle")

Init ==
  /\ slot \in [Slots -> [files : SlotFiles, hint : {None, Weights[2]}]]
  /\ assets \in AssetSets /\ beside = {}
  /\ denoise = "off" /\ changes = 0
  /\ voice = None /\ voiceId = None /\ loads = {} /\ overlap = FALSE /\ stale = {}
  /\ lock = None /\ req = [c \in Convs |-> NoRequest]
  /\ thread = [c \in Convs |-> "none"] /\ got = [c \in Convs |-> None]
  /\ temp = {} /\ output = [c \in Convs |-> None] /\ moved = {}
  /\ fetch = [at |-> "idle", todo |-> {}] /\ running = FALSE

-----------------------------------------------------------------------------
(* Changes from outside                                                    *)

Checked == {c \in Convs : req[c].at # "idle"}
Change ==
  /\ changes < MaxChanges
  /\ changes' = changes + 1
  /\ moved' = moved \cup Checked
  /\ UNCHANGED <<beside, voice, voiceId, loads, overlap, lock, req, thread, got, temp, output, fetchVars>>

\* A folder is deleted, or gets or loses a weight file.
ChangeSlot(s, files) ==
  /\ Change
  /\ files # slot[s].files
  /\ slot' = [slot EXCEPT ![s].files = files]
  /\ stale' = stale \cup {s}
  /\ UNCHANGED <<assets, denoise>>

\* scripts/fetch_voice_assets.py and fetch_dtln.py, or a deletion.
ChangeAssets(files) ==
  /\ Change
  /\ files # assets /\ assets' = files
  /\ UNCHANGED <<slot, denoise, stale>>

\* POST /settings.
ChangeDenoise ==
  /\ Change
  /\ denoise' = IF denoise = "off" THEN "dtln" ELSE "off"
  /\ UNCHANGED <<slot, assets, stale>>

-----------------------------------------------------------------------------
(* The request                                                             *)

Goto(c, s) == req' = [req EXCEPT ![c].at = s]

\* 404 without the voice; then the extension is looked at.
Post(c, s, mode, content) ==
  /\ req[c].at = "idle"
  /\ req' = [req EXCEPT ![c] = Request(s, mode, content, IF Chosen(s) = None THEN "refused" ELSE "assets")]
  /\ UNCHANGED <<fileVars, modelVars, lock, thread, got, temp, output, moved, fetchVars>>

\* 503 without the shared models; else the upload's file is made.
CheckAssets(c) ==
  /\ req[c].at = "assets"
  /\ IF AssetError(req[c].mode) THEN Goto(c, "refused") /\ temp' = temp
     ELSE Goto(c, "upload") /\ temp' = temp \cup {c}
  /\ UNCHANGED <<fileVars, modelVars, lock, thread, got, output, moved, fetchVars>>

\* An upload that is empty or too large is removed.
RefuseUpload(c) ==
  /\ req[c].at = "upload"
  /\ Goto(c, "refused") /\ temp' = temp \ {c}
  /\ UNCHANGED <<fileVars, modelVars, lock, thread, got, output, moved, fetchVars>>

\* convert_file: the parameters are settled before it waits for the lock.
Stored(c) ==
  /\ req[c].at = "upload"
  /\ req' = [req EXCEPT ![c].at = "wait", ![c].mode = IF @ = None THEN denoise ELSE @]
  /\ UNCHANGED <<fileVars, modelVars, lock, thread, got, temp, output, moved, fetchVars>>

\* The handler is for Exception, which a cancellation is not.
CutUpload(c) ==
  /\ req[c].at = "upload"
  /\ Goto(c, "cut")
  /\ UNCHANGED <<fileVars, modelVars, lock, thread, got, temp, output, moved, fetchVars>>

Enter(c) ==
  /\ req[c].at = "wait" /\ lock = None
  /\ lock' = c /\ Goto(c, "convert") /\ thread' = [thread EXCEPT ![c] = "look"]
  /\ UNCHANGED <<fileVars, modelVars, got, temp, output, moved, fetchVars>>

\* The client goes: the lock and the upload with it, but not the thread.
Cancel(c) ==
  /\ req[c].at \in {"assets", "wait", "convert"}
  /\ Goto(c, "gone") /\ temp' = temp \ {c}
  /\ lock' = IF lock = c THEN None ELSE lock
  /\ UNCHANGED <<fileVars, modelVars, thread, got, output, moved, fetchVars>>

\* Mutant: the upload goes after the conversion, but not after its failure.
AnswerNoFinally(c) ==
  /\ req[c].at = "convert" /\ thread[c] \in {"done", "unavailable", "failed"}
  /\ Goto(c, CASE thread[c] = "done" -> "answered" [] thread[c] = "unavailable" -> "refused" [] OTHER -> "error")
  /\ lock' = None /\ temp' = IF thread[c] = "done" THEN temp \ {c} ELSE temp
  /\ UNCHANGED <<fileVars, modelVars, thread, got, output, moved, fetchVars>>

Answer(c) ==
  /\ req[c].at = "convert" /\ thread[c] \in {"done", "unavailable", "failed"}
  /\ Goto(c, CASE thread[c] = "done" -> "answered" [] thread[c] = "unavailable" -> "refused" [] OTHER -> "error")
  /\ lock' = None /\ temp' = temp \ {c}
  /\ UNCHANGED <<fileVars, modelVars, thread, got, output, moved, fetchVars>>

-----------------------------------------------------------------------------
(* The thread                                                              *)

Step(c, s) == thread' = [thread EXCEPT ![c] = s]

\* _load_real_model: the model that is loaded will do, whatever its files.
LookLoaded(c) ==
  /\ thread[c] = "look"
  /\ IF voiceId = req[c].slot /\ voice # None
     THEN Step(c, "denoiser") /\ got' = [got EXCEPT ![c] = voice] /\ loads' = loads
     ELSE Step(c, "load") /\ got' = got /\ loads' = loads \cup {c}
  /\ overlap' = (overlap \/ loads # {})
  /\ UNCHANGED <<fileVars, voice, voiceId, stale, lock, req, temp, output, moved, fetchVars>>

\* The voice and the shared models are looked for again; 503 without the
\* latter, 500 for anything else.
LoadModel(c) ==
  /\ thread[c] = "load"
  /\ LET s == req[c].slot
         f == Chosen(s)
     IN IF f = None \/ Missing # {} \/ ~Loadable(f)
        THEN /\ Step(c, IF f # None /\ Missing # {} THEN "unavailable" ELSE "failed")
             /\ loads' = loads \ {c} /\ UNCHANGED <<voice, stale>>
        ELSE /\ Step(c, "name") /\ voice' = [slot |-> s, file |-> f]
             /\ stale' = stale \ {s} /\ loads' = loads
  /\ UNCHANGED <<fileVars, voiceId, overlap, lock, req, got, temp, output, moved, fetchVars>>

NameModel(c) ==
  /\ thread[c] = "name"
  /\ voiceId' = req[c].slot /\ got' = [got EXCEPT ![c] = voice]
  /\ Step(c, "denoiser") /\ loads' = loads \ {c}
  /\ UNCHANGED <<fileVars, voice, overlap, stale, lock, req, temp, output, moved, fetchVars>>

\* Its error does not name a pretrain asset, and is a 500.
FindDenoiser(c) ==
  /\ thread[c] = "denoiser"
  /\ Step(c, IF req[c].mode = "dtln" /\ ~Paired THEN "failed" ELSE "read")
  /\ UNCHANGED <<fileVars, modelVars, lock, req, got, temp, output, moved, fetchVars>>

\* pipeline.convert opens the upload.
ReadUpload(c) ==
  /\ thread[c] = "read"
  /\ Step(c, IF c \in temp /\ req[c].content = "audio" THEN "write" ELSE "failed")
  /\ UNCHANGED <<fileVars, modelVars, lock, req, got, temp, output, moved, fetchVars>>

WriteOutput(c) ==
  /\ thread[c] = "write"
  /\ \/ output[c] = None /\ output' = [output EXCEPT ![c] = "part"] /\ thread' = thread
     \/ output[c] = "part" /\ output' = [output EXCEPT ![c] = "whole"] /\ Step(c, "done")
     \/ output[c] = "part" /\ output' = output /\ Step(c, "failed")  \* the disk is full
  /\ UNCHANGED <<fileVars, modelVars, lock, req, got, temp, moved, fetchVars>>

-----------------------------------------------------------------------------
(* Fetching the shared models                                              *)

\* fetch_specs and fetch_optional_specs: the known file of each missing one.
Specs(optional) ==
  (IF "content_vec" \in Missing THEN {"vec-768-layer-12.onnx"} ELSE {})
  \cup (IF "rmvpe" \in Missing THEN {"rmvpe.pt"} ELSE {})
  \cup (IF optional /\ ~Paired THEN Dtln ELSE {})

\* Mutant: the folder of the specification is kept.
LandsInFolder(fs) == assets' = assets \cup fs /\ beside' = beside

\* validate_custom drops the folder of a URL specification, and
\* run_blocking_custom joins the names to the folder of the kind.
Lands(fs) == assets' = assets /\ beside' = beside \cup fs

\* 409 while a download runs; nothing is started when nothing is missing.
PostFetch(optional) ==
  /\ fetch.at = "idle" /\ changes < MaxChanges /\ ~running
  /\ changes' = changes + 1
  /\ LET todo == Specs(optional)
     IN /\ fetch' = [at |-> IF todo = {} THEN "idle" ELSE "load", todo |-> todo]
        /\ running' = (todo # {})
  /\ UNCHANGED <<slot, assets, beside, denoise, modelVars, convVars>>

\* A file that fails is noted, and the others go on.
FetchEnds ==
  /\ fetch.at = "load"
  /\ fetch' = [fetch EXCEPT !.at = "idle", !.todo = {}] /\ running' = FALSE
  /\ \E done \in SUBSET fetch.todo : Lands(done)
  /\ UNCHANGED <<slot, denoise, changes, modelVars, convVars>>

Next ==
  \/ \E s \in Slots, files \in SlotFiles \cup {{}} : ChangeSlot(s, files)
  \/ \E files \in AssetSets : ChangeAssets(files)
  \/ ChangeDenoise
  \/ \E c \in Convs :
       \/ \E s \in Slots, mode \in {None, "dtln"}, content \in {"audio", "corrupt"} :
            Post(c, s, mode, content)
       \/ CheckAssets(c) \/ RefuseUpload(c) \/ Stored(c) \/ CutUpload(c) \/ Enter(c) \/ Cancel(c) \/ Answer(c)
       \/ LookLoaded(c) \/ LoadModel(c) \/ NameModel(c) \/ FindDenoiser(c) \/ ReadUpload(c)
       \/ WriteOutput(c)
  \/ (\E optional \in BOOLEAN : PostFetch(optional)) \/ FetchEnds

Spec == Init /\ [][Next]_vars

-----------------------------------------------------------------------------

Over == {"refused", "cut", "gone", "answered", "error"}

\* The steps of the requests and of their threads, and the engine's model.
TypeOK ==
  /\ \A s \in Slots : slot[s].files \subseteq {Weights[1], Weights[2]}
  /\ assets \subseteq AssetFiles /\ beside \subseteq AssetFiles /\ denoise \in {"off", "dtln"}
  /\ voice \in {None} \cup [slot : Slots, file : {Weights[1]}] /\ voiceId \in Slots \cup {None}
  /\ loads \subseteq Convs /\ stale \subseteq Slots /\ lock \in Convs \cup {None}
  /\ \A c \in Convs :
       /\ req[c].at \in {"idle", "assets", "upload", "wait", "convert"} \cup Over
       /\ thread[c] \in {"none", "look", "load", "name", "denoiser", "read", "write", "done", "unavailable", "failed"}
       /\ output[c] \in {None, "part", "whole"}
  /\ temp \subseteq Convs /\ moved \subseteq Convs /\ running = (fetch.at = "load")

\* When a request is over its upload is gone, whichever step ended it, but for
\* a client that goes while its upload is copied.  And a thread has its upload
\* to read as long as its request waits for it (_write_upload_to_temp, the
\* endpoint's finally).
UploadsGone ==
  \A c \in Convs :
    /\ req[c].at \in Over \ {"cut"} => c \notin temp
    /\ req[c].at \in {"wait", "convert"} => c \in temp

\* A token that is answered is a whole file by the voice that was asked for,
\* from the weights that its folder names now, unless the folder changed
\* since they were loaded or loads overlapped; and no file of a request that
\* went on to its end without an answer is whole (_load_real_model).
AnsweredWhole ==
  \A c \in Convs :
    /\ req[c].at = "answered" =>
         /\ output[c] = "whole"
         /\ overlap \/ (got[c].slot = req[c].slot
                        /\ (got[c].file = Chosen(req[c].slot) \/ req[c].slot \in stale \/ c \in moved))
    /\ req[c].at \in {"refused", "error", "cut"} => output[c] # "whole"

\* What the request has checked before the upload is enough: after it the
\* engine refuses nothing and fails only for an upload that is no audio, a disk
\* that is full or weights that it lists but cannot load, unless files or the
\* setting changed in between (_asset_error against _load_real_model and
\* _dtln_denoiser_sync).
CheckEnough ==
  \A c \in Convs :
    /\ thread[c] = "unavailable" => c \in moved
    /\ thread[c] = "failed" /\ output[c] = None =>
         \/ c \in moved \/ c \notin temp \/ req[c].content # "audio"
         \/ ~Loadable(Chosen(req[c].slot))

\* The fetch downloads the shared models "into models/voice/pretrain so a voice
\* model the user dropped in actually runs": none that it has downloaded lies
\* elsewhere while the engine misses it (voice_engine_fetch_assets).  It lies in
\* models/voice, where _find_asset does not look: validate_custom drops the
\* folder that fetch_specs asks for.
FetchedRuns ==
  /\ beside \cap Vec # {} => "content_vec" \notin Missing
  /\ "rmvpe.pt" \in beside => "rmvpe" \notin Missing

=============================================================================
