------------------------------- MODULE Services -------------------------------
(***************************************************************************)
(* Services beside the scheduler that are proved for any values of their   *)
(* constants: the installed llama.cpp builds, what a browser tab shows,    *)
(* the settings and their file, the access rules, the start and stop of    *)
(* the application, the image history, the view that pages through it and  *)
(* the requests on it, the documents that are indexed or attached, the     *)
(* backups of the database, and of the voice engine its tuning and         *)
(* presets, its models, the recordings, the conversions and the models     *)
(* that their threads share.  They share no state, and each behaviour is   *)
(* one of the component which: the others are absent.  MCServices checks   *)
(* finite instances of these and of the other services in one run.         *)
(***************************************************************************)
EXTENDS Integers

CONSTANTS
  None,
  Builds, Callers, Keep, MaxCalls,            \* LlamaRuntime
  MaxQueue, MaxChanges, MaxConnects, Asked,   \* EventFeed
  Saves, SettingKeys, PatchOf, Tuned, Managed, Launch, DefaultValue, Hardware, Live, MaxEnds, \* SettingsStore
  Tokens, Ttl, MaxTime, MaxRestarts, MaxSessions, \* AccessGate
  Clients, MaxStarts, MaxJobs,                \* Lifespan
  Pics, Doctors, Deleters, Boot, Batch, MaxRows, MaxCrashes, Dropped, \* Gallery
  Uploads, TextOf, Target, Overlap, Budgets, LeastRest, BlockFrame, Joint, JointCounted, MaxSends, \* Attachments
  Texts, RagTarget, RagOverlap, ModelOrder, Indexings, MaxMoves, \* RagIndex
  MaxPictures, Page, MaxReloads, MaxRowChanges, \* Library
  Shown, Selection, Patches, PatchImage, PatchChange, Contents, \* ImageDesk
  BackupRuns, Keeps, MaxKills,                \* Backups
  Updates, TuningPatch, KeyOrder, TuningDefaults, Bad, Writers, Presets, MaxPosts, MaxTuningEnds,
  Torn,                                       \* VoiceTuning
  Voices, LiveVoice, Conversions, MaxSwitches, MaxLives, \* VoiceEngine
  MaxAired, MaxChunks, MaxTakes, Stoppers, Exporters, \* VoiceRecorder
  Slots, Convs, SlotFiles, AssetSets, DeskMaxChanges, \* VoiceDesk
  Threads, MaxPasses, MaxFaults               \* VoiceExtract

VARIABLES
  which,  \* the component that moves
  installed, folders, binary, install, call, calls, spoilt, cut,
  fact, owed, socket, buffer, shown, reading, connects, late,
  phase, runtime, chosen, file, survives, saving, replied, ends, landed, promised,
  config, exposed, state, now, restarts, sessions, granted, answered,
  stage, at, starts, accepting, admitting, worker, jobs, gpu, request, overdue,
  carried, surprise, left,
  serving, png, side, thumb, row, writing, produced, busy, doctor, known, adds, sets, scanning, deleting, clean,
  crashes, raced, gone,
  upload, attached, meta, message, sends, onDisk, moves, documents, indexing, vanished,
  image, favorites, rowChanges, filter, items, more, version, loading, pages, shifted, grown,
  columns, originals, unlinking, export, records, zip, archiver, due, seen, leaked, update, readRow, later,
  source, posted, decoder, temporary, sourced,
  keeping, script, backups, ticks, kills, backedUp, crossed,
  tuning, stored, durable, editor, todo, posts, kept, mixed, shelf, holder, copy, writers, filed, stopsLeft,
  denoising, passing, switches, voice, voiceId, users, clash, feeders, mode, blurred, lives,
  onAir, aired, halting, quiet, plays, take, frames, overtime, begun, stops, saved, mp3, exports, crowded,
  slot, assets, beside, denoise, changes, loaded, loadedId, loads, overlap, stale, lock, req, thread,
  got, temp, output, moved, fetch, running,
  fields, opens, cache, passer, mine, doubled, faults

runtimeVars == <<installed, folders, binary, install, call, calls, spoilt, cut>>
feedVars == <<fact, owed, socket, buffer, shown, reading, connects, late>>
settingsVars ==
  <<phase, runtime, chosen, file, survives, saving, replied, ends, landed, promised>>
gateVars == <<config, exposed, state, now, restarts, sessions, granted, answered>>
stagesVars ==
  <<stage, at, starts, accepting, admitting, worker, jobs, gpu, request, overdue,
    carried, surprise, left>>
historyVars ==
  <<serving, png, side, thumb, row, writing, produced, busy, doctor, known, adds, sets, scanning, deleting,
    clean, crashes, raced, gone>>
attachVars == <<upload, attached, meta, message, sends>>
ragVars == <<onDisk, moves, documents, indexing, vanished>>
viewVars == <<image, favorites, rowChanges, filter, items, more, version, loading, pages, shifted, grown>>
editsVars ==
  <<columns, originals, unlinking, export, records, zip, archiver, due, seen, leaked, update, readRow, later,
    source, posted, decoder, temporary, sourced>>
backupVars == <<keeping, script, backups, ticks, kills, backedUp, crossed>>
tuningVars ==
  <<tuning, stored, durable, editor, todo, posts, kept, mixed, shelf, holder, copy, writers, filed, stopsLeft>>
engineVars ==
  <<denoising, passing, switches, voice, voiceId, users, clash, feeders, mode, blurred, lives>>
recorderVars ==
  <<onAir, aired, halting, quiet, plays, take, frames, overtime, begun, stops, saved, mp3, exports, crowded>>
deskVars ==
  <<slot, assets, beside, denoise, changes, loaded, loadedId, loads, overlap, stale, lock, req, thread,
    got, temp, output, moved, fetch, running>>
extractVars == <<fields, opens, cache, passer, mine, doubled, faults>>

Runtime == INSTANCE LlamaRuntime
Feed == INSTANCE EventFeed
Settings == INSTANCE SettingsStore WITH Keys <- SettingKeys, Default <- DefaultValue
Gate == INSTANCE AccessGate
Stages == INSTANCE Lifespan WITH Requests <- Clients, late <- overdue
History == INSTANCE Gallery WITH holder <- scanning
Attach == INSTANCE Attachments WITH Least <- LeastRest, Frame <- BlockFrame, file <- attached
Rag == INSTANCE RagIndex WITH Target <- RagTarget, Overlap <- RagOverlap, Requests <- Indexings, request <- indexing
View == INSTANCE Library
  WITH MaxImages <- MaxPictures, MaxChanges <- MaxRowChanges, changes <- rowChanges, calls <- pages
Edits == INSTANCE ImageDesk
  WITH Images <- Shown, Asked <- Selection, Updates <- Patches, Image <- PatchImage, Change <- PatchChange,
       row <- columns, files <- originals, deleting <- unlinking, worker <- archiver, copy <- readRow,
       after <- later, upload <- source, content <- posted, stored <- sourced
Backup == INSTANCE Backups
  WITH Runs <- BackupRuns, keep <- keeping, run <- script, dirs <- backups, clock <- ticks,
       completed <- backedUp, overlapped <- crossed
Tuning == INSTANCE VoiceTuning WITH PatchOf <- TuningPatch, Defaults <- TuningDefaults, MaxEnds <- MaxTuningEnds
Engine == INSTANCE VoiceEngine WITH Models <- Voices, Live <- LiveVoice
Recorder == INSTANCE VoiceRecorder WITH MaxSessions <- MaxAired, sessions <- aired
Desk == INSTANCE VoiceDesk WITH MaxChanges <- DeskMaxChanges, voice <- loaded, voiceId <- loadedId
Extract == INSTANCE VoiceExtract WITH set <- fields, thread <- passer, raced <- doubled

\* What the modules assume of their constants.
ServicesAssumption ==
  /\ Runtime!RuntimeAssumption /\ Feed!FeedAssumption /\ Settings!SettingsAssumption
  /\ Gate!GateAssumption /\ Stages!LifespanAssumption /\ History!GalleryAssumption
  /\ Attach!AttachmentsAssumption /\ Rag!RagAssumption /\ View!LibraryAssumption
  /\ Edits!DeskAssumption /\ Backup!BackupsAssumption /\ Tuning!TuningAssumption
  /\ Engine!EngineAssumption /\ Recorder!RecorderAssumption /\ Desk!VoiceDeskAssumption
  /\ Extract!ExtractAssumption

\* A component that is absent.
NoRuntime ==
  /\ installed = None /\ folders = None /\ binary = None /\ install = None
  /\ call = None /\ calls = None /\ spoilt = None /\ cut = None
NoFeed ==
  /\ fact = None /\ owed = None /\ socket = None /\ buffer = None
  /\ shown = None /\ reading = None /\ connects = None /\ late = None
NoSettings ==
  /\ phase = None /\ runtime = None /\ chosen = None /\ file = None /\ survives = None
  /\ saving = None /\ replied = None /\ ends = None /\ landed = None /\ promised = None
NoGate ==
  /\ config = None /\ exposed = None /\ state = None /\ now = None
  /\ restarts = None /\ sessions = None /\ granted = None /\ answered = None
NoStages ==
  /\ stage = None /\ at = None /\ starts = None /\ accepting = None /\ admitting = None
  /\ worker = None /\ jobs = None /\ gpu = None /\ request = None /\ overdue = None
  /\ carried = None /\ surprise = None /\ left = None
NoHistory ==
  /\ serving = None /\ png = None /\ side = None /\ thumb = None /\ row = None /\ writing = None
  /\ produced = None /\ busy = None /\ doctor = None /\ known = None /\ adds = None /\ sets = None
  /\ scanning = None /\ deleting = None /\ clean = None /\ crashes = None /\ raced = None /\ gone = None
NoAttach == upload = None /\ attached = None /\ meta = None /\ message = None /\ sends = None
NoRag == onDisk = None /\ moves = None /\ documents = None /\ indexing = None /\ vanished = None
NoView ==
  /\ image = None /\ favorites = None /\ rowChanges = None /\ filter = None /\ items = None /\ more = None
  /\ version = None /\ loading = None /\ pages = None /\ shifted = None /\ grown = None
NoEdits ==
  /\ columns = None /\ originals = None /\ unlinking = None /\ export = None /\ records = None /\ zip = None
  /\ archiver = None /\ due = None /\ seen = None /\ leaked = None /\ update = None /\ readRow = None /\ later = None
  /\ source = None /\ posted = None /\ decoder = None /\ temporary = None /\ sourced = None
NoBackups ==
  /\ keeping = None /\ script = None /\ backups = None /\ ticks = None /\ kills = None
  /\ backedUp = None /\ crossed = None
NoTuning ==
  /\ tuning = None /\ stored = None /\ durable = None /\ editor = None /\ todo = None /\ posts = None
  /\ kept = None /\ mixed = None /\ shelf = None /\ holder = None /\ copy = None /\ writers = None
  /\ filed = None /\ stopsLeft = None
NoEngine ==
  /\ denoising = None /\ passing = None /\ switches = None /\ voice = None /\ voiceId = None
  /\ users = None /\ clash = None /\ feeders = None /\ mode = None /\ blurred = None /\ lives = None
NoRecorder ==
  /\ onAir = None /\ aired = None /\ halting = None /\ quiet = None /\ plays = None /\ take = None
  /\ frames = None /\ overtime = None /\ begun = None /\ stops = None /\ saved = None /\ mp3 = None
  /\ exports = None /\ crowded = None
NoDesk ==
  /\ slot = None /\ assets = None /\ beside = None /\ denoise = None /\ changes = None /\ loaded = None
  /\ loadedId = None /\ loads = None /\ overlap = None /\ stale = None /\ lock = None /\ req = None
  /\ thread = None /\ got = None /\ temp = None /\ output = None /\ moved = None /\ fetch = None
  /\ running = None
NoExtract ==
  /\ fields = None /\ opens = None /\ cache = None /\ passer = None /\ mine = None
  /\ doubled = None /\ faults = None

\* The voice engine is absent, and all that is not of it.
NoVoice == NoTuning /\ NoEngine /\ NoRecorder /\ NoDesk /\ NoExtract
NoServer == NoRuntime /\ NoFeed /\ NoSettings /\ NoGate /\ NoStages
NoRecords == NoHistory /\ NoAttach /\ NoRag /\ NoView /\ NoEdits /\ NoBackups
OnlyVoice == NoServer /\ NoRecords
voiceVars == <<tuningVars, engineVars, recorderVars, deskVars, extractVars>>
serverVars == <<runtimeVars, feedVars, settingsVars, gateVars, stagesVars>>
recordVars == <<historyVars, attachVars, ragVars, viewVars, editsVars, backupVars>>
otherVars == <<serverVars, recordVars>>

Init ==
  \/ which = "runtime" /\ Runtime!Init /\ NoFeed /\ NoSettings /\ NoGate /\ NoStages /\ NoRecords /\ NoVoice
  \/ which = "feed" /\ Feed!Init /\ NoRuntime /\ NoSettings /\ NoGate /\ NoStages /\ NoRecords /\ NoVoice
  \/ which = "settings" /\ Settings!Init /\ NoRuntime /\ NoFeed /\ NoGate /\ NoStages /\ NoRecords /\ NoVoice
  \/ which = "gate" /\ Gate!Init /\ NoRuntime /\ NoFeed /\ NoSettings /\ NoStages /\ NoRecords /\ NoVoice
  \/ which = "lifespan" /\ Stages!Init /\ NoRuntime /\ NoFeed /\ NoSettings /\ NoGate /\ NoRecords /\ NoVoice
  \/ which = "history" /\ History!Init /\ NoServer /\ NoAttach /\ NoRag /\ NoView /\ NoEdits /\ NoBackups /\ NoVoice
  \/ which = "attachments" /\ Attach!Init /\ NoServer /\ NoHistory /\ NoRag /\ NoView /\ NoEdits /\ NoBackups /\ NoVoice
  \/ which = "rag" /\ Rag!Init /\ NoServer /\ NoHistory /\ NoAttach /\ NoView /\ NoEdits /\ NoBackups /\ NoVoice
  \/ which = "library" /\ View!Init /\ NoServer /\ NoHistory /\ NoAttach /\ NoRag /\ NoEdits /\ NoBackups /\ NoVoice
  \/ which = "desk" /\ Edits!Init /\ NoServer /\ NoHistory /\ NoAttach /\ NoRag /\ NoView /\ NoBackups /\ NoVoice
  \/ which = "backups" /\ Backup!Init /\ NoServer /\ NoHistory /\ NoAttach /\ NoRag /\ NoView /\ NoEdits /\ NoVoice
  \/ which = "tuning" /\ Tuning!Init /\ OnlyVoice /\ NoEngine /\ NoRecorder /\ NoDesk /\ NoExtract
  \/ which = "engine" /\ Engine!Init /\ OnlyVoice /\ NoTuning /\ NoRecorder /\ NoDesk /\ NoExtract
  \/ which = "recorder" /\ Recorder!Init /\ OnlyVoice /\ NoTuning /\ NoEngine /\ NoDesk /\ NoExtract
  \/ which = "voicedesk" /\ Desk!Init /\ OnlyVoice /\ NoTuning /\ NoEngine /\ NoRecorder /\ NoExtract
  \/ which = "extract" /\ Extract!Init /\ OnlyVoice /\ NoTuning /\ NoEngine /\ NoRecorder /\ NoDesk

Next ==
  /\ UNCHANGED which
  /\ \/ /\ which = "runtime" /\ Runtime!Next
        /\ UNCHANGED <<feedVars, settingsVars, gateVars, stagesVars, recordVars, voiceVars>>
     \/ /\ which = "feed" /\ Feed!Next
        /\ UNCHANGED <<runtimeVars, settingsVars, gateVars, stagesVars, recordVars, voiceVars>>
     \/ /\ which = "settings" /\ Settings!Next
        /\ UNCHANGED <<runtimeVars, feedVars, gateVars, stagesVars, recordVars, voiceVars>>
     \/ /\ which = "gate" /\ Gate!Next
        /\ UNCHANGED <<runtimeVars, feedVars, settingsVars, stagesVars, recordVars, voiceVars>>
     \/ /\ which = "lifespan" /\ Stages!Next
        /\ UNCHANGED <<runtimeVars, feedVars, settingsVars, gateVars, recordVars, voiceVars>>
     \/ /\ which = "history" /\ History!Next
        /\ UNCHANGED <<serverVars, attachVars, ragVars, viewVars, editsVars, backupVars, voiceVars>>
     \/ /\ which = "attachments" /\ Attach!Next
        /\ UNCHANGED <<serverVars, historyVars, ragVars, viewVars, editsVars, backupVars, voiceVars>>
     \/ /\ which = "rag" /\ Rag!Next
        /\ UNCHANGED <<serverVars, historyVars, attachVars, viewVars, editsVars, backupVars, voiceVars>>
     \/ /\ which = "library" /\ View!Next
        /\ UNCHANGED <<serverVars, historyVars, attachVars, ragVars, editsVars, backupVars, voiceVars>>
     \/ /\ which = "desk" /\ Edits!Next
        /\ UNCHANGED <<serverVars, historyVars, attachVars, ragVars, viewVars, backupVars, voiceVars>>
     \/ /\ which = "backups" /\ Backup!Next
        /\ UNCHANGED <<serverVars, historyVars, attachVars, ragVars, viewVars, editsVars, voiceVars>>
     \/ /\ which = "tuning" /\ Tuning!Next
        /\ UNCHANGED <<otherVars, engineVars, recorderVars, deskVars, extractVars>>
     \/ /\ which = "engine" /\ Engine!Next
        /\ UNCHANGED <<otherVars, tuningVars, recorderVars, deskVars, extractVars>>
     \/ /\ which = "recorder" /\ Recorder!Next
        /\ UNCHANGED <<otherVars, tuningVars, engineVars, deskVars, extractVars>>
     \/ /\ which = "voicedesk" /\ Desk!Next
        /\ UNCHANGED <<otherVars, tuningVars, engineVars, recorderVars, extractVars>>
     \/ /\ which = "extract" /\ Extract!Next
        /\ UNCHANGED <<otherVars, tuningVars, engineVars, recorderVars, deskVars>>

vars == <<which, otherVars, voiceVars>>

Spec == Init /\ [][Next]_vars

-----------------------------------------------------------------------------

\* The variables of the component that moves have their types.
ServicesTypeOK ==
  /\ which = "runtime" => Runtime!TypeOK
  /\ which = "feed" => Feed!TypeOK
  /\ which = "settings" => Settings!TypeOK
  /\ which = "gate" => Gate!TypeOK
  /\ which = "lifespan" => Stages!TypeOK
  /\ which = "history" => History!TypeOK
  /\ which = "attachments" => Attach!TypeOK
  /\ which = "rag" => Rag!TypeOK
  /\ which = "library" => View!TypeOK
  /\ which = "desk" => Edits!TypeOK
  /\ which = "backups" => Backup!TypeOK
  /\ which = "tuning" => Tuning!TypeOK
  /\ which = "engine" => Engine!TypeOK
  /\ which = "recorder" => Recorder!TypeOK
  /\ which = "voicedesk" => Desk!TypeOK
  /\ which = "extract" => Extract!TypeOK

\* llama_manager's promise, "the active build is never pruned", and what the
\* launch needs: unless requests overlapped, the active build is on disk, and
\* between requests it is the one the settings name.  Between requests at most
\* Keep builds take space, and one can roll back to each of them: unless
\* requests overlapped or a crash cut one, the folders are there.
BuildsTrue == which = "runtime" => Runtime!ActiveOnDisk /\ Runtime!BuildsBounded

\* Once nothing is under way the tab shows the server's state, also after
\* events were dropped and connections lost: the newest event and the snapshot
\* suffice, unless a request failed, an older response came after them, an event
\* came before the subscription, or was the last of its topic and pushed out.
TabConverges == which = "feed" => Feed!TabConverges

\* "Runtime state must never get ahead of its durable representation", and a
\* setting keeps the value of the last save that was answered across restarts,
\* losses of power, failed saves and the tuning at the start.  Between updates
\* the voice engine and its file have the values of the updates that were
\* answered, across restarts, and no preset is lost to another request
\* (update_settings; create_preset, update_preset, delete_preset).
DurableTrue ==
  /\ which = "settings" => Settings!SavedKept
  /\ which = "tuning" => Tuning!TuningKept /\ Tuning!PresetsKept

\* An image has one row: what a crash, a failure or a cancellation left without
\* a row is recovered once, however often the doctor runs, and nothing that has
\* a row is recovered (except names that raced holds).  An image deleted with
\* its files does not come back, whatever the doctor had read before
\* (delete_image against reconcile_media).  A document is cut into chunks that
\* leave out no part of it.  An attachment that a message names is whole, though
\* its upload may have been cut off before or after; what a message includes
\* keeps to its budget, but for the character that a joint is longer than it is
\* counted.  The vectors of a document and of a query are those of the model
\* they name, unless it has gone in between.  The view that pages through the
\* rows of the images leaves out none and shows none twice, however its requests
\* overtake each other, but those listed anew since it was reloaded and unless
\* rows that it counts are not listed any more.  An archive of images holds what
\* was chosen, but for pictures deleted since, and goes when its request and its
\* thread are over, unless the request ended before the thread began; an edit
\* stays until a later one; a token answers for a whole image.  The newest
\* backups are kept and no more, whichever runs of the script fail or are
\* killed, unless runs overlapped (store_chat_upload, resolve_chat_upload,
\* _select_relevant_text, chunk_document_text, _index_document,
\* search_documents, embed; list_images, Gallery.tsx; export_images,
\* update_image, upload_init_image; scripts/backup.py).
RecordsTrue ==
  /\ which = "history" => History!OneRowPerFile /\ History!DeletedStays
  /\ which = "attachments" => Attach!UploadsWhole /\ Attach!ChunksCover /\ Attach!ContextBounded
  /\ which = "rag" => Rag!ChunksCover /\ Rag!VectorsNamed
  /\ which = "library" => View!NoGaps /\ View!InOrder
  /\ which = "desk" => Edits!ExportTrue /\ Edits!NoArchiveLeft /\ Edits!UpdatesKept /\ Edits!UploadsWhole
  /\ which = "backups" => Backup!BackupsKept

\* A conversion and a session speak with the model they were asked for, unless
\* loads overlapped, and the session's denoiser has heard only the session,
\* unless a conversion used it while the session had it in use
\* (_load_real_model, denoiser_sync, _active_denoiser).  A recording that is
\* saved holds every chunk its session played from its start to its end and
\* none of another, and it is saved once.  An MP3 is served whole, unless two
\* requests export a recording at a time or a crash cuts an export
\* (start_recording, _record_chunk, stop_recording, _ensure_mp3).  A file that
\* is converted speaks with the voice it was sent for, its upload goes with its
\* request, and what the request checked first is enough (voice_engine_convert,
\* _load_real_model).  A pass fails on a half-open model only where two threads
\* opened it, and none is opened for every chunk (_load, create_f0_extractor).
SpeaksTrue ==
  /\ which = "engine" => Engine!SpeaksAsAsked /\ Engine!HearsItself
  /\ which = "recorder" => Recorder!TakesWhole /\ Recorder!ServedWhole
  /\ which = "voicedesk" =>
       Desk!UploadsGone /\ Desk!AnsweredWhole /\ Desk!CheckEnough
  /\ which = "extract" => Extract!HalfOpenRaced /\ Extract!OpenedOnce

\* What is served goes back to the token of this start or to a session that was
\* made for it and is not over; sessions of other tokens do not count after a
\* restart, and a session opens only what reads an asset or the events.
\* Without a token only this machine is served (api_token_middleware,
\* request_is_authorized, websocket_is_authorized).  Once the application
\* stops, one job at most is still begun; when its process has ended no server
\* of it holds the GPU, unless a phase of the stop failed or was late, it was
\* killed, or requests were inside; and what is left is gone before the worker
\* of the next process starts (lifespan, _shutdown_phase).
ServingTrue ==
  /\ which = "gate" => Gate!Rooted /\ Gate!OthersKeptOut
  /\ which = "lifespan" => Stages!NoJobInTheGap /\ Stages!NothingLeft /\ Stages!LeftReaped
=============================================================================
