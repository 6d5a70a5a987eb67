# HFabric: a TLA+ model of the GPU arbiter, the job queue and their services

HFabric serves language models, image, video and upscaling pipelines and a live
voice converter from one GPU on one machine: a FastAPI process on one asyncio
event loop, threads for blocking calls and for sound, child processes for
llama.cpp, a SQLite database and a browser client. Its correctness is in how
they share that GPU, one queue of jobs, and the files and rows that survive the
process. These modules model the arbiter and the queue in depth, and around them
each service that has state of its own.

Paths below are relative to `src/backend/app/` unless they begin with `scripts/`
or `frontend/`.

## 1. The system

| Component | State | Operations | Talks to | What makes it correct |
|---|---|---|---|---|
| GPU arbiter, `core/arbiter.py` | resident backend, warm pool in LRU order, lease, pin, GPU lanes, lock | ensure, acquire/release, free_all, pin_current, ensure_pinned, unpin, release_pin, gpu_lane, activate/rollback/deactivate_lane, reconfigure, force_shutdown | backends, event bus | one model's weights on the GPU; a lease, a pin or the voice session is never violated by a request that checked it earlier; a failed swap leaves a state the next request can use |
| Worker, `core/scheduler.py` | rows of `jobs`, current job, cancel flag, wake-up event | _loop, _requeue_orphans, _pick_next, _run, _requeue, cancel_running, request_stop | arbiter, database, backends | one job runs at a time; nothing is lost, or run again after its result was saved |
| Queue endpoints and results, `api/jobs.py`, `services/queue_service.py`, `core/job_results.py` | rows | create, cancel, priority, clear; finish_image, finish_video, finish_llm | database, worker | a cancelled job archives nothing; result, status and tool call are saved together |
| Queue selection, `core/scheduler_planning.py` | none | select_in_tier, plan | worker, `/plan` | the forecast is what the worker does |
| llama-server, `backends/llm_llamacpp.py`, `services/embedding_service.py`, `util/pidfiles.py` | processes, two ports, a pid file | load, unload, embed, reap | arbiter, other processes | no server outlives its owner unknown; answers come from the model asked for; no stranger is killed |
| llama.cpp builds, `services/llama_manager.py`, `scripts/llama_release.py` | installed.json, folders, setting | install, activate, remove, prune | launch | the active build is on disk |
| Image backend, `backends/image_diffusers.py` and its parts | pipeline, views, adapters, where each part is | load, generate, after_job, park, unload, recycle | arbiter, worker | a job gets its own adapters, parts and schedule; nothing stays on the GPU beside another model |
| Video, `backends/video_diffusers.py`, `services/video_service.py` | clips as files and rows | admit, run, finish, delete | worker | a clip is whole; numbers stay within the budget they were admitted for |
| Voice session, `services/voice_engine/realtime.py`, `api/voice_engine.py` | session, audio executor, lane | start, stop | arbiter (exclusive lane), worker | the GPU is handed over as a whole and given back on every path |
| Voice sound path, `voice_engine/realtime.py`, `realtime_processor.py`, `pipeline.py`, `features.py`, `denoise.py`, `f0.py` | rings, clocks, FIFOs, context, lazily opened models | callback, worker, process, convert | audio device | samples stay consecutive, aligned and are heard when measured |
| Voice files, `voice_engine/engine.py`, `presets.py`, `slots.py`, `assets.py`, `audio_store.py` | loaded model, denoiser, tuning, presets, recordings | convert, record, export, fetch, update | disk, threads | a request gets the voice it asked for; recordings and presets are whole |
| TTS and transcription, `api/tts.py`, `api/transcription.py` | lanes, processes, files | synthesize, transcribe | arbiter (shared lane) | a lane lasts as long as its request, and nothing works on without a lane or a reason |
| Downloads, deletion and registry, `services/model_download*.py`, `services/model_storage.py`, `backends/registry.py` | status, files, index | start, run, cancel, delete, scan | threads, jobs | a partial file is never taken for a model, but for repositories that are filled in place; the index is what is on disk |
| Chat, `api/chat.py`, `services/chat_service.py`, `core/llm_tools.py` | conversation, messages | send, truncate, tool call | queue | one job per reply; a pending reply has a job |
| Attachments and RAG, `util/uploads.py`, `services/chat_attachments.py`, `api/rag.py`, `services/rag_service.py` | uploads, rows with vectors | upload, include, index, search | embedding server | whole texts, budgets, vectors of the named model |
| Image history, `services/gallery_service.py`, `api/gallery.py`, `frontend/.../Gallery.tsx` | files and rows | save, delete, reconcile, page, export, edit | database, disk | one row per image; deleted stays deleted; nothing is skipped |
| Events, `core/events.py`, `api/ws.py`, `frontend/.../useEvents.ts`, `queryCache.ts` | a bounded queue per tab, snapshots | publish, subscribe, refresh | browser | a tab shows the server's state in the end |
| Settings, `services/settings_overrides.py`, `services/atomic_json.py`, `main.py` | runtime values, a file and its backup | load, save, tune | every component | what was answered is kept |
| Hardware profile, `scripts/hardware_probe.py`, `scripts/install_profiles.py`, `services/capability_profile.py` | report, profile, torch | probe, resolve, policy | setup, registry | set-up and application agree about the machine |
| Database, `db/session.py`, `backend/migrations`, `scripts/backup.py` | schema, version, backups | start, migrate, back up | disk | a start that died can be repeated; the newest backups are kept |
| Access, `util/security.py`, `util/network_policy.py`, `api/auth.py` | token, browser sessions | authorize, sign in and out | every request | what is served goes back to the present token |
| Lifespan, `main.py` | phases, admission flags | start, stop | everything | the stop is bounded and frees the GPU |

`PROJECT.json` lists every component with its status, and under `hazards` each
place where this code is hard to test, with the properties that cover it.

What is hard here: every method that awaits lets other requests run, so what it
checked before may be stale; the arbiter's lock covers its own methods but not
`release`, `unpin`, the shutdown or the backends' `after_job`; every backend
call can raise or be cancelled half-way; threads outlive the requests that
started them; files and rows change in separate steps; the database takes no
lock between the read of a row and its update; answers reach the browser in any
order; and the process can die between any two writes.

## 2. Plan

Done, in this order: `Arbiter`, `GpuOwnership`, `ArbiterProofs`; `Scheduler`,
`JobLife`, `SchedulerProofs`; `VoiceSession`, `VoiceSessionProofs`; `QueuePlan`,
`EventFeed`, `LlamaRuntime`; `ModelFiles`, `ModelFilesProofs`; `Processes`,
`ProcessProofs`; `ChatTurns`, `ChatProofs`; `MCRequests`; `SettingsStore`;
`ImageBackend`, `Placement`, `ImageEdit`, `Video`;
`Gallery`, `Library`, `ImageDesk`; `VoiceStream`, `VoiceProcessor`,
`VoiceExtract`, `VoiceRecorder`, `VoiceEngine`, `VoiceTuning`, `VoiceDesk`;
`HardwareProfile`; `Attachments`, `RagIndex`; `Schema`, `Backups`; `AccessGate`,
`Lifespan`; `Services`, `RecordsProofs`, `ServicesProofs`.

Left:

1. Proofs: the clips of `Video`, the migrations of `Schema`, the adapters of
   `ImageBackend`, the rings of `VoiceStream`. `QueuePlan` has a recursive operator,
   so it stays with TLC.
2. Modules: the token stream of a language model, stored CivitAI credentials,
   the parsing of model files by the registry, the release packaging.

The arbiter, the queue and the voice session compose by assumption: `Scheduler`
takes the arbiter as the few facts it relies on (section 3), `VoiceSession` takes
both the same way, and `Processes`, `Lifespan`, `ModelFiles` and `ImageBackend` take
the jobs and lanes they meet as an environment of the same shape.

## 3. The modules

**`Arbiter`** models `core/arbiter.py` with the parts of its callers that decide
what it is asked. `op` is the request that holds `GpuArbiter._lock`: its `kind`
is the public method, `op.stage` the await it is suspended in (`park`, `unload`,
`evict`, `load`, `profile`, `cleanup`) or the synchronous stretch it is about to
run.
`Call` groups the actions that take the lock (`Ensure`, `Acquire`,
`FreeAll`, `ReleasePin`, `EnsurePinned`, `Reconfigure`, `ActivateVoice`,
`RollbackVoice`, `ForceShutdown`), `LockStep` what happens inside it, with every
load, park and unload able to return, to raise or to be cancelled (`Cancellable`: an
HTTP request at any await, those of a rollback included, the worker by
`Worker.stop`, the shutdown never); `Outside` what changes the arbiter without its lock (`PinCurrent`,
`Unpin`, `Release`, lanes, `_stabilize_after_job_sync`, settings, shutdown).
`current`, `pool`, `pin`, `uses`, `lanes`, `exclusive` are its attributes;
`loaded`, `warm`, `vram`, `launched` are the backends' flags and what is really
on the GPU, which an exception can make disagree: `adrift` are models whose weights
may be there with no flag or seat to tell of them (a pipeline whose acceleration
failed after `_pipe` was set, one of `Fixed` that was parked where it was, a load
cancelled before its seat), `strays` those of which a cancelled call has left a
process or a thread that nobody waits for. `MaxLost` bounds both together. `wants`, `running`, `work`
follow the worker's job, `handoff` and `prior` the voice endpoint. `saved` is
history: the servers that settings were saved under or while they loaded.
The VRAM budget is a choice: any set of warm victims may be asked for.
`Direct` are the models for which `ensure` is called outside a job;
`LateRecycle` switches on one behaviour that breaks a property (section 4), so
that the other properties are also checked and proved without it. A shared lane is
a set of ids here, as in the code; what follows from that is in `Processes`.
Events are not modelled: publishing never suspends.

**`GpuOwnership`** is the promise: one holder (a model or the voice lane) that
changes only through an empty GPU and cannot be taken away while leased or
pinned. `Arbiter!Ownership` instantiates it with the voice lane as holder when
`exclusive` is not empty and `current` otherwise.

**`Scheduler`** models the rows of the jobs table, the worker task and the
endpoints. `at` is where the worker task is suspended, in the order of
`_loop`: `orphans`, `adopt`, `look`, `choose`, `commit`, `begin`, `acquire`,
`generate`, `save`, `write`, `unwind`; `clear` and `wait` when nothing was
found, `requeue` and `putback` when the GPU was taken; `ended`, and `dead` after
an exception that nothing catches. Every read of rows and every commit is a step
of its own: `rows` and `req` hold what was read, and a write uses it. A commit
fails when a row it updates is gone (`CanWrite`) and, with `DbFails`, at any
time. `ProcessEnds` is a crash or the end of a shutdown at any step; only
`status`, `results` and the histories survive it. `told` and `heard` are those: jobs that a
DELETE found running, and those whose generation was asked to stop, by a DELETE or
by the shutdown; an orphan that the next process requeues is taken from `heard`.
`Chats` are the jobs of language models, of which a cancellation may store the text
(`Stored`). The arbiter
appears as `voice` (with the stretch in which the reservation holds the lock)
and `pin`, under the guards that `Arbiter` shows them to have: voice starts only
when no job is current and no pin stands, a pin of a leased GPU names the
model that runs. Priorities and model affinity are left out: any runnable row
may be picked, which covers every order they can produce.

**`JobLife`** is what the queue promises of a job: the statuses it goes through,
one running at a time, and a result that is stored once and that neither a run
nor an error follows: `Archive` is a job that is done, `Fail` one that ends with an
error, `Stop` one that was cancelled, which may keep what it had come to. `Scheduler!Life` instantiates it with the rows as they are
committed: the orphans of a dead process are still running until the next one
requeues them, and a request's blind write may cancel or clear anything.

**`VoiceSession`** models the requests that start and stop the realtime session
(`stage`, and `life` for `_voice_lifecycle_lock`), the one thread of
`_AUDIO_IO_EXECUTOR` (`calls` is its queue, `audio` what its head is doing), and
what that thread and the conversion thread own: `session` (`_SESSION`),
`streams`, `threads`, `told` (`_stop` is set). A call ends with `Reply`, which
resumes its request unless that was cancelled. `Cancel` raises a CancelledError
in any await: before the lane is reserved, in the unload, in the wait for the
audio thread, and in the handlers themselves; a call that has begun goes on,
one that has not is dropped. The arbiter is `owner`, `lock` and `prior`, the
worker the phases of one job from `_pick_next` to its end, and `OtherUse` every
other request that may load or free a model. The two starts have identities,
so a session is named after the request whose call installed it.

The services have one module each. Those with theorems have runs of their own or
are checked with the others in `MCServices`.

**`ModelFiles`**: two batches (curated and custom downloads), a deletion and a scan,
each at a step of its own (`at`); `disk` says who wrote the file behind each name,
`.part` files included. A download from a URL writes, renames and verifies; the hub's
client shows one file when it is whole (`HubFile`), and fills a repository of `Repos`
where everybody looks: `RepoShows` is the file that tells the folder's kind, from which
on a scan lists it, `RepoFilled` its last one, and what a failure leaves stays
(`ItemFails`). A deletion reads
the rows, stages, commits or restores; a scan walks in a thread and stores its
snapshot. Jobs want and load the same models. Histories say which batches
overlapped, whether a change still waits for a scan (`rescanDue`), and which files
were used ever since a deletion read the rows (`spared`).

**`Processes`**, first part: llama-servers as processes with the pids the system
reuses, the two fixed ports, the pid file, a health wait that fails or is cancelled
(`WaitCancelled`: only an `Exception` is cleaned up after), and the crash between any two
writes. **`LlamaRuntime`**:
every request reads installed.json, changes folders and writes the file back.

**`QueuePlan`**: the choice in a tier, the forecast and the worker as operators
over queues of jobs; `forecast` and `since` remember what `/plan` answered and
what has run.

**`EventFeed`**: the bus drops its oldest event, the socket subscribes after it
greeted, the client reads snapshots one at a time; statuses and lists are version
numbers.

**`ImageBackend`**: load, park, resume, unload, a job with its views and adapters,
the clean-up and the recycle of one pipeline; each adapter call may fail.
**`Placement`**: where text encoder, denoiser and VAE are, for every family,
quantisation, offload setting and accelerator. **`ImageEdit`**: what a job's
parameters become: size, steps, schedule, canvas, progress and metadata.

**`ChatTurns`**: the turns of a conversation, their placeholders and jobs; tool
calls queue follow-up jobs, restarts requeue them.

**`Gallery`**: an image as three files and a row, written, deleted and reconciled
step by step. **`Library`**: the view that pages through the rows by offsets.
**`ImageDesk`**: export, source upload, and edits of favourites and tags. Both take
from sequences by **`Ordered`**: members of a set by their place, and what is selected
from a sequence, in a form that the provers can expand (`SortSeq` and `SelectSeq` are
not).

**`SettingsStore`**: the runtime, the file with its backup, what of both survives
a loss of power, and the save that holds the locks.

**`VoiceStream`**: callback and worker on two rings and two clocks; a sample is
its capture time. **`VoiceProcessor`**: the two branches of the analysis, the
context and its noise, the seam and the squelch gate. **`VoiceExtract`**: the
models that two threads open lazily. **`VoiceRecorder`**: recordings and their
MP3s. **`VoiceEngine`**: the loaded voice and the denoiser that conversions and
the session share. **`VoiceTuning`**: settings and presets on disk.
**`VoiceDesk`**: a conversion request from its check to its answer, and the fetch
of the shared models.

**`HardwareProfile`**: a machine, what its tools answer at setup and later, and
the profiles and policies that follow.

**`Processes`**, second part: synthesis in a process, transcription in a thread, their
lanes, timeouts and files. A request can be cancelled in every await: before its work
(`CancelEarly`), at it (`Abandon`: llama-tts and the thread go on, the lane is left),
while it waits for the lock to leave its lane (`CancelLeaving`) and while its metadata are
written (`CancelRecord`). `working` is what really uses the GPU; `shared`, `strays` and
`deserted` are history. **`Video`**: what is admitted, what runs, its
progress, files and row.

**`Attachments`**: uploads, texts as lengths and places to cut, and what a message
includes. **`RagIndex`**: documents, models that come and go, and queries.

**`Schema`**: the migrations as statements, with what SQLite has on disk at each.
**`Backups`**: runs of the backup script and its retention.

**`AccessGate`**: token, exposure, browser sessions as what their signature
covers, restarts and clock. **`Lifespan`**: steps of the start and phases of the
stop while a job and requests run.

**`Services`** puts the services that are proved for any constants side by side:
`LlamaRuntime`, `EventFeed`, `SettingsStore`, `AccessGate`, `Lifespan`, `Gallery`,
`Library`, `ImageDesk`, `Attachments`, `RagIndex`, `Backups`, and `VoiceTuning`,
`VoiceEngine`, `VoiceRecorder`, `VoiceDesk` and `VoiceExtract`. They share no state.
`which` picks one in the initial state, and it alone moves: the variables of the
others are `None` throughout. Each keeps the names of its module's variables, but for
those that two modules use (`late` of `Lifespan` is `overdue`, `sessions` of
`VoiceRecorder` is `aired`, `voice` and `voiceId` of `VoiceDesk` are `loaded` and
`loadedId`, `holder` of `Gallery` is `scanning`, `file` of `Attachments` is `attached`,
`request` of `RagIndex` is `indexing`, `changes` and `calls` of `Library` are `rowChanges`
and `pages`; of `ImageDesk`, `row`, `files`, `deleting`, `worker`, `copy`, `after`,
`upload`, `content` and `stored` are `columns`, `originals`, `unlinking`, `archiver`,
`readRow`, `later`, `source`, `posted` and `sourced`; of `Backups`, `run`, `keep`, `dirs`, `clock`,
`completed` and `overlapped` are `script`, `keeping`, `backups`, `ticks`, `backedUp` and
`crossed`; of `VoiceExtract`, `set`, `thread` and `raced` are `fields`, `passer` and `doubled`). Its properties (`BuildsTrue`, `TabConverges`,
`DurableTrue`, `RecordsTrue`, `SpeaksTrue`, `ServingTrue`) are what the components
promise.

**`MCRequests`** puts `ChatTurns` and the two parts of `Processes` side by side, one of
them moving in each behaviour. **`MCScheduler`, `MCServices`** give the constants finite
values that a configuration cannot write. `MCServices` extends `Services` by the other services, 25
components in all. Of these, `var1`, `var2`, ... are the variables in the order in which
the module declares them, and hold `None` beyond its last and when a component of
`Services` moves. The components never move together, so the states of the run are
the sum of theirs and each is checked as if alone; its properties are conjunctions of
the components' own. They share no state: where two interact, one module has both
sides. (One set of variables for many makes the run several times faster.)
**`ArbiterProofs`, `SchedulerProofs`, `VoiceSessionProofs`, `ChatProofs`,
`ModelFilesProofs`, `ProcessProofs`, `RecordsProofs`, `ServicesProofs`** hold the theorems.

## 4. What the runs check

| Run | Instance | Shows |
|---|---|---|
| `arbiter_faults` | 1 server, 2 parkable pipelines of which one parks in place, 1 job owner, 1 pin, 1 shared lane with 1 request, pool of 1, 2 configurations, every failure and cancellation, 1 model lost to one | one model on the GPU but for what no flag tells of, leases and the voice lane respected, pool sound, settings current, failed and cancelled pin handoffs restored, refinement of `GpuOwnership`; the lock is always given back |
| `arbiter_one_resident` | `LateRecycle = TRUE` | violation: `after_job` of a job whose `acquire` failed rebuilds its pipeline beside the resident |
| `arbiter_stale_pin` | 3 models, pool of 1 | violation: a `release_pin(unload)` that fails after it unloaded the resident restores a pin on a model that is gone |
| `scheduler_rows` | 3 jobs of which a tool call queues one, 1 client, failing transactions, 2 starts of the process | one running row, results stored once and with their status, nothing but a reply's text after a cancel that was heard, refinement of `JobLife`; a queued job is picked although notifications are lost |
| `scheduler_cancel` | 2 jobs, 1 client | violation: a DELETE between the commit of the pick and `_run` is answered and forgotten |
| `voice_session` | 2 starts, 1 stop, all cancellable, every failure | without a cancellation a session has the GPU for itself; with them, no lane without a session, no orphaned stream or thread, a stop leaves nothing, the lifecycle lock is given back |
| `voice_handover` | the same | violation: a start cancelled while the audio thread opens the session leaves it live without the lane |
| `requests` | 3 messages, 5 jobs, 1 restart; 2 pids that return, 4 processes, 2 chat and 2 embedding models; 2 syntheses, 1 transcription, 2 voice sessions, 1 death of the server, every cancellation | one live job per reply, and a reply that waits has its job; no server runs unknown, each answers with its own model, the start ends only what it recorded; lanes go with their requests, work under way is shown and killed in time, answers are whole |
| `speech_lane` | the same | violation: a speech request that is cancelled while it waits for the lock leaves its lane registered |
| `files` | 1 file and 1 repository that is there, a curated and a custom batch, 1 deletion | what is listed is whole, but for repositories being filled or reported as failed, and is what is there; no file in use is deleted |
| `voice_fetch` | 1 voice, 1 conversion | violation: the shared models that are fetched lie where the engine does not look |
| `services` | the 25 components of `MCServices`, bounds below | each promise that section 3's modules state, under failures, crashes and interleavings: builds (`BuildsTrue`), tab (`TabConverges`), pipelines, clips and sound (`PipelinesTrue`), history, its view, exports and edits, documents and backups (`RecordsTrue`), schema (`StoreTrue`), the plan and the hardware profile (`ForecastsTrue`), settings, tuning and presets (`DurableTrue`), voices and recordings (`SpeaksTrue`), access, start and stop (`ServingTrue`) |

A proved type invariant is not evaluated again; `TypeOK` of the services is.
The violating runs are described in `PROJECT.json` under `findings`, each beside
the line of the repository that states the property.

*Bounds of the core.* Two pipelines and a server give every pair of kinds for a
swap but server to server (whose steps are those of server to pipeline), a pool of
one is at its limit with its first pipeline, and a third model beside a swap is present; one lost
model lets weights meet the next load, and `Fixed` has one pipeline so that both ways
to park occur. `ensure` outside a job is called for one pipeline. The proofs
have any number. One owner suffices because there is one worker task and it runs
one job; `running` and `uses` still allow a request from an earlier job to be in
flight. One pin id and one request in a lane are enough: `Processes` has two, whose
lane is shared, and a transcription beside them. The scheduler's three jobs are the running one, one waiting for
another model, and a tool call's; one client interleaves a read and a write with
every worker step, and two starts (`MaxStarts`) give one recovery from any state.
The voice requests are two starts, so that one meets what another that was
cancelled left behind in the audio thread, and one stop, which meets both. A pid
must come back while its first process may still live, so two of them are given to
four. Of the three messages one may draw and search documents, one only search, and one
goes to the image endpoint; five jobs leave two for tool calls. Two files
let a batch go on after a failed one; one is a repository, which ships with the
installation.
A rescan request only asks for a scan, as batches and deletions do when they end, and
the proofs cover it; with one the run is too large, so `files` has none.

*Bounds of the services.* Each is as small as its interesting case allows, and
named in `services.cfg` or `MCServices`.

| Module | Instance |
|---|---|
| `LlamaRuntime` | 3 builds of which 2 are kept, 2 callers, 4 calls |
| `QueuePlan` | 2 language models and 1 image model, 2 priorities, 3 jobs, a plan of 2 |
| `EventFeed` | queues of 2, 2 changes of each topic, 2 connections |
| `ImageBackend` | 3 LoRAs of which two share an adapter name, 1 cached, 2 images, 4 kinds of job |
| `Placement`, `ImageEdit` | every family, quantisation, offload and accelerator; widths around the grid, strengths 0, 50 and 99, 1 to 6 steps |
| `Gallery`, `Library`, `ImageDesk` | 1 picture, 2 rows, 2 crashes; 2 images with 1 on a page, 2 reloads; 2 images, 2 updates of one |
| `SettingsStore` | 3 settings (saved, launched, managed), 2 saves, 2 ends of the process or the power |
| `VoiceStream`, `VoiceProcessor` | chunks of 2, 5 captured samples; pieces of 1 and 3, 7 samples |
| `VoiceExtract` | 2 threads with 2 passes, 1 failed open |
| `VoiceRecorder`, `VoiceEngine`, `VoiceTuning`, `VoiceDesk` | 1 session, 2 takes, 2 stoppers, 1 exporter; 2 voices, 2 switches; 3 updates, 2 preset writers, 1 restart; 2 requests, 1 change or fetch |
| `HardwareProfile` | 4 systems with at most 2 of 3 kinds of card, both orders of torch, every answer of a tool |
| `Video` | 4 families, 2 limits, 2 jobs, 1 crash |
| `Attachments`, `RagIndex` | texts of 9 and 3 with chunks of 4; 2 embedding models, 2 moves, 3 requests |
| `Schema`, `Backups` | 4 starts of which 3 die; 3 runs, 1 or 2 kept, 1 killed |
| `AccessGate`, `Lifespan` | 2 tokens, 1 session, 1 restart, 3 ticks; 2 starts, 2 requests, 2 jobs |

Deadlock is not checked in `services`, `requests` and `files` (nor in the violating
`voice_fetch` and `speech_lane`): a component with bounded inputs really stops.

*Exceptions.* Some promises hold only outside of a situation in which the code
does break them. Each such situation is a history variable or a named condition
of the property, never a missing action, so the runs still visit it:

- `Arbiter`: settings saved under a server, or while it loads; and weights of which no
  flag tells (`Untold`): those of a load that failed after `_pipe` was set, of a park
  in place, and of a call that was cancelled. They may be on the GPU beside the
  resident, and beside the one that a rollback restores.
- `Scheduler`: a reply that was told to stop keeps its text; a job that was told to stop
  and that its process left unfinished is generated anew by the next one.
- `ModelFiles`: two batches at once, because `start` gives up its lock between
  check and write; a failed scan or a rolled-back deletion leaves the index old; a
  repository that is being filled, or whose download failed, is shown and listed.
- `Processes`: a crash, a cancelled health wait, a failed record or a denied reap loses a server;
  `LlamaRuntime`: overlapping requests write each other's files back.
- `EventFeed`: an older response, also that of a refresh aborted by a new
  connection, can be applied late.
- `ImageBackend`: adapter calls that failed halfway; ControlNets stay on the
  GPU through a park. `Placement`: a pipeline that is configured to stay on
  the accelerator does, parked too, until a resume puts it under model offload.
- `ChatTurns`: a queued job that is cancelled leaves its placeholder.
- `Gallery`: names and scans that raced; `Library`: rows counted in an offset
  that are not listed any more; `ImageDesk`: an export whose request ended
  before its thread began leaves an empty archive.
- `SettingsStore`: unsynced or cut saves, an unreadable file, or a live value
  set while a save is under way, void the promise.
- `VoiceStream`: a chunk played before it was marked; `VoiceEngine`: overlapping
  loads, and conversions that use the session's denoiser; `VoiceRecorder`: MP3
  exports of one recording at a time; `VoiceTuning`: keys of a failed update.
- `VoiceProcessor`: samples the denoiser held when it was switched, and its first
  frame, which is of the piece it was warmed up with;
  `VoiceExtract`: models that two threads opened at a time; `VoiceDesk`: a replaced or fetched
  file between check and use, and a conversion whose client has gone.
- `HardwareProfile`: an old driver that lists unlike cards in its own order, and
  a set-up that was overridden.
- `Processes`: a shared lane, threads whose request has timed out, threads and
  llama-tts processes whose request was cancelled, and the lane of a request that was
  cancelled on its way out; `Video`:
  files without rows after a cancellation, a failure or a crash.
- `RagIndex`: a model that went between its resolution and its use;
  `Schema`: a start that died between a table and its indexes, or inside the
  replacement of a table; `Backups`: overlapping runs; `Lifespan`: phases that
  fail or are late, and requests inside at the stop.

*What the models show besides.* Behaviours met while modelling that have no violating
run of their own: most contradict no line of the repository, and where one does the
property that comes nearest excepts the behaviour by name:

- A pipeline whose acceleration fails keeps its weights: `_pipe` is set before
  `_apply_acceleration` (`backends/image_diffusers.py:164-165`), `_loaded` stays false,
  and `unload` returns at once. The next load joins them on the GPU.
- "Rollback must also run for cancellation" (`core/arbiter.py:289`), and it does; but the
  cancelled health wait has left its llama-server running
  (`backends/llm_llamacpp.py:148` is `except Exception`), beside the reloaded
  resident and at the port of the next server.
- A cancelled synthesis leaves `llama-tts` running with its lane released:
  `api/tts.py:159` kills it after a `TimeoutError` only.
- A cancelled reply keeps its text (`core/job_results.py:299`), and a job that a DELETE or
  the shutdown stopped is run again if the process dies before that is saved.
- `snapshot_download` fills a repository where the registry looks
  (`services/model_download_service.py:249`, `379`): a partial one is listed as a
  model, and after a failure it stays and the curated download takes it for present.

- A lane is registered by its id, not by its request (`core/arbiter.py:403-411`):
  of two TTS requests the first to end removes the lane of the other, and a voice
  session may then start beside its work. `ShownUnlessShared` excuses exactly these.
- `PUT /settings/overrides` changes the launch settings under a resident server,
  which goes on with the old ones while the API shows the new.
- A save of settings applies its whole snapshot (`services/settings_overrides.py`)
  and can put back a value that `POST /llm/config` has changed meanwhile.
- Jobs for the resident model starve older jobs of the same priority.
- The two branches of the voice analysis are called aligned
  (`realtime_processor.py:45`), but the denoised one is a frame less a hop
  (384 samples) late, by neither more nor less: `VoiceProcessor!ContentLag` states
  that, `RawWithPitch` that the copy kept for the noise is aligned with the pitch.
- The pitch is interpolated across a lone unvoiced frame that the rows step
  over (`pipeline.py:61-95`); no module has the pitch track.
- A start of the application that dies in the migration from 0003 to 0004 after
  it created `_alembic_tmp_images` cannot start again; one that dies between the
  table of videos and its indexes never gets them.
- Overlapping backup runs with `--keep 1` may remove their own finished backup.
- Parked 4-bit, unquantised and some Nunchaku pipelines stay on the GPU, though
  `backends/base.py` says of a park "move out of VRAM but keep CPU state warm"
  (`Placement!StaysOn` has the cases, `Arbiter!Fixed` what it means for the next
  resident); a resume puts every
  pipeline but SDXL under model offload, whatever its placement was.
- A FLUX.2 source without mask and with an edit mode records a strength that
  nothing used; edit mode `inpaint` without a mask runs as `img2img`.
- A cancelled upload of a voice conversion leaves its temporary file
  (`except Exception`), and the conversion's thread goes on without its lock.
- Embedding falls back to the first model while the row names the resolved one;
  a search compares the query with rows of every model.
- A chat upload that is too large or aborted leaves a partial file; it has no
  metadata, so it is never read, and nothing removes it.

*Assumptions.* POSIX rename and unlink; a temporary file is synced before its
rename; sqlite3's legacy transaction control; no monitor device and no gaps in
the audio clock; `image_cleanup_after_each_job` is on; the models of
`HardwareProfile` have their RAM and support files; one voice stays loaded in
`VoiceExtract`.

*Fairness.* `Arbiter!FairSpec` assumes weak fairness of `LockStep`: each await
inside the lock ends, because a server's health wait is bounded (120 s), its
termination is followed by a kill, and the other backend calls are threads that
return. `Scheduler!FairSpec` assumes it of `WorkerStep` (the event loop resumes
the task; database and backend calls end) and of `VoiceReserved` (the unloads in
`activate_lane` end). `VoiceSession!FairSpec` assumes weak fairness of the audio
thread (its joins and device calls end), of the worker's load and of each
request, and strong fairness of a request's wait for the arbiter's lock:
`asyncio.Lock` serves its waiters in order. Nothing is assumed of clients, of the voice session's end,
of unpinning, or of restarts: `QueueMoves` therefore names them as excuses.
The services are checked for safety; where something must happen in the end, as in
`TabConverges` and `InventoryCurrent`, the property is about the states in which
nothing is under way.
Deadlock is checked in every run of the core; the shut-down process stutters explicitly
(`Exited`, `Over`), as do the answered voice requests.

## 5. What is proved

`ArbiterProofs` proves, for any number of models, jobs, pins, lanes and
requests, from the assumptions named in `Arbiter`:

- `TypeCorrect`: `Spec => []TypeOK`;
- `LeaseHolds`: `Spec => []LeaseHoldsResident`;
- `ExclusiveIsAlone`: `Spec => []ExclusiveAlone`;
- `OneResidentHolds`: `LateRecycle = FALSE` gives `Spec => []OneResident`.

The invariant has three layers, each inductive given the ones before it.
`Shape` adds to the types which stages and fields each kind of request can be
in. `Claims` says who may hold what: a lease names the resident, and a request
that has passed its checks can rely on them to its end because whoever could
invalidate them needs the lock; it gives the lease and the voice theorems.
`Occupancy` is about what is really on the GPU, which the code's flags do not
record: `Accounted` says that weights on the GPU, but for those nothing tells of
(`Untold`), belong to the resident or to a model that the request in progress is
loading, unloading or cleaning up, and
`Seated` that the resident of an idle arbiter is the one it says. `OneResident`
alone is not inductive: nothing in it says that a request may load only once the
GPU is empty. The proofs go action by action, in four groups (`LockStep`,
`Call`, `Begin`, `Outside`) per layer.

From these layers it goes on, with `LateRecycle = FALSE`:

- `PoolIsSound`: `Spec => []PoolSound`;
- `ResidentConfigured`: `Spec => []ResidentRunsConfig`;
- `OwnershipImplemented`: `Spec => ImplementsOwnership`;
- `HandoffRestored`: `Spec => HandoffRollsBack`.

`PoolSound` says nothing of the model on its way in or out: `Pooled` adds that a
park was begun with room in the pool and that only an incoming model, or one whose
load was cancelled before its seat, can be loaded and in the pool at once. `Configured` widens `ResidentRunsConfig` from the
resident to every loaded server, which a swap may make resident later, and says
that none is when `POST /llm/config` changes the settings. For the
refinement each step maps to one of the abstract specification or to a stutter;
`Seated` supplies that an owner changes through an empty GPU and `Claims` that
no leased or pinned one leaves. `Filled` says what a finished swap, and so a
rollback, has put on the GPU.

`SchedulerProofs` proves, for any set of jobs and clients and any number of
restarts, from `JobsAssumption`:

- `TypeCorrect`: `Spec => []TypeOK`;
- `OneRunningRow`: `Spec => []RunningIsWorkers`;
- `ResultsArchivedOnce`: `Spec => []ResultsOnce`;
- `CancelledArchivesNothing`: `Spec => []CancelWhileGenerating`;
- `JobLifeImplemented`: `Spec => ImplementsJobLife`.

Its invariant has five layers. `Staged` says which attributes are set at which
stage and that every row that was read exists or once did. `Picked` says what a
read of running rows is still worth at the write: a row that the save did not
find is gone for good, one that `_requeue` did not find running is not marked
running by anybody else. `Unsaved` says that nothing was archived for a job that
may still run, the rows in a transaction included; `ResultsOnce` alone says
nothing about those. `Reached` is what requests may have made of a row since the
worker read it. `Deafened` follows a job that was told to stop from its
generation to a status that is never picked, in this process and the next ones, or to
the orphans that are requeued. So, for the refinement, the worker begins a job only where `JobLife` may, with none
running by `Picked`, and ends or requeues only what `Unsaved` shows to have no result. `OtherStep` in the lemmas stands
for every step that is not the worker's.

`VoiceSessionProofs` proves, for any number of starts and stops:

- `TypeCorrect`: `Spec => []TypeOK`;
- `SessionAlone`: `Spec => []VoiceAlone`;
- `LaneIsUsed`: `Spec => []LaneInUse`;
- `NothingOrphaned`: `Spec => []NoOrphans`;
- `StopsRelease`: `Spec => StopReleases`.

What the properties leave out is who may be in between. `Held` says that at most
one request waits, the holder of the lifecycle lock, and through `Queued` that the
audio thread has its call, behind one call at most, which it had begun when its
request was cancelled. `Devices` says what that thread is doing to the session,
`Laned` that the lane belongs to a session or to the request that is about to
have one or to give it back, `Alone` that without cancellation sessions exist only
in the lane, and `Cleared` that a stop gives the lane back last.

`ChatProofs` proves, for any sends, jobs and restarts, from `ChatAssumption`:

- `TypeCorrect`: `Spec => []TypeOK`;
- `OneWriter`: `Spec => []OneJobPerReply`;
- `PendingAnswered`: `Spec => []PlaceholderLive`.

`Shaped` ties every turn and job to a request that is over, so that a new
request is new to both. `Single` is the first property without cardinalities,
with the fact that keeps it: a follow-up job calls no tool. `Replied` is the second
beside `Single`: a job that ends hands its placeholder on in the same transaction,
to a follow-up or to a text, and as no other job could write it nothing is lost.

`ProcessProofs` proves of the processes that the application starts, first, for any
pids, models and number of processes, from `ServersAssumption`:

- `ServersTyped`: `ServerSpec => []ServerTypeOK`;
- `NoServerUnknown`: `ServerSpec => []NoUnknownServer`;
- `ReapsOwn`: `ServerSpec => ReapsOnlyItsOwn`;
- `OwnAnswers`: `ServerSpec => []AnsweredByOwnModel`.

Pids return, births do not: `Known` says that a birth names one process at most,
and that a handle or the record that holds it means that process, its kind and its
model. `Traced` follows the servers through the time without the application,
of which `NoUnknownServer` says nothing: then each is recorded for the next
start or lost.

And of the speech requests, for any number of them, of voice sessions and of deaths of
the server, from `SpeechAssumption`:

- `TypeCorrect`: `SpeechSpec => []SpeechTypeOK`;
- `LanesOfRequests`: `SpeechSpec => []LanesLeft`;
- `WorkShown`: `SpeechSpec => []ShownUnlessShared`;
- `NothingForgotten`: `SpeechSpec => []NoneForgotten`;
- `AnswersWhole`: `SpeechSpec => []ResultsWhole`.

`WorkKnown` says where the request is for whose work the GPU is used, or that
nobody waits for it. `LaneHeld` is the converse of `LanesLeft`: a request that did
not share its lane finds it registered until it leaves, also when it is cancelled, from which what is shown
and what the voice session may take follow. `FilesFollow` says at which step the
audio and then its metadata are whole.

`ModelFilesProofs` proves, for any files, batches, deletions and scans, from
`FilesAssumption`:

- `TypeCorrect`: `Spec => []TypeOK`;
- `FilesWhole`: `Spec => []WholeFilesOnly`;
- `ListCurrent`: `Spec => []InventoryCurrent`;
- `UsedSpared`: `Spec => DeleteSpares`.

`OneBatch` says whose the `.part` file and the new file of a name are and which items
a batch has not come to, without which an old writer could be taken for the new
one, and that a repository it shows is filled, being filled or reported as failed. `Followed` is `InventoryCurrent` between the changes: each is owed a scan, or the
walk under way will still see it or has. `SparedKnown` says that what a deletion must
spare is among the paths it read or on the GPU, until it has looked at both.

`RecordsProofs`, of what the user keeps, and `ServicesProofs`, of the server and the
voice engine, prove for any constants that satisfy `ServicesAssumption` (the assumptions
of the modules that `Services` instantiates):

- `RecordsKept`: `Spec => []RecordsTrue` (in `RecordsProofs`);
- `ServicesTyped`: `Spec => []ServicesTypeOK`;
- `BuildsKept`: `Spec => []BuildsTrue`;
- `TabShowsState`: `Spec => []TabConverges`;
- `SettingsKept`: `Spec => []DurableTrue`;
- `ServedRightly`: `Spec => []ServingTrue`;
- `VoicesSpeak`: `Spec => []SpeaksTrue`.

`RecordsSafe` and `ServicesSafe` have the inductive invariant of each component while it is
the one that moves, and a step of `Services` is a step of that component. What each adds to its
properties:

- *Builds*, `RuntimeSafe`. Unless requests overlap, at most one is under way, and
  `Sound` says what it can count on at its step: what it read is still in the file
  (`Current`); stamps tell the builds apart; the folders of all listed builds are there
  but those it has taken away itself (`Gone`), the settings follow the file but for a
  write that it still has to apply (`Stored`). The lemma `KeptFew` is that a choice of
  the newest leaves no more than `Keep`; it needs well-founded induction on the stamps.
- *Feed*, `FeedSafe`. Nothing that is shown, in the buffer or on its way is newer than
  the server (`Behind`). A gpu event in the buffer is followed by the newest one, and
  without one the tab shows the newest status and no older answer is on its way
  (`GpuSafe`). The list of jobs that is shown is the newest, or an event is owed or in
  the buffer, or the connection's snapshot or a refresh brings it (`JobsSafe`).
- *Settings*, `SettingsSafe`. `SavedKept` says nothing about the contents of the two
  files, what either may hold after a loss of power, or the save under way. `Sourced`:
  every value of a request, wherever it is, comes from a save that has replaced the
  file or from the one under way. `Written`: what the save under way has done to
  the files. `Promised`: whatever content the next start may find agrees with what
  was answered.
- *Access*, `GateSafe`. Every browser session was granted to who had the token it is
  signed with (`Granted`), and while a request is answered the answer is what the rules
  give: so nothing may change between the decision and the answer.
- *Lifespan*, `StagesSafe`. `Standing` is which flags and servers belong to which step
  of the start and which phase of the stop, `GapSafe` that a job that begins after
  `begin_shutdown` was picked before it, `ReapSafe` and `AwaySafe` where what the stop
  has left is until it is reaped.
- *History*, `HistorySafe`. `OneRowPerFile` says nothing about what a reconciliation is
  about to write. `ReadStays`: a row that it has read is still that picture's or is
  deleted. `Coming`: what it will add has no row, is not being saved, and no other scan
  adds it too. `Made`: what a job is saving has no row yet. `GoneStays`: no file is left of
  a deleted image. Names that raced are excused in each. There are as many ids as
  a scan may need: `Places` gives each addition its own.
- *Attachments*, `AttachSafe`, and *documents*, `RagSafe`: how far an upload is says what
  its files hold, and a document has the chunks of its text. What the chunks and the
  selection are is defined by recursive functions. The least number at which a statement
  fails has one before it (`UpTo`, from well-founded sets of numbers), which replaces
  induction: the recursion defines something because each chunk starts after the one before
  (`ChunksMade`), what it defines covers the text (`ChunksCoverAll`), and a selection
  keeps to its limit (`SelectedFits`).
- *View*, `ViewSafe`. Of the requests under way at most one is current (`ViewCalls`,
  `OfNow`). What is shown is complete and falls (`Complete`, `Falling`) unless a reload is
  under way; so is what a reload has read, and what is shown together with what was read
  to go on. That a page continues where the list ends is a matter of counting: when no
  more images precede its place than are shown and listed, none is left out
  (`PageGoesOn`). The proof of `InOrder` did not go through as it was first stated: an
  image that is shown, loses its mark and has it again returns with an older page, out of
  order. Three changes of four images show it, more than the run has; the property now
  speaks of images that still match the filter.
- *Requests on the history*, `EditsSafe`. While the archive is written, what it holds and
  what is due make up the chosen images (`Aligned`). `EditSafe`: what an update has read is still there,
  or an update that ended meanwhile has set it. `UploadSafe`: how far the thread of an
  upload has come says which files there are.
- *Tuning*, `TuningSafe`. Key by key, the attributes are those of the last update
  (`AttributesKept`) but for the keys of the one that holds the lock, of which
  `PatchApplied` says how far it is; `FileKept` says the same of the file.
  `PresetsSafe`: who has the presets' lock has read what the file holds.
- *Models*, `EngineSafe`. `Named`: unless two loads clash, the model is the one of
  the load that has not set the name, or the one that is named; `HeardOnly`: while the
  session's denoiser is in use no conversion is about to feed it.
- *Recordings*, `RecorderSafe`. `TakesSafe`: a recording is whole wherever it is: at
  its session, with the request that saves it, on disk. `TakesApart`: it is in one of
  those places, so that it is saved once. `Mp3Safe`: a part of an MP3 is that of the one
  request that writes it.
- *Conversions of files*, `DeskSafe`. `Paced`: how far a request has come says where
  its upload and its thread are. `Seated`: unless loads overlap, the loaded model is that of
  the one thread that has not set its name. `Fresh`: it is what its folder names, or the
  folder has changed. `StillThere`: past its check a request has what it checked,
  unless something moved.

- *Models that threads share*, `ExtractSafe`. `OpenedAlone`: of a model that no two
  threads open at a time the fields are set in their order, so that what a pass looks at
  tells whether it is open. `PitchOpened` counts the extractors: every pair of threads,
  or thread, for which one has been opened is used up, and `InHand` says who may still
  keep or open which. The proof did not go through with the bound that was stated first
  (fewer than two for each thread, which two threads keep to): from three threads on each may open
  another's before any is kept, and the property now counts pairs.
- *Backups*, `BackupsSafe`. `Dated` tells the directories apart by their times, which
  follow the order in which runs completed. Unless runs overlap, a backup that is not
  there any more has enough newer ones (`Displaced`), and what a run will still remove
  is older than those (`Removing`).

In the run `VoiceDesk` has one folder of a voice and `VoiceRecorder` one session, for
its size; that voices and sessions are not mixed up is what these proofs show for any
number of them.

*Model-checked only:*

- liveness (`LockReleased`, `QueueMoves`, `LifeReleased`), which is out of the prover's
  reach;
- `ForecastsTrue`: `QueuePlan` has a recursive operator, which no module with theorems
  may reach, and `HardwareProfile` consists of decisions over tables that TLC evaluates
  on every combination it is given;
- `PipelinesTrue`: mostly results of functions on numbers and tables (`Placement`,
  `ImageEdit`) and sequences of samples (`VoiceStream`, `VoiceProcessor`);
- `StoreTrue`: the migrations, which are a fold over a table of statements;
- `TypeOK` of `MCServices` as a whole; `ServicesTyped` is its part for `Services`.

## 6. What is not modelled

- The contents of images, sounds, prompts and messages: networks, filters,
  samplers, resamplers and codecs; formatting, wording and logging.
- The exact VRAM arithmetic of the budget guard: `Arbiter` allows any outcome.
- The upscale and ONNX backends and the stub mode, which share the worker's and
  the arbiter's path with the modelled backends.
- The token stream of a language model, its parser for reasoning and tool calls.
- The pitch track of a conversion: rows, interpolation, protection and tail.
- The input formant of a voice: the engine pins it to its neutral value.
- Parsing of model files by the registry: a scan returns the files it saw.
- Notes, presets and prompts: reads and writes of one row each.
- Stored credentials of CivitAI, diagnostics, the memory monitor.
- The forms and views of the frontend other than its event feed, its cache and
  the gallery; what it shows of errors.
- Installers, start scripts, dependency locks, benchmarks and packaging: they
  run apart from the application and keep no state of it.
