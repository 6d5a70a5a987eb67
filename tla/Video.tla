------------------------------- MODULE Video --------------------------------
(***************************************************************************)
(* Video jobs: what the queue admits (_normalize_video_params of           *)
(* api/jobs.py), what the backend makes of it (backends/video_diffusers.py *)
(* with its text and image pipelines), how far it says it is, and the      *)
(* files and row that a finished clip leaves (job_results.finish_video,    *)
(* video_service.py).                                                      *)
(*                                                                         *)
(* The height is treated as the width is; the other numbers of a request   *)
(* are clamped alike.  Prompts, quantisation and offloading are left out.  *)
(***************************************************************************)
EXTENDS Integers, FiniteSets

CONSTANTS
  None,
  Families,   \* families of models: some of "ltx", "wan", "cogvideo", "hunyuan"
  Requests,   \* records width, frames, window, mode, source: what POST /jobs gets
  Limits,     \* values that video_max_width can be set to, among the others
  MaxFrames,  \* video_max_frames
  Default,    \* the family's defaults: width, frames, window
  Steps,      \* denoising steps of a window of frames
  MaxJobs,    \* bound: jobs
  MaxCrashes  \* bound: crashes

VideoAssumption ==
  /\ Families \subseteq {"ltx", "wan", "cogvideo", "hunyuan"}
  /\ Limits \subseteq Nat /\ {MaxFrames, Steps, MaxJobs, MaxCrashes} \subseteq Nat /\ Steps > 0
  /\ \A r \in Requests : r.mode \in {None, "t2v", "i2v"} /\ r.source \in BOOLEAN

VARIABLES
  family,   \* the family of the model at hand
  limit,    \* video_max_width, as the settings have it now
  jobs,     \* jobs submitted so far
  job,      \* the job at hand: what was admitted, then what is run; None
  phase,    \* "none", "queued", "starting", "denoising", "decoding", "encoding", "written"
  done,     \* denoise["done"]
  shown,    \* the last progress reported, in steps; the decode and the encode add one
  pipe,     \* the load whose pipeline _pipe is, or 0
  i2vPipe,  \* the load that _i2v_pipe was made from, or 0
  loads,    \* pipelines loaded so far
  halt,     \* the worker's cancel flag, which request_stop goes with
  stop,     \* _stop of the backend
  files,    \* what of each clip is in outputs
  rows,     \* clips with a row
  deleting, \* the clip whose files a request has deleted, or None
  crashes,
  strays,   \* history: clips without a row that were cancelled, failed or lost
  torn      \* history: clips deleted halfway when the server died

vars == <<family, limit, jobs, job, phase, done, shown, pipe, i2vPipe, loads, halt, stop, files,
          rows, deleting, crashes, strays, torn>>
store == <<files, rows, deleting, crashes, strays, torn>>
pipes == <<pipe, i2vPipe, loads>>

Least(a, b) == IF a <= b THEN a ELSE b
Greatest(a, b) == IF a >= b THEN a ELSE b
Clamp(value, default, low, high) ==
  Greatest(low, Least(high, IF value = None THEN default ELSE value))
Temporal == IF family = "ltx" THEN 8 ELSE 4
Parts == {"mp4", "poster", "thumb", "json"}

\* Widths are multiples of 32, frames one more than a multiple of the temporal
\* compression, except for FramePack, which works in windows of frames.
Width(asked) == Greatest(256, (Clamp(asked, Default.width, 256, limit) \div 32) * 32)
Frames(asked) ==
  LET frames == Clamp(asked, Default.frames, 9, MaxFrames)
  IN IF family = "hunyuan" THEN frames
     ELSE Greatest(Temporal + 1, ((frames - 1) \div Temporal) * Temporal + 1)
Window(asked) == Clamp(asked, Default.window, 3, 17)

Sections(frames, window) ==
  LET span == (window - 1) * 4 + 1
  IN Greatest(1, (Greatest(1, frames) + span - 1) \div span)
OutputFrames(frames, window) == Sections(frames, window) * window * 4 + 1

\* The frames that the budget of the decode is computed for.
Budgeted(frames, window) == IF family = "hunyuan" THEN OutputFrames(frames, window) ELSE frames

-----------------------------------------------------------------------------
Init ==
  /\ family \in Families /\ limit \in Limits /\ jobs = 0 /\ job = None
  /\ phase = "none" /\ done = 0 /\ shown = 0
  /\ pipe = 0 /\ i2vPipe = 0 /\ loads = 0 /\ halt = FALSE /\ stop = FALSE
  /\ files = [c \in {} |-> {}] /\ rows = {} /\ deleting = None /\ crashes = 0
  /\ strays = {} /\ torn = {}

\* FramePack needs a source image, and CogVideoX takes none.
Refused(mode) == family = IF mode = "i2v" THEN "cogvideo" ELSE "hunyuan"

\* The mode a request is admitted with, "none" when it is refused.
AdmittedMode(r) ==
  LET mode == IF r.mode # None THEN r.mode ELSE IF r.source THEN "i2v" ELSE "t2v"
  IN IF Refused(mode) \/ (mode = "i2v" /\ ~r.source) THEN "none" ELSE mode

\* _normalize_video_params; a request that is refused leaves nothing.
Submit(r) ==
  /\ phase = "none" /\ jobs < MaxJobs /\ AdmittedMode(r) # "none"
  /\ jobs' = jobs + 1 /\ phase' = "queued"
  /\ job' = [width |-> Width(r.width), frames |-> Frames(r.frames), window |-> Window(r.window),
             mode |-> AdmittedMode(r), source |-> r.source,
             budget |-> [width |-> Width(r.width),
                         frames |-> Budgeted(Frames(r.frames), Window(r.window))]]
  /\ UNCHANGED <<family, limit, done, shown, pipes, halt, stop, store>>

\* The settings are saved in between.
ChangeLimit ==
  /\ phase \in {"none", "queued"} /\ limit' \in Limits \ {limit}
  /\ UNCHANGED <<family, jobs, job, phase, done, shown, pipes, halt, stop, store>>

\* The worker picks the job; the arbiter loads the model unless it is loaded.
Start ==
  /\ phase = "queued" /\ phase' = "starting"
  /\ UNCHANGED <<family, limit, jobs, job, done, shown, pipes, halt, stop, store>>

Load ==
  /\ phase = "starting" /\ pipe = 0 /\ loads' = loads + 1 /\ pipe' = loads'
  /\ UNCHANGED <<family, limit, jobs, job, phase, done, shown, i2vPipe, halt, stop, store>>

\* The arbiter wants the GPU for another model.
Unload ==
  /\ pipe # 0 /\ phase \in {"none", "queued"}
  /\ pipe' = 0 /\ i2vPipe' = 0
  /\ UNCHANGED <<family, limit, jobs, job, phase, done, shown, loads, halt, stop, store>>

RunMode == IF job.source \/ job.mode = "i2v" THEN "i2v" ELSE "t2v"

\* The job is over: done, cancelled or failed.
Forget ==
  job' = None /\ phase' = "none" /\ done' = 0 /\ shown' = 0 /\ halt' = FALSE /\ stop' = FALSE

Total == Steps * (IF family = "hunyuan" THEN Sections(Frames(job.frames), Window(job.window)) ELSE 1)

\* generate up to the pipeline: the mode and the numbers are resolved again, and
\* a stop that came before is forgotten.
Generate ==
  /\ phase = "starting" /\ pipe # 0
  /\ IF Refused(RunMode) THEN Forget
     ELSE /\ phase' = "denoising" /\ stop' = FALSE /\ done' = 0 /\ shown' = 0
          /\ job' = [mode |-> RunMode, width |-> Width(job.width), frames |-> Frames(job.frames),
                     total |-> Total, admitted |-> job]
          /\ UNCHANGED halt
  /\ UNCHANGED <<family, limit, jobs, pipes, store>>

\* _pipeline_for_mode: the image pipeline is made from the text one, once.
MakeImagePipe ==
  /\ phase = "denoising" /\ done = 0 /\ job.mode = "i2v" /\ family # "hunyuan" /\ i2vPipe = 0
  /\ i2vPipe' = pipe
  /\ UNCHANGED <<family, limit, jobs, job, phase, done, shown, pipe, loads, halt, stop, store>>

\* The worker cancels the running job.
Cancel ==
  /\ phase \notin {"none", "queued"} /\ ~halt /\ halt' = TRUE /\ stop' = TRUE
  /\ UNCHANGED <<family, limit, jobs, job, phase, done, shown, pipes, store>>

PipeReady == job.mode = "t2v" \/ family = "hunyuan" \/ i2vPipe # 0

\* callback_on_step_end; the progress is published or throttled.
Step ==
  /\ phase = "denoising" /\ PipeReady
  /\ IF stop THEN Forget
     ELSE /\ done' = Least(job.total, done + 1) /\ shown' \in {shown, done'}
          /\ UNCHANGED <<job, phase, halt, stop>>
  /\ UNCHANGED <<family, limit, jobs, pipes, store>>

\* The pipeline fails, or cannot be made.
PipelineFails ==
  /\ phase = "denoising" /\ Forget
  /\ UNCHANGED <<family, limit, jobs, pipes, store>>

Sampled ==
  /\ phase = "denoising" /\ done = job.total /\ phase' = "decoding"
  /\ UNCHANGED <<family, limit, jobs, job, done, shown, pipes, halt, stop, store>>

\* The decode has no callbacks: a stop is not seen before its end.
Decoded ==
  /\ phase = "decoding" /\ phase' = "encoding" /\ shown' \in {shown, job.total + 1}
  /\ UNCHANGED <<family, limit, jobs, job, done, pipes, halt, stop, store>>

Clip == jobs
Here(c) == IF c \in DOMAIN files THEN files[c] ELSE {}
WithFiles(c, parts) == [x \in DOMAIN files \cup {c} |-> IF x = c THEN parts ELSE files[x]]

\* _persist writes the clip, its pictures and then its metadata, or fails midway.
Persist ==
  /\ phase = "encoding"
  /\ \/ files' = WithFiles(Clip, Parts) /\ phase' = "written"
        /\ UNCHANGED <<job, done, shown, halt, stop, strays>>
     \/ /\ \E parts \in {{"mp4"}, {"mp4", "poster"}, {"mp4", "poster", "thumb"}} :
             files' = WithFiles(Clip, parts)
        /\ Forget /\ strays' = strays \cup {Clip}
  /\ UNCHANGED <<family, limit, jobs, pipes, rows, deleting, crashes, torn>>

\* A fault: the row is written whether or not the job was cancelled.
RecordAlways ==
  /\ phase = "written" /\ Forget /\ rows' = rows \cup {Clip}
  /\ strays' = IF halt THEN strays \cup {Clip} ELSE strays
  /\ UNCHANGED <<family, limit, jobs, pipes, files, deleting, crashes, torn>>

\* finish_video, unless the job was cancelled meanwhile.
Record ==
  /\ phase = "written" /\ Forget
  /\ IF halt THEN rows' = rows /\ strays' = strays \cup {Clip}
     ELSE rows' = rows \cup {Clip} /\ UNCHANGED strays
  /\ UNCHANGED <<family, limit, jobs, pipes, files, deleting, crashes, torn>>

\* delete_video: the files, then the row when the request commits.
DeleteFiles(c) ==
  /\ deleting = None /\ c \in rows /\ deleting' = c
  /\ files' = [x \in DOMAIN files \ {c} |-> files[x]]
  /\ UNCHANGED <<family, limit, jobs, job, phase, done, shown, pipes, halt, stop>>
  /\ UNCHANGED <<rows, crashes, strays, torn>>

DeleteRow ==
  /\ deleting # None /\ rows' = rows \ {deleting} /\ deleting' = None
  /\ UNCHANGED <<family, limit, jobs, job, phase, done, shown, pipes, halt, stop>>
  /\ UNCHANGED <<files, crashes, strays, torn>>

\* The server dies; recovery queues the running job again, as a new one.
Crash ==
  /\ crashes < MaxCrashes /\ crashes' = crashes + 1
  /\ Forget /\ pipe' = 0 /\ i2vPipe' = 0 /\ deleting' = None
  /\ torn' = torn \cup ({deleting} \ {None})
  /\ \/ phase # "written" /\ UNCHANGED <<files, strays>>
     \/ phase = "written" /\ strays' = strays \cup {Clip} /\ UNCHANGED files
     \/ phase = "encoding" /\ files' = WithFiles(Clip, {"mp4"}) /\ strays' = strays \cup {Clip}
  /\ UNCHANGED <<family, limit, jobs, loads, rows>>

Next ==
  \/ \E r \in Requests : Submit(r)
  \/ ChangeLimit \/ Start \/ Load \/ Unload \/ Generate \/ MakeImagePipe \/ Cancel
  \/ Step \/ PipelineFails \/ Sampled \/ Decoded \/ Persist \/ Record
  \/ \E c \in rows : DeleteFiles(c)
  \/ DeleteRow \/ Crash

Spec == Init /\ [][Next]_vars

-----------------------------------------------------------------------------
Running == phase \in {"denoising", "decoding", "encoding", "written"}

\* The values of the variables.
TypeOK ==
  /\ family \in Families /\ limit \in Limits /\ jobs \in 0..MaxJobs
  /\ (job = None <=> phase = "none")
  /\ phase \in {"none", "queued", "starting", "denoising", "decoding", "encoding", "written"}
  /\ {pipe, i2vPipe} \subseteq 0..loads /\ {halt, stop} \subseteq BOOLEAN
  /\ DOMAIN files \cup rows \cup strays \cup torn \subseteq 1..jobs
  /\ \A c \in DOMAIN files : files[c] \subseteq Parts
  /\ deleting \in {None} \cup rows /\ crashes \in 0..MaxCrashes

\* The backend resolves the numbers of a job a second time, with the settings of
\* its time: it runs the frames that were admitted, and no picture wider than
\* the one the safe decode budget was computed for, and makes no more frames.
AsAdmitted ==
  Running =>
    /\ job.frames = job.admitted.frames /\ job.width <= job.admitted.budget.width
    /\ job.frames <= job.admitted.budget.frames
    /\ job.mode = job.admitted.mode \/ (job.admitted.mode = "t2v" /\ job.admitted.source)

\* "Progress must be monotonic": it ends before the last of its phases, however
\* many steps the pipeline takes, and a job never shows more than it has done.
ProgressHonest ==
  Running => done <= job.total /\ shown <= done + (IF phase \in {"encoding", "written"} THEN 1 ELSE 0)

\* A clip that is listed has all of its files, unless its deletion is under way
\* or was cut off; and files without a row are of a clip that was cancelled, had
\* failed, or was lost with the server.
ClipsWhole ==
  /\ \A c \in rows : Here(c) = Parts \/ c = deleting \/ c \in torn
  /\ \A c \in DOMAIN files : c \in rows \/ c \in strays \/ (c = Clip /\ phase = "written")
  /\ rows \cap strays = {}

\* The image pipeline shares the parts of the text pipeline that is loaded, never
\* those of one that was freed.
PipesTogether == i2vPipe \in {0, pipe}
=============================================================================
