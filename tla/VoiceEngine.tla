----------------------------- MODULE VoiceEngine -----------------------------
(***************************************************************************)
(* What file conversions and the live session share of the voice engine:   *)
(* the one loaded voice model and the one streaming denoiser.  Conversions *)
(* run one at a time in a worker thread, the session starts and runs in    *)
(* threads of its own, and requests switch the denoiser and pass-through   *)
(* meanwhile (VoiceTuning has their way to the disk).  The denoiser exists.*)
(***************************************************************************)
EXTENDS Naturals, Sequences, FiniteSets

CONSTANTS
  Models,       \* the voice models
  Conversions,  \* requests to convert a file
  Live,         \* the live session
  MaxSwitches,  \* bound on the changes of the tuning
  MaxLives,     \* bound on the session starts
  None

Users == Conversions \cup {Live}

EngineAssumption ==
  /\ Live \notin Conversions /\ None \notin Models
  /\ {MaxSwitches, MaxLives} \subseteq Nat

VARIABLES
  denoising, \* the tuning's input_denoise is dtln
  passing,   \* its pass_through
  switches,
  voice,     \* _loaded_model
  voiceId,   \* _loaded_model_id
  users,     \* who loads or uses it
  clash,     \* history: voice and voiceId may be of different loads
  feeders,   \* whose sound is in the denoiser's state
  mode,      \* ChunkProcessor._denoise_mode of the session
  blurred,   \* history: a conversion used the denoiser that the session has in use
  lives

vars == <<denoising, passing, switches, voice, voiceId, users, clash, feeders, mode, blurred, lives>>

settings == <<denoising, passing, switches>>
model == <<voice, voiceId, clash>>
denoiser == <<feeders, mode, blurred>>

Absent == [at |-> "idle", wants |-> None, got |-> None, denoise |-> FALSE, unsure |-> FALSE]

Init ==
  /\ denoising = FALSE /\ passing = FALSE /\ switches = 0
  /\ voice = None /\ voiceId = None /\ clash = FALSE
  /\ users = [u \in Users |-> Absent]
  /\ feeders = {} /\ mode = "off" /\ blurred = FALSE
  /\ lives = 0

-----------------------------------------------------------------------------

\* ApplyKey of VoiceTuning, of the settings that the threads read here.
Switch(denoise, pass) ==
  /\ switches < MaxSwitches
  /\ denoising' = denoise /\ passing' = pass /\ switches' = switches + 1
  /\ (denoise = denoising) # (pass = passing)
  /\ UNCHANGED <<model, users, denoiser, lives>>

-----------------------------------------------------------------------------
(* The model.                                                              *)

Loading == {u \in Users : users[u].at \in {"load", "name"}}

\* POST /voice/engine/convert; the parameters are resolved before the lock.
Ask(c, m, denoise) ==
  /\ users[c].at = "idle"
  /\ users' = [users EXCEPT ![c] = [Absent EXCEPT !.at = "asked", !.wants = m, !.denoise = denoise]]
  /\ UNCHANGED <<settings, model, denoiser, lives>>

TakeLock(c) ==
  /\ users[c].at = "asked"
  /\ \A d \in Conversions : users[d].at \in {"idle", "asked"}
  /\ users' = [users EXCEPT ![c].at = "look"]
  /\ UNCHANGED <<settings, model, denoiser, lives>>

StartLive(m) ==
  /\ users[Live].at = "idle" /\ lives < MaxLives
  /\ lives' = lives + 1
  /\ users' = [users EXCEPT ![Live] = [Absent EXCEPT !.at = "look", !.wants = m]]
  /\ UNCHANGED <<settings, model, denoiser>>

\* _load_real_model: the model that is loaded, or a load without any lock.
Look(u) ==
  /\ users[u].at = "look"
  /\ LET reuse == voiceId = users[u].wants /\ voice # None
     IN users' = [users EXCEPT ![u].at = IF reuse THEN "have" ELSE "load",
                               ![u].got = IF reuse THEN voice ELSE None,
                               ![u].unsure = reuse /\ (clash \/ Loading # {})]
  /\ UNCHANGED <<settings, model, denoiser, lives>>

SetModel(u) ==
  /\ users[u].at = "load"
  /\ voice' = users[u].wants
  /\ clash' = (clash \/ Loading # {u})
  /\ users' = [users EXCEPT ![u].at = "name"]
  /\ UNCHANGED <<settings, voiceId, denoiser, lives>>

SetName(u) ==
  /\ users[u].at = "name"
  /\ voiceId' = users[u].wants
  /\ clash' = (Loading # {u} \/ (clash /\ voice # users[u].wants))
  /\ users' = [users EXCEPT ![u].at = "have", ![u].got = voice, ![u].unsure = clash']
  /\ UNCHANGED <<settings, voice, denoiser, lives>>

LoadFails(u) ==
  /\ users[u].at = "load"
  /\ users' = [users EXCEPT ![u] = Absent]
  /\ UNCHANGED <<settings, model, denoiser, lives>>

-----------------------------------------------------------------------------
(* The denoiser.                                                           *)

\* A conversion empties the denoiser, then runs the file through it.
Reset(c) ==
  /\ users[c].at = "have" /\ c # Live
  /\ users' = [users EXCEPT ![c].at = "run"]
  /\ feeders' = IF users[c].denoise THEN {} ELSE feeders
  /\ blurred' = (blurred \/ (users[c].denoise /\ mode = "dtln"))
  /\ UNCHANGED <<settings, model, mode, lives>>

Convert(c) ==
  /\ users[c].at = "run"
  /\ users' = [users EXCEPT ![c].at = "end"]
  /\ feeders' = IF users[c].denoise THEN feeders \cup {c} ELSE feeders
  /\ UNCHANGED <<settings, model, mode, blurred, lives>>

\* It ends, with its output or an error.
Leave(c) ==
  /\ users[c].at \in {"end", "run"}
  /\ users' = [users EXCEPT ![c] = Absent]
  /\ UNCHANGED <<settings, model, denoiser, lives>>

\* The session has its model: its streams open, with a fresh denoiser.
GoLive ==
  /\ users[Live].at = "have"
  /\ users' = [users EXCEPT ![Live].at = "live"]
  /\ mode' = IF denoising THEN "dtln" ELSE "off"
  /\ feeders' = IF mode' = "dtln" THEN {} ELSE feeders
  /\ blurred' = (mode' = "dtln" /\ \E c \in Conversions : users[c].at = "run" /\ users[c].denoise)
  /\ UNCHANGED <<settings, model, lives>>

\* A fault: _active_denoiser without the reset when the mode comes back.
PlayChunkOn ==
  /\ users[Live].at = "live" /\ ~passing
  /\ mode' = IF denoising THEN "dtln" ELSE "off"
  /\ feeders' = IF mode' = "off" THEN feeders ELSE feeders \cup {Live}
  /\ blurred' = (mode' = "dtln" /\ blurred)
  /\ UNCHANGED <<settings, model, users, lives>>

\* A chunk is converted.  A denoiser that was off is emptied first.
PlayChunk ==
  /\ users[Live].at = "live" /\ ~passing
  /\ mode' = IF denoising THEN "dtln" ELSE "off"
  /\ feeders' = IF mode' = "off" THEN feeders
                ELSE IF mode = "dtln" THEN feeders \cup {Live} ELSE {Live}
  /\ blurred' = IF mode' = "off" THEN FALSE
                ELSE IF mode = "dtln" THEN blurred
                ELSE \E c \in Conversions : users[c].at = "run" /\ users[c].denoise
  /\ UNCHANGED <<settings, model, users, lives>>

EndLive ==
  /\ users[Live].at = "live"
  /\ users' = [users EXCEPT ![Live] = Absent]
  /\ mode' = "off" /\ blurred' = FALSE
  /\ UNCHANGED <<settings, model, feeders, lives>>

-----------------------------------------------------------------------------

Next ==
  \/ \E denoise, pass \in BOOLEAN : Switch(denoise, pass)
  \/ \E c \in Conversions :
       \/ \E m \in Models, denoise \in {TRUE, denoising} : Ask(c, m, denoise)
       \/ TakeLock(c) \/ Reset(c) \/ Convert(c) \/ Leave(c)
  \/ \E m \in Models : StartLive(m)
  \/ \E u \in Users : Look(u) \/ SetModel(u) \/ SetName(u) \/ LoadFails(u)
  \/ GoLive \/ PlayChunk \/ EndLive

Spec == Init /\ [][Next]_vars

-----------------------------------------------------------------------------

TypeOK ==
  /\ {voice, voiceId} \subseteq Models \cup {None}
  /\ \A u \in Users : users[u].wants \in Models \cup {None} /\ users[u].got \in Models \cup {None}
  /\ feeders \subseteq Users /\ mode \in {"off", "dtln"}
  /\ clash \in BOOLEAN /\ blurred \in BOOLEAN

\* A conversion and a session speak with the model they were asked for, unless
\* a load overlapped another: neither knows of the other's lock.
SpeaksAsAsked ==
  \A u \in Users : (users[u].at = "have" /\ ~users[u].unsure) => users[u].got = users[u].wants

\* The session's denoiser has only heard the session, also after the mode was
\* switched and files were converted, unless a conversion used it while the
\* session had it in use (denoiser_sync, _active_denoiser).
HearsItself ==
  (users[Live].at = "live" /\ mode = "dtln" /\ ~blurred) => feeders \subseteq {Live}

=============================================================================
