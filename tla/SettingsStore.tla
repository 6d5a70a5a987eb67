---------------------------- MODULE SettingsStore ----------------------------
(***************************************************************************)
(* The settings that can be changed at runtime and the file that keeps     *)
(* them: services/settings_overrides.py over services/atomic_json.py, the  *)
(* startup that loads, tunes and repoints them (main.py) and the two       *)
(* writers that change them without saving: POST /llm/config and the       *)
(* activation of a llama.cpp build.  The file is replaced atomically, with *)
(* the previous content kept beside it; processes end and power fails      *)
(* between any two steps.                                                  *)
(***************************************************************************)
EXTENDS Integers

CONSTANTS
  Saves,     \* PUT /settings/overrides requests; the values they set are theirs
  Keys,      \* the settings
  PatchOf,   \* the settings that each request changes
  Tuned,     \* AUTOTUNE_KEYS
  Managed,   \* the paths of the active llama.cpp build
  Launch,    \* what POST /llm/config sets
  Default,   \* the value from the environment
  Hardware,  \* the value that autotune chooses
  Live,      \* a value set at runtime that no request has saved
  MaxEnds,   \* bound: ends of the process
  None

SettingsAssumption ==
  /\ PatchOf \in [Saves -> SUBSET Keys]
  /\ Tuned \subseteq Keys /\ Managed \subseteq Keys /\ Launch \subseteq Keys
  /\ Default \notin Saves /\ Hardware \notin Saves /\ Live \notin Saves
  /\ MaxEnds \in Nat
  /\ None \notin Saves \cup {Live} \cup [Keys -> Saves \cup {Default, Hardware, Live}]

Values == Saves \cup {Default, Hardware, Live}
Document == [Keys -> Values]  \* current_values: every key is written
Names == {"main", "backup"}

VARIABLES
  phase,     \* of the startup: "load", "tune", "activate", then "up"
  runtime,   \* the attributes of settings
  chosen,    \* the keys that load found in the file
  file,      \* the files as programs see them: a document or None
  survives,  \* what each may hold after a loss of power
  saving,    \* the save that holds the locks: [by, values, to, step, safe, left]
  replied,   \* the answer to each request
  ends,
  landed,    \* history: saves that have replaced the file
  promised   \* history: what each key should be, or None where nothing is claimed

fileVars == <<file, survives>>
vars == <<phase, runtime, chosen, file, survives, saving, replied, ends, landed, promised>>

Init ==
  /\ phase = "load" /\ runtime = [k \in Keys |-> Default] /\ chosen = {}
  /\ file = [n \in Names |-> None] /\ survives = [n \in Names |-> {None}]
  /\ saving = None /\ replied = [s \in Saves |-> None] /\ ends = 0
  /\ landed = {} /\ promised = [k \in Keys |-> None]

-----------------------------------------------------------------------------
\* A rename is seen at once and lost with the power until the directory is synced.
Renamed(name, content) ==
  survives' = [survives EXCEPT ![name] = @ \cup {content}]

Synced(files) == survives' = [n \in Names |-> {files[n]}]

\* The startup, before any request is served.

\* Mutant of Load: the keys that the file set count as never chosen.
LoadForgets ==
  /\ phase = "load" /\ phase' = "tune"
  /\ runtime' = IF file["main"] = None THEN runtime ELSE file["main"]
  /\ UNCHANGED <<chosen, file, survives, saving, replied, ends, landed, promised>>

Load ==
  /\ phase = "load" /\ phase' = "tune"
  /\ IF file["main"] = None
     THEN UNCHANGED <<runtime, chosen>>
     ELSE runtime' = file["main"] /\ chosen' = Keys
  /\ UNCHANGED <<file, survives, saving, replied, ends, landed, promised>>

\* A file that cannot be read or understood is moved out of the way, unless that
\* fails too; the directory may not be synced.  The start goes on without it.
Quarantine ==
  /\ phase = "load" /\ file["main"] # None /\ phase' = "tune"
  /\ \/ /\ file' = [file EXCEPT !["main"] = None]
        /\ Renamed("main", None) \/ Synced(file')
     \/ UNCHANGED fileVars
  /\ promised' = [k \in Keys |-> None]
  /\ UNCHANGED <<runtime, chosen, saving, replied, ends, landed>>

\* Keys that were chosen, in the file or in the environment, are not tuned.
Tune ==
  /\ phase = "tune" /\ phase' = "activate"
  /\ \E some \in SUBSET (Tuned \ chosen) :
       runtime' = [k \in Keys |-> IF k \in some THEN Hardware ELSE runtime[k]]
  /\ UNCHANGED <<chosen, file, survives, saving, replied, ends, landed, promised>>

\* An active build takes precedence over paths that were saved.
Activate ==
  /\ phase = "activate" /\ phase' = "up"
  /\ \E some \in SUBSET Managed :
       /\ runtime' = [k \in Keys |-> IF k \in some THEN Live ELSE runtime[k]]
       /\ promised' = [k \in Keys |-> IF k \in some THEN Live ELSE promised[k]]
  /\ UNCHANGED <<chosen, file, survives, saving, replied, ends, landed>>

-----------------------------------------------------------------------------
\* A save, in a thread of its own under _RUNTIME_LOCK and the lock of the path.

\* _sanitize and the check of the keys.
Refuse(s) ==
  /\ phase = "up" /\ replied[s] = None
  /\ replied' = [replied EXCEPT ![s] = "refused"]
  /\ UNCHANGED <<phase, runtime, chosen, file, survives, saving, ends, landed, promised>>

Snapshot(s) ==
  /\ phase = "up" /\ replied[s] = None /\ saving = None
  /\ saving' = [by |-> s, step |-> "replace", safe |-> FALSE, left |-> Keys,
                values |-> [k \in Keys |-> IF k \in PatchOf[s] THEN s ELSE runtime[k]],
                to |-> IF file["main"] = None THEN "main" ELSE "backup"]
  /\ replied' = [replied EXCEPT ![s] = "waiting"]
  /\ UNCHANGED <<phase, runtime, chosen, file, survives, ends, landed, promised>>

\* The payload is too large, or writing or renaming the temporary file fails.
SaveFails ==
  /\ saving # None /\ saving.step = "replace"
  /\ replied' = [replied EXCEPT ![saving.by] = "failed"] /\ saving' = None
  /\ UNCHANGED <<phase, runtime, chosen, file, survives, ends, landed, promised>>

\* The temporary file is on disk before it takes the name.
Replace ==
  /\ saving # None /\ saving.step = "replace"
  /\ saving' = [saving EXCEPT !.step = "sync"]
  /\ IF saving.to = "main"
     THEN /\ file' = [file EXCEPT !["main"] = saving.values] /\ Renamed("main", saving.values)
          /\ landed' = landed \cup {saving.by}
          /\ promised' =
               [k \in Keys |-> IF k \in PatchOf[saving.by] THEN None ELSE promised[k]]
     ELSE /\ file' = [file EXCEPT !["backup"] = file["main"]] /\ Renamed("backup", file["main"])
          /\ UNCHANGED <<landed, promised>>
  /\ UNCHANGED <<phase, runtime, chosen, replied, ends>>

\* _fsync_parent; its failure is ignored.
SyncParent ==
  /\ saving # None /\ saving.step = "sync"
  /\ \E done \in BOOLEAN :
       /\ IF done THEN Synced(file) ELSE UNCHANGED survives
       /\ saving' = IF saving.to = "main"
                    THEN [saving EXCEPT !.step = "apply", !.safe = done]
                    ELSE [saving EXCEPT !.step = "replace", !.to = "main"]
  /\ UNCHANGED <<phase, runtime, chosen, file, replied, ends, landed, promised>>

\* _apply, one attribute after the other, while other threads read them.
ApplyKey(k) ==
  /\ saving # None /\ saving.step = "apply" /\ k \in saving.left
  /\ runtime' = [runtime EXCEPT ![k] = saving.values[k]]
  /\ saving' = [saving EXCEPT !.left = @ \ {k}]
  /\ UNCHANGED <<phase, chosen, file, survives, replied, ends, landed, promised>>

Saved ==
  /\ saving # None /\ saving.step = "apply" /\ saving.left = {}
  /\ replied' = [replied EXCEPT ![saving.by] = "saved"] /\ saving' = None
  /\ promised' = [k \in Keys |-> IF k \in PatchOf[saving.by] /\ saving.safe /\ runtime[k] = saving.by
                                 THEN saving.by ELSE promised[k]]
  /\ UNCHANGED <<phase, runtime, chosen, file, survives, ends, landed>>

-----------------------------------------------------------------------------

\* POST /llm/config and an activation take none of the locks: a save that has
\* taken its snapshot puts the earlier value back.
SetLive(k) ==
  /\ phase = "up" /\ k \in Launch \cup Managed /\ runtime[k] # Live
  /\ runtime' = [runtime EXCEPT ![k] = Live]
  /\ promised' = [promised EXCEPT ![k] = IF saving = None THEN Live ELSE None]
  /\ UNCHANGED <<phase, chosen, file, survives, saving, replied, ends, landed>>

Restarted ==
  /\ ends < MaxEnds /\ ends' = ends + 1
  /\ phase' = "load" /\ runtime' = [k \in Keys |-> Default] /\ chosen' = {}
  /\ saving' = None
  /\ replied' = [s \in Saves |-> IF replied[s] = "waiting" THEN "lost" ELSE replied[s]]
  /\ promised' = [k \in Keys |-> IF promised[k] = Live THEN None ELSE promised[k]]
  /\ UNCHANGED landed

ProcessEnds == Restarted /\ UNCHANGED fileVars

\* Of what was not synced, any rename may be the last that holds.
PowerLoss ==
  /\ Restarted
  /\ file' \in [Names -> survives["main"] \cup survives["backup"]]
  /\ \A n \in Names : file'[n] \in survives[n]
  /\ Synced(file')

Next ==
  \/ Load \/ Quarantine \/ Tune \/ Activate
  \/ \E s \in Saves : Refuse(s) \/ Snapshot(s)
  \/ SaveFails \/ Replace \/ SyncParent \/ Saved
  \/ \E k \in Keys : ApplyKey(k) \/ SetLive(k)
  \/ ProcessEnds \/ PowerLoss

Spec == Init /\ [][Next]_vars

-----------------------------------------------------------------------------

Saving == [by : Saves, step : {"replace", "sync", "apply"}, safe : BOOLEAN, left : SUBSET Keys,
           values : Document, to : Names]

TypeOK ==
  /\ phase \in {"load", "tune", "activate", "up"} /\ runtime \in Document
  /\ chosen \subseteq Keys /\ file \in [Names -> Document \cup {None}]
  /\ survives \in [Names -> SUBSET (Document \cup {None})]
  /\ \A n \in Names : file[n] \in survives[n]
  /\ saving \in Saving \cup {None}
  /\ replied \in [Saves -> {None, "waiting", "refused", "failed", "saved", "lost"}]
  /\ ends \in 0 .. MaxEnds /\ landed \subseteq Saves
  /\ promised \in [Keys -> Saves \cup {Live, None}]

\* save's comment, "runtime state must never get ahead of its durable
\* representation": a value that a request has set is used only once it has
\* replaced the file, also while it is applied, when the write fails or is cut.
NotAhead == \A k \in Keys : runtime[k] \in Saves => runtime[k] \in landed

\* What was answered stays: after any restarts, losses of power and saves of other
\* keys, a setting has the value of the last save that was answered, or the one
\* set at runtime since.  Not claimed of a key after a save of it that was cut off
\* or not synced, after the file was found unreadable, and for a value set at
\* runtime, while a save was on its way or across a restart.
PromisesKept ==
  phase = "up" => \A k \in Keys : promised[k] # None => runtime[k] = promised[k]

SavedKept == NotAhead /\ PromisesKept

=============================================================================
