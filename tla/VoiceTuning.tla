----------------------------- MODULE VoiceTuning -----------------------------
(***************************************************************************)
(* What the voice engine keeps on disk: its tuning, which requests change  *)
(* setting by setting and save as a whole, and the named presets, which    *)
(* AtomicJSONStore.update reads, changes and writes under the file's lock. *)
(***************************************************************************)
EXTENDS Naturals, Sequences, FiniteSets

CONSTANTS
  Updates,      \* bodies of POST /voice/engine/settings
  PatchOf,      \* the settings each body sets
  KeyOrder,     \* the settings, in the order _apply_settings goes through them
  Defaults,     \* their values without a file
  Bad,          \* a value that is refused
  Writers,      \* requests that change the presets
  Presets,      \* ids of presets
  MaxPosts,     \* bound on the updates
  MaxEnds,      \* bound on the ends of the process
  Torn,         \* a file that a loss of power has cut
  None

Keys == {KeyOrder[i] : i \in DOMAIN KeyOrder}

Values == {Defaults[k] : k \in Keys} \cup UNION {{PatchOf[u][k] : k \in DOMAIN PatchOf[u]} : u \in Updates}

TuningAssumption ==
  /\ KeyOrder \in Seq(Keys) /\ Defaults \in [Keys -> Values]
  /\ \A u \in Updates : DOMAIN PatchOf[u] \subseteq Keys
  /\ {MaxPosts, MaxEnds} \subseteq Nat
  /\ {None, Torn} \cap [Keys -> Values] = {} /\ None \notin Updates \cup Writers
  /\ \A list \in SUBSET [id : Presets, by : Writers] : list # Torn

VARIABLES
  tuning,    \* the engine's attributes
  stored,    \* voice-settings.json: its values, None or Torn
  durable,   \* what of it a loss of power leaves
  editor,    \* the update that has the settings lock
  todo,      \* how many settings it has still to apply
  posts,
  kept,      \* history: the values of the updates that were answered
  mixed,     \* history: settings that an update changed which failed later
  shelf,     \* voice-presets.json: preset and its last writer, or Torn
  holder,    \* the request that has the lock of the presets
  copy,      \* what it has read
  writers,   \* the requests: "new", or what became of them
  filed,     \* history: the presets as the answered requests left them
  stopsLeft  \* how often the process may still end

settings == <<tuning, stored, durable, editor, todo, posts, kept, mixed>>
presets == <<shelf, holder, copy, writers, filed>>
vars == <<settings, presets, stopsLeft>>

Init ==
  /\ tuning = Defaults /\ stored = None /\ durable = None
  /\ editor = None /\ todo = 0 /\ posts = 0
  /\ kept = Defaults /\ mixed = {}
  /\ shelf = {} /\ holder = None /\ copy = {} /\ filed = {}
  /\ writers = [w \in Writers |-> "new"]
  /\ stopsLeft = MaxEnds

-----------------------------------------------------------------------------
(* The tuning.                                                             *)

Post(u) ==
  /\ editor = None /\ posts < MaxPosts
  /\ editor' = u /\ todo' = Len(KeyOrder) /\ posts' = posts + 1
  /\ UNCHANGED <<tuning, stored, durable, kept, mixed, presets, stopsLeft>>

NextKey == KeyOrder[Len(KeyOrder) + 1 - todo]
Sets(u, k) == k \in DOMAIN PatchOf[u]

\* _apply_settings takes the settings one by one; the session sees each at once.
ApplyKey ==
  /\ editor # None /\ todo \in 1..Len(KeyOrder)
  /\ Sets(editor, NextKey) => PatchOf[editor][NextKey] # Bad
  /\ tuning' = IF Sets(editor, NextKey) THEN [tuning EXCEPT ![NextKey] = PatchOf[editor][NextKey]] ELSE tuning
  /\ todo' = todo - 1
  /\ UNCHANGED <<stored, durable, editor, posts, kept, mixed, presets, stopsLeft>>

\* 400, or the file cannot be written: what was applied stays.
Fails ==
  /\ editor # None
  /\ \/ todo \in 1..Len(KeyOrder) /\ Sets(editor, NextKey) /\ PatchOf[editor][NextKey] = Bad
     \/ todo = 0
  /\ mixed' = mixed \cup {k \in DOMAIN PatchOf[editor] : tuning[k] = PatchOf[editor][k]}
  /\ editor' = None
  /\ UNCHANGED <<tuning, stored, durable, todo, posts, kept, presets, stopsLeft>>

\* A fault: A save of the settings that the update sets, and no others.
SavePatch ==
  /\ editor # None /\ todo = 0
  /\ stored' = [k \in Keys |-> IF Sets(editor, k) THEN tuning[k] ELSE Defaults[k]]
  /\ durable' \in {durable, stored', Torn}
  /\ kept' = [k \in Keys |-> IF Sets(editor, k) THEN PatchOf[editor][k] ELSE kept[k]]
  /\ mixed' = {k \in mixed : tuning[k] # kept'[k]}
  /\ editor' = None
  /\ UNCHANGED <<tuning, todo, posts, presets, stopsLeft>>

\* The file is replaced by all the attributes, and not flushed to the disk: a
\* loss of power may leave the old file, the new or a torn one.
Save ==
  /\ editor # None /\ todo = 0
  /\ stored' = tuning
  /\ durable' \in {durable, tuning, Torn}
  /\ kept' = [k \in Keys |-> IF Sets(editor, k) THEN PatchOf[editor][k] ELSE kept[k]]
  /\ mixed' = {k \in mixed : tuning[k] # kept'[k]}
  /\ editor' = None
  /\ UNCHANGED <<tuning, todo, posts, presets, stopsLeft>>

\* A file that cannot be read gives the defaults, all of them.
Loaded(file) == IF file \in {None, Torn} THEN Defaults ELSE file

\* The process ends, with the power or without, and starts again.
Ends(left) ==
  /\ stopsLeft > 0 /\ stopsLeft' = stopsLeft - 1
  /\ stored' = left /\ durable' = left
  /\ tuning' = Loaded(left)
  /\ kept' = IF left = stored THEN kept ELSE Loaded(left)
  /\ mixed' = IF left = stored THEN {k \in mixed : Loaded(left)[k] # kept[k]} ELSE {}
  /\ editor' = None /\ todo' = 0
  /\ holder' = None /\ copy' = {}
  /\ writers' = [w \in Writers |-> IF w = holder THEN "failed" ELSE writers[w]]
  /\ UNCHANGED <<posts, shelf, filed>>

-----------------------------------------------------------------------------
(* The presets.                                                            *)

\* A file that cannot be read is set aside, and the list starts empty.
Read(w) ==
  /\ holder = None /\ writers[w] = "new"
  /\ holder' = w
  /\ copy' = IF shelf = Torn THEN {} ELSE shelf
  /\ shelf' = IF shelf = Torn THEN {} ELSE shelf
  /\ UNCHANGED <<settings, writers, filed, stopsLeft>>

Others(list, p) == {entry \in list : entry.id # p}

\* create_preset, update_preset, delete_preset of one id; the file is replaced
\* durably, and the lock given back.
Written(list) ==
  /\ holder # None
  /\ shelf' = list /\ filed' = list
  /\ writers' = [writers EXCEPT ![holder] = "done"]
  /\ holder' = None /\ copy' = {}
  /\ UNCHANGED <<settings, stopsLeft>>

Create(p) == Others(copy, p) = copy /\ Written(copy \cup {[id |-> p, by |-> holder]})
Change(p) == Others(copy, p) # copy /\ Written(Others(copy, p) \cup {[id |-> p, by |-> holder]})
Remove(p) == Written(Others(copy, p))

\* Refused by the change itself, too large, or the disk is full.
NotWritten ==
  /\ holder # None
  /\ writers' = [writers EXCEPT ![holder] = "failed"]
  /\ holder' = None /\ copy' = {}
  /\ UNCHANGED <<settings, shelf, filed, stopsLeft>>

\* Somebody edits the file by hand.
Spoil ==
  /\ shelf # Torn /\ shelf # {} /\ holder = None
  /\ shelf' = Torn /\ filed' = {}
  /\ UNCHANGED <<settings, holder, copy, writers, stopsLeft>>

-----------------------------------------------------------------------------

Next ==
  \/ \E u \in Updates : Post(u)
  \/ ApplyKey \/ Fails \/ Save
  \/ \E left \in {stored, durable} : Ends(left)
  \/ \E w \in Writers : Read(w)
  \/ \E p \in Presets : Create(p) \/ Change(p) \/ Remove(p)
  \/ NotWritten \/ Spoil

Spec == Init /\ [][Next]_vars

-----------------------------------------------------------------------------

TypeOK ==
  /\ DOMAIN tuning = Keys /\ DOMAIN kept = Keys /\ mixed \subseteq Keys
  /\ editor \in Updates \cup {None} /\ todo \in 0..Len(KeyOrder)
  /\ holder \in Writers \cup {None}
  /\ \A w \in Writers : writers[w] \in {"new", "done", "failed"}

\* Between updates the engine and its file have the values of the updates that
\* were answered, across restarts.  An update that fails leaves what it has
\* applied, and the next one saves that too (update_settings).
TuningKept ==
  editor = None =>
    \A k \in Keys \ mixed : tuning[k] = kept[k] /\ Loaded(stored)[k] = kept[k]

\* The presets are those that the answered requests left, in the order they had
\* the lock: none is lost to another, and a failed one changes nothing.
PresetsKept == shelf # Torn => shelf = filed

=============================================================================
