---------------------------- MODULE LlamaRuntime ---------------------------
(***************************************************************************)
(* The installed llama.cpp builds: installed.json and the folders          *)
(* versions/<id> (scripts/llama_release.py), the binary that the settings  *)
(* name and the install status (services/llama_manager.py).  Requests read *)
(* the whole file, change folders and write the whole file back, each in a *)
(* thread of its own; only installs exclude each other.                    *)
(***************************************************************************)
EXTENDS Naturals, FiniteSets

CONSTANTS
  Builds,    \* version ids, tag and variant together
  Callers,   \* threads that serve POST install and activate, DELETE
  Keep,      \* KEEP_VERSIONS
  MaxCalls,  \* bound: requests
  None

RuntimeAssumption == Keep \in Nat \ {0} /\ MaxCalls \in Nat /\ None \notin Builds

VARIABLES
  installed,  \* installed.json: the active build and stamp[b] of the listed ones
  folders,    \* complete folders under versions/
  binary,     \* the build of settings.llama_server_bin
  install,    \* _status["state"]
  call,       \* call[c]: operation, build, step and the file as it was read
  calls,      \* requests so far, the clock of installed_at
  spoilt,     \* history: requests overlapped, a crash tore the file or a listed
              \* folder or came between folder and file, or a listed build was
              \* reinstalled from a bad archive
  cut         \* history: a crash cut a request

vars == <<installed, folders, binary, install, call, calls, spoilt, cut>>

NoFile == [active |-> None, stamp |-> [b \in Builds |-> 0]]
Listed(f) == {b \in Builds : f.stamp[b] # 0}
Fresh == [op |-> None, build |-> None, step |-> "idle", read |-> NoFile]

Init ==
  /\ installed = NoFile /\ folders = {} /\ binary = None /\ install = "idle"
  /\ call = [c \in Callers |-> Fresh] /\ calls = 0
  /\ spoilt = FALSE /\ cut = FALSE

Busy == {c \in Callers : call[c].step # "idle"}
Step(c, s) == call' = [call EXCEPT ![c].step = s]
StepRead(c, s) == call' = [call EXCEPT ![c].step = s, ![c].read = installed]
Over(c) == call' = [call EXCEPT ![c] = Fresh]

\* apply_active_to_settings: a build that is not there changes nothing.
Applied == IF installed.active \in folders THEN installed.active ELSE binary

-----------------------------------------------------------------------------
Begin(c) ==
  /\ call[c].step = "idle"
  /\ \E o \in {"install", "activate", "remove"}, b \in Builds :
       /\ o = "install" => install # "running"
       /\ install' = IF o = "install" THEN "running" ELSE install
       /\ call' = [call EXCEPT ![c] =
            [op |-> o, build |-> b, step |-> IF o = "install" THEN "fetch" ELSE "read", read |-> NoFile]]
  /\ calls < MaxCalls /\ calls' = calls + 1
  /\ spoilt' = (spoilt \/ Busy # {})
  /\ UNCHANGED <<installed, folders, binary, cut>>

\* No release, no asset, no network or an archive that is refused.
FetchFails(c) ==
  /\ call[c].step = "fetch"
  /\ install' = "error" /\ Over(c)
  /\ UNCHANGED <<installed, folders, binary, calls, spoilt, cut>>

\* register_version: an old folder of the same build goes first.
Clear(c) ==
  /\ call[c].step = "fetch"
  /\ folders' = folders \ {call[c].build} /\ Step(c, "move")
  /\ UNCHANGED <<installed, binary, install, calls, spoilt, cut>>

Move(c) ==
  /\ call[c].step = "move"
  /\ folders' = folders \cup {call[c].build} /\ Step(c, "read")
  /\ UNCHANGED <<installed, binary, install, calls, spoilt, cut>>

\* The archive has no llama-server.
MoveFails(c) ==
  /\ call[c].step = "move"
  /\ install' = "error" /\ Over(c)
  /\ spoilt' = (spoilt \/ call[c].build \in Listed(installed))
  /\ UNCHANGED <<installed, folders, binary, calls, cut>>

\* Mutant: the active build can be removed.
ReadUnguarded(c) ==
  /\ call[c].step = "read"
  /\ IF call[c].op # "install" /\ call[c].build \notin Listed(installed) THEN Over(c)
     ELSE StepRead(c, IF call[c].op = "remove" THEN "erase" ELSE "write")
  /\ UNCHANGED <<installed, folders, binary, install, calls, spoilt, cut>>

\* An unknown build, or the removal of the active one, is refused.
Read(c) ==
  /\ call[c].step = "read"
  /\ LET b == call[c].build
         bad == \/ call[c].op # "install" /\ b \notin Listed(installed)
                \/ call[c].op = "remove" /\ b = installed.active
     IN IF bad THEN Over(c)
        ELSE StepRead(c, IF call[c].op = "remove" THEN "erase" ELSE "write")
  /\ UNCHANGED <<installed, folders, binary, install, calls, spoilt, cut>>

\* remove deletes the folder before it writes.
Erase(c) ==
  /\ call[c].step = "erase"
  /\ folders' = folders \ {call[c].build} /\ Step(c, "write")
  /\ UNCHANGED <<installed, binary, install, calls, spoilt, cut>>

\* The file is written from what was read.
Write(c) ==
  /\ call[c].step = "write"
  /\ LET b == call[c].build
         f == call[c].read
     IN CASE call[c].op = "install" ->
               /\ installed' = [active |-> b, stamp |-> [f.stamp EXCEPT ![b] = calls]]
               /\ Step(c, "prune")
          [] call[c].op = "activate" ->
               installed' = [f EXCEPT !.active = b] /\ Step(c, "apply")
          [] call[c].op = "remove" ->
               installed' = [f EXCEPT !.stamp[b] = 0] /\ Over(c)
  /\ UNCHANGED <<folders, binary, install, calls, spoilt, cut>>

\* Mutant: one build too many.
KeptOneMore(f) ==
  {b \in Listed(f) : Cardinality({x \in Listed(f) : f.stamp[x] > f.stamp[b]}) <= Keep}

\* prune: the active build claims a slot, the newest the others.
Kept(f) ==
  LET own == {f.active} \cap Listed(f)
      newer(b) == {x \in Listed(f) \ own : f.stamp[x] > f.stamp[b]}
  IN own \cup {b \in Listed(f) \ own : Cardinality(newer(b)) < Keep - Cardinality(own)}

PruneReads(c) ==
  /\ call[c].step = "prune"
  /\ StepRead(c, IF Cardinality(Listed(installed)) <= Keep THEN "apply" ELSE "drop")
  /\ UNCHANGED <<installed, folders, binary, install, calls, spoilt, cut>>

PruneDrops(c) ==
  /\ call[c].step = "drop"
  /\ folders' = folders \ (Listed(call[c].read) \ Kept(call[c].read))
  /\ Step(c, "rewrite")
  /\ UNCHANGED <<installed, binary, install, calls, spoilt, cut>>

PruneWrites(c) ==
  /\ call[c].step = "rewrite"
  /\ LET f == call[c].read IN
       installed' = [f EXCEPT !.stamp = [b \in Builds |-> IF b \in Kept(f) THEN f.stamp[b] ELSE 0]]
  /\ Step(c, "apply")
  /\ UNCHANGED <<folders, binary, install, calls, spoilt, cut>>

\* The settings follow; an install verifies the build and reports.
Apply(c) ==
  /\ call[c].step = "apply"
  /\ binary' = Applied
  /\ install' = IF call[c].op = "install" THEN "done" ELSE install
  /\ Over(c)
  /\ UNCHANGED <<installed, folders, calls, spoilt, cut>>

\* The application dies and starts again.  write_text may have truncated the
\* file, which then reads as empty; a folder may be half moved.
Restart ==
  /\ \/ /\ UNCHANGED installed
        /\ spoilt' = (spoilt \/ \E c \in Busy :
             \/ call[c].step = "move" /\ call[c].build \in Listed(installed)
             \/ call[c].step = "write" /\ call[c].op = "remove"
             \/ call[c].step = "rewrite")
     \/ /\ \E c \in Busy : call[c].step \in {"write", "rewrite"}
        /\ installed' = NoFile /\ spoilt' = TRUE
  /\ cut' = (cut \/ Busy # {})
  /\ call' = [c \in Callers |-> Fresh]
  /\ install' = "idle"
  /\ binary' = IF installed'.active \in folders THEN installed'.active ELSE None
  /\ UNCHANGED <<folders, calls>>

Next ==
  \/ \E c \in Callers :
       \/ Begin(c) \/ FetchFails(c) \/ Clear(c) \/ Move(c) \/ MoveFails(c) \/ Read(c)
       \/ Erase(c) \/ Write(c) \/ PruneReads(c) \/ PruneDrops(c) \/ PruneWrites(c) \/ Apply(c)
  \/ Restart

Spec == Init /\ [][Next]_vars

-----------------------------------------------------------------------------
(* Properties                                                              *)

\* Files, folders and requests have their types; one install runs.
TypeOK ==
  /\ installed.active \in Builds \cup {None} /\ installed.stamp \in [Builds -> 0..MaxCalls]
  /\ folders \subseteq Builds /\ binary \in Builds \cup {None}
  /\ install \in {"idle", "running", "done", "error"} /\ calls \in 0..MaxCalls
  /\ \A c \in Busy : call[c].op \in {"install", "activate", "remove"} /\ call[c].build \in Builds
  /\ Cardinality({c \in Busy : call[c].op = "install"}) <= 1

Replacing(b) == \E c \in Busy : call[c].step = "move" /\ call[c].build = b

\* llama_manager's promise, "the active build is never pruned", and what the
\* launch needs: unless requests overlapped, the active build is on disk, and
\* between requests it is the one the settings name.
ActiveOnDisk ==
  ~spoilt /\ installed.active # None =>
    /\ installed.active \in folders \/ Replacing(installed.active)
    /\ Busy = {} => binary = installed.active

\* Between requests at most Keep builds take space, and one can roll back to each
\* of them: unless requests overlapped or a crash cut one, the folders are there.
BuildsBounded ==
  ~spoilt /\ ~cut /\ Busy = {} =>
    /\ Cardinality(Listed(installed)) <= Keep
    /\ Listed(installed) \subseteq folders
=============================================================================
