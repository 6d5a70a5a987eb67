---------------------------- MODULE VoiceExtract ----------------------------
(***************************************************************************)
(* The models that the threads of a conversion and of the live session     *)
(* share, each opened by the first pass that needs it and without a lock:  *)
(* the denoiser (denoise.py), ContentVec of the loaded voice (features.py) *)
(* and the extractor of the pitch, kept by its detector (f0.py).  Each     *)
(* open sets its fields one after the other.                               *)
(***************************************************************************)
EXTENDS Naturals, FiniteSets, Sequences, SequencesExt

CONSTANTS
  Threads,    \* threads that run passes
  MaxPasses,  \* bound on the passes of a thread
  MaxFaults,  \* bound on the opens that fail
  None

ExtractAssumption == {MaxPasses, MaxFaults} \subseteq Nat /\ IsFiniteSet(Threads) /\ None \notin Threads

VARIABLES
  set,    \* the fields of each model that are set
  opens,  \* how often a model was opened
  cache,  \* _EXTRACTOR_CACHE: the thread whose extractor is kept
  thread, \* each thread: its model, its step, its open and its passes
  mine,   \* the extractor a thread has in hand
  raced,  \* history: models that two threads were opening at a time
  faults

vars == <<set, opens, cache, thread, mine, raced, faults>>

\* The models of a pass in the order it needs them.
Order == <<"denoiser", "content", "pitch">>
Models == ToSet(Order)

\* The fields in the order in which _load sets them.
Fields(m) ==
  CASE m = "denoiser" -> <<"session_1", "session_2", "io", "state">>
    [] m = "content" -> <<"session", "names", "input">>
    [] m = "pitch" -> <<"impl">>

\* Mutant: either session will do.
LooksEither(m) == IF m = "denoiser" THEN {"session_1"} ELSE {Head(Fields(m))}

\* The fields that _load looks at.
Looks(m) == IF m = "denoiser" THEN {"session_1", "session_2"} ELSE {Head(Fields(m))}

Has(t, m) == IF m = "pitch" THEN set[m][mine[t]] ELSE set[m][None]
Owner(t, m) == IF m = "pitch" THEN mine[t] ELSE None

Init ==
  /\ set = [m \in Models |-> [o \in Threads \cup {None} |-> {}]]
  /\ opens = [m \in Models |-> 0]
  /\ cache = None
  /\ thread = [t \in Threads |-> [at |-> "idle", model |-> 1, field |-> 1, passes |-> 0]]
  /\ mine = [t \in Threads |-> None]
  /\ raced = {} /\ faults = 0

-----------------------------------------------------------------------------

Goto(t, s) == thread' = [thread EXCEPT ![t].at = s]
Model(t) == Order[thread[t].model]
Opening(m) == {t \in Threads : thread[t].at = "open" /\ Model(t) = m}

\* A pass of convert_audio, with the denoiser or without it.
Begin(t, denoise) ==
  /\ thread[t].at = "idle" /\ thread[t].passes < MaxPasses
  /\ thread' = [thread EXCEPT ![t] = [at |-> "look", model |-> IF denoise THEN 1 ELSE 2, field |-> 1, passes |-> @.passes + 1]]
  /\ UNCHANGED <<set, opens, cache, mine, raced, faults>>

\* create_f0_extractor, whose look and store are two steps.
FindExtractor(t) ==
  /\ thread[t].at = "look" /\ Model(t) = "pitch" /\ mine[t] = None
  /\ IF cache # None THEN mine' = [mine EXCEPT ![t] = cache] /\ UNCHANGED thread
     ELSE mine' = mine /\ Goto(t, "keep")
  /\ UNCHANGED <<set, opens, cache, raced, faults>>

\* Mutant: the extractor is not kept.
KeepExtractorLost(t) ==
  /\ thread[t].at = "keep"
  /\ cache' = cache /\ mine' = [mine EXCEPT ![t] = t] /\ Goto(t, "look")
  /\ set' = [set EXCEPT !["pitch"][t] = {}]
  /\ UNCHANGED <<opens, raced, faults>>

KeepExtractor(t) ==
  /\ thread[t].at = "keep"
  /\ cache' = t /\ mine' = [mine EXCEPT ![t] = t] /\ Goto(t, "look")
  /\ set' = [set EXCEPT !["pitch"][t] = {}]
  /\ UNCHANGED <<opens, raced, faults>>

Ready(t) == Model(t) # "pitch" \/ mine[t] # None

Look(t) ==
  /\ thread[t].at = "look" /\ Ready(t)
  /\ LET m == Model(t)
         whole == Looks(m) \subseteq Has(t, m)
     IN /\ thread' = [thread EXCEPT ![t].at = IF whole THEN "run" ELSE "open", ![t].field = 1]
        /\ opens' = IF whole THEN opens ELSE [opens EXCEPT ![m] = @ + 1]
        /\ raced' = IF Opening(m) # {} THEN raced \cup {m} ELSE raced
  /\ UNCHANGED <<set, cache, mine, faults>>

\* The next field; with the last one the model is open.
SetField(t) ==
  /\ thread[t].at = "open"
  /\ LET m == Model(t)
         k == thread[t].field
     IN /\ set' = [set EXCEPT ![m][Owner(t, m)] = @ \cup {Fields(m)[k]}]
        /\ thread' = [thread EXCEPT ![t].at = IF k = Len(Fields(m)) THEN "run" ELSE "open", ![t].field = k + 1]
  /\ UNCHANGED <<opens, cache, mine, raced, faults>>

\* A session cannot be opened: the pass fails with what is set so far.
OpenFails(t) ==
  /\ thread[t].at = "open" /\ faults < MaxFaults
  /\ Fields(Model(t))[thread[t].field] \in {"session_1", "session_2", "session", "impl"}
  /\ faults' = faults + 1 /\ Goto(t, "idle") /\ mine' = [mine EXCEPT ![t] = None]
  /\ UNCHANGED <<set, opens, cache, raced>>

Whole(t) == Has(t, Model(t)) = ToSet(Fields(Model(t)))

\* The asserts of _process_hop and extract; an input rank or type that is not
\* set yet is refused by the session.
RunModel(t) ==
  /\ thread[t].at = "run"
  /\ IF ~Whole(t) THEN Goto(t, "failed") /\ UNCHANGED mine
     ELSE IF thread[t].model = Len(Order) THEN Goto(t, "idle") /\ mine' = [mine EXCEPT ![t] = None]
     ELSE thread' = [thread EXCEPT ![t].at = "look", ![t].model = @ + 1] /\ UNCHANGED mine
  /\ UNCHANGED <<set, opens, cache, raced, faults>>

\* The request answers 500; the session counts an error and goes on.
Recover(t) ==
  /\ thread[t].at = "failed"
  /\ Goto(t, "idle")
  /\ UNCHANGED <<set, opens, cache, mine, raced, faults>>

Next ==
  \E t \in Threads :
    \/ (\E denoise \in BOOLEAN : Begin(t, denoise))
    \/ FindExtractor(t) \/ KeepExtractor(t) \/ Look(t) \/ SetField(t)
    \/ OpenFails(t) \/ RunModel(t) \/ Recover(t)

Spec == Init /\ [][Next]_vars

-----------------------------------------------------------------------------

\* The steps of the threads and the fields.
TypeOK ==
  /\ \A m \in Models, o \in Threads \cup {None} : set[m][o] \subseteq ToSet(Fields(m))
  /\ cache \in Threads \cup {None} /\ raced \subseteq Models /\ faults \in 0..MaxFaults
  /\ \A t \in Threads :
       /\ thread[t].at \in {"idle", "look", "keep", "open", "run", "failed"}
       /\ mine[t] \in Threads \cup {None}
       /\ thread[t].at \in {"open", "run"} /\ Model(t) = "pitch" => mine[t] # None

\* A pass fails on a model that is half open only where two threads opened it
\* at a time: an open that failed in the middle is made good by the next pass
\* (_load of DtlnDenoiser and ContentVec).
HalfOpenRaced == \A t \in Threads : thread[t].at = "failed" => Model(t) \in raced

\* A model is opened once and again after each open that failed, but for
\* models that threads opened at a time; and each thread opens the extractor of
\* the pitch that it has made, and of two threads one that of the other: not
\* one for every chunk (create_f0_extractor, _load).
OpenedOnce ==
  /\ \A m \in Models \ (raced \cup {"pitch"}) : opens[m] <= 1 + faults
  /\ opens["pitch"] <= Cardinality({{t, o} : t \in Threads, o \in Threads}) + faults

=============================================================================
