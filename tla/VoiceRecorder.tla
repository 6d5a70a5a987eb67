---------------------------- MODULE VoiceRecorder ----------------------------
(***************************************************************************)
(* Recording a live voice session: a recording runs in the session object, *)
(* its worker adds the chunks it plays, a request to stop waits for the    *)
(* last of them and writes the files, and downloads export them as MP3.    *)
(* The n-th chunk that a session plays is n.                               *)
(***************************************************************************)
EXTENDS Naturals, Sequences, FiniteSets

CONSTANTS
  MaxSessions, MaxChunks, MaxTakes,  \* bounds: sessions, chunks of each, recordings
  Stoppers,                          \* requests to stop a recording
  Exporters,                         \* requests for the MP3 of a recording
  None

Sessions == 1..MaxSessions
Takes == 1..MaxTakes

RecorderAssumption ==
  /\ {MaxSessions, MaxChunks, MaxTakes} \subseteq Nat
  /\ None \notin Sessions \cup Takes /\ None \notin {"none", "part"}

VARIABLES
  onAir,     \* _SESSION, or None
  sessions,  \* number of sessions so far
  halting,   \* sessions that have been asked to stop
  quiet,     \* sessions whose worker has ended
  plays,     \* per session: the chunks played
  take,      \* per session: the number of its recording under way, or None
  frames,    \* per session: the chunks that recording has kept
  overtime,  \* per session: MAX_RECORD_SECONDS have passed
  begun,     \* history: where each recording began
  stops,     \* the requests to stop
  saved,     \* the recordings on disk: number, where it ended, chunks
  mp3,       \* per recording: its MP3, "none", "part" or "whole"
  exports,   \* the requests for an MP3
  crowded    \* history: recordings whose MP3 two requests wrote, or a crash cut

vars == <<onAir, sessions, halting, quiet, plays, take, frames, overtime, begun, stops, saved, mp3,
          exports, crowded>>

air == <<onAir, sessions, halting>>
recording == <<quiet, plays, take, frames, overtime, begun>>
files == <<saved, mp3, exports, crowded>>

NoStop == [at |-> "new", session |-> None, take |-> None, end |-> 0, chunks |-> <<>>]
NoExport == [at |-> "new", take |-> None, served |-> None]

Init ==
  /\ onAir = None /\ sessions = 0 /\ halting = {} /\ quiet = {}
  /\ plays = [s \in Sessions |-> 0]
  /\ take = [s \in Sessions |-> None]
  /\ frames = [s \in Sessions |-> <<>>]
  /\ overtime = [s \in Sessions |-> FALSE]
  /\ begun = <<>>
  /\ stops = [q \in Stoppers |-> NoStop]
  /\ saved = {}
  /\ mp3 = [t \in Takes |-> "none"]
  /\ exports = [e \in Exporters |-> NoExport]
  /\ crowded = {}

-----------------------------------------------------------------------------

StartSession ==
  /\ onAir = None /\ sessions < MaxSessions
  /\ sessions' = sessions + 1 /\ onAir' = sessions + 1
  /\ UNCHANGED <<halting, recording, stops, files>>

\* stop() ends the worker; the session is the current one until it returns.
HaltSession ==
  /\ onAir # None /\ onAir \notin halting
  /\ halting' = halting \cup {onAir}
  /\ UNCHANGED <<onAir, sessions, recording, stops, files>>

SessionOver ==
  /\ onAir \in halting
  /\ onAir' = None
  /\ UNCHANGED <<sessions, halting, recording, stops, files>>

\* _record_chunk.  A recording that is too long ends here, and nobody saves it.
\* The worker of a session that stops may be at a chunk, also when stop has
\* given up waiting for it.
PlayChunk(s) ==
  /\ s <= sessions /\ s \notin quiet /\ plays[s] < MaxChunks
  /\ plays' = [plays EXCEPT ![s] = @ + 1]
  /\ quiet' = IF s \in halting THEN quiet \cup {s} ELSE quiet
  /\ frames' = [frames EXCEPT ![s] = IF take[s] # None /\ ~overtime[s] THEN Append(@, plays'[s]) ELSE @]
  /\ take' = [take EXCEPT ![s] = IF overtime[s] THEN None ELSE @]
  /\ UNCHANGED <<air, overtime, begun, stops, files>>

TimePasses(s) ==
  /\ take[s] # None /\ ~overtime[s]
  /\ overtime' = [overtime EXCEPT ![s] = TRUE]
  /\ UNCHANGED <<air, quiet, plays, take, frames, begun, stops, files>>

\* A fault: start_recording without emptying the frames.
StartOnOldFrames ==
  /\ onAir # None /\ Len(begun) < MaxTakes
  /\ take[onAir] = None
  /\ take' = [take EXCEPT ![onAir] = Len(begun) + 1]
  /\ overtime' = [overtime EXCEPT ![onAir] = FALSE]
  /\ begun' = Append(begun, plays[onAir])
  /\ UNCHANGED <<air, quiet, plays, frames, stops, files>>

StartRecording ==
  /\ onAir # None /\ Len(begun) < MaxTakes
  /\ take[onAir] = None
  /\ take' = [take EXCEPT ![onAir] = Len(begun) + 1]
  /\ frames' = [frames EXCEPT ![onAir] = <<>>]
  /\ overtime' = [overtime EXCEPT ![onAir] = FALSE]
  /\ begun' = Append(begun, plays[onAir])
  /\ UNCHANGED <<air, quiet, plays, stops, files>>

\* The first look; then the grace period in which the last chunk arrives.
AskToStop(q) ==
  /\ stops[q].at = "new" /\ onAir # None
  /\ take[onAir] # None
  /\ stops' = [stops EXCEPT ![q].at = "grace", ![q].session = onAir]
  /\ UNCHANGED <<air, recording, files>>

\* The second look takes the recording that runs by then.
TakeRecording(q) ==
  LET s == stops[q].session IN
  /\ stops[q].at = "grace"
  /\ take[s] # None
  /\ stops' = [stops EXCEPT ![q] = [@ EXCEPT !.at = "write", !.take = take[s], !.end = plays[s],
                                             !.chunks = frames[s]]]
  /\ take' = [take EXCEPT ![s] = None]
  /\ frames' = [frames EXCEPT ![s] = <<>>]
  /\ UNCHANGED <<air, quiet, plays, overtime, begun, files>>

TakenAway(q) ==
  /\ stops[q].at = "grace" /\ take[stops[q].session] = None
  /\ stops' = [stops EXCEPT ![q].at = "done"]
  /\ UNCHANGED <<air, recording, files>>

WriteRecording(q) ==
  /\ stops[q].at = "write"
  /\ saved' = saved \cup {[by |-> q, take |-> stops[q].take, end |-> stops[q].end, chunks |-> stops[q].chunks]}
  /\ stops' = [stops EXCEPT ![q].at = "done"]
  /\ UNCHANGED <<air, recording, mp3, exports, crowded>>

\* The answer has no token, whatever files there are.
WriteFails(q) ==
  /\ stops[q].at = "write"
  /\ stops' = [stops EXCEPT ![q].at = "done"]
  /\ UNCHANGED <<air, recording, files>>

-----------------------------------------------------------------------------
(* _ensure_mp3: an MP3 at least as new as its WAV is served as it is.      *)

Exporting(t) == {e \in Exporters : exports[e].at \in {"read", "write"} /\ exports[e].take = t}

AskMp3(e, t) ==
  /\ exports[e].at = "new" /\ \E r \in saved : r.take = t
  /\ exports' = [exports EXCEPT ![e] = IF mp3[t] = "none"
                                       THEN [at |-> "read", take |-> t, served |-> None]
                                       ELSE [at |-> "done", take |-> t, served |-> mp3[t]]]
  /\ crowded' = IF Exporting(t) = {} THEN crowded ELSE crowded \cup {t}
  /\ UNCHANGED <<air, recording, stops, saved, mp3>>

\* The recording has been read; the MP3 is opened, and emptied if it is there.
BeginMp3(e) ==
  /\ exports[e].at = "read"
  /\ exports' = [exports EXCEPT ![e].at = "write"]
  /\ mp3' = [mp3 EXCEPT ![exports[e].take] = "part"]
  /\ UNCHANGED <<air, recording, stops, saved, crowded>>

EndMp3(e) ==
  LET t == exports[e].take IN
  /\ exports[e].at = "write"
  /\ mp3' = [mp3 EXCEPT ![t] = IF @ = "part" THEN "whole" ELSE @]
  /\ exports' = [exports EXCEPT ![e].at = "done", ![e].served = mp3'[t]]
  /\ UNCHANGED <<air, recording, stops, saved, crowded>>

\* The codec fails: the file goes, whoever has written it.
Mp3Fails(e) ==
  /\ exports[e].at \in {"read", "write"}
  /\ mp3' = [mp3 EXCEPT ![exports[e].take] = "none"]
  /\ exports' = [exports EXCEPT ![e].at = "done"]
  /\ UNCHANGED <<air, recording, stops, saved, crowded>>

\* The process ends: sessions and requests are gone, files stay.
Restart ==
  /\ onAir # None
  /\ onAir' = None /\ halting' = 1..sessions /\ quiet' = 1..sessions
  /\ take' = [s \in Sessions |-> None]
  /\ stops' = [q \in Stoppers |-> [stops[q] EXCEPT !.at = IF @ = "new" THEN @ ELSE "done"]]
  /\ exports' = [e \in Exporters |-> [exports[e] EXCEPT !.at = IF @ = "new" THEN @ ELSE "done"]]
  /\ crowded' = crowded \cup {t \in Takes : Exporting(t) # {}}
  /\ UNCHANGED <<sessions, plays, frames, overtime, begun, saved, mp3>>

Next ==
  \/ StartSession \/ HaltSession \/ SessionOver \/ StartRecording \/ Restart
  \/ \E s \in Sessions : PlayChunk(s) \/ TimePasses(s)
  \/ \E q \in Stoppers :
       AskToStop(q) \/ TakeRecording(q) \/ TakenAway(q) \/ WriteRecording(q) \/ WriteFails(q)
  \/ \E e \in Exporters :
       (\E t \in Takes : AskMp3(e, t)) \/ BeginMp3(e) \/ EndMp3(e) \/ Mp3Fails(e)

Spec == Init /\ [][Next]_vars

-----------------------------------------------------------------------------

TypeOK ==
  /\ onAir \in {None} \cup Sessions /\ sessions \in 0..MaxSessions /\ quiet \subseteq halting /\ halting \subseteq Sessions
  /\ \A s \in Sessions : /\ plays[s] \in 0..MaxChunks /\ take[s] \in {None} \cup Takes
                         /\ overtime[s] \in BOOLEAN
  /\ \A q \in Stoppers : stops[q].at \in {"new", "grace", "write", "done"}
  /\ \A t \in Takes : mp3[t] \in {"none", "part", "whole"}
  /\ \A e \in Exporters : exports[e].at \in {"new", "read", "write", "done"}

\* A recording that is saved holds every chunk its session played from its start
\* to its end and none of another, also after one that ran out of time, and it
\* is saved once (start_recording, _record_chunk, stop_recording).
TakesWhole ==
  \A r \in saved :
    /\ r.chunks = [i \in 1..(r.end - begun[r.take]) |-> begun[r.take] + i]
    /\ \A s \in saved : s.take = r.take => s = r

\* An MP3 is served whole, also after exports that failed, unless two requests
\* export a recording at a time or a crash cuts an export: the file is written
\* where it is served from (_ensure_mp3).
ServedWhole ==
  \A e \in Exporters : exports[e].served \in {"none", "part"} => exports[e].take \in crowded

=============================================================================
