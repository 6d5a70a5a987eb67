----------------------------- MODULE VoiceStream -----------------------------
(***************************************************************************)
(* The audio path of one live voice session: the PortAudio callback and    *)
(* the conversion worker, each in a thread of its own, on their two rings  *)
(* and clocks.  A captured sample is its capture time; a sample that has   *)
(* none (pre-roll, converted or failed sound) is Sound.  There is no       *)
(* monitor device, and VoiceRecorder has what the worker records.          *)
(***************************************************************************)
EXTENDS Naturals, Sequences, FiniteSets

CONSTANTS
  Rate,         \* samples per second
  Chunk,        \* samples per conversion
  Blocks,       \* numbers of samples a callback may be given
  MaxCaptured,  \* bound on the captured samples
  None

StreamAssumption ==
  /\ {Rate, Chunk, MaxCaptured} \subseteq Nat \ {0}
  /\ Blocks \subseteq Nat \ {0}

Sound == 0

VARIABLES
  captured,   \* what the device has delivered
  input,      \* the ring from the callback to the worker
  output,     \* the ring from the worker to the callback
  pushed,     \* history: all that was ever pushed to output
  inMarks,    \* the clocks: index of a sample and its capture time
  outMarks,
  callback,   \* the callback and what it holds
  worker,     \* the worker and what it holds
  heard,      \* last measured capture time and the true one
  early,      \* history: the sample heard was played before its chunk was marked
  stopping    \* the session is asked to stop

vars == <<captured, input, output, pushed, inMarks, outMarks, callback, worker, heard, early, stopping>>

-----------------------------------------------------------------------------
(* The ring: a circular buffer with absolute positions.                    *)

NewRing(capacity) ==
  [buf |-> [i \in 0..(capacity - 1) |-> Sound], read |-> 0, write |-> 0, size |-> 0,
   readTotal |-> 0, writeTotal |-> 0]

Capacity(ring) == Cardinality(DOMAIN ring.buf)

Excess(size, limit) == IF size > limit THEN size - limit ELSE 0

\* A fault: drop_to without the absolute position.
SkipUncounted(ring, count) ==
  [ring EXCEPT !.read = (@ + count) % Capacity(ring), !.size = @ - count]

\* The oldest count samples leave.
Skip(ring, count) ==
  [ring EXCEPT !.read = (@ + count) % Capacity(ring), !.size = @ - count, !.readTotal = @ + count]

Push(ring, samples) ==
  LET capacity == Capacity(ring)
      whole == Len(samples) >= capacity
      kept == SubSeq(samples, Excess(Len(samples), capacity) + 1, Len(samples))
      total == ring.writeTotal + Len(samples)
      room == IF whole
              THEN [ring EXCEPT !.read = 0, !.write = 0, !.size = 0, !.readTotal = total - Len(kept)]
              ELSE Skip(ring, Excess(ring.size + Len(samples), capacity))
      place(i) == (i + capacity - room.write) % capacity
  IN IF samples = <<>> THEN ring
     ELSE [room EXCEPT !.buf = [i \in DOMAIN @ |-> IF place(i) < Len(kept) THEN kept[place(i) + 1] ELSE @[i]],
                       !.write = (@ + Len(kept)) % capacity,
                       !.size = @ + Len(kept),
                       !.writeTotal = total]

\* What pull returns: what there is, and silence for the rest.
Taken(ring, count) ==
  [k \in 1..count |-> IF k <= ring.size THEN ring.buf[(ring.read + k - 1) % Capacity(ring)] ELSE Sound]

Pull(ring, count) == Skip(ring, IF count < ring.size THEN count ELSE ring.size)

DropTo(ring, limit) == Skip(ring, Excess(ring.size, limit))

-----------------------------------------------------------------------------
(* The clock: marks at some positions, extrapolated in between.            *)

Mark(marks, index, time) == IF time = None THEN marks ELSE Append(marks, <<index, time>>)

\* Marks that a later one at or before the position replaces are dropped.
Relevant(marks, index) ==
  LET upTo == {i \in DOMAIN marks : marks[i][1] <= index}
      first == IF \E i \in upTo : i > 1 THEN CHOOSE i \in upTo : \A j \in upTo : j <= i ELSE 1
  IN SubSeq(marks, first, Len(marks))

Resolve(marks, index) ==
  LET left == Relevant(marks, index)
  IN IF left = <<>> \/ left[1][1] > index THEN None ELSE left[1][2] + (index - left[1][1])

-----------------------------------------------------------------------------

Preroll == [i \in 1..(2 * Chunk) |-> Sound]
IdleCallback == [at |-> "idle", index |-> 0, frames |-> 0, first |-> None]
IdleWorker == [at |-> "look", index |-> 0, time |-> None, chunk |-> <<>>]

\* start_session has returned: two chunks of pre-roll are in the output ring.
Init ==
  /\ captured = 0
  /\ input = NewRing(3 * Rate)
  /\ output = Push(NewRing(4 * Rate), Preroll)
  /\ pushed = Preroll
  /\ inMarks = <<>> /\ outMarks = <<>>
  /\ callback = IdleCallback /\ worker = IdleWorker
  /\ heard = None /\ early = FALSE
  /\ stopping = FALSE

\* One call of the callback: its samples go in, their first is marked, the
\* queue is bounded, and as many samples come out.
CallbackPush(n) ==
  /\ callback.at = "idle" /\ captured + n <= MaxCaptured
  /\ captured' = captured + n
  /\ input' = Push(input, [i \in 1..n |-> captured + i])
  /\ callback' = [at |-> "mark", index |-> input.writeTotal, frames |-> n, first |-> captured + 1]
  /\ UNCHANGED <<output, pushed, inMarks, outMarks, worker, heard, early, stopping>>

CallbackMark ==
  /\ callback.at = "mark"
  /\ inMarks' = Mark(inMarks, callback.index, callback.first)
  /\ callback' = [callback EXCEPT !.at = "drop"]
  /\ UNCHANGED <<captured, input, output, pushed, outMarks, worker, heard, early, stopping>>

CallbackDrop ==
  /\ callback.at = "drop"
  /\ input' = DropTo(input, 2 * Rate)
  /\ callback' = [callback EXCEPT !.at = "pull"]
  /\ UNCHANGED <<captured, output, pushed, inMarks, outMarks, worker, heard, early, stopping>>

\* What was pulled is in heard, its capture time still to be resolved.
CallbackPull ==
  /\ callback.at = "pull"
  /\ output' = Pull(output, callback.frames)
  /\ heard' = IF output.size = 0 THEN None ELSE [sample |-> Taken(output, 1)[1], measured |-> None]
  /\ callback' = [callback EXCEPT !.at = "measure", !.index = output.readTotal]
  /\ UNCHANGED <<captured, input, pushed, inMarks, outMarks, worker, early, stopping>>

\* A sample of the chunk that the worker has pushed and not marked yet is early.
CallbackMeasure ==
  /\ callback.at = "measure"
  /\ outMarks' = IF heard = None THEN outMarks ELSE Relevant(outMarks, callback.index)
  /\ heard' = IF heard = None THEN None
              ELSE [heard EXCEPT !.measured = Resolve(outMarks, callback.index)]
  /\ early' = (worker.at = "mark" /\ callback.index >= worker.index)
  /\ callback' = IdleCallback
  /\ UNCHANGED <<captured, input, output, pushed, inMarks, worker, stopping>>

-----------------------------------------------------------------------------
(* The worker.                                                             *)

WorkerLook ==
  /\ worker.at = "look"
  /\ worker' = [worker EXCEPT !.at = IF stopping THEN "ended" ELSE "pull"]
  /\ ~stopping => input.size >= Chunk
  /\ UNCHANGED <<captured, input, output, pushed, inMarks, outMarks, callback, heard, early, stopping>>

WorkerPull ==
  /\ worker.at = "pull"
  /\ worker' = [worker EXCEPT !.at = "resolve", !.chunk = Taken(input, Chunk), !.index = input.readTotal]
  /\ input' = Pull(input, Chunk)
  /\ UNCHANGED <<captured, output, pushed, inMarks, outMarks, callback, heard, early, stopping>>

WorkerResolve ==
  /\ worker.at = "resolve"
  /\ worker' = [worker EXCEPT !.at = "push", !.time = Resolve(inMarks, worker.index)]
  /\ inMarks' = Relevant(inMarks, worker.index)
  /\ UNCHANGED <<captured, input, output, pushed, outMarks, callback, heard, early, stopping>>

\* The chunk itself in pass-through; otherwise the blocks that have become
\* ready, or as much silence when the conversion fails.
Results(chunk) ==
  {chunk, <<>>, [i \in 1..Chunk |-> Sound], [i \in 1..(2 * Chunk) |-> Sound]}

WorkerPush(out) ==
  /\ worker.at = "push"
  /\ output' = Push(output, out)
  /\ pushed' = pushed \o out
  /\ worker' = [worker EXCEPT !.at = "mark", !.index = output.writeTotal]
  /\ UNCHANGED <<captured, input, inMarks, outMarks, callback, heard, early, stopping>>

WorkerMark ==
  /\ worker.at = "mark"
  /\ outMarks' = Mark(outMarks, worker.index, worker.time)
  /\ worker' = IdleWorker
  /\ UNCHANGED <<captured, input, output, pushed, inMarks, callback, heard, early, stopping>>

\* The worker ends at its next look, or stop gives up waiting for it.
StopSession ==
  /\ ~stopping /\ stopping' = TRUE
  /\ UNCHANGED <<captured, input, output, pushed, inMarks, outMarks, callback, worker, heard, early>>

-----------------------------------------------------------------------------

Next ==
  \/ \E n \in Blocks : CallbackPush(n)
  \/ CallbackMark \/ CallbackDrop \/ CallbackPull \/ CallbackMeasure
  \/ WorkerLook \/ WorkerPull \/ WorkerResolve
  \/ \E out \in Results(worker.chunk) : WorkerPush(out)
  \/ WorkerMark \/ StopSession

Spec == Init /\ [][Next]_vars

-----------------------------------------------------------------------------

TypeOK ==
  /\ captured \in 0..MaxCaptured
  /\ \A ring \in {input, output} :
       /\ {ring.read, ring.write} \subseteq DOMAIN ring.buf
       /\ ring.size \in 0..Capacity(ring)
       /\ ring.readTotal + ring.size = ring.writeTotal
  /\ early \in BOOLEAN /\ stopping \in BOOLEAN

\* Whatever overflows, is dropped or is pulled short, what a ring holds are
\* consecutive samples that end with the last one pushed, at the positions
\* its counters name: the clocks depend on it (_Ring.push, pull, drop_to).
RingsConsecutive ==
  /\ Len(pushed) = output.writeTotal /\ captured = input.writeTotal
  /\ \A k \in 1..input.size : Taken(input, input.size)[k] = input.readTotal + k
  /\ \A k \in 1..output.size : Taken(output, output.size)[k] = pushed[output.readTotal + k]

\* The measured latency is that of the sample which is heard, also after
\* chunks were dropped or overwritten, unless the sample was played before its
\* chunk was marked (_SampleClock, between the threads).
MeasuresWhatIsHeard ==
  (heard # None /\ callback.at = "idle" /\ ~early /\ heard.sample # Sound) =>
    heard.measured \in {None, heard.sample}

=============================================================================
