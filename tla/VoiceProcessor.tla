--------------------------- MODULE VoiceProcessor ---------------------------
(***************************************************************************)
(* How a live session turns what it captures into blocks to convert and    *)
(* blocks to play (ChunkProcessor of voice_engine/realtime_processor.py,   *)
(* the streaming denoiser and the squelch gate): two branches of the same  *)
(* samples, one denoised for the content and one raw for the pitch, a      *)
(* sliding context of both with its noise, and the seam between blocks.    *)
(*                                                                         *)
(* A sample at 16 kHz is its number, 0 a sample of silence that nobody     *)
(* captured; a unit stands for a feature frame, and the rate of the model  *)
(* for that of the analysis.  Filters, networks and resamplers keep the    *)
(* number of a sample; the chunk that the input resampler makes of a       *)
(* captured one has one of the lengths Pieces.                             *)
(***************************************************************************)
EXTENDS Integers, Sequences, SequencesExt

CONSTANTS
  None,
  Pieces,       \* lengths of the 16 kHz piece of a chunk, 0 while soxr fills
  Hop, Frame,   \* hop_size and frame_size of the denoiser, Hop divides Frame
  Block,        \* _block_16k, from the first chunk of the session on
  Extras,       \* lengths of context that extra_convert_size can ask for
  Fades,        \* cross_fade_overlap_size, at most half a block
  Search,       \* SOLA_SEARCH_MS
  Hold,         \* silence_hold_ms in blocks
  Flush,        \* POST_SPEECH_FLUSH_MS in blocks, at least one
  MaxSamples    \* bound: samples captured

ProcessorAssumption ==
  /\ {Hop, Frame, Block, Flush} \subseteq Nat \ {0}
  /\ Pieces \subseteq Nat /\ Extras \subseteq Nat /\ Fades \subseteq 0..(Block \div 2)
  /\ {Search, Hold, MaxSamples} \subseteq Nat /\ Hop < Frame

VARIABLES
  captured,     \* samples that have come in
  denoiseMode,  \* _denoise_mode
  denoiser,     \* primed, its delay line, _pending_input, _stream_drop
  pending,      \* _denoise_raw_pending and _denoise_f0_pending
  fifo,         \* _fifo_16k and _f0_fifo_16k
  inBlocks,     \* process is in its loop over the blocks
  context,      \* _context_16k and _f0_context_16k
  noise,        \* _noise_ring and _source_noise_ring: the frame each was drawn for
  blocks,       \* blocks taken from the fifos
  gate,         \* _open, _below_ms (in blocks) and _disabled of the squelch gate
  tailFlush,    \* _tail_flush_remaining
  sola,         \* _sola_buf: where it starts and how long it is, or None
  played,       \* history: the last position emitted
  quiet,        \* history: blocks since the last one over the threshold
  idle,         \* history: the last block was not converted
  cuts,         \* history: the first sample after the denoiser was turned off
  primes        \* history: the first sample each denoiser stream has heard

vars == <<captured, denoiseMode, denoiser, pending, fifo, inBlocks, context, noise,
          blocks, gate, tailFlush, sola, played, quiet, idle, cuts, primes>>
stream == <<captured, denoiseMode, denoiser, pending, cuts, primes>>
seam == <<sola, played>>

Silence(n) == [i \in 1..n |-> 0]
Lesser(a, b) == IF a <= b THEN a ELSE b
HoldOrOne == IF Hold = 0 THEN 1 ELSE Hold
LastOf(s, n) == SubSeq(s, Len(s) - n + 1, Len(s))
From(s, n) == SubSeq(s, n + 1, Len(s))
Upto(s, n) == SubSeq(s, 1, n)

(***************************************************************************)
(* The denoiser.  A hop comes out when the frames over it are complete: the *)
(* overlap-add buffer delays the signal by a frame less a hop.  The first  *)
(* frame it ever hears is a copy of the first piece, and as many samples   *)
(* are dropped from what comes out.                                        *)
(***************************************************************************)
ResetDenoiser == [primed |-> FALSE, delayed |-> Silence(Frame - Hop), input |-> <<>>, drop |-> 0]

WarmUp(piece) == [i \in 1..Frame |-> piece[((i - 1) % Len(piece)) + 1]]

Primed(d, piece) ==
  IF d.primed THEN [d EXCEPT !.input = @ \o piece]
  ELSE [d EXCEPT !.primed = TRUE, !.drop = Frame, !.input = @ \o WarmUp(piece) \o piece]

\* process_stream: what comes out of the piece, and the denoiser after it.
ProcessStream(d, piece) ==
  LET ready == Primed(d, piece)
      hops == (Len(ready.input) \div Hop) * Hop
      line == ready.delayed \o Upto(ready.input, hops)
      dropped == Lesser(ready.drop, hops)
  IN [out |-> From(Upto(line, hops), dropped),
      denoiser |-> [ready EXCEPT !.delayed = From(line, hops), !.input = From(ready.input, hops),
                                 !.drop = @ - dropped]]

-----------------------------------------------------------------------------
Init ==
  /\ captured = 0 /\ denoiseMode \in {"off", "dtln"} /\ denoiser = ResetDenoiser
  /\ pending = [raw |-> <<>>, f0 |-> <<>>] /\ fifo = [content |-> <<>>, f0 |-> <<>>]
  /\ inBlocks = FALSE /\ context = [content |-> <<>>, f0 |-> <<>>] /\ noise = <<>> /\ blocks = 0
  /\ gate = [open |-> FALSE, below |-> 0, disabled |-> FALSE] /\ tailFlush = 0
  /\ sola = None /\ played = 0 /\ quiet = HoldOrOne + Flush /\ idle = FALSE /\ cuts = {} /\ primes = {}

\* What a branch holds of the content: the sample the denoiser gave, or the raw
\* one, and the raw one that is mixed with it; by says which, for the properties.
Content(clean, raw, mode) == [i \in 1..Len(clean) |-> [clean |-> clean[i], raw |-> raw[i], by |-> mode]]

\* The piece of a chunk that is not denoised: both branches get it as it is, and
\* what waited for the denoiser is given up.
FeedRaw(piece) ==
  /\ denoiseMode' = "off"
  /\ pending' = [raw |-> <<>>, f0 |-> <<>>]
  /\ cuts' = IF pending.f0 = <<>> THEN cuts ELSE cuts \cup {captured + 1}
  /\ fifo' = [content |-> fifo.content \o Content(piece, piece, "off"), f0 |-> fifo.f0 \o piece]
  /\ UNCHANGED <<denoiser, primes>>

\* A fault: the pitch branch is not held back while the denoiser is.
FeedDenoisedAhead(piece) ==
  LET done == ProcessStream(IF denoiseMode = "dtln" THEN denoiser ELSE ResetDenoiser, piece)
  IN /\ piece # <<>> /\ denoiseMode' = "dtln" /\ denoiser' = done.denoiser /\ UNCHANGED <<pending, cuts, primes>>
     /\ fifo' = [content |-> fifo.content \o Content(done.out, done.out, "dtln"), f0 |-> fifo.f0 \o piece]

\* The piece of a chunk that is denoised: as many samples of both branches go on
\* as the denoiser gives.
FeedDenoised(piece) ==
  LET fresh == IF denoiseMode = "dtln" THEN denoiser ELSE ResetDenoiser
      raw == pending.raw \o piece
      f0 == pending.f0 \o piece
      done == ProcessStream(fresh, piece)
      out == Upto(done.out, Lesser(Len(done.out), Len(raw)))
  IN /\ denoiseMode' = "dtln"
     /\ IF piece = <<>> THEN denoiser' = fresh /\ UNCHANGED <<pending, fifo, primes>>
        ELSE /\ denoiser' = done.denoiser
             /\ pending' = [raw |-> From(raw, Len(out)), f0 |-> From(f0, Len(out))]
             /\ fifo' = [content |-> fifo.content \o Content(out, Upto(raw, Len(out)), "dtln"),
                         f0 |-> fifo.f0 \o Upto(f0, Len(out))]
                /\ primes' = IF fresh.primed THEN primes ELSE primes \cup {captured + 1}
     /\ UNCHANGED cuts

\* process up to its loop, for a chunk whose piece has n samples, with the
\* setting of input_denoise that it finds.
Feed(n, mode) ==
  LET piece == [i \in 1..n |-> captured + i]
  IN /\ ~inBlocks /\ inBlocks' = TRUE
     /\ captured + n <= MaxSamples /\ captured' = captured + n
     /\ IF mode = "dtln" THEN FeedDenoised(piece) ELSE FeedRaw(piece)
     /\ UNCHANGED <<context, noise, blocks, gate, tailFlush, sola, played, quiet, idle>>

-----------------------------------------------------------------------------
(***************************************************************************)
(* _process_block.                                                         *)
(***************************************************************************)
Ready == Len(fifo.content) >= Block /\ Len(fifo.f0) >= Block

Blank == [clean |-> 0, raw |-> 0, by |-> "off"]

\* A context of n samples: padded or cropped at its head.
Resized(s, n, blank) == IF Len(s) < n THEN [i \in 1..(n - Len(s)) |-> blank] \o s ELSE LastOf(s, n)

\* New noise for the frames after the first and through the last.
Drawn(first, last) == [i \in 1..(last - first) |-> first + i]

\* The noise of n frames up to the last one that was converted.
ResizedNoise(n) ==
  LET last == blocks * Block
      keep == Lesser(Len(noise), n)
  IN Drawn(last - n, last - keep) \o LastOf(noise, keep)

\* The context slides by a block, and its noise with it.
Slide(n) ==
  LET frames == Upto(fifo.f0, Block)
  IN /\ context' = [content |-> From(Resized(context.content, n, Blank), Block) \o Upto(fifo.content, Block),
                    f0 |-> From(Resized(context.f0, n, 0), Block) \o frames]
     /\ noise' = From(ResizedNoise(n), Block) \o Drawn(blocks * Block, (blocks + 1) * Block)
     /\ fifo' = [content |-> From(fifo.content, Block), f0 |-> From(fifo.f0, Block)]
     /\ blocks' = blocks + 1

\* SquelchGate.update, for a block that is over the threshold, under it but not
\* by the hysteresis, or quiet; "off" is any block while the threshold is off.
Update(level) ==
  LET was == IF (level = "off") # gate.disabled THEN [open |-> level = "off", below |-> 0, disabled |-> level = "off"]
             ELSE gate
  IN IF level \in {"off", "loud"} THEN [was EXCEPT !.open = TRUE, !.below = 0]
     ELSE IF ~was.open THEN was
     ELSE IF level = "between" THEN [was EXCEPT !.below = 0]
     ELSE IF was.below + 1 >= Hold THEN [was EXCEPT !.open = FALSE, !.below = 0]
     ELSE [was EXCEPT !.below = @ + 1]

\* Whether a block is converted, and how many more will be after it.
Squelch(level) ==
  /\ gate' = Update(level)
  /\ tailFlush' = IF gate'.open THEN Flush ELSE IF tailFlush > 0 THEN tailFlush - 1 ELSE 0
  /\ idle' = (~gate'.open /\ tailFlush = 0)
  /\ quiet' = IF level \in {"off", "loud"} THEN 0
              ELSE IF gate.disabled THEN HoldOrOne  \* closed by the change
              ELSE Lesser(quiet + 1, HoldOrOne + Flush)

\* _stitch: a block is emitted from the last block, fade and search of what was
\* converted, and what follows it is kept for the next seam.
Stitch(fade, offset) ==
  LET last == blocks' * Block
      start == last - (Block + fade + Search) + offset
  IN IF fade = 0 THEN sola' = None /\ played' = last
     ELSE sola' = [start |-> start + Block, fade |-> fade] /\ played' = start + Block

\* The best alignment, 0 with nothing to align with.
Offsets(fade) ==
  IF sola = None THEN {0} ELSE IF sola.fade # fade \/ idle \/ idle' THEN {0} ELSE 0..Search

\* A block is taken from the fifos and converted, or silence in its place.
ProcessBlock(extra, level, fade) ==
  /\ inBlocks /\ Ready
  /\ Slide(extra + Block) /\ Squelch(level)
  /\ \E offset \in Offsets(fade) : Stitch(fade, offset)
  /\ UNCHANGED <<stream, inBlocks>>

\* The conversion fails: process is left, with the block taken and what it had
\* converted of the chunk given up.
ConvertFails(extra, level) ==
  /\ inBlocks /\ Ready
  /\ Slide(extra + Block) /\ Squelch(level) /\ ~idle'
  /\ inBlocks' = FALSE
  /\ UNCHANGED <<stream, seam>>

\* No block is left: the chunk has been processed.
ChunkDone == inBlocks /\ ~Ready /\ inBlocks' = FALSE
             /\ UNCHANGED <<stream, fifo, context, noise, blocks, gate, tailFlush, seam, quiet, idle>>

Levels == {"loud", "between", "quiet", "off"}

Next ==
  \/ \E n \in Pieces, mode \in {"off", "dtln"} : Feed(n, mode)
  \/ \E extra \in Extras, level \in Levels, fade \in Fades : ProcessBlock(extra, level, fade)
  \/ \E extra \in Extras, level \in Levels : ConvertFails(extra, level)
  \/ ChunkDone

Spec == Init /\ [][Next]_vars

-----------------------------------------------------------------------------
\* The values of the variables.
TypeOK ==
  /\ captured \in 0..MaxSamples /\ blocks \in 0..captured
  /\ denoiseMode \in {"off", "dtln"} /\ inBlocks \in BOOLEAN /\ idle \in BOOLEAN
  /\ \A i \in DOMAIN fifo.f0 : fifo.f0[i] \in 1..captured
  /\ gate \in [open : BOOLEAN, below : 0..Hold, disabled : BOOLEAN]
  /\ tailFlush \in 0..Flush /\ quiet \in 0..(HoldOrOne + Flush)
  /\ \/ sola = None
     \/ sola \in [start : (-(Block + Search))..captured, fade : Fades]
  /\ played <= captured /\ cuts \subseteq 1..(captured + 1) /\ primes \subseteq 1..captured

\* The samples of a branch, from the oldest in the context on.
Pitch == context.f0 \o fifo.f0 \o pending.f0
Raw == [i \in DOMAIN context.content |-> context.content[i].raw]
       \o [i \in DOMAIN fifo.content |-> fifo.content[i].raw] \o pending.raw

\* The raw copy and the pitch are taken from the same samples, whatever the
\* lengths of the pieces, and however often the denoiser is turned on and off in
\* between: each sample is taken once and in its order, and none is left out but
\* those that the denoiser held when it was turned off.
RawWithPitch ==
  /\ Raw = Pitch /\ Len(context.content) = Len(context.f0) /\ Len(fifo.content) = Len(fifo.f0)
  /\ \A i \in 1..(Len(Pitch) - 1) :
       Pitch[i] # 0 => Pitch[i + 1] = Pitch[i] + 1 \/ (Pitch[i + 1] > Pitch[i] /\ Pitch[i + 1] \in cuts)
  /\ captured > 0 /\ Pitch # <<>> => Pitch[Len(Pitch)] = captured \/ captured + 1 \in cuts

\* "The aligned analysis streams": the denoised content is not aligned with the
\* pitch but a frame less a hop late (384 samples), and by neither more nor less
\* for as long as the denoiser runs; until it has heard that much it gives
\* samples of the piece it was warmed up with.  What is not denoised is aligned
\* (DTLNDenoiser.process_stream, ChunkProcessor.process).
ContentLag ==
  LET all == context.content \o fifo.content
      lag == Frame - Hop
  IN \A i \in DOMAIN all :
       LET c == all[i] IN
         IF c.by = "off" THEN c.clean = c.raw
         ELSE \E p \in primes : IF p + lag <= c.raw THEN c.clean = c.raw - lag
                                ELSE p <= c.raw /\ p <= c.clean

\* "Newest frames keep their noise so the next conversions still re-synthesize
\* the overlap identically after a resize": every frame of the context is
\* synthesised with the noise drawn for it, whichever lengths the context has
\* had and whether the blocks before were converted, silent or failed.
NoisePinned == \A i \in DOMAIN noise : noise[i] = blocks * Block - Len(noise) + i

\* "The seam reference for the next block continues exactly where the emitted
\* audio stopped", also after blocks of silence and blocks that failed.
SeamContinues == sola # None => sola.start = played

\* A block is left out only after the hold and the flush: speech keeps its tail,
\* and a block between the thresholds does not close the gate.
TailFlushed == idle => quiet >= HoldOrOne + Flush
=============================================================================
