----------------------------- MODULE ImageEdit -----------------------------
(***************************************************************************)
(* What an image job's parameters become (image_diffusers.py, editing.py,  *)
(* generation.py, Anima's __call__): the size, the number of steps, the    *)
(* part of the schedule an edit runs, the canvas and mask of an outpaint,  *)
(* the progress shown, and what the image's metadata says of the edit.     *)
(***************************************************************************)
EXTENDS Naturals

CONSTANTS
  DefaultSteps,   \* settings.default_steps
  KindSteps,      \* [kind -> the default of the kinds that have their own]
  MinEffective,   \* settings.img2img_min_effective_steps
  Strengths, StepCounts, Widths, Batches,   \* values of the parameters
  Margins,        \* outpaint margins: <<left, right, top, bottom>>, in cells
  Shapes,         \* sizes of source images: <<width, height>>
  Wide, High,     \* the canvas, in cells
  None

EditAssumption ==
  /\ DefaultSteps \in Nat \ {0} /\ MinEffective \in Nat
  /\ \A k \in DOMAIN KindSteps : KindSteps[k] \in Nat \ {0}
  /\ StepCounts \subseteq Nat \ {0} /\ Batches \subseteq Nat \ {0}
  /\ Strengths \subseteq Nat /\ Widths \subseteq Nat
  /\ \A s \in Shapes : s[1] > 0 /\ s[2] > 0

VARIABLES
  req,     \* the job's parameters
  step,    \* what the backend does
  width,   \* the width it settles on
  index,   \* images of the batch that are done
  todo,    \* steps that the pipeline runs for this image
  taken,   \* steps it has run
  shown,   \* the last progress, in steps of the whole batch
  stop,    \* _stop
  canvas,  \* the outpaint's source cells and the cells its mask keeps
  meta     \* what the last image's metadata says

vars == <<req, step, width, index, todo, taken, shown, stop, canvas, meta>>

\* Kinds of model: families, and the checkpoints of one that differ.
Kinds == {"sdxl", "lightning", "turbo", "anima", "flux", "flux2", "qwen", "edit", "kontext", "z", "z-turbo"}
Instructed == {"edit", "kontext"}
Modes == {None, "img2img", "inpaint", "outpaint", "instruction"}

\* A parameter that the others do not depend on varies alone.
Requests ==
  {r \in [kind : Kinds, mode : Modes, init : BOOLEAN, mask : BOOLEAN, turbo : BOOLEAN,
          steps : StepCounts \cup {None}, strength : Strengths \cup {None},
          width : Widths, batch : Batches, margins : Margins, shape : Shapes] :
     /\ ~r.init => r.strength = None
     /\ r.mode # "outpaint" \/ ~r.init => r.margins = <<0, 0, 0, 0>> /\ r.shape = <<Wide, High>>
     /\ r.kind # "turbo" => r.turbo
     /\ r.kind # "anima" => r.width = 1024
     /\ r.strength # None /\ r.mode = "outpaint" => r.shape = <<Wide, High>> /\ r.margins = <<0, 0, 0, 0>>}

-----------------------------------------------------------------------------

\* _edit_mode, and whether the edit goes through a mask.
EditMode(r) == IF r.mode # None THEN r.mode ELSE IF r.mask THEN "inpaint" ELSE "img2img"
Masked(r) == r.mask \/ EditMode(r) = "outpaint"

Valid(r) ==
  /\ r.mask => r.init /\ r.kind # "anima"
  /\ EditMode(r) = "outpaint" => r.init /\ r.kind # "anima"
  /\ r.kind \in Instructed => r.init /\ ~r.mask /\ EditMode(r) \notin {"inpaint", "outpaint"}

\* round() of v / 64: to the even one from the middle.
Cells(v) == LET q == v \div 64 IN
            IF v % 64 < 32 THEN q ELSE IF v % 64 > 32 THEN q + 1 ELSE q + (q % 2)
\* Mutant: rounded down and not bounded above.
SnappedDown(r) == IF r.kind = "anima" THEN (IF r.width < 512 THEN 512 ELSE 64 * (r.width \div 64)) ELSE r.width
Snapped(r) ==
  IF r.kind # "anima" THEN r.width
  ELSE LET v == 64 * Cells(r.width) IN IF v < 512 THEN 512 ELSE IF v > 1536 THEN 1536 ELSE v

\* _steps: the kind's default unless the job names a number other than the
\* general default.
Untouched(r) == r.steps \in {None, DefaultSteps}
Steps(r) ==
  IF Untouched(r) /\ r.kind \in DOMAIN KindSteps /\ r.turbo THEN KindSteps[r.kind]
  ELSE IF r.steps = None THEN DefaultSteps ELSE r.steps

\* _strength, in hundredths; the default of a family is above the clamp.
Strength(r) == IF r.strength = None THEN 60 ELSE
               IF r.strength < 5 THEN 5 ELSE IF r.strength > 100 THEN 100 ELSE r.strength

\* Flux.2 without a mask and the instruction models take the source as a
\* reference: the whole schedule runs.
Strengthened(r) == r.init /\ r.kind \notin Instructed /\ (r.kind = "flux2" => Masked(r))

\* Mutant: the strength alone decides.
ScheduledTruncated(r) == {(Steps(r) * Strength(r)) \div 100}

\* The steps left of the schedule by _effective_strength, at least a few of
\* them for Z-Image Turbo; a pipeline rounds the product its own way.
Least(r) == LET m == IF r.kind = "z-turbo" /\ MinEffective > 1 THEN MinEffective ELSE 1
            IN IF m < Steps(r) THEN m ELSE Steps(r)
Scheduled(r) ==
  LET product == Steps(r) * Strength(r)
  IN {IF n < Least(r) THEN Least(r) ELSE n : n \in {product \div 100, (product + 99) \div 100}}

\* ImageOps.contain: the largest size of the source's shape that fits.
Halved(a, b) == LET q == (2 * a) \div (2 * b) r == (2 * a) % (2 * b) IN
                IF r < b THEN q ELSE IF r > b THEN q + 1 ELSE q + (q % 2)
Contained(shape, w, h) ==
  IF shape[1] * h > w * shape[2] THEN <<w, Halved(shape[2] * w, shape[1])>>
  ELSE <<Halved(shape[1] * h, shape[2]), h>>

Left(total, a, b) == IF a + b < total THEN total - a - b ELSE 1
Box(x, y, w, h) == {<<i, j>> \in (0 .. Wide - 1) \X (0 .. High - 1) :
                     i >= x /\ i < x + w /\ j >= y /\ j < y + h}
Fits(m) == m[1] + m[2] < Wide /\ m[3] + m[4] < High

\* _outpaint_canvas: the source centred in what the margins leave, and the mask
\* that keeps that box; a box turned inside out keeps nothing.
Fitted(r) == Contained(r.shape, Left(Wide, r.margins[1], r.margins[2]), Left(High, r.margins[3], r.margins[4]))
Canvas(r) ==
  LET m == r.margins
      w == Left(Wide, m[1], m[2])
      h == Left(High, m[3], m[4])
      f == Fitted(r)
  IN [source |-> Box(m[1] + (w - f[1]) \div 2, m[3] + (h - f[2]) \div 2, f[1], f[2]),
      kept |-> IF Fits(m) THEN Box(m[1], m[3], w, h) ELSE {}]

-----------------------------------------------------------------------------

Init ==
  /\ req \in Requests
  /\ step = "asked" /\ width = 0 /\ index = 0 /\ todo = 0 /\ taken = 0 /\ shown = 0
  /\ stop = FALSE /\ canvas = None /\ meta = None

Generate ==
  /\ step = "asked"
  /\ IF Valid(req) THEN step' = "image" /\ stop' = FALSE ELSE step' = "refused" /\ stop' = stop
  /\ width' = Snapped(req)
  /\ UNCHANGED <<req, index, todo, taken, shown, canvas, meta>>

RequestStop ==
  /\ step \in {"image", "denoise"} /\ ~stop
  /\ stop' = TRUE
  /\ UNCHANGED <<req, step, width, index, todo, taken, shown, canvas, meta>>

\* The source and mask are loaded and the schedule set.  A source with no cell
\* left in the canvas cannot be resized.
Prepare ==
  /\ step = "image" /\ index < req.batch
  /\ taken' = 0
  /\ todo' \in IF Strengthened(req) THEN Scheduled(req) ELSE {Steps(req)}
  /\ IF EditMode(req) # "outpaint" THEN step' = "denoise" /\ canvas' = canvas
     ELSE IF 0 \in {Fitted(req)[1], Fitted(req)[2]} THEN step' = "failed" /\ canvas' = canvas
     ELSE step' = "denoise" /\ canvas' = Canvas(req)
  /\ UNCHANGED <<req, width, index, shown, stop, meta>>

\* callback_on_step_end.
StepEnds ==
  /\ step = "denoise" /\ taken < todo
  /\ IF stop THEN step' = "cancelled" /\ UNCHANGED <<taken, shown>>
     ELSE step' = step /\ taken' = taken + 1 /\ shown' = index * Steps(req) + taken + 1
  /\ UNCHANGED <<req, width, index, todo, stop, canvas, meta>>

\* The image is decoded; _add_edit_meta says how it was made.
ImageEnds ==
  /\ step = "denoise" /\ taken = todo
  /\ step' = "image" /\ index' = index + 1
  /\ meta' = [strength |-> /\ req.init /\ req.kind \notin Instructed
                           /\ ~(req.kind = "flux2" /\ EditMode(req) = "img2img" /\ ~req.mask),
              inpaint |-> Masked(req)]
  /\ UNCHANGED <<req, width, todo, taken, shown, stop, canvas>>

Next == Generate \/ RequestStop \/ Prepare \/ StepEnds \/ ImageEnds

Spec == Init /\ [][Next]_vars

-----------------------------------------------------------------------------

\* The counters stay in range, and what is shown never exceeds the whole batch.
TypeOK ==
  /\ req \in Requests /\ stop \in BOOLEAN /\ index \in 0 .. req.batch
  /\ step \in {"asked", "refused", "image", "denoise", "failed", "cancelled"}
  /\ taken \in 0 .. todo /\ todo \in 0 .. Steps(req)
  /\ shown \in 0 .. req.batch * Steps(req)

\* No edit has an empty schedule, however weak it is and however few its steps,
\* and one of Z-Image Turbo has the least number of steps that the settings ask
\* for; an image counts as done only after its steps, and the progress shown is
\* never below what the images done before amount to by their own schedule
\* (_effective_strength, _step_callback).
ScheduleTrue ==
  /\ step = "denoise" => todo >= Least(req)
  /\ step = "denoise" /\ taken > 0 => shown > index * Steps(req)
  /\ meta # None => shown > (index - 1) * Steps(req)

\* Anima's own check of its size never fails a job, whatever was asked
\* (_normalize_dims).
OnGrid == step # "asked" /\ req.kind = "anima" => width % 64 = 0 /\ width >= 512 /\ width <= 1536

\* While the margins leave room for the source, all of it is on the canvas and
\* none of it is repainted, whatever its shape; and what is kept besides it is
\* the bars of a source of another shape.  Without room everything is repainted
\* (_outpaint_canvas, for the image and for the mask).
SourceKept ==
  canvas # None =>
    IF Fits(req.margins)
    THEN /\ canvas.source \subseteq canvas.kept
         /\ (\A i \in 1 .. 2 : Fitted(req)[i] = IF i = 1 THEN Left(Wide, req.margins[1], req.margins[2])
                                                 ELSE Left(High, req.margins[3], req.margins[4]))
              => canvas.source = canvas.kept
    ELSE canvas.kept = {}

\* The metadata names a strength exactly when the pipeline was given one and a
\* mask exactly when it had one.  Not so for Flux.2 with a source, no mask and
\* an edit mode other than img2img: it says a strength that nothing used.
MetaTrue ==
  meta # None =>
    /\ meta.strength = Strengthened(req) \/ (req.kind = "flux2" /\ req.mode \notin {None, "img2img"} /\ ~req.mask)
    /\ meta.inpaint <=> Masked(req)

=============================================================================
