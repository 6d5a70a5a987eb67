----------------------------- MODULE Attachments ----------------------------
(***************************************************************************)
(* Files attached to chat messages: how they are stored (util/uploads.py)  *)
(* and how much of their texts a message includes                          *)
(* (services/chat_attachments.py, send of api/chat.py).                    *)
(*                                                                         *)
(* A text is its length and the positions, counted from 0, at which a      *)
(* blank line or the end of a sentence begins; a chunk is the span         *)
(* [from, to) of one.  The spaces at its ends are not told apart.  Which   *)
(* chunk of a text scores best is left open, and so is what an image costs.*)
(***************************************************************************)
EXTENDS Integers, Sequences, FiniteSetsExt, Functions

CONSTANTS
  None,
  Uploads,       \* chat uploads
  TextOf,        \* the text that extraction makes of an upload's file
  Target,        \* length of a chunk
  Overlap,       \* 120
  Budgets,       \* what max_context_chars can be
  Least,         \* 240: a rest of the budget that is too small to use
  Frame,         \* 160: what a block takes of the budget beside its text
  Joint,         \* 9: length of what chunks are joined with
  JointCounted,  \* 8: what the selection counts for it
  MaxSends       \* bound: messages with attachments

AttachmentsAssumption ==
  /\ {Overlap, Least, Frame, Joint, JointCounted, MaxSends} \subseteq Nat
  /\ Target \in Nat \ {0} /\ 2 * Overlap <= Target /\ Budgets \subseteq Nat
  /\ \A u \in Uploads : TextOf[u].len \in Nat \ {0} /\ TextOf[u].breaks \cup TextOf[u].dots \subseteq Nat
  /\ None \notin {"partial", "whole"}

VARIABLES
  upload,   \* how far a chat upload is
  file,     \* its file: None, "partial", "whole"
  meta,     \* its metadata file: None, "partial", "whole"
  message,  \* the attachments of the last message sent, as they were included
  sends     \* messages sent

vars == <<upload, file, meta, message, sends>>

\* Where the chunk that starts at start ends: at the last blank line or the end
\* of a sentence when that is in the second half.
ChunkEnd(text, start) ==
  LET end == Min({text.len, start + Target})
      cut == Max({b \in text.breaks \cup text.dots : b >= start /\ b + 2 <= end} \cup {-1})
  IN IF end = text.len \/ cut <= start + Target \div 2 THEN end ELSE cut + 1

\* Mutant: the overlap is skipped instead of repeated.
NextStartAfter(start, end) == Max({end + Overlap, start + 1})

NextStart(start, end) == Max({end - Overlap, start + 1})

\* _chunk_text.
ChatChunks(text) ==
  LET from[start \in 0..text.len] ==
        LET end == ChunkEnd(text, start)
        IN <<[from |-> start, to |-> end]>>
             \o IF end = text.len THEN <<>> ELSE from[NextStart(start, end)]
  IN from[0]

Length(chunk) == chunk.to - chunk.from

(***************************************************************************)
(* How much of a text a message includes.                                  *)
(***************************************************************************)
\* The chunks in the order of their scores: one is left out that does not fit,
\* and the selection ends at 85 %.
Selected(chunks, order, limit) ==
  LET after[k \in 0..Len(order)] ==
        IF k = 0 THEN [used |-> 0, parts |-> 0, length |-> 0]
        ELSE LET s == after[k - 1]
                 length == Length(chunks[order[k]])
             IN IF 100 * s.used >= 85 * limit \/ s.used + length + JointCounted > limit THEN s
                ELSE [used |-> s.used + length + JointCounted, parts |-> s.parts + 1,
                      length |-> s.length + length + IF s.parts > 0 THEN Joint ELSE 0]
  IN after[Len(order)]

\* Chunks without a word of the message are passed over.
Orders(n) == {o \in UNION {[1..k -> 1..n] : k \in 1..n} : IsInjective(o)}

\* What can be included of a text when rest is left of the budget, and in how
\* many parts: all of it, a selection, or its head when no chunk fits.
Inclusions(text, rest) ==
  IF rest <= Least THEN {[length |-> 0, parts |-> 0]}
  ELSE IF text.len <= rest THEN {[length |-> text.len, parts |-> 1]}
  ELSE LET chunks == ChatChunks(text)
           choices == {Selected(chunks, o, rest) : o \in Orders(Len(chunks))}
       IN {IF s.parts = 0 THEN [length |-> rest, parts |-> 1]
           ELSE [length |-> s.length, parts |-> s.parts] : s \in choices}
          \cup {[length |-> rest, parts |-> 1]}     \* nothing to search for

Rest(rest, included) == IF included.parts = 0 THEN rest ELSE rest - (included.length + Frame)

-----------------------------------------------------------------------------
Init ==
  /\ upload = [u \in Uploads |-> "new"] /\ file = [u \in Uploads |-> None]
  /\ meta = [u \in Uploads |-> None] /\ message = None /\ sends = 0

Goto(u, s) == upload' = [upload EXCEPT ![u] = s]

\* store_chat_upload: the file is opened and filled chunk by chunk; one that is
\* too large or cut off stays as it is, an empty one is unlinked.
Copy(u) ==
  /\ \/ upload[u] = "new" /\ file' = [file EXCEPT ![u] = "partial"] /\ Goto(u, "copying")
     \/ upload[u] = "copying" /\ file' = [file EXCEPT ![u] = "whole"] /\ Goto(u, "copied")
     \/ upload[u] = "copying" /\ Goto(u, "refused") /\ file' \in {file, [file EXCEPT ![u] = None]}
  /\ UNCHANGED <<meta, message, sends>>

\* The metadata is written, in a thread, when the file is whole.
WriteMetadata(u) ==
  /\ upload[u] = "copied"
  /\ \/ meta[u] = None /\ meta' = [meta EXCEPT ![u] = "partial"] /\ UNCHANGED upload
     \/ meta[u] = "partial" /\ meta' = [meta EXCEPT ![u] = "whole"] /\ Goto(u, "stored")
  /\ UNCHANGED <<file, message, sends>>

\* The server dies, or the client goes away.
CutOff(u) ==
  /\ upload[u] \in {"copying", "copied"} /\ Goto(u, "lost")
  /\ UNCHANGED <<file, meta, message, sends>>

\* resolve_chat_upload: metadata that cannot be parsed is no upload.
Resolved == {u \in Uploads : meta[u] = "whole" /\ file[u] # None}

\* A message with two attachments at most: all are resolved, or it is refused;
\* the text of each that can be extracted goes into what is left of the budget.
Send(first, second, budget) ==
  /\ sends < MaxSends /\ sends' = sends + 1
  /\ \/ message' = [refused |-> TRUE]     \* also for a file of another kind
     \/ /\ {first, second} \ {None} \subseteq Resolved
        /\ \E failed \in SUBSET ({first, second} \ {None}) :
             LET Of(u, rest) == IF u \in failed \cup {None} THEN {[length |-> 0, parts |-> 0]}
                                ELSE Inclusions(TextOf[u], rest)
             IN \E a \in Of(first, budget) : \E b \in Of(second, Rest(budget, a)) :
                  message' = [refused |-> FALSE, budget |-> budget, tokens |-> {first, second} \ {None},
                              first |-> a, second |-> b]
  /\ UNCHANGED <<upload, file, meta>>

Next ==
  \/ \E u \in Uploads : Copy(u) \/ WriteMetadata(u) \/ CutOff(u)
  \/ \E first \in Uploads, second \in Uploads \cup {None}, budget \in Budgets :
       first # second /\ Send(first, second, budget)

Spec == Init /\ [][Next]_vars

-----------------------------------------------------------------------------
\* The values of the variables.
TypeOK ==
  /\ upload \in [Uploads -> {"new", "copying", "copied", "stored", "refused", "lost"}]
  /\ file \in [Uploads -> {None, "partial", "whole"}]
  /\ meta \in [Uploads -> {None, "partial", "whole"}]
  /\ sends \in 0..MaxSends

\* A token that resolves has all of its file: an upload that was too large or cut
\* off in its file or its metadata is not found, although it stays on the disk.
UploadsWhole ==
  /\ \A u \in Resolved : file[u] = "whole" /\ upload[u] = "stored"
  /\ message # None /\ ~message.refused => message.tokens \subseteq Resolved

\* Chunks leave out no part of a text, overlap forwards, and are no longer than asked.
Covers(chunks, text) ==
  /\ chunks[1].from = 0 /\ chunks[Len(chunks)].to = text.len
  /\ \A i \in DOMAIN chunks : Length(chunks[i]) \in 1..Target
  /\ \A i \in 1..(Len(chunks) - 1) :
       chunks[i + 1].from \in (chunks[i].from + 1)..chunks[i].to /\ chunks[i + 1].to > chunks[i].to

\* The chunks that a text is selected from leave out no part of it (_chunk_text).
ChunksCover == \A u \in Resolved : Covers(ChatChunks(TextOf[u]), TextOf[u])

\* "Bounded document context": the texts a message includes keep to the budget,
\* but for the one character that each joint is longer than it is counted.
Uncounted(included) ==
  Max({0, included.parts * (Joint - JointCounted) - Joint})

ContextBounded ==
  message # None /\ ~message.refused =>
    message.first.length + message.second.length
      <= message.budget + Uncounted(message.first) + Uncounted(message.second)
=============================================================================
