------------------------------ MODULE RagIndex ------------------------------
(***************************************************************************)
(* The documents that are indexed for search (api/rag.py,                  *)
(* services/rag_service.py): a model is resolved by its file, texts are    *)
(* embedded with what is there then, and rows are compared with a query    *)
(* that is embedded after they were read.                                  *)
(*                                                                         *)
(* A text is its length and the positions, counted from 0, at which a      *)
(* blank line or the end of a sentence begins; a chunk is the span         *)
(* [from, to) of one.  The spaces at its ends are not told apart.          *)
(***************************************************************************)
EXTENDS Integers, Sequences, FiniteSetsExt

CONSTANTS
  None,
  Texts,       \* records len, breaks, dots
  Target,      \* rag_chunk_chars
  Overlap,     \* rag_chunk_overlap
  ModelOrder,  \* the embedding models in the order of their names
  Requests,    \* requests to index a document or to search
  MaxMoves     \* bound: embedding models that come or go

Models == {ModelOrder[i] : i \in DOMAIN ModelOrder}

RagAssumption ==
  /\ {Overlap, MaxMoves} \subseteq Nat /\ Target \in Nat \ {0}
  /\ ModelOrder \in Seq(Models)
  /\ \A t \in Texts : t.len \in Nat \ {0} /\ t.breaks \cup t.dots \subseteq 0..(t.len - 2)

VARIABLES
  onDisk,    \* embedding models in their folder
  moves,     \* models that came or went
  documents, \* rows: the text, the model named, and its chunks with their vectors
  request,   \* what a request to index or search is at
  vanished   \* history: a model went between its resolution and its use

vars == <<onDisk, moves, documents, request, vanished>>

\* Where the chunk that starts at start ends: after a sentence or before a blank
\* line, the last one, when that is in the second half.
ChunkEnd(text, start) ==
  LET end == Min({text.len, start + Target})
      cut == Max({b \in text.breaks \cup text.dots : b >= start /\ b + 2 <= end} \cup {-1})
  IN IF end = text.len \/ cut <= start + Target \div 2 THEN end
     ELSE IF cut \in text.dots THEN cut + 1 ELSE cut

\* Chunks overlap by half a chunk at most.
NextStart(start, end) == Max({end - Min({Overlap, Target \div 2}), start + 1})

\* chunk_document_text.
IndexChunks(text) ==
  LET from[start \in 0..text.len] ==
        LET end == ChunkEnd(text, start)
        IN <<[from |-> start, to |-> end]>>
             \o IF end = text.len THEN <<>> ELSE from[NextStart(start, end)]
  IN from[0]

Length(chunk) == chunk.to - chunk.from

Init ==
  /\ onDisk \in SUBSET Models /\ moves = 0
  /\ documents = {} /\ request = [r \in Requests |-> [at |-> "new"]] /\ vanished = {}

At(r, s) == request' = [request EXCEPT ![r] = s]

\* resolve_embedding_model_id: the model asked for, or the first of all.
Default == ModelOrder[Min({i \in DOMAIN ModelOrder : ModelOrder[i] \in onDisk})]

Resolve(asked) == IF onDisk = {} \/ asked \notin onDisk \cup {None} THEN None
                  ELSE IF asked = None THEN Default ELSE asked

\* _index_document: the chunks, and the model their vectors will be named after.
BeginIndex(r, text, asked) ==
  /\ request[r].at = "new"
  /\ At(r, IF Resolve(asked) = None THEN [at |-> "over"]
           ELSE [at |-> "embedding", text |-> text, model |-> Resolve(asked)])
  /\ UNCHANGED <<onDisk, moves, documents, vanished>>

\* embed: the model that was resolved, or the first of all when it has gone.
Used(model) == IF model \in onDisk THEN model ELSE Default

\* The vectors are made and the document is committed with its chunks, or
\* the server fails and nothing is.
EndIndex(r) ==
  /\ request[r].at = "embedding" /\ At(r, [at |-> "over"])
  /\ \/ /\ onDisk # {}
        /\ documents' = documents \cup {[id |-> r, text |-> request[r].text, model |-> request[r].model,
                                         vectors |-> Used(request[r].model),
                                         chunks |-> IndexChunks(request[r].text)]}
        /\ vanished' = IF request[r].model \in onDisk THEN vanished ELSE vanished \cup {r}
     \/ UNCHANGED <<documents, vanished>>
  /\ UNCHANGED <<onDisk, moves>>

Delete(d) ==
  /\ documents' = documents \ {d}
  /\ UNCHANGED <<onDisk, moves, request, vanished>>

\* search_documents: the rows are read, then the query is embedded.
BeginSearch(r, asked) ==
  /\ request[r].at = "new" /\ documents # {}
  /\ At(r, IF Resolve(asked) = None THEN [at |-> "over"]
           ELSE [at |-> "searching", rows |-> documents, model |-> Resolve(asked)])
  /\ UNCHANGED <<onDisk, moves, documents, vanished>>

EndSearch(r) ==
  /\ request[r].at = "searching"
  /\ \/ /\ onDisk # {}
        /\ At(r, [at |-> "found", rows |-> request[r].rows, model |-> request[r].model,
                  vectors |-> Used(request[r].model)])
        /\ vanished' = IF request[r].model \in onDisk THEN vanished ELSE vanished \cup {r}
     \/ At(r, [at |-> "over"]) /\ UNCHANGED vanished
  /\ UNCHANGED <<onDisk, moves, documents>>

\* A model is added to its folder or taken away.
MoveModel(m) ==
  /\ moves < MaxMoves /\ moves' = moves + 1
  /\ onDisk' = IF m \in onDisk THEN onDisk \ {m} ELSE onDisk \cup {m}
  /\ UNCHANGED <<documents, request, vanished>>

Next ==
  \/ \E r \in Requests, asked \in Models \cup {None} :
       BeginSearch(r, asked) \/ \E text \in Texts : BeginIndex(r, text, asked)
  \/ \E r \in Requests : EndIndex(r) \/ EndSearch(r)
  \/ \E d \in documents : Delete(d)
  \/ \E m \in Models : MoveModel(m)

Spec == Init /\ [][Next]_vars

-----------------------------------------------------------------------------
\* The values of the variables.
TypeOK ==
  /\ onDisk \subseteq Models /\ moves \in 0..MaxMoves /\ vanished \subseteq Requests
  /\ \A d \in documents : d.text \in Texts /\ {d.model, d.vectors} \subseteq Models
  /\ \A r \in Requests : request[r].at \in {"new", "embedding", "searching", "found", "over"}

\* Chunks leave out no part of a text, overlap forwards, and are no longer than asked.
Covers(chunks, text) ==
  /\ chunks[1].from = 0 /\ chunks[Len(chunks)].to = text.len
  /\ \A i \in DOMAIN chunks : Length(chunks[i]) \in 1..Target
  /\ \A i \in 1..(Len(chunks) - 1) :
       chunks[i + 1].from \in (chunks[i].from + 1)..chunks[i].to /\ chunks[i + 1].to > chunks[i].to

\* What can be found covers what was indexed (chunk_document_text).
ChunksCover == \A d \in documents : Covers(d.chunks, d.text)

\* The vectors of a document are those of the model it names, and so are those a
\* search compares with, unless the model has gone in between; the rows compared
\* with may be of other models.
VectorsNamed ==
  /\ \A d \in documents : d.id \notin vanished => d.vectors = d.model
  /\ \A r \in Requests : request[r].at = "found" /\ r \notin vanished => request[r].vectors = request[r].model
=============================================================================
