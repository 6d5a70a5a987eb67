------------------------------ MODULE ChatTurns ------------------------------
(***************************************************************************)
(* One conversation (api/chat.py, services/chat_service.py) and the jobs   *)
(* that write its replies (core/job_results.py, core/llm_tools.py): a turn *)
(* is a user message, a placeholder and a job; the job's result, or that   *)
(* of the follow-up job of a tool call, replaces the placeholder, while    *)
(* turns are truncated, jobs cancelled, and the server restarted.          *)
(***************************************************************************)
EXTENDS Naturals, FiniteSets, Sequences, SequencesExt

CONSTANTS
  Sends,      \* POST messages and POST image requests
  Slash,      \* those of the image endpoint
  WithImages, \* those that turn on the image tool
  WithDocs,   \* those that turn on the document search
  MaxJobs,    \* bound: jobs
  MaxDowns,   \* bound: restarts
  None

ChatAssumption ==
  /\ Slash \subseteq Sends /\ (WithImages \cup WithDocs) \subseteq Sends \ Slash
  /\ MaxJobs \in Nat /\ MaxDowns \in Nat /\ None \notin {"empty", "pending"}

ASSUME ChatAssumption

VARIABLES
  open,      \* the conversation exists
  turns,     \* its turns by created_at, each known by its request
  reply,     \* the assistant message of each turn: None when there is none
  asking,    \* what each request has done
  jobs,      \* the job rows: [status, kind, turn, tools, depth]
  current,   \* the job that the worker runs, 0 for none
  searching, \* finish_llm waits for the document search
  halt,      \* _cancel_current
  downs,     \* restarts
  abandoned  \* history: turns a queued job of which was cancelled

talkVars == <<open, turns, reply>>
workVars == <<current, searching, halt>>
vars == <<talkVars, asking, jobs, workVars, downs, abandoned>>

Ids == DOMAIN jobs
Tools(s) == {t \in {"image", "doc"} : s \in IF t = "image" THEN WithImages ELSE WithDocs}
Live(j) == jobs[j].status \in {"queued", "running"}
Final == {"answer", "error", "cancelled"}
Turns == {turns[i] : i \in DOMAIN turns}

Init ==
  /\ open = TRUE /\ turns = <<>> /\ reply = [s \in Sends |-> None]
  /\ asking = [s \in Sends |-> "new"]
  /\ jobs = <<>> /\ current = 0 /\ searching = FALSE /\ halt = FALSE
  /\ downs = 0 /\ abandoned = {}

-----------------------------------------------------------------------------
(* The conversation's endpoints                                            *)

\* The conversation, its messages and the attachments are read; the prompt is
\* built of them with awaits before anything is written.
ReadHistory(s) ==
  /\ asking[s] = "new" /\ open
  /\ asking' = [asking EXCEPT ![s] = "read"]
  /\ UNCHANGED <<talkVars, jobs, workVars, downs, abandoned>>

\* An empty message, an unknown model or one of another type.
Refuse(s) ==
  /\ asking[s] = "read"
  /\ asking' = [asking EXCEPT ![s] = "over"]
  /\ UNCHANGED <<talkVars, jobs, workVars, downs, abandoned>>

NewJob(kind, s, ts, d) == [status |-> "queued", kind |-> kind, turn |-> s, tools |-> ts, depth |-> d]

\* The user message, the empty assistant message and the job, in one commit; a
\* conversation deleted meanwhile refuses them.
Send(s) ==
  /\ asking[s] = "read" /\ Len(jobs) < MaxJobs
  /\ asking' = [asking EXCEPT ![s] = "over"]
  /\ IF open
     THEN /\ turns' = Append(turns, s)
          /\ reply' = [reply EXCEPT ![s] = "empty"]
          /\ jobs' = Append(jobs, NewJob(IF s \in Slash THEN "image" ELSE "chat", s, Tools(s), 0))
     ELSE UNCHANGED <<turns, reply, jobs>>
  /\ UNCHANGED <<open, workVars, downs, abandoned>>

\* DELETE of a message and everything after it; the jobs go on.
Truncate(i, role) ==
  /\ i \in DOMAIN turns
  /\ role = "assistant" => reply[turns[i]] # None
  /\ LET gone == {turns[k] : k \in i .. Len(turns)} IN
     /\ turns' = SubSeq(turns, 1, IF role = "user" THEN i - 1 ELSE i)
     /\ reply' = [s \in Sends |-> IF s \in gone THEN None ELSE reply[s]]
  /\ UNCHANGED <<open, asking, jobs, workVars, downs, abandoned>>

DeleteConversation ==
  /\ open
  /\ open' = FALSE /\ turns' = <<>> /\ reply' = [s \in Sends |-> None]
  /\ UNCHANGED <<asking, jobs, workVars, downs, abandoned>>

-----------------------------------------------------------------------------
(* Cancellation and the worker                                             *)

\* A queued job: only its row changes.
CancelQueued(j) ==
  /\ jobs[j].status = "queued"
  /\ jobs' = [jobs EXCEPT ![j].status = "cancelled"]
  /\ abandoned' = abandoned \cup {jobs[j].turn}
  /\ UNCHANGED <<talkVars, asking, workVars, downs>>

CancelRunning(j) ==
  /\ jobs[j].status = "running" /\ current = j
  /\ halt' = TRUE
  /\ UNCHANGED <<talkVars, asking, jobs, current, searching, downs, abandoned>>

Pick(j) ==
  /\ current = 0 /\ jobs[j].status = "queued"
  /\ jobs' = [jobs EXCEPT ![j].status = "running"]
  /\ current' = j /\ halt' = FALSE
  /\ UNCHANGED <<talkVars, asking, searching, downs, abandoned>>

\* _write_chat_reply: the message may be gone.
Write(s, v) == reply' = [reply EXCEPT ![s] = IF @ = None THEN None ELSE v]

Free == current' = 0 /\ searching' = FALSE /\ halt' = halt

\* The job ends in one transaction with its reply: with an error or cancelled
\* (mark_cancelled, fail), or with its text or images (finish_image, finish_llm).
Ends(status, v) ==
  /\ current # 0
  /\ jobs' = [jobs EXCEPT ![current].status = status]
  /\ Write(jobs[current].turn, v)
  /\ Free
  /\ UNCHANGED <<open, turns, asking, downs, abandoned>>

Fails == ~searching /\ Ends("error", "error")
Cancelled == ~searching /\ halt /\ Ends("cancelled", "cancelled")
Answers == ~searching /\ ~halt /\ Ends("done", "answer")

\* The model calls a tool that the request has turned on, natively or as a JSON
\* object in its text.
Calls(t) == current # 0 /\ jobs[current].kind = "chat" /\ t \in jobs[current].tools

\* Documents are searched first, with awaits; a failed search is told to the
\* model, and a cancellation is no longer looked at.
Search ==
  /\ ~searching /\ ~halt /\ Calls("doc")
  /\ searching' = TRUE
  /\ UNCHANGED <<talkVars, asking, jobs, current, halt, downs, abandoned>>

\* Mutant: the follow-up may call the tools of its parent.
ChildKeepsTools(t) ==
  NewJob(IF t = "image" THEN "image" ELSE "chat", jobs[current].turn, jobs[current].tools,
         jobs[current].depth + 1)

\* The follow-up job: an image job, or the same model with the documents found.
\* _child_llm_params passes on the sampling parameters and the message to
\* write, and no tool.
Child(t) ==
  NewJob(IF t = "image" THEN "image" ELSE "chat", jobs[current].turn, {}, jobs[current].depth + 1)

\* In one transaction the job is done, its follow-up is queued, and the message
\* says that it is pending.
FollowUp(t) ==
  /\ Calls(t) /\ Len(jobs) < MaxJobs
  /\ IF t = "doc" THEN searching ELSE ~searching /\ ~halt
  /\ jobs' = Append([jobs EXCEPT ![current].status = "done"], Child(t))
  /\ Write(jobs[current].turn, "pending")
  /\ Free
  /\ UNCHANGED <<open, turns, asking, downs, abandoned>>

\* Mutant: running jobs are given up.
OrphansLost(js) == [j \in DOMAIN js |-> IF js[j].status = "running" THEN [js[j] EXCEPT !.status = "error"] ELSE js[j]]

\* The server stops at any point and starts again: requests are lost, running
\* jobs are queued again.
RequeueOrphans(js) == [j \in DOMAIN js |-> IF js[j].status = "running" THEN [js[j] EXCEPT !.status = "queued"] ELSE js[j]]
Restart ==
  /\ downs < MaxDowns
  /\ downs' = downs + 1
  /\ asking' = [s \in Sends |-> IF asking[s] = "read" THEN "over" ELSE asking[s]]
  /\ jobs' = RequeueOrphans(jobs)
  /\ current' = 0 /\ searching' = FALSE /\ halt' = FALSE
  /\ UNCHANGED <<talkVars, abandoned>>

-----------------------------------------------------------------------------

Next ==
  \/ \E s \in Sends : ReadHistory(s) \/ Refuse(s) \/ Send(s)
  \/ \E i \in DOMAIN turns : Truncate(i, "user") \/ Truncate(i, "assistant")
  \/ DeleteConversation
  \/ \E j \in Ids : CancelQueued(j) \/ CancelRunning(j) \/ Pick(j)
  \/ Fails \/ Cancelled \/ Answers \/ Search \/ FollowUp("image") \/ FollowUp("doc")
  \/ Restart

Spec == Init /\ [][Next]_vars

-----------------------------------------------------------------------------

\* Every variable has its type; the worker's job is running and no other is.
TypeOK ==
  /\ open \in BOOLEAN /\ searching \in BOOLEAN /\ halt \in BOOLEAN
  /\ IsInjective(turns) /\ Turns \subseteq Sends
  /\ reply \in [Sends -> {None, "empty", "pending"} \cup Final]
  /\ \A s \in Sends : reply[s] # None => s \in Turns
  /\ current \in {0} \cup Ids /\ downs \in 0 .. MaxDowns
  /\ \A j \in Ids : jobs[j].status = "running" <=> j = current

\* At any moment one job at most can write a reply, and a tool call is followed
\* up once: a follow-up job has no tools, so that no chain of calls keeps the
\* GPU (finish_llm, _child_llm_params, requeueing after a restart).
OneJobPerReply ==
  /\ \A s \in Sends : Cardinality({j \in Ids : Live(j) /\ jobs[j].turn = s}) <= 1
  /\ \A j \in Ids : jobs[j].depth <= 1

\* A message that is empty or says that something is pending has a job that will
\* replace it, across failures, tool calls, truncation and restarts, unless a
\* job of its turn was cancelled while queued, which leaves the message as it is.
PlaceholderLive ==
  \A s \in Sends \ abandoned : reply[s] \in {"empty", "pending"} =>
    \E j \in Ids : Live(j) /\ jobs[j].turn = s

=============================================================================
