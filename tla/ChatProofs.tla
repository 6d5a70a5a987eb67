------------------------------ MODULE ChatProofs ------------------------------
(***************************************************************************)
(* What ChatTurns guarantees for any number of requests, jobs and          *)
(* restarts: one job at most writes a reply, tool calls are not chained,   *)
(* and a message that says something is pending has a job to replace it.   *)
(***************************************************************************)
EXTENDS ChatTurns, SequenceTheorems, FiniteSetTheorems, TLAPS

Status == {"queued", "running", "done", "error", "cancelled"}
Job == [status : Status, kind : {"chat", "image"}, turn : Sends,
        tools : SUBSET {"image", "doc"}, depth : Nat]

\* Every request that is over has had its turn and its job, and no other.
Shaped ==
  /\ TypeOK
  /\ turns \in Seq(Sends) /\ jobs \in Seq(Job)
  /\ asking \in [Sends -> {"new", "read", "over"}]
  /\ \A i \in 1..Len(turns) : asking[turns[i]] = "over"
  /\ \A j \in 1..Len(jobs) : asking[jobs[j].turn] = "over"

\* Of the jobs of a turn one can still write, and a follow-up job calls no tool.
Single ==
  /\ \A i, j \in 1..Len(jobs) : Live(i) /\ Live(j) /\ jobs[i].turn = jobs[j].turn => i = j
  /\ \A j \in 1..Len(jobs) : jobs[j].depth = 0 \/ (jobs[j].depth = 1 /\ jobs[j].tools = {})

\* What a row says but for its status.
SameTask(a, b) == a.turn = b.turn /\ a.tools = b.tools /\ a.depth = b.depth

-----------------------------------------------------------------------------
(* The job table.                                                           *)

\* The rows are numbered, and each is a job.
LEMMA Rows ==
  ASSUME Shaped
  PROVE  /\ Len(jobs) \in Nat /\ Ids = 1..Len(jobs) /\ \A j \in Ids : jobs[j] \in Job
         /\ Len(turns) \in Nat /\ DOMAIN turns = 1..Len(turns)
         /\ \A i \in 1..Len(turns) : turns[i] \in Sends
  BY DEF Shaped, Ids

\* A row changes its status and nothing else.
LEMMA Marks ==
  ASSUME Shaped, NEW j \in Ids, NEW t \in Status,
         jobs' = [jobs EXCEPT ![j].status = t]
  PROVE  /\ jobs' \in Seq(Job) /\ Len(jobs') = Len(jobs) /\ Ids' = Ids
         /\ \A i \in Ids :
              /\ jobs'[i].status = IF i = j THEN t ELSE jobs[i].status
              /\ SameTask(jobs'[i], jobs[i])
<1>1. jobs[j] \in Job /\ j \in 1..Len(jobs) /\ Len(jobs) \in Nat /\ jobs \in Seq(Job)
  BY Rows DEF Shaped
<1> DEFINE row == [jobs[j] EXCEPT !.status = t]
<1>2. row \in Job
  BY <1>1 DEF Job
<1>3. jobs' = [jobs EXCEPT ![j] = row]
  OBVIOUS
<1> HIDE DEF row
<1>4. /\ jobs' \in Seq(Job) /\ Len(jobs') = Len(jobs)
      /\ \A i \in 1..Len(jobs) : jobs'[i] = IF i = j THEN row ELSE jobs[i]
  <2>1. /\ [jobs EXCEPT ![j] = row] \in Seq(Job)
        /\ Len([jobs EXCEPT ![j] = row]) = Len(jobs)
        /\ \A i \in 1..Len(jobs) :
             [jobs EXCEPT ![j] = row][i] = IF i = j THEN row ELSE jobs[i]
    BY <1>1, <1>2, ExceptSeq
  <2> QED
    BY <1>3, <2>1
<1>5. Ids = 1..Len(jobs) /\ Ids' = 1..Len(jobs')
  BY <1>1, <1>4 DEF Ids
<1>6. row.status = t /\ SameTask(row, jobs[j])
  BY <1>1 DEF row, Job, SameTask
<1> QED
  BY <1>1, <1>4, <1>5, <1>6 DEF SameTask

\* A new row comes last.
LEMMA Adds ==
  ASSUME NEW rows \in Seq(Job), NEW new \in Job, jobs' = Append(rows, new)
  PROVE  /\ jobs' \in Seq(Job) /\ Len(jobs') = Len(rows) + 1 /\ Ids' = 1..(Len(rows) + 1)
         /\ Len(rows) \in Nat
         /\ \A i \in 1..Len(rows) : jobs'[i] = rows[i]
         /\ jobs'[Len(rows) + 1] = new
  BY AppendProperties DEF Ids

\* A restart queues what ran and keeps everything else of a row.
LEMMA Requeues ==
  ASSUME Shaped, jobs' = RequeueOrphans(jobs)
  PROVE  /\ jobs' \in Seq(Job) /\ Len(jobs') = Len(jobs) /\ Ids' = Ids
         /\ \A i \in Ids :
              /\ jobs'[i].status =
                   IF jobs[i].status = "running" THEN "queued" ELSE jobs[i].status
              /\ SameTask(jobs'[i], jobs[i])
<1>1. Len(jobs) \in Nat /\ Ids = 1..Len(jobs) /\ \A j \in Ids : jobs[j] \in Job
  BY Rows
<1>2. DOMAIN jobs' = 1..Len(jobs)
  BY <1>1 DEF RequeueOrphans, Ids
<1>3. ASSUME NEW i \in Ids
      PROVE  /\ jobs'[i] \in Job
             /\ jobs'[i].status =
                  IF jobs[i].status = "running" THEN "queued" ELSE jobs[i].status
             /\ SameTask(jobs'[i], jobs[i])
  BY <1>1, <1>3 DEF RequeueOrphans, Ids, Job, Status, SameTask
<1>4. jobs' \in [1..Len(jobs) -> Job]
  BY <1>1, <1>2, <1>3 DEF RequeueOrphans, Ids
<1>5. jobs' \in Seq(Job) /\ Len(jobs') = Len(jobs)
  BY <1>1, <1>4
<1> QED
  BY <1>1, <1>2, <1>3, <1>5 DEF Ids

-----------------------------------------------------------------------------
(* Types, and what a request may do once.                                   *)

\* A request writes its turn and its job together, and only once.
LEMMA SendShaped == ASSUME ChatAssumption, Shaped, NEW s \in Sends, Send(s) PROVE Shaped'
<1>1. Len(turns) \in Nat /\ \A i \in 1..Len(turns) : turns[i] \in Sends /\ turns[i] # s
  BY Rows DEF Shaped, Send
<1>2. CASE open
  <2> DEFINE new == NewJob(IF s \in Slash THEN "image" ELSE "chat", s, Tools(s), 0)
  <2>1. new \in Job
    BY DEF NewJob, Job, Status, Tools, ChatAssumption
  <2>2. jobs \in Seq(Job) /\ jobs' = Append(jobs, new)
    BY <1>2 DEF Shaped, Send
  <2>3. new.turn = s /\ new.status = "queued"
    BY DEF NewJob
  <2> HIDE DEF new
  <2>4. /\ jobs' \in Seq(Job) /\ Len(jobs') = Len(jobs) + 1 /\ Len(jobs) \in Nat
        /\ Ids' = 1..(Len(jobs) + 1) /\ Ids = 1..Len(jobs)
        /\ \A i \in 1..Len(jobs) : jobs'[i] = jobs[i]
        /\ jobs'[Len(jobs) + 1] = new
    BY <2>1, <2>2, Adds, Rows
  <2>5. /\ turns' \in Seq(Sends) /\ Len(turns') = Len(turns) + 1
        /\ \A i \in 1..Len(turns) : turns'[i] = turns[i]
        /\ turns'[Len(turns) + 1] = s
    <3>1. turns \in Seq(Sends) /\ turns' = Append(turns, s)
      BY <1>2 DEF Shaped, Send
    <3> QED
      BY <3>1, AppendProperties
  <2>6. DOMAIN turns' = 1..(Len(turns) + 1) /\ DOMAIN turns = 1..Len(turns)
    BY <1>1, <2>5, Rows
  <2>7. /\ asking' = [asking EXCEPT ![s] = "over"]
        /\ UNCHANGED <<open, current, searching, halt, downs>>
        /\ reply' = [reply EXCEPT ![s] = "empty"]
    BY <1>2 DEF Send, workVars
  <2>8. IsInjective(turns') /\ Turns' \subseteq Sends /\ Turns' = Turns \cup {s}
    <3>1. IsInjective(turns')
      BY <1>1, <2>5, <2>6 DEF IsInjective, Shaped, TypeOK
    <3>2. Turns' = Turns \cup {s}
      <4>1. \A i \in DOMAIN turns' : i \in DOMAIN turns \/ i = Len(turns) + 1
        BY <1>1, <2>6
      <4>2. Len(turns) + 1 \in DOMAIN turns' /\ \A i \in DOMAIN turns : i \in DOMAIN turns'
        BY <1>1, <2>6
      <4> QED
        BY <2>5, <2>6, <4>1, <4>2 DEF Turns
    <3> QED
      BY <3>1, <3>2 DEF Shaped, TypeOK
  <2>9. /\ current' \in {0} \cup Ids'
        /\ \A j \in Ids' : jobs'[j].status = "running" <=> j = current'
    <3>1. \A j \in Ids' : j \in Ids \/ (j = Len(jobs) + 1 /\ j \notin Ids /\ j # 0)
      BY <2>4
    <3>2. current \in {0} \cup Ids /\ \A j \in Ids : j \in Ids'
      BY <2>4 DEF Shaped, TypeOK
    <3> QED
      BY <2>3, <2>4, <2>7, <3>1, <3>2 DEF Shaped, TypeOK
  <2>10. \A j \in 1..Len(jobs') : asking'[jobs'[j].turn] = "over"
    BY <2>3, <2>4, <2>7 DEF Shaped
  <2>11. \A i \in 1..Len(turns') : asking'[turns'[i]] = "over"
    BY <1>1, <2>5, <2>7 DEF Shaped
  <2> QED
    BY <2>4, <2>5, <2>7, <2>8, <2>9, <2>10, <2>11 DEF Shaped, TypeOK, Final
<1>3. CASE ~open
  BY <1>3 DEF Shaped, TypeOK, Send, workVars, Ids, Turns
<1> QED
  BY <1>2, <1>3

\* Truncation keeps the turns before it.
LEMMA TruncateShaped ==
  ASSUME Shaped, NEW i \in DOMAIN turns, NEW role \in {"user", "assistant"}, Truncate(i, role)
  PROVE  Shaped'
<1> DEFINE n == IF role = "user" THEN i - 1 ELSE i
<1>1. /\ Len(turns) \in Nat /\ DOMAIN turns = 1..Len(turns)
      /\ n \in 0..Len(turns) /\ i \in 1..Len(turns)
      /\ \A k \in 1..Len(turns) : turns[k] \in Sends
  BY Rows
<1>2. turns' = SubSeq(turns, 1, n)
  BY DEF Truncate
<1>3. role = "assistant" => reply[turns[i]] # None
  BY DEF Truncate
<1>4. reply' =
        [s \in Sends |-> IF s \in {turns[k] : k \in i..Len(turns)} THEN None ELSE reply[s]]
  BY DEF Truncate
<1>5. UNCHANGED <<open, asking, jobs, workVars, downs>>
  BY DEF Truncate
<1> HIDE DEF n
<1>6. /\ turns' \in Seq(Sends) /\ Len(turns') = n /\ \A k \in 1..n : turns'[k] = turns[k]
  <2>1. 1 \in Int /\ n \in Int /\ n - 1 + 1 = n /\ \A k \in 1..n : turns[k] \in Sends
    BY <1>1
  <2>2. /\ SubSeq(turns, 1, n) \in Seq(Sends)
        /\ Len(SubSeq(turns, 1, n)) = IF 1 <= n THEN n - 1 + 1 ELSE 0
        /\ \A k \in 1..(n - 1 + 1) : SubSeq(turns, 1, n)[k] = turns[1 + k - 1]
    BY <2>1, SubSeqProperties
  <2>3. \A k \in 1..n : 1 + k - 1 = k
    BY <1>1
  <2> QED
    BY <1>1, <1>2, <2>1, <2>2, <2>3
<1>7. DOMAIN turns' = 1..n /\ \A k \in 1..n : k \in 1..Len(turns)
  BY <1>1, <1>6
<1>8. IsInjective(turns') /\ Turns' \subseteq Sends
  BY <1>1, <1>6, <1>7 DEF IsInjective, Turns, Shaped, TypeOK
<1>9. ASSUME NEW s \in Sends, reply'[s] # None PROVE s \in Turns'
  <2>1. s \in Turns /\ s \notin {turns[k] : k \in i..Len(turns)}
    BY <1>4, <1>9 DEF Shaped, TypeOK
  <2>2. PICK k \in 1..Len(turns) : turns[k] = s
    BY <1>1, <2>1 DEF Turns
  <2>3. k \in 1..n
    BY <1>1, <2>1, <2>2 DEF n
  <2> QED
    BY <1>6, <1>7, <2>2, <2>3 DEF Turns
<1>10. reply' \in [Sends -> {None, "empty", "pending"} \cup Final]
  BY <1>4 DEF Shaped, TypeOK
<1>11. \A k \in 1..Len(turns') : asking'[turns'[k]] = "over"
  BY <1>5, <1>6, <1>7 DEF Shaped
<1> QED
  BY <1>5, <1>6, <1>8, <1>9, <1>10, <1>11 DEF Shaped, TypeOK, Ids, workVars

\* Reading, refusing and deleting the conversation.
LEMMA TalkShaped ==
  ASSUME Shaped, (\E s \in Sends : ReadHistory(s) \/ Refuse(s)) \/ DeleteConversation
  PROVE  Shaped'
<1>1. ASSUME NEW s \in Sends, ReadHistory(s) PROVE Shaped'
  BY <1>1 DEF ReadHistory, Shaped, TypeOK, talkVars, workVars, Ids, Turns
<1>2. ASSUME NEW s \in Sends, Refuse(s) PROVE Shaped'
  BY <1>2 DEF Refuse, Shaped, TypeOK, talkVars, workVars, Ids, Turns
<1>3. CASE DeleteConversation
  <2>1. turns' = <<>> /\ open' = FALSE /\ reply' = [s \in Sends |-> None]
        /\ UNCHANGED <<asking, jobs, current, searching, halt, downs>>
    BY <1>3 DEF DeleteConversation, workVars
  <2>2. turns' \in Seq(Sends) /\ DOMAIN turns' = {} /\ 1..Len(turns') = {}
    BY <2>1
  <2> QED
    BY <2>1, <2>2 DEF Shaped, TypeOK, Ids, Turns, IsInjective
<1> QED
  BY <1>1, <1>2, <1>3

\* The job that the worker runs.
LEMMA Works == Shaped /\ current # 0 => current \in Ids /\ jobs[current] \in Job /\ Live(current)
  BY Rows DEF Shaped, TypeOK, Live

\* A reply is written only where the message still is.
LEMMA Writes ==
  ASSUME Shaped, NEW s \in Sends, NEW v \in {"pending"} \cup Final, Write(s, v)
  PROVE  /\ reply' \in [Sends -> {None, "empty", "pending"} \cup Final]
         /\ \A x \in Sends : reply'[x] # None => x \in Turns
  BY DEF Shaped, TypeOK, Write

\* Rows that keep their tasks, with one running at most.
LEMMA KeptShaped ==
  ASSUME Shaped, jobs' \in Seq(Job), Len(jobs') = Len(jobs), Ids' = Ids,
         \A i \in Ids : SameTask(jobs'[i], jobs[i]),
         \A i \in Ids : jobs'[i].status = "running" <=> i = current',
         current' \in {0} \cup Ids, open' \in BOOLEAN, searching' \in BOOLEAN, halt' \in BOOLEAN,
         downs' \in 0..MaxDowns, turns' = turns,
         asking' \in [Sends -> {"new", "read", "over"}],
         \A s \in Sends : asking[s] = "over" => asking'[s] = "over",
         reply' \in [Sends -> {None, "empty", "pending"} \cup Final],
         \A s \in Sends : reply'[s] # None => s \in Turns
  PROVE  Shaped'
<1>1. /\ Len(jobs) \in Nat /\ Ids = 1..Len(jobs) /\ \A j \in Ids : jobs[j].turn \in Sends
      /\ \A i \in 1..Len(turns) : turns[i] \in Sends
  BY Rows DEF Job
<1>2. \A j \in 1..Len(jobs') : asking'[jobs'[j].turn] = "over"
  BY <1>1 DEF Shaped, SameTask
<1>3. \A i \in 1..Len(turns') : asking'[turns'[i]] = "over"
  BY <1>1 DEF Shaped
<1>4. TypeOK'
  BY DEF Shaped, TypeOK, Turns
<1> QED
  BY <1>2, <1>3, <1>4 DEF Shaped

\* A cancellation, a pick and the end of a job change one row.
LEMMA WorkShaped ==
  ASSUME Shaped,
         \/ \E j \in Ids : CancelQueued(j) \/ CancelRunning(j) \/ Pick(j)
         \/ Fails \/ Cancelled \/ Answers \/ Search
  PROVE  Shaped'
<1>1. ASSUME NEW j \in Ids, CancelQueued(j) PROVE Shaped'
  <2>1. /\ jobs' \in Seq(Job) /\ Len(jobs') = Len(jobs) /\ Ids' = Ids
        /\ \A i \in Ids :
             /\ jobs'[i].status = IF i = j THEN "cancelled" ELSE jobs[i].status
             /\ SameTask(jobs'[i], jobs[i])
    BY <1>1, Marks DEF CancelQueued, Status
  <2>2. /\ UNCHANGED <<open, turns, reply, asking, current, searching, halt, downs>>
        /\ jobs[j].status = "queued"
    BY <1>1 DEF CancelQueued, talkVars, workVars
  <2> QED
    BY <2>1, <2>2, KeptShaped DEF Shaped, TypeOK
<1>2. ASSUME NEW j \in Ids, CancelRunning(j) PROVE Shaped'
  BY <1>2 DEF CancelRunning, Shaped, TypeOK, Ids, Turns, talkVars
<1>3. ASSUME NEW j \in Ids, Pick(j) PROVE Shaped'
  <2>1. /\ jobs' \in Seq(Job) /\ Len(jobs') = Len(jobs) /\ Ids' = Ids
        /\ \A i \in Ids :
             /\ jobs'[i].status = IF i = j THEN "running" ELSE jobs[i].status
             /\ SameTask(jobs'[i], jobs[i])
    BY <1>3, Marks DEF Pick, Status
  <2>2. /\ UNCHANGED <<open, turns, reply, asking, searching, downs>>
        /\ current = 0 /\ current' = j /\ halt' = FALSE
    BY <1>3 DEF Pick, talkVars
  <2>3. \A i \in Ids : i # 0 /\ jobs[i].status # "running"
    BY <2>2, Rows DEF Shaped, TypeOK
  <2> QED
    BY <2>1, <2>2, <2>3, KeptShaped DEF Shaped, TypeOK
<1>4. ASSUME NEW t \in {"error", "cancelled", "done"}, NEW v \in Final, Ends(t, v) PROVE Shaped'
  <2>1. current \in Ids /\ jobs[current].turn \in Sends
    BY <1>4, Works DEF Ends, Job
  <2>2. /\ jobs' \in Seq(Job) /\ Len(jobs') = Len(jobs) /\ Ids' = Ids
        /\ \A i \in Ids :
             /\ jobs'[i].status = IF i = current THEN t ELSE jobs[i].status
             /\ SameTask(jobs'[i], jobs[i])
    <3>1. jobs' = [jobs EXCEPT ![current].status = t] /\ t \in Status
      BY <1>4 DEF Ends, Status
    <3> QED
      BY <2>1, <3>1, Marks
  <2>3. /\ reply' \in [Sends -> {None, "empty", "pending"} \cup Final]
        /\ \A x \in Sends : reply'[x] # None => x \in Turns
    BY <1>4, <2>1, Writes DEF Ends
  <2>4. /\ UNCHANGED <<open, turns, asking, downs>>
        /\ current' = 0 /\ searching' = FALSE /\ halt' = halt
    BY <1>4 DEF Ends, Free
  <2>5. \A i \in Ids : i # 0 /\ (jobs[i].status = "running" <=> i = current)
    BY Rows DEF Shaped, TypeOK
  <2> QED
    BY <2>2, <2>3, <2>4, <2>5, KeptShaped DEF Shaped, TypeOK
<1>5. CASE Search
  BY <1>5 DEF Search, Shaped, TypeOK, Ids, Turns, talkVars
<1> QED
  BY <1>1, <1>2, <1>3, <1>4, <1>5 DEF Fails, Cancelled, Answers, Final

\* A follow-up ends its job and adds another.
LEMMA FollowRows ==
  ASSUME Shaped, NEW t \in {"image", "doc"}, FollowUp(t)
  PROVE  /\ current \in Ids /\ jobs[current] \in Job /\ Live(current)
         /\ Child(t) \in Job /\ jobs' \in Seq(Job)
         /\ Len(jobs') = Len(jobs) + 1 /\ Ids' = 1..(Len(jobs) + 1)
         /\ \A i \in Ids :
              /\ jobs'[i].status = IF i = current THEN "done" ELSE jobs[i].status
              /\ SameTask(jobs'[i], jobs[i])
         /\ jobs'[Len(jobs) + 1] = Child(t)
<1>1. current \in Ids /\ jobs[current] \in Job /\ Live(current)
  BY Works DEF FollowUp, Calls
<1>2. Child(t) \in Job
  BY <1>1 DEF Child, NewJob, Job, Status
<1> DEFINE row == [jobs[current] EXCEPT !.status = "done"]
           rows == [jobs EXCEPT ![current].status = "done"]
<1>3. row \in Job /\ rows = [jobs EXCEPT ![current] = row] /\ jobs \in Seq(Job)
  BY <1>1 DEF Job, Status, Shaped
<1>4. current \in 1..Len(jobs) /\ Len(jobs) \in Nat /\ Ids = 1..Len(jobs)
  BY <1>1, Rows
<1>5. jobs' = Append(rows, Child(t))
  BY DEF FollowUp
<1> HIDE DEF row, rows
<1>6. /\ rows \in Seq(Job) /\ Len(rows) = Len(jobs)
      /\ \A i \in 1..Len(jobs) : rows[i] = IF i = current THEN row ELSE jobs[i]
  BY <1>3, <1>4, ExceptSeq
<1>7. /\ jobs' \in Seq(Job) /\ Len(jobs') = Len(rows) + 1 /\ Ids' = 1..(Len(rows) + 1)
      /\ \A i \in 1..Len(rows) : jobs'[i] = rows[i]
      /\ jobs'[Len(rows) + 1] = Child(t)
  BY <1>2, <1>5, <1>6, Adds
<1>8. row.status = "done" /\ SameTask(row, jobs[current])
  BY <1>1 DEF row, Job, SameTask
<1> QED
  BY <1>1, <1>2, <1>4, <1>6, <1>7, <1>8 DEF SameTask

\* A follow-up keeps one row running at most.
LEMMA FollowShaped ==
  ASSUME Shaped, NEW t \in {"image", "doc"}, FollowUp(t)
  PROVE  Shaped'
<1>1. /\ current \in Ids /\ jobs[current] \in Job
      /\ jobs' \in Seq(Job) /\ Len(jobs') = Len(jobs) + 1 /\ Ids' = 1..(Len(jobs) + 1)
      /\ \A i \in Ids :
           /\ jobs'[i].status = IF i = current THEN "done" ELSE jobs[i].status
           /\ SameTask(jobs'[i], jobs[i])
      /\ jobs'[Len(jobs) + 1] = Child(t)
      /\ Len(jobs) \in Nat /\ Ids = 1..Len(jobs)
  BY FollowRows, Rows
<1>2. Child(t).turn = jobs[current].turn /\ Child(t).status = "queued"
  BY DEF Child, NewJob
<1>3. jobs[current].turn \in Sends
  BY <1>1 DEF Job
<1>4. /\ reply' \in [Sends -> {None, "empty", "pending"} \cup Final]
      /\ \A x \in Sends : reply'[x] # None => x \in Turns
  BY <1>3, Writes DEF FollowUp
<1>5. /\ UNCHANGED <<open, turns, asking, downs>>
      /\ current' = 0 /\ searching' = FALSE /\ halt' = halt
  BY DEF FollowUp, Free
<1>6. \A j \in Ids' : jobs'[j].status # "running"
  <2>1. \A j \in Ids : j # current => jobs[j].status # "running"
    BY DEF Shaped, TypeOK
  <2>2. \A j \in Ids' : j \in Ids \/ j = Len(jobs) + 1
    BY <1>1
  <2> QED
    BY <1>1, <1>2, <2>1, <2>2
<1>7. \A j \in 1..Len(jobs') : asking'[jobs'[j].turn] = "over"
  <2>1. \A j \in Ids : asking[jobs[j].turn] = "over"
    BY <1>1 DEF Shaped
  <2>2. \A j \in 1..Len(jobs') : j \in Ids \/ j = Len(jobs) + 1
    BY <1>1
  <2> QED
    BY <1>1, <1>2, <1>5, <2>1, <2>2 DEF SameTask
<1>8. TypeOK'
  <2>1. 0 \notin Ids'
    BY <1>1
  <2>2. \A j \in Ids' : jobs'[j].status = "running" <=> j = current'
    BY <1>5, <1>6, <2>1
  <2> QED
    BY <1>4, <1>5, <2>2 DEF Shaped, TypeOK, Turns
<1> QED
  BY <1>1, <1>5, <1>7, <1>8 DEF Shaped

\* A restart loses requests and the running job's place.
LEMMA RestartShaped == ASSUME ChatAssumption, Shaped, Restart PROVE Shaped'
<1>1. /\ jobs' \in Seq(Job) /\ Len(jobs') = Len(jobs) /\ Ids' = Ids
      /\ \A i \in Ids :
           /\ jobs'[i].status = IF jobs[i].status = "running" THEN "queued" ELSE jobs[i].status
           /\ SameTask(jobs'[i], jobs[i])
  BY Requeues DEF Restart
<1>2. \A i \in Ids : i # 0
  BY Rows
<1>3. /\ open' = open /\ turns' = turns /\ reply' = reply
      /\ current' = 0 /\ searching' = FALSE /\ halt' = FALSE
  BY DEF Restart, talkVars
<1>4. downs' \in 0..MaxDowns
  BY DEF Restart, Shaped, TypeOK, ChatAssumption
<1>5. /\ asking' \in [Sends -> {"new", "read", "over"}]
      /\ \A s \in Sends : asking[s] = "over" => asking'[s] = "over"
  BY DEF Restart, Shaped
<1> QED
  BY <1>1, <1>2, <1>3, <1>4, <1>5, KeptShaped DEF Shaped, TypeOK

\* Shaped is inductive.
LEMMA ShapedStep == ChatAssumption /\ Shaped /\ [Next]_vars => Shaped'
<1> SUFFICES ASSUME ChatAssumption, Shaped, [Next]_vars PROVE Shaped'
  OBVIOUS
<1>1. CASE UNCHANGED vars
  BY <1>1 DEF vars, talkVars, workVars, Shaped, TypeOK, Ids, Turns
<1> QED
  BY <1>1, SendShaped, TruncateShaped, TalkShaped, WorkShaped, FollowShaped, RestartShaped
     DEF Next

-----------------------------------------------------------------------------
(* One job per reply, and a message that is pending.                        *)

\* Rows that keep their tasks, and are live only if they were.
LEMMA KeptSingle ==
  ASSUME Shaped, Single, Len(jobs') = Len(jobs),
         \A i \in Ids : SameTask(jobs'[i], jobs[i]),
         \A i \in Ids : jobs'[i].status \in {"queued", "running"} => Live(i)
  PROVE  Single'
  BY Rows DEF Single, SameTask, Live

\* The rows of a step that marks one row.
LEMMA MarkSingle ==
  ASSUME Shaped, Single, NEW j \in Ids, Live(j), NEW t \in Status,
         jobs' = [jobs EXCEPT ![j].status = t]
  PROVE  /\ Single' /\ Ids' = Ids
         /\ \A i \in Ids :
              /\ jobs'[i].status = IF i = j THEN t ELSE jobs[i].status
              /\ jobs'[i].turn = jobs[i].turn
<1>1. /\ Len(jobs') = Len(jobs) /\ Ids' = Ids
      /\ \A i \in Ids :
           /\ jobs'[i].status = IF i = j THEN t ELSE jobs[i].status
           /\ SameTask(jobs'[i], jobs[i])
  BY Marks
<1>2. \A i \in Ids : jobs'[i].status \in {"queued", "running"} => Live(i)
  BY <1>1 DEF Live
<1> QED
  BY <1>1, <1>2, KeptSingle DEF SameTask

\* One writer at most, and one for each pending message.
Replied == Single /\ PlaceholderLive

\* A new turn has a job of its own.
LEMMA SendReplied ==
  ASSUME ChatAssumption, Shaped, Replied, NEW s \in Sends, Send(s)
  PROVE  Replied'
<1>1. CASE open
  <2> DEFINE new == NewJob(IF s \in Slash THEN "image" ELSE "chat", s, Tools(s), 0)
  <2>1. new \in Job /\ new.turn = s /\ new.status = "queued" /\ new.depth = 0
    BY DEF NewJob, Job, Status, Tools, ChatAssumption
  <2>2. jobs \in Seq(Job) /\ jobs' = Append(jobs, new)
    BY <1>1 DEF Shaped, Send
  <2>3. reply' = [reply EXCEPT ![s] = "empty"] /\ abandoned' = abandoned
    BY <1>1 DEF Send
  <2> HIDE DEF new
  <2>4. /\ Len(jobs') = Len(jobs) + 1 /\ Len(jobs) \in Nat
        /\ Ids' = 1..(Len(jobs) + 1) /\ Ids = 1..Len(jobs)
        /\ \A i \in 1..Len(jobs) : jobs'[i] = jobs[i]
        /\ jobs'[Len(jobs) + 1] = new
    BY <2>1, <2>2, Adds, Rows
  <2>5. \A i \in Ids : jobs[i].turn # s
    BY <2>4 DEF Shaped, Send
  <2>6. \A i \in Ids' : i \in Ids \/ i = Len(jobs) + 1
    BY <2>4
  <2>7. Single'
    BY <2>1, <2>4, <2>5, <2>6 DEF Replied, Single, Live
  <2>8. PlaceholderLive'
    <3>1. PICK n \in Ids' : Live(n)' /\ jobs'[n].turn = s
      <4>1. Len(jobs) + 1 \in Ids'
        BY <2>4
      <4> QED
        BY <2>1, <2>4, <4>1 DEF Live
    <3>2. \A i \in Ids : i \in Ids' /\ (Live(i) => Live(i)') /\ jobs'[i].turn = jobs[i].turn
      BY <2>4 DEF Live
    <3>3. \A x \in Sends : x # s => reply'[x] = reply[x]
      BY <2>3 DEF Shaped, TypeOK
    <3> QED
      BY <2>3, <3>1, <3>2, <3>3 DEF Replied, PlaceholderLive
  <2> QED
    BY <2>7, <2>8 DEF Replied
<1>2. CASE ~open
  BY <1>2 DEF Send, Replied, Single, PlaceholderLive, Live, Ids
<1> QED
  BY <1>1, <1>2

\* Reading, refusing and deleting touch no row and leave no message pending.
LEMMA TalkReplied ==
  ASSUME ChatAssumption, Shaped, Replied,
         \/ \E s \in Sends : ReadHistory(s) \/ Refuse(s)
         \/ \E i \in DOMAIN turns : Truncate(i, "user") \/ Truncate(i, "assistant")
         \/ DeleteConversation
  PROVE  Replied'
<1>1. UNCHANGED <<jobs, abandoned>>
  BY DEF ReadHistory, Refuse, Truncate, DeleteConversation
<1>2. \A s \in Sends : reply'[s] = reply[s] \/ reply'[s] = None
  BY DEF ReadHistory, Refuse, Truncate, DeleteConversation, talkVars
<1>3. Single'
  BY <1>1 DEF Replied, Single, Live
<1>4. PlaceholderLive'
  BY <1>1, <1>2 DEF Replied, PlaceholderLive, Live, Ids, ChatAssumption
<1> QED
  BY <1>3, <1>4 DEF Replied

\* A job that ends writes its reply, and no other's.
LEMMA WorkReplied ==
  ASSUME ChatAssumption, Shaped, Replied,
         \/ \E j \in Ids : CancelQueued(j) \/ CancelRunning(j) \/ Pick(j)
         \/ Fails \/ Cancelled \/ Answers \/ Search
  PROVE  Replied'
<1>1. ASSUME NEW j \in Ids, CancelQueued(j) PROVE Replied'
  <2>1. /\ Single' /\ Ids' = Ids
        /\ \A i \in Ids :
             /\ jobs'[i].status = IF i = j THEN "cancelled" ELSE jobs[i].status
             /\ jobs'[i].turn = jobs[i].turn
    BY <1>1, MarkSingle DEF CancelQueued, Status, Live, Replied
  <2>2. reply' = reply /\ abandoned' = abandoned \cup {jobs[j].turn}
    BY <1>1 DEF CancelQueued, talkVars
  <2> QED
    BY <2>1, <2>2 DEF Replied, PlaceholderLive, Live
<1>2. ASSUME NEW j \in Ids, CancelRunning(j) PROVE Replied'
  BY <1>2 DEF CancelRunning, Replied, Single, PlaceholderLive, Live, Ids, talkVars
<1>3. ASSUME NEW j \in Ids, Pick(j) PROVE Replied'
  <2>1. /\ Single' /\ Ids' = Ids
        /\ \A i \in Ids :
             /\ jobs'[i].status = IF i = j THEN "running" ELSE jobs[i].status
             /\ jobs'[i].turn = jobs[i].turn
    BY <1>3, MarkSingle DEF Pick, Status, Live, Replied
  <2>2. reply' = reply /\ abandoned' = abandoned /\ Live(j)
    BY <1>3 DEF Pick, talkVars, Live
  <2> QED
    BY <2>1, <2>2 DEF Replied, PlaceholderLive, Live
<1>4. ASSUME NEW t \in {"error", "cancelled", "done"}, NEW v \in Final, Ends(t, v) PROVE Replied'
  <2>1. current \in Ids /\ jobs[current].turn \in Sends /\ Live(current)
    BY <1>4, Works DEF Ends, Job
  <2>2. jobs' = [jobs EXCEPT ![current].status = t] /\ t \in Status
    BY <1>4 DEF Ends, Status
  <2>3. /\ Single' /\ Ids' = Ids
        /\ \A i \in Ids :
             /\ jobs'[i].status = IF i = current THEN t ELSE jobs[i].status
             /\ jobs'[i].turn = jobs[i].turn
    BY <2>1, <2>2, MarkSingle DEF Replied
  <2>4. /\ abandoned' = abandoned
        /\ \A x \in Sends :
             reply'[x] = IF x # jobs[current].turn \/ reply[x] = None THEN reply[x] ELSE v
    BY <1>4, <2>1 DEF Ends, Write, Shaped, TypeOK
  <2>5. v \notin {"empty", "pending"}
    BY DEF Final
  <2>6. ASSUME NEW x \in Sends \ abandoned', reply'[x] \in {"empty", "pending"}
        PROVE  \E j \in Ids' : Live(j)' /\ jobs'[j].turn = x
    <3>1. CASE x # jobs[current].turn
      <4>1. PICK j \in Ids : Live(j) /\ jobs[j].turn = x
        BY <2>4, <2>6, <3>1 DEF Replied, PlaceholderLive
      <4> QED
        BY <2>3, <3>1, <4>1 DEF Live
    <3>2. CASE x = jobs[current].turn
      BY <2>4, <2>5, <2>6, <3>2 DEF ChatAssumption
    <3> QED
      BY <3>1, <3>2
  <2> QED
    BY <2>3, <2>6 DEF Replied, PlaceholderLive, Live
<1>5. CASE Search
  BY <1>5 DEF Search, Replied, Single, PlaceholderLive, Live, Ids, talkVars
<1> QED
  BY <1>1, <1>2, <1>3, <1>4, <1>5 DEF Fails, Cancelled, Answers, Final

\* A follow-up job takes over the turn of the job that it follows.
LEMMA FollowReplied ==
  ASSUME ChatAssumption, Shaped, Replied, NEW t \in {"image", "doc"}, FollowUp(t)
  PROVE  Replied'
<1>1. /\ current \in Ids /\ jobs[current] \in Job /\ Live(current)
      /\ Len(jobs') = Len(jobs) + 1 /\ Ids' = 1..(Len(jobs) + 1)
      /\ \A i \in Ids :
           /\ jobs'[i].status = IF i = current THEN "done" ELSE jobs[i].status
           /\ SameTask(jobs'[i], jobs[i])
      /\ jobs'[Len(jobs) + 1] = Child(t)
      /\ Len(jobs) \in Nat /\ Ids = 1..Len(jobs)
  BY FollowRows, Rows
<1>2. /\ Child(t).turn = jobs[current].turn /\ Child(t).status = "queued"
      /\ Child(t).tools = {} /\ Child(t).depth = jobs[current].depth + 1
  BY DEF Child, NewJob
<1>3. jobs[current].depth = 0
  BY <1>1 DEF FollowUp, Calls, Replied, Single
<1>4. \A i \in Ids' : i \in Ids \/ i = Len(jobs) + 1
  BY <1>1
<1>5. \A i \in Ids : Live(i)' => Live(i) /\ i # current /\ jobs[i].turn # jobs[current].turn
  BY <1>1 DEF Live, Replied, Single
<1>6. Single'
  <2>1. \A i, j \in 1..Len(jobs') :
          Live(i)' /\ Live(j)' /\ jobs'[i].turn = jobs'[j].turn => i = j
    BY <1>1, <1>2, <1>4, <1>5 DEF Replied, Single, SameTask
  <2>2. \A j \in 1..Len(jobs') :
          jobs'[j].depth = 0 \/ (jobs'[j].depth = 1 /\ jobs'[j].tools = {})
    BY <1>1, <1>2, <1>3, <1>4 DEF Replied, Single, SameTask
  <2> QED
    BY <2>1, <2>2 DEF Single
<1>7. /\ abandoned' = abandoned
      /\ \A x \in Sends : x # jobs[current].turn => reply'[x] = reply[x]
  BY DEF FollowUp, Write, Shaped, TypeOK
<1>8. PICK n \in Ids' : Live(n)' /\ jobs'[n].turn = jobs[current].turn
  <2>1. Len(jobs) + 1 \in Ids'
    BY <1>1
  <2> QED
    BY <1>1, <1>2, <2>1 DEF Live
<1>9. ASSUME NEW x \in Sends \ abandoned', reply'[x] \in {"empty", "pending"}
      PROVE  \E j \in Ids' : Live(j)' /\ jobs'[j].turn = x
  <2>1. CASE x = jobs[current].turn
    BY <1>8, <2>1
  <2>2. CASE x # jobs[current].turn
    <3>1. PICK j \in Ids : Live(j) /\ jobs[j].turn = x
      BY <1>7, <1>9, <2>2 DEF Replied, PlaceholderLive
    <3>2. Live(j)' /\ jobs'[j].turn = x /\ j \in Ids'
      BY <1>1, <2>2, <3>1 DEF Live, SameTask
    <3> QED
      BY <3>2
  <2> QED
    BY <2>1, <2>2
<1> QED
  BY <1>6, <1>9 DEF Replied, PlaceholderLive

\* A restart queues the running job again and loses no writer.
LEMMA RestartReplied == ASSUME Shaped, Replied, Restart PROVE Replied'
<1>1. /\ Len(jobs') = Len(jobs) /\ Ids' = Ids
      /\ \A i \in Ids :
           /\ jobs'[i].status = IF jobs[i].status = "running" THEN "queued" ELSE jobs[i].status
           /\ SameTask(jobs'[i], jobs[i])
  BY Requeues DEF Restart
<1>2. \A i \in Ids : Live(i)' <=> Live(i)
  BY <1>1 DEF Live
<1>3. Single'
  BY <1>1, <1>2, KeptSingle DEF Live, Replied
<1>4. UNCHANGED <<reply, abandoned>>
  BY DEF Restart, talkVars
<1>5. PlaceholderLive'
  BY <1>1, <1>2, <1>4 DEF Replied, PlaceholderLive, SameTask
<1> QED
  BY <1>3, <1>5 DEF Replied

\* Replied is inductive, given Shaped.
LEMMA RepliedStep == ChatAssumption /\ Shaped /\ Replied /\ [Next]_vars => Replied'
<1> SUFFICES ASSUME ChatAssumption, Shaped, Replied, [Next]_vars PROVE Replied'
  OBVIOUS
<1>1. CASE UNCHANGED vars
  BY <1>1 DEF vars, talkVars, Replied, Single, PlaceholderLive, Live, Ids
<1> QED
  BY <1>1, SendReplied, TalkReplied, WorkReplied, FollowReplied, RestartReplied DEF Next

\* A new conversation has no turn and no job.
LEMMA InitChat == ChatAssumption /\ Init => Shaped /\ Replied
<1> SUFFICES ASSUME ChatAssumption, Init PROVE Shaped /\ Replied
  OBVIOUS
<1>1. /\ turns = <<>> /\ jobs = <<>> /\ 1..Len(turns) = {} /\ 1..Len(jobs) = {}
      /\ DOMAIN turns = {} /\ Ids = {} /\ turns \in Seq(Sends) /\ jobs \in Seq(Job)
  BY DEF Init, Ids
<1> QED
  <2>1. TypeOK
    <3>1. IsInjective(turns) /\ Turns = {}
      BY <1>1 DEF IsInjective, Turns
    <3>2. \A s \in Sends : reply[s] = None
      BY DEF Init
    <3>3. reply \in [Sends -> {None, "empty", "pending"} \cup Final] /\ downs \in 0..MaxDowns
      BY DEF Init, ChatAssumption
    <3> QED
      BY <1>1, <3>1, <3>2, <3>3 DEF Init, TypeOK
  <2>2. Shaped
    BY <1>1, <2>1 DEF Init, Shaped
  <2>3. Replied
    BY <1>1 DEF Init, Replied, Single, PlaceholderLive, ChatAssumption
  <2> QED
    BY <2>2, <2>3

-----------------------------------------------------------------------------
(* The theorems.                                                            *)

\* The two layers hold throughout.
LEMMA ChatInvariant == ASSUME ChatAssumption PROVE Spec => [](Shaped /\ Replied)
<1>1. Init => Shaped /\ Replied
  BY InitChat
<1>2. Shaped /\ Replied /\ [Next]_vars => (Shaped /\ Replied)'
  BY ShapedStep, RepliedStep
<1> QED
  BY <1>1, <1>2, PTL DEF Spec

\* A set whose elements are equal has one at most.
LEMMA AtMostOne ==
  ASSUME NEW S, \A x, y \in S : x = y
  PROVE  Cardinality(S) <= 1
<1>1. CASE S = {}
  BY <1>1, FS_EmptySet
<1>2. CASE S # {}
  <2>1. PICK x : S = {x}
    BY <1>2
  <2> QED
    BY <2>1, FS_Singleton
<1> QED
  BY <1>1, <1>2

\* Turns, messages and jobs keep their types, for any number of requests and restarts.
THEOREM TypeCorrect == ASSUME ChatAssumption PROVE Spec => []TypeOK
<1>1. Shaped => TypeOK
  BY DEF Shaped
<1> QED
  BY <1>1, ChatInvariant, PTL

\* At any moment one job at most can write a reply, and a tool call is followed up once,
\* for any number of requests, jobs, truncations and restarts.
THEOREM OneWriter == ASSUME ChatAssumption PROVE Spec => []OneJobPerReply
<1>1. ASSUME Shaped, Single PROVE OneJobPerReply
  <2>1. \A s \in Sends : Cardinality({j \in Ids : Live(j) /\ jobs[j].turn = s}) <= 1
    BY <1>1, AtMostOne, Rows DEF Single
  <2>2. \A j \in Ids : jobs[j].depth <= 1
    BY <1>1, Rows DEF Single
  <2> QED
    BY <2>1, <2>2 DEF OneJobPerReply
<1>2. Shaped /\ Replied => OneJobPerReply
  BY <1>1 DEF Replied
<1> QED
  BY <1>2, ChatInvariant, PTL

\* A message that is empty or says that something is pending has a job that will replace
\* it, unless a job of its turn was cancelled while queued.
THEOREM PendingAnswered == ASSUME ChatAssumption PROVE Spec => []PlaceholderLive
<1>1. Replied => PlaceholderLive
  BY DEF Replied
<1> QED
  BY <1>1, ChatInvariant, PTL
===============================================================================
