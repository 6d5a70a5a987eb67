------------------------- MODULE VoiceSessionProofs -------------------------
(***************************************************************************)
(* Proofs about VoiceSession: types, the session alone on the GPU, the     *)
(* lane in use, no orphaned streams or threads, and what a stop leaves.    *)
(***************************************************************************)
EXTENDS VoiceSession, SequenceTheorems, TLAPS

Waiting(r) == stage[r] \notin {"new", "over"}

\* What the audio thread has been asked for: the call of the request that holds
\* the lifecycle lock, behind one that it had begun when its request was cancelled.
Queued ==
  /\ \A i \in 1..Len(calls) :
       \/ stage[calls[i]] = "audio"
       \/ /\ i = 1 /\ audio # "idle" /\ calls[i] \in cancelled
          /\ stage[calls[i]] \in {"release", "restore", "over"}
  /\ \A i, j \in 1..Len(calls) : calls[i] = calls[j] => i = j
  /\ audio # "idle" => calls # <<>>
  /\ audio \in {"loading", "opening"} => calls[1] \in Starts

\* Who holds the two locks.
Held ==
  /\ TypeOK /\ Queued
  /\ \A r \in Clients : life = r <=> Waiting(r)
  /\ \A r \in Stops : stage[r] \in {"new", "audio", "release", "over"}
  /\ \A r \in Clients : stage[r] \in {"empty", "restore"} <=> lock = r
  /\ lock = "worker" <=> job = "loading"
  /\ lock # None => owner # "voice"

-----------------------------------------------------------------------------
(* The queue of the audio thread.                                           *)

\* The head of a queue, and what is left when it is served.
LEMMA Served ==
  ASSUME NEW S, NEW s \in Seq(S), s # <<>>
  PROVE  /\ Len(s) > 0 /\ Head(s) = s[1] /\ s[1] \in S
         /\ Tail(s) \in Seq(S) /\ Len(Tail(s)) = Len(s) - 1
         /\ \A k \in 1..Len(Tail(s)) : Tail(s)[k] = s[k + 1]
<1>1. Len(s) > 0 /\ Head(s) = s[1] /\ s[1] \in S
  OBVIOUS
<1> QED
  BY <1>1, HeadTailProperties

\* What is left when a call is dropped.
LEMMA Dropped ==
  ASSUME NEW S, NEW s \in Seq(S), NEW i \in 1..Len(s)
  PROVE  /\ RemoveAt(s, i) \in Seq(S) /\ Len(RemoveAt(s, i)) = Len(s) - 1
         /\ \A k \in 1..(Len(s) - 1) :
              RemoveAt(s, i)[k] = IF k < i THEN s[k] ELSE s[k + 1]
<1> DEFINE a == SubSeq(s, 1, i - 1)
           b == SubSeq(s, i + 1, Len(s))
<1>1. Len(s) \in Nat /\ \A k \in 1..Len(s) : s[k] \in S
  OBVIOUS
<1>2. /\ a \in Seq(S) /\ Len(a) = i - 1
      /\ \A k \in 1..(i - 1) : a[k] = s[k]
  <2>1. \A k \in 1..(i - 1) : s[k] \in S
    BY <1>1
  <2> QED
    BY <1>1, <2>1, SubSeqProperties, 1 \in Int, i - 1 \in Int
<1>3. /\ b \in Seq(S) /\ Len(b) = Len(s) - i
      /\ \A k \in 1..(Len(s) - i) : b[k] = s[i + k]
  <2>1. \A k \in (i + 1)..Len(s) : s[k] \in S
    BY <1>1
  <2> QED
    BY <1>1, <2>1, SubSeqProperties, i + 1 \in Int, Len(s) \in Int
<1>4. /\ a \o b \in Seq(S) /\ Len(a \o b) = Len(s) - 1
      /\ \A k \in 1..(Len(s) - 1) :
           (a \o b)[k] = IF k < i THEN s[k] ELSE s[k + 1]
  <2> HIDE DEF a, b
  <2>1. /\ a \o b \in Seq(S) /\ Len(a \o b) = Len(a) + Len(b)
        /\ \A k \in 1..(Len(a) + Len(b)) :
             (a \o b)[k] = IF k <= Len(a) THEN a[k] ELSE b[k - Len(a)]
    BY <1>2, <1>3, ConcatProperties
  <2>2. Len(a) + Len(b) = Len(s) - 1
    BY <1>1, <1>2, <1>3
  <2>3. ASSUME NEW k \in 1..(Len(s) - 1)
        PROVE  (a \o b)[k] = IF k < i THEN s[k] ELSE s[k + 1]
    <3>1. CASE k < i
      BY <1>1, <1>2, <2>1, <2>2, <3>1
    <3>2. CASE ~(k < i)
      <4>1. k - Len(a) = k - i + 1 /\ k - i + 1 \in 1..(Len(s) - i) /\ ~(k <= Len(a))
        BY <1>1, <1>2, <3>2
      <4>2. (a \o b)[k] = b[k - i + 1]
        BY <2>1, <2>2, <4>1
      <4>3. b[k - i + 1] = s[i + (k - i + 1)]
        BY <1>3, <4>1
      <4>4. i + (k - i + 1) = k + 1
        BY <1>1
      <4> QED
        BY <3>2, <4>2, <4>3, <4>4
    <3> QED
      BY <3>1, <3>2
  <2> QED
    BY <2>1, <2>2, <2>3
<1> QED
  BY <1>4 DEF RemoveAt

\* A request submits its call once, and waits for it.
LEMMA SubmitQueues ==
  ASSUME Held, NEW r \in Clients, Submit(r),
         stage[r] \in {"new", "reserve", "empty"}, life \in {None, r},
         UNCHANGED <<audio, cancelled>>
  PROVE  Queued' /\ calls' \in Seq(Clients)
<1>1. /\ calls' \in Seq(Clients) /\ Len(calls') = Len(calls) + 1
      /\ \A k \in 1..Len(calls) : calls'[k] = calls[k] /\ calls[k] \in Clients
      /\ calls'[Len(calls) + 1] = r /\ calls' # <<>> /\ Len(calls) \in Nat
  BY AppendProperties DEF Held, TypeOK, Submit
<1>2. \A k \in 1..Len(calls) : calls[k] # r
  BY <1>1 DEF Held, Queued
<1>3. stage' = [stage EXCEPT ![r] = "audio"]
  BY DEF Submit, Goto
<1> QED
  BY <1>1, <1>2, <1>3 DEF Held, Queued, TypeOK

\* The call at the head ends; the request behind it is another one.
LEMMA ReplyQueues ==
  ASSUME Held, NEW s \in {"release", "opened"}, Reply(s), calls # <<>>, UNCHANGED cancelled
  PROVE  Queued' /\ calls' \in Seq(Clients)
<1>1. /\ Len(calls) > 0 /\ Caller = calls[1] /\ calls[1] \in Clients /\ calls' = Tail(calls)
      /\ calls' \in Seq(Clients) /\ Len(calls') = Len(calls) - 1
      /\ \A k \in 1..Len(calls') : calls'[k] = calls[k + 1]
  BY Served DEF Held, TypeOK, Reply, Caller
<1>2. Len(calls) \in Nat /\ Len(calls') \in Nat
  BY <1>1 DEF Held, TypeOK
<1>3. \A k \in 1..Len(calls') :
        calls'[k] \in Clients /\ calls'[k] # Caller /\ stage[calls'[k]] = "audio"
  BY <1>1, <1>2 DEF Held, Queued, TypeOK
<1>4. \A k \in 1..Len(calls') : stage'[calls'[k]] = "audio"
  BY <1>1, <1>3 DEF Reply, Goto, Held, TypeOK
<1>5. \A i, j \in 1..Len(calls') : calls'[i] = calls'[j] => i = j
  BY <1>1, <1>2 DEF Held, Queued
<1> QED
  BY <1>1, <1>4, <1>5 DEF Queued, Reply

\* A request that is not served moves on.
LEMMA MoveQueues ==
  ASSUME Held, NEW r \in Clients, NEW s \in {"begun", "reserve", "empty", "restore", "over"},
         Goto(r, s),
         stage[r] \in {"new", "begun", "reserve", "empty", "opened", "release", "restore"},
         stage[r] \in {"release", "restore"} => s \in {"restore", "over"},
         UNCHANGED <<calls, audio>>, cancelled \subseteq cancelled'
  PROVE  Queued'
<1>1. Len(calls) \in Nat /\ \A k \in 1..Len(calls) : calls[k] \in Clients
  BY DEF Held, TypeOK
<1>2. stage' = [stage EXCEPT ![r] = s]
  BY DEF Goto
<1> QED
  BY <1>1, <1>2 DEF Held, Queued, TypeOK

\* A call that has not begun is dropped; one that has stays at the head.
LEMMA CancelQueues ==
  ASSUME Held, NEW r \in Clients, CancelCall(r), cancelled' = cancelled \cup {r}
  PROVE  Queued' /\ calls' \in Seq(Clients)
<1>1. Len(calls) \in Nat /\ \A k \in 1..Len(calls) : calls[k] \in Clients
  BY DEF Held, TypeOK
<1>2. stage' = [stage EXCEPT ![r] = "release"] /\ audio' = audio
  BY DEF CancelCall, Goto
<1>4. (calls # <<>> <=> Len(calls) > 0) /\ (calls # <<>> => Head(calls) = calls[1])
  BY Served DEF Held, TypeOK
<1>5. \A k \in 1..Len(calls) : stage[calls[k]] = "audio" => calls[k] = life
  BY <1>1 DEF Held, Waiting
<1>3. ASSUME NEW i \in 1..Len(calls), calls[i] = r, ~Running(r), calls' = RemoveAt(calls, i)
      PROVE  Queued' /\ calls' \in Seq(Clients)
  <2>1. /\ calls' \in Seq(Clients) /\ Len(calls') = Len(calls) - 1
        /\ \A k \in 1..(Len(calls) - 1) : calls'[k] = IF k < i THEN calls[k] ELSE calls[k + 1]
    <3>1. calls \in Seq(Clients)
      BY DEF Held, TypeOK
    <3> QED
      BY <1>3, <3>1, Dropped
  <2>2. calls # <<>> /\ (i = 1 => audio = "idle")
    <3>1. Len(calls) > 0
      BY <1>1
    <3> QED
      BY <1>3, <1>4, <3>1 DEF Running
  <2>3. stage[r] = "audio" /\ life = r /\ \A k \in 1..Len(calls) : k # i => calls[k] # r
    BY <1>1, <1>3, <2>2 DEF Held, Queued, CancelCall, Waiting
  <2>4. ASSUME NEW k \in 1..Len(calls), k # i PROVE k = 1 /\ audio # "idle" /\ i # 1
    <3>1. stage[calls[k]] # "audio"
      BY <1>5, <2>3, <2>4
    <3> QED
      BY <2>2, <2>4, <3>1 DEF Held, Queued
  <2>5. i # 1 => i = 2 /\ Len(calls) = 2
    <3>1. ASSUME i # 1 PROVE i = 2
      <4>1. 2 \in 1..Len(calls)
        BY <1>1, <1>3, <3>1
      <4> QED
        BY <2>4, <4>1
    <3>2. ASSUME i # 1, Len(calls) # 2 PROVE FALSE
      <4>1. i = 2 /\ 3 \in 1..Len(calls)
        BY <1>1, <1>3, <3>1, <3>2
      <4> QED
        BY <2>4, <4>1
    <3> QED
      BY <3>1, <3>2
  <2>6. i = 1 => Len(calls) = 1
    <3>1. ASSUME i = 1, Len(calls) # 1 PROVE FALSE
      <4>1. 2 \in 1..Len(calls)
        BY <1>1, <1>3, <3>1
      <4> QED
        BY <2>4, <3>1, <4>1
    <3> QED
      BY <3>1
  <2>7. CASE i = 1
    <3>1. 1..Len(calls') = {}
      <4>1. Len(calls) = 1 /\ Len(calls') = Len(calls) - 1
        BY <2>1, <2>6, <2>7
      <4>2. Len(calls') = 0
        BY <4>1
      <4> QED
        BY <4>2
    <3> QED
      BY <1>2, <2>1, <2>2, <2>7, <3>1 DEF Queued
  <2>8. CASE i # 1
    <3>1. Len(calls') = 1 /\ calls'[1] = calls[1] /\ calls[1] # r /\ audio # "idle"
      <4>1. i = 2 /\ Len(calls) = 2 /\ 1 \in 1..Len(calls)
        BY <2>5, <2>8
      <4> QED
        BY <2>1, <2>3, <2>4, <4>1
    <3>2. calls' # <<>> /\ stage'[calls'[1]] = stage[calls[1]] /\ stage[calls[1]] # "audio"
      BY <1>1, <1>2, <1>5, <2>3, <2>5, <3>1 DEF Held, TypeOK
    <3> QED
      BY <1>1, <1>2, <2>1, <2>5, <3>1, <3>2 DEF Held, Queued, TypeOK
  <2> QED
    BY <2>7, <2>8
<1>6. CASE UNCHANGED calls /\ Running(r)
  <2>1. calls[1] = r /\ Len(calls) > 0 /\ audio # "idle"
    BY <1>6, Served DEF Held, TypeOK, Running
  <2> QED
    BY <1>1, <1>2, <1>6, <2>1 DEF Held, Queued, TypeOK
<1>7. CASE UNCHANGED calls /\ stage[r] = "opened"
  BY <1>1, <1>2, <1>7 DEF Held, Queued, TypeOK
<1> QED
  BY <1>3, <1>6, <1>7 DEF CancelCall, Held, TypeOK

-----------------------------------------------------------------------------
(* Who holds the locks and what the audio thread has to do.                 *)

\* No step of a request disturbs the locks and the queue.
LEMMA RequestHeld ==
  ASSUME Held, NEW r \in Clients, Request(r)
  PROVE  Held'
<1> USE RequestsAssumption
    DEF Held, TypeOK, Waiting, Clients, Goto, Leave, apiVars, audioVars, deviceVars, gpuVars
<1>1. CASE TakeLife(r)
  <2>1. Queued'
    BY <1>1, MoveQueues DEF TakeLife
  <2> QED
    BY <1>1, <2>1 DEF TakeLife
<1>2. CASE StartChecks(r)
  <2>1. Queued'
    BY <1>2, MoveQueues DEF StartChecks
  <2> QED
    BY <1>2, <2>1 DEF StartChecks
<1>3. CASE Refused(r)
  <2>1. Queued'
    BY <1>3, MoveQueues DEF Refused
  <2> QED
    BY <1>3, <2>1 DEF Refused
<1>4. CASE Reserve(r) /\ owner = "model"
  <2>1. Queued'
    BY <1>4, MoveQueues DEF Reserve
  <2> QED
    BY <1>4, <2>1 DEF Reserve
<1>5. CASE Reserve(r) /\ owner = "none"
  <2>1. Queued' /\ calls' \in Seq(Clients)
    BY <1>5, SubmitQueues DEF Reserve
  <2> QED
    BY <1>5, <2>1 DEF Reserve, Submit
<1>6. CASE Reserved(r)
  <2>1. Queued' /\ calls' \in Seq(Clients)
    BY <1>6, SubmitQueues DEF Reserved
  <2> QED
    BY <1>6, <2>1 DEF Reserved, Submit
<1>7. CASE UnloadFails(r)
  <2>1. Queued'
    BY <1>7, MoveQueues DEF UnloadFails
  <2> QED
    BY <1>7, <2>1 DEF UnloadFails
<1>8. CASE StopCalls(r)
  <2>1. Queued' /\ calls' \in Seq(Clients)
    BY <1>8, SubmitQueues DEF StopCalls
  <2> QED
    BY <1>8, <2>1 DEF StopCalls, Submit
<1>9. CASE Started(r)
  <2>1. Queued'
    BY <1>9, MoveQueues DEF Started
  <2> QED
    BY <1>9, <2>1 DEF Started
<1>10. CASE ReleaseLane(r)
  <2>1. Queued'
    BY <1>10, MoveQueues DEF ReleaseLane
  <2> QED
    BY <1>10, <2>1 DEF ReleaseLane
<1>11. CASE Restore(r)
  <2>1. Queued'
    BY <1>11, MoveQueues DEF Restore
  <2> QED
    BY <1>11, <2>1 DEF Restore
<1> QED
  BY <1>1, <1>2, <1>3, <1>4, <1>5, <1>6, <1>7, <1>8, <1>9, <1>10, <1>11 DEF Request, Reserve

\* Nor does a cancellation, wherever the request is suspended.
LEMMA CancelHeld ==
  ASSUME Held, NEW r \in Clients, Cancel(r)
  PROVE  Held'
<1> USE RequestsAssumption
    DEF Held, TypeOK, Waiting, Clients, Goto, Leave, apiVars, audioVars, deviceVars, gpuVars
<1>1. CASE CancelEarly(r)
  <2>1. Queued'
    BY <1>1, MoveQueues DEF CancelEarly, Cancel
  <2> QED
    BY <1>1, <2>1 DEF CancelEarly, Cancel
<1>2. CASE CancelUnload(r)
  <2>1. Queued'
    BY <1>2, MoveQueues DEF CancelUnload, Cancel
  <2> QED
    BY <1>2, <2>1 DEF CancelUnload, Cancel
<1>3. CASE CancelCall(r)
  <2>1. Queued' /\ calls' \in Seq(Clients)
    BY <1>3, CancelQueues DEF Cancel
  <2> QED
    BY <1>3, <2>1 DEF CancelCall, Cancel
<1>4. CASE CancelRelease(r)
  <2>1. Queued'
    BY <1>4, MoveQueues DEF CancelRelease, Cancel
  <2> QED
    BY <1>4, <2>1 DEF CancelRelease, Cancel
<1>5. CASE CancelRestore(r)
  <2>1. Queued'
    BY <1>5, MoveQueues DEF CancelRestore, Cancel
  <2> QED
    BY <1>5, <2>1 DEF CancelRestore, Cancel
<1> QED
  BY <1>1, <1>2, <1>3, <1>4, <1>5 DEF Cancel

\* The request whose call the audio thread works on.
LEMMA CallersTurn ==
  ASSUME Held
  PROVE  /\ audio # "idle" => calls # <<>>
         /\ calls # <<>> =>
              /\ Caller = calls[1] /\ Caller \in Clients /\ Len(calls) > 0
              /\ \/ stage[Caller] = "audio"
                 \/ /\ audio # "idle" /\ Caller \in cancelled
                    /\ stage[Caller] \in {"release", "restore", "over"}
         /\ audio \in {"loading", "opening"} => Caller \in Starts
<1>1. calls # <<>> => Caller = calls[1] /\ calls[1] \in Clients /\ Len(calls) > 0
  BY Served DEF Held, TypeOK, Caller
<1>2. calls # <<>> => 1 \in 1..Len(calls)
  BY <1>1 DEF Held, TypeOK
<1> QED
  BY <1>1, <1>2 DEF Held, Queued

\* Nor does a step of the audio thread.
LEMMA AudioHeld ==
  ASSUME Held, AudioThread
  PROVE  Held'
<1> USE RequestsAssumption
    DEF Held, TypeOK, Waiting, Clients, Goto, Leave, apiVars, audioVars, deviceVars, gpuVars
<1>1. CASE StartCall /\ session # None
  <2>1. Queued' /\ calls' \in Seq(Clients)
    BY <1>1, CallersTurn, ReplyQueues DEF StartCall, Idle
  <2> QED
    BY <1>1, <2>1, CallersTurn DEF StartCall, Idle, Reply
<1>2. CASE StartCall /\ session = None
  BY <1>2, CallersTurn DEF Queued, StartCall, Idle
<1>3. CASE OpenDevices
  BY <1>3, CallersTurn DEF Queued, OpenDevices
<1>4. CASE OpenOk
  <2>1. Queued' /\ calls' \in Seq(Clients)
    BY <1>4, CallersTurn, ReplyQueues DEF OpenOk
  <2> QED
    BY <1>4, <2>1, CallersTurn DEF OpenOk, Reply
<1>5. CASE StartFails
  BY <1>5, CallersTurn DEF Queued, StartFails
<1>6. CASE StopCall /\ session = None
  <2>1. Queued' /\ calls' \in Seq(Clients)
    BY <1>6, CallersTurn, ReplyQueues DEF StopCall, Idle
  <2> QED
    BY <1>6, <2>1, CallersTurn DEF StopCall, Idle, Reply
<1>7. CASE StopCall /\ session # None
  BY <1>7, CallersTurn DEF Queued, StopCall, Idle
<1>8. CASE Closed
  <2>1. Queued' /\ calls' \in Seq(Clients)
    BY <1>8, CallersTurn, ReplyQueues DEF Closed
  <2> QED
    BY <1>8, <2>1, CallersTurn DEF Closed, Reply
<1> QED
  BY <1>1, <1>2, <1>3, <1>4, <1>5, <1>6, <1>7, <1>8 DEF AudioThread

\* Nor do the worker, other users of the GPU and the end of a thread.
LEMMA OtherHeld ==
  ASSUME Held,
         Worker \/ OtherUse \/ (\E s \in Starts : ThreadEnds(s)) \/ UNCHANGED vars
  PROVE  Held'
<1> USE RequestsAssumption
    DEF Held, TypeOK, Waiting, Clients, Goto, Leave, apiVars, audioVars, deviceVars, gpuVars
<1>1. CASE Worker
  BY <1>1 DEF Queued, Worker, Pick, BeginRun, Acquire, Loaded, LoadFails, JobEnds, Working
<1>2. CASE OtherUse
  BY <1>2 DEF Queued, OtherUse
<1>3. CASE \E s \in Starts : ThreadEnds(s)
  BY <1>3 DEF Queued, ThreadEnds
<1>4. CASE UNCHANGED vars
  BY <1>4 DEF Queued, vars
<1> QED
  BY <1>1, <1>2, <1>3, <1>4

\* At the start nobody has asked for anything.
LEMMA InitHeld == Init => Held
  BY RequestsAssumption DEF Init, Held, TypeOK, Queued, Waiting, Clients

\* Held is inductive.
LEMMA HeldStep == Held /\ [Next]_vars => Held'
<1> SUFFICES ASSUME Held, [Next]_vars PROVE Held'
  OBVIOUS
<1>1. CASE Over
  BY <1>1, OtherHeld DEF Over
<1> QED
  BY <1>1, RequestHeld, CancelHeld, AudioHeld, OtherHeld DEF Next

\* Held holds throughout.
LEMMA HeldInvariant == Spec => []Held
  BY InitHeld, HeldStep, PTL DEF Spec

\* Every attribute of the session, its requests and its threads keeps its type,
\* for any number of requests, cancelled or not.
THEOREM TypeCorrect == Spec => []TypeOK
  BY HeldInvariant, PTL DEF Held

-----------------------------------------------------------------------------
(* What is left of a session.                                               *)

\* The session that the audio thread is closing.
Closing == IF Caller \in Stops THEN session ELSE Caller

\* No session is live while one is being opened, and one that is being closed was
\* told.
Devices ==
  /\ NoOrphans
  /\ audio \in {"loading", "opening"} => session = None
  /\ audio = "closing" => Closing \in told /\ (Caller \in Starts => session = None)

\* The queue of a busy audio thread grows at its end and shrinks behind its head.
LEMMA HeadKept ==
  ASSUME Held, Held', audio # "idle", UNCHANGED audio,
         \/ UNCHANGED calls
         \/ \E r \in Clients : Submit(r)
         \/ \E r \in Clients : CancelCall(r)
  PROVE  Caller' = Caller
<1>1. calls # <<>> /\ Caller = calls[1] /\ calls' # <<>> /\ Caller' = calls'[1] /\ Len(calls) > 0
  BY CallersTurn, Served DEF Held, TypeOK, Queued, Caller
<1>2. ASSUME NEW r \in Clients, Submit(r) PROVE calls'[1] = calls[1]
  BY <1>1, <1>2, AppendProperties DEF Submit, Held, TypeOK
<1>3. ASSUME NEW r \in Clients, CancelCall(r) PROVE calls'[1] = calls[1]
  <2>1. ASSUME NEW i \in 1..Len(calls), calls[i] = r, ~Running(r), calls' = RemoveAt(calls, i)
        PROVE  calls'[1] = calls[1]
    <3>1. i # 1
      BY <1>1, <2>1 DEF Running, Caller
    <3>2. Len(calls) \in Nat /\ calls \in Seq(Clients)
      BY DEF Held, TypeOK
    <3>3. 1 \in 1..(Len(calls) - 1) /\ 1 < i
      BY <3>1, <3>2
    <3> QED
      BY <2>1, <3>2, <3>3, Dropped
  <2> QED
    BY <1>3, <2>1 DEF CancelCall, Held, TypeOK
<1> QED
  BY <1>1, <1>2, <1>3

\* Neither a request nor a cancellation opens or closes anything.
LEMMA RequestDevices ==
  ASSUME Held, Held', Devices, NEW r \in Clients, Request(r) \/ Cancel(r)
  PROVE  Devices'
<1>1. UNCHANGED <<audio, session, deviceVars>>
  BY DEF Request, TakeLife, StartChecks, Refused, Reserve, Reserved, UnloadFails, StopCalls,
         Started, ReleaseLane, Restore, Cancel, CancelEarly, CancelUnload, CancelCall,
         CancelRelease, CancelRestore, audioVars, deviceVars
<1>2. audio # "idle" => Caller' = Caller
  BY <1>1, HeadKept
     DEF Request, TakeLife, StartChecks, Refused, Reserve, Reserved, UnloadFails, StopCalls,
         Started, ReleaseLane, Restore, Cancel, CancelEarly, CancelUnload,
         CancelRelease, CancelRestore, audioVars, deviceVars
<1> QED
  BY <1>1, <1>2 DEF Devices, NoOrphans, Opening, Closing, deviceVars, Held, TypeOK

\* The audio thread closes what it opened before it turns to another call.
LEMMA AudioDevices ==
  ASSUME Held, Held', Devices, AudioThread
  PROVE  Devices'
<1> USE RequestsAssumption
    DEF Held, TypeOK, Devices, NoOrphans, Opening, Closing, Clients, Goto, Leave,
        apiVars, audioVars, deviceVars, gpuVars
<1>1. CASE StartCall
  BY <1>1, CallersTurn DEF Idle, StartCall, Reply, Caller
<1>2. CASE OpenDevices
  BY <1>2, CallersTurn DEF OpenDevices, Caller
<1>3. CASE OpenOk
  BY <1>3, CallersTurn DEF OpenOk, Reply
<1>4. CASE StartFails
  BY <1>4, CallersTurn DEF StartFails, Caller
<1>5. CASE StopCall
  BY <1>5, CallersTurn DEF Idle, StopCall, Reply, Caller
<1>6. CASE Closed
  BY <1>6, CallersTurn DEF Closed, Reply
<1> QED
  BY <1>1, <1>2, <1>3, <1>4, <1>5, <1>6 DEF AudioThread

\* Nor does the worker, another user of the GPU or a thread that ends leave any.
LEMMA OtherDevices ==
  ASSUME Held, Held', Devices,
         Worker \/ OtherUse \/ (\E s \in Starts : ThreadEnds(s)) \/ UNCHANGED vars
  PROVE  Devices'
<1>1. UNCHANGED <<audio, calls, session, streams, told>> /\ threads' \subseteq threads
  BY DEF Worker, Pick, BeginRun, Acquire, Loaded, LoadFails, JobEnds, Working, OtherUse,
         ThreadEnds, vars, audioVars, deviceVars
<1> QED
  BY <1>1 DEF Devices, NoOrphans, Opening, Closing, Caller

\* Devices is inductive, given Held.
LEMMA DevicesStep == Held /\ Held' /\ Devices /\ [Next]_vars => Devices'
<1> SUFFICES ASSUME Held, Held', Devices, [Next]_vars PROVE Devices'
  OBVIOUS
<1>1. CASE Over
  BY <1>1, OtherDevices DEF Over
<1> QED
  BY <1>1, RequestDevices, AudioDevices, OtherDevices DEF Next

\* At the start no device is open.
LEMMA InitDevices == Init => Devices
  BY DEF Init, Devices, NoOrphans, Opening

\* Devices holds throughout.
LEMMA DevicesInvariant == Spec => []Devices
  BY InitDevices, DevicesStep, HeldInvariant, PTL DEF Spec

\* No stream stays open, and no conversion thread runs that nobody told to stop, but for
\* the live session and the one the audio thread works on, however many starts fail or
\* are cancelled in whichever of their awaits.
THEOREM NothingOrphaned == Spec => []NoOrphans
  BY DevicesInvariant, PTL DEF Devices

-----------------------------------------------------------------------------
(* The lane.                                                                *)

\* Behind the request that the audio thread answers nobody waits.
LEMMA LastCall ==
  ASSUME Held, NEW s \in {"release", "opened"}, Reply(s), calls # <<>>, stage[Caller] = "audio"
  PROVE  calls' = <<>>
<1>1. /\ Len(calls) \in Nat /\ \A k \in 1..Len(calls) : calls[k] \in Clients
      /\ Caller = calls[1] /\ calls' \in Seq(Clients) /\ Len(calls') = Len(calls) - 1
      /\ Len(calls) > 0
  BY Served, CallersTurn DEF Held, TypeOK, Reply
<1>2. ASSUME Len(calls) # 1 PROVE FALSE
  <2>1. 2 \in 1..Len(calls) /\ 1 \in 1..Len(calls)
    BY <1>1, <1>2
  <2>2. stage[calls[2]] = "audio" /\ calls[2] # calls[1]
    BY <2>1 DEF Held, Queued
  <2> QED
    BY <1>1, <2>1, <2>2 DEF Held, Waiting
<1> QED
  BY <1>1, <1>2

\* The voice lane belongs to a session, or to the request that is about to have one
\* or to give the lane back.
Laned ==
  owner = "voice" =>
    \/ life # None /\ stage[life] \in {"audio", "release"}
    \/ session # None /\ calls = <<>>

\* A request that is answered leaves no lane without a session.
LEMMA RequestLaned ==
  ASSUME Held, Laned, NEW r \in Clients, Request(r)
  PROVE  Laned'
<1> USE RequestsAssumption
    DEF Held, TypeOK, Waiting, Laned, Clients, Goto, Leave, apiVars, audioVars,
        deviceVars, gpuVars
<1>1. CASE TakeLife(r)
  BY <1>1 DEF TakeLife
<1>2. CASE StartChecks(r)
  BY <1>2 DEF StartChecks
<1>3. CASE Refused(r)
  BY <1>3 DEF Refused
<1>4. CASE Reserve(r)
  BY <1>4 DEF Reserve, Submit
<1>5. CASE Reserved(r)
  BY <1>5 DEF Reserved, Submit
<1>6. CASE UnloadFails(r)
  BY <1>6 DEF UnloadFails
<1>7. CASE StopCalls(r)
  BY <1>7 DEF StopCalls, Submit
<1>8. CASE Started(r)
  BY <1>8 DEF Started
<1>9. CASE ReleaseLane(r)
  BY <1>9 DEF ReleaseLane
<1>10. CASE Restore(r)
  BY <1>10 DEF Restore
<1> QED
  BY <1>1, <1>2, <1>3, <1>4, <1>5, <1>6, <1>7, <1>8, <1>9, <1>10 DEF Request

\* Nor does one that is cancelled.
LEMMA CancelLaned ==
  ASSUME Held, Laned, NEW r \in Clients, Cancel(r)
  PROVE  Laned'
<1> USE RequestsAssumption
    DEF Held, TypeOK, Waiting, Laned, Clients, Goto, Leave, apiVars, audioVars,
        deviceVars, gpuVars
<1>1. CASE CancelEarly(r)
  BY <1>1 DEF CancelEarly, Cancel
<1>2. CASE CancelUnload(r)
  BY <1>2 DEF CancelUnload, Cancel
<1>3. CASE CancelCall(r)
  BY <1>3 DEF CancelCall, Cancel
<1>4. CASE CancelRelease(r)
  BY <1>4 DEF CancelRelease, Cancel
<1>5. CASE CancelRestore(r)
  BY <1>5 DEF CancelRestore, Cancel
<1> QED
  BY <1>1, <1>2, <1>3, <1>4, <1>5 DEF Cancel

\* Nor does the audio thread, which answers before the request goes on.
LEMMA AudioLaned ==
  ASSUME Held, Laned, AudioThread
  PROVE  Laned'
<1> USE RequestsAssumption
    DEF Held, TypeOK, Waiting, Laned, Clients, Goto, Leave, apiVars, audioVars,
        deviceVars, gpuVars
<1>1. CASE StartCall
  BY <1>1, CallersTurn, LastCall DEF Idle, StartCall, Reply
<1>2. CASE OpenDevices
  BY <1>2, CallersTurn DEF OpenDevices
<1>3. CASE OpenOk
  BY <1>3, CallersTurn, LastCall DEF OpenOk, Reply
<1>4. CASE StartFails
  BY <1>4, CallersTurn DEF StartFails
<1>5. CASE StopCall
  BY <1>5, CallersTurn, LastCall DEF Idle, StopCall, Reply
<1>6. CASE Closed
  BY <1>6, CallersTurn, LastCall DEF Closed, Reply
<1> QED
  BY <1>1, <1>2, <1>3, <1>4, <1>5, <1>6 DEF AudioThread

\* Nobody else gives the lane.
LEMMA OtherLaned ==
  ASSUME Held, Laned,
         Worker \/ OtherUse \/ (\E s \in Starts : ThreadEnds(s)) \/ UNCHANGED vars
  PROVE  Laned'
<1> USE RequestsAssumption
    DEF Held, TypeOK, Waiting, Laned, Clients, Goto, Leave, apiVars, audioVars,
        deviceVars, gpuVars
<1>1. CASE Worker
  BY <1>1 DEF Worker, Pick, BeginRun, Acquire, Loaded, LoadFails, JobEnds, Working
<1>2. CASE OtherUse
  BY <1>2 DEF OtherUse
<1>3. CASE \E s \in Starts : ThreadEnds(s)
  BY <1>3 DEF ThreadEnds
<1>4. CASE UNCHANGED vars
  BY <1>4 DEF vars
<1> QED
  BY <1>1, <1>2, <1>3, <1>4

\* Laned is inductive, given Held.
LEMMA LanedStep == Held /\ Laned /\ [Next]_vars => Laned'
<1> SUFFICES ASSUME Held, Laned, [Next]_vars PROVE Laned'
  OBVIOUS
<1>1. CASE Over
  BY <1>1, OtherLaned DEF Over
<1> QED
  BY <1>1, RequestLaned, CancelLaned, AudioLaned, OtherLaned DEF Next

\* Once every request is answered the lane stands for a live session: no refused, failed
\* or cancelled request leaves the queue parked behind it.
THEOREM LaneIsUsed == Spec => []LaneInUse
<1>1. Init => Laned
  BY DEF Init, Laned
<1>2. Laned => LaneInUse
  BY DEF Laned, LaneInUse
<1> QED
  BY <1>1, <1>2, LanedStep, HeldInvariant, PTL DEF Spec

-----------------------------------------------------------------------------
(* The GPU is handed over whole.                                            *)

\* As long as nobody was cancelled, a session is live or about to be only where the
\* lane is, and a request that asks for the lane or gives it back sees no session.
Alone ==
  cancelled = {} =>
    /\ session # None => owner = "voice"
    /\ \A r \in Starts :
         /\ stage[r] = "audio" => owner = "voice"
         /\ stage[r] \in {"reserve", "empty", "audio", "release", "restore"} => session = None
    /\ \A r \in Stops : stage[r] = "release" => session = None

\* No request takes the lane from a session or one that is about to be.
LEMMA RequestAlone ==
  ASSUME Held, Devices, Alone, NEW r \in Clients, Request(r)
  PROVE  Alone'
<1> USE RequestsAssumption
    DEF Held, TypeOK, Devices, Closing, Waiting, Alone,
        Clients, Goto, Leave, apiVars, audioVars, deviceVars, gpuVars
<1>1. CASE TakeLife(r)
  BY <1>1 DEF TakeLife
<1>2. CASE StartChecks(r)
  BY <1>2 DEF StartChecks
<1>3. CASE Refused(r)
  BY <1>3 DEF Refused
<1>4. CASE Reserve(r)
  BY <1>4 DEF Reserve, Submit
<1>5. CASE Reserved(r)
  BY <1>5 DEF Reserved, Submit
<1>6. CASE UnloadFails(r)
  BY <1>6 DEF UnloadFails
<1>7. CASE StopCalls(r)
  BY <1>7 DEF StopCalls, Submit
<1>8. CASE Started(r)
  BY <1>8 DEF Started
<1>9. CASE ReleaseLane(r)
  BY <1>9 DEF ReleaseLane
<1>10. CASE Restore(r)
  BY <1>10 DEF Restore
<1> QED
  BY <1>1, <1>2, <1>3, <1>4, <1>5, <1>6, <1>7, <1>8, <1>9, <1>10 DEF Request

\* After a cancellation nothing is claimed.
LEMMA CancelAlone ==
  ASSUME Held, Devices, Alone, NEW r \in Clients, Cancel(r)
  PROVE  Alone'
<1> USE RequestsAssumption
    DEF Held, TypeOK, Devices, Closing, Waiting, Alone,
        Clients, Goto, Leave, apiVars, audioVars, deviceVars, gpuVars
<1>1. CASE CancelEarly(r)
  BY <1>1 DEF CancelEarly, Cancel
<1>2. CASE CancelUnload(r)
  BY <1>2 DEF CancelUnload, Cancel
<1>3. CASE CancelCall(r)
  BY <1>3 DEF CancelCall, Cancel
<1>4. CASE CancelRelease(r)
  BY <1>4 DEF CancelRelease, Cancel
<1>5. CASE CancelRestore(r)
  BY <1>5 DEF CancelRestore, Cancel
<1> QED
  BY <1>1, <1>2, <1>3, <1>4, <1>5 DEF Cancel

\* The audio thread opens a session only where the lane is.
LEMMA AudioAlone ==
  ASSUME Held, Devices, Alone, AudioThread
  PROVE  Alone'
<1> USE RequestsAssumption
    DEF Held, TypeOK, Devices, Closing, Waiting, Alone,
        Clients, Goto, Leave, apiVars, audioVars, deviceVars, gpuVars
<1>1. CASE StartCall
  BY <1>1, CallersTurn DEF Idle, StartCall, Reply
<1>2. CASE OpenDevices
  BY <1>2, CallersTurn DEF OpenDevices
<1>3. CASE OpenOk
  BY <1>3, CallersTurn DEF OpenOk, Reply
<1>4. CASE StartFails
  BY <1>4, CallersTurn DEF StartFails
<1>5. CASE StopCall
  BY <1>5, CallersTurn DEF Idle, StopCall, Reply
<1>6. CASE Closed
  BY <1>6, CallersTurn DEF Closed, Reply
<1> QED
  BY <1>1, <1>2, <1>3, <1>4, <1>5, <1>6 DEF AudioThread

\* The worker and the other users of the GPU find the lane before they load.
LEMMA OtherAlone ==
  ASSUME Held, Devices, Alone,
         Worker \/ OtherUse \/ (\E s \in Starts : ThreadEnds(s)) \/ UNCHANGED vars
  PROVE  Alone'
<1> USE RequestsAssumption
    DEF Held, TypeOK, Devices, Closing, Waiting, Alone,
        Clients, Goto, Leave, apiVars, audioVars, deviceVars, gpuVars
<1>1. CASE Worker
  BY <1>1 DEF Worker, Pick, BeginRun, Acquire, Loaded, LoadFails, JobEnds, Working
<1>2. CASE OtherUse
  BY <1>2 DEF OtherUse
<1>3. CASE \E s \in Starts : ThreadEnds(s)
  BY <1>3 DEF ThreadEnds
<1>4. CASE UNCHANGED vars
  BY <1>4 DEF vars
<1> QED
  BY <1>1, <1>2, <1>3, <1>4

\* Alone is inductive, given the layers before it.
LEMMA AloneStep == Held /\ Devices /\ Alone /\ [Next]_vars => Alone'
<1> SUFFICES ASSUME Held, Devices, Alone, [Next]_vars PROVE Alone'
  OBVIOUS
<1>1. CASE Over
  BY <1>1, OtherAlone DEF Over
<1> QED
  BY <1>1, RequestAlone, CancelAlone, AudioAlone, OtherAlone DEF Next

\* What the audio thread opens is the session of a start that waits with the lane.
LEMMA AloneMeans == Held /\ Alone => VoiceAlone
<1> SUFFICES ASSUME Held, Alone, cancelled = {}, SessionUsesGpu PROVE owner = "voice"
  BY DEF VoiceAlone
<1>1. CASE audio \in {"loading", "opening"}
  BY <1>1, CallersTurn DEF Alone, Held
<1> QED
  BY <1>1 DEF SessionUsesGpu, Alone

\* While no request has been cancelled, a session that is live or being opened has the
\* GPU for itself, whatever the worker decided before the handoff, for any number of
\* starts and stops.
THEOREM SessionAlone == Spec => []VoiceAlone
<1>1. Init => Alone
  BY DEF Init, Alone, Clients
<1> QED
  BY <1>1, AloneStep, AloneMeans, HeldInvariant, DevicesInvariant, PTL DEF Spec

-----------------------------------------------------------------------------
(* What a stop leaves.                                                      *)

\* A stop that was not cancelled gives the lane back only when all else is gone.
Cleared ==
  \A r \in Stops \ cancelled :
    stage[r] = "release" => session = None /\ streams = {} /\ calls = <<>>

\* While a stop gives the lane back no other request gets on.
LEMMA RequestCleared ==
  ASSUME Held, Devices, Cleared, NEW r \in Clients, Request(r)
  PROVE  Cleared'
<1> USE RequestsAssumption
    DEF Held, TypeOK, Devices, NoOrphans, Opening, Closing, Waiting, Cleared,
        Clients, Goto, Leave, apiVars, audioVars, deviceVars, gpuVars
<1>1. CASE TakeLife(r)
  BY <1>1 DEF TakeLife
<1>2. CASE StartChecks(r)
  BY <1>2 DEF StartChecks
<1>3. CASE Refused(r)
  BY <1>3 DEF Refused
<1>4. CASE Reserve(r)
  BY <1>4 DEF Reserve, Submit
<1>5. CASE Reserved(r)
  BY <1>5 DEF Reserved, Submit
<1>6. CASE UnloadFails(r)
  BY <1>6 DEF UnloadFails
<1>7. CASE StopCalls(r)
  BY <1>7 DEF StopCalls, Submit
<1>8. CASE Started(r)
  BY <1>8 DEF Started
<1>9. CASE ReleaseLane(r)
  BY <1>9 DEF ReleaseLane
<1>10. CASE Restore(r)
  BY <1>10 DEF Restore
<1> QED
  BY <1>1, <1>2, <1>3, <1>4, <1>5, <1>6, <1>7, <1>8, <1>9, <1>10 DEF Request

\* Nor does one that is cancelled.
LEMMA CancelCleared ==
  ASSUME Held, Devices, Cleared, NEW r \in Clients, Cancel(r)
  PROVE  Cleared'
<1> USE RequestsAssumption
    DEF Held, TypeOK, Devices, NoOrphans, Opening, Closing, Waiting, Cleared,
        Clients, Goto, Leave, apiVars, audioVars, deviceVars, gpuVars
<1>1. CASE CancelEarly(r)
  BY <1>1 DEF CancelEarly, Cancel
<1>2. CASE CancelUnload(r)
  BY <1>2 DEF CancelUnload, Cancel
<1>3. CASE CancelCall(r)
  BY <1>3 DEF CancelCall, Cancel
<1>4. CASE CancelRelease(r)
  BY <1>4 DEF CancelRelease, Cancel
<1>5. CASE CancelRestore(r)
  BY <1>5 DEF CancelRestore, Cancel
<1> QED
  BY <1>1, <1>2, <1>3, <1>4, <1>5 DEF Cancel

\* A stop is answered when the session and its streams are gone.
LEMMA AudioCleared ==
  ASSUME Held, Devices, Cleared, AudioThread
  PROVE  Cleared'
<1> USE RequestsAssumption
    DEF Held, TypeOK, Devices, NoOrphans, Opening, Closing, Waiting, Cleared,
        Clients, Goto, Leave, apiVars, audioVars, deviceVars, gpuVars
<1>1. CASE StartCall
  BY <1>1, CallersTurn, LastCall DEF Idle, StartCall, Reply
<1>2. CASE OpenDevices
  BY <1>2, CallersTurn DEF OpenDevices
<1>3. CASE OpenOk
  BY <1>3, CallersTurn, LastCall DEF OpenOk, Reply
<1>4. CASE StartFails
  BY <1>4, CallersTurn DEF StartFails
<1>5. CASE StopCall
  BY <1>5, CallersTurn, LastCall DEF Idle, StopCall, Reply
<1>6. CASE Closed
  BY <1>6, CallersTurn, LastCall DEF Closed, Reply
<1> QED
  BY <1>1, <1>2, <1>3, <1>4, <1>5, <1>6 DEF AudioThread

\* Nobody else starts a session.
LEMMA OtherCleared ==
  ASSUME Held, Devices, Cleared,
         Worker \/ OtherUse \/ (\E s \in Starts : ThreadEnds(s)) \/ UNCHANGED vars
  PROVE  Cleared'
<1> USE RequestsAssumption
    DEF Held, TypeOK, Devices, NoOrphans, Opening, Closing, Waiting, Cleared,
        Clients, Goto, Leave, apiVars, audioVars, deviceVars, gpuVars
<1>1. CASE Worker
  BY <1>1 DEF Worker, Pick, BeginRun, Acquire, Loaded, LoadFails, JobEnds, Working
<1>2. CASE OtherUse
  BY <1>2 DEF OtherUse
<1>3. CASE \E s \in Starts : ThreadEnds(s)
  BY <1>3 DEF ThreadEnds
<1>4. CASE UNCHANGED vars
  BY <1>4 DEF vars
<1> QED
  BY <1>1, <1>2, <1>3, <1>4

\* Cleared is inductive, given the first two layers.
LEMMA ClearedStep == Held /\ Devices /\ Cleared /\ [Next]_vars => Cleared'
<1> SUFFICES ASSUME Held, Devices, Cleared, [Next]_vars PROVE Cleared'
  OBVIOUS
<1>1. CASE Over
  BY <1>1, OtherCleared DEF Over
<1> QED
  BY <1>1, RequestCleared, CancelCleared, AudioCleared, OtherCleared DEF Next

\* A stop is over only once its lane is given back.
LEMMA StopEnds ==
  ASSUME Held, Cleared, [Next]_vars, NEW r \in Stops \ cancelled',
         stage[r] # "over", stage'[r] = "over"
  PROVE  session' = None /\ streams' = {} /\ calls' = <<>> /\ owner' # "voice"
<1> USE RequestsAssumption
    DEF Held, TypeOK, Waiting, Cleared, Clients, Goto, Leave, apiVars, audioVars,
        deviceVars, gpuVars
<1>1. ASSUME NEW q \in Clients, Cancel(q)
      PROVE  FALSE
  <2>1. q # r /\ r \in Clients /\ stage[r] \in {"new", "audio", "release"}
    BY <1>1 DEF Cancel
  <2> QED
    BY <1>1, <2>1
       DEF Cancel, CancelEarly, CancelUnload, CancelCall, CancelRelease, CancelRestore
<1>2. ASSUME NEW q \in Clients, Request(q)
      PROVE  q = r /\ ReleaseLane(r)
  BY <1>2
     DEF Request, TakeLife, StartChecks, Refused, Reserve, Reserved, UnloadFails, StopCalls,
         Started, ReleaseLane, Restore, Submit
<1>3. ASSUME AudioThread
      PROVE  FALSE
  BY <1>3
     DEF AudioThread, StartCall, OpenDevices, OpenOk, StartFails, StopCall, Closed, Reply
<1>4. ASSUME Worker \/ OtherUse \/ (\E s \in Starts : ThreadEnds(s)) \/ Over \/ UNCHANGED vars
      PROVE  FALSE
  BY <1>4
     DEF Worker, Pick, BeginRun, Acquire, Loaded, LoadFails, JobEnds, Working, OtherUse,
         ThreadEnds, Over, vars
<1>5. CASE ReleaseLane(r)
  BY <1>5 DEF ReleaseLane
<1> QED
  BY <1>1, <1>2, <1>3, <1>4, <1>5 DEF Next

\* A stop that was not cancelled leaves nothing: no session, not even one that a
\* cancelled start was still opening, no open stream, no call, no lane.
THEOREM StopsRelease == Spec => StopReleases
<1>1. Init => Cleared
  BY DEF Init, Cleared, Clients
<1>2. Held /\ Cleared /\ [Next]_vars =>
        [\A r \in Stops \ cancelled' :
           stage[r] # "over" /\ stage'[r] = "over" =>
             session' = None /\ streams' = {} /\ calls' = <<>> /\ owner' # "voice"]_vars
  BY StopEnds
<1> QED
  BY <1>1, <1>2, ClearedStep, HeldInvariant, DevicesInvariant, PTL DEF Spec, StopReleases
=============================================================================
