----------------------------- MODULE EventFeed ------------------------------
(***************************************************************************)
(* What a browser tab shows: the event bus with its bounded queues         *)
(* (core/events.py), the WebSocket that forwards them (api/ws.py) and the  *)
(* client that applies events and reads snapshots after it has connected   *)
(* (useEvents.ts, useAppController.ts).  gpu.status carries the whole      *)
(* status; a job event makes the client read the list of jobs, one request *)
(* at a time (queryCache.ts).  A status or a list is a version number.     *)
(***************************************************************************)
EXTENDS Naturals, Sequences

CONSTANTS
  MaxQueue,    \* max_queue of a subscriber
  MaxChanges,  \* bound: changes of the status and of the jobs
  MaxConnects, \* bound: connections
  Asked, None

FeedAssumption ==
  /\ MaxQueue \in Nat \ {0} /\ MaxChanges \in Nat /\ MaxConnects \in Nat
  /\ Asked # None /\ None \notin 0..MaxChanges /\ Asked \notin 0..MaxChanges

Topics == {"gpu", "jobs"}

VARIABLES
  fact,      \* fact[t]: the version the server is at
  owed,      \* job changes committed whose event is not published yet
  socket,    \* "closed", "accepted", "greeted" or "subscribed"
  buffer,    \* the subscriber's queue
  shown,     \* shown[t]: the version the tab shows
  reading,   \* reading[x]: the version that a request has read, Asked before that
  connects,
  late       \* history of the connection: an older response came after a newer one
             \* or an event, an event came before the subscription, the last of its
             \* topic in the queue was pushed out by the other topic, or a request
             \* failed, which the tab reports

vars == <<fact, owed, socket, buffer, shown, reading, connects, late>>

\* Each connection has a snapshot of two requests; the cache has one of its own.
Snapshot(n) == {<<n, t>> : t \in Topics}
Refresh == <<0, "jobs">>
Reads == {Refresh} \cup UNION {Snapshot(n) : n \in 1..MaxConnects}
TopicOf(x) == x[2]

Init ==
  /\ fact = [t \in Topics |-> 0] /\ owed = 0 /\ socket = "closed" /\ buffer = <<>>
  /\ shown = [t \in Topics |-> 0] /\ reading = [x \in Reads |-> None]
  /\ connects = 0 /\ late = FALSE

\* Requests that the server has answered with an older version.
Outdated(t) == \E x \in Reads : TopicOf(x) = t /\ reading[x] \notin {None, Asked, fact[t]}

\* Mutant: a full queue refuses the new event.
PutOrLose(e) == IF Len(buffer) < MaxQueue THEN Append(buffer, e) ELSE buffer

\* publish: a full queue gives up its oldest event.
Put(e) == Append(IF Len(buffer) < MaxQueue THEN buffer ELSE Tail(buffer), e)

PushedOut(e) ==
  /\ Len(buffer) = MaxQueue
  /\ \A i \in 2..MaxQueue : buffer[i].topic # buffer[1].topic
  /\ e.topic # buffer[1].topic

\* A tab that has connected and is not subscribed yet does not hear of a change.
Publish(e) ==
  IF socket = "subscribed" THEN buffer' = Put(e) /\ late' = (late \/ PushedOut(e))
  ELSE UNCHANGED buffer /\ late' = (late \/ socket \in {"accepted", "greeted"})

-----------------------------------------------------------------------------
GpuChanges ==
  /\ fact["gpu"] < MaxChanges
  /\ fact' = [fact EXCEPT !["gpu"] = @ + 1]
  /\ Publish([topic |-> "gpu", version |-> fact'["gpu"]])
  /\ UNCHANGED <<owed, socket, shown, reading, connects>>

\* A job's change is committed, and its event published or emitted later.
JobCommits ==
  /\ fact["jobs"] < MaxChanges
  /\ fact' = [fact EXCEPT !["jobs"] = @ + 1] /\ owed' = owed + 1
  /\ UNCHANGED <<socket, buffer, shown, reading, connects, late>>

JobEvent ==
  /\ owed > 0 /\ owed' = owed - 1
  /\ Publish([topic |-> "jobs", version |-> None])
  /\ UNCHANGED <<fact, socket, shown, reading, connects>>

\* onopen asks for the snapshot as soon as the server accepts.
Connect ==
  /\ socket = "closed" /\ connects < MaxConnects
  /\ connects' = connects + 1 /\ socket' = "accepted"
  /\ reading' = [x \in Reads |-> IF x \in Snapshot(connects') THEN Asked ELSE reading[x]]
  /\ late' = FALSE
  /\ UNCHANGED <<fact, owed, buffer, shown>>

\* The server sends the status and then subscribes.
Greet ==
  /\ socket = "accepted" /\ socket' = "greeted"
  /\ shown' = [shown EXCEPT !["gpu"] = fact["gpu"]]
  /\ late' = (late \/ Outdated("gpu"))
  /\ UNCHANGED <<fact, owed, buffer, reading, connects>>

Subscribe ==
  /\ socket = "greeted" /\ socket' = "subscribed"
  /\ UNCHANGED <<fact, owed, buffer, shown, reading, connects, late>>

\* A slow or broken connection: the queue goes with the subscription, and the
\* requests of the old connection may still be answered.
Disconnect ==
  /\ socket # "closed" /\ socket' = "closed" /\ buffer' = <<>>
  /\ UNCHANGED <<fact, owed, shown, reading, connects, late>>

\* The tab takes an event.  refreshJobs joins a request that is under way,
\* although the server may have read before the change.
Deliver ==
  /\ socket = "subscribed" /\ buffer # <<>>
  /\ buffer' = Tail(buffer)
  /\ LET e == Head(buffer) IN
       IF e.topic = "gpu"
       THEN /\ shown' = [shown EXCEPT !["gpu"] = e.version]
            /\ UNCHANGED reading
       ELSE /\ reading' = [reading EXCEPT ![Refresh] = IF @ = None THEN Asked ELSE @]
            /\ UNCHANGED shown
  /\ late' = (late \/ Outdated(Head(buffer).topic))
  /\ UNCHANGED <<fact, owed, socket, connects>>

ServerReads(x) ==
  /\ reading[x] = Asked
  /\ reading' = [reading EXCEPT ![x] = fact[TopicOf(x)]]
  /\ UNCHANGED <<fact, owed, socket, buffer, shown, connects, late>>

\* The cache's list is shown as it is.
Respond ==
  /\ reading[Refresh] \notin {None, Asked}
  /\ shown' = [shown EXCEPT !["jobs"] = reading[Refresh]]
  /\ reading' = [reading EXCEPT ![Refresh] = None]
  /\ late' = (late \/ reading[Refresh] < shown["jobs"])
  /\ UNCHANGED <<fact, owed, socket, buffer, connects>>

\* So is a snapshot, whole.  That of a reconnection also invalidates the cache,
\* which aborts its request.
Settle(n) ==
  /\ \A x \in Snapshot(n) : reading[x] \notin {None, Asked}
  /\ shown' = [t \in Topics |-> reading[<<n, t>>]]
  /\ reading' = [x \in Reads |->
       IF x \in Snapshot(n) \/ (n > 1 /\ x = Refresh) THEN None ELSE reading[x]]
  /\ late' = (late \/ \E t \in Topics : reading[<<n, t>>] < shown[t])
  /\ UNCHANGED <<fact, owed, socket, buffer, connects>>

\* A request fails: a refresh alone, of the first snapshot nothing is shown, of
\* a later one what has succeeded.
RefreshFails ==
  /\ reading[Refresh] # None
  /\ reading' = [reading EXCEPT ![Refresh] = None] /\ late' = TRUE
  /\ UNCHANGED <<fact, owed, socket, buffer, shown, connects>>

SnapshotFails(n) ==
  /\ \A x \in Snapshot(n) : reading[x] # None
  /\ \E got \in SUBSET Topics :
       /\ got # Topics /\ \A t \in got : reading[<<n, t>>] # Asked
       /\ shown' = IF n = 1 THEN shown ELSE [t \in Topics |-> IF t \in got THEN reading[<<n, t>>] ELSE shown[t]]
  /\ reading' = [x \in Reads |->
       IF x \in Snapshot(n) \/ (n > 1 /\ x = Refresh) THEN None ELSE reading[x]]
  /\ late' = TRUE
  /\ UNCHANGED <<fact, owed, socket, buffer, connects>>

Next ==
  \/ GpuChanges \/ JobCommits \/ JobEvent
  \/ Connect \/ Greet \/ Subscribe \/ Disconnect \/ Deliver
  \/ (\E x \in Reads : ServerReads(x)) \/ Respond \/ RefreshFails
  \/ \E n \in 1..MaxConnects : Settle(n) \/ SnapshotFails(n)

Spec == Init /\ [][Next]_vars

-----------------------------------------------------------------------------
(* Properties                                                              *)

\* Versions are versions, a queue keeps its bound and exists while subscribed.
TypeOK ==
  /\ fact \in [Topics -> 0..MaxChanges] /\ shown \in [Topics -> 0..MaxChanges]
  /\ owed \in 0..MaxChanges
  /\ reading \in [Reads -> {None, Asked} \cup (0..MaxChanges)]
  /\ Len(buffer) <= MaxQueue /\ (socket # "subscribed" => buffer = <<>>)

Quiet ==
  /\ socket = "subscribed" /\ buffer = <<>> /\ owed = 0
  /\ reading = [x \in Reads |-> None]

\* Once nothing is under way the tab shows the server's state, also after
\* events were dropped and connections lost: the newest event and the snapshot
\* suffice, unless a request failed, an older response came after them, an event
\* came before the subscription, or was the last of its topic and pushed out.
TabConverges == Quiet /\ ~late => shown = fact
=============================================================================
