----------------------------- MODULE ServicesProofs -----------------------------
(***************************************************************************)
(* What Services guarantees, for any values of its constants, of the       *)
(* server and the voice engine: the installed builds, what a tab shows,    *)
(* the settings, the access rules, the start and the stop, the tuning, the *)
(* models, the recordings and the conversions, each laid out as what the   *)
(* user keeps is in RecordsProofs; and the types of all.                   *)
(***************************************************************************)
EXTENDS RecordsProofs

-----------------------------------------------------------------------------
(* The access rules.                                                       *)

\* A request of those that the application knows, with a session that a browser has.
Known(r) == <<r.method, r.path>> \in Gate!Kinds /\ r.session \in sessions \cup {None}

\* A session was made for who had the token that it is signed with.
Granted(s) ==
  \E g \in granted : g.session = s /\ g.bearer = s.token /\ g.at \in Nat /\ s.expires = g.at + Ttl

\* While a request is answered its answer is the one that the rules give it.
GateSafe ==
  /\ Gate!TypeOK
  /\ answered # None => answered.answer = Gate!Answer(answered.request) /\ Known(answered.request)
  /\ \A s \in sessions : Granted(s)

LEMMA GateInit == Gate!GateAssumption /\ Gate!Init => GateSafe
  BY DEF Gate!GateAssumption, Gate!Init, Gate!TypeOK, Gate!Posture, Gate!Configs, GateSafe

LEMMA ServeSafe ==
  ASSUME Gate!GateAssumption, GateSafe, NEW r \in Gate!Requests, Gate!Serve(r)
  PROVE  GateSafe'
<1> DEFINE s == [token |-> config.token, expires |-> now + Ttl]
           g == [session |-> s, at |-> now, bearer |-> r.bearer]
<1>1. \/ UNCHANGED <<sessions, granted>>
      \/ /\ Gate!Answer(r) = "served" /\ r.path = "/api/auth/asset-session" /\ r.method = "POST"
         /\ config.token # None /\ sessions' = sessions \cup {s} /\ granted' = granted \cup {g}
  BY DEF Gate!Serve, Gate!TokenRequired
<1>2. answered' = [request |-> r, answer |-> Gate!Answer(r)] /\ UNCHANGED <<config, exposed, state, now, restarts>>
  BY DEF Gate!Serve
<1>3. Gate!TypeOK'
  <2>1. config.token # None => s \in [token : Tokens, expires : 0..(MaxTime + Ttl)]
    BY DEF GateSafe, Gate!TypeOK, Gate!Configs, Gate!GateAssumption
  <2> HIDE DEF s, g
  <2> QED
    BY <1>1, <1>2, <2>1 DEF GateSafe, Gate!TypeOK
<1>4. (answered # None => answered.answer = Gate!Answer(answered.request) /\ Known(answered.request))'
  <2>1. Gate!Answer(r)' = Gate!Answer(r)
    BY <1>2 DEF Gate!Answer, Gate!Authorized, Gate!RemoteAllowed, Gate!TokenRequired, Gate!SessionMatches
  <2>2. Known(r)
    BY DEF Known, Gate!Requests, Gate!Request, Gate!Kinds
  <2>3. Known(r)'
    BY <1>1, <2>2 DEF Known
  <2>4. answered'.request = r /\ answered'.answer = Gate!Answer(r)
    BY <1>2
  <2> QED
    BY <2>1, <2>3, <2>4
<1>5. \A x \in sessions' : Granted(x)'
  <2>1. \A x \in sessions : Granted(x)'
    BY <1>1 DEF GateSafe, Granted
  <2>2. CASE sessions' = sessions
    BY <2>1, <2>2
  <2>3. CASE sessions' # sessions
    <3>1. r.bearer = config.token
      BY <1>1, <2>3 DEF Gate!Answer, Gate!Authorized, Gate!TokenRequired, Gate!RemoteAllowed, Gate!SessionMatches
    <3>2. g \in granted' /\ g.session = s /\ g.bearer = s.token /\ g.at \in Nat /\ s.expires = g.at + Ttl
      BY <1>1, <2>3, <3>1 DEF GateSafe, Gate!TypeOK
    <3> HIDE DEF g, s
    <3>3. ASSUME NEW x, x = s PROVE Granted(x)'
      BY <3>2, <3>3 DEF Granted
    <3> QED
      BY <1>1, <2>1, <2>3, <3>3
  <2> QED
    BY <2>2, <2>3
<1> QED
  BY <1>3, <1>4, <1>5 DEF GateSafe

LEMMA GateStep == Gate!GateAssumption /\ GateSafe /\ [Gate!Next]_(Gate!vars) => GateSafe'
<1> SUFFICES ASSUME Gate!GateAssumption, GateSafe, [Gate!Next]_(Gate!vars) PROVE GateSafe'
  OBVIOUS
<1> USE DEF Gate!GateAssumption, GateSafe, Gate!TypeOK, Gate!Configs, Granted
<1>1. ASSUME NEW r \in Gate!Requests, Gate!Serve(r) PROVE GateSafe'
  BY <1>1, ServeSafe
<1>2. CASE Gate!Done
  BY <1>2 DEF Gate!Done
<1>3. CASE Gate!Tick \/ Gate!BeginStop
  BY <1>3 DEF Gate!Tick, Gate!BeginStop
<1>4. ASSUME NEW c \in Gate!Configs, Gate!Restart(c) PROVE GateSafe'
  BY <1>4 DEF Gate!Restart, Gate!Posture
<1>5. CASE UNCHANGED Gate!vars
  <2>1. Gate!Answer(answered.request)' = Gate!Answer(answered.request)
    BY <1>5 DEF Gate!vars, Gate!Answer, Gate!Authorized, Gate!RemoteAllowed,
                Gate!TokenRequired, Gate!SessionMatches
  <2>2. Known(answered.request)' = Known(answered.request)
    BY <1>5 DEF Gate!vars, Known
  <2> QED
    BY <1>5, <2>1, <2>2 DEF Gate!vars
<1> QED
  BY <1>1, <1>2, <1>3, <1>4, <1>5 DEF Gate!Next

LEMMA GateTrue == Gate!GateAssumption /\ GateSafe => Gate!Rooted /\ Gate!OthersKeptOut
<1> SUFFICES ASSUME Gate!GateAssumption, GateSafe, answered # None, answered.answer = "served"
             PROVE  Gate!Rooted /\ Gate!OthersKeptOut
  BY DEF Gate!Rooted, Gate!OthersKeptOut
<1> DEFINE r == answered.request
<1>1. Gate!Answer(r) = "served" /\ <<r.method, r.path>> \in Gate!Kinds /\ r.session \in sessions \cup {None}
  BY DEF GateSafe, Known
<1>2. r.path = "websocket" => r.method = "GET"
  BY <1>1 DEF Gate!Kinds
<1> HIDE DEF r
<1>3. Gate!OthersKeptOut
  <2>1. Gate!RemoteAllowed(r)
    BY <1>1 DEF Gate!Answer, Gate!Authorized
  <2>2. state = "stopping" => r.method \in {"GET", "OPTIONS"}
    BY <1>1, <1>2 DEF Gate!Answer
  <2> QED
    BY <2>1, <2>2 DEF Gate!OthersKeptOut, Gate!RemoteAllowed, r
<1>4. Gate!Rooted
  <2> SUFFICES ASSUME Gate!TokenRequired, r.method # "OPTIONS", r.path \notin {"/api/health", "page"},
                      r.bearer # config.token
               PROVE  /\ \E g \in granted :
                           g.session = r.session /\ g.bearer = config.token /\ now - g.at \in 0..Ttl
                      /\ r.path # "/api/" /\ r.method \in {"GET", "DELETE"}
                      /\ r.path = "asset" => r.method = "GET"
    BY DEF Gate!Rooted, r
  <2>1. /\ \/ r.path = "asset" /\ r.method = "GET"
           \/ r.path = "/api/auth/asset-session" /\ r.method = "DELETE"
           \/ r.path = "websocket"
        /\ Gate!SessionMatches(r.session)
    BY <1>1 DEF Gate!Answer, Gate!Authorized
  <2>2. PICK g \in granted : g.session = r.session /\ g.bearer = r.session.token /\ g.at \in Nat
                             /\ r.session.expires = g.at + Ttl
    BY <1>1, <2>1 DEF GateSafe, Granted, Gate!SessionMatches
  <2>3. g.bearer = config.token /\ now - g.at \in 0..Ttl
    BY <2>1, <2>2 DEF Gate!SessionMatches, GateSafe, Gate!TypeOK, Gate!GateAssumption
  <2> QED
    BY <1>2, <2>1, <2>2, <2>3
<1> QED
  BY <1>3, <1>4

-----------------------------------------------------------------------------
(* The start and the stop.                                                 *)

Up == stage \in {"serving", "stopping"}

\* Where the process stands, and what there cannot be then.
Standing ==
  /\ stage \in {"off", "starting", "serving", "stopping"} /\ at \in Nat
  /\ request \in [Clients -> {"out", "inside"}]
  /\ stage = "starting" => at \in 1..12
  /\ stage = "stopping" => at \in 1..6 /\ ~accepting /\ ~admitting
  /\ ~Up => gpu = {} /\ worker = "none"

\* A job that begins in the gap is the one that the worker was about to pick.
GapSafe ==
  /\ surprise \in {0, 1}
  /\ stage = "stopping" /\ surprise = 1 => worker \notin {"looking", "picked"}

\* What no process knows of is reaped before anything is started, and there is none
\* of it unless the stop was not clean.
ReapSafe ==
  /\ Up \/ (stage = "starting" /\ at > 7) => left = {}
  /\ ~Up /\ overdue = {} /\ ~carried => left = {}

\* What a phase has put away stays away unless a request inside begins it again.
AwaySafe ==
  stage = "stopping" =>
    /\ ~carried => \A r \in Clients : request[r] = "out"
    /\ overdue = {} /\ at > 2 => worker = "ended"
    /\ overdue = {} /\ ~carried => (at > 3 => "embedding" \notin gpu) /\ (at > 4 => "model" \notin gpu)

StagesSafe == Standing /\ GapSafe /\ ReapSafe /\ AwaySafe

\* The order of the start and of the stop that this counts on.
LEMMA StartOrder == Len(Stages!Startup) = 12 /\ \A i \in 1..12 : Stages!Startup[i] = "reap" <=> i = 7
  BY DEF Stages!Startup

LEMMA StopOrder ==
  /\ Len(Stages!Phases) = 5 /\ \A i \in 1..5 : Stages!Phases[i] = "worker" <=> i = 2
  /\ Stages!PutAway(Stages!Phases[3]) = {"embedding"} /\ Stages!PutAway(Stages!Phases[4]) = {"model"}
<1>1. /\ Len(Stages!Phases) = 5 /\ \A i \in 1..5 : Stages!Phases[i] = "worker" <=> i = 2
      /\ Stages!Phases[3] = "embedding" /\ Stages!Phases[4] = "arbiter"
  BY DEF Stages!Phases
<1> QED
  BY <1>1 DEF Stages!PutAway

LEMMA StagesInit == Stages!Init => StagesSafe
  BY DEF Stages!Init, StagesSafe, Up, Standing, GapSafe, ReapSafe, AwaySafe

LEMMA StagesStep == StagesSafe /\ [Stages!Next]_(Stages!vars) => StagesSafe'
<1> SUFFICES ASSUME StagesSafe, [Stages!Next]_(Stages!vars) PROVE StagesSafe'
  OBVIOUS
<1> USE DEF StagesSafe, Up, Standing, GapSafe, ReapSafe, AwaySafe
<1>1. CASE Stages!Begin
  BY <1>1 DEF Stages!Begin
<1>2. CASE Stages!StartStep
  <2>1. /\ stage = "starting" /\ at \in 1..12 /\ UNCHANGED <<starts, jobs, gpu, request, surprise>>
        /\ IF at = 7 THEN left' = {} /\ overdue' = {} /\ carried' = FALSE
           ELSE UNCHANGED <<left, overdue, carried>>
        /\ IF at < 12 THEN at' = at + 1 /\ UNCHANGED <<stage, accepting, admitting, worker>>
           ELSE stage' = "serving" /\ at' = 0 /\ accepting' = TRUE /\ admitting' = TRUE /\ worker' = "idle"
    BY <1>2, StartOrder DEF Stages!StartStep
  <2> QED
    BY <2>1
<1>3. CASE Stages!StartFails
  BY <1>3 DEF Stages!StartFails
<1>4. ASSUME NEW r \in Clients, Stages!Enter(r) PROVE StagesSafe'
  BY <1>4 DEF Stages!Enter, Stages!Running
<1>5. ASSUME NEW r \in Clients, Stages!Leave(r) PROVE StagesSafe'
  BY <1>5 DEF Stages!Leave, Stages!Running
<1>6. ASSUME NEW r \in Clients, NEW what \in {"voice", "embedding"}, Stages!Use(r, what) PROVE StagesSafe'
  BY <1>6 DEF Stages!Use, Stages!Running
<1>7. CASE Stages!Look
  BY <1>7 DEF Stages!Look, Stages!Running
<1>8. CASE Stages!Pick
  BY <1>8 DEF Stages!Pick, Stages!Running
<1>9. CASE Stages!RunJob
  BY <1>9 DEF Stages!RunJob, Stages!Running
<1>10. CASE Stages!EndJob
  BY <1>10 DEF Stages!EndJob, Stages!Running
<1>11. CASE Stages!BeginStop
  BY <1>11 DEF Stages!BeginStop
<1>12. CASE Stages!PhaseEnds
  <2> HIDE DEF GapSafe, ReapSafe, AwaySafe
  <2>1. /\ stage = "stopping" /\ at \in 1..5 /\ at' = at + 1 /\ gpu' \subseteq gpu
        /\ ~admitting'
        /\ UNCHANGED <<stage, starts, accepting, jobs, request, overdue, carried, surprise, left>>
    BY <1>12, StopOrder DEF Stages!PhaseEnds
  <2>2. worker' = IF at = 2 THEN "ended" ELSE worker
    BY <1>12, <2>1, StopOrder DEF Stages!PhaseEnds
  <2>3. (at = 3 => "embedding" \notin gpu') /\ (at = 4 => "model" \notin gpu')
    BY <1>12, StopOrder DEF Stages!PhaseEnds
  <2> QED
    BY <2>1, <2>2, <2>3 DEF GapSafe, ReapSafe, AwaySafe
<1>13. CASE Stages!PhaseLate
  <2> HIDE DEF GapSafe, ReapSafe, AwaySafe
  <2>1. /\ stage = "stopping" /\ at \in 1..5 /\ at' = at + 1 /\ overdue' # {}
        /\ UNCHANGED <<stage, starts, accepting, admitting, worker, jobs, gpu, request, carried, surprise, left>>
    BY <1>13, StopOrder DEF Stages!PhaseLate
  <2> QED
    BY <2>1 DEF GapSafe, ReapSafe, AwaySafe
<1>14. ASSUME NEW missed \in overdue, Stages!LateEnds(missed) PROVE StagesSafe'
  BY <1>14 DEF Stages!LateEnds, Stages!PutAway
<1>15. ASSUME NEW killed \in BOOLEAN, Stages!Exit(killed) PROVE StagesSafe'
  <2>1. /\ stage' = "off" /\ at' = 0 /\ worker' = "none" /\ gpu' = {}
        /\ request' = [r \in Clients |-> "out"] /\ UNCHANGED <<carried, surprise>>
    BY <1>15 DEF Stages!Exit
  <2>2. overdue' = {} /\ ~carried' => left' = {}
    <3>1. CASE killed
      BY <1>15, <3>1 DEF Stages!Exit
    <3>2. CASE ~killed
      BY <1>15, <3>2, StopOrder DEF Stages!Exit, Stages!Servers
    <3> QED
      BY <3>1, <3>2
  <2> QED
    BY <2>1, <2>2
<1>16. CASE UNCHANGED Stages!vars
  BY <1>16 DEF Stages!vars
<1> QED
  BY <1>1, <1>2, <1>3, <1>4, <1>5, <1>6, <1>7, <1>8, <1>9, <1>10, <1>11, <1>12, <1>13, <1>14,
     <1>15, <1>16 DEF Stages!Next

LEMMA StagesTrue ==
  StagesSafe => Stages!NoJobInTheGap /\ Stages!NothingLeft /\ Stages!LeftReaped
  BY DEF StagesSafe, Up, Standing, GapSafe, ReapSafe, AwaySafe,
         Stages!NoJobInTheGap, Stages!NothingLeft, Stages!LeftReaped

-----------------------------------------------------------------------------
(* The event feed: what an event does to the queue.                        *)

Events == [topic : Feed!Topics, version : (0..MaxChanges) \cup {None}]

\* The queue holds an event of the topic; its newest gpu event has the version.
Holds(b, t) == \E i \in 1..Len(b) : b[i].topic = t
Newest(b, v) ==
  \A i \in 1..Len(b) :
    b[i].topic = "gpu" /\ (\A j \in (i + 1)..Len(b) : b[j].topic # "gpu") => b[i].version = v

LEMMA TakenOff ==
  ASSUME NEW b \in Seq(Events), b # <<>>
  PROVE  /\ Tail(b) \in Seq(Events) /\ Head(b) \in Events /\ Len(Tail(b)) = Len(b) - 1
         /\ \A i \in 1..Len(Tail(b)) : Tail(b)[i] = b[i + 1]
         /\ \A t : Holds(b, t) <=> Head(b).topic = t \/ Holds(Tail(b), t)
         /\ \A v : Newest(b, v) => /\ Newest(Tail(b), v)
                                   /\ Head(b).topic = "gpu" /\ ~Holds(Tail(b), "gpu") => Head(b).version = v
<1>1. Len(b) \in Nat /\ Len(b) > 0 /\ Head(b) = b[1] /\ b[1] \in Events
  OBVIOUS
<1>2. Tail(b) \in Seq(Events) /\ Len(Tail(b)) = Len(b) - 1 /\ \A i \in 1..Len(Tail(b)) : Tail(b)[i] = b[i + 1]
  BY <1>1
<1> DEFINE c == Tail(b)
<1> HIDE DEF c
<1>3. Len(c) = Len(b) - 1 /\ \A i \in 1..Len(c) : c[i] = b[i + 1]
  BY <1>2 DEF c
<1>4. ASSUME NEW t PROVE Holds(b, t) <=> b[1].topic = t \/ Holds(c, t)
  <2>1. ASSUME NEW i \in 1..Len(b), b[i].topic = t, i # 1 PROVE Holds(c, t)
    <3>1. i - 1 \in 1..Len(c) /\ c[i - 1] = b[i]
      BY <1>1, <1>3, <2>1
    <3> QED
      BY <2>1, <3>1 DEF Holds
  <2>2. ASSUME NEW i \in 1..Len(c), c[i].topic = t PROVE Holds(b, t)
    BY <1>1, <1>3, <2>2 DEF Holds
  <2> QED
    BY <1>1, <2>1, <2>2 DEF Holds
<1>5. ASSUME NEW v, Newest(b, v) PROVE Newest(c, v)
  <2> SUFFICES ASSUME NEW i \in 1..Len(c), c[i].topic = "gpu", \A j \in (i + 1)..Len(c) : c[j].topic # "gpu"
               PROVE  c[i].version = v
    BY DEF Newest
  <2>1. i + 1 \in 1..Len(b) /\ b[i + 1] = c[i]
    BY <1>1, <1>3
  <2>2. ASSUME NEW j \in (i + 2)..Len(b) PROVE b[j].topic # "gpu"
    <3>1. j - 1 \in (i + 1)..Len(c) /\ c[j - 1] = b[j]
      BY <1>1, <1>3
    <3> QED
      BY <3>1
  <2> QED
    BY <1>5, <2>1, <2>2 DEF Newest
<1>6. ASSUME NEW v, Newest(b, v), b[1].topic = "gpu", ~Holds(c, "gpu") PROVE b[1].version = v
  <2>1. ASSUME NEW j \in 2..Len(b) PROVE b[j].topic # "gpu"
    <3>1. j - 1 \in 1..Len(c) /\ c[j - 1] = b[j]
      BY <1>1, <1>3
    <3> QED
      BY <1>6, <3>1 DEF Holds
  <2> QED
    BY <1>1, <1>6, <2>1 DEF Newest
<1> QED
  BY <1>1, <1>2, <1>4, <1>5, <1>6 DEF c

LEMMA PutOn ==
  ASSUME NEW b \in Seq(Events), NEW e \in Events
  PROVE  /\ Append(b, e) \in Seq(Events) /\ Len(Append(b, e)) = Len(b) + 1
         /\ \A i \in 1..Len(b) : Append(b, e)[i] = b[i]
         /\ Append(b, e)[Len(b) + 1] = e
         /\ \A t : Holds(Append(b, e), t) <=> e.topic = t \/ Holds(b, t)
         /\ \A v : \/ e.topic = "gpu" /\ e.version = v
                   \/ e.topic # "gpu" /\ Newest(b, v)
                   => Newest(Append(b, e), v)
<1> DEFINE c == Append(b, e)
<1>1. /\ c \in Seq(Events) /\ Len(c) = Len(b) + 1 /\ Len(b) \in Nat
      /\ \A i \in 1..Len(b) : c[i] = b[i]
      /\ c[Len(b) + 1] = e
  OBVIOUS
<1> HIDE DEF c
<1>2. ASSUME NEW t PROVE Holds(c, t) <=> e.topic = t \/ Holds(b, t)
  BY <1>1 DEF Holds
<1>3. ASSUME NEW v, e.topic = "gpu", e.version = v PROVE Newest(c, v)
  <2> SUFFICES ASSUME NEW i \in 1..Len(c), \A j \in (i + 1)..Len(c) : c[j].topic # "gpu"
               PROVE  c[i].version = v
    BY DEF Newest
  <2>1. i = Len(b) + 1
    BY <1>1, <1>3
  <2> QED
    BY <1>1, <1>3, <2>1
<1>4. ASSUME NEW v, e.topic # "gpu", Newest(b, v) PROVE Newest(c, v)
  <2> SUFFICES ASSUME NEW i \in 1..Len(c), c[i].topic = "gpu", \A j \in (i + 1)..Len(c) : c[j].topic # "gpu"
               PROVE  c[i].version = v
    BY DEF Newest
  <2>1. i \in 1..Len(b) /\ \A j \in (i + 1)..Len(b) : b[j].topic # "gpu"
    BY <1>1, <1>4
  <2> QED
    BY <1>1, <1>4, <2>1 DEF Newest
<1> QED
  BY <1>1, <1>2, <1>3, <1>4 DEF c

-----------------------------------------------------------------------------
(* What the tab shows.                                                     *)

FeedTyped ==
  /\ fact \in [Feed!Topics -> 0..MaxChanges] /\ shown \in [Feed!Topics -> 0..MaxChanges]
  /\ reading \in [Feed!Reads -> {None, Asked} \cup (0..MaxChanges)] /\ owed \in Nat
  /\ buffer \in Seq(Events) /\ Len(buffer) <= MaxQueue
  /\ socket \in {"closed", "accepted", "greeted", "subscribed"}
  /\ socket # "subscribed" => buffer = <<>>
  /\ connects \in 0..MaxConnects /\ (socket # "closed" => connects > 0)

\* Nothing is newer than the server's state.
Behind ==
  /\ \A t \in Feed!Topics : shown[t] <= fact[t]
  /\ \A x \in Feed!Reads : reading[x] \notin {None, Asked} => reading[x] <= fact[Feed!TopicOf(x)]
  /\ \A i \in 1..Len(buffer) : buffer[i].topic = "gpu" => buffer[i].version \in 0..fact["gpu"]

\* The status that is shown is the newest, and no answer with an older one is on its
\* way, or an event with the newest is.
GpuSafe ==
  ~late /\ socket \in {"greeted", "subscribed"} =>
    /\ Newest(buffer, fact["gpu"])
    /\ \/ Holds(buffer, "gpu")
       \/ /\ shown["gpu"] = fact["gpu"]
          /\ \A x \in Feed!Reads : Feed!TopicOf(x) = "gpu" => reading[x] \in {None, Asked, fact["gpu"]}

\* The list that is shown is the newest, or it will be asked for, or the connection's
\* snapshot or a refresh brings it; of a refresh that a snapshot may abort, no
\* snapshot brings an older one.
JobsSafe ==
  ~late /\ socket # "closed" =>
    \/ owed > 0 \/ Holds(buffer, "jobs")
    \/ shown["jobs"] = fact["jobs"]
    \/ reading[<<connects, "jobs">>] \in {Asked, fact["jobs"]}
    \/ /\ reading[Feed!Refresh] \in {Asked, fact["jobs"]}
       /\ \A x \in Feed!Reads : Feed!TopicOf(x) = "jobs" => reading[x] \in {None, Asked, fact["jobs"]}

FeedSafe == FeedTyped /\ Behind /\ GpuSafe /\ JobsSafe

LEMMA ReadsKnown ==
  /\ Feed!Refresh \in Feed!Reads /\ Feed!TopicOf(Feed!Refresh) = "jobs"
  /\ \A x \in Feed!Reads : Feed!TopicOf(x) \in Feed!Topics
  /\ \A n \in 1..MaxConnects, t \in Feed!Topics :
       /\ <<n, t>> \in Feed!Reads /\ Feed!TopicOf(<<n, t>>) = t /\ <<n, t>> # Feed!Refresh
       /\ \A m \in 1..MaxConnects : <<n, t>> \in Feed!Snapshot(m) <=> n = m
  /\ \A n \in 1..MaxConnects : Feed!Refresh \notin Feed!Snapshot(n)
  BY DEF Feed!Refresh, Feed!Reads, Feed!TopicOf, Feed!Topics, Feed!Snapshot

LEMMA FeedInit == Feed!FeedAssumption /\ Feed!Init => FeedSafe
<1> SUFFICES ASSUME Feed!FeedAssumption, Feed!Init PROVE FeedSafe
  OBVIOUS
<1>1. FeedTyped
  BY DEF Feed!FeedAssumption, Feed!Init, FeedTyped
<1>2. Behind
  BY ReadsKnown DEF Feed!Init, Behind
<1> QED
  BY <1>1, <1>2 DEF FeedSafe, GpuSafe, JobsSafe, Feed!Init

\* An event that is published is in the queue, which loses no topic unless the
\* history says so.
LEMMA Published ==
  ASSUME Feed!FeedAssumption, FeedTyped, NEW e \in Events, Feed!Publish(e),
         UNCHANGED socket
  PROVE  /\ buffer' \in Seq(Events) /\ Len(buffer') <= MaxQueue
         /\ late => late'
         /\ socket # "subscribed" => buffer' = <<>>
         /\ \A i \in 1..Len(buffer') : buffer'[i] = e \/ \E j \in 1..Len(buffer) : buffer'[i] = buffer[j]
         /\ ~late' /\ socket # "closed" =>
              /\ socket = "subscribed" /\ Holds(buffer', e.topic)
              /\ \A t \in Feed!Topics : Holds(buffer, t) => Holds(buffer', t)
              /\ e.topic = "gpu" => Newest(buffer', e.version)
              /\ e.topic # "gpu" => \A v : Newest(buffer, v) => Newest(buffer', v)
<1>1. CASE socket # "subscribed"
  BY <1>1 DEF Feed!Publish, FeedTyped, Feed!FeedAssumption
<1>2. CASE socket = "subscribed"
  <2> DEFINE b == IF Len(buffer) < MaxQueue THEN buffer ELSE Tail(buffer)
  <2>1. buffer' = Append(b, e) /\ (late => late')
    BY <1>2 DEF Feed!Publish, Feed!Put
  <2>2. buffer \in Seq(Events) /\ Len(buffer) <= MaxQueue /\ Len(buffer) \in Nat /\ MaxQueue \in Nat \ {0}
    BY DEF FeedTyped, Feed!FeedAssumption
  <2>3. CASE Len(buffer) < MaxQueue
    BY <1>2, <2>1, <2>2, <2>3, PutOn
  <2>4. CASE Len(buffer) >= MaxQueue
    <3>1. Len(buffer) = MaxQueue /\ buffer # <<>> /\ buffer' = Append(Tail(buffer), e)
      BY <2>1, <2>2, <2>4
    <3> DEFINE c == Tail(buffer)
    <3>2. /\ c \in Seq(Events) /\ Head(buffer) \in Events /\ Len(c) = Len(buffer) - 1
          /\ \A i \in 1..Len(c) : c[i] = buffer[i + 1]
          /\ \A t : Holds(buffer, t) <=> Head(buffer).topic = t \/ Holds(c, t)
          /\ \A v : Newest(buffer, v) => Newest(c, v)
      BY <2>2, <3>1, TakenOff
    <3> HIDE DEF c
    <3>3. /\ buffer' \in Seq(Events) /\ Len(buffer') = Len(c) + 1
          /\ \A i \in 1..Len(c) : buffer'[i] = c[i]
          /\ buffer'[Len(c) + 1] = e
          /\ \A t : Holds(buffer', t) <=> e.topic = t \/ Holds(c, t)
          /\ \A v : \/ e.topic = "gpu" /\ e.version = v
                    \/ e.topic # "gpu" /\ Newest(c, v)
                    => Newest(buffer', v)
      <4>1. buffer' = Append(c, e) /\ c \in Seq(Events)
        BY <3>1, <3>2 DEF c
      <4> QED
        BY <4>1, PutOn
    <3>4. \A i \in 1..Len(buffer') : buffer'[i] = e \/ \E j \in 1..Len(buffer) : buffer'[i] = buffer[j]
      <4> TAKE i \in 1..Len(buffer')
      <4>1. CASE i = Len(c) + 1
        BY <3>3, <4>1
      <4>2. CASE i # Len(c) + 1
        BY <2>2, <3>2, <3>3, <4>2
      <4> QED
        BY <4>1, <4>2
    <3>5. ASSUME ~late', NEW t \in Feed!Topics, Holds(buffer, t) PROVE Holds(buffer', t)
      <4> SUFFICES ASSUME ~Holds(c, t), e.topic # t PROVE FALSE
        BY <3>3
      <4>1. Head(buffer).topic = t /\ Head(buffer) = buffer[1]
        BY <3>1, <3>2, <3>5, <2>2
      <4>2. \A i \in 2..MaxQueue : buffer[i].topic # t
        <5> TAKE i \in 2..MaxQueue
        <5>1. i - 1 \in 1..Len(c) /\ c[i - 1] = buffer[i]
          BY <2>2, <3>1, <3>2
        <5> QED
          BY <5>1 DEF Holds
      <4>3. Feed!PushedOut(e)
        BY <3>1, <4>1, <4>2 DEF Feed!PushedOut
      <4> QED
        BY <1>2, <3>5, <4>3 DEF Feed!Publish
    <3> QED
      BY <1>2, <2>1, <2>2, <3>1, <3>2, <3>3, <3>4, <3>5
  <2> QED
    BY <2>2, <2>3, <2>4
<1> QED
  BY <1>1, <1>2

\* The server's steps.
LEMMA GpuChangesSafe ==
  ASSUME Feed!FeedAssumption, FeedSafe, Feed!GpuChanges
  PROVE  FeedSafe'
<1> DEFINE e == [topic |-> "gpu", version |-> fact'["gpu"]]
<1>1. /\ fact["gpu"] < MaxChanges /\ fact' = [fact EXCEPT !["gpu"] = @ + 1]
      /\ UNCHANGED <<owed, socket, shown, reading, connects>> /\ Feed!Publish(e)
  BY DEF Feed!GpuChanges
<1>2. /\ fact["gpu"] \in 0..MaxChanges /\ fact'["gpu"] = fact["gpu"] + 1 /\ fact'["jobs"] = fact["jobs"]
      /\ fact' \in [Feed!Topics -> 0..MaxChanges] /\ MaxChanges \in Nat
  BY <1>1 DEF FeedSafe, FeedTyped, Feed!FeedAssumption, Feed!Topics
<1>3. e \in Events /\ e.topic = "gpu" /\ e.version = fact'["gpu"]
  BY <1>2 DEF Events, Feed!Topics
<1> HIDE DEF e
<1>4. /\ buffer' \in Seq(Events) /\ Len(buffer') <= MaxQueue
      /\ late => late'
      /\ socket # "subscribed" => buffer' = <<>>
      /\ \A i \in 1..Len(buffer') : buffer'[i] = e \/ \E j \in 1..Len(buffer) : buffer'[i] = buffer[j]
      /\ ~late' /\ socket # "closed" =>
           /\ Holds(buffer', "gpu")
           /\ \A t \in Feed!Topics : Holds(buffer, t) => Holds(buffer', t)
           /\ Newest(buffer', fact'["gpu"])
  BY <1>1, <1>3, Published DEF FeedSafe
<1>5. FeedTyped'
  BY <1>1, <1>2, <1>4 DEF FeedSafe, FeedTyped
<1>6. Behind'
  <2>1. \A i \in 1..Len(buffer') : buffer'[i].topic = "gpu" => buffer'[i].version \in 0..fact'["gpu"]
    BY <1>2, <1>3, <1>4 DEF FeedSafe, Behind
  <2>2. \A t \in Feed!Topics : fact[t] <= fact'[t] /\ fact[t] \in Nat /\ fact'[t] \in Nat
    BY <1>2 DEF FeedSafe, FeedTyped, Feed!Topics
  <2>3. \A t \in Feed!Topics : shown'[t] <= fact'[t]
    BY <1>1, <2>2 DEF FeedSafe, Behind, FeedTyped
  <2>4. \A x \in Feed!Reads : reading'[x] \notin {None, Asked} => reading'[x] <= fact'[Feed!TopicOf(x)]
    BY <1>1, <2>2, ReadsKnown DEF FeedSafe, Behind, FeedTyped
  <2> QED
    BY <2>1, <2>3, <2>4 DEF Behind
<1>7. GpuSafe'
  BY <1>1, <1>4 DEF GpuSafe
<1>8. JobsSafe'
  BY <1>1, <1>2, <1>4, {"gpu", "jobs"} = Feed!Topics DEF FeedSafe, JobsSafe, Feed!Topics
<1> QED
  BY <1>5, <1>6, <1>7, <1>8 DEF FeedSafe

LEMMA JobCommitsSafe ==
  ASSUME Feed!FeedAssumption, FeedSafe, Feed!JobCommits
  PROVE  FeedSafe'
<1>1. /\ fact["jobs"] < MaxChanges /\ fact' = [fact EXCEPT !["jobs"] = @ + 1] /\ owed' = owed + 1
      /\ UNCHANGED <<socket, buffer, shown, reading, connects, late>>
  BY DEF Feed!JobCommits
<1>2. /\ fact["jobs"] \in 0..MaxChanges /\ fact'["jobs"] = fact["jobs"] + 1 /\ fact'["gpu"] = fact["gpu"]
      /\ fact' \in [Feed!Topics -> 0..MaxChanges] /\ MaxChanges \in Nat
  BY <1>1 DEF FeedSafe, FeedTyped, Feed!FeedAssumption, Feed!Topics
<1>3. \A t \in Feed!Topics : fact[t] <= fact'[t] /\ fact[t] \in Nat /\ fact'[t] \in Nat
  BY <1>2 DEF FeedSafe, FeedTyped, Feed!Topics
<1>5. FeedTyped'
  BY <1>1, <1>2 DEF FeedSafe, FeedTyped
<1>6. Behind'
  <2>3. \A t \in Feed!Topics : shown'[t] <= fact'[t]
    BY <1>1, <1>3 DEF FeedSafe, Behind, FeedTyped
  <2>4. \A x \in Feed!Reads : reading'[x] \notin {None, Asked} => reading'[x] <= fact'[Feed!TopicOf(x)]
    BY <1>1, <1>3, ReadsKnown DEF FeedSafe, Behind, FeedTyped
  <2> QED
    BY <1>1, <1>2, <2>3, <2>4 DEF FeedSafe, Behind
<1>7. GpuSafe'
  BY <1>1, <1>2 DEF FeedSafe, GpuSafe
<1>8. JobsSafe'
  BY <1>1 DEF FeedSafe, JobsSafe, FeedTyped
<1> QED
  BY <1>5, <1>6, <1>7, <1>8 DEF FeedSafe

LEMMA JobEventSafe ==
  ASSUME Feed!FeedAssumption, FeedSafe, Feed!JobEvent
  PROVE  FeedSafe'
<1> DEFINE e == [topic |-> "jobs", version |-> None]
<1>1. /\ owed > 0 /\ owed' = owed - 1
      /\ UNCHANGED <<fact, socket, shown, reading, connects>> /\ Feed!Publish(e)
  BY DEF Feed!JobEvent
<1>2. e \in Events /\ e.topic = "jobs"
  BY DEF Events, Feed!Topics
<1> HIDE DEF e
<1>4. /\ buffer' \in Seq(Events) /\ Len(buffer') <= MaxQueue
      /\ late => late'
      /\ socket # "subscribed" => buffer' = <<>>
      /\ \A i \in 1..Len(buffer') : buffer'[i] = e \/ \E j \in 1..Len(buffer) : buffer'[i] = buffer[j]
      /\ ~late' /\ socket # "closed" =>
           /\ Holds(buffer', "jobs")
           /\ \A t \in Feed!Topics : Holds(buffer, t) => Holds(buffer', t)
           /\ \A v : Newest(buffer, v) => Newest(buffer', v)
  BY <1>1, <1>2, Published DEF FeedSafe
<1>5. FeedTyped'
  BY <1>1, <1>4 DEF FeedSafe, FeedTyped
<1>6. Behind'
  BY <1>1, <1>2, <1>4 DEF FeedSafe, Behind
<1>7. GpuSafe'
  BY <1>1, <1>4, {"gpu", "jobs"} = Feed!Topics DEF FeedSafe, GpuSafe, Feed!Topics
<1>8. JobsSafe'
  BY <1>1, <1>4 DEF JobsSafe
<1> QED
  BY <1>5, <1>6, <1>7, <1>8 DEF FeedSafe

\* The connection's steps.
LEMMA SocketSafe ==
  ASSUME Feed!FeedAssumption, FeedSafe,
         Feed!Connect \/ Feed!Greet \/ Feed!Subscribe \/ Feed!Disconnect \/ UNCHANGED Feed!vars
  PROVE  FeedSafe'
<1>1. CASE Feed!Connect
  <2>1. /\ socket = "closed" /\ connects < MaxConnects /\ connects' = connects + 1 /\ socket' = "accepted"
        /\ reading' = [x \in Feed!Reads |-> IF x \in Feed!Snapshot(connects') THEN Asked ELSE reading[x]]
        /\ buffer = <<>> /\ UNCHANGED <<fact, owed, buffer, shown>>
    BY <1>1 DEF Feed!Connect, FeedSafe, FeedTyped
  <2>2. connects' \in 1..MaxConnects /\ MaxConnects \in Nat
    BY <2>1 DEF FeedSafe, FeedTyped, Feed!FeedAssumption
  <2>3. FeedTyped'
    <3>1. reading' \in [Feed!Reads -> {None, Asked} \cup (0..MaxChanges)]
      BY <2>1 DEF FeedSafe, FeedTyped
    <3> QED
      BY <2>1, <2>2, <3>1 DEF FeedSafe, FeedTyped
  <2>4. Behind'
    BY <2>1 DEF FeedSafe, Behind
  <2>5. reading'[<<connects', "jobs">>] = Asked
    BY <2>1, <2>2, ReadsKnown DEF Feed!Topics
  <2> QED
    BY <2>1, <2>3, <2>4, <2>5 DEF FeedSafe, GpuSafe, JobsSafe
<1>2. CASE Feed!Greet
  <2>1. /\ socket = "accepted" /\ socket' = "greeted" /\ shown' = [shown EXCEPT !["gpu"] = fact["gpu"]]
        /\ late' = (late \/ Feed!Outdated("gpu")) /\ buffer = <<>>
        /\ UNCHANGED <<fact, owed, buffer, reading, connects>>
    BY <1>2 DEF Feed!Greet, FeedSafe, FeedTyped
  <2>2. "gpu" \in Feed!Topics /\ fact["gpu"] \in 0..MaxChanges /\ MaxChanges \in Nat
    BY DEF Feed!Topics, FeedSafe, FeedTyped, Feed!FeedAssumption
  <2>3. FeedTyped'
    BY <2>1, <2>2 DEF FeedSafe, FeedTyped
  <2>4. Behind'
    BY <2>1, <2>2 DEF FeedSafe, Behind, FeedTyped
  <2>5. GpuSafe'
    <3>1. shown'["gpu"] = fact["gpu"] /\ Len(buffer) = 0
      BY <2>1, <2>2 DEF FeedSafe, FeedTyped
    <3>2. Newest(buffer, fact["gpu"])
      BY <3>1 DEF Newest
    <3>3. late \/ \A x \in Feed!Reads : Feed!TopicOf(x) = "gpu" => reading[x] \in {None, Asked, fact["gpu"]} \/ late'
      BY <2>1 DEF Feed!Outdated
    <3> QED
      BY <2>1, <3>1, <3>2, <3>3 DEF GpuSafe
  <2>6. JobsSafe'
    <3>1. shown'["jobs"] = shown["jobs"]
      BY <2>1 DEF FeedSafe, FeedTyped, Feed!Topics
    <3> QED
      BY <2>1, <3>1 DEF FeedSafe, JobsSafe
  <2> QED
    BY <2>3, <2>4, <2>5, <2>6 DEF FeedSafe
<1>3. CASE Feed!Subscribe
  <2>1. /\ socket = "greeted" /\ socket' = "subscribed" /\ buffer = <<>>
        /\ UNCHANGED <<fact, owed, buffer, shown, reading, connects, late>>
    BY <1>3 DEF Feed!Subscribe, FeedSafe, FeedTyped
  <2> QED
    BY <2>1 DEF FeedSafe, FeedTyped, Behind, GpuSafe, JobsSafe
<1>4. CASE Feed!Disconnect
  <2>1. /\ socket' = "closed" /\ buffer' = <<>> /\ <<>> \in Seq(Events)
        /\ UNCHANGED <<fact, owed, shown, reading, connects, late>>
    BY <1>4 DEF Feed!Disconnect
  <2> QED
    BY <2>1 DEF FeedSafe, FeedTyped, Behind, GpuSafe, JobsSafe, Feed!FeedAssumption
<1>5. CASE UNCHANGED Feed!vars
  <2>1. UNCHANGED <<fact, owed, socket, buffer, shown, reading, connects, late>>
    BY <1>5 DEF Feed!vars
  <2> QED
    BY <2>1 DEF FeedSafe, FeedTyped, Behind, GpuSafe, JobsSafe
<1> QED
  BY <1>1, <1>2, <1>3, <1>4, <1>5

\* The tab's steps.  An event makes the tab show the status that it carries, or ask
\* for the list.
LEMMA DeliverSafe ==
  ASSUME Feed!FeedAssumption, FeedSafe, Feed!Deliver
  PROVE  FeedSafe'
<1> DEFINE e == Head(buffer)
<1>1. /\ socket = "subscribed" /\ buffer # <<>> /\ buffer' = Tail(buffer)
      /\ e.topic = "gpu" => shown' = [shown EXCEPT !["gpu"] = e.version] /\ UNCHANGED reading
      /\ e.topic # "gpu" => /\ reading' = [reading EXCEPT ![Feed!Refresh] = IF @ = None THEN Asked ELSE @]
                            /\ UNCHANGED shown
      /\ late' = (late \/ Feed!Outdated(e.topic))
      /\ UNCHANGED <<fact, owed, socket, connects>>
  BY DEF Feed!Deliver
<1>2. /\ buffer' \in Seq(Events) /\ e \in Events /\ Len(buffer') = Len(buffer) - 1
      /\ \A i \in 1..Len(buffer') : buffer'[i] = buffer[i + 1]
      /\ \A t : Holds(buffer, t) <=> e.topic = t \/ Holds(buffer', t)
      /\ \A v : Newest(buffer, v) => /\ Newest(buffer', v)
                                     /\ e.topic = "gpu" /\ ~Holds(buffer', "gpu") => e.version = v
  BY <1>1, TakenOff DEF FeedSafe, FeedTyped
<1>3. Len(buffer) \in Nat /\ Len(buffer) > 0 /\ e = buffer[1]
  BY <1>1 DEF FeedSafe, FeedTyped
<1>4. e.topic = "gpu" => e.version \in 0..fact["gpu"] /\ e.version \in 0..MaxChanges
  BY <1>3, "gpu" \in Feed!Topics DEF FeedSafe, FeedTyped, Behind, Feed!Topics, Feed!FeedAssumption
<1>5. e.topic \in Feed!Topics
  BY <1>2 DEF Events
<1> HIDE DEF e
<1>6. FeedTyped'
  <2>1. shown' \in [Feed!Topics -> 0..MaxChanges]
    BY <1>1, <1>4 DEF FeedSafe, FeedTyped
  <2>2. reading' \in [Feed!Reads -> {None, Asked} \cup (0..MaxChanges)]
    BY <1>1, ReadsKnown DEF FeedSafe, FeedTyped
  <2>3. Len(buffer') <= MaxQueue
    BY <1>2, <1>3 DEF FeedSafe, FeedTyped, Feed!FeedAssumption
  <2> QED
    BY <1>1, <1>2, <2>1, <2>2, <2>3 DEF FeedSafe, FeedTyped
<1>7. Behind'
  <2>1. \A t \in Feed!Topics : shown'[t] <= fact'[t]
    <3>1. \A t \in Feed!Topics : fact[t] \in Nat
      BY DEF FeedSafe, FeedTyped
    <3>2. \A t \in Feed!Topics : shown'[t] = shown[t] \/ (t = "gpu" /\ shown'[t] \in 0..fact["gpu"])
      <4>1. shown \in [Feed!Topics -> 0..MaxChanges]
        BY DEF FeedSafe, FeedTyped
      <4>2. CASE e.topic = "gpu"
        BY <1>1, <1>4, <4>1, <4>2
      <4>3. CASE e.topic # "gpu"
        BY <1>1, <4>3
      <4> QED
        BY <4>2, <4>3
    <3> QED
      BY <1>1, <3>1, <3>2 DEF FeedSafe, Behind
  <2>2. \A x \in Feed!Reads : reading'[x] \notin {None, Asked} => reading'[x] <= fact'[Feed!TopicOf(x)]
    BY <1>1 DEF FeedSafe, FeedTyped, Behind
  <2>3. \A i \in 1..Len(buffer') : buffer'[i].topic = "gpu" => buffer'[i].version \in 0..fact'["gpu"]
    BY <1>1, <1>2, <1>3 DEF FeedSafe, Behind
  <2> QED
    BY <2>1, <2>2, <2>3 DEF Behind
<1>8. GpuSafe'
  <2> SUFFICES ASSUME ~late' PROVE
        /\ Newest(buffer', fact'["gpu"])
        /\ \/ Holds(buffer', "gpu")
           \/ /\ shown'["gpu"] = fact'["gpu"]
              /\ \A x \in Feed!Reads : Feed!TopicOf(x) = "gpu" => reading'[x] \in {None, Asked, fact'["gpu"]}
    BY DEF GpuSafe
  <2>1. /\ Newest(buffer, fact["gpu"]) /\ ~Feed!Outdated(e.topic)
        /\ \/ Holds(buffer, "gpu")
           \/ /\ shown["gpu"] = fact["gpu"]
              /\ \A x \in Feed!Reads : Feed!TopicOf(x) = "gpu" => reading[x] \in {None, Asked, fact["gpu"]}
    BY <1>1 DEF FeedSafe, GpuSafe
  <2>2. CASE e.topic = "gpu" /\ ~Holds(buffer', "gpu")
    <3>1. shown'["gpu"] = fact["gpu"]
      BY <1>1, <1>2, <2>1, <2>2, "gpu" \in Feed!Topics DEF FeedSafe, FeedTyped, Feed!Topics
    <3> QED
      BY <1>1, <1>2, <2>1, <2>2, <3>1 DEF Feed!Outdated
  <2>3. CASE e.topic # "gpu" /\ ~Holds(buffer', "gpu")
    <3>1. \A x \in Feed!Reads : Feed!TopicOf(x) = "gpu" => reading'[x] = reading[x]
      BY <1>1, <2>3, ReadsKnown, "gpu" # "jobs" DEF FeedSafe, FeedTyped
    <3> QED
      BY <1>1, <1>2, <2>1, <2>3, <3>1
  <2> QED
    BY <1>1, <1>2, <2>1, <2>2, <2>3
<1>9. JobsSafe'
  <2> SUFFICES ASSUME ~late' PROVE
        \/ owed' > 0 \/ Holds(buffer', "jobs")
        \/ shown'["jobs"] = fact'["jobs"]
        \/ reading'[<<connects, "jobs">>] \in {Asked, fact'["jobs"]}
        \/ /\ reading'[Feed!Refresh] \in {Asked, fact'["jobs"]}
           /\ \A x \in Feed!Reads : Feed!TopicOf(x) = "jobs" => reading'[x] \in {None, Asked, fact'["jobs"]}
    BY <1>1 DEF JobsSafe
  <2>0. connects \in 1..MaxConnects
    BY <1>1 DEF FeedSafe, FeedTyped, Feed!FeedAssumption
  <2>1. CASE e.topic = "gpu"
    <3>1. shown'["jobs"] = shown["jobs"] /\ reading' = reading
      BY <1>1, <2>1, {"gpu", "jobs"} = Feed!Topics DEF FeedSafe, FeedTyped, Feed!Topics
    <3> QED
      BY <1>1, <1>2, <2>1, <3>1 DEF FeedSafe, JobsSafe
  <2>2. CASE e.topic # "gpu"
    <3>1. e.topic = "jobs" /\ ~Feed!Outdated("jobs")
      BY <1>1, <1>5, <2>2 DEF Feed!Topics
    <3>2. \A x \in Feed!Reads : Feed!TopicOf(x) = "jobs" => reading[x] \in {None, Asked, fact["jobs"]}
      BY <3>1 DEF Feed!Outdated
    <3>3. reading'[Feed!Refresh] \in {Asked, fact["jobs"]}
      BY <1>1, <2>2, <3>2, ReadsKnown DEF FeedSafe, FeedTyped
    <3>4. \A x \in Feed!Reads : Feed!TopicOf(x) = "jobs" => reading'[x] \in {None, Asked, fact["jobs"]}
      BY <1>1, <2>2, <3>2, <3>3, ReadsKnown DEF FeedSafe, FeedTyped
    <3> QED
      BY <1>1, <3>3, <3>4
  <2> QED
    BY <2>1, <2>2
<1> QED
  BY <1>6, <1>7, <1>8, <1>9 DEF FeedSafe

LEMMA ServerReadsSafe ==
  ASSUME Feed!FeedAssumption, FeedSafe, NEW x \in Feed!Reads, Feed!ServerReads(x)
  PROVE  FeedSafe'
<1>1. /\ reading[x] = Asked /\ reading' = [reading EXCEPT ![x] = fact[Feed!TopicOf(x)]]
      /\ UNCHANGED <<fact, owed, socket, buffer, shown, connects, late>>
  BY DEF Feed!ServerReads
<1>2. /\ Feed!TopicOf(x) \in Feed!Topics /\ fact[Feed!TopicOf(x)] \in 0..MaxChanges
      /\ reading'[x] = fact[Feed!TopicOf(x)]
      /\ \A y \in Feed!Reads : y # x => reading'[y] = reading[y]
  BY <1>1, ReadsKnown DEF FeedSafe, FeedTyped
<1>3. FeedTyped'
  BY <1>1, <1>2 DEF FeedSafe, FeedTyped
<1>4. Behind'
  <2>1. \A y \in Feed!Reads : reading'[y] \notin {None, Asked} => reading'[y] <= fact'[Feed!TopicOf(y)]
    BY <1>1, <1>2 DEF FeedSafe, FeedTyped, Behind
  <2> QED
    BY <1>1, <2>1 DEF FeedSafe, Behind
<1>5. GpuSafe'
  BY <1>1, <1>2 DEF FeedSafe, GpuSafe
<1>6. JobsSafe'
  <2>1. Feed!Refresh \in Feed!Reads /\ Feed!TopicOf(Feed!Refresh) = "jobs"
    BY ReadsKnown
  <2>2. connects \in 1..MaxConnects => <<connects, "jobs">> \in Feed!Reads
                                      /\ Feed!TopicOf(<<connects, "jobs">>) = "jobs"
    BY ReadsKnown, "jobs" \in Feed!Topics DEF Feed!Topics
  <2>3. socket # "closed" => connects \in 1..MaxConnects
    BY DEF FeedSafe, FeedTyped, Feed!FeedAssumption
  <2> QED
    BY <1>1, <1>2, <2>1, <2>2, <2>3 DEF FeedSafe, JobsSafe
<1> QED
  BY <1>3, <1>4, <1>5, <1>6 DEF FeedSafe

LEMMA RespondSafe ==
  ASSUME Feed!FeedAssumption, FeedSafe, Feed!Respond
  PROVE  FeedSafe'
<1> DEFINE v == reading[Feed!Refresh]
<1>1. /\ v \notin {None, Asked} /\ shown' = [shown EXCEPT !["jobs"] = v]
      /\ reading' = [reading EXCEPT ![Feed!Refresh] = None] /\ late' = (late \/ v < shown["jobs"])
      /\ UNCHANGED <<fact, owed, socket, buffer, connects>>
  BY DEF Feed!Respond
<1>2. /\ {"gpu", "jobs"} = Feed!Topics /\ Feed!Refresh \in Feed!Reads /\ v \in 0..MaxChanges
      /\ v <= fact["jobs"] /\ fact["jobs"] \in Nat /\ shown["jobs"] \in Nat
  BY <1>1, ReadsKnown DEF FeedSafe, FeedTyped, Behind, Feed!Topics
<1> HIDE DEF v
<1>3. shown'["jobs"] = v /\ shown'["gpu"] = shown["gpu"]
  BY <1>1, <1>2 DEF FeedSafe, FeedTyped
<1>4. /\ \A x \in Feed!Reads : reading'[x] = reading[x] \/ reading'[x] = None
      /\ \A x \in Feed!Reads : x # Feed!Refresh => reading'[x] = reading[x]
  BY <1>1, <1>2 DEF FeedSafe, FeedTyped
<1>5. FeedTyped'
  BY <1>1, <1>2 DEF FeedSafe, FeedTyped
<1>6. Behind'
  BY <1>1, <1>2, <1>3, <1>4 DEF FeedSafe, Behind
<1>7. GpuSafe'
  BY <1>1, <1>3, <1>4 DEF FeedSafe, GpuSafe
<1>8. JobsSafe'
  <2>1. socket # "closed" => /\ <<connects, "jobs">> \in Feed!Reads /\ <<connects, "jobs">> # Feed!Refresh
    BY <1>2, ReadsKnown DEF FeedSafe, FeedTyped, Feed!FeedAssumption
  <2>2. ~late' /\ v # fact["jobs"] => shown["jobs"] # fact["jobs"]
    <3>1. shown["jobs"] <= fact["jobs"] /\ (~late' => ~(v < shown["jobs"]))
      BY <1>1, <1>2 DEF FeedSafe, Behind
    <3> QED
      BY <1>2, <3>1
  <2> QED
    BY <1>1, <1>2, <1>3, <1>4, <2>1, <2>2 DEF FeedSafe, JobsSafe, v
<1> QED
  BY <1>5, <1>6, <1>7, <1>8 DEF FeedSafe

LEMMA SettleSafe ==
  ASSUME Feed!FeedAssumption, FeedSafe, NEW n \in 1..MaxConnects, Feed!Settle(n)
  PROVE  FeedSafe'
<1>1. /\ \A x \in Feed!Snapshot(n) : reading[x] \notin {None, Asked}
      /\ shown' = [t \in Feed!Topics |-> reading[<<n, t>>]]
      /\ reading' = [x \in Feed!Reads |->
           IF x \in Feed!Snapshot(n) \/ (n > 1 /\ x = Feed!Refresh) THEN None ELSE reading[x]]
      /\ late' = (late \/ \E t \in Feed!Topics : reading[<<n, t>>] < shown[t])
      /\ UNCHANGED <<fact, owed, socket, buffer, connects>>
  BY DEF Feed!Settle
<1>2. \A t \in Feed!Topics :
        /\ reading[<<n, t>>] \in 0..MaxChanges /\ reading[<<n, t>>] <= fact[t] /\ <<n, t>> \in Feed!Reads
        /\ reading[<<n, t>>] \notin {None, Asked} /\ Feed!TopicOf(<<n, t>>) = t
  BY <1>1, ReadsKnown DEF FeedSafe, FeedTyped, Behind
<1>3. \A t \in Feed!Topics : fact[t] \in Nat /\ shown[t] \in Nat
  BY DEF FeedSafe, FeedTyped
<1>4. \A t \in Feed!Topics : ~late' /\ shown[t] = fact[t] => reading[<<n, t>>] = fact[t]
  <2> TAKE t \in Feed!Topics
  <2>1. ~late' => ~(reading[<<n, t>>] < shown[t])
    BY <1>1
  <2> QED
    BY <1>2, <1>3, <2>1
<1>5. \A t \in Feed!Topics : shown'[t] = reading[<<n, t>>]
  BY <1>1
<1>6. \A x \in Feed!Reads : reading'[x] = reading[x] \/ reading'[x] = None
  BY <1>1
<1>7. FeedTyped'
  <2>1. reading' \in [Feed!Reads -> {None, Asked} \cup (0..MaxChanges)]
    BY <1>1 DEF FeedSafe, FeedTyped
  <2>2. shown' \in [Feed!Topics -> 0..MaxChanges]
    BY <1>1, <1>2
  <2> QED
    BY <1>1, <2>1, <2>2 DEF FeedSafe, FeedTyped
<1>8. Behind'
  <2>1. \A t \in Feed!Topics : shown'[t] <= fact'[t]
    BY <1>1, <1>2, <1>5
  <2>2. \A x \in Feed!Reads : reading'[x] \notin {None, Asked} => reading'[x] <= fact'[Feed!TopicOf(x)]
    BY <1>1, <1>6 DEF FeedSafe, Behind
  <2> QED
    BY <1>1, <2>1, <2>2 DEF FeedSafe, Behind
<1>9. GpuSafe'
  <2>1. "gpu" \in Feed!Topics
    BY DEF Feed!Topics
  <2>2. \A x \in Feed!Reads : reading[x] \in {None, Asked, fact["gpu"]} => reading'[x] \in {None, Asked, fact["gpu"]}
    BY <1>6
  <2>3. late => late'
    BY <1>1
  <2> QED
    BY <1>1, <1>4, <1>5, <2>1, <2>2, <2>3 DEF FeedSafe, GpuSafe
<1>10. JobsSafe'
  <2>1. "jobs" \in Feed!Topics /\ Feed!Refresh \in Feed!Reads
    BY ReadsKnown DEF Feed!Topics
  <2> SUFFICES ASSUME ~late', socket # "closed", shown'["jobs"] # fact["jobs"], owed = 0,
                      ~Holds(buffer, "jobs")
               PROVE  reading'[<<connects, "jobs">>] \in {Asked, fact["jobs"]}
    BY <1>1 DEF JobsSafe, FeedSafe, FeedTyped
  <2>2. ~late /\ shown["jobs"] # fact["jobs"] /\ reading[<<n, "jobs">>] # fact["jobs"]
    BY <1>1, <1>4, <1>5, <2>1
  <2>3. reading[<<connects, "jobs">>] \in {Asked, fact["jobs"]}
    BY <1>2, <2>1, <2>2 DEF FeedSafe, JobsSafe
  <2>4. connects # n /\ connects \in 1..MaxConnects
    <3>1. connects # n
      BY <1>2, <2>1, <2>2, <2>3
    <3> QED
      BY <3>1 DEF FeedSafe, FeedTyped, Feed!FeedAssumption
  <2>5. reading'[<<connects, "jobs">>] = reading[<<connects, "jobs">>]
    BY <1>1, <2>1, <2>4, ReadsKnown
  <2> QED
    BY <2>3, <2>5
<1> QED
  BY <1>7, <1>8, <1>9, <1>10 DEF FeedSafe

LEMMA FailsSafe ==
  ASSUME Feed!FeedAssumption, FeedSafe,
         Feed!RefreshFails \/ \E n \in 1..MaxConnects : Feed!SnapshotFails(n)
  PROVE  FeedSafe'
<1>1. CASE Feed!RefreshFails
  <2>1. /\ reading' = [reading EXCEPT ![Feed!Refresh] = None] /\ late' = TRUE
        /\ UNCHANGED <<fact, owed, socket, buffer, shown, connects>>
    BY <1>1 DEF Feed!RefreshFails
  <2>2. \A x \in Feed!Reads : reading'[x] = reading[x] \/ reading'[x] = None
    BY <2>1 DEF FeedSafe, FeedTyped
  <2>3. FeedTyped'
    BY <2>1, ReadsKnown DEF FeedSafe, FeedTyped
  <2>4. Behind'
    BY <2>1, <2>2 DEF FeedSafe, Behind
  <2> QED
    BY <2>1, <2>3, <2>4 DEF FeedSafe, GpuSafe, JobsSafe
<1>2. ASSUME NEW n \in 1..MaxConnects, Feed!SnapshotFails(n) PROVE FeedSafe'
  <2>1. /\ reading' = [x \in Feed!Reads |->
             IF x \in Feed!Snapshot(n) \/ (n > 1 /\ x = Feed!Refresh) THEN None ELSE reading[x]]
        /\ late' = TRUE /\ UNCHANGED <<fact, owed, socket, buffer, connects>>
    BY <1>2 DEF Feed!SnapshotFails
  <2>2. PICK came \in SUBSET Feed!Topics :
          /\ \A t \in came : reading[<<n, t>>] # Asked
          /\ shown' = IF n = 1 THEN shown
                      ELSE [t \in Feed!Topics |-> IF t \in came THEN reading[<<n, t>>] ELSE shown[t]]
    BY <1>2 DEF Feed!SnapshotFails
  <2>3. \A t \in Feed!Topics : t \in came =>
          reading[<<n, t>>] \in 0..MaxChanges /\ reading[<<n, t>>] <= fact[t]
    <3> TAKE t \in Feed!Topics
    <3> HAVE t \in came
    <3>1. <<n, t>> \in Feed!Reads /\ Feed!TopicOf(<<n, t>>) = t /\ <<n, t>> \in Feed!Snapshot(n)
      BY ReadsKnown
    <3>2. reading[<<n, t>>] \notin {None, Asked}
      BY <1>2, <2>2, <3>1 DEF Feed!SnapshotFails
    <3> QED
      BY <3>1, <3>2 DEF FeedSafe, FeedTyped, Behind
  <2>4. \A x \in Feed!Reads : reading'[x] = reading[x] \/ reading'[x] = None
    BY <2>1
  <2>5. reading' \in [Feed!Reads -> {None, Asked} \cup (0..MaxChanges)]
    BY <2>1 DEF FeedSafe, FeedTyped
  <2>6. shown' \in [Feed!Topics -> 0..MaxChanges] /\ \A t \in Feed!Topics : shown'[t] <= fact[t]
    BY <2>2, <2>3 DEF FeedSafe, FeedTyped, Behind
  <2>7. FeedTyped'
    BY <2>1, <2>5, <2>6 DEF FeedSafe, FeedTyped
  <2>8. Behind'
    BY <2>1, <2>4, <2>6 DEF FeedSafe, Behind
  <2> QED
    BY <2>1, <2>7, <2>8 DEF FeedSafe, GpuSafe, JobsSafe
<1> QED
  BY <1>1, <1>2

LEMMA FeedStep == Feed!FeedAssumption /\ FeedSafe /\ [Feed!Next]_(Feed!vars) => FeedSafe'
<1> SUFFICES ASSUME Feed!FeedAssumption, FeedSafe, [Feed!Next]_(Feed!vars) PROVE FeedSafe'
  OBVIOUS
<1>1. CASE Feed!GpuChanges \/ Feed!JobCommits \/ Feed!JobEvent
  BY <1>1, GpuChangesSafe, JobCommitsSafe, JobEventSafe
<1>2. CASE Feed!Connect \/ Feed!Greet \/ Feed!Subscribe \/ Feed!Disconnect \/ UNCHANGED Feed!vars
  BY <1>2, SocketSafe
<1>3. CASE Feed!Deliver \/ Feed!Respond \/ \E x \in Feed!Reads : Feed!ServerReads(x)
  BY <1>3, DeliverSafe, RespondSafe, ServerReadsSafe
<1>4. CASE \/ Feed!RefreshFails
           \/ \E n \in 1..MaxConnects : Feed!Settle(n) \/ Feed!SnapshotFails(n)
  BY <1>4, SettleSafe, FailsSafe
<1> QED
  BY <1>1, <1>2, <1>3, <1>4 DEF Feed!Next

LEMMA FeedTrue == Feed!FeedAssumption /\ FeedSafe => Feed!TabConverges
<1> SUFFICES ASSUME Feed!FeedAssumption, FeedSafe, Feed!Quiet, ~late PROVE shown = fact
  BY DEF Feed!TabConverges
<1>1. /\ socket = "subscribed" /\ buffer = <<>> /\ owed = 0 /\ Len(buffer) = 0
      /\ \A x \in Feed!Reads : reading[x] = None
  BY DEF Feed!Quiet
<1>2. ~Holds(buffer, "gpu") /\ ~Holds(buffer, "jobs")
  BY <1>1 DEF Holds
<1>3. connects \in 1..MaxConnects
  BY <1>1 DEF FeedSafe, FeedTyped, Feed!FeedAssumption
<1>4. "jobs" \in Feed!Topics /\ <<connects, "jobs">> \in Feed!Reads /\ Feed!Refresh \in Feed!Reads
  BY <1>3, ReadsKnown DEF Feed!Topics
<1>5. fact["jobs"] # None /\ Asked # None
  BY <1>4 DEF FeedSafe, FeedTyped, Feed!FeedAssumption
<1>6. shown["gpu"] = fact["gpu"]
  BY <1>1, <1>2 DEF FeedSafe, GpuSafe
<1>7. shown["jobs"] = fact["jobs"]
  BY <1>1, <1>2, <1>4, <1>5 DEF FeedSafe, JobsSafe
<1> QED
  BY <1>6, <1>7 DEF FeedSafe, FeedTyped, Feed!Topics

-----------------------------------------------------------------------------
(* The settings: the layers say where the value of a key comes from, and   *)
(* that every content which the file may have after a loss of power agrees *)
(* with what was promised.                                                 *)

\* The save under way has replaced the file.
Landed == saving.step = "apply" \/ (saving.step = "sync" /\ saving.to = "main")

\* Values of requests come from saves that have replaced the file, but for the
\* one under way.
Sourced ==
  /\ Settings!NotAhead
  /\ \A n \in Settings!Names : \A c \in survives[n] :
       c # None => \A k \in SettingKeys : c[k] \in Saves => c[k] \in landed
  /\ saving # None =>
       /\ \A k \in SettingKeys : saving.values[k] \in Saves =>
            saving.values[k] \in landed \cup {saving.by}
       /\ Landed => saving.by \in landed

\* What the save under way has done to the files.
Written ==
  saving # None =>
    /\ phase = "up"
    /\ \A k \in PatchOf[saving.by] : saving.values[k] = saving.by
    /\ Landed => file["main"] = saving.values
    /\ saving.safe => Landed /\ survives["main"] = {saving.values}

\* A promise is kept by whatever the next start may find, by the attributes once
\* it has read that, and by the save under way unless it will break it.
Promised ==
  /\ Settings!PromisesKept
  /\ \A k \in SettingKeys : promised[k] \in Saves =>
       \A c \in survives["main"] : c # None /\ c[k] = promised[k]
  /\ \A k \in SettingKeys : promised[k] = Live => phase = "up"
  /\ phase \in {"tune", "activate"} =>
       \A k \in SettingKeys : promised[k] \in Saves => runtime[k] = promised[k] /\ k \in chosen
  /\ saving # None =>
       \A k \in SettingKeys : promised[k] # None =>
         \/ saving.values[k] = promised[k]
         \/ k \in PatchOf[saving.by] /\ ~Landed

\* What SyncParent does when the directory has been synced, or not.
Onward(done) ==
  /\ IF done THEN Settings!Synced(file) ELSE UNCHANGED survives
  /\ saving' = IF saving.to = "main"
               THEN [saving EXCEPT !.step = "apply", !.safe = done]
               ELSE [saving EXCEPT !.step = "replace", !.to = "main"]

SettingsSafe == Settings!TypeOK /\ Sourced /\ Written /\ Promised

LEMMA SettingsInitTyped == Settings!SettingsAssumption /\ Settings!Init => Settings!TypeOK
  BY DEF Settings!SettingsAssumption, Settings!Init, Settings!TypeOK, Settings!Document, Settings!Values, Settings!Names

LEMMA SettingsStepTyped == Settings!SettingsAssumption /\ Settings!TypeOK /\ [Settings!Next]_(Settings!vars) => Settings!TypeOK'
<1> SUFFICES ASSUME Settings!SettingsAssumption, Settings!TypeOK, [Settings!Next]_(Settings!vars) PROVE Settings!TypeOK'
  OBVIOUS
<1> USE DEF Settings!SettingsAssumption, Settings!TypeOK, Settings!Document, Settings!Values, Settings!Names
<1>1. CASE UNCHANGED Settings!vars
  BY <1>1 DEF Settings!vars
<1>2. CASE Settings!Load
  BY <1>2 DEF Settings!Load
<1>3. CASE Settings!Quarantine
  BY <1>3 DEF Settings!Quarantine, Settings!Renamed, Settings!Synced, Settings!fileVars
<1>4. CASE Settings!Tune \/ Settings!Activate
  BY <1>4 DEF Settings!Tune, Settings!Activate
<1>5. ASSUME NEW s \in Saves, Settings!Refuse(s) PROVE Settings!TypeOK'
  BY <1>5 DEF Settings!Refuse
<1>6. ASSUME NEW s \in Saves, Settings!Snapshot(s) PROVE Settings!TypeOK'
  BY <1>6 DEF Settings!Snapshot, Settings!Saving
<1>7. CASE Settings!SaveFails
  BY <1>7 DEF Settings!SaveFails, Settings!Saving
<1>8. CASE Settings!Replace
  BY <1>8 DEF Settings!Replace, Settings!Renamed, Settings!Saving
<1>9. CASE Settings!SyncParent
  <2>1. saving \in Settings!Saving /\ UNCHANGED <<phase, runtime, chosen, file, replied, ends, landed, promised>>
    BY <1>9 DEF Settings!SyncParent
  <2>2. PICK done \in BOOLEAN : Onward(done)
    BY <1>9 DEF Settings!SyncParent, Onward
  <2>3. saving' \in Settings!Saving
    <3>1. CASE saving.to = "main"
      BY <2>1, <2>2, <3>1 DEF Onward, Settings!Saving
    <3>2. CASE saving.to # "main"
      BY <2>1, <2>2, <3>2 DEF Onward, Settings!Saving
    <3> QED
      BY <3>1, <3>2
  <2>4. survives' \in [Settings!Names -> SUBSET (Settings!Document \cup {None})] /\ \A n \in Settings!Names : file[n] \in survives'[n]
    BY <2>2 DEF Onward, Settings!Synced
  <2> QED
    BY <2>1, <2>3, <2>4
<1>10. CASE Settings!Saved
  BY <1>10 DEF Settings!Saved, Settings!Saving
<1>11. ASSUME NEW k \in SettingKeys, Settings!ApplyKey(k) PROVE Settings!TypeOK'
  BY <1>11 DEF Settings!ApplyKey, Settings!Saving
<1>12. ASSUME NEW k \in SettingKeys, Settings!SetLive(k) PROVE Settings!TypeOK'
  BY <1>12 DEF Settings!SetLive
<1>13. CASE Settings!ProcessEnds
  BY <1>13 DEF Settings!ProcessEnds, Settings!Restarted, Settings!fileVars
<1>14. CASE Settings!PowerLoss
  BY <1>14 DEF Settings!PowerLoss, Settings!Restarted, Settings!Synced
<1> QED
  BY <1>1, <1>2, <1>3, <1>4, <1>5, <1>6, <1>7, <1>8, <1>9, <1>10, <1>11, <1>12,
     <1>13, <1>14 DEF Settings!Next

LEMMA SettingsInit == Settings!SettingsAssumption /\ Settings!Init => SettingsSafe
<1> SUFFICES ASSUME Settings!SettingsAssumption, Settings!Init PROVE SettingsSafe
  OBVIOUS
<1> USE DEF Settings!Init, Settings!SettingsAssumption
<1>1. Settings!TypeOK
  BY SettingsInitTyped
<1>2. Sourced
  BY DEF Sourced, Settings!NotAhead, Settings!Names
<1>3. Written /\ Promised
  BY DEF Written, Promised, Settings!PromisesKept, Settings!Names
<1> QED
  BY <1>1, <1>2, <1>3 DEF SettingsSafe

LEMMA StartupSafe ==
  Settings!SettingsAssumption /\ SettingsSafe /\ (Settings!Load \/ Settings!Quarantine \/ Settings!Tune \/ Settings!Activate) =>
    (Sourced /\ Written /\ Promised)'
<1> SUFFICES ASSUME Settings!SettingsAssumption, SettingsSafe PROVE
      (Settings!Load \/ Settings!Quarantine \/ Settings!Tune \/ Settings!Activate) => (Sourced /\ Written /\ Promised)'
  OBVIOUS
<1> USE DEF Settings!SettingsAssumption, SettingsSafe, Settings!TypeOK, Settings!Document, Settings!Values, Settings!Names, Settings!Saving,
            Sourced, Settings!NotAhead, Written, Landed, Promised, Settings!PromisesKept
<1>1. ASSUME Settings!Load PROVE (Sourced /\ Written /\ Promised)'
  BY <1>1 DEF Settings!Load
<1>2. ASSUME Settings!Quarantine PROVE (Sourced /\ Written /\ Promised)'
  BY <1>2 DEF Settings!Quarantine, Settings!Renamed, Settings!Synced, Settings!fileVars
<1>3. ASSUME Settings!Tune PROVE (Sourced /\ Written /\ Promised)'
  BY <1>3 DEF Settings!Tune
<1>4. ASSUME Settings!Activate PROVE (Sourced /\ Written /\ Promised)'
  BY <1>4 DEF Settings!Activate
<1> QED
  BY <1>1, <1>2, <1>3, <1>4

LEMMA SaveSafe ==
  ASSUME Settings!SettingsAssumption, SettingsSafe,
         \/ \E s \in Saves : Settings!Refuse(s) \/ Settings!Snapshot(s)
         \/ Settings!SaveFails \/ Settings!Replace \/ Settings!SyncParent \/ Settings!Saved
         \/ \E k \in SettingKeys : Settings!ApplyKey(k)
  PROVE  (Sourced /\ Written /\ Promised)'
<1> USE DEF Settings!SettingsAssumption, SettingsSafe, Settings!TypeOK, Settings!Document, Settings!Values, Settings!Names, Settings!Saving,
            Sourced, Settings!NotAhead, Written, Landed, Promised, Settings!PromisesKept
<1>1. ASSUME NEW s \in Saves, Settings!Refuse(s) PROVE (Sourced /\ Written /\ Promised)'
  BY <1>1 DEF Settings!Refuse
<1>2. ASSUME NEW s \in Saves, Settings!Snapshot(s) PROVE (Sourced /\ Written /\ Promised)'
  BY <1>2 DEF Settings!Snapshot
<1>3. CASE Settings!SaveFails
  BY <1>3 DEF Settings!SaveFails
<1>4. CASE Settings!Replace
  BY <1>4 DEF Settings!Replace, Settings!Renamed
<1>5. CASE Settings!SyncParent
  <2>1. PICK done \in BOOLEAN : Onward(done)
    BY <1>5 DEF Settings!SyncParent, Onward
  <2>2. CASE saving.to = "main" /\ done
    <3>1. saving' = [saving EXCEPT !.step = "apply", !.safe = TRUE]
      BY <1>5, <2>1, <2>2, Zenon DEF Onward
    <3>2. saving # None /\ Landed /\ Settings!Synced(file)
      BY <1>5, <2>1, <2>2 DEF Settings!SyncParent, Onward
    <3>3. Landed' /\ saving'.values = saving.values /\ saving'.by = saving.by
      BY <3>1, <3>2
    <3>4. \A n \in Settings!Names : survives'[n] = {file[n]} /\ file[n] \in survives[n]
      BY <3>2 DEF Settings!Synced
    <3>5. UNCHANGED <<phase, runtime, chosen, file, landed, promised>> /\ "main" \in Settings!Names
      BY <1>5 DEF Settings!SyncParent
    <3> HIDE DEF Landed, Settings!Names
    <3>6. Sourced' /\ Written'
      BY <3>2, <3>3, <3>4, <3>5
    <3>7. Promised'
      BY <3>2, <3>3, <3>4, <3>5
    <3> QED
      BY <3>6, <3>7
  <2>3. CASE saving.to = "main" /\ ~done
    <3>1. /\ saving # None /\ Landed /\ Landed' /\ UNCHANGED survives
          /\ saving' = [saving EXCEPT !.step = "apply", !.safe = FALSE]
      BY <1>5, <2>1, <2>3, Zenon DEF Settings!SyncParent, Onward, Settings!Synced
    <3>2. saving'.values = saving.values /\ saving'.by = saving.by /\ ~saving'.safe
      BY <1>5, <3>1 DEF Settings!SyncParent
    <3> HIDE DEF Landed
    <3> QED
      BY <1>5, <3>1, <3>2 DEF Settings!SyncParent
  <2>4. CASE saving.to # "main"
    <3>1. ~Landed /\ ~Landed' /\ saving'.values = saving.values /\ saving'.by = saving.by
          /\ ~saving'.safe
      BY <1>5, <2>1, <2>4 DEF Settings!SyncParent, Onward
    <3>2. \A n \in Settings!Names : file[n] \in survives[n] /\ survives'[n] \subseteq survives[n]
      BY <1>5, <2>1, <2>4 DEF Settings!SyncParent, Onward, Settings!Synced
    <3> HIDE DEF Landed
    <3> QED
      BY <1>5, <2>4, <3>1, <3>2 DEF Settings!SyncParent
  <2> QED
    BY <2>2, <2>3, <2>4
<1>6. CASE Settings!Saved
  BY <1>6 DEF Settings!Saved
<1>7. ASSUME NEW k \in SettingKeys, Settings!ApplyKey(k) PROVE (Sourced /\ Written /\ Promised)'
  BY <1>7 DEF Settings!ApplyKey
<1> QED
  BY <1>1, <1>2, <1>3, <1>4, <1>5, <1>6, <1>7

LEMMA OutsideSafe ==
  ASSUME Settings!SettingsAssumption, SettingsSafe,
         (\E k \in SettingKeys : Settings!SetLive(k)) \/ Settings!ProcessEnds \/ Settings!PowerLoss \/ UNCHANGED Settings!vars
  PROVE  (Sourced /\ Written /\ Promised)'
<1> USE DEF Settings!SettingsAssumption, SettingsSafe, Settings!TypeOK, Settings!Document, Settings!Values, Settings!Names, Settings!Saving,
            Sourced, Settings!NotAhead, Written, Landed, Promised, Settings!PromisesKept
<1>1. ASSUME NEW k \in SettingKeys, Settings!SetLive(k) PROVE (Sourced /\ Written /\ Promised)'
  BY <1>1 DEF Settings!SetLive
<1>2. CASE Settings!ProcessEnds
  BY <1>2 DEF Settings!ProcessEnds, Settings!Restarted, Settings!fileVars
<1>3. CASE Settings!PowerLoss
  BY <1>3 DEF Settings!PowerLoss, Settings!Restarted, Settings!Synced
<1>4. CASE UNCHANGED Settings!vars
  BY <1>4 DEF Settings!vars
<1> QED
  BY <1>1, <1>2, <1>3, <1>4

LEMMA SettingsStep == Settings!SettingsAssumption /\ SettingsSafe /\ [Settings!Next]_(Settings!vars) => SettingsSafe'
<1> SUFFICES ASSUME Settings!SettingsAssumption, SettingsSafe, [Settings!Next]_(Settings!vars) PROVE SettingsSafe'
  OBVIOUS
<1>1. Settings!TypeOK'
  BY SettingsStepTyped DEF SettingsSafe
<1>2. (Sourced /\ Written /\ Promised)'
  BY StartupSafe, SaveSafe, OutsideSafe DEF Settings!Next
<1> QED
  BY <1>1, <1>2 DEF SettingsSafe

LEMMA SettingsTrue == SettingsSafe => Settings!SavedKept
  BY DEF SettingsSafe, Sourced, Promised, Settings!SavedKept

-----------------------------------------------------------------------------
(* The installed builds: what is kept when old ones go.                    *)

\* The instance counts as the library does.
LEMMA SameCardinality == \A S : Runtime!Cardinality(S) = Cardinality(S)
  BY DEF Runtime!Cardinality, Runtime!IsFiniteSet, Cardinality, IsFiniteSet

Files == [active : Builds \cup {None}, stamp : [Builds -> Nat]]

\* A file whose stamps tell its builds apart keeps at most Keep of them, the active
\* one among them.
LEMMA KeptFew ==
  ASSUME Runtime!RuntimeAssumption, NEW g \in Files, IsFiniteSet(Runtime!Listed(g)),
         \A b, d \in Runtime!Listed(g) : g.stamp[b] = g.stamp[d] => b = d
  PROVE  /\ Runtime!Kept(g) \subseteq Runtime!Listed(g) /\ Cardinality(Runtime!Kept(g)) <= Keep
         /\ g.active \in Runtime!Listed(g) => g.active \in Runtime!Kept(g)
<1> DEFINE own == {g.active} \cap Runtime!Listed(g)
           rest == Runtime!Listed(g) \ own
           newer(b) == {x \in rest : g.stamp[x] > g.stamp[b]}
           some == {b \in rest : Cardinality(newer(b)) < Keep - Cardinality(own)}
<1>1. Runtime!Kept(g) = own \cup some
  BY SameCardinality DEF Runtime!Kept
<1>2. IsFiniteSet(own) /\ Cardinality(own) \in {0, 1}
  <2>1. own = {} \/ own = {g.active}
    OBVIOUS
  <2> HIDE DEF own
  <2> QED
    BY <2>1, FS_EmptySet, FS_Singleton
<1>3. IsFiniteSet(rest) /\ IsFiniteSet(some) /\ some \subseteq rest
  BY FS_Subset
<1>4. \A b \in rest : g.stamp[b] \in Nat
  BY DEF Runtime!Listed, Files
<1>5. \A b, d \in rest : g.stamp[b] = g.stamp[d] => b = d
  OBVIOUS
<1>6. own \subseteq Runtime!Listed(g) /\ rest \subseteq Runtime!Listed(g) /\ own \cap rest = {}
  OBVIOUS
<1>7. g.active \in Runtime!Listed(g) => g.active \in own
  OBVIOUS
<1> HIDE DEF own, rest
<1>8. Cardinality(some) <= Keep - Cardinality(own) /\ Cardinality(some) \in Nat
  <2>1. CASE some = {}
    <3> HIDE DEF some
    <3> QED
      BY <1>2, <2>1, FS_EmptySet DEF Runtime!RuntimeAssumption
  <2>2. CASE some # {}
    <3> HIDE DEF some
    <3>1. PICK b \in some : \A x \in some : g.stamp[b] <= g.stamp[x]
      BY <1>3, <1>4, <2>2, Oldest
    <3>2. some \ {b} \subseteq newer(b)
      BY <1>3, <1>4, <1>5, <3>1
    <3>3. IsFiniteSet(newer(b)) /\ Cardinality(newer(b)) \in Nat
      BY <1>3, FS_Subset, FS_CardinalityType
    <3>4. Cardinality(some \ {b}) <= Cardinality(newer(b))
      <4> HIDE DEF newer
      <4> QED
        BY <3>2, <3>3, FS_Subset
    <3>5. Cardinality(some \ {b}) = Cardinality(some) - 1 /\ Cardinality(some) \in Nat
      BY <1>3, <3>1, FS_RemoveElement, FS_CardinalityType
    <3>6. Cardinality(newer(b)) < Keep - Cardinality(own)
      BY <3>1 DEF some
    <3> QED
      BY <1>2, <3>3, <3>4, <3>5, <3>6 DEF Runtime!RuntimeAssumption
  <2> QED
    BY <2>1, <2>2
<1> HIDE DEF some
<1>9. Cardinality(own \cup some) = Cardinality(own) + Cardinality(some)
  <2>1. own \cap some = {}
    BY <1>3, <1>6
  <2> QED
    BY <1>2, <1>3, <1>8, <2>1, FS_Union, FS_EmptySet, Cardinality(own \cap some) = 0
<1> QED
  BY <1>1, <1>2, <1>3, <1>6, <1>7, <1>8, <1>9 DEF Runtime!RuntimeAssumption

-----------------------------------------------------------------------------
(* The installed builds: the file, the folders and the settings.           *)

Steps == {"idle", "fetch", "move", "read", "write", "prune", "drop", "rewrite", "apply", "erase"}

\* A request does the steps of its operation.
OnItsWay(r) ==
  \/ r.step = "idle"
  \/ /\ r.op = "install"
     /\ r.step \in {"fetch", "move", "read", "write", "prune", "drop", "rewrite", "apply"}
  \/ r.op = "activate" /\ r.step \in {"read", "write", "apply"}
  \/ r.op = "remove" /\ r.step \in {"read", "erase", "write"}

Requested ==
  [Callers -> [op : {None, "install", "activate", "remove"}, build : Builds \cup {None},
               step : Steps, read : Files]]

RuntimeTyped ==
  /\ installed \in Files /\ folders \subseteq Builds /\ calls \in Nat
  /\ call \in Requested
  /\ \A c \in Callers : OnItsWay(call[c])
  /\ \A c \in Runtime!Busy : call[c].build \in Builds /\ calls > 0

\* Stamps tell the listed builds apart.  The active build is listed.
Stamped ==
  /\ IsFiniteSet(Runtime!Listed(installed))
  /\ installed.active # None => installed.active \in Runtime!Listed(installed)
  /\ \A b \in Builds : installed.stamp[b] <= calls
  /\ \A b, d \in Runtime!Listed(installed) : installed.stamp[b] = installed.stamp[d] => b = d

\* What a request has read is still so, what it has found still there, and the build
\* that it installs the newest.
Current(r) ==
  /\ r.step \in {"erase", "write", "drop", "rewrite"} => r.read = installed
  /\ r.op = "install" /\ r.step \in {"fetch", "move", "read", "write"} =>
       \A b \in Builds : installed.stamp[b] < calls
  /\ r.op = "install" /\ r.step \in {"read", "write"} => r.build \in folders
  /\ r.op = "activate" /\ r.step \in {"write", "apply"} => r.build \in Runtime!Listed(installed)
  /\ r.op = "remove" /\ r.step \in {"erase", "write"} => r.build # installed.active

\* The listed builds whose folder a request has taken away before it writes the file.
Gone(r, b) ==
  \/ r.step = "move" /\ r.build = b
  \/ r.step = "write" /\ r.op = "remove" /\ r.build = b
  \/ r.step = "rewrite" /\ b \notin Runtime!Kept(installed)

Stored(r) ==
  /\ \A b \in Runtime!Listed(installed) : b \in folders \/ Gone(r, b)
  /\ installed.active # None =>
       binary = installed.active \/ r.step \in {"prune", "drop", "rewrite", "apply"}
  /\ ~cut => \/ Cardinality(Runtime!Listed(installed)) <= Keep
             \/ r.step \in {"prune", "drop", "rewrite"}

\* What the request that is under way, or none, can count on.
Sound(r) == Stamped /\ Current(r) /\ Stored(r)

InTurn ==
  /\ \A c, d \in Runtime!Busy : c = d
  /\ \A c \in Runtime!Busy : Sound(call[c])
  /\ Runtime!Busy = {} => Sound(Runtime!Fresh)

RuntimeSafe == RuntimeTyped /\ (~spoilt => InTurn)

LEMMA RuntimeInit == Runtime!RuntimeAssumption /\ Runtime!Init => RuntimeSafe
<1> SUFFICES ASSUME Runtime!RuntimeAssumption, Runtime!Init PROVE RuntimeSafe
  OBVIOUS
<1>1. Runtime!Listed(installed) = {} /\ Runtime!Busy = {}
  BY DEF Runtime!Init, Runtime!Listed, Runtime!NoFile, Runtime!Busy, Runtime!Fresh
<1>2. IsFiniteSet(Runtime!Listed(installed)) /\ Cardinality(Runtime!Listed(installed)) = 0
  BY <1>1, FS_EmptySet
<1>3. RuntimeTyped
  BY <1>1, <1>2 DEF Runtime!Init, RuntimeTyped, Runtime!NoFile, Runtime!Fresh, Files, Steps, OnItsWay, Requested
<1>4. InTurn
  BY <1>1, <1>2 DEF Runtime!Init, InTurn, Sound, Stamped, Current, Stored, Runtime!NoFile, Runtime!Fresh,
     Runtime!RuntimeAssumption
<1> QED
  BY <1>3, <1>4 DEF RuntimeSafe

\* A step of a request leaves the other requests where they are.
Moved(c, s) ==
  /\ call' \in Requested /\ call'[c].step = s
  /\ call'[c].op = call[c].op /\ call'[c].build = call[c].build
  /\ \A d \in Callers : d # c => call'[d] = call[d]

LEMMA Moves ==
  ASSUME RuntimeTyped, NEW c \in Callers
  PROVE  /\ \A s \in Steps : Runtime!Step(c, s) => Moved(c, s) /\ call'[c].read = call[c].read
         /\ \A s \in Steps : Runtime!StepRead(c, s) => Moved(c, s) /\ call'[c].read = installed
         /\ Runtime!Over(c) => /\ call' \in Requested /\ call'[c].step = "idle"
                               /\ \A d \in Callers : d # c => call'[d] = call[d]
<1>0. call \in Requested /\ installed \in Files
  BY DEF RuntimeTyped
<1>1. ASSUME NEW s \in Steps, Runtime!Step(c, s) PROVE Moved(c, s) /\ call'[c].read = call[c].read
  BY <1>0, <1>1 DEF Requested, Moved, Runtime!Step
<1>2. ASSUME NEW s \in Steps, Runtime!StepRead(c, s) PROVE Moved(c, s) /\ call'[c].read = installed
  BY <1>0, <1>2 DEF Requested, Moved, Runtime!StepRead
<1>3. ASSUME Runtime!Over(c)
      PROVE  /\ call' \in Requested /\ call'[c].step = "idle"
             /\ \A d \in Callers : d # c => call'[d] = call[d]
  <2>1. Runtime!Fresh \in [op : {None, "install", "activate", "remove"}, build : Builds \cup {None},
                          step : Steps, read : Files] /\ Runtime!Fresh.step = "idle"
    BY DEF Runtime!Fresh, Runtime!NoFile, Files, Steps
  <2> QED
    BY <1>0, <1>3, <2>1 DEF Requested, Runtime!Over
<1> QED
  BY <1>1, <1>2, <1>3

\* While a request is alone, what it can count on after its step is enough.
LEMMA OneMoves ==
  ASSUME InTurn, NEW c \in Runtime!Busy, c \in Callers,
         \A d \in Callers : d # c => call'[d] = call[d],
         call'[c].step # "idle" => Sound(call[c])',
         call'[c].step = "idle" => Sound(Runtime!Fresh)'
  PROVE  InTurn'
<1>1. \A d \in Callers : d # c => call[d].step = "idle"
  BY DEF InTurn, Runtime!Busy
<1>2. \A d \in Runtime!Busy' : d = c
  BY <1>1 DEF Runtime!Busy
<1>3. c \in Runtime!Busy' <=> call'[c].step # "idle"
  BY DEF Runtime!Busy
<1> QED
  BY <1>2, <1>3 DEF InTurn

LEMMA TypedStays ==
  ASSUME RuntimeTyped, NEW c \in Callers, c \in Runtime!Busy, UNCHANGED <<installed, calls>>,
         folders' \subseteq Builds, call' \in Requested, OnItsWay(call'[c]),
         \A d \in Callers : d # c => call'[d] = call[d],
         call'[c].step # "idle" => call'[c].build = call[c].build
  PROVE  RuntimeTyped'
<1>1. Runtime!Listed(installed)' = Runtime!Listed(installed)
  BY DEF Runtime!Listed
<1>2. \A d \in Callers : OnItsWay(call[d])'
  BY DEF RuntimeTyped, OnItsWay
<1>3. \A d \in Runtime!Busy' : call'[d].build \in Builds /\ calls > 0
  BY DEF RuntimeTyped, Runtime!Busy
<1> QED
  BY <1>1, <1>2, <1>3 DEF RuntimeTyped

\* The steps of a request that leave the file alone.
LEMMA FileStays ==
  ASSUME Runtime!RuntimeAssumption, RuntimeSafe, NEW c \in Callers,
         \/ Runtime!FetchFails(c) \/ Runtime!Clear(c) \/ Runtime!Move(c) \/ Runtime!MoveFails(c)
         \/ Runtime!Read(c) \/ Runtime!Erase(c) \/ Runtime!PruneReads(c) \/ Runtime!PruneDrops(c)
         \/ Runtime!Apply(c)
  PROVE  RuntimeSafe'
<1> DEFINE r == call[c]
<1>0. /\ RuntimeTyped /\ OnItsWay(r) /\ UNCHANGED <<installed, calls>>
      /\ c \in Runtime!Busy /\ r.build \in Builds /\ installed \in Files
      /\ ~spoilt' => InTurn /\ Sound(r) /\ UNCHANGED cut
  <2>1. r.step # "idle" /\ UNCHANGED <<installed, calls, cut>> /\ (spoilt => spoilt')
    <3>1. CASE Runtime!FetchFails(c) \/ Runtime!Clear(c) \/ Runtime!Move(c)
      BY <3>1 DEF Runtime!FetchFails, Runtime!Clear, Runtime!Move
    <3>2. CASE Runtime!Erase(c) \/ Runtime!Apply(c)
      BY <3>2 DEF Runtime!Erase, Runtime!Apply
    <3>5. CASE Runtime!MoveFails(c)
      <4>1. spoilt => spoilt'
        BY <3>5, Zenon DEF Runtime!MoveFails
      <4> QED
        BY <3>5, <4>1 DEF Runtime!MoveFails
    <3>3. CASE Runtime!PruneReads(c) \/ Runtime!PruneDrops(c)
      BY <3>3 DEF Runtime!PruneReads, Runtime!PruneDrops
    <3>4. CASE Runtime!Read(c)
      BY <3>4 DEF Runtime!Read
    <3> QED
      BY <3>1, <3>2, <3>3, <3>4, <3>5
  <2>2. c \in Runtime!Busy
    BY <2>1 DEF Runtime!Busy
  <2> QED
    BY <2>1, <2>2 DEF RuntimeSafe, RuntimeTyped, InTurn
<1>1. /\ Runtime!Listed(installed)' = Runtime!Listed(installed) /\ Runtime!Kept(installed)' = Runtime!Kept(installed)
      /\ Stamped => Stamped'
  BY <1>0 DEF Runtime!Listed, Runtime!Kept, Stamped
<1>2. CASE Runtime!FetchFails(c)
  <2>1. r.step = "fetch" /\ UNCHANGED <<folders, binary>> /\ Runtime!Over(c)
    BY <1>2 DEF Runtime!FetchFails
  <2>2. call' \in Requested /\ call'[c].step = "idle" /\ \A d \in Callers : d # c => call'[d] = call[d]
    BY <1>0, <2>1, Moves
  <2>3. RuntimeTyped'
    BY <1>0, <2>1, <2>2, TypedStays DEF RuntimeTyped, OnItsWay
  <2>4. ~spoilt' => Sound(Runtime!Fresh)'
    BY <1>0, <1>1, <2>1 DEF Sound, Current, Stored, Gone, Runtime!Fresh
  <2> QED
    BY <1>0, <2>2, <2>3, <2>4, OneMoves DEF RuntimeSafe
<1>3. CASE Runtime!MoveFails(c)
  <2>1. /\ r.step = "move" /\ UNCHANGED <<folders, binary>> /\ Runtime!Over(c)
        /\ ~spoilt' => r.build \notin Runtime!Listed(installed)
    BY <1>3 DEF Runtime!MoveFails
  <2>2. call' \in Requested /\ call'[c].step = "idle" /\ \A d \in Callers : d # c => call'[d] = call[d]
    BY <1>0, <2>1, Moves
  <2>3. RuntimeTyped'
    BY <1>0, <2>1, <2>2, TypedStays DEF RuntimeTyped, OnItsWay
  <2>4. ~spoilt' => Sound(Runtime!Fresh)'
    BY <1>0, <1>1, <2>1 DEF Sound, Current, Stored, Gone, Runtime!Fresh
  <2> QED
    BY <1>0, <2>2, <2>3, <2>4, OneMoves DEF RuntimeSafe
<1>4. CASE Runtime!Apply(c)
  <2>1. r.step = "apply" /\ UNCHANGED folders /\ Runtime!Over(c) /\ binary' = Runtime!Applied
    BY <1>4 DEF Runtime!Apply
  <2>2. call' \in Requested /\ call'[c].step = "idle" /\ \A d \in Callers : d # c => call'[d] = call[d]
    BY <1>0, <2>1, Moves
  <2>3. RuntimeTyped'
    BY <1>0, <2>1, <2>2, TypedStays DEF RuntimeTyped, OnItsWay
  <2>4. ~spoilt' => Sound(Runtime!Fresh)'
    BY <1>0, <1>1, <2>1 DEF Sound, Stamped, Current, Stored, Gone, Runtime!Fresh, Runtime!Applied
  <2> QED
    BY <1>0, <2>2, <2>3, <2>4, OneMoves DEF RuntimeSafe
<1>5. CASE Runtime!Clear(c)
  <2>1. /\ r.step = "fetch" /\ UNCHANGED binary /\ folders' = folders \ {r.build}
        /\ Moved(c, "move") /\ r.op = "install"
    BY <1>0, <1>5, Moves DEF Runtime!Clear, OnItsWay, Steps
  <2>3. RuntimeTyped'
    BY <1>0, <2>1, TypedStays DEF RuntimeTyped, OnItsWay, Moved
  <2>4. ~spoilt' => Sound(r)'
    BY <1>0, <1>1, <2>1 DEF Sound, Current, Stored, Gone, Moved
  <2> QED
    BY <1>0, <2>1, <2>3, <2>4, OneMoves DEF RuntimeSafe, Moved
<1>6. CASE Runtime!Move(c)
  <2>1. /\ r.step = "move" /\ UNCHANGED binary /\ folders' = folders \cup {r.build}
        /\ Moved(c, "read") /\ r.op = "install"
    BY <1>0, <1>6, Moves DEF Runtime!Move, OnItsWay, Steps
  <2>3. RuntimeTyped'
    BY <1>0, <2>1, TypedStays DEF RuntimeTyped, OnItsWay, Moved
  <2>4. ~spoilt' => Sound(r)'
    BY <1>0, <1>1, <2>1 DEF Sound, Current, Stored, Gone, Moved
  <2> QED
    BY <1>0, <2>1, <2>3, <2>4, OneMoves DEF RuntimeSafe, Moved
<1>7. CASE Runtime!Erase(c)
  <2>1. /\ r.step = "erase" /\ UNCHANGED binary /\ folders' = folders \ {r.build}
        /\ Moved(c, "write") /\ r.op = "remove" /\ call'[c].read = r.read
    BY <1>0, <1>7, Moves DEF Runtime!Erase, OnItsWay, Steps
  <2>3. RuntimeTyped'
    BY <1>0, <2>1, TypedStays DEF RuntimeTyped, OnItsWay, Moved
  <2>4. ~spoilt' => Sound(r)'
    BY <1>0, <1>1, <2>1 DEF Sound, Current, Stored, Gone, Moved
  <2> QED
    BY <1>0, <2>1, <2>3, <2>4, OneMoves DEF RuntimeSafe, Moved
<1>8. CASE Runtime!PruneReads(c)
  <2>1. /\ r.step = "prune" /\ UNCHANGED <<folders, binary>> /\ r.op = "install" /\ call'[c].read = installed
        /\ \/ Moved(c, "apply") /\ Cardinality(Runtime!Listed(installed)) <= Keep
           \/ Moved(c, "drop")
    BY <1>0, <1>8, Moves, SameCardinality DEF Runtime!PruneReads, OnItsWay, Steps
  <2>3. RuntimeTyped'
    BY <1>0, <2>1, TypedStays DEF RuntimeTyped, OnItsWay, Moved
  <2>4. ~spoilt' => Sound(r)'
    BY <1>0, <1>1, <2>1 DEF Sound, Current, Stored, Gone, Moved
  <2> QED
    BY <1>0, <2>1, <2>3, <2>4, OneMoves DEF RuntimeSafe, Moved
<1>9. CASE Runtime!PruneDrops(c)
  <2>1. /\ r.step = "drop" /\ UNCHANGED binary /\ r.op = "install" /\ call'[c].read = r.read
        /\ folders' = folders \ (Runtime!Listed(r.read) \ Runtime!Kept(r.read)) /\ Moved(c, "rewrite")
    BY <1>0, <1>9, Moves DEF Runtime!PruneDrops, OnItsWay, Steps
  <2>3. RuntimeTyped'
    BY <1>0, <2>1, TypedStays DEF RuntimeTyped, OnItsWay, Moved
  <2>4. ~spoilt' => Sound(r)'
    BY <1>0, <1>1, <2>1 DEF Sound, Current, Stored, Gone, Moved
  <2> QED
    BY <1>0, <2>1, <2>3, <2>4, OneMoves DEF RuntimeSafe, Moved
<1>10. CASE Runtime!Read(c)
  <2>1. /\ r.step = "read" /\ UNCHANGED <<folders, binary>>
        /\ \/ Runtime!Over(c)
           \/ /\ Moved(c, IF r.op = "remove" THEN "erase" ELSE "write") /\ call'[c].read = installed
              /\ r.op # "install" => r.build \in Runtime!Listed(installed)
              /\ r.op = "remove" => r.build # installed.active
    BY <1>0, <1>10, Moves DEF Runtime!Read, Steps
  <2>2. CASE Runtime!Over(c)
    <3>1. call' \in Requested /\ call'[c].step = "idle" /\ \A d \in Callers : d # c => call'[d] = call[d]
      BY <1>0, <2>2, Moves
    <3>2. RuntimeTyped'
      BY <1>0, <2>1, <3>1, TypedStays DEF RuntimeTyped, OnItsWay
    <3>3. ~spoilt' => Sound(Runtime!Fresh)'
      BY <1>0, <1>1, <2>1 DEF Sound, Current, Stored, Gone, Runtime!Fresh
    <3> QED
      BY <1>0, <3>1, <3>2, <3>3, OneMoves DEF RuntimeSafe
  <2>3. CASE ~Runtime!Over(c)
    <3>1. RuntimeTyped'
      BY <1>0, <2>1, <2>3, TypedStays DEF RuntimeTyped, OnItsWay, Moved
    <3>2. ~spoilt' => Sound(r)'
      BY <1>0, <1>1, <2>1, <2>3 DEF Sound, Current, Stored, Gone, Moved, OnItsWay
    <3> QED
      BY <1>0, <2>1, <2>3, <3>1, <3>2, OneMoves DEF RuntimeSafe, Moved
  <2> QED
    BY <2>2, <2>3
<1> QED
  BY <1>2, <1>3, <1>4, <1>5, <1>6, <1>7, <1>8, <1>9, <1>10

\* The steps that write the file.
LEMMA InstallWritten ==
  ASSUME Runtime!RuntimeAssumption, RuntimeTyped, NEW b \in Builds, calls > 0, UNCHANGED <<calls, folders>>,
         Stamped, \A x \in Builds : installed.stamp[x] < calls,
         installed' = [active |-> b, stamp |-> [installed.stamp EXCEPT ![b] = calls]]
  PROVE  Stamped' /\ Runtime!Listed(installed)' = Runtime!Listed(installed) \cup {b}
<1>1. /\ installed \in Files /\ calls \in Nat /\ installed'.active = b /\ installed'.stamp[b] = calls
      /\ \A x \in Builds : x # b => installed'.stamp[x] = installed.stamp[x]
  BY DEF RuntimeTyped, Files
<1>2. Runtime!Listed(installed)' = Runtime!Listed(installed) \cup {b}
  BY <1>1 DEF Runtime!Listed
<1>3. IsFiniteSet(Runtime!Listed(installed)')
  <2>1. IsFiniteSet(Runtime!Listed(installed) \cup {b})
    BY FS_AddElement DEF Stamped
  <2> QED
    BY <1>2, <2>1
<1>4. \A x \in Builds : installed'.stamp[x] <= calls /\ (x # b => installed'.stamp[x] < calls)
  <2> TAKE x \in Builds
  <2>1. installed.stamp[x] \in Nat /\ installed.stamp[x] < calls
    BY <1>1 DEF Files
  <2> QED
    BY <1>1, <2>1
<1>5. \A x, d \in Runtime!Listed(installed)' : installed'.stamp[x] = installed'.stamp[d] => x = d
  <2> SUFFICES ASSUME NEW x \in Runtime!Listed(installed) \cup {b}, NEW d \in Runtime!Listed(installed) \cup {b},
                      installed'.stamp[x] = installed'.stamp[d], x # d
               PROVE  FALSE
    BY <1>2
  <2>1. x \in Builds /\ d \in Builds
    BY DEF Runtime!Listed
  <2>2. x # b /\ d # b
    BY <1>1, <1>4, <2>1
  <2> QED
    BY <1>1, <2>1, <2>2 DEF Stamped
<1> QED
  BY <1>1, <1>2, <1>3, <1>4, <1>5 DEF Stamped

\* The file without some of its builds, not the active one.
LEMMA BuildsDropped ==
  ASSUME Runtime!RuntimeAssumption, RuntimeTyped, NEW K \in SUBSET Runtime!Listed(installed), UNCHANGED calls,
         Stamped, installed.active # None => installed.active \in K,
         installed' \in Files, installed'.active = installed.active,
         \A b \in Builds : installed'.stamp[b] = IF b \in K THEN installed.stamp[b] ELSE 0
  PROVE  Stamped' /\ Runtime!Listed(installed)' = K
<1>1. Runtime!Listed(installed)' = K
  BY DEF Runtime!Listed
<1>2. IsFiniteSet(K)
  BY FS_Subset DEF Stamped
<1>3. \A b, d \in K : installed'.stamp[b] = installed'.stamp[d] => b = d
  BY DEF Stamped, Runtime!Listed
<1>4. \A b \in Builds : installed'.stamp[b] <= calls
  BY DEF Stamped, RuntimeTyped, Files
<1> QED
  BY <1>1, <1>2, <1>3, <1>4 DEF Stamped

LEMMA WriteSafe ==
  ASSUME Runtime!RuntimeAssumption, RuntimeSafe, NEW c \in Callers, Runtime!Write(c)
  PROVE  RuntimeSafe'
<1> DEFINE r == call[c]
           b == call[c].build
<1>0. /\ RuntimeTyped /\ OnItsWay(r) /\ r.step = "write" /\ UNCHANGED <<folders, binary, calls, spoilt, cut>>
      /\ c \in Runtime!Busy /\ b \in Builds /\ r.read \in Files /\ calls \in Nat /\ calls > 0
      /\ ~spoilt' => InTurn /\ Sound(r) /\ r.read = installed /\ Stamped
  BY DEF RuntimeSafe, RuntimeTyped, Requested, InTurn, Sound, Current, Runtime!Busy, Runtime!Write
<1>1. CASE r.op = "install"
  <2>1. /\ installed' = [active |-> b, stamp |-> [r.read.stamp EXCEPT ![b] = calls]]
        /\ Moved(c, "prune")
    BY <1>0, <1>1, Moves DEF Runtime!Write, Steps
  <2>2. installed' \in Files
    BY <1>0, <2>1 DEF Files
  <2>3. RuntimeTyped'
    BY <1>0, <1>1, <2>1, <2>2 DEF RuntimeTyped, OnItsWay, Moved, Runtime!Busy
  <2>4. ASSUME ~spoilt' PROVE Sound(r)'
    <3>1. installed' = [active |-> b, stamp |-> [installed.stamp EXCEPT ![b] = calls]]
      BY <1>0, <2>1, <2>4
    <3>2. b \in folders /\ \A x \in Builds : installed.stamp[x] < calls
      BY <1>0, <1>1, <2>4 DEF Sound, Current
    <3>3. Stamped' /\ Runtime!Listed(installed)' = Runtime!Listed(installed) \cup {b}
      BY <1>0, <2>4, <3>1, <3>2, InstallWritten
    <3> QED
      BY <1>0, <1>1, <2>1, <2>4, <3>2, <3>3 DEF Sound, Current, Stored, Gone, Moved
  <2> QED
    BY <1>0, <2>1, <2>3, <2>4, OneMoves DEF RuntimeSafe, Moved
<1>2. CASE r.op = "activate"
  <2>1. installed' = [r.read EXCEPT !.active = b] /\ Moved(c, "apply")
    BY <1>0, <1>2, Moves DEF Runtime!Write, Steps
  <2>2. installed' \in Files /\ installed'.stamp = r.read.stamp /\ installed'.active = b
    BY <1>0, <2>1 DEF Files
  <2>3. RuntimeTyped'
    BY <1>0, <1>2, <2>1, <2>2 DEF RuntimeTyped, OnItsWay, Moved, Runtime!Busy
  <2>4. ASSUME ~spoilt' PROVE Sound(r)'
    <3>1. Runtime!Listed(installed)' = Runtime!Listed(installed) /\ b \in Runtime!Listed(installed)
      BY <1>0, <1>2, <2>2, <2>4 DEF Sound, Current, Runtime!Listed
    <3>2. Stamped'
      BY <1>0, <2>2, <2>4, <3>1 DEF Stamped
    <3> QED
      BY <1>0, <1>2, <2>1, <2>2, <2>4, <3>1, <3>2 DEF Sound, Current, Stored, Gone, Moved
  <2> QED
    BY <1>0, <2>1, <2>3, <2>4, OneMoves DEF RuntimeSafe, Moved
<1>3. CASE r.op = "remove"
  <2>1. installed' = [r.read EXCEPT !.stamp[b] = 0] /\ Runtime!Over(c)
    BY <1>0, <1>3 DEF Runtime!Write
  <2>2. /\ installed' \in Files /\ installed'.active = r.read.active
        /\ \A x \in Builds : installed'.stamp[x] = IF x = b THEN 0 ELSE r.read.stamp[x]
    BY <1>0, <2>1 DEF Files
  <2>3. call' \in Requested /\ call'[c].step = "idle" /\ \A d \in Callers : d # c => call'[d] = call[d]
    BY <1>0, <2>1, Moves
  <2>4. RuntimeTyped'
    BY <1>0, <2>2, <2>3 DEF RuntimeTyped, OnItsWay, Runtime!Busy
  <2>5. ASSUME ~spoilt' PROVE Sound(Runtime!Fresh)'
    <3> DEFINE K == Runtime!Listed(installed) \ {b}
    <3>1. b # installed.active
      BY <1>0, <1>3, <2>5 DEF Sound, Current
    <3>2. \A x \in Builds : installed'.stamp[x] = IF x \in K THEN installed.stamp[x] ELSE 0
      BY <1>0, <2>2, <2>5 DEF Runtime!Listed
    <3>3. installed.active # None => installed.active \in K
      BY <1>0, <2>5, <3>1 DEF Stamped
    <3>4. Stamped' /\ Runtime!Listed(installed)' = K
      <4> HIDE DEF K
      <4>1. K \in SUBSET Runtime!Listed(installed)
        BY DEF K
      <4> QED
        BY <1>0, <2>2, <2>5, <3>2, <3>3, <4>1, BuildsDropped
    <3>5. Cardinality(K) <= Cardinality(Runtime!Listed(installed)) /\ Cardinality(K) \in Nat
          /\ Cardinality(Runtime!Listed(installed)) \in Nat
      BY <1>0, <2>5, FS_Subset, FS_CardinalityType DEF Stamped
    <3>6. /\ \A x \in K : x \in folders
          /\ installed.active # None => binary = installed.active
          /\ ~cut => Cardinality(Runtime!Listed(installed)) <= Keep
      BY <1>0, <1>3, <2>5 DEF Sound, Stored, Gone
    <3> HIDE DEF K
    <3>7. ~cut => Cardinality(K) <= Keep
      BY <3>5, <3>6 DEF Runtime!RuntimeAssumption
    <3> QED
      BY <1>0, <2>2, <2>5, <3>4, <3>6, <3>7 DEF Sound, Current, Stored, Gone, Runtime!Fresh
  <2> QED
    BY <1>0, <2>3, <2>4, <2>5, OneMoves DEF RuntimeSafe
<1> QED
  BY <1>0, <1>1, <1>2, <1>3 DEF OnItsWay

LEMMA PruneWritesSafe ==
  ASSUME Runtime!RuntimeAssumption, RuntimeSafe, NEW c \in Callers, Runtime!PruneWrites(c)
  PROVE  RuntimeSafe'
<1> DEFINE r == call[c]
           K == Runtime!Kept(call[c].read)
<1>0. /\ RuntimeTyped /\ OnItsWay(r) /\ r.step = "rewrite" /\ UNCHANGED <<folders, binary, calls, spoilt, cut>>
      /\ c \in Runtime!Busy /\ r.read \in Files
      /\ ~spoilt' => InTurn /\ Sound(r) /\ r.read = installed /\ Stamped
  BY DEF RuntimeSafe, RuntimeTyped, Requested, InTurn, Sound, Current, Runtime!Busy, Runtime!PruneWrites
<1>1. /\ installed' = [r.read EXCEPT !.stamp = [b \in Builds |-> IF b \in K THEN r.read.stamp[b] ELSE 0]]
      /\ Moved(c, "apply") /\ r.op = "install"
  BY <1>0, Moves DEF Runtime!PruneWrites, Steps, OnItsWay
<1> HIDE DEF K
<1>2. /\ installed' \in Files /\ installed'.active = r.read.active
      /\ \A b \in Builds : installed'.stamp[b] = IF b \in K THEN r.read.stamp[b] ELSE 0
  BY <1>0, <1>1 DEF Files
<1>3. RuntimeTyped'
  BY <1>0, <1>1, <1>2 DEF RuntimeTyped, OnItsWay, Moved, Runtime!Busy
<1>4. ASSUME ~spoilt' PROVE Sound(r)'
  <2>1. /\ K \subseteq Runtime!Listed(installed) /\ Cardinality(K) <= Keep
        /\ installed.active \in Runtime!Listed(installed) => installed.active \in K
        /\ K = Runtime!Kept(installed)
    BY <1>0, <1>4, KeptFew DEF Stamped, K
  <2>2. Stamped' /\ Runtime!Listed(installed)' = K
    BY <1>0, <1>2, <1>4, <2>1, BuildsDropped DEF Stamped
  <2>3. \A b \in K : b \in folders
    BY <1>0, <1>4, <2>1 DEF Sound, Stored, Gone
  <2> QED
    BY <1>0, <1>1, <1>2, <1>4, <2>1, <2>2, <2>3 DEF Sound, Current, Stored, Gone, Moved
<1> QED
  BY <1>0, <1>1, <1>3, <1>4, OneMoves DEF RuntimeSafe, Moved

LEMMA BeginSafe ==
  ASSUME Runtime!RuntimeAssumption, RuntimeSafe, NEW c \in Callers, Runtime!Begin(c)
  PROVE  RuntimeSafe'
<1>1. PICK o \in {"install", "activate", "remove"}, b \in Builds :
        call' = [call EXCEPT ![c] =
          [op |-> o, build |-> b, step |-> IF o = "install" THEN "fetch" ELSE "read", read |-> Runtime!NoFile]]
  BY DEF Runtime!Begin
<1>2. calls' = calls + 1 /\ UNCHANGED <<installed, folders, binary, cut>>
  BY DEF Runtime!Begin
<1>3. ~spoilt' => ~spoilt /\ Runtime!Busy = {}
  BY Zenon DEF Runtime!Begin
<1>4. RuntimeTyped /\ calls \in Nat /\ call \in Requested /\ installed \in Files
  BY DEF RuntimeSafe, RuntimeTyped
<1>5. /\ call' \in Requested /\ call'[c].op = o /\ call'[c].build = b
      /\ call'[c].step = (IF o = "install" THEN "fetch" ELSE "read")
      /\ \A d \in Callers : d # c => call'[d] = call[d]
  <2> DEFINE r == [op |-> o, build |-> b, step |-> IF o = "install" THEN "fetch" ELSE "read",
                   read |-> Runtime!NoFile]
  <2>1. /\ r \in [op : {None, "install", "activate", "remove"}, build : Builds \cup {None},
                  step : Steps, read : Files]
        /\ r.op = o /\ r.build = b /\ r.step = (IF o = "install" THEN "fetch" ELSE "read")
    BY DEF Steps, Files, Runtime!NoFile
  <2>2. call' = [call EXCEPT ![c] = r]
    BY <1>1
  <2> HIDE DEF r
  <2> QED
    BY <1>4, <2>1, <2>2 DEF Requested
<1>6. RuntimeTyped'
  BY <1>2, <1>4, <1>5 DEF RuntimeTyped, OnItsWay, Runtime!Busy
<1>7. ASSUME ~spoilt' PROVE InTurn'
  <2>1. Runtime!Busy = {} /\ Sound(Runtime!Fresh)
    BY <1>3, <1>7 DEF RuntimeSafe, InTurn
  <2>2. Runtime!Busy' = {c}
    BY <1>5, <2>1 DEF Runtime!Busy
  <2>3. Stamped' /\ \A x \in Builds : installed.stamp[x] < calls'
    <3>1. \A x \in Builds : installed.stamp[x] \in Nat /\ installed.stamp[x] <= calls
      BY <1>4, <2>1 DEF Sound, Stamped, Files
    <3>2. \A x \in Builds : installed.stamp[x] < calls' /\ installed.stamp[x] <= calls'
      BY <1>2, <1>4, <3>1
    <3>3. Runtime!Listed(installed)' = Runtime!Listed(installed)
      BY <1>2 DEF Runtime!Listed
    <3> QED
      BY <1>2, <2>1, <3>2, <3>3 DEF Sound, Stamped
  <2>4. Sound(call[c])'
    <3>1. Runtime!Listed(installed)' = Runtime!Listed(installed)
      BY <1>2 DEF Runtime!Listed
    <3> QED
      BY <1>2, <1>5, <2>1, <2>3, <3>1 DEF Sound, Current, Stored, Gone, Runtime!Fresh
  <2> QED
    BY <2>2, <2>4 DEF InTurn
<1> QED
  BY <1>6, <1>7 DEF RuntimeSafe

LEMMA RestartSafe ==
  ASSUME Runtime!RuntimeAssumption, RuntimeSafe, Runtime!Restart
  PROVE  RuntimeSafe'
<1>1. /\ call' = [c \in Callers |-> Runtime!Fresh] /\ UNCHANGED <<folders, calls>>
      /\ binary' = IF installed'.active \in folders THEN installed'.active ELSE None
      /\ ~cut' => ~cut /\ Runtime!Busy = {}
  <2>1. ~cut' => ~cut /\ Runtime!Busy = {}
    BY Zenon DEF Runtime!Restart
  <2> QED
    BY <2>1 DEF Runtime!Restart
<1>2. installed' = installed \/ installed' = Runtime!NoFile
  BY DEF Runtime!Restart
<1>3. ~spoilt' => /\ installed' = installed /\ ~spoilt
                  /\ \A c \in Runtime!Busy :
                       /\ ~(call[c].step = "move" /\ call[c].build \in Runtime!Listed(installed))
                       /\ ~(call[c].step = "write" /\ call[c].op = "remove") /\ call[c].step # "rewrite"
  BY Zenon DEF Runtime!Restart
<1>4. RuntimeTyped /\ Runtime!Busy' = {}
  BY <1>1 DEF RuntimeSafe, Runtime!Busy, Runtime!Fresh
<1>5. RuntimeTyped'
  <2>1. installed' \in Files
    BY <1>2, <1>4 DEF RuntimeTyped, Files, Runtime!NoFile
  <2>2. call' \in Requested
    BY <1>1 DEF Requested, Runtime!Fresh, Runtime!NoFile, Files, Steps
  <2>3. \A c \in Callers : OnItsWay(call'[c])
    BY <1>1 DEF OnItsWay, Runtime!Fresh
  <2> QED
    BY <1>1, <1>4, <2>1, <2>2, <2>3 DEF RuntimeTyped, OnItsWay
<1>6. ASSUME ~spoilt' PROVE InTurn'
  <2>1. /\ installed' = installed /\ InTurn
        /\ Runtime!Listed(installed)' = Runtime!Listed(installed)
    BY <1>3, <1>6 DEF RuntimeSafe, Runtime!Listed
  <2>2. Stamped /\ Runtime!Listed(installed) \subseteq folders
    <3>1. CASE Runtime!Busy = {}
      BY <2>1, <3>1 DEF InTurn, Sound, Stored, Gone, Runtime!Fresh
    <3>2. ASSUME NEW c \in Runtime!Busy PROVE Stamped /\ Runtime!Listed(installed) \subseteq folders
      BY <1>3, <1>6, <2>1, <3>2 DEF InTurn, Sound, Stored, Gone
    <3> QED
      BY <3>1, <3>2
  <2>3. Stamped'
    BY <1>1, <2>1, <2>2 DEF Stamped
  <2>4. installed.active # None => binary' = installed.active
    BY <1>1, <2>1, <2>2 DEF Stamped
  <2>5. ~cut' => Cardinality(Runtime!Listed(installed)) <= Keep
    BY <1>1, <2>1 DEF InTurn, Sound, Stored, Runtime!Fresh
  <2>6. Sound(Runtime!Fresh)'
    BY <1>1, <2>1, <2>2, <2>3, <2>4, <2>5 DEF Sound, Current, Stored, Runtime!Fresh
  <2> QED
    BY <1>4, <2>6 DEF InTurn
<1> QED
  BY <1>5, <1>6 DEF RuntimeSafe

LEMMA RuntimeStep == Runtime!RuntimeAssumption /\ RuntimeSafe /\ [Runtime!Next]_(Runtime!vars) => RuntimeSafe'
<1> SUFFICES ASSUME Runtime!RuntimeAssumption, RuntimeSafe, [Runtime!Next]_(Runtime!vars) PROVE RuntimeSafe'
  OBVIOUS
<1>1. CASE Runtime!Next
  BY <1>1, BeginSafe, FileStays, WriteSafe, PruneWritesSafe, RestartSafe DEF Runtime!Next
<1>2. CASE UNCHANGED Runtime!vars
  <2>1. UNCHANGED <<installed, folders, binary, install, call, calls, spoilt, cut>>
    BY <1>2 DEF Runtime!vars
  <2>2. RuntimeTyped' = RuntimeTyped /\ Stamped' = Stamped /\ Runtime!Busy' = Runtime!Busy
    BY <2>1 DEF RuntimeTyped, Stamped, Runtime!Busy, Runtime!Listed
  <2>3. Sound(Runtime!Fresh)' = Sound(Runtime!Fresh) /\ \A c \in Callers : Sound(call[c])' = Sound(call[c])
    BY <2>1, <2>2 DEF Sound, Current, Stored, Gone, Runtime!Kept, Runtime!Listed
  <2> QED
    BY <2>1, <2>2, <2>3 DEF RuntimeSafe, InTurn, Runtime!Busy
<1> QED
  BY <1>1, <1>2

LEMMA RuntimeTrue ==
  Runtime!RuntimeAssumption /\ RuntimeSafe => Runtime!ActiveOnDisk /\ Runtime!BuildsBounded
<1> SUFFICES ASSUME RuntimeSafe, ~spoilt PROVE Runtime!ActiveOnDisk /\ Runtime!BuildsBounded
  BY Zenon DEF Runtime!ActiveOnDisk, Runtime!BuildsBounded
<1>1. InTurn
  BY DEF RuntimeSafe
<1>2. CASE Runtime!Busy = {}
  <2>1. Sound(Runtime!Fresh)
    BY <1>1, <1>2 DEF InTurn
  <2> QED
    BY <1>2, <2>1, SameCardinality DEF Sound, Stamped, Stored, Gone, Runtime!Fresh, Runtime!ActiveOnDisk,
       Runtime!BuildsBounded
<1>3. ASSUME NEW c \in Runtime!Busy PROVE Runtime!ActiveOnDisk /\ Runtime!BuildsBounded
  <2>1. Sound(call[c]) /\ call[c] = call[c] /\ Runtime!Busy # {}
    BY <1>1, <1>3 DEF InTurn
  <2>2. installed.active # None => installed.active \in folders \/ Runtime!Replacing(installed.active)
    <3> SUFFICES ASSUME installed.active # None, installed.active \notin folders
                 PROVE  Runtime!Replacing(installed.active)
      OBVIOUS
    <3>1. Gone(call[c], installed.active) /\ installed.active \in Runtime!Listed(installed)
      BY <2>1 DEF Sound, Stamped, Stored
    <3>2. ~(call[c].step = "write" /\ call[c].op = "remove" /\ call[c].build = installed.active)
      BY <2>1 DEF Sound, Current
    <3>3. installed.active \in Runtime!Kept(installed)
      BY <3>1 DEF Runtime!Kept
    <3> QED
      BY <1>3, <3>1, <3>2, <3>3 DEF Gone, Runtime!Replacing
  <2> QED
    BY <2>1, <2>2 DEF Runtime!ActiveOnDisk, Runtime!BuildsBounded
<1> QED
  BY <1>2, <1>3

-----------------------------------------------------------------------------
(* The tuning of the voice engine and its presets.                         *)

Documents == [Tuning!Keys -> Tuning!Values]

\* The update that has the lock has applied this setting.
Applied(k) == \E i \in 1..(Len(KeyOrder) - todo) : KeyOrder[i] = k

TuningTyped ==
  /\ tuning \in Documents /\ kept \in Documents /\ mixed \subseteq Tuning!Keys
  /\ {stored, durable} \subseteq Documents \cup {None, Torn}
  /\ editor \in Updates \cup {None} /\ todo \in 0..Len(KeyOrder)
  /\ holder \in Writers \cup {None}
  /\ writers \in [Writers -> {"new", "done", "failed"}]
  /\ shelf \in (SUBSET [id : Presets, by : Writers]) \cup {Torn}

\* What the file holds, and what the update under way has done to the attributes.
FileKept == \A k \in Tuning!Keys \ mixed : Tuning!Loaded(stored)[k] = kept[k]
AttributesKept ==
  \A k \in Tuning!Keys \ mixed :
    /\ editor = None \/ ~Tuning!Sets(editor, k) => tuning[k] = kept[k]
    /\ editor # None /\ Tuning!Sets(editor, k) => tuning[k] \in {kept[k], TuningPatch[editor][k]}
PatchApplied ==
  editor # None =>
    \A k \in Tuning!Keys : Applied(k) /\ Tuning!Sets(editor, k) => tuning[k] = TuningPatch[editor][k]

\* The presets on disk, and what the request that changes them has read.
PresetsSafe ==
  /\ shelf # Torn => shelf = filed
  /\ shelf = Torn => filed = {}
  /\ holder # None => shelf # Torn /\ copy = shelf

TuningSafe == TuningTyped /\ FileKept /\ AttributesKept /\ PatchApplied /\ PresetsSafe

LEMMA DocumentsKnown ==
  ASSUME Tuning!TuningAssumption
  PROVE  /\ TuningDefaults \in Documents
         /\ None \notin Documents /\ Torn \notin Documents
         /\ \A u \in Updates : \A k \in DOMAIN TuningPatch[u] :
              k \in Tuning!Keys /\ TuningPatch[u][k] \in Tuning!Values
         /\ None \notin Updates /\ None \notin Writers
         /\ Len(KeyOrder) \in Nat /\ \A i \in 1..Len(KeyOrder) : KeyOrder[i] \in Tuning!Keys
<1>1. TuningDefaults \in Documents
  BY DEF Tuning!TuningAssumption, Documents
<1>2. None \notin Documents /\ Torn \notin Documents
  BY DEF Tuning!TuningAssumption, Documents
<1>3. \A u \in Updates : \A k \in DOMAIN TuningPatch[u] :
              k \in Tuning!Keys /\ TuningPatch[u][k] \in Tuning!Values
  BY DEF Tuning!TuningAssumption, Tuning!Values
<1>4. None \notin Updates /\ None \notin Writers
  BY DEF Tuning!TuningAssumption
<1>5. KeyOrder \in Seq(Tuning!Keys)
  BY DEF Tuning!TuningAssumption
<1>6. Len(KeyOrder) \in Nat /\ DOMAIN KeyOrder = 1..Len(KeyOrder)
  BY <1>5
<1>7. \A i \in 1..Len(KeyOrder) : KeyOrder[i] \in Tuning!Keys
  BY <1>6 DEF Tuning!Keys
<1> QED
  BY <1>1, <1>2, <1>3, <1>4, <1>6, <1>7

LEMMA TuningInit == Tuning!TuningAssumption /\ Tuning!Init => TuningSafe
<1> SUFFICES ASSUME Tuning!TuningAssumption, Tuning!Init PROVE TuningSafe
  OBVIOUS
<1>1. TuningTyped
  BY DocumentsKnown DEF Tuning!Init, TuningTyped
<1>2. FileKept
  BY DEF Tuning!Init, FileKept, Tuning!Loaded
<1>3. AttributesKept /\ PatchApplied
  BY DEF Tuning!Init, AttributesKept, PatchApplied
<1>4. PresetsSafe
  BY DEF Tuning!Init, PresetsSafe
<1> QED
  BY <1>1, <1>2, <1>3, <1>4 DEF TuningSafe

LEMMA PresetsStaySafe ==
  ASSUME TuningSafe, UNCHANGED <<shelf, filed>>, (holder' = holder /\ copy' = copy) \/ holder' = None
  PROVE  PresetsSafe'
  BY DEF TuningSafe, PresetsSafe

LEMMA UpdateSafe ==
  ASSUME Tuning!TuningAssumption, TuningSafe,
         (\E u \in Updates : Tuning!Post(u)) \/ Tuning!ApplyKey \/ Tuning!Fails \/ Tuning!Save
  PROVE  TuningSafe'
<1> USE DocumentsKnown DEF TuningSafe, TuningTyped
<1>1. PresetsSafe'
  BY PresetsStaySafe DEF Tuning!Post, Tuning!ApplyKey, Tuning!Fails, Tuning!Save, Tuning!presets
<1>2. ASSUME NEW u \in Updates, Tuning!Post(u) PROVE TuningSafe'
  <2>1. TuningTyped' /\ FileKept'
    BY <1>2 DEF Tuning!Post, Tuning!presets, FileKept, Tuning!Loaded
  <2>2. AttributesKept'
    BY <1>2 DEF Tuning!Post, AttributesKept, Tuning!Sets
  <2>3. PatchApplied'
    BY <1>2 DEF Tuning!Post, PatchApplied, Applied
  <2> QED
    BY <1>1, <2>1, <2>2, <2>3
<1>3. ASSUME Tuning!ApplyKey PROVE TuningSafe'
  <2> DEFINE k == Tuning!NextKey
  <2>1. /\ editor \in Updates /\ k \in Tuning!Keys /\ todo \in 1..Len(KeyOrder)
        /\ todo' = todo - 1
        /\ IF Tuning!Sets(editor, k) THEN tuning' = [tuning EXCEPT ![k] = TuningPatch[editor][k]]
           ELSE tuning' = tuning
        /\ UNCHANGED <<stored, durable, editor, kept, mixed, shelf, holder, writers>>
    BY <1>3 DEF Tuning!ApplyKey, Tuning!presets, Tuning!NextKey
  <2>2. \A j \in Tuning!Keys : Applied(j)' => Applied(j) \/ j = k
    <3> SUFFICES ASSUME NEW j \in Tuning!Keys, NEW i \in 1..(Len(KeyOrder) - todo'), KeyOrder[i] = j
                 PROVE  Applied(j) \/ j = k
      BY DEF Applied
    <3>1. i \in 1..(Len(KeyOrder) - todo) \/ i = Len(KeyOrder) + 1 - todo
      BY <2>1
    <3> QED
      BY <3>1 DEF Applied, Tuning!NextKey
  <2> HIDE DEF k
  <2>3. TuningTyped'
    BY <2>1 DEF Documents, Tuning!Sets
  <2>4. FileKept'
    BY <2>1 DEF FileKept, Tuning!Loaded
  <2>5. AttributesKept'
    BY <2>1 DEF AttributesKept, Tuning!Sets, Documents
  <2>6. PatchApplied'
    BY <2>1, <2>2 DEF PatchApplied, Tuning!Sets, Documents
  <2> QED
    BY <1>1, <2>3, <2>4, <2>5, <2>6
<1>4. ASSUME Tuning!Fails PROVE TuningSafe'
  <2>1. /\ editor \in Updates /\ editor' = None
        /\ mixed' = mixed \cup {k \in DOMAIN TuningPatch[editor] : tuning[k] = TuningPatch[editor][k]}
        /\ UNCHANGED <<tuning, stored, durable, todo, kept, shelf, holder, writers>>
    BY <1>4 DEF Tuning!Fails, Tuning!presets
  <2>2. TuningTyped' /\ FileKept' /\ PatchApplied'
    BY <2>1 DEF FileKept, Tuning!Loaded, PatchApplied
  <2>3. AttributesKept'
    BY <2>1 DEF AttributesKept, Tuning!Sets
  <2> QED
    BY <1>1, <2>2, <2>3
<1>5. ASSUME Tuning!Save PROVE TuningSafe'
  <2>1. /\ editor \in Updates /\ editor' = None /\ todo = 0
        /\ stored' = tuning /\ durable' \in {durable, tuning, Torn}
        /\ kept' = [k \in Tuning!Keys |-> IF Tuning!Sets(editor, k) THEN TuningPatch[editor][k] ELSE kept[k]]
        /\ mixed' = {k \in mixed : tuning[k] # kept'[k]}
        /\ UNCHANGED <<tuning, todo, shelf, holder, writers>>
    BY <1>5 DEF Tuning!Save, Tuning!presets
  <2>2. \A k \in Tuning!Keys : Applied(k)
    BY <2>1 DEF Applied, Tuning!Keys
  <2>3. kept' \in Documents
    BY <2>1 DEF Documents, Tuning!Sets
  <2>4. TuningTyped' /\ PatchApplied'
    BY <2>1, <2>3 DEF PatchApplied
  <2>5. \A k \in Tuning!Keys \ mixed' : tuning[k] = kept'[k]
    BY <2>1, <2>2, <2>3 DEF AttributesKept, PatchApplied
  <2>6. AttributesKept' /\ FileKept'
    BY <2>1, <2>5 DEF AttributesKept, FileKept, Tuning!Loaded
  <2> QED
    BY <1>1, <2>4, <2>6
<1> QED
  BY <1>2, <1>3, <1>4, <1>5

LEMMA TuningEnds ==
  ASSUME Tuning!TuningAssumption, TuningSafe, NEW found \in {stored, durable}, Tuning!Ends(found)
  PROVE  TuningSafe'
<1> USE DocumentsKnown DEF TuningSafe, TuningTyped
<1>1. PresetsSafe'
  BY PresetsStaySafe DEF Tuning!Ends
<1>2. Tuning!Loaded(found) \in Documents
  BY DEF Tuning!Loaded
<1>3. /\ stored' = found /\ durable' = found /\ tuning' = Tuning!Loaded(found) /\ editor' = None /\ todo' = 0
      /\ holder' = None /\ shelf' = shelf
      /\ writers' = [w \in Writers |-> IF w = holder THEN "failed" ELSE writers[w]]
      /\ kept' = IF found = stored THEN kept ELSE Tuning!Loaded(found)
      /\ mixed' = IF found = stored THEN {k \in mixed : Tuning!Loaded(found)[k] # kept[k]} ELSE {}
  BY DEF Tuning!Ends
<1>4. \A k \in Tuning!Keys \ mixed' : Tuning!Loaded(found)[k] = kept'[k]
  BY <1>3 DEF FileKept
<1>5. Tuning!Loaded(stored)' = Tuning!Loaded(found)
  BY <1>3 DEF Tuning!Loaded
<1>6. TuningTyped'
  BY <1>2, <1>3
<1>7. FileKept' /\ AttributesKept' /\ PatchApplied'
  BY <1>3, <1>4, <1>5 DEF FileKept, AttributesKept, PatchApplied
<1> QED
  BY <1>1, <1>6, <1>7

LEMMA PresetsStep ==
  ASSUME Tuning!TuningAssumption, TuningSafe,
         \/ \E w \in Writers : Tuning!Read(w)
         \/ \E p \in Presets : Tuning!Create(p) \/ Tuning!Change(p) \/ Tuning!Remove(p)
         \/ Tuning!NotWritten \/ Tuning!Spoil
  PROVE  TuningSafe'
<1> USE DocumentsKnown
<1>1. UNCHANGED Tuning!settings
  BY DEF Tuning!Read, Tuning!Create, Tuning!Change, Tuning!Remove, Tuning!Written, Tuning!NotWritten, Tuning!Spoil
<1>2. FileKept' /\ AttributesKept' /\ PatchApplied'
  BY <1>1 DEF TuningSafe, Tuning!settings, FileKept, AttributesKept, PatchApplied, Applied, Tuning!Loaded, Tuning!Sets
<1>3. /\ holder' \in Writers \cup {None}
      /\ writers' \in [Writers -> {"new", "done", "failed"}]
      /\ shelf' \in (SUBSET [id : Presets, by : Writers]) \cup {Torn}
      /\ PresetsSafe'
  <2> USE DEF TuningSafe, TuningTyped, PresetsSafe
  <2>1. ASSUME NEW w \in Writers, Tuning!Read(w) PROVE <1>3!:
    <3>1. Torn # {}
      BY DEF Tuning!TuningAssumption
    <3> QED
      BY <2>1, <3>1 DEF Tuning!Read
  <2>2. CASE Tuning!NotWritten \/ Tuning!Spoil
    BY <2>2 DEF Tuning!NotWritten, Tuning!Spoil
  <2>3. ASSUME NEW p \in Presets, Tuning!Create(p) \/ Tuning!Change(p) \/ Tuning!Remove(p) PROVE <1>3!:
    <3>1. holder # None /\ holder \in Writers /\ copy \subseteq [id : Presets, by : Writers]
      BY <2>3 DEF Tuning!Create, Tuning!Change, Tuning!Remove, Tuning!Written
    <3>2. PICK list \in SUBSET [id : Presets, by : Writers] : Tuning!Written(list)
      BY <2>3, <3>1 DEF Tuning!Create, Tuning!Change, Tuning!Remove, Tuning!Others
    <3>3. list # Torn
      BY DEF Tuning!TuningAssumption
    <3> QED
      BY <3>1, <3>2, <3>3 DEF Tuning!Written
  <2> QED
    BY <2>1, <2>2, <2>3
<1> QED
  BY <1>1, <1>2, <1>3 DEF TuningSafe, TuningTyped, Tuning!settings

LEMMA TuningStep == Tuning!TuningAssumption /\ TuningSafe /\ [Tuning!Next]_(Tuning!vars) => TuningSafe'
<1> SUFFICES ASSUME Tuning!TuningAssumption, TuningSafe, [Tuning!Next]_(Tuning!vars) PROVE TuningSafe'
  OBVIOUS
<1>1. CASE UNCHANGED Tuning!vars
  BY <1>1 DEF Tuning!vars, Tuning!settings, Tuning!presets, TuningSafe, TuningTyped, FileKept, AttributesKept,
     PatchApplied, Applied, PresetsSafe, Tuning!Loaded, Tuning!Sets
<1> QED
  BY <1>1, UpdateSafe, TuningEnds, PresetsStep DEF Tuning!Next

LEMMA TuningTrue == Tuning!TuningAssumption /\ TuningSafe => Tuning!TuningKept /\ Tuning!PresetsKept /\ Tuning!TypeOK
<1> SUFFICES ASSUME Tuning!TuningAssumption, TuningSafe
             PROVE  Tuning!TuningKept /\ Tuning!PresetsKept /\ Tuning!TypeOK
  OBVIOUS
<1>1. Tuning!TuningKept /\ Tuning!PresetsKept
  BY DEF TuningSafe, FileKept, AttributesKept, PresetsSafe, Tuning!TuningKept, Tuning!PresetsKept
<1>2. Tuning!TypeOK
  BY DEF TuningSafe, TuningTyped, Documents, Tuning!TypeOK
<1> QED
  BY <1>1, <1>2

-----------------------------------------------------------------------------
(* The voice models and the denoiser.                                      *)

User ==
  [at : {"idle", "asked", "look", "load", "name", "have", "run", "end", "live"},
   wants : Voices \cup {None}, got : Voices \cup {None}, denoise : BOOLEAN, unsure : BOOLEAN]

EngineTyped ==
  /\ {voice, voiceId} \subseteq Voices \cup {None}
  /\ users \in [Engine!Users -> User]
  /\ feeders \subseteq Engine!Users /\ mode \in {"off", "dtln"}
  /\ {clash, blurred, denoising, passing} \subseteq BOOLEAN

\* Unless loads clash, the model is the one of the load that has not set the name, or
\* the one that is named.
Naming == {u \in Engine!Users : users[u].at = "name"}
Named ==
  ~clash => /\ \A u \in Naming : voice = users[u].wants
            /\ Naming = {} => voice = voiceId

\* The denoiser is in the session's use only while the session runs, and then, unless
\* it was blurred, no conversion is about to feed it.
HeardOnly ==
  mode = "dtln" =>
    /\ users[LiveVoice].at = "live"
    /\ ~blurred => /\ feeders \subseteq {LiveVoice}
                   /\ \A c \in Conversions : ~(users[c].at = "run" /\ users[c].denoise)

EngineSafe == EngineTyped /\ Named /\ Engine!SpeaksAsAsked /\ HeardOnly

LEMMA UsersKnown ==
  ASSUME Engine!EngineAssumption
  PROVE  /\ LiveVoice \in Engine!Users /\ Conversions = Engine!Users \ {LiveVoice}
         /\ None \notin Voices
         /\ Engine!Absent \in User /\ Engine!Absent.at = "idle" /\ Engine!Absent.denoise = FALSE
  BY DEF Engine!EngineAssumption, Engine!Users, Engine!Absent, User

LEMMA EngineInit == Engine!EngineAssumption /\ Engine!Init => EngineSafe
<1> SUFFICES ASSUME Engine!EngineAssumption, Engine!Init PROVE EngineSafe
  OBVIOUS
<1>1. EngineTyped
  BY UsersKnown DEF Engine!Init, EngineTyped
<1>2. Named /\ Engine!SpeaksAsAsked /\ HeardOnly
  BY UsersKnown DEF Engine!Init, Naming, Named, Engine!SpeaksAsAsked, HeardOnly
<1> QED
  BY <1>1, <1>2 DEF EngineSafe

\* A step that leaves the model alone and loads nothing.
LEMMA ModelStays ==
  ASSUME EngineSafe, UNCHANGED Engine!model, users' \in [Engine!Users -> User],
         NEW c \in Engine!Users, \A u \in Engine!Users \ {c} : users'[u] = users[u],
         users[c].at # "name" /\ users'[c].at # "name", users'[c].at # "have" \/ users'[c] = users[c]
  PROVE  Named' /\ Engine!SpeaksAsAsked'
<1>1. Naming' = Naming /\ \A u \in Naming : users'[u] = users[u]
  BY DEF Naming
<1> QED
  BY <1>1 DEF EngineSafe, Named, Engine!model, Engine!SpeaksAsAsked

\* What a conversion does to its own record.
LEMMA RequestsMove ==
  ASSUME Engine!EngineAssumption, EngineSafe, NEW c \in Conversions,
         \/ \E m \in Voices, heard \in {TRUE, denoising} : Engine!Ask(c, m, heard)
         \/ Engine!TakeLock(c) \/ Engine!Reset(c) \/ Engine!Convert(c) \/ Engine!Leave(c)
  PROVE  /\ UNCHANGED <<Engine!model, Engine!settings, mode>>
         /\ users' \in [Engine!Users -> User] /\ \A u \in Engine!Users \ {c} : users'[u] = users[u]
         /\ users[c].at # "name" /\ users'[c].at \notin {"name", "have"}
<1>1. c \in Engine!Users /\ users[c] \in User
  BY DEF Engine!Users, EngineSafe, EngineTyped
<1>0. UNCHANGED <<Engine!model, Engine!settings, mode>>
  BY DEF Engine!Ask, Engine!TakeLock, Engine!Reset, Engine!Convert, Engine!Leave, Engine!denoiser
<1>2. ASSUME NEW m \in Voices, NEW heard \in {TRUE, denoising}, Engine!Ask(c, m, heard)
      PROVE  /\ users' \in [Engine!Users -> User] /\ \A u \in Engine!Users \ {c} : users'[u] = users[u]
             /\ users[c].at # "name" /\ users'[c].at \notin {"name", "have"}
  <2>1. heard \in BOOLEAN
    BY DEF EngineSafe, EngineTyped
  <2>2. [Engine!Absent EXCEPT !.at = "asked", !.wants = m, !.denoise = heard] \in User
    BY <2>1 DEF Engine!Absent, User
  <2> QED
    BY <1>1, <1>2, <2>2 DEF EngineSafe, EngineTyped, Engine!Ask, Engine!Absent
<1>3. CASE Engine!TakeLock(c) \/ Engine!Reset(c) \/ Engine!Convert(c)
  BY <1>0, <1>1, <1>3 DEF EngineSafe, EngineTyped, User, Engine!TakeLock, Engine!Reset, Engine!Convert
<1>4. CASE Engine!Leave(c)
  <2>1. users' = [users EXCEPT ![c] = Engine!Absent] /\ users[c].at # "name"
    BY <1>4 DEF Engine!Leave
  <2>2. users \in [Engine!Users -> User]
    BY DEF EngineSafe, EngineTyped
  <2>3. users' \in [Engine!Users -> User]
    BY <1>1, <2>1, <2>2, UsersKnown
  <2>4. \A u \in Engine!Users \ {c} : users'[u] = users[u]
    BY <1>1, <2>1, <2>2
  <2>5. users'[c].at \notin {"name", "have"}
    BY <1>1, <2>1, <2>2, UsersKnown
  <2> QED
    BY <1>0, <2>1, <2>3, <2>4, <2>5
<1> QED
  BY <1>0, <1>2, <1>3, <1>4

LEMMA ConversionSafe ==
  ASSUME Engine!EngineAssumption, EngineSafe, NEW c \in Conversions,
         \/ \E m \in Voices, heard \in {TRUE, denoising} : Engine!Ask(c, m, heard)
         \/ Engine!TakeLock(c) \/ Engine!Reset(c) \/ Engine!Convert(c) \/ Engine!Leave(c)
  PROVE  EngineSafe'
<1>1. /\ UNCHANGED <<Engine!model, Engine!settings, mode>>
      /\ users' \in [Engine!Users -> User] /\ \A u \in Engine!Users \ {c} : users'[u] = users[u]
      /\ users[c].at # "name" /\ users'[c].at \notin {"name", "have"}
  BY RequestsMove
<1>2. c \in Engine!Users /\ c # LiveVoice
  BY UsersKnown
<1>3. Named' /\ Engine!SpeaksAsAsked'
  BY <1>1, <1>2, ModelStays
<1>4. \/ feeders' = feeders /\ blurred' = blurred /\ ~(users'[c].at = "run" /\ users'[c].denoise)
      \/ Engine!Reset(c) \/ Engine!Convert(c)
  <2>1. users \in [Engine!Users -> User]
    BY DEF EngineSafe, EngineTyped
  <2>2. ASSUME NEW m \in Voices, NEW heard \in {TRUE, denoising}, Engine!Ask(c, m, heard)
        PROVE  feeders' = feeders /\ blurred' = blurred /\ users'[c].at = "asked"
    BY <1>2, <2>1, <2>2 DEF Engine!Ask, Engine!denoiser, Engine!Absent
  <2>3. CASE Engine!TakeLock(c)
    BY <1>2, <2>1, <2>3 DEF Engine!TakeLock, Engine!denoiser, User
  <2>4. CASE Engine!Leave(c)
    BY <1>2, <2>1, <2>4, UsersKnown DEF Engine!Leave, Engine!denoiser
  <2> QED
    BY <2>2, <2>3, <2>4
<1>5. CASE Engine!Reset(c)
  <2>1. /\ feeders' = IF users[c].denoise THEN {} ELSE feeders
        /\ blurred' = (blurred \/ (users[c].denoise /\ mode = "dtln")) /\ users'[c].denoise = users[c].denoise
    BY <1>2, <1>5 DEF Engine!Reset, EngineSafe, EngineTyped
  <2>2. users[c].denoise \in BOOLEAN
    BY <1>2 DEF EngineSafe, EngineTyped, User
  <2>3. EngineTyped'
    BY <1>1, <2>1, <2>2 DEF EngineSafe, EngineTyped, Engine!model, Engine!settings
  <2>4. HeardOnly'
    BY <1>1, <1>2, <2>1, <2>2, UsersKnown DEF EngineSafe, HeardOnly
  <2> QED
    BY <1>3, <2>3, <2>4 DEF EngineSafe
<1>6. CASE Engine!Convert(c)
  <2>1. /\ feeders' = IF users[c].denoise THEN feeders \cup {c} ELSE feeders
        /\ users[c].at = "run" /\ users'[c].at = "end" /\ blurred' = blurred
    BY <1>2, <1>6 DEF Engine!Convert, EngineSafe, EngineTyped
  <2>2. EngineTyped'
    BY <1>1, <1>2, <2>1 DEF EngineSafe, EngineTyped, Engine!model, Engine!settings
  <2>3. HeardOnly'
    BY <1>1, <1>2, <2>1, UsersKnown DEF EngineSafe, HeardOnly
  <2> QED
    BY <1>3, <2>2, <2>3 DEF EngineSafe
<1>7. CASE /\ feeders' = feeders /\ blurred' = blurred
           /\ ~(users'[c].at = "run" /\ users'[c].denoise)
  <2>1. EngineTyped'
    BY <1>1, <1>7 DEF EngineSafe, EngineTyped, Engine!model, Engine!settings
  <2>2. HeardOnly'
    BY <1>1, <1>2, <1>7, UsersKnown DEF EngineSafe, HeardOnly
  <2> QED
    BY <1>3, <2>1, <2>2 DEF EngineSafe
<1> QED
  BY <1>4, <1>5, <1>6, <1>7

LEMMA SessionSafe ==
  ASSUME Engine!EngineAssumption, EngineSafe,
         \/ \E m \in Voices : Engine!StartLive(m)
         \/ Engine!GoLive \/ Engine!PlayChunk \/ Engine!EndLive
  PROVE  EngineSafe'
<1> DEFINE fed == \E c \in Conversions : users[c].at = "run" /\ users[c].denoise
<1>0. UNCHANGED <<Engine!model, Engine!settings>>
  BY DEF Engine!StartLive, Engine!GoLive, Engine!PlayChunk, Engine!EndLive, Engine!denoiser
<1>1. users \in [Engine!Users -> User] /\ LiveVoice \in Engine!Users /\ users[LiveVoice] \in User
  BY UsersKnown DEF EngineSafe, EngineTyped
<1>2. /\ users' \in [Engine!Users -> User] /\ \A c \in Conversions : users'[c] = users[c]
      /\ \/ users' = users
         \/ users[LiveVoice].at # "name" /\ users'[LiveVoice].at \notin {"name", "have"}
  <2>1. ASSUME NEW m \in Voices, Engine!StartLive(m) PROVE <1>2!:
    <3>1. users' = [users EXCEPT ![LiveVoice] = [Engine!Absent EXCEPT !.at = "look", !.wants = m]]
          /\ users[LiveVoice].at = "idle"
      BY <2>1 DEF Engine!StartLive
    <3>2. [Engine!Absent EXCEPT !.at = "look", !.wants = m] \in User
      BY DEF Engine!Absent, User
    <3>3. [Engine!Absent EXCEPT !.at = "look", !.wants = m].at = "look"
      BY DEF Engine!Absent
    <3> QED
      BY <1>1, <3>1, <3>2, <3>3, UsersKnown
  <2>2. CASE Engine!GoLive
    BY <1>1, <2>2, UsersKnown DEF Engine!GoLive, User
  <2>3. CASE Engine!PlayChunk
    BY <1>1, <2>3 DEF Engine!PlayChunk
  <2>4. CASE Engine!EndLive
    BY <1>1, <2>4, UsersKnown DEF Engine!EndLive
  <2> QED
    BY <2>1, <2>2, <2>3, <2>4
<1>3. Named' /\ Engine!SpeaksAsAsked'
  <2>1. CASE users' = users
    BY <1>0, <2>1 DEF EngineSafe, Named, Naming, Engine!SpeaksAsAsked, Engine!model
  <2>2. CASE users' # users
    BY <1>0, <1>1, <1>2, <2>2, ModelStays, UsersKnown
  <2> QED
    BY <2>1, <2>2
<1>4. /\ feeders' \subseteq Engine!Users /\ mode' \in {"off", "dtln"} /\ blurred' \in BOOLEAN
      /\ mode' = "dtln" => users'[LiveVoice].at = "live" /\ (~blurred' => feeders' \subseteq {LiveVoice} /\ ~fed)
  <2> USE <1>1
  <2>1. ASSUME NEW m \in Voices, Engine!StartLive(m) PROVE <1>4!:
    BY <2>1 DEF EngineSafe, EngineTyped, HeardOnly, Engine!StartLive, Engine!denoiser
  <2>2. CASE Engine!GoLive
    <3>1. fed \in BOOLEAN
      OBVIOUS
    <3>2. /\ users'[LiveVoice].at = "live" /\ mode' = IF denoising THEN "dtln" ELSE "off"
          /\ feeders' = IF mode' = "dtln" THEN {} ELSE feeders
          /\ blurred' = (mode' = "dtln" /\ fed)
      BY <2>2 DEF Engine!GoLive
    <3> HIDE DEF fed
    <3> QED
      BY <3>1, <3>2 DEF EngineSafe, EngineTyped
  <2>3. CASE Engine!PlayChunk
    <3>1. fed \in BOOLEAN
      OBVIOUS
    <3>2. /\ users[LiveVoice].at = "live" /\ users' = users /\ mode' = IF denoising THEN "dtln" ELSE "off"
          /\ feeders' = IF mode' = "off" THEN feeders
                        ELSE IF mode = "dtln" THEN feeders \cup {LiveVoice} ELSE {LiveVoice}
          /\ blurred' = IF mode' = "off" THEN FALSE ELSE IF mode = "dtln" THEN blurred ELSE fed
      BY <2>3 DEF Engine!PlayChunk
    <3>3. mode = "dtln" /\ ~blurred => feeders \subseteq {LiveVoice} /\ ~fed
      BY DEF EngineSafe, HeardOnly
    <3> HIDE DEF fed
    <3> QED
      BY <3>1, <3>2, <3>3 DEF EngineSafe, EngineTyped
  <2>4. CASE Engine!EndLive
    BY <2>4 DEF Engine!EndLive, EngineSafe, EngineTyped
  <2> QED
    BY <2>1, <2>2, <2>3, <2>4
<1>5. EngineTyped'
  BY <1>0, <1>2, <1>4 DEF EngineSafe, EngineTyped, Engine!model, Engine!settings
<1>6. HeardOnly'
  BY <1>2, <1>4 DEF HeardOnly
<1> QED
  BY <1>3, <1>5, <1>6 DEF EngineSafe

LEMMA LoadsSafe ==
  ASSUME Engine!EngineAssumption, EngineSafe, NEW u \in Engine!Users,
         Engine!Look(u) \/ Engine!SetModel(u) \/ Engine!SetName(u) \/ Engine!LoadFails(u)
  PROVE  EngineSafe'
<1> USE UsersKnown
<1>0. /\ UNCHANGED <<Engine!settings, Engine!denoiser>>
      /\ users \in [Engine!Users -> User] /\ users[u] \in User /\ clash \in BOOLEAN
      /\ users[u].at \in {"look", "load", "name"}
  BY DEF Engine!Look, Engine!SetModel, Engine!SetName, Engine!LoadFails, EngineSafe, EngineTyped
<1>1. /\ users' \in [Engine!Users -> User] /\ \A v \in Engine!Users \ {u} : users'[v] = users[v]
      /\ {voice, voiceId}' \subseteq Voices \cup {None} /\ clash' \in BOOLEAN
      /\ users'[u].at \in {"load", "name", "have", "idle"}
      /\ users'[u].at # "idle" => users'[u].wants = users[u].wants
  <2> USE <1>0 DEF EngineSafe, EngineTyped, User, Engine!model
  <2>1. CASE Engine!Look(u)
    <3>1. (clash \/ Engine!Loading # {}) \in BOOLEAN
      OBVIOUS
    <3> QED
      BY <2>1, <3>1 DEF Engine!Look
  <2>2. CASE Engine!SetModel(u)
    BY <2>2 DEF Engine!SetModel
  <2>3. CASE Engine!SetName(u)
    BY <2>3 DEF Engine!SetName
  <2>4. CASE Engine!LoadFails(u)
    BY <2>4 DEF Engine!LoadFails
  <2> QED
    BY <2>1, <2>2, <2>3, <2>4
<1>2. EngineTyped'
  BY <1>0, <1>1 DEF EngineSafe, EngineTyped, Engine!settings, Engine!denoiser
<1>3. HeardOnly'
  BY <1>0, <1>1 DEF EngineSafe, HeardOnly, Engine!denoiser
<1>4. Naming \subseteq Engine!Loading
  BY DEF Naming, Engine!Loading
<1>5. Named' /\ Engine!SpeaksAsAsked'
  <2>1. CASE Engine!Look(u)
    <3>1. /\ UNCHANGED <<voice, voiceId, clash>>
          /\ \/ /\ voiceId = users[u].wants /\ users'[u].at = "have" /\ users'[u].got = voice
                /\ users'[u].unsure = (clash \/ Engine!Loading # {})
             \/ users'[u].at = "load"
      BY <1>0, <2>1 DEF Engine!Look, Engine!model
    <3>2. Naming' = Naming /\ u \notin Naming
      BY <1>1, <2>1, <3>1 DEF Engine!Look, Naming
    <3>3. Named'
      BY <1>1, <3>1, <3>2 DEF EngineSafe, Named, Naming
    <3>4. users'[u].at = "have" /\ ~users'[u].unsure => users'[u].got = users'[u].wants
      BY <1>1, <1>4, <3>1 DEF EngineSafe, Named
    <3> QED
      BY <1>1, <3>3, <3>4 DEF EngineSafe, Engine!SpeaksAsAsked
  <2>2. CASE Engine!SetModel(u)
    <3>1. /\ voice' = users[u].wants /\ voiceId' = voiceId /\ clash' = (clash \/ Engine!Loading # {u})
          /\ users'[u].at = "name"
      BY <1>0, <2>2 DEF Engine!SetModel
    <3>2. ~clash' => Naming' = {u}
      BY <1>1, <1>4, <3>1 DEF Naming
    <3> QED
      BY <1>1, <3>1, <3>2 DEF EngineSafe, Named, Engine!SpeaksAsAsked
  <2>3. CASE Engine!SetName(u)
    <3>1. /\ voiceId' = users[u].wants /\ voice' = voice /\ users'[u].at = "have" /\ users'[u].got = voice
          /\ clash' = (Engine!Loading # {u} \/ (clash /\ voice # users[u].wants)) /\ users'[u].unsure = clash'
          /\ u \in Naming
      BY <1>0, <2>3 DEF Engine!SetName, Naming
    <3>2. ~clash' => Naming' = {} /\ voice = users[u].wants
      BY <1>1, <1>4, <3>1 DEF EngineSafe, Named, Naming
    <3> QED
      BY <1>1, <3>1, <3>2 DEF EngineSafe, Named, Engine!SpeaksAsAsked
  <2>4. CASE Engine!LoadFails(u)
    <3>1. UNCHANGED Engine!model /\ users[u].at = "load" /\ users'[u].at = "idle"
      BY <1>0, <2>4 DEF Engine!LoadFails
    <3> QED
      BY <1>1, <3>1, ModelStays
  <2> QED
    BY <2>1, <2>2, <2>3, <2>4
<1> QED
  BY <1>2, <1>3, <1>5 DEF EngineSafe

LEMMA EngineStep == Engine!EngineAssumption /\ EngineSafe /\ [Engine!Next]_(Engine!vars) => EngineSafe'
<1> SUFFICES ASSUME Engine!EngineAssumption, EngineSafe, [Engine!Next]_(Engine!vars) PROVE EngineSafe'
  OBVIOUS
<1>1. CASE UNCHANGED Engine!vars
  BY <1>1 DEF Engine!vars, EngineSafe, EngineTyped, Named, Naming, Engine!SpeaksAsAsked, HeardOnly
<1>2. ASSUME NEW heard \in BOOLEAN, NEW pass \in BOOLEAN, Engine!Switch(heard, pass) PROVE EngineSafe'
  BY <1>2 DEF Engine!Switch, Engine!model, Engine!denoiser, EngineSafe, EngineTyped, Named, Naming,
              Engine!SpeaksAsAsked, HeardOnly
<1> QED
  BY <1>1, <1>2, ConversionSafe, SessionSafe, LoadsSafe DEF Engine!Next

LEMMA EngineTrue == EngineSafe => Engine!SpeaksAsAsked /\ Engine!HearsItself /\ Engine!TypeOK
<1> SUFFICES ASSUME EngineSafe PROVE Engine!SpeaksAsAsked /\ Engine!HearsItself /\ Engine!TypeOK
  OBVIOUS
<1>1. Engine!SpeaksAsAsked /\ Engine!HearsItself
  BY DEF EngineSafe, HeardOnly, Engine!HearsItself
<1>2. Engine!TypeOK
  BY DEF EngineSafe, EngineTyped, User, Engine!TypeOK
<1> QED
  BY <1>1, <1>2

-----------------------------------------------------------------------------
(* The recordings and their MP3s.                                          *)

\* The chunks of a recording that began behind the chunk n and ended with the chunk m.
Whole(chunks, n, m) ==
  /\ chunks \in Seq(Nat) /\ Len(chunks) = m - n
  /\ \A i \in 1..Len(chunks) : chunks[i] = n + i

\* A recording of this number that ended with the chunk end is whole.
Recorded(number, end, chunks) ==
  /\ number \in 1..Len(begun) /\ end \in Nat /\ begun[number] <= end
  /\ Whole(chunks, begun[number], end)

Writing == {q \in Stoppers : stops[q].at = "write"}

RecorderTyped ==
  /\ aired \in 0..MaxAired /\ onAir \in {None} \cup 1..aired
  /\ quiet \subseteq halting /\ halting \subseteq 1..aired
  /\ plays \in [Recorder!Sessions -> 0..MaxChunks]
  /\ take \in [Recorder!Sessions -> Recorder!Takes \cup {None}]
  /\ DOMAIN frames = Recorder!Sessions
  /\ overtime \in [Recorder!Sessions -> BOOLEAN]
  /\ begun \in Seq(Nat) /\ Len(begun) <= MaxTakes
  /\ DOMAIN stops = Stoppers
  /\ \A q \in Stoppers :
       /\ stops[q].at \in {"new", "grace", "write", "done"}
       /\ stops[q].at = "grace" => stops[q].session \in Recorder!Sessions

\* What a session, a request to stop or the disk has of a recording is whole.
TakesSafe ==
  /\ \A s \in Recorder!Sessions : take[s] # None => Recorded(take[s], plays[s], frames[s])
  /\ \A q \in Writing : Recorded(stops[q].take, stops[q].end, stops[q].chunks)
  /\ \A r \in saved : Recorded(r.take, r.end, r.chunks)

\* A recording is in one of these places.
TakesApart ==
  /\ \A s, t \in Recorder!Sessions : take[s] # None /\ take[s] = take[t] => s = t
  /\ \A s \in Recorder!Sessions : take[s] # None =>
       /\ \A q \in Writing : stops[q].take # take[s]
       /\ \A r \in saved : r.take # take[s]
  /\ \A q, p \in Writing : stops[q].take = stops[p].take => q = p
  /\ \A q \in Writing : \A r \in saved : r.take # stops[q].take
  /\ \A r, s \in saved : r.take = s.take => r = s

Export == [at : {"new", "read", "write", "done"}, take : Recorder!Takes \cup {None},
           served : {None, "none", "part", "whole"}]

\* Unless recordings are crowded, one request writes an MP3, and a part of one is that
\* of a request that writes.
Mp3Safe ==
  /\ mp3 \in [Recorder!Takes -> {"none", "part", "whole"}]
  /\ exports \in [Exporters -> Export]
  /\ \A e \in Exporters : exports[e].at \in {"read", "write"} =>
       exports[e].take \in Recorder!Takes /\ exports[e].served = None
  /\ \A t \in Recorder!Takes \ crowded :
       /\ \A e, f \in Recorder!Exporting(t) : e = f
       /\ mp3[t] = "part" <=> \E e \in Recorder!Exporting(t) : exports[e].at = "write"
  /\ Recorder!ServedWhole

RecorderSafe == RecorderTyped /\ TakesSafe /\ TakesApart /\ Mp3Safe

\* Recordings that began later change nothing about one that is whole.
LEMMA RecordedStays ==
  ASSUME begun \in Seq(Nat), NEW number, NEW end, NEW chunks, Recorded(number, end, chunks), NEW n \in Nat,
         begun' = begun \/ begun' = Append(begun, n)
  PROVE  Recorded(number, end, chunks)'
<1>1. number \in 1..Len(begun') /\ begun'[number] = begun[number]
  BY DEF Recorded
<1> QED
  BY <1>1 DEF Recorded, Whole

\* One chunk more.
LEMMA WholeGrows ==
  ASSUME NEW chunks, NEW n \in Nat, NEW m \in Nat, n <= m, Whole(chunks, n, m)
  PROVE  Whole(Append(chunks, m + 1), n, m + 1)
  BY DEF Whole

LEMMA WholeIs ==
  ASSUME NEW chunks, NEW n \in Nat, NEW m \in Nat, n <= m, Whole(chunks, n, m)
  PROVE  chunks = [i \in 1..(m - n) |-> n + i]
  BY DEF Whole

LEMMA RecorderInit == Recorder!RecorderAssumption /\ Recorder!Init => RecorderSafe
<1> SUFFICES ASSUME Recorder!RecorderAssumption, Recorder!Init PROVE RecorderSafe
  OBVIOUS
<1> USE DEF Recorder!RecorderAssumption, Recorder!Init, Recorder!Sessions, Recorder!Takes
<1>1. RecorderTyped
  BY DEF RecorderTyped, Recorder!NoStop
<1>2. Writing = {}
  BY DEF Writing, Recorder!NoStop
<1>3. TakesSafe /\ TakesApart
  BY <1>2 DEF TakesSafe, TakesApart
<1>4. Mp3Safe
  BY DEF Mp3Safe, Recorder!NoExport, Export, Recorder!Exporting, Recorder!ServedWhole
<1> QED
  BY <1>1, <1>3, <1>4 DEF RecorderSafe

LEMMA Mp3Stays == Mp3Safe /\ UNCHANGED <<mp3, exports, crowded>> => Mp3Safe'
  BY DEF Mp3Safe, Recorder!Exporting, Recorder!ServedWhole

\* Where recordings are only dropped, they stay apart.
LEMMA StillApart ==
  ASSUME TakesApart, \A s \in Recorder!Sessions : take'[s] \in {take[s], None},
         Writing' \subseteq Writing, \A q \in Writing' : stops'[q] = stops[q], saved' = saved
  PROVE  TakesApart'
  BY DEF TakesApart

\* The session, its worker's chunks, and the time that passes.
LEMMA AirSafe ==
  ASSUME Recorder!RecorderAssumption, RecorderSafe,
         \/ Recorder!StartSession \/ Recorder!HaltSession \/ Recorder!SessionOver
         \/ \E s \in Recorder!Sessions : Recorder!PlayChunk(s) \/ Recorder!TimePasses(s)
  PROVE  RecorderSafe'
<1> USE DEF RecorderSafe, Recorder!air, Recorder!recording, Recorder!files
<1>0. /\ begun' = begun /\ stops' = stops /\ saved' = saved /\ UNCHANGED <<mp3, exports, crowded>>
      /\ begun \in Seq(Nat) /\ MaxAired \in Nat /\ MaxChunks \in Nat
  BY DEF Recorder!StartSession, Recorder!HaltSession, Recorder!SessionOver, Recorder!PlayChunk, Recorder!TimePasses,
         RecorderTyped, Recorder!RecorderAssumption
<1>1. Mp3Safe' /\ Writing' = Writing
  BY <1>0, Mp3Stays DEF Writing
<1>2. CASE Recorder!StartSession \/ Recorder!HaltSession \/ Recorder!SessionOver
           \/ \E s \in Recorder!Sessions : Recorder!TimePasses(s)
  <2>1. UNCHANGED <<plays, take, frames>>
    BY <1>2 DEF Recorder!StartSession, Recorder!HaltSession, Recorder!SessionOver, Recorder!TimePasses
  <2>2. TakesSafe' /\ TakesApart'
    BY <1>0, <1>1, <2>1, RecordedStays DEF TakesSafe, TakesApart
  <2>3. RecorderTyped'
    <3>1. CASE Recorder!StartSession
      BY <1>0, <2>1, <3>1 DEF RecorderTyped, Recorder!StartSession, Recorder!RecorderAssumption
    <3>2. CASE Recorder!HaltSession \/ Recorder!SessionOver
      BY <1>0, <2>1, <3>2 DEF RecorderTyped, Recorder!HaltSession, Recorder!SessionOver
    <3>3. ASSUME NEW s \in Recorder!Sessions, Recorder!TimePasses(s) PROVE RecorderTyped'
      BY <1>0, <2>1, <3>3 DEF RecorderTyped, Recorder!TimePasses
    <3> QED
      BY <1>2, <3>1, <3>2, <3>3
  <2> QED
    BY <1>1, <2>2, <2>3
<1>3. ASSUME NEW s \in Recorder!Sessions, Recorder!PlayChunk(s) PROVE RecorderSafe'
  <2>1. /\ s <= aired /\ plays[s] \in 0..MaxChunks /\ plays[s] < MaxChunks /\ overtime[s] \in BOOLEAN
        /\ plays' = [plays EXCEPT ![s] = plays[s] + 1] /\ s \in 1..MaxAired
        /\ UNCHANGED <<onAir, aired, halting, overtime>>
        /\ quiet' = IF s \in halting THEN quiet \cup {s} ELSE quiet
        /\ frames' = [frames EXCEPT ![s] = IF take[s] # None /\ ~overtime[s]
                                           THEN Append(frames[s], plays[s] + 1) ELSE frames[s]]
        /\ take' = [take EXCEPT ![s] = IF overtime[s] THEN None ELSE take[s]]
    BY <1>3 DEF Recorder!PlayChunk, RecorderTyped, Recorder!Sessions
  <2>2. RecorderTyped'
    BY <1>0, <2>1 DEF RecorderTyped
  <2>3. \A t \in Recorder!Sessions : take'[t] \in {take[t], None}
    BY <2>1 DEF RecorderTyped
  <2>4. TakesApart'
    BY <1>0, <1>1, <2>3, StillApart
  <2>5. ASSUME NEW t \in Recorder!Sessions, take'[t] # None PROVE Recorded(take[t], plays'[t], frames'[t])
    <3>1. Recorded(take[t], plays[t], frames[t]) /\ plays[t] \in Nat
      BY <1>0, <2>3, <2>5 DEF TakesSafe, RecorderTyped
    <3>2. CASE t = s
      <4>1. frames'[s] = Append(frames[s], plays[s] + 1) /\ plays'[s] = plays[s] + 1 /\ take[s] # None
        BY <2>1, <2>5, <3>2 DEF RecorderTyped
      <4>2. begun[take[s]] \in Nat
        BY <1>0, <3>1, <3>2 DEF Recorded
      <4>3. begun[take[s]] <= plays[s] /\ Whole(frames[s], begun[take[s]], plays[s])
        BY <3>1, <3>2 DEF Recorded
      <4>4. Whole(frames'[s], begun[take[s]], plays'[s])
        BY <3>1, <3>2, <4>1, <4>2, <4>3, WholeGrows
      <4> QED
        BY <3>1, <3>2, <4>1, <4>2, <4>3, <4>4 DEF Recorded
    <3>3. CASE t # s
      BY <2>1, <3>1, <3>3 DEF RecorderTyped
    <3> QED
      BY <3>2, <3>3
  <2>6. ASSUME NEW number, NEW end, NEW chunks, Recorded(number, end, chunks) PROVE Recorded(number, end, chunks)'
    BY <1>0, <2>6 DEF Recorded, Whole
  <2>7. TakesSafe'
    <3>1. ASSUME NEW t \in Recorder!Sessions, take'[t] # None PROVE Recorded(take[t], plays[t], frames[t])'
      BY <1>0, <2>3, <2>5, <3>1 DEF Recorded, Whole
    <3>2. \A q \in Writing' : Recorded(stops[q].take, stops[q].end, stops[q].chunks)'
      BY <1>0, <1>1 DEF TakesSafe, Recorded, Whole
    <3>3. \A r \in saved' : Recorded(r.take, r.end, r.chunks)'
      BY <1>0 DEF TakesSafe, Recorded, Whole
    <3> QED
      BY <3>1, <3>2, <3>3 DEF TakesSafe
  <2> QED
    BY <1>1, <2>2, <2>4, <2>7
<1> QED
  BY <1>2, <1>3

\* A recording begins, and a request takes and writes it.
LEMMA RecordingSafe ==
  ASSUME Recorder!RecorderAssumption, RecorderSafe, Recorder!StartRecording
  PROVE  RecorderSafe'
<1> USE DEF RecorderSafe, Recorder!air, Recorder!files
<1>1. /\ onAir \in Recorder!Sessions /\ take[onAir] = None /\ Len(begun) < MaxTakes
      /\ take' = [take EXCEPT ![onAir] = Len(begun) + 1]
      /\ frames' = [frames EXCEPT ![onAir] = <<>>]
      /\ overtime' = [overtime EXCEPT ![onAir] = FALSE]
      /\ begun' = Append(begun, plays[onAir])
      /\ UNCHANGED <<onAir, aired, halting, quiet, plays, stops, saved, mp3, exports, crowded>>
  BY DEF Recorder!StartRecording, RecorderTyped, Recorder!RecorderAssumption, Recorder!Sessions
<1>2. /\ begun \in Seq(Nat) /\ plays[onAir] \in Nat /\ begun' \in Seq(Nat) /\ Len(begun') = Len(begun) + 1
      /\ begun'[Len(begun) + 1] = plays[onAir] /\ Len(begun) + 1 \in Recorder!Takes
      /\ Len(begun) \in Nat /\ MaxTakes \in Nat
  BY <1>1 DEF RecorderTyped, Recorder!RecorderAssumption, Recorder!Takes
<1>3. Len(begun) + 1 # None
  BY <1>2 DEF Recorder!RecorderAssumption
<1>4. Mp3Safe' /\ Writing' = Writing
  BY <1>1, Mp3Stays DEF Writing
<1>5. RecorderTyped'
  BY <1>1, <1>2 DEF RecorderTyped
<1>6. TakesSafe'
  <2>1. ASSUME NEW s \in Recorder!Sessions, take'[s] # None PROVE Recorded(take[s], plays[s], frames[s])'
    <3>1. CASE s = onAir
      <4>1. take'[s] = Len(begun) + 1 /\ frames'[s] = <<>> /\ plays'[s] = plays[onAir]
        BY <1>1, <3>1 DEF RecorderTyped
      <4>2. Whole(frames[s], plays[s], plays[s])'
        BY <1>2, <4>1 DEF Whole
      <4> QED
        BY <1>1, <1>2, <4>1, <4>2 DEF Recorded, Whole
    <3>2. CASE s # onAir
      <4>1. take'[s] = take[s] /\ frames'[s] = frames[s] /\ Recorded(take[s], plays[s], frames[s])
        BY <1>1, <2>1, <3>2 DEF TakesSafe, RecorderTyped
      <4> QED
        BY <1>1, <1>2, <4>1, RecordedStays
    <3> QED
      BY <3>1, <3>2
  <2>2. \A q \in Writing' : Recorded(stops[q].take, stops[q].end, stops[q].chunks)'
    BY <1>1, <1>2, <1>4, RecordedStays DEF TakesSafe
  <2>3. \A r \in saved' : Recorded(r.take, r.end, r.chunks)'
    BY <1>1, <1>2, RecordedStays DEF TakesSafe
  <2> QED
    BY <2>1, <2>2, <2>3 DEF TakesSafe
<1>7. TakesApart'
  <2>1. /\ \A s \in Recorder!Sessions : take[s] # None => take[s] \in 1..Len(begun)
        /\ \A q \in Writing : stops[q].take \in 1..Len(begun)
        /\ \A r \in saved : r.take \in 1..Len(begun)
    BY DEF TakesSafe, Recorded
  <2>2. \A s \in Recorder!Sessions : take'[s] = IF s = onAir THEN Len(begun) + 1 ELSE take[s]
    BY <1>1 DEF RecorderTyped
  <2> QED
    BY <1>1, <1>2, <1>4, <2>1, <2>2 DEF TakesApart
<1> QED
  BY <1>4, <1>5, <1>6, <1>7

LEMMA StopsSafe ==
  ASSUME Recorder!RecorderAssumption, RecorderSafe, NEW q \in Stoppers,
         \/ Recorder!AskToStop(q) \/ Recorder!TakeRecording(q) \/ Recorder!TakenAway(q)
         \/ Recorder!WriteRecording(q) \/ Recorder!WriteFails(q)
  PROVE  RecorderSafe'
<1> USE DEF RecorderSafe, Recorder!air, Recorder!recording, Recorder!files
<1>0. /\ UNCHANGED <<onAir, aired, halting, quiet, plays, overtime, begun, mp3, exports, crowded>>
      /\ begun \in Seq(Nat) /\ DOMAIN stops' = Stoppers
      /\ \A p \in Stoppers \ {q} : stops'[p] = stops[p]
  BY DEF Recorder!AskToStop, Recorder!TakeRecording, Recorder!TakenAway, Recorder!WriteRecording,
         Recorder!WriteFails, RecorderTyped
<1>1. Mp3Safe'
  BY <1>0, Mp3Stays
<1>2. ASSUME NEW number, NEW end, NEW chunks PROVE Recorded(number, end, chunks)' = Recorded(number, end, chunks)
  BY <1>0 DEF Recorded, Whole
<1>3. CASE Recorder!TakeRecording(q)
  <2> DEFINE s == stops[q].session
  <2>1. /\ stops[q].at = "grace" /\ s \in Recorder!Sessions /\ take[s] # None
        /\ stops'[q].at = "write" /\ stops'[q].take = take[s] /\ stops'[q].end = plays[s]
        /\ stops'[q].chunks = frames[s]
        /\ take' = [take EXCEPT ![s] = None] /\ frames' = [frames EXCEPT ![s] = <<>>] /\ saved' = saved
    BY <1>3 DEF Recorder!TakeRecording, RecorderTyped
  <2> HIDE DEF s
  <2>2. Writing' = Writing \cup {q} /\ q \notin Writing
    BY <1>0, <2>1 DEF Writing
  <2>3. /\ take' \in [Recorder!Sessions -> Recorder!Takes \cup {None}] /\ DOMAIN frames' = Recorder!Sessions
        /\ take'[s] = None
        /\ \A t \in Recorder!Sessions \ {s} : take'[t] = take[t] /\ frames'[t] = frames[t]
    BY <2>1 DEF RecorderTyped
  <2>4. RecorderTyped'
    BY <1>0, <2>1, <2>3 DEF RecorderTyped
  <2>5. TakesSafe'
    <3>1. Recorded(take[s], plays[s], frames[s])
      BY <2>1 DEF TakesSafe
    <3>2. Recorded(stops'[q].take, stops'[q].end, stops'[q].chunks)
      BY <2>1, <3>1
    <3>3. \A p \in Writing : Recorded(stops'[p].take, stops'[p].end, stops'[p].chunks)
      BY <1>0, <2>2 DEF TakesSafe, Writing
    <3>4. \A t \in Recorder!Sessions : take'[t] # None => Recorded(take'[t], plays'[t], frames'[t])
      BY <1>0, <2>3 DEF TakesSafe
    <3> QED
      BY <1>0, <1>2, <2>1, <2>2, <3>2, <3>3, <3>4 DEF TakesSafe
  <2>6. TakesApart'
    BY <1>0, <2>1, <2>2, <2>3 DEF TakesApart, Writing
  <2> QED
    BY <1>1, <2>4, <2>5, <2>6
<1>4. CASE Recorder!WriteRecording(q)
  <2> DEFINE r == [by |-> q, take |-> stops[q].take, end |-> stops[q].end, chunks |-> stops[q].chunks]
  <2>1. /\ q \in Writing /\ stops'[q].at = "done" /\ saved' = saved \cup {r} /\ UNCHANGED <<take, frames>>
        /\ r.take = stops[q].take /\ r.end = stops[q].end /\ r.chunks = stops[q].chunks
    BY <1>4 DEF Recorder!WriteRecording, RecorderTyped, Writing
  <2> HIDE DEF r
  <2>2. Writing' = Writing \ {q}
    BY <1>0, <2>1 DEF Writing
  <2>3. RecorderTyped'
    BY <1>0, <2>1 DEF RecorderTyped
  <2>4. TakesSafe'
    BY <1>0, <1>2, <2>1, <2>2 DEF TakesSafe, Writing
  <2>5. TakesApart'
    BY <1>0, <2>1, <2>2 DEF TakesApart, Writing
  <2> QED
    BY <1>1, <2>3, <2>4, <2>5
<1>5. CASE Recorder!AskToStop(q) \/ Recorder!TakenAway(q) \/ Recorder!WriteFails(q)
  <2>1. /\ UNCHANGED <<take, frames, saved>> /\ stops'[q].at \in {"grace", "done"}
        /\ stops'[q].at = "grace" => stops'[q].session = onAir /\ onAir # None
    <3>1. CASE Recorder!AskToStop(q)
      BY <3>1 DEF Recorder!AskToStop, RecorderTyped
    <3>2. CASE Recorder!TakenAway(q) \/ Recorder!WriteFails(q)
      <4>1. stops' = [stops EXCEPT ![q].at = "done"] /\ UNCHANGED <<take, frames, saved>>
        BY <3>2 DEF Recorder!TakenAway, Recorder!WriteFails
      <4>2. stops'[q].at = "done"
        BY <4>1 DEF RecorderTyped
      <4> QED
        BY <4>1, <4>2
    <3> QED
      BY <1>5, <3>1, <3>2
  <2>2. Writing' \subseteq Writing /\ \A p \in Writing' : stops'[p] = stops[p]
    BY <1>0, <2>1 DEF Writing
  <2>3. RecorderTyped'
    <3>1. onAir # None => onAir \in Recorder!Sessions
      BY DEF RecorderTyped, Recorder!Sessions, Recorder!RecorderAssumption
    <3> QED
      BY <1>0, <2>1, <3>1 DEF RecorderTyped
  <2>4. TakesSafe'
    BY <1>0, <1>2, <2>1, <2>2 DEF TakesSafe
  <2>5. TakesApart'
    BY <1>0, <2>1, <2>2, StillApart
  <2> QED
    BY <1>1, <2>3, <2>4, <2>5
<1> QED
  BY <1>3, <1>4, <1>5

LEMMA ExportsSafe ==
  ASSUME Recorder!RecorderAssumption, RecorderSafe, NEW e \in Exporters,
         \/ \E t \in Recorder!Takes : Recorder!AskMp3(e, t)
         \/ Recorder!BeginMp3(e) \/ Recorder!EndMp3(e) \/ Recorder!Mp3Fails(e)
  PROVE  RecorderSafe'
<1> USE DEF RecorderSafe, Recorder!air, Recorder!recording
<1>1. UNCHANGED <<onAir, aired, halting, quiet, plays, take, frames, overtime, begun, stops, saved>>
  BY DEF Recorder!AskMp3, Recorder!BeginMp3, Recorder!EndMp3, Recorder!Mp3Fails
<1>2. RecorderTyped' /\ TakesSafe' /\ TakesApart'
  <2>1. RecorderTyped'
    BY <1>1 DEF RecorderTyped
  <2>2. TakesSafe'
    BY <1>1 DEF TakesSafe, Writing, Recorded, Whole
  <2>3. TakesApart'
    BY <1>1 DEF TakesApart, Writing
  <2> QED
    BY <2>1, <2>2, <2>3
<1>3. None # "none" /\ None # "part" /\ None \notin Recorder!Takes
  BY DEF Recorder!RecorderAssumption
<1>4. /\ exports \in [Exporters -> Export] /\ mp3 \in [Recorder!Takes -> {"none", "part", "whole"}]
      /\ exports[e] \in Export
  BY DEF Mp3Safe
<1>5. ASSUME NEW t \in Recorder!Takes, Recorder!AskMp3(e, t) PROVE Mp3Safe'
  <2>1. /\ mp3' = mp3 /\ exports[e].at = "new"
        /\ crowded' = IF Recorder!Exporting(t) = {} THEN crowded ELSE crowded \cup {t}
        /\ \/ /\ mp3[t] = "none"
              /\ exports' = [exports EXCEPT ![e] = [at |-> "read", take |-> t, served |-> None]]
           \/ /\ mp3[t] # "none"
              /\ exports' = [exports EXCEPT ![e] = [at |-> "done", take |-> t, served |-> mp3[t]]]
    BY <1>5 DEF Recorder!AskMp3
  <2>2. mp3[t] = "part" => t \in crowded'
    BY <2>1 DEF Mp3Safe, Recorder!Exporting
  <2>3. /\ exports' \in [Exporters -> Export] /\ exports'[e].take = t
        /\ \A f \in Exporters \ {e} : exports'[f] = exports[f]
        /\ exports'[e].at \in {"read", "done"} /\ (exports'[e].at = "read" => exports'[e].served = None)
        /\ exports'[e].served \in {None, mp3[t]} /\ exports'[e].served # "none"
    BY <1>3, <1>4, <2>1 DEF Export
  <2>4. \A u \in Recorder!Takes : Recorder!Exporting(u)' \subseteq Recorder!Exporting(u) \cup {e}
                                  /\ (u # t => Recorder!Exporting(u)' = Recorder!Exporting(u))
                                  /\ Recorder!Exporting(u) \subseteq Recorder!Exporting(u)'
    BY <2>1, <2>3 DEF Recorder!Exporting
  <2>5. \A f \in Exporters : exports'[f].at \in {"read", "write"} =>
          exports'[f].take \in Recorder!Takes /\ exports'[f].served = None
    BY <2>3 DEF Mp3Safe
  <2>6. ASSUME NEW u \in Recorder!Takes \ crowded'
        PROVE  /\ \A f, g \in Recorder!Exporting(u)' : f = g
               /\ mp3'[u] = "part" <=> \E f \in Recorder!Exporting(u)' : exports'[f].at = "write"
    <3>1. u \notin crowded /\ (u = t => Recorder!Exporting(t) = {})
      BY <2>1
    <3>2. u = t => mp3[u] # "part"
      BY <3>1 DEF Mp3Safe
    <3> QED
      BY <2>1, <2>3, <2>4, <3>1, <3>2 DEF Mp3Safe, Recorder!Exporting
  <2>7. Recorder!ServedWhole'
    <3>1. Recorder!ServedWhole /\ crowded \subseteq crowded'
      BY <2>1 DEF Mp3Safe
    <3>2. exports'[e].served \in {"none", "part"} => t \in crowded'
      BY <1>3, <2>2, <2>3
    <3> QED
      BY <2>3, <3>1, <3>2 DEF Recorder!ServedWhole
  <2> QED
    BY <1>4, <2>1, <2>3, <2>5, <2>6, <2>7 DEF Mp3Safe
<1>6. CASE Recorder!BeginMp3(e) \/ Recorder!EndMp3(e) \/ Recorder!Mp3Fails(e)
  <2> DEFINE t == exports[e].take
  <2>1. /\ crowded' = crowded /\ t \in Recorder!Takes /\ exports[e].served = None
        /\ exports[e].at \in {"read", "write"} /\ e \in Recorder!Exporting(t)
    BY <1>6 DEF Recorder!BeginMp3, Recorder!EndMp3, Recorder!Mp3Fails, Mp3Safe, Recorder!Exporting
  <2>2. /\ exports' \in [Exporters -> Export] /\ mp3' \in [Recorder!Takes -> {"none", "part", "whole"}]
        /\ \A f \in Exporters \ {e} : exports'[f] = exports[f]
        /\ \A u \in Recorder!Takes \ {t} : mp3'[u] = mp3[u]
        /\ exports'[e].take = t
        /\ \/ exports'[e].at = "write" /\ exports'[e].served = None /\ mp3'[t] = "part"
           \/ exports'[e].at = "done" /\ exports'[e].served = None /\ mp3'[t] = "none"
           \/ /\ exports[e].at = "write" /\ exports'[e].at = "done" /\ exports'[e].served = mp3'[t]
              /\ mp3'[t] = IF mp3[t] = "part" THEN "whole" ELSE mp3[t]
    <3> HIDE DEF t
    <3>1. CASE Recorder!BeginMp3(e)
      BY <1>4, <2>1, <3>1 DEF Recorder!BeginMp3, Export, t
    <3>2. CASE Recorder!EndMp3(e)
      <4>1. /\ mp3' = [mp3 EXCEPT ![t] = IF mp3[t] = "part" THEN "whole" ELSE mp3[t]]
            /\ exports[e].at = "write"
            /\ exports' = [exports EXCEPT ![e] = [exports[e] EXCEPT !.at = "done", !.served = mp3'[t]]]
        <5>1. mp3' = [mp3 EXCEPT ![t] = IF mp3[t] = "part" THEN "whole" ELSE mp3[t]]
          BY <1>4, <2>1, <3>2 DEF Recorder!EndMp3, t
        <5> QED
          BY <3>2, <5>1 DEF Recorder!EndMp3, t
      <4>2. mp3'[t] \in {"none", "part", "whole"} /\ mp3'[t] = IF mp3[t] = "part" THEN "whole" ELSE mp3[t]
        BY <1>4, <2>1, <4>1
      <4>3. [exports[e] EXCEPT !.at = "done", !.served = mp3'[t]] \in Export
        BY <1>4, <4>2 DEF Export
      <4> QED
        BY <1>4, <2>1, <4>1, <4>2, <4>3 DEF Export, t
    <3>3. CASE Recorder!Mp3Fails(e)
      BY <1>4, <2>1, <3>3 DEF Recorder!Mp3Fails, Export, t
    <3> QED
      BY <1>6, <3>1, <3>2, <3>3
  <2> HIDE DEF t
  <2>3. /\ \A u \in Recorder!Takes \ {t} : Recorder!Exporting(u)' = Recorder!Exporting(u)
        /\ \A u \in {t} : Recorder!Exporting(u)' = IF exports'[e].at = "write" THEN Recorder!Exporting(u)
                                                 ELSE Recorder!Exporting(u) \ {e}
    BY <2>1, <2>2 DEF Recorder!Exporting, t
  <2>4. t \notin crowded => Recorder!Exporting(t) = {e} /\ (mp3[t] = "part" <=> exports[e].at = "write")
    BY <2>1 DEF Mp3Safe
  <2>5. \A f \in Exporters : exports'[f].at \in {"read", "write"} =>
          exports'[f].take \in Recorder!Takes /\ exports'[f].served = None
    BY <2>1, <2>2 DEF Mp3Safe
  <2>6. ASSUME NEW u \in Recorder!Takes \ crowded'
        PROVE  /\ \A f, g \in Recorder!Exporting(u)' : f = g
               /\ mp3'[u] = "part" <=> \E f \in Recorder!Exporting(u)' : exports'[f].at = "write"
    <3>1. CASE u = t
      <4>1. Recorder!Exporting(t) = {e} /\ (mp3[t] = "part" <=> exports[e].at = "write")
        BY <2>1, <2>4, <3>1
      <4>0. Recorder!Exporting(u)' = IF exports'[e].at = "write" THEN {e} ELSE {}
        BY <2>3, <3>1, <4>1
      <4>2. CASE exports'[e].at = "write"
        BY <2>2, <3>1, <4>0, <4>2
      <4>3. CASE exports'[e].at = "done"
        BY <2>2, <3>1, <4>0, <4>3
      <4> QED
        BY <2>2, <4>2, <4>3
    <3>2. CASE u # t
      <4>1. e \notin Recorder!Exporting(u)
        BY <2>1, <3>2 DEF Recorder!Exporting, t
      <4> QED
        BY <2>1, <2>2, <2>3, <3>2, <4>1 DEF Mp3Safe, Recorder!Exporting
    <3> QED
      BY <3>1, <3>2
  <2>7. Recorder!ServedWhole'
    BY <1>3, <2>1, <2>2, <2>4 DEF Mp3Safe, Recorder!ServedWhole
  <2> QED
    BY <1>2, <2>2, <2>5, <2>6, <2>7 DEF Mp3Safe
<1> QED
  BY <1>2, <1>5, <1>6

LEMMA RecorderRestart ==
  ASSUME Recorder!RecorderAssumption, RecorderSafe, Recorder!Restart
  PROVE  RecorderSafe'
<1> USE DEF RecorderSafe
<1>1. /\ onAir' = None /\ halting' = 1..aired /\ quiet' = 1..aired
      /\ take' = [s \in Recorder!Sessions |-> None]
      /\ stops' = [q \in Stoppers |-> [stops[q] EXCEPT !.at = IF stops[q].at = "new" THEN "new" ELSE "done"]]
      /\ exports' = [e \in Exporters |-> [exports[e] EXCEPT !.at = IF exports[e].at = "new" THEN "new" ELSE "done"]]
      /\ crowded' = crowded \cup {t \in Recorder!Takes : Recorder!Exporting(t) # {}}
      /\ UNCHANGED <<aired, plays, frames, overtime, begun, saved, mp3>>
  BY DEF Recorder!Restart
<1>2. ASSUME NEW q \in Stoppers PROVE stops'[q].at \in {"new", "done"}
  <2>1. stops'[q] = [stops[q] EXCEPT !.at = IF stops[q].at = "new" THEN "new" ELSE "done"]
    BY <1>1
  <2> QED
    BY <2>1 DEF RecorderTyped
<1>3. Writing' = {}
  BY <1>2 DEF Writing
<1>4. RecorderTyped'
  BY <1>1, <1>2 DEF RecorderTyped
<1>5. TakesSafe' /\ TakesApart'
  BY <1>1, <1>3 DEF TakesSafe, TakesApart, Recorded, Whole
<1>6. /\ exports' \in [Exporters -> Export]
      /\ \A e \in Exporters : /\ exports'[e].at \in {"new", "done"}
                              /\ exports'[e].take = exports[e].take /\ exports'[e].served = exports[e].served
  BY <1>1 DEF Mp3Safe, Export
<1>7. \A t \in Recorder!Takes : Recorder!Exporting(t)' = {}
  BY <1>6 DEF Recorder!Exporting
<1>8. \A t \in Recorder!Takes \ crowded' : t \notin crowded /\ mp3[t] # "part"
  BY <1>1 DEF Mp3Safe
<1>9. Recorder!ServedWhole'
  <2>1. Recorder!ServedWhole /\ crowded \subseteq crowded'
    BY <1>1 DEF Mp3Safe
  <2> QED
    BY <1>6, <2>1 DEF Recorder!ServedWhole
<1>10. Mp3Safe'
  BY <1>1, <1>6, <1>7, <1>8, <1>9 DEF Mp3Safe
<1> QED
  BY <1>4, <1>5, <1>10

LEMMA RecorderStep ==
  Recorder!RecorderAssumption /\ RecorderSafe /\ [Recorder!Next]_(Recorder!vars) => RecorderSafe'
<1> SUFFICES ASSUME Recorder!RecorderAssumption, RecorderSafe, [Recorder!Next]_(Recorder!vars)
             PROVE  RecorderSafe'
  OBVIOUS
<1>1. CASE UNCHANGED Recorder!vars
  <2>1. RecorderTyped' /\ TakesSafe' /\ TakesApart'
    BY <1>1 DEF Recorder!vars, RecorderSafe, RecorderTyped, TakesSafe, TakesApart, Writing, Recorded, Whole
  <2> QED
    BY <1>1, <2>1, Mp3Stays DEF Recorder!vars, RecorderSafe
<1> QED
  BY <1>1, AirSafe, RecordingSafe, StopsSafe, ExportsSafe, RecorderRestart DEF Recorder!Next

LEMMA RecorderTrue ==
  Recorder!RecorderAssumption /\ RecorderSafe => Recorder!TakesWhole /\ Recorder!ServedWhole /\ Recorder!TypeOK
<1> SUFFICES ASSUME Recorder!RecorderAssumption, RecorderSafe
             PROVE  Recorder!TakesWhole /\ Recorder!ServedWhole /\ Recorder!TypeOK
  OBVIOUS
<1>1. ASSUME NEW r \in saved
      PROVE  /\ r.chunks = [i \in 1..(r.end - begun[r.take]) |-> begun[r.take] + i]
             /\ \A s \in saved : s.take = r.take => s = r
  <2>1. Recorded(r.take, r.end, r.chunks) /\ begun \in Seq(Nat)
    BY DEF RecorderSafe, TakesSafe, RecorderTyped
  <2>2. begun[r.take] \in Nat
    BY <2>1 DEF Recorded
  <2> QED
    BY <2>1, <2>2, WholeIs DEF Recorded, RecorderSafe, TakesApart
<1>2. Recorder!TypeOK
  <2> USE DEF RecorderSafe, RecorderTyped
  <2>1. onAir \in {None} \cup Recorder!Sessions /\ halting \subseteq Recorder!Sessions
    BY DEF Recorder!Sessions, Recorder!RecorderAssumption
  <2> QED
    BY <2>1 DEF Recorder!TypeOK, Mp3Safe, Export
<1> QED
  BY <1>1, <1>2 DEF Recorder!TakesWhole, RecorderSafe, Mp3Safe

-----------------------------------------------------------------------------
(* The conversions of files.                                               *)

Loads == [slot : Slots, file : {Desk!Weights[1]}]

Desked ==
  [at : {"idle", "assets", "upload", "wait", "convert"} \cup Desk!Over, slot : Slots \cup {None},
   mode : {None, "off", "dtln"}, content : {None, "audio", "corrupt"}]

\* The steps of a thread before it writes its output, and all of them.
Unwritten == {"none", "look", "load", "name", "denoiser", "read"}
ThreadSteps == Unwritten \cup {"write", "done", "unavailable", "failed"}

FilesTyped ==
  /\ slot \in [Slots -> [files : SUBSET {Desk!Weights[1], Desk!Weights[2]}, hint : {None, Desk!Weights[2]}]]
  /\ assets \in AssetSets /\ beside \subseteq Desk!AssetFiles /\ denoise \in {"off", "dtln"}
  /\ fetch \in [at : {"idle", "load"}, todo : SUBSET Desk!AssetFiles]
  /\ running \in BOOLEAN /\ running = (fetch.at = "load")

ConvsTyped ==
  /\ loaded \in Loads \cup {None} /\ loadedId \in Slots \cup {None}
  /\ loads \subseteq Convs /\ stale \subseteq Slots /\ lock \in Convs \cup {None}
  /\ overlap \in BOOLEAN
  /\ req \in [Convs -> Desked] /\ thread \in [Convs -> ThreadSteps]
  /\ got \in [Convs -> Loads \cup {None}] /\ output \in [Convs -> {None, "part", "whole"}]
  /\ temp \subseteq Convs /\ moved \subseteq Convs

\* How far a request has come says what its thread has done and where its upload is.
Paced ==
  \A c \in Convs :
    /\ req[c].at \in {"idle", "assets"} => c \notin temp
    /\ req[c].at \in {"upload", "wait", "convert"} => c \in temp
    /\ req[c].at \in Desk!Over \ {"cut"} => c \notin temp
    /\ req[c].at \in {"idle", "assets", "upload", "wait", "cut"} => thread[c] = "none"
    /\ req[c].at = "answered" => thread[c] = "done"
    /\ req[c].at = "refused" => thread[c] \in {"none", "unavailable"}
    /\ req[c].at = "error" => thread[c] = "failed"
    /\ thread[c] \in Unwritten \cup {"unavailable"} => output[c] = None
    /\ thread[c] = "write" => output[c] \in {None, "part"}
    /\ thread[c] = "done" <=> output[c] = "whole"
    /\ req[c].at # "idle" => req[c].slot \in Slots
    /\ thread[c] = "none" => got[c] = None
    /\ thread[c] \in {"denoiser", "read", "write", "done"} => got[c] # None

\* Unless threads overlap, the loaded model is that of the one thread that has not
\* set the name, or the one that is named, and each thread got its own.
Seated ==
  /\ loads = {c \in Convs : thread[c] \in {"load", "name"}}
  /\ \A c \in Convs : thread[c] = "name" => loaded # None
  /\ ~overlap =>
       /\ \A c, d \in loads : c = d
       /\ \A c \in Convs : thread[c] = "name" => loaded.slot = req[c].slot
       /\ (\A c \in Convs : thread[c] # "name") /\ loaded # None => loadedId = loaded.slot
       /\ \A c \in Convs : got[c] # None => got[c].slot = req[c].slot

\* A model that was loaded is the one its folder names, unless the folder changed.
Fresh ==
  LET Stands(m) == m # None => m.slot \in stale \/ Desk!Chosen(m.slot) = m.file
  IN Stands(loaded) /\ \A c \in Convs : Stands(got[c])

\* The denoise mode that a request asks for.
ModeOf(c) == IF req[c].mode = None THEN denoise ELSE req[c].mode

\* Past its check a request has what it checked, unless something moved.
StillThere ==
  \A c \in Convs \ moved :
    /\ req[c].at = "upload" \/ req[c].at = "wait" \/ thread[c] # "none" =>
         Desk!Missing = {} /\ (ModeOf(c) = "dtln" => Desk!Paired)
    /\ thread[c] # "unavailable"

DeskSafe == FilesTyped /\ ConvsTyped /\ Paced /\ Seated /\ Fresh /\ StillThere /\ Desk!CheckEnough

LEMMA DeskKnown ==
  ASSUME Desk!VoiceDeskAssumption
  PROVE  /\ None \notin Slots /\ None \notin Convs /\ None \notin Loads
         /\ None # "off" /\ None # "dtln" /\ None # "part" /\ None # "whole"
         /\ None # Desk!Weights[1] /\ None # Desk!Weights[2]
         /\ SlotFiles \subseteq SUBSET {Desk!Weights[1], Desk!Weights[2]}
         /\ AssetSets \subseteq SUBSET Desk!AssetFiles
         /\ Desk!NoRequest \in Desked /\ Desk!NoRequest.at = "idle"
  BY DEF Desk!VoiceDeskAssumption, Loads, Desk!NoRequest, Desk!Request, Desked

LEMMA DeskInit == Desk!VoiceDeskAssumption /\ Desk!Init => DeskSafe
<1> SUFFICES ASSUME Desk!VoiceDeskAssumption, Desk!Init PROVE DeskSafe
  OBVIOUS
<1> USE DeskKnown DEF Desk!Init
<1>1. FilesTyped
  <2>1. slot \in [Slots -> [files : SUBSET {Desk!Weights[1], Desk!Weights[2]}, hint : {None, Desk!Weights[2]}]]
    OBVIOUS
  <2>2. fetch \in [at : {"idle", "load"}, todo : SUBSET Desk!AssetFiles] /\ fetch.at = "idle" /\ running = FALSE
    OBVIOUS
  <2> QED
    BY <2>1, <2>2 DEF FilesTyped
<1>2. ConvsTyped
  BY DEF ConvsTyped, ThreadSteps, Unwritten
<1>3. Paced
  BY DEF Paced, Desk!Over, Unwritten
<1>4. Seated /\ Fresh
  BY DEF Seated, Fresh
<1>5. StillThere /\ Desk!CheckEnough
  BY DEF StillThere, Desk!CheckEnough
<1> QED
  BY <1>1, <1>2, <1>3, <1>4, <1>5 DEF DeskSafe

\* What is named and missing depends on the folder and on the shared models.
LEMMA ChosenStays ==
  /\ \A s \in Slots : slot'[s] = slot[s] => Desk!Chosen(s)' = Desk!Chosen(s)
  /\ assets' = assets => Desk!Missing' = Desk!Missing /\ (Desk!Paired' <=> Desk!Paired)
<1>1. \A s \in Slots : slot'[s] = slot[s] => Desk!Chosen(s)' = Desk!Chosen(s)
  BY DEF Desk!Chosen
<1>2. assets' = assets => Desk!Missing' = Desk!Missing /\ (Desk!Paired' <=> Desk!Paired)
  BY DEF Desk!Missing, Desk!Paired
<1> QED
  BY <1>1, <1>2

\* A file or the setting changes: every request that has begun notes it.
LEMMA FilesSafe ==
  ASSUME Desk!VoiceDeskAssumption, DeskSafe,
         \/ \E s \in Slots, files \in SlotFiles \cup {{}} : Desk!ChangeSlot(s, files)
         \/ \E files \in AssetSets : Desk!ChangeAssets(files)
         \/ Desk!ChangeDenoise
  PROVE  DeskSafe'
<1> USE DeskKnown DEF DeskSafe
<1>1. /\ moved' = moved \cup Desk!Checked
      /\ UNCHANGED <<beside, loaded, loadedId, loads, overlap, lock, req, thread, got, temp, output, fetch, running>>
  BY DEF Desk!ChangeSlot, Desk!ChangeAssets, Desk!ChangeDenoise, Desk!Change, Desk!fetchVars
<1>2. /\ slot' \in [Slots -> [files : SUBSET {Desk!Weights[1], Desk!Weights[2]}, hint : {None, Desk!Weights[2]}]]
      /\ assets' \in AssetSets /\ denoise' \in {"off", "dtln"}
      /\ stale \subseteq stale' /\ stale' \subseteq Slots
      /\ \A s \in Slots : slot'[s] = slot[s] \/ s \in stale'
  <2>1. ASSUME NEW s \in Slots, NEW files \in SlotFiles \cup {{}}, Desk!ChangeSlot(s, files) PROVE <1>2!:
    <3>1. slot' = [slot EXCEPT ![s].files = files] /\ stale' = stale \cup {s} /\ UNCHANGED <<assets, denoise>>
      BY <2>1 DEF Desk!ChangeSlot
    <3> QED
      BY <3>1 DEF FilesTyped, ConvsTyped
  <2>2. CASE (\E files \in AssetSets : Desk!ChangeAssets(files)) \/ Desk!ChangeDenoise
    BY <2>2 DEF Desk!ChangeAssets, Desk!ChangeDenoise, FilesTyped, ConvsTyped
  <2> QED
    BY <2>1, <2>2
<1>3. \A c \in Convs \ moved' : c \notin moved /\ req[c].at = "idle" /\ thread[c] = "none"
  BY <1>1 DEF Desk!Checked, Paced
<1>4. FilesTyped' /\ ConvsTyped'
  BY <1>1, <1>2 DEF FilesTyped, ConvsTyped, Desk!Checked
<1>5. Paced' /\ Seated'
  BY <1>1 DEF Paced, Seated
<1>6. Fresh'
  <2>1. ASSUME NEW m \in Loads, m.slot \in stale \/ Desk!Chosen(m.slot) = m.file
        PROVE  m.slot \in stale' \/ Desk!Chosen(m.slot)' = m.file
    BY <1>2, <2>1, ChosenStays DEF Loads
  <2> QED
    BY <1>1, <2>1 DEF Fresh, ConvsTyped
<1>7. StillThere' /\ Desk!CheckEnough'
  BY <1>1, <1>3 DEF StillThere, Desk!CheckEnough
<1> QED
  BY <1>4, <1>5, <1>6, <1>7

LEMMA FetchSafe ==
  ASSUME Desk!VoiceDeskAssumption, DeskSafe,
         (\E optional \in BOOLEAN : Desk!PostFetch(optional)) \/ Desk!FetchEnds
  PROVE  DeskSafe'
<1> USE DeskKnown DEF DeskSafe
<1>1. UNCHANGED <<slot, assets, denoise, Desk!modelVars, Desk!convVars>>
  BY DEF Desk!PostFetch, Desk!FetchEnds, Desk!Lands
<1>2. FilesTyped'
  <2>1. ASSUME NEW optional \in BOOLEAN, Desk!PostFetch(optional) PROVE FilesTyped'
    <3>1. Desk!Specs(optional) \subseteq Desk!AssetFiles
      BY DEF Desk!Specs, Desk!AssetFiles, Desk!Vec, Desk!Dtln
    <3>2. /\ fetch' = [at |-> IF Desk!Specs(optional) = {} THEN "idle" ELSE "load", todo |-> Desk!Specs(optional)]
          /\ running' = (Desk!Specs(optional) # {}) /\ beside' = beside
      BY <2>1 DEF Desk!PostFetch
    <3> HIDE DEF DeskSafe
    <3>3. fetch' \in [at : {"idle", "load"}, todo : SUBSET Desk!AssetFiles]
      BY <3>1, <3>2
    <3>4. running' \in BOOLEAN /\ running' = (fetch'.at = "load")
      BY <3>2
    <3> QED
      BY <1>1, <3>2, <3>3, <3>4 DEF FilesTyped, DeskSafe
  <2>2. CASE Desk!FetchEnds
    <3>1. /\ fetch' = [fetch EXCEPT !.at = "idle", !.todo = {}] /\ running' = FALSE
          /\ beside' \subseteq beside \cup fetch.todo
      BY <2>2 DEF Desk!FetchEnds, Desk!Lands
    <3> QED
      BY <1>1, <3>1 DEF FilesTyped
  <2> QED
    BY <2>1, <2>2
<1>3. ConvsTyped' /\ Paced' /\ Seated'
  BY <1>1 DEF Desk!modelVars, Desk!convVars, ConvsTyped, Paced, Seated
<1>4. Fresh' /\ StillThere' /\ Desk!CheckEnough'
  <2>1. \A s : Desk!Chosen(s)' = Desk!Chosen(s)
    BY <1>1 DEF Desk!Chosen
  <2>2. Desk!Missing' = {} <=> Desk!Missing = {}
    BY <1>1, ChosenStays
  <2> QED
    BY <1>1, <2>1, <2>2, ChosenStays DEF Desk!modelVars, Desk!convVars, Fresh, StillThere, ModeOf, Desk!CheckEnough
<1> QED
  BY <1>2, <1>3, <1>4

\* A step of a request moves this request alone, and starts its thread at most.
LEMMA RequestMoves ==
  ASSUME Desk!VoiceDeskAssumption, DeskSafe, NEW c \in Convs,
         \/ \E s \in Slots, m \in {None, "dtln"}, content \in {"audio", "corrupt"} : Desk!Post(c, s, m, content)
         \/ Desk!CheckAssets(c) \/ Desk!RefuseUpload(c) \/ Desk!Stored(c) \/ Desk!CutUpload(c)
         \/ Desk!Enter(c) \/ Desk!Cancel(c) \/ Desk!Answer(c)
  PROVE  /\ UNCHANGED <<Desk!fileVars, Desk!modelVars, got, output, moved, Desk!fetchVars>>
         /\ req' \in [Convs -> Desked] /\ thread' \in [Convs -> ThreadSteps]
         /\ temp' \subseteq Convs /\ lock' \in Convs \cup {None}
         /\ \A d \in Convs \ {c} : req'[d] = req[d] /\ thread'[d] = thread[d] /\ (d \in temp' <=> d \in temp)
         /\ thread[c] # "none" =>
              /\ thread'[c] = thread[c] /\ req'[c].slot = req[c].slot /\ req'[c].mode = req[c].mode
              /\ req'[c].content = req[c].content /\ (c \in temp' => c \in temp)
         /\ thread[c] = "none" => thread'[c] \in {"none", "look"}
         /\ c \in temp' => req'[c].at \in {"upload", "wait", "convert", "cut"}
         /\ req'[c].at \in {"upload", "wait", "convert"} => c \in temp'
         /\ req'[c].at \in {"idle", "assets", "upload", "wait", "cut"} => thread'[c] = "none"
         /\ req'[c].at = "answered" => thread'[c] = "done"
         /\ req'[c].at = "refused" => thread'[c] \in {"none", "unavailable"}
         /\ req'[c].at = "error" => thread'[c] = "failed"
         /\ req'[c].at # "idle" => req'[c].slot \in Slots
         /\ req'[c].at = "upload" \/ req'[c].at = "wait" \/ thread'[c] # "none" =>
              \/ /\ req[c].at \in {"upload", "wait"} \/ thread[c] # "none"
                 /\ ModeOf(c)' = ModeOf(c)
              \/ Desk!Missing = {} /\ (ModeOf(c)' = "dtln" => Desk!Paired)
<1> USE DeskKnown DEF DeskSafe
<1>1. CASE \E s \in Slots, m \in {None, "dtln"}, content \in {"audio", "corrupt"} : Desk!Post(c, s, m, content)
  <2>6. PICK s \in Slots, m \in {None, "dtln"}, content \in {"audio", "corrupt"} : Desk!Post(c, s, m, content)
    BY <1>1
  <2>1. /\ req[c].at = "idle" /\ UNCHANGED <<Desk!fileVars, Desk!modelVars, got, output, moved, Desk!fetchVars>>
        /\ UNCHANGED <<thread, temp, lock>>
        /\ req' = [req EXCEPT ![c] = Desk!Request(s, m, content, IF Desk!Chosen(s) = None THEN "refused" ELSE "assets")]
    BY <2>6 DEF Desk!Post
  <2>2. /\ req'[c] \in Desked /\ req'[c].at \in {"refused", "assets"} /\ req'[c].slot \in Slots
        /\ \A d \in Convs \ {c} : req'[d] = req[d]
    BY <2>1 DEF ConvsTyped, Desk!Request, Desked, Desk!Over
  <2>3. req' \in [Convs -> Desked]
    BY <2>1, <2>2 DEF ConvsTyped
  <2>4. c \notin temp /\ thread[c] = "none"
    BY <2>1 DEF Paced
  <2>5. /\ thread' \in [Convs -> ThreadSteps] /\ temp' \subseteq Convs /\ lock' \in Convs \cup {None}
        /\ c \notin temp' /\ thread'[c] = "none"
        /\ \A d \in Convs \ {c} : thread'[d] = thread[d] /\ (d \in temp' <=> d \in temp)
    BY <2>1, <2>4 DEF ConvsTyped
  <2> QED
    BY <2>1, <2>2, <2>3, <2>4, <2>5
<1>2. CASE Desk!CheckAssets(c)
  <2>1. /\ req[c].at = "assets" /\ UNCHANGED <<Desk!fileVars, Desk!modelVars, got, output, moved, Desk!fetchVars>>
        /\ UNCHANGED <<thread, lock>>
    BY <1>2 DEF Desk!CheckAssets
  <2>2. \/ req' = [req EXCEPT ![c].at = "refused"] /\ temp' = temp
        \/ /\ req' = [req EXCEPT ![c].at = "upload"] /\ temp' = temp \cup {c}
           /\ Desk!Missing = {} /\ (ModeOf(c) = "dtln" => Desk!Paired)
    BY <1>2 DEF Desk!CheckAssets, Desk!Goto, Desk!AssetError, ModeOf
  <2>3. /\ req'[c] \in Desked /\ req'[c].mode = req[c].mode /\ req'[c].slot = req[c].slot
        /\ req'[c].at \in {"refused", "upload"} /\ \A d \in Convs \ {c} : req'[d] = req[d]
    BY <2>2 DEF ConvsTyped, Desked, Desk!Over
  <2>4. req' \in [Convs -> Desked]
    BY <2>2, <2>3 DEF ConvsTyped
  <2>5. c \notin temp /\ thread[c] = "none"
    BY <2>1 DEF Paced
  <2>6. denoise' = denoise /\ ModeOf(c)' = ModeOf(c)
    BY <2>1, <2>3 DEF Desk!fileVars, ModeOf
  <2>7. \/ req'[c].at = "refused" /\ temp' = temp
        \/ req'[c].at = "upload" /\ temp' = temp \cup {c} /\ Desk!Missing = {} /\ (ModeOf(c) = "dtln" => Desk!Paired)
    <3>1. req[c] \in Desked /\ \A a : req' = [req EXCEPT ![c].at = a] => req'[c].at = a
      BY DEF ConvsTyped, Desked
    <3> QED
      BY <2>2, <3>1
  <2>8. req'[c].slot \in Slots
    BY <2>1, <2>3 DEF Paced
  <2> QED
    BY <2>1, <2>8, <2>3, <2>4, <2>5, <2>6, <2>7 DEF ConvsTyped
<1>3. CASE Desk!RefuseUpload(c) \/ Desk!CutUpload(c)
  <2>1. /\ req[c].at = "upload" /\ UNCHANGED <<Desk!fileVars, Desk!modelVars, got, output, moved, Desk!fetchVars>>
        /\ UNCHANGED <<thread, lock>>
        /\ \/ req' = [req EXCEPT ![c].at = "refused"] /\ temp' = temp \ {c}
           \/ req' = [req EXCEPT ![c].at = "cut"] /\ temp' = temp
    BY <1>3 DEF Desk!RefuseUpload, Desk!CutUpload, Desk!Goto
  <2>2. /\ req'[c] \in Desked /\ req'[c].slot = req[c].slot /\ \A d \in Convs \ {c} : req'[d] = req[d]
        /\ (req'[c].at = "refused" /\ c \notin temp') \/ req'[c].at = "cut"
    BY <2>1 DEF ConvsTyped, Desked, Desk!Over
  <2>3. req' \in [Convs -> Desked]
    BY <2>1, <2>2 DEF ConvsTyped
  <2>4. thread[c] = "none" /\ req[c].slot \in Slots
    BY <2>1 DEF Paced
  <2> QED
    BY <2>1, <2>2, <2>3, <2>4 DEF ConvsTyped
<1>4. CASE Desk!Stored(c)
  <2>1. /\ req[c].at = "upload" /\ UNCHANGED <<Desk!fileVars, Desk!modelVars, got, output, moved, Desk!fetchVars>>
        /\ UNCHANGED <<thread, lock, temp>>
        /\ req' = [req EXCEPT ![c].at = "wait", ![c].mode = IF @ = None THEN denoise ELSE @]
    BY <1>4 DEF Desk!Stored
  <2>2. /\ req'[c] = [req[c] EXCEPT !.at = "wait", !.mode = IF @ = None THEN denoise ELSE @]
        /\ \A d \in Convs \ {c} : req'[d] = req[d]
    BY <2>1 DEF ConvsTyped
  <2>3. req'[c] \in Desked /\ req'[c].at = "wait" /\ req'[c].mode = ModeOf(c) /\ req'[c].slot = req[c].slot
    <3>1. req[c] \in Desked /\ ModeOf(c) \in {"off", "dtln"}
      BY DEF ConvsTyped, FilesTyped, Desked, ModeOf
    <3>2. req'[c] = [req[c] EXCEPT !.at = "wait", !.mode = ModeOf(c)]
      BY <2>2, <3>1 DEF Desked, ModeOf
    <3> HIDE DEF DeskSafe
    <3> QED
      BY <3>1, <3>2 DEF Desked
  <2>9. req'[c].slot \in Slots
    BY <2>1, <2>3 DEF Paced
  <2>4. req' \in [Convs -> Desked]
    BY <2>1, <2>3 DEF ConvsTyped
  <2>5. c \in temp /\ thread[c] = "none"
    BY <2>1 DEF Paced
  <2>6. ModeOf(c)' = ModeOf(c)
    BY <2>1, <2>3 DEF Desk!fileVars, ModeOf
  <2> QED
    BY <2>1, <2>9, <2>2, <2>3, <2>4, <2>5, <2>6 DEF ConvsTyped
<1>5. CASE Desk!Enter(c)
  <2>1. /\ req[c].at = "wait" /\ UNCHANGED <<Desk!fileVars, Desk!modelVars, got, output, moved, Desk!fetchVars>>
        /\ temp' = temp /\ lock' = c
        /\ req' = [req EXCEPT ![c].at = "convert"] /\ thread' = [thread EXCEPT ![c] = "look"]
    BY <1>5 DEF Desk!Enter, Desk!Goto
  <2>2. /\ req'[c] \in Desked /\ req'[c].at = "convert" /\ \A d \in Convs \ {c} : req'[d] = req[d]
        /\ req'[c].slot = req[c].slot /\ req'[c].mode = req[c].mode
    BY <2>1 DEF ConvsTyped, Desked
  <2>3. req' \in [Convs -> Desked]
    BY <2>1, <2>2 DEF ConvsTyped
  <2>4. /\ thread' \in [Convs -> ThreadSteps] /\ thread'[c] = "look"
        /\ \A d \in Convs \ {c} : thread'[d] = thread[d]
    BY <2>1 DEF ConvsTyped, ThreadSteps, Unwritten
  <2>5. c \in temp /\ thread[c] = "none"
    BY <2>1 DEF Paced
  <2>6. ModeOf(c)' = ModeOf(c)
    BY <2>1, <2>2 DEF Desk!fileVars, ModeOf
  <2>7. req'[c].slot \in Slots
    BY <2>1, <2>2 DEF Paced
  <2> QED
    BY <2>1, <2>2, <2>3, <2>4, <2>5, <2>6, <2>7 DEF ConvsTyped
<1>6. CASE Desk!Cancel(c)
  <2>1. /\ req[c].at \in {"assets", "wait", "convert"} /\ temp' = temp \ {c}
        /\ UNCHANGED <<Desk!fileVars, Desk!modelVars, got, output, moved, Desk!fetchVars, thread>>
        /\ lock' \in Convs \cup {None} /\ req' = [req EXCEPT ![c].at = "gone"]
    BY <1>6 DEF Desk!Cancel, Desk!Goto, ConvsTyped
  <2>2. /\ req'[c] \in Desked /\ req'[c].at = "gone" /\ \A d \in Convs \ {c} : req'[d] = req[d]
        /\ req'[c].slot = req[c].slot /\ req'[c].mode = req[c].mode /\ req'[c].content = req[c].content
    BY <2>1 DEF ConvsTyped, Desked, Desk!Over
  <2>3. req' \in [Convs -> Desked]
    BY <2>1, <2>2 DEF ConvsTyped
  <2>4. ModeOf(c)' = ModeOf(c)
    BY <2>1, <2>2 DEF Desk!fileVars, ModeOf
  <2>5. req[c].slot \in Slots
    BY <2>1 DEF Paced
  <2> QED
    BY <2>1, <2>2, <2>3, <2>4, <2>5 DEF ConvsTyped
<1>7. CASE Desk!Answer(c)
  <2>1. /\ req[c].at = "convert" /\ thread[c] \in {"done", "unavailable", "failed"} /\ temp' = temp \ {c}
        /\ UNCHANGED <<Desk!fileVars, Desk!modelVars, got, output, moved, Desk!fetchVars, thread>>
        /\ lock' = None
        /\ \/ thread[c] = "done" /\ req' = [req EXCEPT ![c].at = "answered"]
           \/ thread[c] = "unavailable" /\ req' = [req EXCEPT ![c].at = "refused"]
           \/ thread[c] = "failed" /\ req' = [req EXCEPT ![c].at = "error"]
    BY <1>7 DEF Desk!Answer, Desk!Goto
  <2>2. /\ req'[c] \in Desked /\ \A d \in Convs \ {c} : req'[d] = req[d]
        /\ \/ thread[c] = "done" /\ req'[c].at = "answered"
           \/ thread[c] = "unavailable" /\ req'[c].at = "refused"
           \/ thread[c] = "failed" /\ req'[c].at = "error"
        /\ req'[c].slot = req[c].slot /\ req'[c].mode = req[c].mode /\ req'[c].content = req[c].content
    BY <2>1 DEF ConvsTyped, Desked, Desk!Over
  <2>3. req' \in [Convs -> Desked]
    BY <2>1, <2>2 DEF ConvsTyped
  <2>4. ModeOf(c)' = ModeOf(c)
    BY <2>1, <2>2 DEF Desk!fileVars, ModeOf
  <2>5. req[c].slot \in Slots
    BY <2>1 DEF Paced
  <2> QED
    BY <2>1, <2>2, <2>3, <2>4, <2>5 DEF ConvsTyped
<1> QED
  BY <1>1, <1>2, <1>3, <1>4, <1>5, <1>6, <1>7

LEMMA RequestSafe ==
  ASSUME Desk!VoiceDeskAssumption, DeskSafe, NEW c \in Convs,
         \/ \E s \in Slots, m \in {None, "dtln"}, content \in {"audio", "corrupt"} : Desk!Post(c, s, m, content)
         \/ Desk!CheckAssets(c) \/ Desk!RefuseUpload(c) \/ Desk!Stored(c) \/ Desk!CutUpload(c)
         \/ Desk!Enter(c) \/ Desk!Cancel(c) \/ Desk!Answer(c)
  PROVE  DeskSafe'
<1>1. /\ UNCHANGED <<slot, assets, beside, denoise, loaded, loadedId, loads, overlap, stale, got, output, moved,
                     fetch, running>>
      /\ req' \in [Convs -> Desked] /\ thread' \in [Convs -> ThreadSteps]
      /\ temp' \subseteq Convs /\ lock' \in Convs \cup {None}
  BY RequestMoves DEF Desk!fileVars, Desk!modelVars, Desk!fetchVars
<1>2. \A d \in Convs \ {c} : req'[d] = req[d] /\ thread'[d] = thread[d] /\ (d \in temp' <=> d \in temp)
  BY RequestMoves
<1>3. /\ thread[c] # "none" =>
           /\ thread'[c] = thread[c] /\ req'[c].slot = req[c].slot /\ req'[c].mode = req[c].mode
           /\ req'[c].content = req[c].content /\ (c \in temp' => c \in temp)
      /\ thread[c] = "none" => thread'[c] \in {"none", "look"}
  BY RequestMoves
<1>4. /\ c \in temp' => req'[c].at \in {"upload", "wait", "convert", "cut"}
      /\ req'[c].at \in {"upload", "wait", "convert"} => c \in temp'
      /\ req'[c].at \in {"idle", "assets", "upload", "wait", "cut"} => thread'[c] = "none"
      /\ req'[c].at = "answered" => thread'[c] = "done"
      /\ req'[c].at = "refused" => thread'[c] \in {"none", "unavailable"}
      /\ req'[c].at = "error" => thread'[c] = "failed"
      /\ req'[c].at # "idle" => req'[c].slot \in Slots
  BY RequestMoves
<1>5. req'[c].at = "upload" \/ req'[c].at = "wait" \/ thread'[c] # "none" =>
        \/ /\ req[c].at \in {"upload", "wait"} \/ thread[c] # "none"
           /\ ModeOf(c)' = ModeOf(c)
        \/ Desk!Missing = {} /\ (ModeOf(c)' = "dtln" => Desk!Paired)
  BY RequestMoves
<1>6. FilesTyped /\ ConvsTyped /\ Paced /\ Seated /\ Fresh /\ StillThere /\ Desk!CheckEnough
  BY DEF DeskSafe
<1>7. FilesTyped' /\ ConvsTyped'
  BY <1>1, <1>6 DEF FilesTyped, ConvsTyped
<1>8. Paced'
  BY <1>1, <1>2, <1>3, <1>4, <1>6 DEF Paced, Unwritten, Desk!Over
<1>9. Seated'
  <2>1. \A d \in Convs : thread'[d] \in {"load", "name"} <=> thread[d] \in {"load", "name"}
    BY <1>2, <1>3
  <2>2. \A d \in Convs : thread'[d] = "name" <=> thread[d] = "name"
    BY <1>2, <1>3
  <2>3. \A d \in Convs : (got[d] # None \/ thread[d] = "name") => req'[d].slot = req[d].slot
    BY <1>2, <1>3, <1>6 DEF Paced
  <2> QED
    BY <1>1, <1>6, <2>1, <2>2, <2>3 DEF Seated
<1>10. (\A s : Desk!Chosen(s)' = Desk!Chosen(s)) /\ Desk!Missing' = Desk!Missing /\ (Desk!Paired' <=> Desk!Paired)
  BY <1>1, ChosenStays DEF Desk!Chosen
<1>11. Fresh'
  BY <1>1, <1>6, <1>10 DEF Fresh
<1>12. StillThere'
  <2>1. ASSUME NEW d \in Convs \ moved, d # c
        PROVE  /\ req'[d].at = "upload" \/ req'[d].at = "wait" \/ thread'[d] # "none" =>
                    Desk!Missing' = {} /\ (ModeOf(d)' = "dtln" => Desk!Paired')
               /\ thread'[d] # "unavailable"
    BY <1>1, <1>2, <1>6, <1>10, <2>1 DEF StillThere, ModeOf
  <2>2. ASSUME c \notin moved
        PROVE  /\ req'[c].at = "upload" \/ req'[c].at = "wait" \/ thread'[c] # "none" =>
                    Desk!Missing' = {} /\ (ModeOf(c)' = "dtln" => Desk!Paired')
               /\ thread'[c] # "unavailable"
    BY <1>3, <1>5, <1>6, <1>10, <2>2 DEF StillThere
  <2> QED
    BY <1>1, <2>1, <2>2 DEF StillThere, ModeOf
<1>13. Desk!CheckEnough'
  BY <1>1, <1>2, <1>3, <1>4, <1>6, <1>10 DEF Desk!CheckEnough, Paced
<1> QED
  BY <1>7, <1>8, <1>9, <1>11, <1>12, <1>13 DEF DeskSafe

\* A request whose thread runs waits for it or has gone.
LEMMA Runs ==
  ASSUME DeskSafe, NEW c \in Convs, thread[c] \in {"look", "load", "name", "denoiser", "read", "write"}
  PROVE  req[c] \in Desked /\ req[c].at \in {"convert", "gone"} /\ req[c].slot \in Slots
  BY DEF DeskSafe, ConvsTyped, Paced, Desked, Desk!Over

\* A step of a thread leaves the requests and the files, and moves this thread alone.
LEMMA ThreadPaced ==
  ASSUME Desk!VoiceDeskAssumption, DeskSafe, NEW c \in Convs,
         thread[c] \in {"look", "load", "name", "denoiser", "read", "write"},
         UNCHANGED <<req, temp>>,
         thread' \in [Convs -> ThreadSteps], thread'[c] # "none",
         \A d \in Convs \ {c} : thread'[d] = thread[d] /\ output'[d] = output[d] /\ got'[d] = got[d],
         thread'[c] \in Unwritten \cup {"unavailable"} => output'[c] = None,
         thread'[c] = "write" => output'[c] \in {None, "part"},
         thread'[c] = "done" <=> output'[c] = "whole",
         thread'[c] \in {"denoiser", "read", "write", "done"} => got'[c] # None
  PROVE  Paced'
<1>1. req[c].at \in {"convert", "gone"}
  BY Runs
<1>2. Paced
  BY DEF DeskSafe
<1> QED
  BY <1>1, <1>2 DEF Paced, Desk!Over

LEMMA ThreadStill ==
  ASSUME DeskSafe, NEW c \in Convs, thread[c] # "none",
         UNCHANGED <<slot, assets, denoise, req, temp, moved>>,
         \A d \in Convs \ {c} : thread'[d] = thread[d] /\ output'[d] = output[d],
         c \notin moved => thread'[c] # "unavailable",
         thread'[c] = "failed" /\ output'[c] = None =>
           \/ c \in moved \/ c \notin temp \/ req[c].content # "audio"
           \/ ~Desk!Loadable(Desk!Chosen(req[c].slot))
  PROVE  StillThere' /\ Desk!CheckEnough'
<1>1. (\A s : Desk!Chosen(s)' = Desk!Chosen(s)) /\ Desk!Missing' = Desk!Missing /\ (Desk!Paired' <=> Desk!Paired)
  BY ChosenStays DEF Desk!Chosen
<1>2. StillThere /\ Desk!CheckEnough
  BY DEF DeskSafe
<1>3. StillThere'
  BY <1>1, <1>2 DEF StillThere, ModeOf
<1>4. Desk!CheckEnough'
  BY <1>1, <1>2 DEF Desk!CheckEnough
<1> QED
  BY <1>3, <1>4

LEMMA LookSafe ==
  ASSUME Desk!VoiceDeskAssumption, DeskSafe, NEW c \in Convs, Desk!LookLoaded(c)
  PROVE  DeskSafe'
<1> USE DeskKnown
<1>1. /\ thread[c] = "look" /\ overlap' = (overlap \/ loads # {})
      /\ UNCHANGED <<slot, assets, beside, denoise, loaded, loadedId, stale, lock, req, temp, output, moved, fetch, running>>
  BY DEF Desk!LookLoaded, Desk!fileVars, Desk!fetchVars
<1>2. \/ /\ loadedId = req[c].slot /\ loaded # None /\ thread' = [thread EXCEPT ![c] = "denoiser"]
         /\ got' = [got EXCEPT ![c] = loaded] /\ loads' = loads
      \/ thread' = [thread EXCEPT ![c] = "load"] /\ got' = got /\ loads' = loads \cup {c}
  BY DEF Desk!LookLoaded, Desk!Step
<1>3. FilesTyped /\ ConvsTyped /\ Paced /\ Seated /\ Fresh /\ StillThere /\ Desk!CheckEnough
  BY DEF DeskSafe
<1>4. /\ \A d \in Convs \ {c} : thread'[d] = thread[d] /\ output'[d] = output[d] /\ got'[d] = got[d]
      /\ \/ loadedId = req[c].slot /\ loaded # None /\ thread'[c] = "denoiser" /\ got'[c] = loaded
         \/ thread'[c] = "load" /\ got'[c] = got[c] /\ loads' = loads \cup {c}
  BY <1>1, <1>2, <1>3 DEF ConvsTyped
<1>5. FilesTyped' /\ ConvsTyped'
  <2>1. thread' \in [Convs -> ThreadSteps] /\ got' \in [Convs -> Loads \cup {None}] /\ loads' \subseteq Convs
        /\ overlap' \in BOOLEAN
    BY <1>1, <1>2, <1>3 DEF ConvsTyped, ThreadSteps, Unwritten
  <2> QED
    BY <1>1, <1>3, <2>1 DEF FilesTyped, ConvsTyped
<1>6. output[c] = None /\ output'[c] = None
  BY <1>1, <1>3 DEF Paced, Unwritten
<1>7. Paced'
  BY <1>1, <1>4, <1>5, <1>6, ThreadPaced DEF Unwritten, ConvsTyped
<1>8. StillThere' /\ Desk!CheckEnough'
  BY <1>1, <1>4, ThreadStill
<1>9. Fresh'
  <2>1. \A s : Desk!Chosen(s)' = Desk!Chosen(s)
    BY <1>1 DEF Desk!Chosen
  <2>2. \A d \in Convs : got'[d] = got[d] \/ got'[d] = loaded
    BY <1>4
  <2> QED
    BY <1>1, <1>3, <2>1, <2>2 DEF Fresh
<1>10. Seated'
  <2>1. loads = {d \in Convs : thread[d] \in {"load", "name"}}
    BY <1>3 DEF Seated
  <2>2. loads' = {d \in Convs : thread'[d] \in {"load", "name"}}
    BY <1>1, <1>2, <1>3, <2>1 DEF ConvsTyped
  <2>3. \A d \in Convs : thread'[d] = "name" => loaded' # None
    BY <1>1, <1>3, <1>4 DEF Seated
  <2>4. ASSUME ~overlap'
        PROVE  /\ \A d, e \in loads' : d = e
               /\ \A d \in Convs : thread'[d] = "name" => loaded'.slot = req'[d].slot
               /\ (\A d \in Convs : thread'[d] # "name") /\ loaded' # None => loadedId' = loaded'.slot
               /\ \A d \in Convs : got'[d] # None => got'[d].slot = req'[d].slot
    <3>1. ~overlap /\ loads = {}
      BY <1>1, <1>3, <2>4 DEF ConvsTyped
    <3>2. \A d \in Convs : thread[d] # "name"
      BY <2>1, <3>1
    <3>3. loaded # None => loadedId = loaded.slot
      BY <1>3, <3>1, <3>2 DEF Seated
    <3>4. \A d \in Convs : thread'[d] # "name"
      BY <1>4, <3>2
    <3>5. \A d, e \in loads' : d = e
      BY <1>2, <3>1
    <3>6. \A d \in Convs : got'[d] # None => got'[d].slot = req'[d].slot
      BY <1>1, <1>3, <1>4, <3>1, <3>3 DEF Seated
    <3> QED
      BY <1>1, <3>3, <3>4, <3>5, <3>6
  <2> QED
    BY <2>2, <2>3, <2>4 DEF Seated
<1> QED
  BY <1>5, <1>7, <1>8, <1>9, <1>10 DEF DeskSafe

LEMMA LoadSafe ==
  ASSUME Desk!VoiceDeskAssumption, DeskSafe, NEW c \in Convs, Desk!LoadModel(c)
  PROVE  DeskSafe'
<1> USE DeskKnown
<1>1. /\ thread[c] = "load"
      /\ UNCHANGED <<slot, assets, beside, denoise, loadedId, overlap, lock, req, got, temp, output, moved, fetch, running>>
  BY DEF Desk!LoadModel, Desk!fileVars, Desk!fetchVars
<1>2. \/ /\ \/ Desk!Missing # {} /\ thread' = [thread EXCEPT ![c] = "unavailable"]
            \/ ~Desk!Loadable(Desk!Chosen(req[c].slot)) /\ thread' = [thread EXCEPT ![c] = "failed"]
         /\ loads' = loads \ {c} /\ UNCHANGED <<loaded, stale>>
      \/ /\ thread' = [thread EXCEPT ![c] = "name"] /\ Desk!Chosen(req[c].slot) = Desk!Weights[1]
         /\ loaded' = [slot |-> req[c].slot, file |-> Desk!Weights[1]]
         /\ stale' = stale \ {req[c].slot} /\ loads' = loads
  BY DEF Desk!LoadModel, Desk!Step, Desk!Loadable
<1>3. FilesTyped /\ ConvsTyped /\ Paced /\ Seated /\ Fresh /\ StillThere /\ Desk!CheckEnough
  BY DEF DeskSafe
<1>4. req[c].slot \in Slots
  BY <1>1, Runs
<1>5. /\ \A d \in Convs \ {c} : thread'[d] = thread[d] /\ output'[d] = output[d] /\ got'[d] = got[d]
      /\ \/ /\ Desk!Missing # {} /\ thread'[c] = "unavailable"
            /\ loads' = loads \ {c} /\ UNCHANGED <<loaded, stale>>
         \/ /\ ~Desk!Loadable(Desk!Chosen(req[c].slot)) /\ thread'[c] = "failed"
            /\ loads' = loads \ {c} /\ UNCHANGED <<loaded, stale>>
         \/ /\ thread'[c] = "name" /\ Desk!Chosen(req[c].slot) = Desk!Weights[1]
            /\ loaded' = [slot |-> req[c].slot, file |-> Desk!Weights[1]]
            /\ stale' = stale \ {req[c].slot} /\ loads' = loads
  BY <1>1, <1>2, <1>3 DEF ConvsTyped
<1>6. FilesTyped' /\ ConvsTyped'
  <2>1. thread' \in [Convs -> ThreadSteps] /\ loads' \subseteq Convs /\ stale' \subseteq Slots
    BY <1>1, <1>2, <1>3 DEF ConvsTyped, ThreadSteps, Unwritten
  <2>2. loaded' \in Loads \cup {None}
    BY <1>2, <1>3, <1>4 DEF ConvsTyped, Loads
  <2> QED
    BY <1>1, <1>3, <2>1, <2>2 DEF FilesTyped, ConvsTyped
<1>7. output[c] = None /\ output'[c] = None
  BY <1>1, <1>3 DEF Paced, Unwritten
<1>8. Paced'
  BY <1>1, <1>5, <1>6, <1>7, ThreadPaced DEF Unwritten, ConvsTyped
<1>9. StillThere' /\ Desk!CheckEnough'
  <2>1. c \notin moved => Desk!Missing = {}
    BY <1>1, <1>3 DEF StillThere
  <2> QED
    BY <1>1, <1>5, <2>1, ThreadStill
<1>10. Fresh'
  <2>1. \A s : Desk!Chosen(s)' = Desk!Chosen(s)
    BY <1>1 DEF Desk!Chosen
  <2>2. ASSUME NEW m \in Loads, m.slot \in stale \/ Desk!Chosen(m.slot) = m.file
        PROVE  m.slot \in stale' \/ Desk!Chosen(m.slot) = m.file
    <3>1. m.file = Desk!Weights[1]
      BY DEF Loads
    <3> QED
      BY <1>5, <2>2, <3>1
  <2>3. loaded' = loaded \/ (loaded' # None => Desk!Chosen(loaded'.slot) = loaded'.file)
    BY <1>5
  <2> QED
    BY <1>1, <1>3, <2>1, <2>2, <2>3 DEF Fresh, ConvsTyped
<1>11. Seated'
  <2>1. loads = {d \in Convs : thread[d] \in {"load", "name"}}
    BY <1>3 DEF Seated
  <2>2. loads' = {d \in Convs : thread'[d] \in {"load", "name"}}
    BY <1>1, <1>2, <1>3, <2>1 DEF ConvsTyped
  <2>3. \A d \in Convs : thread'[d] = "name" => loaded' # None
    BY <1>3, <1>4, <1>5 DEF Seated, Loads
  <2>4. ASSUME ~overlap'
        PROVE  /\ \A d, e \in loads' : d = e
               /\ \A d \in Convs : thread'[d] = "name" => loaded'.slot = req'[d].slot
               /\ (\A d \in Convs : thread'[d] # "name") /\ loaded' # None => loadedId' = loaded'.slot
               /\ \A d \in Convs : got'[d] # None => got'[d].slot = req'[d].slot
    <3>1. ~overlap /\ c \in loads /\ \A d, e \in loads : d = e
      BY <1>1, <1>3, <2>1, <2>4 DEF Seated
    <3>2. \A d \in Convs : thread[d] # "name"
      BY <1>1, <2>1, <3>1
    <3>3. loaded # None => loadedId = loaded.slot
      BY <1>3, <3>1, <3>2 DEF Seated
    <3>4. \A d \in Convs : thread'[d] = "name" => d = c
      BY <1>5, <3>2
    <3>5. \A d, e \in loads' : d = e
      BY <1>2, <3>1
    <3>6. \A d \in Convs : got'[d] # None => got'[d].slot = req'[d].slot
      BY <1>1, <1>3, <3>1 DEF Seated
    <3> QED
      BY <1>1, <1>5, <3>3, <3>4, <3>5, <3>6
  <2> QED
    BY <2>2, <2>3, <2>4 DEF Seated
<1> QED
  BY <1>6, <1>8, <1>9, <1>10, <1>11 DEF DeskSafe

LEMMA NameSafe ==
  ASSUME Desk!VoiceDeskAssumption, DeskSafe, NEW c \in Convs, Desk!NameModel(c)
  PROVE  DeskSafe'
<1> USE DeskKnown
<1>1. /\ thread[c] = "name" /\ loadedId' = req[c].slot /\ got' = [got EXCEPT ![c] = loaded]
      /\ thread' = [thread EXCEPT ![c] = "denoiser"] /\ loads' = loads \ {c}
      /\ UNCHANGED <<slot, assets, beside, denoise, loaded, overlap, stale, lock, req, temp, output, moved, fetch, running>>
  BY DEF Desk!NameModel, Desk!Step, Desk!fileVars, Desk!fetchVars
<1>2. FilesTyped /\ ConvsTyped /\ Paced /\ Seated /\ Fresh /\ StillThere /\ Desk!CheckEnough
  BY DEF DeskSafe
<1>3. req[c].slot \in Slots /\ loaded # None
  BY <1>1, <1>2, Runs DEF Seated
<1>4. /\ \A d \in Convs \ {c} : thread'[d] = thread[d] /\ output'[d] = output[d] /\ got'[d] = got[d]
      /\ thread'[c] = "denoiser" /\ got'[c] = loaded
  BY <1>1, <1>2 DEF ConvsTyped
<1>5. FilesTyped' /\ ConvsTyped'
  <2>1. thread' \in [Convs -> ThreadSteps] /\ loads' \subseteq Convs /\ got' \in [Convs -> Loads \cup {None}]
    BY <1>1, <1>2 DEF ConvsTyped, ThreadSteps, Unwritten
  <2> QED
    BY <1>1, <1>2, <1>3, <2>1 DEF FilesTyped, ConvsTyped
<1>6. output[c] = None /\ output'[c] = None
  BY <1>1, <1>2 DEF Paced, Unwritten
<1>7. Paced'
  BY <1>1, <1>3, <1>4, <1>5, <1>6, ThreadPaced DEF Unwritten, ConvsTyped
<1>8. StillThere' /\ Desk!CheckEnough'
  BY <1>1, <1>4, ThreadStill
<1>9. Fresh'
  <2>1. \A s : Desk!Chosen(s)' = Desk!Chosen(s)
    BY <1>1 DEF Desk!Chosen
  <2>2. \A d \in Convs : got'[d] = got[d] \/ got'[d] = loaded
    BY <1>4
  <2> QED
    BY <1>1, <1>2, <2>1, <2>2 DEF Fresh
<1>10. Seated'
  <2>1. loads = {d \in Convs : thread[d] \in {"load", "name"}}
    BY <1>2 DEF Seated
  <2>2. loads' = {d \in Convs : thread'[d] \in {"load", "name"}}
    BY <1>1, <1>2, <2>1 DEF ConvsTyped
  <2>3. \A d \in Convs : thread'[d] = "name" => loaded' # None
    BY <1>1, <1>3
  <2>4. ASSUME ~overlap'
        PROVE  /\ \A d, e \in loads' : d = e
               /\ \A d \in Convs : thread'[d] = "name" => loaded'.slot = req'[d].slot
               /\ (\A d \in Convs : thread'[d] # "name") /\ loaded' # None => loadedId' = loaded'.slot
               /\ \A d \in Convs : got'[d] # None => got'[d].slot = req'[d].slot
    <3>1. ~overlap /\ c \in loads /\ \A d, e \in loads : d = e
      BY <1>1, <1>2, <2>1, <2>4 DEF Seated
    <3>2. loaded.slot = req[c].slot
      BY <1>1, <1>2, <3>1 DEF Seated
    <3>3. \A d \in Convs : thread'[d] = "name" => d \in loads /\ d # c
      BY <1>4, <2>1
    <3>4. \A d, e \in loads' : d = e
      BY <1>1, <3>1
    <3>5. \A d \in Convs : got'[d] # None => got'[d].slot = req'[d].slot
      BY <1>1, <1>2, <1>4, <3>1, <3>2 DEF Seated
    <3> QED
      BY <1>1, <3>1, <3>2, <3>3, <3>4, <3>5
  <2> QED
    BY <2>2, <2>3, <2>4 DEF Seated
<1> QED
  BY <1>5, <1>7, <1>8, <1>9, <1>10 DEF DeskSafe

\* The rest of a thread uses the model it got.
LEMMA ConvertSafe ==
  ASSUME Desk!VoiceDeskAssumption, DeskSafe, NEW c \in Convs,
         Desk!FindDenoiser(c) \/ Desk!ReadUpload(c) \/ Desk!WriteOutput(c)
  PROVE  DeskSafe'
<1> USE DeskKnown
<1>1. UNCHANGED <<slot, assets, beside, denoise, loaded, loadedId, loads, overlap, stale, lock, req, got, temp, moved,
                  fetch, running>>
  BY DEF Desk!FindDenoiser, Desk!ReadUpload, Desk!WriteOutput, Desk!fileVars, Desk!modelVars, Desk!fetchVars
<1>2. FilesTyped /\ ConvsTyped /\ Paced /\ Seated /\ Fresh /\ StillThere /\ Desk!CheckEnough
  BY DEF DeskSafe
<1>3. /\ thread' \in [Convs -> ThreadSteps] /\ output' \in [Convs -> {None, "part", "whole"}]
      /\ thread[c] \in {"denoiser", "read", "write"} /\ thread'[c] \in {"read", "write", "done", "failed"}
      /\ \A d \in Convs \ {c} : thread'[d] = thread[d] /\ output'[d] = output[d]
      /\ thread'[c] = "read" => output'[c] = None
      /\ thread'[c] = "write" => output'[c] \in {None, "part"}
      /\ thread'[c] = "done" <=> output'[c] = "whole"
      /\ thread'[c] = "failed" /\ output'[c] = None =>
           (req[c].mode = "dtln" /\ ~Desk!Paired) \/ c \notin temp \/ req[c].content # "audio"
  <2>1. CASE Desk!FindDenoiser(c)
    <3>1. thread[c] = "denoiser" /\ output[c] = None /\ output' = output
      BY <1>2, <2>1 DEF Desk!FindDenoiser, Paced, Unwritten
    <3>2. \/ thread' = [thread EXCEPT ![c] = "failed"] /\ req[c].mode = "dtln" /\ ~Desk!Paired
          \/ thread' = [thread EXCEPT ![c] = "read"]
      BY <2>1 DEF Desk!FindDenoiser, Desk!Step
    <3> QED
      BY <1>2, <3>1, <3>2 DEF ConvsTyped, ThreadSteps, Unwritten
  <2>2. CASE Desk!ReadUpload(c)
    <3>1. thread[c] = "read" /\ output[c] = None /\ output' = output
      BY <1>2, <2>2 DEF Desk!ReadUpload, Paced, Unwritten
    <3>2. \/ thread' = [thread EXCEPT ![c] = "failed"] /\ (c \notin temp \/ req[c].content # "audio")
          \/ thread' = [thread EXCEPT ![c] = "write"]
      BY <2>2 DEF Desk!ReadUpload, Desk!Step
    <3> QED
      BY <1>2, <3>1, <3>2 DEF ConvsTyped, ThreadSteps, Unwritten
  <2>3. CASE Desk!WriteOutput(c)
    <3>1. thread[c] = "write"
      BY <2>3 DEF Desk!WriteOutput
    <3>2. \/ output[c] = None /\ output' = [output EXCEPT ![c] = "part"] /\ thread' = thread
          \/ output[c] = "part" /\ output' = [output EXCEPT ![c] = "whole"] /\ thread' = [thread EXCEPT ![c] = "done"]
          \/ output[c] = "part" /\ output' = output /\ thread' = [thread EXCEPT ![c] = "failed"]
      BY <2>3 DEF Desk!WriteOutput, Desk!Step
    <3> QED
      BY <1>2, <3>1, <3>2 DEF ConvsTyped, ThreadSteps, Unwritten
  <2> QED
    BY <2>1, <2>2, <2>3
<1>4. FilesTyped' /\ ConvsTyped'
  BY <1>1, <1>2, <1>3 DEF FilesTyped, ConvsTyped
<1>5. Paced'
  <2>1. got'[c] # None
    BY <1>1, <1>2, <1>3 DEF Paced
  <2> QED
    BY <1>1, <1>3, <2>1, ThreadPaced DEF Unwritten
<1>6. StillThere' /\ Desk!CheckEnough'
  <2>1. c \notin moved => (req[c].mode = "dtln" => Desk!Paired)
    BY <1>2, <1>3 DEF StillThere, ModeOf
  <2> QED
    BY <1>1, <1>3, <2>1, ThreadStill
<1>7. Fresh'
  BY <1>1, <1>2, ChosenStays DEF Fresh, Desk!Chosen
<1>8. Seated'
  <2>1. \A d \in Convs : /\ thread'[d] \in {"load", "name"} <=> thread[d] \in {"load", "name"}
                         /\ thread'[d] = "name" <=> thread[d] = "name"
    BY <1>3
  <2> QED
    BY <1>1, <1>2, <2>1 DEF Seated
<1> QED
  BY <1>4, <1>5, <1>6, <1>7, <1>8 DEF DeskSafe

LEMMA DeskStep ==
  ASSUME Desk!VoiceDeskAssumption, DeskSafe, Desk!Next PROVE DeskSafe'
<1>1. CASE \/ \E s \in Slots, files \in SlotFiles \cup {{}} : Desk!ChangeSlot(s, files)
           \/ \E files \in AssetSets : Desk!ChangeAssets(files)
           \/ Desk!ChangeDenoise
  BY <1>1, FilesSafe
<1>2. CASE (\E optional \in BOOLEAN : Desk!PostFetch(optional)) \/ Desk!FetchEnds
  BY <1>2, FetchSafe
<1>3. ASSUME NEW c \in Convs,
             \/ \E s \in Slots, m \in {None, "dtln"}, content \in {"audio", "corrupt"} : Desk!Post(c, s, m, content)
             \/ Desk!CheckAssets(c) \/ Desk!RefuseUpload(c) \/ Desk!Stored(c) \/ Desk!CutUpload(c)
             \/ Desk!Enter(c) \/ Desk!Cancel(c) \/ Desk!Answer(c)
      PROVE  DeskSafe'
  BY <1>3, RequestSafe
<1>4. ASSUME NEW c \in Convs,
             \/ Desk!LookLoaded(c) \/ Desk!LoadModel(c) \/ Desk!NameModel(c)
             \/ Desk!FindDenoiser(c) \/ Desk!ReadUpload(c) \/ Desk!WriteOutput(c)
      PROVE  DeskSafe'
  BY <1>4, LookSafe, LoadSafe, NameSafe, ConvertSafe
<1> QED
  BY <1>1, <1>2, <1>3, <1>4 DEF Desk!Next

LEMMA DeskRests == DeskSafe /\ UNCHANGED deskVars => DeskSafe'
<1> SUFFICES ASSUME DeskSafe, UNCHANGED deskVars PROVE DeskSafe'
  OBVIOUS
<1>1. UNCHANGED <<slot, assets, beside, denoise, loaded, loadedId, loads, overlap, stale, lock, req, thread,
                  got, temp, output, moved, fetch, running>>
  BY DEF deskVars
<1>2. FilesTyped' /\ ConvsTyped' /\ Paced' /\ Seated'
  BY <1>1 DEF DeskSafe, FilesTyped, ConvsTyped, Paced, Seated
<1>3. Fresh' /\ StillThere' /\ Desk!CheckEnough'
  BY <1>1, ChosenStays DEF DeskSafe, Fresh, StillThere, ModeOf, Desk!CheckEnough, Desk!Chosen
<1> QED
  BY <1>2, <1>3 DEF DeskSafe

LEMMA DeskTrue ==
  ASSUME Desk!VoiceDeskAssumption, DeskSafe
  PROVE  /\ Desk!UploadsGone /\ Desk!AnsweredWhole /\ Desk!CheckEnough /\ Desk!TypeOK
<1> USE DeskKnown
<1>1. FilesTyped /\ ConvsTyped /\ Paced /\ Seated /\ Fresh /\ Desk!CheckEnough
  BY DEF DeskSafe
<1>2. Desk!UploadsGone
  BY <1>1 DEF Desk!UploadsGone, Paced
<1>3. Desk!AnsweredWhole
  <2>1. ASSUME NEW c \in Convs, req[c].at = "answered"
        PROVE  /\ output[c] = "whole"
               /\ overlap \/ (got[c].slot = req[c].slot
                              /\ (got[c].file = Desk!Chosen(req[c].slot) \/ req[c].slot \in stale \/ c \in moved))
    BY <1>1, <2>1 DEF Paced, Seated, Fresh, ConvsTyped
  <2>2. ASSUME NEW c \in Convs, req[c].at \in {"refused", "error", "cut"} PROVE output[c] # "whole"
    BY <1>1, <2>2 DEF Paced
  <2> QED
    BY <2>1, <2>2 DEF Desk!AnsweredWhole
<1>4. Desk!TypeOK
  BY <1>1 DEF Desk!TypeOK, FilesTyped, ConvsTyped, Desked, Loads, ThreadSteps, Unwritten
<1> QED
  BY <1>1, <1>2, <1>3, <1>4

-----------------------------------------------------------------------------
(* The models that threads share.  Each open of an extractor uses up the   *)
(* pair of its thread and the one that made it, so that there are no more  *)
(* opens than pairs; a model that one thread at a time opened is whole or  *)
(* is opened again.                                                        *)

LEMMA SharedCardinality == \A S : Extract!Cardinality(S) = Cardinality(S) /\ Extract!IsFiniteSet(S) = IsFiniteSet(S)
  BY DEF Extract!Cardinality, Extract!IsFiniteSet, Cardinality, IsFiniteSet

\* What the fields of a thread and of a model can be.
PassTyped ==
  /\ opens \in [Extract!Models -> Nat] /\ faults \in Nat /\ cache \in Threads \cup {None} /\ doubled \subseteq Extract!Models
  /\ mine \in [Threads -> Threads \cup {None}]
  /\ passer \in [Threads -> [at : {"idle", "look", "keep", "open", "run", "failed"}, model : 1..3, field : Nat, passes : Nat]]
  /\ fields \in [Extract!Models -> [Threads \cup {None} -> SUBSET {"session_1", "session_2", "io", "state", "session", "names", "input", "impl"}]]
  /\ \A m \in Extract!Models, o \in Threads \cup {None} : fields[m][o] \subseteq Extract!ToSet(Extract!Fields(m))
  /\ \A t \in Threads : passer[t].at = "open" => passer[t].field \in 1..Len(Extract!Fields(Extract!Model(t)))
  /\ faults <= MaxFaults

\* An extractor is in hand while a pass is at the pitch; it has been kept, it is not
\* another's that has this one's, and who has another's does not keep one any more.
InHand(t) ==
  /\ mine[t] # None => /\ passer[t].at \in {"look", "open", "run"} /\ Extract!Model(t) = "pitch"
                       /\ cache # None /\ passer[mine[t]].at # "keep"
  /\ Extract!Model(t) = "pitch" /\ passer[t].at \in {"open", "run"} => mine[t] # None
  /\ Extract!Model(t) = "pitch" /\ passer[t].at = "run" => fields["pitch"][mine[t]] = {"impl"}
  /\ passer[t].at = "keep" => Extract!Model(t) = "pitch" /\ mine[t] = None /\ fields["pitch"][t] = {}
  /\ fields["pitch"][t] # {} => cache # None
  /\ passer[t].at = "failed" => Extract!Model(t) # "pitch"
  /\ mine[t] \notin {None, t} => cache # t /\ mine[mine[t]] # t
HandsSafe ==
  /\ cache # None => passer[cache].at # "keep"
  /\ \A t \in Threads : InHand(t)

\* Thread t opens the extractor of o, and may come to do so.
OpensOf(t, o) == passer[t].at = "open" /\ mine[t] = o
MayOpen(t, o) ==
  /\ fields["pitch"][o] = {} /\ ~OpensOf(t, o)
  /\ mine[t] = o \/ cache \in {o, None} \/ passer[o].at = "keep"
Pairs == {{t, o} : t \in Threads, o \in Threads}
PairsLeft == {p \in Pairs : \E t, o \in Threads : p = {t, o} /\ MayOpen(t, o)}
PitchOpened == opens["pitch"] + Cardinality(PairsLeft) <= Cardinality(Pairs) + faults

\* The field after which a model is taken to be open.
LastLook(m) == IF m = "denoiser" THEN 2 ELSE 1

\* A model that only one thread opened at a time.
OpenedAlone(m) ==
  /\ \A t, u \in Extract!Opening(m) : t = u
  /\ opens[m] <= faults + 1
  /\ Extract!Opening(m) = {} /\ ~(Extract!Looks(m) \subseteq fields[m][None]) => opens[m] <= faults
  /\ \A t \in Threads : passer[t].at = "run" /\ Extract!Model(t) = m => fields[m][None] = Extract!ToSet(Extract!Fields(m))
  /\ Extract!Fields(m)[LastLook(m)] \in fields[m][None] => Extract!Looks(m) \subseteq fields[m][None]
  /\ Extract!Opening(m) = {} /\ Extract!Looks(m) \subseteq fields[m][None] => fields[m][None] = Extract!ToSet(Extract!Fields(m))
  /\ \A t \in Extract!Opening(m) :
       /\ \A j \in 1..(passer[t].field - 1) : Extract!Fields(m)[j] \in fields[m][None]
       /\ passer[t].field <= LastLook(m) => Extract!Fields(m)[LastLook(m)] \notin fields[m][None]
SharedSafe == \A m \in {"denoiser", "content"} \ doubled : OpenedAlone(m)
FailedRaced == \A t \in Threads : passer[t].at = "failed" => Extract!Model(t) \in doubled

ExtractSafe == PassTyped /\ HandsSafe /\ PitchOpened /\ SharedSafe /\ FailedRaced

LEMMA FieldsAre ==
  /\ Extract!Models = {"denoiser", "content", "pitch"}
  /\ Len(Extract!Order) = 3 /\ Extract!Order[1] = "denoiser" /\ Extract!Order[2] = "content" /\ Extract!Order[3] = "pitch"
  /\ Extract!Fields("denoiser") = <<"session_1", "session_2", "io", "state">> /\ Len(Extract!Fields("denoiser")) = 4
  /\ Extract!ToSet(Extract!Fields("denoiser")) = {"session_1", "session_2", "io", "state"}
  /\ Extract!Fields("content") = <<"session", "names", "input">> /\ Len(Extract!Fields("content")) = 3
  /\ Extract!ToSet(Extract!Fields("content")) = {"session", "names", "input"}
  /\ Extract!Fields("pitch") = <<"impl">> /\ Len(Extract!Fields("pitch")) = 1 /\ Extract!ToSet(Extract!Fields("pitch")) = {"impl"}
  /\ Extract!Looks("denoiser") = {"session_1", "session_2"} /\ Extract!Looks("content") = {"session"} /\ Extract!Looks("pitch") = {"impl"}
<1>1. Extract!Order = <<"denoiser", "content", "pitch">>
  BY DEF Extract!Order
<1>2. Extract!Models = {"denoiser", "content", "pitch"}
  BY <1>1 DEF Extract!Models, Extract!ToSet
<1>3. /\ Extract!Fields("denoiser") = <<"session_1", "session_2", "io", "state">>
      /\ Extract!Fields("content") = <<"session", "names", "input">>
      /\ Extract!Fields("pitch") = <<"impl">>
  BY DEF Extract!Fields
<1>4. /\ Extract!ToSet(Extract!Fields("denoiser")) = {"session_1", "session_2", "io", "state"} /\ Len(Extract!Fields("denoiser")) = 4
      /\ Extract!ToSet(Extract!Fields("content")) = {"session", "names", "input"} /\ Len(Extract!Fields("content")) = 3
      /\ Extract!ToSet(Extract!Fields("pitch")) = {"impl"} /\ Len(Extract!Fields("pitch")) = 1
  BY <1>3 DEF Extract!ToSet
<1>5. Head(Extract!Fields("content")) = "session" /\ Head(Extract!Fields("pitch")) = "impl"
  BY <1>3
<1> QED
  BY <1>1, <1>2, <1>3, <1>4, <1>5 DEF Extract!Looks

LEMMA PairsFinite ==
  ASSUME Extract!ExtractAssumption
  PROVE  /\ IsFiniteSet(Pairs) /\ IsFiniteSet(PairsLeft) /\ Cardinality(PairsLeft) \in Nat /\ Cardinality(Pairs) \in Nat
         /\ Cardinality(PairsLeft) <= Cardinality(Pairs)
<1>1. IsFiniteSet(SUBSET Threads)
  BY FS_SUBSET, SharedCardinality DEF Extract!ExtractAssumption
<1>2. Pairs \subseteq SUBSET Threads
  BY DEF Pairs
<1>3. IsFiniteSet(Pairs)
  BY <1>1, <1>2, FS_Subset
<1>4. PairsLeft \in SUBSET Pairs
  BY DEF PairsLeft
<1> QED
  BY <1>3, <1>4, FS_Subset, FS_CardinalityType

LEMMA ExtractInit ==
  ASSUME Extract!ExtractAssumption, Extract!Init
  PROVE  ExtractSafe
<1> USE FieldsAre DEF Extract!ExtractAssumption, Extract!Init
<1>1. PassTyped
  BY DEF PassTyped
<1>2. HandsSafe
  BY DEF HandsSafe, InHand
<1>3. PitchOpened
  <2>1. opens["pitch"] = 0
    OBVIOUS
  <2> QED
    BY <2>1, PairsFinite DEF PitchOpened
<1>4. SharedSafe
  <2>1. ASSUME NEW m \in {"denoiser", "content"}
        PROVE  Extract!Opening(m) = {} /\ fields[m][None] = {} /\ opens[m] = 0
    BY DEF Extract!Opening
  <2>2. ASSUME NEW m \in {"denoiser", "content"}
        PROVE  ~(Extract!Looks(m) \subseteq {}) /\ faults = 0 /\ \A t \in Threads : passer[t].at # "run"
    OBVIOUS
  <2> QED
    BY <2>1, <2>2 DEF SharedSafe, OpenedAlone
<1> QED
  BY <1>1, <1>2, <1>3, <1>4 DEF ExtractSafe, FailedRaced

\* No pair comes back but after an open that failed.
LEMMA PitchStays ==
  ASSUME Extract!ExtractAssumption, PitchOpened, PassTyped, opens'["pitch"] = opens["pitch"], faults' = faults,
         \A t, o \in Threads : MayOpen(t, o)' => MayOpen(t, o)
  PROVE  PitchOpened'
<1>1. PairsLeft' \in SUBSET PairsLeft
  BY DEF PairsLeft, Pairs
<1>2. Cardinality(PairsLeft') <= Cardinality(PairsLeft) /\ Cardinality(PairsLeft') \in Nat
  BY <1>1, PairsFinite, FS_Subset, FS_CardinalityType
<1>3. Pairs' = Pairs
  BY DEF Pairs
<1>4. Cardinality(PairsLeft) \in Nat /\ Cardinality(Pairs) \in Nat /\ opens["pitch"] \in Nat /\ faults \in Nat
  BY PairsFinite, FieldsAre DEF PassTyped
<1> QED
  BY <1>2, <1>3, <1>4 DEF PitchOpened

LEMMA BeginHands ==
  ASSUME Extract!ExtractAssumption, PassTyped, HandsSafe, PitchOpened, NEW t \in Threads, NEW d \in BOOLEAN, Extract!Begin(t, d)
  PROVE  PassTyped' /\ HandsSafe' /\ PitchOpened'
<1> USE FieldsAre
<1> DEFINE new == [at |-> "look", model |-> IF d THEN 1 ELSE 2, field |-> 1, passes |-> passer[t].passes + 1]
<1>1. passer' = [passer EXCEPT ![t] = new] /\ UNCHANGED <<fields, opens, cache, mine, doubled, faults>> /\ passer[t].at = "idle"
  BY DEF Extract!Begin
<1>2. new \in [at : {"look"}, model : 1..3, field : Nat, passes : Nat] /\ new.at = "look" /\ Extract!Order[new.model] # "pitch"
  BY DEF PassTyped
<1>3. mine[t] = None
  BY <1>1 DEF HandsSafe, InHand
<1> HIDE DEF new
<1>4. PassTyped'
  BY <1>1, <1>2 DEF PassTyped, Extract!Model
<1>5. HandsSafe'
  BY <1>1, <1>2, <1>3, <1>4 DEF PassTyped, HandsSafe, InHand, Extract!Model
<1>6. \A u, o \in Threads : MayOpen(u, o)' => MayOpen(u, o)
  BY <1>1, <1>2, <1>3 DEF PassTyped, MayOpen, OpensOf
<1> QED
  BY <1>1, <1>4, <1>5, <1>6, PitchStays

LEMMA PassGoes ==
  ASSUME PassTyped, NEW t \in Threads, NEW s \in {"idle", "look", "keep", "open", "run", "failed"}, Extract!Goto(t, s)
  PROVE  \E r \in [at : {s}, model : 1..3, field : Nat, passes : Nat] :
           /\ passer' = [passer EXCEPT ![t] = r]
           /\ r.at = s /\ r.model = passer[t].model /\ r.field = passer[t].field
<1> DEFINE r == [passer[t] EXCEPT !.at = s]
<1>1. passer' = [passer EXCEPT ![t] = r]
  BY DEF Extract!Goto, PassTyped
<1>2. r \in [at : {s}, model : 1..3, field : Nat, passes : Nat]
  BY DEF PassTyped
<1>3. r.at = s /\ r.model = passer[t].model /\ r.field = passer[t].field
  BY DEF PassTyped
<1> QED
  BY <1>1, <1>2, <1>3

LEMMA PassRetold ==
  ASSUME NEW A, NEW u \in [at : A, model : 1..3, field : Nat, passes : Nat], NEW s
  PROVE  /\ [[u EXCEPT !.at = s] EXCEPT !.field = 1] = [at |-> s, model |-> u.model, field |-> 1, passes |-> u.passes]
         /\ [[u EXCEPT !.at = s] EXCEPT !.model = u.model + 1]
              = [at |-> s, model |-> u.model + 1, field |-> u.field, passes |-> u.passes]
<1> DEFINE v == [at |-> s, model |-> u.model, field |-> u.field, passes |-> u.passes]
<1>1. [u EXCEPT !.at = s] = v
  OBVIOUS
<1>2. [v EXCEPT !.field = 1] = [at |-> s, model |-> u.model, field |-> 1, passes |-> u.passes]
  OBVIOUS
<1>3. [v EXCEPT !.model = u.model + 1] = [at |-> s, model |-> u.model + 1, field |-> u.field, passes |-> u.passes]
  OBVIOUS
<1> QED
  BY <1>1, <1>2, <1>3

LEMMA FindHands ==
  ASSUME Extract!ExtractAssumption, PassTyped, HandsSafe, PitchOpened, NEW t \in Threads, Extract!FindExtractor(t)
  PROVE  PassTyped' /\ HandsSafe' /\ PitchOpened'
<1> USE FieldsAre
<1>1. /\ passer[t].at = "look" /\ Extract!Model(t) = "pitch" /\ mine[t] = None
      /\ UNCHANGED <<fields, opens, cache, doubled, faults>>
      /\ \/ cache # None /\ mine' = [mine EXCEPT ![t] = cache] /\ UNCHANGED passer
         \/ cache = None /\ mine' = mine /\ Extract!Goto(t, "keep")
  BY DEF Extract!FindExtractor
<1>2. CASE cache # None
  <2>1. mine' = [mine EXCEPT ![t] = cache] /\ passer' = passer
    BY <1>1, <1>2 DEF Extract!Goto
  <2>2. PassTyped'
    BY <1>1, <1>2, <2>1 DEF PassTyped, Extract!Model
  <2>3. HandsSafe'
    <3>1. ASSUME NEW u \in Threads \ {t}
          PROVE  InHand(u)'
      BY <1>1, <1>2, <2>1 DEF PassTyped, HandsSafe, InHand, Extract!Model
    <3>2. cache \in Threads /\ InHand(cache) /\ InHand(t) /\ mine'[t] = cache
      BY <1>1, <1>2, <2>1 DEF PassTyped, HandsSafe
    <3>3. cache # t => mine'[cache] = mine[cache] /\ mine[cache] # t
      BY <2>1, <3>2 DEF InHand, PassTyped, Extract!ExtractAssumption
    <3>4. InHand(t)'
      BY <1>1, <1>2, <2>1, <3>2, <3>3 DEF HandsSafe, InHand, Extract!Model
    <3> QED
      BY <1>1, <1>2, <2>1, <3>1, <3>4 DEF HandsSafe
  <2>4. \A u, o \in Threads : MayOpen(u, o)' => MayOpen(u, o)
    BY <1>1, <1>2, <2>1 DEF PassTyped, MayOpen, OpensOf, Extract!ExtractAssumption
  <2> QED
    BY <1>1, <2>2, <2>3, <2>4, PitchStays
<1>3. CASE cache = None
  <2>1. mine' = mine /\ Extract!Goto(t, "keep")
    BY <1>1, <1>3
  <2>2. PICK r \in [at : {"keep"}, model : 1..3, field : Nat, passes : Nat] :
          passer' = [passer EXCEPT ![t] = r] /\ r.at = "keep" /\ r.model = passer[t].model
    BY <2>1, PassGoes
  <2>3. PassTyped'
    BY <1>1, <2>1, <2>2 DEF PassTyped, Extract!Model
  <2>4. HandsSafe'
    BY <1>1, <1>3, <2>1, <2>2, <2>3 DEF PassTyped, HandsSafe, InHand, Extract!Model
  <2>5. \A u, o \in Threads : MayOpen(u, o)' => MayOpen(u, o)
    BY <1>1, <1>3, <2>1, <2>2 DEF PassTyped, MayOpen, OpensOf
  <2> QED
    BY <1>1, <2>3, <2>4, <2>5, PitchStays
<1> QED
  BY <1>2, <1>3

LEMMA KeepHands ==
  ASSUME Extract!ExtractAssumption, PassTyped, HandsSafe, PitchOpened, NEW t \in Threads, Extract!KeepExtractor(t)
  PROVE  PassTyped' /\ HandsSafe' /\ PitchOpened'
<1> USE FieldsAre DEF Extract!ExtractAssumption
<1>1. /\ passer[t].at = "keep" /\ cache' = t /\ mine' = [mine EXCEPT ![t] = t] /\ fields' = fields
      /\ Extract!Goto(t, "look") /\ UNCHANGED <<opens, doubled, faults>>
  <2>1. fields["pitch"][t] = {}
    BY DEF Extract!KeepExtractor, HandsSafe, InHand
  <2>2. fields' = [fields EXCEPT !["pitch"] = [@ EXCEPT ![t] = {}]]
    BY DEF Extract!KeepExtractor
  <2>3. [fields["pitch"] EXCEPT ![t] = {}] = fields["pitch"]
    BY <2>1 DEF PassTyped
  <2>4. fields' = fields
    BY <2>2, <2>3 DEF PassTyped
  <2> QED
    BY <2>4 DEF Extract!KeepExtractor
<1>2. PICK r \in [at : {"look"}, model : 1..3, field : Nat, passes : Nat] :
        passer' = [passer EXCEPT ![t] = r] /\ r.at = "look" /\ r.model = passer[t].model
  BY <1>1, PassGoes
<1>3. PassTyped'
  BY <1>1, <1>2 DEF PassTyped, Extract!Model
<1>4. HandsSafe'
  BY <1>1, <1>2, <1>3 DEF PassTyped, HandsSafe, InHand, Extract!Model
<1>5. \A u, o \in Threads : MayOpen(u, o)' => MayOpen(u, o)
  BY <1>1, <1>2 DEF PassTyped, MayOpen, OpensOf
<1> QED
  BY <1>1, <1>3, <1>4, <1>5, PitchStays

\* A look leaves a thread at its model or at the first field of its open.
LEMMA LookGoes ==
  ASSUME PassTyped, NEW t \in Threads, Extract!Look(t)
  PROVE  passer' = [passer EXCEPT ![t] = [at |-> IF Extract!Looks(Extract!Model(t)) \subseteq Extract!Has(t, Extract!Model(t)) THEN "run" ELSE "open",
                                          model |-> passer[t].model, field |-> 1, passes |-> passer[t].passes]]
<1> DEFINE m == Extract!Model(t)
           whole == Extract!Looks(m) \subseteq Extract!Has(t, m)
<1>1. passer' = [passer EXCEPT ![t].at = IF whole THEN "run" ELSE "open", ![t].field = 1]
  BY DEF Extract!Look
<1> HIDE DEF whole
<1>2. PICK u \in [at : {"idle", "look", "keep", "open", "run", "failed"}, model : 1..3, field : Nat, passes : Nat] : u = passer[t]
  BY DEF PassTyped
<1>3. [[u EXCEPT !.at = IF whole THEN "run" ELSE "open"] EXCEPT !.field = 1]
        = [at |-> IF whole THEN "run" ELSE "open", model |-> u.model, field |-> 1, passes |-> u.passes]
  BY PassRetold
<1>4. passer' = [passer EXCEPT ![t] = [[passer[t] EXCEPT !.at = IF whole THEN "run" ELSE "open"] EXCEPT !.field = 1]]
  BY <1>1 DEF PassTyped
<1> QED
  BY <1>2, <1>3, <1>4 DEF whole

\* The look at an extractor that is open, or at another model.
LEMMA LookHands ==
  ASSUME Extract!ExtractAssumption, PassTyped, HandsSafe, PitchOpened, NEW t \in Threads, Extract!Look(t)
  PROVE  PassTyped' /\ HandsSafe' /\ PitchOpened'
<1> USE FieldsAre DEF Extract!ExtractAssumption
<1> DEFINE m == Extract!Model(t)
           whole == Extract!Looks(m) \subseteq Extract!Has(t, m)
           r == [at |-> IF whole THEN "run" ELSE "open", model |-> passer[t].model, field |-> 1, passes |-> passer[t].passes]
<1>1. /\ passer[t].at = "look" /\ Extract!Ready(t) /\ passer' = [passer EXCEPT ![t] = r]
      /\ opens' = IF whole THEN opens ELSE [opens EXCEPT ![m] = @ + 1]
      /\ doubled' \subseteq doubled \cup {m} /\ UNCHANGED <<fields, cache, mine, faults>>
  <2>4. passer' = [passer EXCEPT ![t] = r]
    BY LookGoes
  <2>5. doubled' \subseteq doubled \cup {m}
    BY DEF Extract!Look
  <2> QED
    BY <2>4, <2>5 DEF Extract!Look
<1>2. /\ r \in [at : {"run", "open"}, model : 1..3, field : Nat, passes : Nat]
      /\ r.model = passer[t].model /\ r.field = 1 /\ r.at = IF whole THEN "run" ELSE "open"
  BY DEF PassTyped
<1>3. m \in Extract!Models /\ m = Extract!Order[r.model]
  BY <1>2 DEF PassTyped, Extract!Model
<1>4. m = "pitch" => mine[t] \in Threads /\ (whole <=> fields["pitch"][mine[t]] = {"impl"})
  BY <1>1 DEF Extract!Ready, Extract!Has, PassTyped
<1>5. m # "pitch" => mine[t] = None
  BY DEF HandsSafe, InHand
<1>6. opens' \in [Extract!Models -> Nat]
  BY <1>1, <1>3 DEF PassTyped
<1> HIDE DEF m, whole, r
<1>7. m = Extract!Model(t)
  BY DEF m
<1>8. PassTyped'
  <2>1. \A u \in Threads : passer'[u].at = "open" => passer'[u].field \in 1..Len(Extract!Fields(Extract!Model(u)'))
    <3>1. 1 \in 1..Len(Extract!Fields(m))
      BY <1>3
    <3> QED
      BY <1>1, <1>2, <1>3, <3>1 DEF PassTyped, Extract!Model
  <2> QED
    BY <1>1, <1>2, <1>3, <1>6, <2>1 DEF PassTyped
<1>9. HandsSafe'
  BY <1>1, <1>2, <1>3, <1>4, <1>5, <1>7, <1>8 DEF PassTyped, HandsSafe, InHand, Extract!Model
<1>10. CASE whole \/ m # "pitch"
  <2>1. \A u, o \in Threads : MayOpen(u, o)' => MayOpen(u, o)
    BY <1>1, <1>2, <1>4, <1>5, <1>10 DEF PassTyped, MayOpen, OpensOf
  <2>2. opens'["pitch"] = opens["pitch"]
    BY <1>1, <1>3, <1>10 DEF PassTyped
  <2> QED
    BY <1>1, <1>8, <1>9, <2>1, <2>2, PitchStays
<1>11. CASE ~whole /\ m = "pitch"
  <2> DEFINE o == mine[t]
  <2>1. o \in Threads /\ fields["pitch"][o] = {} /\ MayOpen(t, o) /\ {t, o} \in PairsLeft
    BY <1>1, <1>4, <1>11 DEF PassTyped, MayOpen, OpensOf, PairsLeft, Pairs
  <2>2. \A u, x \in Threads : MayOpen(u, x)' => MayOpen(u, x)
    BY <1>1, <1>2 DEF PassTyped, MayOpen, OpensOf
  <2>3. \A u, x \in Threads : u = t /\ x = o => ~MayOpen(u, x)'
    BY <1>1, <1>2, <1>11 DEF PassTyped, MayOpen, OpensOf
  <2>4. \A u, x \in Threads : u = o /\ x = t /\ o # t => ~MayOpen(u, x)'
    <3>1. o # t => cache # t /\ mine[o] # t /\ cache # None
      BY <2>1 DEF HandsSafe, InHand
    <3>2. passer'[t].at # "keep"
      BY <1>1, <1>2 DEF PassTyped
    <3> HIDE DEF o
    <3> QED
      BY <1>1, <3>1, <3>2 DEF MayOpen
  <2> HIDE DEF o
  <2>5. PairsLeft' \in SUBSET (PairsLeft \ {{t, o}})
    <3>1. {t, o} \notin PairsLeft'
      <4>1. ASSUME NEW u \in Threads, NEW x \in Threads, {t, o} = {u, x}, MayOpen(u, x)'
            PROVE  FALSE
        <5>1. (u = t /\ x = o) \/ (u = o /\ x = t /\ o # t)
          BY <4>1
        <5> QED
          BY <5>1, <4>1, <2>3, <2>4
      <4> QED
        BY <4>1 DEF PairsLeft
    <3>2. PairsLeft' \in SUBSET PairsLeft
      BY <2>2 DEF PairsLeft, Pairs
    <3> QED
      BY <3>1, <3>2
  <2>6. Cardinality(PairsLeft') <= Cardinality(PairsLeft) - 1 /\ Cardinality(PairsLeft') \in Nat
    BY <2>1, <2>5, PairsFinite, FS_Subset, FS_RemoveElement, FS_CardinalityType
  <2>7. opens'["pitch"] = opens["pitch"] + 1 /\ opens["pitch"] \in Nat
    BY <1>1, <1>11 DEF PassTyped
  <2>8. Pairs' = Pairs
    BY DEF Pairs
  <2>9. PitchOpened'
    BY <1>1, <2>6, <2>7, <2>8, PairsFinite DEF PitchOpened, PassTyped
  <2> QED
    BY <1>8, <1>9, <2>9
<1> QED
  BY <1>10, <1>11

\* The extractor that a thread has in hand while another thread moves.
LEMMA HandKept ==
  ASSUME Extract!ExtractAssumption, PassTyped, HandsSafe, NEW u \in Threads, cache' = cache,
         passer'[u] = passer[u], mine'[u] = mine[u],
         \A x \in Threads : mine'[x] \in {mine[x], None} /\ (passer'[x].at = "keep" => passer[x].at = "keep"),
         \A x \in Threads :
           \/ fields'["pitch"][x] = fields["pitch"][x]
           \/ fields'["pitch"][x] = {"impl"} /\ cache # None /\ passer[x].at # "keep"
  PROVE  InHand(u)'
<1> USE DEF Extract!ExtractAssumption
<1>1. InHand(u) /\ mine[u] \in Threads \cup {None} /\ Extract!Model(u)' = Extract!Model(u)
  BY DEF PassTyped, HandsSafe, Extract!Model
<1>2. CASE mine[u] = None
  BY <1>1, <1>2 DEF InHand
<1>3. CASE mine[u] # None
  <2> DEFINE o == mine[u]
  <2>1. /\ o \in Threads /\ mine'[o] \in {mine[o], None} /\ (passer'[o].at = "keep" => passer[o].at = "keep")
        /\ fields'["pitch"][o] = fields["pitch"][o] \/ fields'["pitch"][o] = {"impl"}
    BY <1>1, <1>3
  <2>2. o # u => cache # u /\ mine[o] # u
    BY <1>1, <1>3 DEF InHand
  <2>3. cache # None /\ passer[o].at # "keep" /\ passer[u].at # "keep" /\ passer[u].at # "failed"
    BY <1>1, <1>3 DEF InHand
  <2>4. (passer[u].at \in {"look", "open", "run"} /\ Extract!Model(u) = "pitch") /\ (passer[u].at = "run" => fields["pitch"][o] = {"impl"})
    BY <1>1, <1>3 DEF InHand
  <2>5. mine'[u] = o
    OBVIOUS
  <2> HIDE DEF o
  <2> QED
    BY <1>1, <2>1, <2>2, <2>3, <2>4, <2>5 DEF InHand
<1> QED
  BY <1>2, <1>3

\* What a thread sets next.
LEMMA SetGoes ==
  ASSUME PassTyped, NEW t \in Threads, Extract!SetField(t)
  PROVE  LET m == Extract!Model(t)
             k == passer[t].field
             o == Extract!Owner(t, m)
             F == {"session_1", "session_2", "io", "state", "session", "names", "input", "impl"}
         IN /\ passer' = [passer EXCEPT ![t] = [at |-> IF k = Len(Extract!Fields(m)) THEN "run" ELSE "open",
                                               model |-> passer[t].model, field |-> k + 1, passes |-> passer[t].passes]]
            /\ fields' \in [Extract!Models -> [Threads \cup {None} -> SUBSET F]]
            /\ \A n \in Extract!Models, x \in Threads \cup {None} :
                 fields'[n][x] = IF n = m /\ x = o THEN fields[n][x] \cup {Extract!Fields(m)[k]} ELSE fields[n][x]
<1> USE FieldsAre
<1> DEFINE m == Extract!Model(t)
           k == passer[t].field
           f == Extract!Fields(m)[k]
           o == Extract!Owner(t, m)
           last == k = Len(Extract!Fields(m))
           r == [at |-> IF last THEN "run" ELSE "open", model |-> passer[t].model, field |-> k + 1, passes |-> passer[t].passes]
<1>1. passer' = [passer EXCEPT ![t] = r] /\ fields' = [fields EXCEPT ![m][o] = @ \cup {f}]
  <2>1. fields' = [fields EXCEPT ![m][o] = @ \cup {f}]
    BY ONLY Extract!SetField(t) DEF Extract!SetField
  <2>2. passer' = [passer EXCEPT ![t].at = IF last THEN "run" ELSE "open", ![t].field = k + 1]
    BY ONLY Extract!SetField(t) DEF Extract!SetField
  <2>3. passer \in [Threads -> [at : {"idle", "look", "keep", "open", "run", "failed"}, model : 1..3, field : Nat, passes : Nat]]
    BY DEF PassTyped
  <2>4. passer' = [passer EXCEPT ![t] = r]
    <3> HIDE DEF last, m
    <3> QED
      BY ONLY <2>2, <2>3
  <2> QED
    BY <2>1, <2>4
<1>2. m \in Extract!Models /\ k \in 1..Len(Extract!Fields(m)) /\ f \in Extract!ToSet(Extract!Fields(m)) /\ o \in Threads \cup {None}
  <2>1. m \in Extract!Models
    BY DEF PassTyped, Extract!Model
  <2>2. k \in 1..Len(Extract!Fields(m))
    BY DEF Extract!SetField, PassTyped
  <2>3. o \in Threads \cup {None}
    BY DEF PassTyped, Extract!Owner
  <2> HIDE DEF m, k, o
  <2>4. f \in Extract!ToSet(Extract!Fields(m))
    BY <2>1, <2>2
  <2> QED
    BY <2>1, <2>2, <2>3, <2>4
<1>7. f \in {"session_1", "session_2", "io", "state", "session", "names", "input", "impl"}
  BY <1>2
<1>8. /\ fields' \in [Extract!Models -> [Threads \cup {None} -> SUBSET {"session_1", "session_2", "io", "state", "session", "names", "input", "impl"}]]
      /\ \A n \in Extract!Models, x \in Threads \cup {None} :
           fields'[n][x] = IF n = m /\ x = o THEN fields[n][x] \cup {f} ELSE fields[n][x]
  <2> HIDE DEF m, f, o, r
  <2> DEFINE F == {"session_1", "session_2", "io", "state", "session", "names", "input", "impl"}
             K == Threads \cup {None}
             g == [fields[m] EXCEPT ![o] = fields[m][o] \cup {f}]
  <2>1. fields \in [Extract!Models -> [K -> SUBSET F]] /\ f \in F /\ m \in Extract!Models /\ o \in K
    BY <1>2, <1>7 DEF PassTyped
  <2> HIDE DEF F, K
  <2>2. fields' = [fields EXCEPT ![m] = g]
    BY <1>1
  <2>3. g \in [K -> SUBSET F] /\ \A x \in K : g[x] = IF x = o THEN fields[m][x] \cup {f} ELSE fields[m][x]
    BY ONLY <2>1
  <2> HIDE DEF g
  <2>4. fields' \in [Extract!Models -> [K -> SUBSET F]]
    BY ONLY <2>1, <2>2, <2>3
  <2>5. \A n \in Extract!Models, x \in K : fields'[n][x] = IF n = m /\ x = o THEN fields[n][x] \cup {f} ELSE fields[n][x]
    BY ONLY <2>1, <2>2, <2>3
  <2> QED
    BY <2>4, <2>5 DEF F, K
<1> HIDE DEF r
<1>9. passer' = [passer EXCEPT ![t] = r]
  BY <1>1
<1> QED
  BY <1>2, <1>8, <1>9 DEF r

LEMMA SetHands ==
  ASSUME Extract!ExtractAssumption, PassTyped, HandsSafe, PitchOpened, NEW t \in Threads, Extract!SetField(t)
  PROVE  PassTyped' /\ HandsSafe' /\ PitchOpened'
<1> USE FieldsAre DEF Extract!ExtractAssumption
<1> DEFINE m == Extract!Model(t)
           k == passer[t].field
           f == Extract!Fields(m)[k]
           o == Extract!Owner(t, m)
           last == k = Len(Extract!Fields(m))
           r == [at |-> IF last THEN "run" ELSE "open", model |-> passer[t].model, field |-> k + 1, passes |-> passer[t].passes]
<1>1. passer[t].at = "open" /\ passer' = [passer EXCEPT ![t] = r] /\ UNCHANGED <<opens, cache, mine, doubled, faults>>
  BY SetGoes DEF Extract!SetField
<1>2. m \in Extract!Models /\ k \in 1..Len(Extract!Fields(m)) /\ f \in Extract!ToSet(Extract!Fields(m)) /\ o \in Threads \cup {None}
  <2>1. m \in Extract!Models
    BY DEF PassTyped, Extract!Model
  <2>2. k \in 1..Len(Extract!Fields(m))
    BY <1>1 DEF PassTyped
  <2>3. o \in Threads \cup {None}
    BY DEF PassTyped, Extract!Owner
  <2> HIDE DEF m, k, o
  <2>4. f \in Extract!ToSet(Extract!Fields(m))
    BY <2>1, <2>2
  <2> QED
    BY <2>1, <2>2, <2>3, <2>4
<1>3. /\ r \in [at : {"run", "open"}, model : 1..3, field : Nat, passes : Nat]
      /\ r.model = passer[t].model /\ r.field = k + 1 /\ r.at = IF last THEN "run" ELSE "open"
  BY <1>2 DEF PassTyped
<1>4. m = Extract!Order[r.model] /\ m = Extract!Model(t)
  BY <1>3 DEF Extract!Model
<1>5. m = "pitch" => o = mine[t] /\ o \in Threads /\ f = "impl" /\ last /\ passer[o].at # "keep" /\ cache # None
  <2>1. m = "pitch" => mine[t] # None
    BY <1>1 DEF HandsSafe, InHand
  <2>2. m = "pitch" => o = mine[t] /\ k = 1
    BY <1>2 DEF Extract!Owner
  <2>3. m = "pitch" => mine[t] \in Threads /\ passer[mine[t]].at # "keep" /\ cache # None
    BY <2>1 DEF PassTyped, HandsSafe, InHand
  <2>4. m = "pitch" => f = "impl" /\ last
    <3>1. Extract!Fields("pitch")[1] = "impl" /\ Len(Extract!Fields("pitch")) = 1
      OBVIOUS
    <3> QED
      BY ONLY <2>2, <3>1
  <2> HIDE DEF m, k, f, o, last
  <2> QED
    BY <2>2, <2>3, <2>4
<1>6. m # "pitch" => mine[t] = None
  BY DEF HandsSafe, InHand
<1>8. /\ fields' \in [Extract!Models -> [Threads \cup {None} -> SUBSET {"session_1", "session_2", "io", "state", "session", "names", "input", "impl"}]]
      /\ \A n \in Extract!Models, x \in Threads \cup {None} :
           fields'[n][x] = IF n = m /\ x = o THEN fields[n][x] \cup {f} ELSE fields[n][x]
  BY SetGoes
<1> HIDE DEF m, k, f, o, last, r
<1>10. PassTyped'
  <2>1. \A u \in Threads : passer'[u].at = "open" => passer'[u].field \in 1..Len(Extract!Fields(Extract!Model(u)'))
    <3>1. ~last => k + 1 \in 1..Len(Extract!Fields(m))
      BY <1>2 DEF last
    <3> QED
      BY <1>1, <1>3, <1>4, <3>1 DEF PassTyped, Extract!Model
  <2>2. \A n \in Extract!Models, x \in Threads \cup {None} : fields'[n][x] \subseteq Extract!ToSet(Extract!Fields(n))
    <3> ASSUME NEW n \in Extract!Models, NEW x \in Threads \cup {None}
        PROVE  fields'[n][x] \subseteq Extract!ToSet(Extract!Fields(n))
      <4>1. fields[n][x] \subseteq Extract!ToSet(Extract!Fields(n))
        BY DEF PassTyped
      <4>2. fields'[n][x] = IF n = m /\ x = o THEN fields[n][x] \cup {f} ELSE fields[n][x]
        BY ONLY <1>8
      <4> QED
        BY ONLY <4>1, <4>2, <1>2
    <3> QED
      OBVIOUS
  <2> QED
    BY <1>1, <1>3, <1>8, <2>1, <2>2 DEF PassTyped
<1>11. \A x \in Threads :
         fields'["pitch"][x] = IF m = "pitch" /\ x = o THEN {"impl"} ELSE fields["pitch"][x]
  <2>1. \A x \in Threads : fields["pitch"][x] \subseteq {"impl"}
    BY DEF PassTyped
  <2> QED
    BY <1>5, <1>8, <2>1
<1>13. HandsSafe'
  <2>1. \A x \in Threads : passer'[x].at = "keep" => passer[x].at = "keep"
    BY <1>1, <1>3 DEF PassTyped
  <2>2. ASSUME NEW u \in Threads \ {t}
        PROVE  InHand(u)'
    <3>1. passer'[u] = passer[u]
      BY <1>1 DEF PassTyped
    <3> QED
      BY <1>1, <1>5, <1>11, <2>1, <3>1, HandKept
  <2>3. InHand(t)'
    <3>1. mine'[t] = mine[t] /\ passer'[t] = r /\ Extract!Model(t)' = Extract!Model(t)
      BY <1>1, <1>3, <1>4 DEF PassTyped, Extract!Model
    <3>2. CASE m = "pitch"
      BY <1>1, <1>3, <1>4, <1>5, <1>11, <3>1, <3>2 DEF HandsSafe, InHand
    <3>3. CASE m # "pitch"
      BY <1>1, <1>3, <1>4, <1>6, <1>11, <3>1, <3>3 DEF HandsSafe, InHand
    <3> QED
      BY <3>2, <3>3
  <2> QED
    BY <1>1, <2>1, <2>2, <2>3 DEF PassTyped, HandsSafe
<1>12. \A u, x \in Threads : MayOpen(u, x)' => MayOpen(u, x)
  <2> SUFFICES ASSUME NEW u \in Threads, NEW x \in Threads, MayOpen(u, x)'
               PROVE  MayOpen(u, x)
    OBVIOUS
  <2>1. fields'["pitch"][x] = {} /\ fields["pitch"][x] = {} /\ ~(m = "pitch" /\ x = o)
    BY <1>11 DEF MayOpen
  <2>2. passer'[x].at = "keep" => passer[x].at = "keep"
    BY <1>1, <1>3 DEF PassTyped
  <2>3. ~OpensOf(u, x)
    <3>1. CASE u = t
      BY <1>4, <1>5, <1>6, <2>1, <3>1 DEF OpensOf, Extract!ExtractAssumption
    <3>2. CASE u # t
      BY <1>1, <3>2 DEF MayOpen, OpensOf, PassTyped
    <3> QED
      BY <3>1, <3>2
  <2> QED
    BY <1>1, <2>1, <2>2, <2>3 DEF MayOpen
<1> QED
  BY <1>1, <1>10, <1>12, <1>13, PitchStays

\* An open that fails may give its pair back, and counts.
LEMMA FailHands ==
  ASSUME Extract!ExtractAssumption, PassTyped, HandsSafe, PitchOpened, NEW t \in Threads, Extract!OpenFails(t)
  PROVE  PassTyped' /\ HandsSafe' /\ PitchOpened'
<1> USE FieldsAre DEF Extract!ExtractAssumption
<1>1. /\ passer[t].at = "open" /\ faults' = faults + 1 /\ faults' <= MaxFaults /\ Extract!Goto(t, "idle")
      /\ mine' = [mine EXCEPT ![t] = None] /\ UNCHANGED <<fields, opens, cache, doubled>>
  BY DEF Extract!OpenFails, PassTyped
<1>2. PICK r \in [at : {"idle"}, model : 1..3, field : Nat, passes : Nat] :
        passer' = [passer EXCEPT ![t] = r] /\ r.at = "idle" /\ r.model = passer[t].model
  BY <1>1, PassGoes
<1>3. PassTyped'
  BY <1>1, <1>2 DEF PassTyped, Extract!Model
<1>4. HandsSafe'
  <2>1. ASSUME NEW u \in Threads \ {t}
        PROVE  InHand(u)'
    <3>1. passer'[u] = passer[u] /\ mine'[u] = mine[u]
      BY <1>1, <1>2 DEF PassTyped
    <3>2. \A x \in Threads : mine'[x] \in {mine[x], None} /\ (passer'[x].at = "keep" => passer[x].at = "keep")
      BY <1>1, <1>2 DEF PassTyped
    <3> QED
      BY <1>1, <3>1, <3>2, HandKept
  <2>2. InHand(t)'
    BY <1>1, <1>2 DEF PassTyped, HandsSafe, InHand, Extract!Model
  <2> QED
    BY <1>1, <1>2, <2>1, <2>2 DEF PassTyped, HandsSafe
<1>5. PairsLeft' \in SUBSET (PairsLeft \cup {{t, mine[t]}})
  <2>1. ASSUME NEW u \in Threads, NEW x \in Threads, MayOpen(u, x)', ~(u = t /\ x = mine[t])
        PROVE  MayOpen(u, x)
    BY <1>1, <1>2, <2>1 DEF PassTyped, MayOpen, OpensOf
  <2> QED
    BY <2>1 DEF PairsLeft, Pairs
<1>6. Cardinality(PairsLeft') <= Cardinality(PairsLeft) + 1 /\ Cardinality(PairsLeft') \in Nat
  <2> DEFINE wider == PairsLeft \cup {{t, mine[t]}}
  <2>1. IsFiniteSet(wider) /\ Cardinality(wider) <= Cardinality(PairsLeft) + 1 /\ Cardinality(PairsLeft) \in Nat
    <3>1. IsFiniteSet(PairsLeft) /\ Cardinality(PairsLeft) \in Nat
      BY PairsFinite
    <3>2. /\ IsFiniteSet(PairsLeft \cup {{t, mine[t]}})
          /\ Cardinality(PairsLeft \cup {{t, mine[t]}}) = IF {t, mine[t]} \in PairsLeft THEN Cardinality(PairsLeft) ELSE Cardinality(PairsLeft) + 1
      BY <3>1, FS_AddElement
    <3> QED
      BY <3>1, <3>2
  <2> HIDE DEF wider
  <2>2. IsFiniteSet(PairsLeft') /\ Cardinality(PairsLeft') <= Cardinality(wider)
    BY <1>5, <2>1, FS_Subset DEF wider
  <2> QED
    BY <2>1, <2>2, FS_CardinalityType
<1>7. Pairs' = Pairs
  BY DEF Pairs
<1>8. PitchOpened'
  <2>1. opens["pitch"] \in Nat /\ faults \in Nat /\ Cardinality(PairsLeft) \in Nat /\ Cardinality(Pairs) \in Nat
    BY PairsFinite DEF PassTyped
  <2> QED
    BY <1>1, <1>6, <1>7, <2>1 DEF PitchOpened
<1> QED
  BY <1>3, <1>4, <1>8

LEMMA RunHands ==
  ASSUME Extract!ExtractAssumption, PassTyped, HandsSafe, PitchOpened, NEW t \in Threads, Extract!RunModel(t) \/ Extract!Recover(t)
  PROVE  PassTyped' /\ HandsSafe' /\ PitchOpened'
<1> USE FieldsAre DEF Extract!ExtractAssumption
<1>1. passer[t].at \in {"run", "failed"} /\ UNCHANGED <<fields, opens, cache, doubled, faults>>
  BY DEF Extract!RunModel, Extract!Recover
<1>2. (Extract!Model(t) = "pitch" <=> passer[t].model = 3) /\ passer[t].model \in 1..3
  BY DEF Extract!Model, PassTyped
<1>3. passer[t].at = "run" /\ Extract!Model(t) = "pitch" => Extract!Whole(t)
  <2>1. Extract!Model(t) = "pitch" => Extract!Has(t, Extract!Model(t)) = fields["pitch"][mine[t]]
    BY DEF Extract!Has
  <2> QED
    BY <2>1 DEF HandsSafe, InHand, Extract!Whole
<1>4. Extract!Model(t) # "pitch" => [mine EXCEPT ![t] = None] = mine
  BY DEF HandsSafe, InHand, PassTyped
<1>5. /\ mine' = [mine EXCEPT ![t] = None]
      /\ \E r \in [at : {"idle", "look", "failed"}, model : 1..3, field : Nat, passes : Nat] :
           passer' = [passer EXCEPT ![t] = r] /\ (r.at = "failed" => Extract!Model(t) # "pitch" /\ r.model = passer[t].model)
  <2>1. CASE Extract!RunModel(t) /\ ~Extract!Whole(t)
    <3>1. Extract!Goto(t, "failed") /\ mine' = mine /\ Extract!Model(t) # "pitch"
      BY <1>3, <2>1 DEF Extract!RunModel
    <3> QED
      BY <1>4, <3>1, PassGoes
  <2>2. CASE Extract!RunModel(t) /\ Extract!Whole(t) /\ passer[t].model = 3
    <3>1. Extract!Goto(t, "idle") /\ mine' = [mine EXCEPT ![t] = None]
      BY <2>2 DEF Extract!RunModel
    <3> QED
      BY <3>1, PassGoes
  <2>3. CASE Extract!RunModel(t) /\ Extract!Whole(t) /\ passer[t].model # 3
    <3> DEFINE r == [at |-> "look", model |-> passer[t].model + 1, field |-> passer[t].field, passes |-> passer[t].passes]
    <3>1. passer' = [passer EXCEPT ![t] = r] /\ mine' = mine
      BY <2>3 DEF Extract!RunModel, PassTyped
    <3>2. r \in [at : {"idle", "look", "failed"}, model : 1..3, field : Nat, passes : Nat] /\ r.at = "look"
      BY <1>2, <2>3 DEF PassTyped
    <3> HIDE DEF r
    <3> QED
      BY <1>2, <1>4, <2>3, <3>1, <3>2
  <2>4. CASE Extract!Recover(t)
    <3>1. Extract!Goto(t, "idle") /\ mine' = mine /\ Extract!Model(t) # "pitch"
      BY <2>4 DEF Extract!Recover, HandsSafe, InHand
    <3> QED
      BY <1>4, <3>1, PassGoes
  <2> QED
    BY <2>1, <2>2, <2>3, <2>4
<1>6. PICK r \in [at : {"idle", "look", "failed"}, model : 1..3, field : Nat, passes : Nat] :
        passer' = [passer EXCEPT ![t] = r] /\ (r.at = "failed" => Extract!Model(t) # "pitch" /\ r.model = passer[t].model)
  BY <1>5
<1>7. PassTyped'
  BY <1>1, <1>5, <1>6 DEF PassTyped, Extract!Model
<1>8. HandsSafe'
  <2>1. ASSUME NEW u \in Threads \ {t}
        PROVE  InHand(u)'
    <3>1. passer'[u] = passer[u] /\ mine'[u] = mine[u]
      BY <1>1, <1>5, <1>6 DEF PassTyped
    <3>2. \A x \in Threads : mine'[x] \in {mine[x], None} /\ (passer'[x].at = "keep" => passer[x].at = "keep")
      BY <1>1, <1>5, <1>6 DEF PassTyped
    <3> QED
      BY <1>1, <3>1, <3>2, HandKept
  <2>2. InHand(t)'
    BY <1>1, <1>2, <1>5, <1>6 DEF PassTyped, HandsSafe, InHand, Extract!Model
  <2> QED
    BY <1>1, <1>5, <1>6, <2>1, <2>2 DEF PassTyped, HandsSafe
<1>9. \A u, o \in Threads : MayOpen(u, o)' => MayOpen(u, o)
  BY <1>1, <1>5, <1>6 DEF PassTyped, MayOpen, OpensOf
<1> QED
  BY <1>1, <1>7, <1>8, <1>9, PitchStays

\* A model while it is another's turn.
LEMMA AloneKept ==
  ASSUME PassTyped, PassTyped', NEW m \in {"denoiser", "content"}, OpenedAlone(m), faults' >= faults,
         fields'[m][None] = fields[m][None], opens'[m] = opens[m], Extract!Opening(m)' = Extract!Opening(m),
         \A u \in Extract!Opening(m) : passer'[u].field = passer[u].field,
         \A u \in Threads : passer'[u].at = "run" /\ Extract!Model(u)' = m => passer[u].at = "run" /\ Extract!Model(u) = m
  PROVE  OpenedAlone(m)'
<1>1. faults \in Nat /\ faults' \in Nat /\ opens[m] \in Nat /\ Extract!Looks(m)' = Extract!Looks(m) /\ LastLook(m)' = LastLook(m)
  BY FieldsAre DEF PassTyped, Extract!Looks, LastLook
<1>2. Extract!Fields(m)' = Extract!Fields(m)
  BY DEF Extract!Fields
<1> QED
  BY <1>1, <1>2 DEF OpenedAlone

\* A step of a thread that is not at model m, nor begins its open.
LEMMA SharedKept ==
  ASSUME PassTyped, PassTyped', SharedSafe, FailedRaced, NEW t \in Threads,
         NEW r \in [at : {"idle", "look", "keep", "open", "run", "failed"}, model : 1..3, field : Nat, passes : Nat],
         passer' = [passer EXCEPT ![t] = r], faults' >= faults, doubled \subseteq doubled',
         \A m \in {"denoiser", "content"} :
           /\ fields'[m][None] = fields[m][None] /\ opens'[m] = opens[m]
           /\ t \notin Extract!Opening(m) /\ (r.at \in {"open", "run"} => Extract!Order[r.model] # m),
         r.at = "failed" => Extract!Order[r.model] \in doubled
  PROVE  SharedSafe' /\ FailedRaced'
<1>1. ASSUME NEW m \in {"denoiser", "content"} \ doubled
      PROVE  OpenedAlone(m)'
  <2>1. \A u \in Threads : u # t => passer'[u] = passer[u] /\ Extract!Model(u)' = Extract!Model(u)
    BY DEF PassTyped, Extract!Model
  <2>2. passer'[t] = r /\ Extract!Model(t)' = Extract!Order[r.model]
    BY DEF PassTyped, Extract!Model
  <2>3. Extract!Opening(m)' = Extract!Opening(m) /\ t \notin Extract!Opening(m)
    BY <2>1, <2>2 DEF Extract!Opening
  <2>4. \A u \in Extract!Opening(m) : passer'[u].field = passer[u].field
    BY <2>1, <2>3 DEF Extract!Opening
  <2>5. \A u \in Threads : passer'[u].at = "run" /\ Extract!Model(u)' = m => passer[u].at = "run" /\ Extract!Model(u) = m
    BY <2>1, <2>2
  <2>6. fields'[m][None] = fields[m][None] /\ opens'[m] = opens[m] /\ OpenedAlone(m)
    BY DEF SharedSafe
  <2> QED
    BY <2>3, <2>4, <2>5, <2>6, AloneKept
<1>2. SharedSafe'
  BY <1>1 DEF SharedSafe
<1>3. FailedRaced'
  BY DEF FailedRaced, PassTyped, Extract!Model
<1> QED
  BY <1>2, <1>3

LEMMA BeginShared ==
  ASSUME Extract!ExtractAssumption, PassTyped, PassTyped', HandsSafe, SharedSafe, FailedRaced, NEW t \in Threads, NEW d \in BOOLEAN,
         Extract!Begin(t, d) \/ Extract!FindExtractor(t) \/ Extract!KeepExtractor(t) \/ Extract!RunModel(t) \/ Extract!Recover(t)
  PROVE  SharedSafe' /\ FailedRaced'
<1>1. /\ UNCHANGED <<opens, doubled, faults>> /\ passer[t].at # "open" /\ faults \in Nat
      /\ \A m \in {"denoiser", "content"} : fields'[m][None] = fields[m][None]
  BY FieldsAre DEF Extract!Begin, Extract!FindExtractor, Extract!KeepExtractor, Extract!RunModel, Extract!Recover, PassTyped
<1>2. \A m \in {"denoiser", "content"} : t \notin Extract!Opening(m)
  BY <1>1 DEF Extract!Opening
<1>3. \E r \in [at : {"idle", "look", "keep", "failed"}, model : 1..3, field : Nat, passes : Nat] :
         passer' = [passer EXCEPT ![t] = r] /\ (r.at = "failed" => Extract!Order[r.model] \in doubled)
  <2>1. CASE Extract!Begin(t, d)
    <3> DEFINE r == [at |-> "look", model |-> IF d THEN 1 ELSE 2, field |-> 1, passes |-> passer[t].passes + 1]
    <3>1. passer' = [passer EXCEPT ![t] = r] /\ r \in [at : {"look"}, model : 1..3, field : Nat, passes : Nat] /\ r.at = "look"
      BY <2>1 DEF Extract!Begin, PassTyped
    <3> HIDE DEF r
    <3> QED
      BY <3>1
  <2>2. CASE Extract!Goto(t, "idle") \/ Extract!Goto(t, "look") \/ Extract!Goto(t, "keep")
    BY <2>2, PassGoes
  <2>3. CASE Extract!RunModel(t) /\ Extract!Goto(t, "failed") /\ ~Extract!Whole(t)
    <3>1. passer[t].at = "run" /\ passer[t].model \in 1..3
      BY <2>3 DEF Extract!RunModel, PassTyped
    <3>2. Extract!Model(t) # "pitch"
      <4>1. Extract!Model(t) = "pitch" => Extract!Has(t, Extract!Model(t)) = fields["pitch"][mine[t]]
        BY DEF Extract!Has
      <4> QED
        BY <2>3, <3>1, <4>1, FieldsAre DEF HandsSafe, InHand, Extract!Whole
    <3>3. Extract!Model(t) \in {"denoiser", "content"} /\ Extract!Has(t, Extract!Model(t)) = fields[Extract!Model(t)][None]
      BY <3>1, <3>2, FieldsAre DEF Extract!Model, Extract!Has
    <3>4. Extract!Model(t) \in doubled
      BY <2>3, <3>1, <3>3 DEF Extract!Whole, SharedSafe, OpenedAlone
    <3> QED
      BY <2>3, <3>4, PassGoes DEF Extract!Model
  <2>4. CASE passer' = [passer EXCEPT ![t].at = "look", ![t].model = @ + 1] /\ passer[t].model # 3
    <3> DEFINE r == [at |-> "look", model |-> passer[t].model + 1, field |-> passer[t].field, passes |-> passer[t].passes]
    <3>1. passer' = [passer EXCEPT ![t] = r]
      <4>1. PICK u \in [at : {"idle", "look", "keep", "open", "run", "failed"}, model : 1..3, field : Nat, passes : Nat] :
              u = passer[t]
        BY DEF PassTyped
      <4>2. passer' = [passer EXCEPT ![t] = [[passer[t] EXCEPT !.at = "look"] EXCEPT !.model = passer[t].model + 1]]
        BY <2>4 DEF PassTyped
      <4> QED
        BY <4>1, <4>2, PassRetold
    <3>2. passer[t].model \in 1..3 /\ passer[t].field \in Nat /\ passer[t].passes \in Nat
      BY DEF PassTyped
    <3>3. r \in [at : {"look"}, model : 1..3, field : Nat, passes : Nat] /\ r.at = "look"
      BY <2>4, <3>2
    <3> HIDE DEF r
    <3> QED
      BY <3>1, <3>3
  <2>5. CASE UNCHANGED passer /\ passer[t].at = "look"
    <3>1. passer[t] \in [at : {"idle", "look", "keep", "failed"}, model : 1..3, field : Nat, passes : Nat]
      BY <2>5 DEF PassTyped
    <3>2. passer' = [passer EXCEPT ![t] = passer[t]]
      BY <2>5 DEF PassTyped
    <3> QED
      BY <2>5, <3>1, <3>2
  <2>6. CASE Extract!FindExtractor(t)
    BY <2>2, <2>5, <2>6 DEF Extract!FindExtractor
  <2>7. CASE Extract!KeepExtractor(t) \/ Extract!Recover(t)
    BY <2>2, <2>7 DEF Extract!KeepExtractor, Extract!Recover
  <2>8. CASE Extract!RunModel(t)
    BY <2>2, <2>3, <2>4, <2>8, FieldsAre DEF Extract!RunModel
  <2> QED
    BY <2>1, <2>6, <2>7, <2>8
<1>4. PICK r \in [at : {"idle", "look", "keep", "failed"}, model : 1..3, field : Nat, passes : Nat] :
         passer' = [passer EXCEPT ![t] = r] /\ (r.at = "failed" => Extract!Order[r.model] \in doubled)
  BY <1>3
<1>5. r \in [at : {"idle", "look", "keep", "open", "run", "failed"}, model : 1..3, field : Nat, passes : Nat] /\ r.at \notin {"open", "run"}
  OBVIOUS
<1>6. opens' = opens /\ doubled' = doubled /\ faults' = faults /\ faults' >= faults
  BY <1>1
<1> QED
  BY <1>1, <1>2, <1>4, <1>5, <1>6, SharedKept

LEMMA LookShared ==
  ASSUME Extract!ExtractAssumption, PassTyped, PassTyped', HandsSafe, SharedSafe, FailedRaced, NEW t \in Threads, Extract!Look(t)
  PROVE  SharedSafe' /\ FailedRaced'
<1> DEFINE m == Extract!Model(t)
           whole == Extract!Looks(m) \subseteq Extract!Has(t, m)
           r == [at |-> IF whole THEN "run" ELSE "open", model |-> passer[t].model, field |-> 1, passes |-> passer[t].passes]
<1>1. /\ passer[t].at = "look" /\ UNCHANGED <<fields, cache, mine, faults>>
      /\ opens' = IF whole THEN opens ELSE [opens EXCEPT ![m] = @ + 1]
      /\ doubled' = IF Extract!Opening(m) # {} THEN doubled \cup {m} ELSE doubled
  BY DEF Extract!Look
<1>2. passer' = [passer EXCEPT ![t] = r]
  BY LookGoes
<1>3. /\ r \in [at : {"idle", "look", "keep", "open", "run", "failed"}, model : 1..3, field : Nat, passes : Nat]
      /\ r.model = passer[t].model /\ r.field = 1 /\ r.at = IF whole THEN "run" ELSE "open"
  BY DEF PassTyped
<1>4. m \in Extract!Models /\ m = Extract!Order[r.model]
  BY <1>3, FieldsAre DEF PassTyped, Extract!Model
<1>5. m # "pitch" => Extract!Has(t, m) = fields[m][None]
  BY DEF Extract!Has
<1>6. \A n \in Extract!Models : t \notin Extract!Opening(n)
  BY <1>1 DEF Extract!Opening
<1> HIDE DEF m, whole, r
<1>7. FailedRaced'
  BY <1>1, <1>2, <1>3 DEF FailedRaced, PassTyped, Extract!Model
<1>8. ASSUME NEW n \in {"denoiser", "content"} \ doubled'
      PROVE  OpenedAlone(n)'
  <2>1. n \notin doubled /\ OpenedAlone(n) /\ n \in Extract!Models
    BY <1>1, FieldsAre DEF SharedSafe
  <2>2. \A u \in Threads : u # t => passer'[u] = passer[u] /\ Extract!Model(u)' = Extract!Model(u)
    BY <1>2 DEF PassTyped, Extract!Model
  <2>3. passer'[t] = r /\ Extract!Model(t)' = m
    BY <1>2, <1>4 DEF PassTyped, Extract!Model
  <2>4. CASE n # m
    <3>1. Extract!Opening(n)' = Extract!Opening(n)
      BY <1>6, <2>1, <2>2, <2>3, <2>4 DEF Extract!Opening
    <3>2. \A u \in Extract!Opening(n) : passer'[u].field = passer[u].field
      BY <1>6, <2>1, <2>2 DEF Extract!Opening
    <3>3. \A u \in Threads : passer'[u].at = "run" /\ Extract!Model(u)' = n => passer[u].at = "run" /\ Extract!Model(u) = n
      BY <2>2, <2>3, <2>4
    <3>4. fields'[n][None] = fields[n][None] /\ opens'[n] = opens[n] /\ faults' >= faults
      BY <1>1, <1>4, <2>1, <2>4 DEF PassTyped
    <3> QED
      BY <2>1, <3>1, <3>2, <3>3, <3>4, AloneKept
  <2>5. CASE n = m
    <3>1. Extract!Opening(n) = {} /\ doubled' = doubled
      BY <1>1, <2>5
    <3>2. /\ fields' = fields /\ faults' = faults /\ faults \in Nat /\ opens[n] \in Nat
          /\ (whole <=> Extract!Looks(n) \subseteq fields[n][None])
      BY <1>1, <1>4, <1>5, <2>5 DEF whole, PassTyped
    <3>3. Extract!Looks(n)' = Extract!Looks(n) /\ LastLook(n)' = LastLook(n) /\ Extract!Fields(n)' = Extract!Fields(n)
      BY DEF Extract!Looks, LastLook, Extract!Fields
    <3>4. /\ opens[n] <= faults + 1 /\ (~whole => opens[n] <= faults)
          /\ (Extract!Fields(n)[LastLook(n)] \in fields[n][None] => Extract!Looks(n) \subseteq fields[n][None])
          /\ (whole => fields[n][None] = Extract!ToSet(Extract!Fields(n)))
          /\ \A u \in Threads : passer[u].at = "run" /\ Extract!Model(u) = n => fields[n][None] = Extract!ToSet(Extract!Fields(n))
      BY <2>1, <2>5, <3>1, <3>2 DEF OpenedAlone
    <3>5. Extract!Opening(n)' = IF whole THEN {} ELSE {t}
      BY <1>3, <2>2, <2>3, <2>5, <3>1 DEF Extract!Opening
    <3>6. opens'[n] = IF whole THEN opens[n] ELSE opens[n] + 1
      BY <1>1, <1>4, <2>5 DEF PassTyped
    <3>7. \A u \in Threads : passer'[u].at = "run" /\ Extract!Model(u)' = n => fields[n][None] = Extract!ToSet(Extract!Fields(n))
      BY <1>3, <2>2, <2>3, <2>5, <3>4
    <3>8. \A u \in Extract!Opening(n)' : /\ \A j \in 1..(passer'[u].field - 1) : Extract!Fields(n)[j] \in fields[n][None]
                                         /\ passer'[u].field <= LastLook(n) => Extract!Fields(n)[LastLook(n)] \notin fields[n][None]
      BY <1>3, <2>3, <3>2, <3>4, <3>5
    <3> QED
      BY <2>5, <3>1, <3>2, <3>3, <3>4, <3>5, <3>6, <3>7, <3>8 DEF OpenedAlone
  <2> QED
    BY <2>4, <2>5
<1> QED
  BY <1>7, <1>8 DEF SharedSafe

LEMMA SetShared ==
  ASSUME Extract!ExtractAssumption, PassTyped, PassTyped', HandsSafe, SharedSafe, FailedRaced, NEW t \in Threads, Extract!SetField(t)
  PROVE  SharedSafe' /\ FailedRaced'
<1> DEFINE m == Extract!Model(t)
           k == passer[t].field
           f == Extract!Fields(m)[k]
           o == Extract!Owner(t, m)
           last == k = Len(Extract!Fields(m))
           r == [at |-> IF last THEN "run" ELSE "open", model |-> passer[t].model, field |-> k + 1, passes |-> passer[t].passes]
<1>1. passer[t].at = "open" /\ UNCHANGED <<opens, cache, mine, doubled, faults>>
  BY DEF Extract!SetField
<1>2. /\ passer' = [passer EXCEPT ![t] = r]
      /\ \A n \in Extract!Models, x \in Threads \cup {None} :
           fields'[n][x] = IF n = m /\ x = o THEN fields[n][x] \cup {f} ELSE fields[n][x]
  BY SetGoes
<1>3. m \in Extract!Models /\ k \in 1..Len(Extract!Fields(m)) /\ passer[t].model \in 1..3
  BY <1>1, FieldsAre DEF PassTyped, Extract!Model
<1>4. /\ r \in [at : {"idle", "look", "keep", "open", "run", "failed"}, model : 1..3, field : Nat, passes : Nat]
      /\ r.model = passer[t].model /\ r.field = k + 1 /\ r.at = IF last THEN "run" ELSE "open"
  BY <1>3 DEF PassTyped
<1>5. m = Extract!Order[r.model]
  BY <1>4 DEF Extract!Model
<1>6. m # "pitch" => o = None
  BY DEF Extract!Owner
<1> HIDE DEF m, k, f, o, last, r
<1>7. FailedRaced'
  BY <1>1, <1>2, <1>4 DEF FailedRaced, PassTyped, Extract!Model
<1>8. ASSUME NEW n \in {"denoiser", "content"} \ doubled'
      PROVE  OpenedAlone(n)'
  <2>1. n \notin doubled /\ OpenedAlone(n) /\ n \in Extract!Models /\ None \in Threads \cup {None}
    BY <1>1, FieldsAre DEF SharedSafe
  <2>2. \A u \in Threads : u # t => passer'[u] = passer[u] /\ Extract!Model(u)' = Extract!Model(u)
    BY <1>2 DEF PassTyped, Extract!Model
  <2>3. passer'[t] = r /\ Extract!Model(t)' = m
    BY <1>2, <1>5 DEF PassTyped, Extract!Model
  <2>4. CASE n # m
    <3>1. Extract!Opening(n)' = Extract!Opening(n) /\ t \notin Extract!Opening(n)
      BY <2>2, <2>3, <2>4 DEF Extract!Opening, m
    <3>2. \A u \in Extract!Opening(n) : passer'[u].field = passer[u].field
      BY <2>2, <3>1 DEF Extract!Opening
    <3>3. \A u \in Threads : passer'[u].at = "run" /\ Extract!Model(u)' = n => passer[u].at = "run" /\ Extract!Model(u) = n
      BY <2>2, <2>3, <2>4
    <3>4. fields'[n][None] = fields[n][None] /\ opens'[n] = opens[n] /\ faults' >= faults
      <4>1. fields'[n][None] = fields[n][None]
        BY <1>2, <2>1, <2>4
      <4> QED
        BY <1>1, <4>1 DEF PassTyped
    <3> QED
      BY <2>1, <3>1, <3>2, <3>3, <3>4, AloneKept
  <2>5. CASE n = m
    <3>1. Extract!Opening(n) = {t} /\ passer[t].field = k
      <4>1. t \in Extract!Opening(n)
        BY <1>1, <2>5 DEF Extract!Opening, m
      <4> QED
        BY <2>1, <4>1 DEF OpenedAlone, k
    <3>2. /\ opens' = opens /\ faults' = faults /\ faults \in Nat /\ opens[n] \in Nat
          /\ fields'[n][None] = fields[n][None] \cup {f} /\ f = Extract!Fields(n)[k] /\ k \in 1..Len(Extract!Fields(n))
          /\ fields[n][None] \subseteq Extract!ToSet(Extract!Fields(n))
      BY <1>1, <1>2, <1>3, <1>6, <2>1, <2>5 DEF PassTyped, f
    <3>3. Extract!Looks(n)' = Extract!Looks(n) /\ LastLook(n)' = LastLook(n) /\ Extract!Fields(n)' = Extract!Fields(n)
      BY DEF Extract!Looks, LastLook, Extract!Fields
    <3>4. /\ opens[n] <= faults + 1
          /\ \A u \in Threads : passer[u].at = "run" /\ Extract!Model(u) = n => fields[n][None] = Extract!ToSet(Extract!Fields(n))
          /\ \A j \in 1..(k - 1) : Extract!Fields(n)[j] \in fields[n][None]
          /\ k <= LastLook(n) => Extract!Fields(n)[LastLook(n)] \notin fields[n][None]
          /\ Extract!Fields(n)[LastLook(n)] \in fields[n][None] => Extract!Looks(n) \subseteq fields[n][None]
      BY <2>1, <3>1 DEF OpenedAlone
    <3>5. \A j \in 1..k : Extract!Fields(n)[j] \in fields'[n][None]
      BY <3>2, <3>4
    <3>6. last => fields'[n][None] = Extract!ToSet(Extract!Fields(n))
      <4>1. last => k = Len(Extract!Fields(n))
        BY <2>5 DEF last
      <4>2. CASE n = "denoiser"
        <5>1. Extract!Fields(n) = <<"session_1", "session_2", "io", "state">> /\ Extract!ToSet(Extract!Fields(n)) = {"session_1", "session_2", "io", "state"}
          BY <4>2, FieldsAre
        <5>2. last => {Extract!Fields(n)[1], Extract!Fields(n)[2], Extract!Fields(n)[3], Extract!Fields(n)[4]} \subseteq fields'[n][None]
          BY ONLY <3>5, <4>1, <5>1
        <5>3. fields'[n][None] \subseteq Extract!ToSet(Extract!Fields(n))
          BY <3>2, <5>1
        <5> QED
          BY ONLY <5>1, <5>2, <5>3
      <4>3. CASE n = "content"
        <5>1. Extract!Fields(n) = <<"session", "names", "input">> /\ Extract!ToSet(Extract!Fields(n)) = {"session", "names", "input"}
          BY <4>3, FieldsAre
        <5>2. last => {Extract!Fields(n)[1], Extract!Fields(n)[2], Extract!Fields(n)[3]} \subseteq fields'[n][None]
          BY ONLY <3>5, <4>1, <5>1
        <5>3. fields'[n][None] \subseteq Extract!ToSet(Extract!Fields(n))
          BY <3>2, <5>1
        <5> QED
          BY ONLY <5>1, <5>2, <5>3
      <4> QED
        BY <4>2, <4>3
    <3>7. k + 1 <= LastLook(n) => Extract!Fields(n)[LastLook(n)] \notin fields'[n][None]
      BY <3>2, <3>4, FieldsAre DEF LastLook
    <3>8. Extract!Fields(n)[LastLook(n)] \in fields'[n][None] => Extract!Looks(n) \subseteq fields'[n][None]
      BY <3>2, <3>4, <3>5, FieldsAre DEF LastLook
    <3>9. Extract!Opening(n)' = IF last THEN {} ELSE {t}
      BY <1>4, <2>2, <2>3, <2>5, <3>1 DEF Extract!Opening
    <3>10. \A u \in Threads : passer'[u].at = "run" /\ Extract!Model(u)' = n => fields'[n][None] = Extract!ToSet(Extract!Fields(n))
      <4>1. f \in Extract!ToSet(Extract!Fields(n))
        BY <3>2, FieldsAre
      <4>2. ASSUME NEW u \in Threads \ {t}, passer'[u].at = "run", Extract!Model(u)' = n
            PROVE  fields'[n][None] = Extract!ToSet(Extract!Fields(n))
        BY <2>2, <3>2, <3>4, <4>1, <4>2
      <4>3. passer'[t].at = "run" => fields'[n][None] = Extract!ToSet(Extract!Fields(n))
        BY <1>4, <2>3, <3>6
      <4> QED
        BY <4>2, <4>3
    <3>11. \A u \in Extract!Opening(n)' : /\ \A j \in 1..(passer'[u].field - 1) : Extract!Fields(n)[j] \in fields'[n][None]
                                          /\ passer'[u].field <= LastLook(n) => Extract!Fields(n)[LastLook(n)] \notin fields'[n][None]
      BY <1>4, <2>3, <3>2, <3>5, <3>7, <3>9
    <3>12. Extract!Looks(n) \subseteq Extract!ToSet(Extract!Fields(n))
      BY FieldsAre
    <3> QED
      BY <3>2, <3>3, <3>4, <3>6, <3>8, <3>9, <3>10, <3>11, <3>12 DEF OpenedAlone
  <2> QED
    BY <2>4, <2>5
<1> QED
  BY <1>7, <1>8 DEF SharedSafe

LEMMA FailShared ==
  ASSUME Extract!ExtractAssumption, PassTyped, PassTyped', HandsSafe, SharedSafe, FailedRaced, NEW t \in Threads, Extract!OpenFails(t)
  PROVE  SharedSafe' /\ FailedRaced'
<1> DEFINE m == Extract!Model(t)
           k == passer[t].field
<1>1. /\ passer[t].at = "open" /\ UNCHANGED <<fields, opens, cache, doubled>> /\ faults' = faults + 1
      /\ Extract!Goto(t, "idle") /\ Extract!Fields(m)[k] \in {"session_1", "session_2", "session", "impl"}
  BY DEF Extract!OpenFails
<1>2. PICK r \in [at : {"idle"}, model : 1..3, field : Nat, passes : Nat] :
        passer' = [passer EXCEPT ![t] = r] /\ r.at = "idle" /\ r.model = passer[t].model
  BY <1>1, PassGoes
<1>3. m \in Extract!Models /\ k \in 1..Len(Extract!Fields(m))
  <2>1. m \in Extract!Models
    <3>1. passer[t].model \in 1..3
      BY DEF PassTyped
    <3> QED
      BY <3>1, FieldsAre DEF Extract!Model
  <2>2. k \in 1..Len(Extract!Fields(m))
    BY <1>1 DEF PassTyped
  <2> QED
    BY <2>1, <2>2
<1> HIDE DEF m, k
<1>4. FailedRaced'
  BY <1>1, <1>2 DEF FailedRaced, PassTyped, Extract!Model
<1>5. ASSUME NEW n \in {"denoiser", "content"} \ doubled'
      PROVE  OpenedAlone(n)'
  <2>1. n \notin doubled /\ OpenedAlone(n) /\ n \in Extract!Models
    BY <1>1, FieldsAre DEF SharedSafe
  <2>2. \A u \in Threads : u # t => passer'[u] = passer[u] /\ Extract!Model(u)' = Extract!Model(u)
    BY <1>2 DEF PassTyped, Extract!Model
  <2>3. passer'[t] = r /\ Extract!Model(t)' = m
    BY <1>2 DEF PassTyped, Extract!Model, m
  <2>4. /\ fields' = fields /\ opens' = opens /\ faults' = faults + 1 /\ faults \in Nat /\ opens[n] \in Nat
        /\ faults' >= faults
    BY <1>1, <2>1 DEF PassTyped
  <2>5. CASE n # m
    <3>1. Extract!Opening(n)' = Extract!Opening(n) /\ t \notin Extract!Opening(n)
      BY <1>2, <2>2, <2>3, <2>5 DEF Extract!Opening, m
    <3>2. \A u \in Extract!Opening(n) : passer'[u].field = passer[u].field
      BY <2>2, <3>1 DEF Extract!Opening
    <3>3. \A u \in Threads : passer'[u].at = "run" /\ Extract!Model(u)' = n => passer[u].at = "run" /\ Extract!Model(u) = n
      BY <1>2, <2>2, <2>3
    <3>4. fields'[n][None] = fields[n][None] /\ opens'[n] = opens[n]
      BY <2>4
    <3> QED
      BY <2>1, <2>4, <3>1, <3>2, <3>3, <3>4, AloneKept
  <2>6. CASE n = m
    <3>1. Extract!Opening(n) = {t} /\ passer[t].field = k
      <4>1. t \in Extract!Opening(n)
        BY <1>1, <2>6 DEF Extract!Opening, m
      <4> QED
        BY <2>1, <4>1 DEF OpenedAlone, k
    <3>2. k <= LastLook(n)
      BY <1>1, <1>3, <2>6, FieldsAre DEF LastLook
    <3>3. /\ opens[n] <= faults + 1
          /\ \A u \in Threads : passer[u].at = "run" /\ Extract!Model(u) = n => fields[n][None] = Extract!ToSet(Extract!Fields(n))
          /\ Extract!Fields(n)[LastLook(n)] \notin fields[n][None]
      BY <2>1, <3>1, <3>2 DEF OpenedAlone
    <3>4. ~(Extract!Looks(n) \subseteq fields[n][None])
      BY <3>3, FieldsAre DEF LastLook
    <3>5. Extract!Opening(n)' = {}
      BY <1>2, <2>2, <2>3, <3>1 DEF Extract!Opening
    <3>6. \A u \in Threads : passer'[u].at = "run" /\ Extract!Model(u)' = n => fields[n][None] = Extract!ToSet(Extract!Fields(n))
      BY <1>2, <2>2, <2>3, <3>3
    <3>7. Extract!Looks(n)' = Extract!Looks(n) /\ LastLook(n)' = LastLook(n) /\ Extract!Fields(n)' = Extract!Fields(n)
      BY DEF Extract!Looks, LastLook, Extract!Fields
    <3> QED
      BY <2>4, <3>3, <3>4, <3>5, <3>6, <3>7 DEF OpenedAlone
  <2> QED
    BY <2>5, <2>6
<1> QED
  BY <1>4, <1>5 DEF SharedSafe

LEMMA ExtractStep == Extract!ExtractAssumption /\ ExtractSafe /\ [Extract!Next]_(Extract!vars) => ExtractSafe'
<1> SUFFICES ASSUME Extract!ExtractAssumption, PassTyped, HandsSafe, PitchOpened, SharedSafe, FailedRaced, [Extract!Next]_(Extract!vars)
             PROVE  PassTyped' /\ HandsSafe' /\ PitchOpened' /\ SharedSafe' /\ FailedRaced'
  BY DEF ExtractSafe
<1>1. CASE UNCHANGED Extract!vars
  <2>1. PassTyped' /\ HandsSafe' /\ FailedRaced'
    BY <1>1 DEF Extract!vars, PassTyped, HandsSafe, InHand, Extract!Model, FailedRaced
  <2>2. PairsLeft' = PairsLeft /\ Pairs' = Pairs
    BY <1>1 DEF Extract!vars, PairsLeft, Pairs, MayOpen, OpensOf
  <2>3. ASSUME NEW m \in {"denoiser", "content"} \ doubled
        PROVE  OpenedAlone(m)'
    <3>1. fields' = fields /\ opens' = opens /\ passer' = passer /\ faults' = faults /\ faults \in Nat
      BY <1>1 DEF Extract!vars, PassTyped
    <3>2. Extract!Opening(m)' = Extract!Opening(m) /\ \A u \in Threads : Extract!Model(u)' = Extract!Model(u)
      BY <3>1 DEF Extract!Opening, Extract!Model
    <3>3. OpenedAlone(m) /\ faults' >= faults
      BY <3>1 DEF SharedSafe
    <3> QED
      BY <2>1, <3>1, <3>2, <3>3, AloneKept
  <2> QED
    BY <1>1, <2>1, <2>2, <2>3 DEF Extract!vars, PitchOpened, SharedSafe
<1>2. CASE Extract!Next
  <2>1. PICK t \in Threads :
          \/ \E d \in BOOLEAN : Extract!Begin(t, d)
          \/ Extract!FindExtractor(t) \/ Extract!KeepExtractor(t) \/ Extract!Look(t) \/ Extract!SetField(t)
          \/ Extract!OpenFails(t) \/ Extract!RunModel(t) \/ Extract!Recover(t)
    BY <1>2 DEF Extract!Next
  <2>2. CASE \E d \in BOOLEAN : Extract!Begin(t, d)
    BY <2>2, BeginHands, BeginShared
  <2>3. CASE Extract!FindExtractor(t)
    BY <2>3, FindHands, BeginShared
  <2>4. CASE Extract!KeepExtractor(t)
    BY <2>4, KeepHands, BeginShared
  <2>5. CASE Extract!Look(t)
    BY <2>5, LookHands, LookShared
  <2>6. CASE Extract!SetField(t)
    BY <2>6, SetHands, SetShared
  <2>7. CASE Extract!OpenFails(t)
    BY <2>7, FailHands, FailShared
  <2>8. CASE Extract!RunModel(t) \/ Extract!Recover(t)
    BY <2>8, RunHands, BeginShared
  <2> QED
    BY <2>1, <2>2, <2>3, <2>4, <2>5, <2>6, <2>7, <2>8
<1> QED
  BY <1>1, <1>2

LEMMA ExtractTrue == Extract!ExtractAssumption /\ ExtractSafe => Extract!TypeOK /\ Extract!HalfOpenRaced /\ Extract!OpenedOnce
<1> SUFFICES ASSUME Extract!ExtractAssumption, PassTyped, HandsSafe, PitchOpened, SharedSafe, FailedRaced
             PROVE  Extract!TypeOK /\ Extract!HalfOpenRaced /\ Extract!OpenedOnce
  BY DEF ExtractSafe
<1>1. Extract!TypeOK
  BY DEF PassTyped, Extract!TypeOK, HandsSafe, InHand, Extract!ExtractAssumption
<1>2. Extract!HalfOpenRaced
  BY DEF Extract!HalfOpenRaced, FailedRaced
<1>3. ASSUME NEW m \in Extract!Models \ (doubled \cup {"pitch"})
      PROVE  opens[m] <= 1 + faults
  BY <1>3, FieldsAre DEF SharedSafe, OpenedAlone, PassTyped
<1>4. opens["pitch"] <= Cardinality(Pairs) + faults
  <2>1. opens["pitch"] \in Nat /\ faults \in Nat
    BY FieldsAre DEF PassTyped
  <2> QED
    BY <2>1, PairsFinite DEF PitchOpened
<1> QED
  BY <1>1, <1>2, <1>3, <1>4, SharedCardinality DEF Extract!OpenedOnce, Pairs

-----------------------------------------------------------------------------
(* Together.                                                               *)

\* Each component keeps what it counts on, while the others stand still.
ServicesSafe ==
  /\ which = "runtime" => RuntimeSafe
  /\ which = "feed" => FeedSafe
  /\ which = "settings" => SettingsSafe
  /\ which = "gate" => GateSafe
  /\ which = "lifespan" => StagesSafe
  /\ which = "tuning" => TuningSafe
  /\ which = "engine" => EngineSafe
  /\ which = "recorder" => RecorderSafe
  /\ which = "voicedesk" => DeskSafe
  /\ which = "extract" => ExtractSafe

LEMMA ServicesInvariant == ASSUME ServicesAssumption PROVE Spec => []ServicesSafe
<1>0. /\ Runtime!RuntimeAssumption /\ Feed!FeedAssumption /\ Settings!SettingsAssumption
      /\ Gate!GateAssumption /\ Tuning!TuningAssumption /\ Engine!EngineAssumption
      /\ Recorder!RecorderAssumption /\ Desk!VoiceDeskAssumption /\ Extract!ExtractAssumption
  BY DEF ServicesAssumption
<1>1. Init => ServicesSafe
  BY <1>0, RuntimeInit, FeedInit, SettingsInit, GateInit, StagesInit, TuningInit, EngineInit,
     RecorderInit, DeskInit, ExtractInit
     DEF Init, ServicesSafe
<1>2. ServicesSafe /\ [Next]_vars => ServicesSafe'
  <2> SUFFICES ASSUME ServicesSafe, [Next]_vars PROVE ServicesSafe'
    OBVIOUS
  <2>1. /\ which' = which
        /\ which = "runtime" => [Runtime!Next]_(Runtime!vars)
        /\ which = "feed" => [Feed!Next]_(Feed!vars)
        /\ which = "settings" => [Settings!Next]_(Settings!vars)
        /\ which = "gate" => [Gate!Next]_(Gate!vars)
        /\ which = "lifespan" => [Stages!Next]_(Stages!vars)
    BY DEF Next, vars, otherVars, serverVars, runtimeVars, feedVars, settingsVars, gateVars, stagesVars,
       Runtime!vars, Feed!vars, Settings!vars, Gate!vars, Stages!vars
  <2>2. /\ which = "tuning" => [Tuning!Next]_(Tuning!vars)
        /\ which = "engine" => [Engine!Next]_(Engine!vars)
        /\ which = "recorder" => [Recorder!Next]_(Recorder!vars)
        /\ which = "extract" => [Extract!Next]_(Extract!vars)
    BY DEF Next, vars, voiceVars, tuningVars, engineVars, recorderVars, extractVars,
       Tuning!vars, Tuning!settings, Tuning!presets, Engine!vars, Recorder!vars, Extract!vars
  <2>3. which = "voicedesk" => Desk!Next \/ UNCHANGED deskVars
    BY DEF Next, vars, voiceVars
  <2>4. CASE which = "runtime"
    BY <1>0, <2>1, <2>4, RuntimeStep DEF ServicesSafe
  <2>5. CASE which = "feed"
    BY <1>0, <2>1, <2>5, FeedStep DEF ServicesSafe
  <2>6. CASE which = "settings"
    BY <1>0, <2>1, <2>6, SettingsStep DEF ServicesSafe
  <2>7. CASE which = "gate"
    BY <1>0, <2>1, <2>7, GateStep DEF ServicesSafe
  <2>8. CASE which = "lifespan"
    BY <2>1, <2>8, StagesStep DEF ServicesSafe
  <2>9. CASE which = "tuning"
    BY <1>0, <2>1, <2>2, <2>9, TuningStep DEF ServicesSafe
  <2>10. CASE which = "engine"
    BY <1>0, <2>1, <2>2, <2>10, EngineStep DEF ServicesSafe
  <2>11. CASE which = "recorder"
    BY <1>0, <2>1, <2>2, <2>11, RecorderStep DEF ServicesSafe
  <2>12. CASE which = "voicedesk"
    BY <1>0, <2>1, <2>3, <2>12, DeskStep, DeskRests DEF ServicesSafe
  <2>13. CASE which = "extract"
    BY <1>0, <2>1, <2>2, <2>13, ExtractStep DEF ServicesSafe
  <2>14. CASE which \notin {"runtime", "feed", "settings", "gate", "lifespan", "tuning", "engine", "recorder",
                           "voicedesk", "extract"}
    BY <2>1, <2>14 DEF ServicesSafe
  <2> QED
    BY <2>4, <2>5, <2>6, <2>7, <2>8, <2>9, <2>10, <2>11, <2>12, <2>13, <2>14
<1> QED
  BY <1>1, <1>2, PTL DEF Spec

\* Whatever requests install, activate and remove builds, unless they overlap or a
\* crash tears the file: the active build is on disk and in the settings, never
\* pruned, and between requests no more than Keep builds are kept, each with its
\* folder.
THEOREM BuildsKept == ASSUME ServicesAssumption PROVE Spec => []BuildsTrue
<1>1. ServicesSafe => BuildsTrue
  BY RuntimeTrue DEF ServicesSafe, BuildsTrue, ServicesAssumption
<1> QED
  BY <1>1, ServicesInvariant, PTL

\* However many changes, events that were dropped, connections lost and answers in
\* any order: a tab where nothing is under way shows the server's state, unless the
\* connection's history says why it may not.
THEOREM TabShowsState == ASSUME ServicesAssumption PROVE Spec => []TabConverges
<1>1. ServicesSafe => TabConverges
  BY FeedTrue DEF ServicesSafe, TabConverges, ServicesAssumption
<1> QED
  BY <1>1, ServicesInvariant, PTL

\* Runtime never gets ahead of the file, and what a save was answered for is what
\* the application uses after any number of restarts and losses of power; the same of
\* the updates of the voice engine, one setting or many, that fail or are cut; and
\* however the requests that create, change and delete presets overlap, none is lost.
THEOREM SettingsKept == ASSUME ServicesAssumption PROVE Spec => []DurableTrue
<1>1. ServicesSafe => DurableTrue
  BY SettingsTrue, TuningTrue DEF ServicesSafe, DurableTrue, ServicesAssumption
<1> QED
  BY <1>1, ServicesInvariant, PTL

\* Any number of conversions and sessions, models and switches: who speaks is who was
\* asked for, unless loads overlapped, and a session's denoiser heard no other voice.
\* However many recordings are started and stopped at any moment of a session and by
\* several requests: a saved take is the whole of what was played in it and is saved
\* once, and an MP3 is served whole.  Whatever happens to files and to the setting
\* while files are converted: the answer is a whole file by the voice that was asked
\* for, no upload is left behind but by a client that goes while it is copied, and
\* the checks of the request leave nothing to refuse to its thread.  However many
\* threads share the models of a pass: one fails on a half-open model only if two
\* opened it at a time, and a model is opened again only after an open that failed,
\* an extractor once by each thread that made it or has it.
THEOREM VoicesSpeak == ASSUME ServicesAssumption PROVE Spec => []SpeaksTrue
<1>1. ServicesSafe => SpeaksTrue
  BY EngineTrue, RecorderTrue, DeskTrue, ExtractTrue DEF ServicesSafe, SpeaksTrue, ServicesAssumption
<1> QED
  BY <1>1, ServicesInvariant, PTL

\* Whatever is served goes back to the token of this start or to a session made for
\* it; and a stop of the application, whatever is late or fails in it, lets one job
\* begin at most and leaves no server on the GPU that the next start does not reap
\* before its worker.
THEOREM ServedRightly == ASSUME ServicesAssumption PROVE Spec => []ServingTrue
<1>1. ServicesSafe => ServingTrue
  BY GateTrue, StagesTrue DEF ServicesSafe, ServingTrue, ServicesAssumption
<1> QED
  BY <1>1, ServicesInvariant, PTL

-----------------------------------------------------------------------------
(* The types of the variables, the bounds of what they count included.     *)

\* One install runs, and the status says so.
Installs ==
  /\ calls <= MaxCalls /\ binary \in Builds \cup {None}
  /\ install \in {"idle", "running", "done", "error"}
  /\ \A b \in Builds : installed.stamp[b] <= calls /\ \A c \in Callers : call[c].read.stamp[b] <= calls
  /\ \A c \in Callers : call[c].step # "idle" /\ call[c].op = "install" =>
       /\ install = "running"
       /\ \A d \in Callers : call[d].step # "idle" /\ call[d].op = "install" => d = c

\* The other requests go on as they were, and the one that moved installs only if it did.
Kin(c) ==
  /\ \A d \in Callers : d # c => call'[d] = call[d]
  /\ call'[c].step # "idle" /\ call'[c].op = "install" => call[c].step # "idle" /\ call[c].op = "install"

LEMMA KinStays ==
  ASSUME RuntimeTyped, Installs, NEW c \in Callers, Kin(c), calls' = calls, UNCHANGED <<install, binary>>,
         \A b \in Builds : installed'.stamp[b] <= calls /\ call'[c].read.stamp[b] <= calls
  PROVE  Installs'
<1>1. \A d \in Callers, b \in Builds : call'[d].read.stamp[b] <= calls
  BY DEF Kin, Installs
<1>2. \A d \in Callers : call'[d].step # "idle" /\ call'[d].op = "install" =>
        call[d].step # "idle" /\ call[d].op = "install"
  BY DEF Kin
<1> QED
  BY <1>1, <1>2 DEF Installs

LEMMA InstallsStep ==
  Runtime!RuntimeAssumption /\ RuntimeTyped /\ Installs /\ [Runtime!Next]_(Runtime!vars) => Installs'
<1> SUFFICES ASSUME Runtime!RuntimeAssumption, RuntimeTyped, Installs, [Runtime!Next]_(Runtime!vars)
             PROVE  Installs'
  OBVIOUS
<1>0. call \in Requested /\ installed \in Files /\ calls \in Nat
  BY DEF RuntimeTyped
<1>1. CASE UNCHANGED Runtime!vars
  BY <1>1 DEF Runtime!vars, Installs
<1>2. CASE Runtime!Restart
  <2>1. \A b \in Builds : installed'.stamp[b] <= calls
    BY <1>0, <1>2 DEF Runtime!Restart, Runtime!NoFile, Installs
  <2>2. \A c \in Callers : call'[c] = Runtime!Fresh
    BY <1>2 DEF Runtime!Restart
  <2>3. /\ install' = "idle" /\ calls' = calls
        /\ binary' \in {None, installed'.active} /\ installed'.active \in Builds \cup {None}
    BY <1>0, <1>2 DEF Runtime!Restart, Runtime!NoFile, Files
  <2> QED
    BY <1>0, <2>1, <2>2, <2>3 DEF Installs, Runtime!Fresh, Runtime!NoFile
<1>3. ASSUME NEW c \in Callers, Runtime!Begin(c) PROVE Installs'
  <2>1. PICK o \in {"install", "activate", "remove"}, b \in Builds :
          /\ o = "install" => install # "running"
          /\ install' = IF o = "install" THEN "running" ELSE install
          /\ call' = [call EXCEPT ![c] =
               [op |-> o, build |-> b, step |-> IF o = "install" THEN "fetch" ELSE "read", read |-> Runtime!NoFile]]
    BY <1>3 DEF Runtime!Begin
  <2>2. calls < MaxCalls /\ calls' = calls + 1 /\ UNCHANGED <<installed, binary>>
    BY <1>3 DEF Runtime!Begin
  <2>3. /\ call'[c].op = o /\ call'[c].read = Runtime!NoFile
        /\ \A d \in Callers : d # c => call'[d] = call[d]
    BY <1>0, <2>1 DEF Requested
  <2>4. \A x \in Builds : installed'.stamp[x] <= calls' /\ \A d \in Callers : call'[d].read.stamp[x] <= calls'
    BY <1>0, <2>2, <2>3 DEF Installs, Runtime!NoFile, Files, Requested
  <2>5. o = "install" => \A d \in Callers : call[d].step = "idle" \/ call[d].op # "install"
    BY <2>1 DEF Installs
  <2>6. install' \in {"idle", "running", "done", "error"} /\ calls' <= MaxCalls
    BY <1>0, <2>1, <2>2 DEF Installs, Runtime!RuntimeAssumption
  <2>7. \A d \in Callers : call'[d].step # "idle" /\ call'[d].op = "install" =>
          /\ install' = "running"
          /\ \A e \in Callers : call'[e].step # "idle" /\ call'[e].op = "install" => e = d
    BY <2>1, <2>3, <2>5 DEF Installs
  <2> QED
    BY <2>2, <2>4, <2>6, <2>7 DEF Installs
<1>4. ASSUME NEW c \in Callers,
             \/ Runtime!Clear(c) \/ Runtime!Move(c) \/ Runtime!Read(c) \/ Runtime!Erase(c) \/ Runtime!PruneReads(c)
             \/ Runtime!PruneDrops(c)
      PROVE  Installs'
  <2>1. /\ UNCHANGED <<installed, calls, install, binary>>
        /\ Runtime!Over(c) \/ \E s \in Steps : Runtime!Step(c, s) \/ Runtime!StepRead(c, s)
        /\ call[c].step # "idle"
    BY <1>4 DEF Runtime!Clear, Runtime!Move, Runtime!Read, Runtime!Erase, Runtime!PruneReads, Runtime!PruneDrops,
       Steps
  <2>2. Kin(c) /\ call'[c].read \in {call[c].read, installed, Runtime!NoFile}
    BY <1>0, <2>1, Moves DEF Kin, Moved, Runtime!Over, Runtime!Fresh, Requested
  <2>3. \A b \in Builds : installed'.stamp[b] <= calls /\ call'[c].read.stamp[b] <= calls
    BY <1>0, <2>1, <2>2 DEF Installs, Runtime!NoFile
  <2> QED
    BY <2>1, <2>2, <2>3, KinStays
<1>5. ASSUME NEW c \in Callers, Runtime!Write(c) \/ Runtime!PruneWrites(c) PROVE Installs'
  <2>1. /\ UNCHANGED <<calls, install, binary>> /\ call[c].step # "idle"
        /\ Runtime!Over(c) \/ \E s \in Steps : Runtime!Step(c, s)
    BY <1>5 DEF RuntimeTyped, OnItsWay, Runtime!Write, Runtime!PruneWrites, Steps
  <2>2. Kin(c) /\ call'[c].read \in {call[c].read, Runtime!NoFile}
    BY <1>0, <2>1, Moves DEF Kin, Moved, Runtime!Over, Runtime!Fresh, Requested
  <2>3. \A b \in Builds : installed'.stamp[b] \in {call[c].read.stamp[b], calls, 0}
    <3>1. call[c].read \in Files
      BY <1>0 DEF Requested
    <3>2. CASE Runtime!PruneWrites(c)
      BY <3>1, <3>2 DEF Runtime!PruneWrites, Files
    <3>3. CASE Runtime!Write(c)
      <4>1. call[c].op \in {"install", "activate", "remove"}
        BY <3>3 DEF RuntimeTyped, OnItsWay, Runtime!Write
      <4>2. CASE call[c].op = "install"
        BY <3>1, <3>3, <4>2 DEF Runtime!Write, Files
      <4>3. CASE call[c].op = "activate"
        BY <3>1, <3>3, <4>3 DEF Runtime!Write, Files
      <4>4. CASE call[c].op = "remove"
        BY <3>1, <3>3, <4>4 DEF Runtime!Write, Files
      <4> QED
        BY <4>1, <4>2, <4>3, <4>4
    <3> QED
      BY <1>5, <3>2, <3>3
  <2>4. \A b \in Builds : installed'.stamp[b] <= calls /\ call'[c].read.stamp[b] <= calls
    BY <1>0, <2>2, <2>3 DEF Installs, Runtime!NoFile
  <2> QED
    BY <2>1, <2>2, <2>4, KinStays
<1>6. ASSUME NEW c \in Callers, Runtime!FetchFails(c) \/ Runtime!MoveFails(c) \/ Runtime!Apply(c) PROVE Installs'
  <2>1. /\ Runtime!Over(c) /\ UNCHANGED <<installed, calls>> /\ call[c].step # "idle"
        /\ install' \in {"idle", "running", "done", "error"}
        /\ call[c].op # "install" => install' = install
        /\ binary' \in Builds \cup {None}
    BY <1>0, <1>6 DEF RuntimeTyped, OnItsWay, Installs, Runtime!FetchFails, Runtime!MoveFails, Runtime!Apply,
       Runtime!Applied, Files
  <2>2. /\ \A d \in Callers : d # c => call'[d] = call[d]
        /\ call'[c].step = "idle" /\ call'[c].read = Runtime!NoFile
    BY <1>0, <2>1, Moves DEF Runtime!Over, Runtime!Fresh, Requested
  <2>3. \A b \in Builds : installed'.stamp[b] <= calls' /\ \A d \in Callers : call'[d].read.stamp[b] <= calls'
    BY <1>0, <2>1, <2>2 DEF Installs, Runtime!NoFile
  <2>4. \A d \in Callers : call'[d].step # "idle" /\ call'[d].op = "install" =>
          /\ d # c /\ call[d].step # "idle" /\ call[d].op = "install" /\ call[c].op # "install"
          /\ install' = "running"
    BY <2>1, <2>2 DEF Installs
  <2> QED
    BY <2>1, <2>2, <2>3, <2>4 DEF Installs
<1> QED
  BY <1>1, <1>2, <1>3, <1>4, <1>5, <1>6 DEF Runtime!Next

LEMMA RuntimeTypes == Runtime!RuntimeAssumption /\ RuntimeTyped /\ Installs => Runtime!TypeOK
<1> SUFFICES ASSUME Runtime!RuntimeAssumption, RuntimeTyped, Installs PROVE Runtime!TypeOK
  OBVIOUS
<1> DEFINE installing == {c \in Runtime!Busy : call[c].op = "install"}
<1>1. installed \in Files /\ folders \subseteq Builds /\ calls \in Nat /\ \A c \in Callers : OnItsWay(call[c])
  BY DEF RuntimeTyped
<1>2. \A c \in Runtime!Busy : call[c].op \in {"install", "activate", "remove"} /\ call[c].build \in Builds
  BY DEF RuntimeTyped, OnItsWay, Runtime!Busy
<1>3. installed.active \in Builds \cup {None} /\ installed.stamp \in [Builds -> 0..MaxCalls]
  <2>1. \A b \in Builds : installed.stamp[b] \in 0..MaxCalls
    BY <1>1 DEF Files, Installs, Runtime!RuntimeAssumption
  <2> QED
    BY <1>1, <2>1 DEF Files
<1>4. Runtime!Cardinality(installing) <= 1
  <2>1. CASE installing = {}
    BY <2>1, SameCardinality, FS_EmptySet
  <2>2. CASE installing # {}
    <3>1. PICK c \in installing : TRUE
      BY <2>2
    <3>2. installing = {c}
      BY <3>1 DEF Installs, Runtime!Busy
    <3>3. Cardinality({c}) = 1
      BY FS_Singleton
    <3> HIDE DEF installing
    <3> QED
      BY <3>2, <3>3, SameCardinality
  <2> QED
    BY <2>1, <2>2
<1> QED
  BY <1>1, <1>2, <1>3, <1>4 DEF Runtime!TypeOK, Installs

\* An event is owed for changes of the jobs only.
LEMMA FeedTypes ==
  ASSUME Feed!FeedAssumption
  PROVE  /\ Feed!Init => owed <= fact["jobs"]
         /\ FeedTyped /\ owed <= fact["jobs"] /\ [Feed!Next]_(Feed!vars) => (owed <= fact["jobs"])'
         /\ FeedTyped /\ owed <= fact["jobs"] => Feed!TypeOK
<1>1. Feed!Init => owed <= fact["jobs"]
  BY DEF Feed!Init, Feed!Topics
<1>2. ASSUME FeedTyped, owed <= fact["jobs"], [Feed!Next]_(Feed!vars) PROVE (owed <= fact["jobs"])'
  <2>1. fact["jobs"] \in Nat /\ owed \in Nat /\ fact \in [Feed!Topics -> 0..MaxChanges] /\ "jobs" \in Feed!Topics
    BY <1>2 DEF FeedTyped, Feed!Topics, Feed!FeedAssumption
  <2>2. CASE Feed!JobCommits
    BY <1>2, <2>1, <2>2 DEF Feed!JobCommits
  <2>3. CASE Feed!JobEvent
    BY <1>2, <2>1, <2>3 DEF Feed!JobEvent
  <2>4. CASE Feed!GpuChanges
    BY <1>2, <2>1, <2>4 DEF Feed!GpuChanges
  <2>5. CASE UNCHANGED <<fact, owed>>
    BY <1>2, <2>5
  <2> QED
    BY <1>2, <2>2, <2>3, <2>4, <2>5
       DEF Feed!Next, Feed!vars, Feed!Connect, Feed!Greet, Feed!Subscribe, Feed!Disconnect, Feed!Deliver,
           Feed!ServerReads, Feed!Respond, Feed!RefreshFails, Feed!Settle, Feed!SnapshotFails
<1>3. ASSUME FeedTyped, owed <= fact["jobs"] PROVE Feed!TypeOK
  BY <1>3 DEF FeedTyped, Feed!TypeOK, Feed!Topics, Feed!FeedAssumption
<1> QED
  BY <1>1, <1>2, <1>3

\* What the application counts and names beside StagesSafe; a job that began in the
\* gap, or is at work, was picked.
Counted ==
  /\ starts \in 0..MaxStarts /\ jobs \in 0..MaxJobs
  /\ worker \in {"none", "idle", "looking", "picked", "running", "ended"}
  /\ gpu \subseteq {"voice", "job"} \cup Stages!Servers /\ left \subseteq Stages!Servers
  /\ overdue \subseteq {Stages!Phases[i] : i \in DOMAIN Stages!Phases} \cup {"killed"}
  /\ surprise # 0 \/ worker = "picked" => jobs > 0
  /\ stage \in {"off", "serving"} => at = 0

LEMMA PhaseNumbers == DOMAIN Stages!Phases = 1..5
  BY DEF Stages!Phases

LEMMA CountedStep ==
  ASSUME Stages!LifespanAssumption, StagesSafe, Counted, [Stages!Next]_(Stages!vars)
  PROVE  Counted'
<1>0. MaxStarts \in Nat /\ MaxJobs \in Nat
  BY DEF Stages!LifespanAssumption
<1> USE <1>0 DEF Counted, Stages!Servers
<1>1. CASE Stages!Begin
  BY <1>1 DEF Stages!Begin
<1>2. CASE Stages!StartStep
  <2>1. /\ UNCHANGED <<starts, jobs, gpu, surprise>> /\ worker' \in {worker, "idle"}
        /\ left' \in {{}, left} /\ overdue' \in {{}, overdue}
        /\ stage' \in {"starting", "serving"} /\ (stage' = "serving" => at' = 0)
    BY <1>2 DEF Stages!StartStep
  <2> QED
    BY <2>1
<1>3. CASE Stages!StartFails
  BY <1>3 DEF Stages!StartFails
<1>4. CASE \E r \in Clients : Stages!Enter(r) \/ Stages!Leave(r)
  BY <1>4 DEF Stages!Enter, Stages!Leave
<1>5. CASE \E r \in Clients, what \in {"voice", "embedding"} : Stages!Use(r, what)
  BY <1>5 DEF Stages!Use
<1>6. CASE Stages!Look
  BY <1>6 DEF Stages!Look
<1>15. CASE Stages!Pick
  BY <1>15 DEF Stages!Pick
<1>7. CASE Stages!RunJob
  BY <1>7 DEF Stages!RunJob
<1>8. CASE Stages!EndJob
  BY <1>8 DEF Stages!EndJob
<1>9. CASE Stages!BeginStop
  BY <1>9 DEF Stages!BeginStop
<1>10. CASE Stages!PhaseEnds
  BY <1>10 DEF Stages!PhaseEnds
<1>11. CASE Stages!PhaseLate
  <2>1. DOMAIN Stages!Phases = 1..5
    BY PhaseNumbers
  <2>2. at \in 1..5
    BY <1>11, StopOrder DEF Stages!PhaseLate, StagesSafe, Standing
  <2> QED
    BY <1>11, <2>1, <2>2 DEF Stages!PhaseLate
<1>12. CASE \E p \in overdue : Stages!LateEnds(p)
  BY <1>12 DEF Stages!LateEnds
<1>13. CASE \E killed \in BOOLEAN : Stages!Exit(killed)
  BY <1>13 DEF Stages!Exit
<1>14. CASE UNCHANGED Stages!vars
  BY <1>14 DEF Stages!vars
<1> QED
  BY <1>1, <1>2, <1>3, <1>4, <1>5, <1>6, <1>7, <1>8, <1>9, <1>10, <1>11, <1>12, <1>13, <1>14,
     <1>15 DEF Stages!Next

LEMMA StagesTypes ==
  ASSUME Stages!LifespanAssumption
  PROVE  /\ Stages!Init => Counted
         /\ StagesSafe /\ Counted => Stages!TypeOK
<1>1. ASSUME Stages!Init PROVE Counted
  BY <1>1 DEF Counted, Stages!Init, Stages!LifespanAssumption
<1>2. ASSUME StagesSafe, Counted PROVE Stages!TypeOK
  <2>1. at \in 0..Len(Stages!Startup)
    BY <1>2, StartOrder DEF StagesSafe, Standing, Counted
  <2> QED
    BY <1>2, <2>1 DEF Stages!LifespanAssumption, StagesSafe, Standing, GapSafe, Counted, Stages!TypeOK
<1> QED
  BY <1>1, <1>2

LEMMA ServicesCount ==
  ASSUME ServicesAssumption
  PROVE  Spec => [](/\ which = "runtime" => Installs
                    /\ which = "feed" => owed <= fact["jobs"]
                    /\ which = "lifespan" => Counted)
<1> DEFINE Counts == /\ which = "runtime" => Installs
                     /\ which = "feed" => owed <= fact["jobs"]
                     /\ which = "lifespan" => Counted
<1>0. Runtime!RuntimeAssumption /\ Feed!FeedAssumption /\ Stages!LifespanAssumption
  BY DEF ServicesAssumption
<1>1. Init => Counts
  <2>1. Runtime!Init => Installs
    BY <1>0 DEF Runtime!Init, Runtime!RuntimeAssumption, Installs, Runtime!Fresh, Runtime!NoFile
  <2> QED
    BY <1>0, <2>1, FeedTypes, StagesTypes DEF Init
<1>2. ServicesSafe /\ Counts /\ [Next]_vars => Counts'
  <2> SUFFICES ASSUME ServicesSafe, Counts, [Next]_vars PROVE Counts'
    OBVIOUS
  <2>1. /\ which' = which
        /\ which = "runtime" => [Runtime!Next]_(Runtime!vars)
        /\ which = "feed" => [Feed!Next]_(Feed!vars)
        /\ which = "lifespan" => [Stages!Next]_(Stages!vars)
    BY DEF Next, vars, otherVars, serverVars, runtimeVars, feedVars, stagesVars,
       Runtime!vars, Feed!vars, Stages!vars
  <2>2. which = "runtime" => Installs'
    BY <1>0, <2>1, InstallsStep DEF ServicesSafe, RuntimeSafe
  <2>3. which = "feed" => (owed <= fact["jobs"])'
    BY <1>0, <2>1, FeedTypes DEF ServicesSafe, FeedSafe
  <2>4. which = "lifespan" => Counted'
    BY <1>0, <2>1, CountedStep DEF ServicesSafe
  <2> QED
    BY <2>1, <2>2, <2>3, <2>4
<1> QED
  BY <1>1, <1>2, ServicesInvariant, PTL DEF Spec

\* The variables of each component keep their types: one install runs at a time, the
\* queue of a subscriber keeps its bound, the documents of the settings are whole, and
\* so is what the history and the parts of the voice engine keep.
THEOREM ServicesTyped == ASSUME ServicesAssumption PROVE Spec => []ServicesTypeOK
<1>1. /\ ServicesSafe /\ RecordsSafe
      /\ which = "runtime" => Installs
      /\ which = "feed" => owed <= fact["jobs"]
      /\ which = "lifespan" => Counted
      => ServicesTypeOK
  BY RecordsTyped, RuntimeTypes, FeedTypes, StagesTypes, TuningTrue, EngineTrue, RecorderTrue, DeskTrue,
     ExtractTrue
     DEF ServicesAssumption, ServicesSafe, RuntimeSafe, FeedSafe, SettingsSafe, GateSafe, ServicesTypeOK
<1> QED
  BY <1>1, RecordsInvariant, ServicesInvariant, ServicesCount, PTL
=============================================================================
