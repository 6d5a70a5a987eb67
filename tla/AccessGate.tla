----------------------------- MODULE AccessGate -----------------------------
(***************************************************************************)
(* Which requests the application answers: the middleware of main.py, the  *)
(* rules of util/security.py and util/network_policy.py, and the sessions  *)
(* of browsers that api/auth.py makes.                                     *)
(*                                                                         *)
(* A session is what its signature covers: the token it was signed with    *)
(* and the time at which it expires.                                       *)
(***************************************************************************)
EXTENDS Integers, FiniteSets

CONSTANTS
  None,
  Tokens,       \* what HFAB_API_TOKEN can be when it is set
  Ttl,          \* ASSET_SESSION_TTL_SECONDS
  MaxTime,      \* bound: the time at which the behaviour ends
  MaxRestarts,  \* bound: restarts
  MaxSessions   \* bound: sessions

GateAssumption == None \notin Tokens /\ {Ttl, MaxTime, MaxRestarts, MaxSessions} \subseteq Nat

VARIABLES
  config,     \* settings: token, opt-in to an insecure network, and if host is exposed
  exposed,    \* where the server really listens
  state,      \* "refused", "serving", "stopping"
  now,        \* time
  restarts,   \* restarts so far
  sessions,   \* the sessions browsers have
  granted,    \* history: for each session when it was made, and the bearer it was made for
  answered    \* the request that is answered, and how

vars == <<config, exposed, state, now, restarts, sessions, granted, answered>>

Configs == [token : Tokens \cup {None}, insecure : BOOLEAN, exposedHost : BOOLEAN]

\* Paths of /api/ with a rule of their own, the rest of /api/, and pages.
Kinds == {"OPTIONS", "GET", "POST"} \X {"/api/"} \cup {"GET", "DELETE"} \X {"asset"}
           \cup {"POST", "DELETE"} \X {"/api/auth/asset-session"}
           \cup {"GET"} \X {"/api/health", "page", "websocket"}

Request(kind, remote, bearer, session) ==
  [method |-> kind[1], path |-> kind[2], remote |-> remote, bearer |-> bearer, session |-> session]
Requests ==
  {Request(kind, remote, bearer, session) :
     kind \in Kinds, remote \in BOOLEAN, bearer \in Tokens \cup {None}, session \in sessions \cup {None}}

(***************************************************************************)
(* The rules.                                                              *)
(***************************************************************************)
TokenRequired == config.token # None

RemoteAllowed(r) == TokenRequired \/ config.insecure \/ ~r.remote

SessionMatches(session) ==
  session # None /\ session.token = config.token /\ session.expires \in now..(now + Ttl)

\* A fault: a session is enough for every request that reads.
AuthorizedToRead(r) ==
  RemoteAllowed(r) /\ (~TokenRequired \/ r.bearer = config.token \/ SessionMatches(r.session))

\* request_is_authorized, websocket_is_authorized: a session reads assets and events
\* and ends itself.
Authorized(r) ==
  /\ RemoteAllowed(r)
  /\ \/ ~TokenRequired
     \/ r.bearer = config.token /\ r.path # "websocket"
     \/ /\ \/ r.path = "asset" /\ r.method = "GET"
           \/ r.path = "/api/auth/asset-session" /\ r.method = "DELETE"
           \/ r.path = "websocket"
        /\ SessionMatches(r.session)

\* api_token_middleware, in its order; a websocket does not pass through it.
Answer(r) ==
  IF r.path = "websocket" THEN IF Authorized(r) THEN "served" ELSE "unauthorized"
  ELSE IF ~RemoteAllowed(r) THEN "forbidden"
  ELSE IF r.method \notin {"GET", "OPTIONS"} /\ state = "stopping" THEN "shutting down"
  ELSE IF r.method = "OPTIONS" \/ r.path \in {"/api/health", "page"} \/ Authorized(r) THEN "served"
  ELSE "unauthorized"

\* enforce_startup_posture: before any other effect of the start.
Posture(c) == IF c.exposedHost /\ c.token = None /\ ~c.insecure THEN "refused" ELSE "serving"

-----------------------------------------------------------------------------
\* The host on the command line may not be the one of the settings.
Init ==
  /\ config \in Configs /\ exposed \in BOOLEAN /\ state = Posture(config)
  /\ now = 0 /\ restarts = 0 /\ sessions = {} /\ granted = {} /\ answered = None

\* Only what listens on an exposed address is reached from elsewhere.
Serve(r) ==
  /\ answered = None /\ state # "refused" /\ (r.remote => exposed)
  /\ answered' = [request |-> r, answer |-> Answer(r)]
  /\ IF /\ r.path = "/api/auth/asset-session" /\ r.method = "POST" /\ Answer(r) = "served"
        /\ TokenRequired /\ Cardinality(sessions) < MaxSessions
     THEN LET s == [token |-> config.token, expires |-> now + Ttl] IN
            /\ sessions' = sessions \cup {s}
            /\ granted' = granted \cup {[session |-> s, at |-> now, bearer |-> r.bearer]}
     ELSE UNCHANGED <<sessions, granted>>
  /\ UNCHANGED <<config, exposed, state, now, restarts>>

Done ==
  /\ answered # None /\ answered' = None
  /\ UNCHANGED <<config, exposed, state, now, restarts, sessions, granted>>

Tick ==
  /\ answered = None /\ now < MaxTime /\ now' = now + 1
  /\ UNCHANGED <<config, exposed, state, restarts, sessions, granted, answered>>

BeginStop ==
  /\ answered = None /\ state = "serving" /\ state' = "stopping"
  /\ UNCHANGED <<config, exposed, now, restarts, sessions, granted, answered>>

\* With other settings, and browsers that kept their sessions.
Restart(c) ==
  /\ answered = None /\ restarts < MaxRestarts /\ restarts' = restarts + 1
  /\ config' = c /\ exposed' \in BOOLEAN /\ state' = Posture(c)
  /\ UNCHANGED <<now, sessions, granted, answered>>

Next ==
  \/ \E r \in Requests : Serve(r)
  \/ Done \/ Tick \/ BeginStop
  \/ \E c \in Configs : Restart(c)

Spec == Init /\ [][Next]_vars

-----------------------------------------------------------------------------
\* The values of the variables.
TypeOK ==
  /\ config \in Configs /\ exposed \in BOOLEAN /\ state \in {"refused", "serving", "stopping"}
  /\ now \in 0..MaxTime /\ restarts \in 0..MaxRestarts
  /\ sessions \subseteq [token : Tokens, expires : 0..(MaxTime + Ttl)]

\* What is served goes back to the token of this start, when there is one: the
\* request has it, or it reads an asset or the events, or ends the session, with a
\* session that was made for that token not longer than a session lasts ago.
\* Sessions of other tokens or of a start without one do not count.
Rooted ==
  answered # None /\ answered.answer = "served" /\ TokenRequired =>
    LET r == answered.request IN
      \/ r.method = "OPTIONS" \/ r.path \in {"/api/health", "page"} \/ r.bearer = config.token
      \/ /\ \E g \in granted :
              g.session = r.session /\ g.bearer = config.token /\ now - g.at \in 0..Ttl
         /\ r.path # "/api/" /\ r.method \in {"GET", "DELETE"}
         /\ r.path = "asset" => r.method = "GET"

\* A server without a token and without the opt-in answers this machine only,
\* though it listens elsewhere than its settings say; and while it stops, it
\* begins nothing that changes what it has.
OthersKeptOut ==
  answered # None /\ answered.answer = "served" =>
    /\ answered.request.remote => TokenRequired \/ config.insecure
    /\ state = "stopping" => answered.request.method \in {"GET", "OPTIONS"}
=============================================================================
