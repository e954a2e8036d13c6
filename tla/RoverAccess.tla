---------------------------- MODULE RoverAccess ----------------------------
(***************************************************************************)
(* Who gets in, and for how long: the OPA policies, the client that asks   *)
(* them (opa/client.py), the authentication of NTRIPCaster, the check of   *)
(* the password in a thread, the session tokens of the UDP egress          *)
(* (rtcm/tokens.py, services/v1/rtcm/session.py) and the session limit of  *)
(* the GET handler.  The registry changes and time passes while a request  *)
(* waits for the policy or for bcrypt.                                     *)
(*                                                                         *)
(* A password hash is modelled by the password it belongs to.  What        *)
(* follows a granted GET or PUT is in Caster, what follows a Hello in      *)
(* RTCMDatagramServer.  A timer that is due fires before the clock moves.  *)
(***************************************************************************)
EXTENDS Naturals

CONSTANTS Users, Mountpoints, Passwords,
          Anonymous,    \* the user with a limited session
          Entries,      \* registry entries: [role, mounts, from, until, hash]
          Requests,     \* requests that may be in progress at once
          SessionLimit, \* max_session_seconds of Anonymous, in ticks
          TokenTTL,     \* config.token_ttl, in ticks
          OpaTimeout,   \* _TIMEOUT_SECONDS, in ticks
          MaxTime,      \* bound: ticks in a behaviour
          MaxTokens,    \* bound: session tokens issued
          ANY, None

Kinds == {"get", "put", "session"}

ASSUME AccessAssumption ==
    /\ {SessionLimit, TokenTTL, OpaTimeout} \subseteq Nat \ {0}
    /\ {MaxTime, MaxTokens} \subseteq Nat
    /\ None \notin Nat
    /\ \A e \in Entries :
          /\ e.role \in {"rover", "base_station"}
          /\ e.mounts \subseteq Mountpoints \cup {ANY}
          /\ e.from \in Nat /\ e.until \in Nat
          /\ e.hash \in Passwords \cup {None}

VARIABLES now,       \* the clock
          registry,  \* registry[u]: an entry, or None
          online,    \* mountpoints that have a transport
          req,       \* req[r], see Idle
          tokens     \* tokens[i]: [user, mount, exp, iat, lawful, used]

vars == <<now, registry, online, req, tokens>>

NoAnswer == [allow |-> FALSE, hash |-> None, limit |-> None]

\* since: when the request was sent to the policy, or the stream began;
\* deadline: of asyncio.timeout; lawful is history: whether the registry has
\* allowed the request, password included, at some time since it was made.
Idle == [pc |-> "idle", kind |-> None, user |-> None, password |-> None,
         mount |-> None, available |-> FALSE, answer |-> NoAnswer,
         since |-> 0, deadline |-> None, lawful |-> FALSE]

Init ==
    /\ now = 0
    /\ registry \in [Users -> Entries \cup {None}]
    /\ online = {}
    /\ req = [r \in Requests |-> Idle]
    /\ tokens = [i \in 1..MaxTokens |-> None]

----------------------------------------------------------------------------
(* The policies. *)

WithinWindow(e, t) == e.from <= t /\ t < e.until

\* Mutation: the last date counts.
AllowRover_Inclusive(e, mount, t) ==
    /\ e # None
    /\ e.role = "rover"
    /\ mount \in e.mounts \/ ANY \in e.mounts
    /\ e.from <= t /\ t <= e.until

AllowRover(e, mount, t) ==
    /\ e # None
    /\ e.role = "rover"
    /\ mount \in e.mounts \/ ANY \in e.mounts
    /\ WithinWindow(e, t)

AllowBaseStation(e, mount, available, t) ==
    /\ e # None
    /\ e.role = "base_station"
    /\ e.mounts = {mount}
    /\ ~available
    /\ WithinWindow(e, t)

\* The document of the package that the kind of request is put to.
Policy(q) ==
    LET e == registry[q.user]
        role == IF q.kind = "put" THEN "base_station" ELSE "rover"
    IN  [allow |-> IF q.kind = "put"
                   THEN AllowBaseStation(e, q.mount, q.available, now)
                   ELSE AllowRover(e, q.mount, now),
         hash  |-> IF e # None /\ e.role = role THEN e.hash ELSE None,
         limit |-> IF q.kind # "put" /\ q.user = Anonymous THEN SessionLimit ELSE None]

\* What the registry allows now: history compares the grants with it.
Lawful(q) ==
    /\ registry[q.user] # None
    /\ registry[q.user].role = IF q.kind = "put" THEN "base_station" ELSE "rover"
    /\ registry[q.user].hash = q.password
    /\ {q.mount, ANY} \cap registry[q.user].mounts # {}
    /\ registry[q.user].from <= now /\ now < registry[q.user].until

----------------------------------------------------------------------------
(* Authentication: authenticate_base_station and authenticate_rover. *)

Authenticate(r, kind, user, password, mount) ==
    /\ req[r].pc = "idle"
    /\ req' = [req EXCEPT ![r] =
                  [Idle EXCEPT !.pc = "asked", !.kind = kind, !.user = user,
                               !.password = password, !.mount = mount,
                               !.available = mount \in online, !.since = now]]
    /\ UNCHANGED <<now, registry, online, tokens>>

PolicyAnswers(r) ==
    /\ req[r].pc = "asked"
    /\ req' = [req EXCEPT ![r].pc = "answered", ![r].answer = Policy(req[r])]
    /\ UNCHANGED <<now, registry, online, tokens>>

\* Unreachable, too slow, or not a 200: query returns {}.
QueryFails(r) ==
    /\ req[r].pc \in {"asked", "answered"}
    /\ req' = [req EXCEPT ![r] = Idle]
    /\ UNCHANGED <<now, registry, online, tokens>>

Denied(r) ==
    /\ req[r].pc = "answered"
    /\ ~req[r].answer.allow \/ req[r].answer.hash = None
    /\ req' = [req EXCEPT ![r] = Idle]
    /\ UNCHANGED <<now, registry, online, tokens>>

CheckPassword(r) ==
    /\ req[r].pc = "answered"
    /\ req[r].answer.allow
    /\ req[r].answer.hash # None
    /\ req' = [req EXCEPT ![r].pc = "verifying"]
    /\ UNCHANGED <<now, registry, online, tokens>>

\* bcrypt says no, or raises.
PasswordRefused(r) ==
    /\ req[r].pc = "verifying"
    /\ req' = [req EXCEPT ![r] = Idle]
    /\ UNCHANGED <<now, registry, online, tokens>>

Verified(r) == req[r].pc = "verifying" /\ req[r].answer.hash = req[r].password

----------------------------------------------------------------------------
(* What a granted request does. *)

\* Mutation: the limit is dropped, as create_session does with it.
Deadline_Dropped(limit) == None

\* asyncio.timeout(max_session_seconds), None being no deadline.
Deadline(limit) == IF limit = None THEN None ELSE now + limit

StartStream(r) ==
    /\ Verified(r)
    /\ req[r].kind = "get"
    /\ req' = [req EXCEPT ![r].pc = "streaming", ![r].since = now,
                          ![r].deadline = Deadline(req[r].answer.limit),
                          ![r].lawful = @ \/ Lawful(req[r])]
    /\ UNCHANGED <<now, registry, online, tokens>>

StartPublishing(r) ==
    /\ Verified(r)
    /\ req[r].kind = "put"
    /\ req' = [req EXCEPT ![r].pc = "streaming", ![r].since = now,
                          ![r].lawful = @ \/ Lawful(req[r])]
    /\ online' = online \cup {req[r].mount}
    /\ UNCHANGED <<now, registry, tokens>>

SessionLimitReached(r) ==
    /\ req[r].pc = "streaming"
    /\ req[r].deadline # None
    /\ now >= req[r].deadline
    /\ req' = [req EXCEPT ![r] = Idle]
    /\ UNCHANGED <<now, registry, online, tokens>>

Disconnect(r) ==
    /\ req[r].pc = "streaming"
    /\ req' = [req EXCEPT ![r] = Idle]
    /\ online' = IF req[r].kind = "put" THEN online \ {req[r].mount} ELSE online
    /\ UNCHANGED <<now, registry, tokens>>

\* The claims of a token; lawful and used are history.
SessionToken(q) ==
    [user |-> q.user, mount |-> q.mount, iat |-> now, exp |-> now + TokenTTL,
     lawful |-> q.lawful \/ Lawful(q), used |-> None]

\* create_session: it does not look at the limit in the policy's answer.
IssueToken(r, i) ==
    /\ Verified(r)
    /\ req[r].kind = "session"
    /\ tokens[i] = None
    /\ tokens' = [tokens EXCEPT ![i] = SessionToken(req[r])]
    /\ req' = [req EXCEPT ![r] = Idle]
    /\ UNCHANGED <<now, registry, online>>

\* verify_session_token: jwt.decode refuses a token from exp on.
TokenAccepted(t) == now < t.exp

Hello(i) ==
    /\ tokens[i] # None
    /\ TokenAccepted(tokens[i])
    /\ tokens' = [tokens EXCEPT ![i].used = now]
    /\ UNCHANGED <<now, registry, online, req>>

----------------------------------------------------------------------------
(* The registry and the clock. *)

\* History: the registry allowed the requests it allows now.
Observe ==
    req' = [r \in Requests |->
               IF req[r].pc \in {"asked", "answered", "verifying"}
               THEN [req[r] EXCEPT !.lawful = @ \/ Lawful(req[r])]
               ELSE req[r]]

\* A new deployment of the policy data.
Edit(u, e) ==
    /\ registry[u] # e
    /\ registry' = [registry EXCEPT ![u] = e]
    /\ Observe
    /\ UNCHANGED <<now, online, tokens>>

\* A query ends at the client's timeout, a limited session at its deadline;
\* bcrypt takes as long as the thread pool makes it take.
Due ==
    \E r \in Requests :
        \/ req[r].pc \in {"asked", "answered"} /\ now >= req[r].since + OpaTimeout
        \/ req[r].pc = "streaming" /\ req[r].deadline # None /\ now >= req[r].deadline

Tick ==
    /\ now < MaxTime
    /\ ~Due
    /\ now' = now + 1
    /\ Observe
    /\ UNCHANGED <<registry, online, tokens>>

Serve(r) ==
    \/ \E kind \in Kinds, u \in Users, p \in Passwords, m \in Mountpoints :
          Authenticate(r, kind, u, p, m)
    \/ PolicyAnswers(r) \/ QueryFails(r) \/ Denied(r)
    \/ CheckPassword(r) \/ PasswordRefused(r)
    \/ StartStream(r) \/ StartPublishing(r)
    \/ SessionLimitReached(r) \/ Disconnect(r)
    \/ \E i \in DOMAIN tokens : IssueToken(r, i)

Next ==
    \/ \E r \in Requests : Serve(r)
    \/ \E i \in DOMAIN tokens : Hello(i)
    \/ \E u \in Users, e \in Entries \cup {None} : Edit(u, e)
    \/ Tick

Spec == Init /\ [][Next]_vars

----------------------------------------------------------------------------
(* Properties. *)

\* Every stream, and every UDP session, rests on an entry that allowed it:
\* between the request and the grant there was a moment when the registry held
\* the user with that password, for that mountpoint, inside its dates.  Edits,
\* rotations and dates that pass while OPA or bcrypt is awaited included; and a
\* token opens UDP sessions for less than TokenTTL after it was issued.
GrantsJustified ==
    /\ \A r \in Requests : req[r].pc = "streaming" => req[r].lawful
    /\ \A i \in DOMAIN tokens : tokens[i] # None =>
          /\ tokens[i].lawful
          /\ tokens[i].used # None => tokens[i].used < tokens[i].iat + TokenTTL

\* A stream of the anonymous rover does not outlive max_session_seconds, also
\* when the policy's answer was long in coming.
LimitedSessionsEnd ==
    \A r \in Requests :
        req[r].pc = "streaming" /\ req[r].kind = "get" /\ req[r].user = Anonymous
        => now <= req[r].since + SessionLimit
=============================================================================
