-------------------------- MODULE RoverAccessProofs --------------------------
(***************************************************************************)
(* Proofs about RoverAccess for any users, mountpoints, passwords, registry *)
(* entries, number of requests, timeouts and limits.                       *)
(***************************************************************************)
EXTENDS RoverAccess, TLAPS

Answers == [allow : BOOLEAN, hash : Passwords \cup {None}, limit : {SessionLimit, None}]

RequestRecords ==
    [pc : {"idle", "asked", "answered", "verifying", "streaming"},
     kind : Kinds \cup {None}, user : Users \cup {None},
     password : Passwords \cup {None}, mount : Mountpoints \cup {None},
     available : BOOLEAN, answer : Answers, since : Nat, deadline : Nat \cup {None},
     lawful : BOOLEAN]

TokenRecords ==
    [user : Users, mount : Mountpoints, iat : Nat, exp : Nat, lawful : BOOLEAN,
     used : Nat \cup {None}]

TypeOK ==
    /\ now \in Nat
    /\ registry \in [Users -> Entries \cup {None}]
    /\ online \subseteq Mountpoints
    /\ req \in [Requests -> RequestRecords]
    /\ tokens \in [1..MaxTokens -> TokenRecords \cup {None}]

\* A request on its way knows who asks for what; a stream is that of a rover or
\* of a base station.
Identified(q) ==
    q.pc # "idle" => /\ q.kind \in Kinds /\ q.user \in Users
                     /\ q.password \in Passwords /\ q.mount \in Mountpoints

\* An answer that lets the request in, for the password it came with, was right
\* when it was given: the registry still says so, or history has noted it before
\* the registry or the clock moved on.
AnswerJustified(q) ==
    /\ q.pc \in {"answered", "verifying"}
    /\ q.answer.allow
    /\ q.answer.hash # None
    /\ q.answer.hash = q.password
    => q.lawful \/ Lawful(q)

\* The password is verified for an answer that allows the request.
VerifiedIsAllowed(q) ==
    q.pc = "verifying" => q.answer.allow /\ q.answer.hash # None

\* The answer about the anonymous rover has the limit in it.
AnswerLimited(q) ==
    q.pc \in {"answered", "verifying"} /\ q.kind # "put" /\ q.user = Anonymous
    => q.answer.limit = SessionLimit

StreamLawful(q) == q.pc = "streaming" => q.lawful

\* A stream of the anonymous rover has a deadline, and it has not passed.
StreamLimited(q) ==
    q.pc = "streaming" /\ q.kind = "get" /\ q.user = Anonymous
    => q.deadline = q.since + SessionLimit /\ now <= q.deadline

RequestInv(q) ==
    /\ Identified(q)
    /\ AnswerJustified(q)
    /\ VerifiedIsAllowed(q)
    /\ AnswerLimited(q)
    /\ StreamLawful(q)
    /\ StreamLimited(q)

TokenInv(t) ==
    t # None => /\ t.lawful
                /\ t.exp = t.iat + TokenTTL
                /\ t.used # None => t.used < t.exp

\* The inductive invariant.
IInv ==
    /\ TypeOK
    /\ \A r \in Requests : RequestInv(req[r])
    /\ \A i \in DOMAIN tokens : TokenInv(tokens[i])
-----------------------------------------------------------------------------
(* What the policies and their client compute.                              *)

\* A policy that allows the request and names its password's hash is lawful.
LEMMA PolicyIsLawful ==
    ASSUME NEW q, Policy(q).allow, Policy(q).hash # None, Policy(q).hash = q.password
    PROVE  Lawful(q)
<1>1. CASE q.kind = "put"
  BY <1>1 DEF Policy, Lawful, AllowBaseStation, WithinWindow
<1>2. CASE q.kind # "put"
  BY <1>2 DEF Policy, Lawful, AllowRover, WithinWindow
<1> QED BY <1>1, <1>2

LEMMA PolicyType ==
    ASSUME TypeOK, NEW q \in RequestRecords, q.user \in Users
    PROVE  Policy(q) \in Answers
  BY AccessAssumption DEF Policy, Answers, TypeOK, RequestRecords, AllowRover, AllowBaseStation, WithinWindow

LEMMA IdleType == Idle \in RequestRecords
  BY DEF Idle, NoAnswer, RequestRecords, Answers
-----------------------------------------------------------------------------
(* A step of one request.                                                   *)

\* The other requests keep what is true of them while registry and clock stand.
LEMMA OthersKeep ==
    ASSUME \A x \in Requests : RequestInv(req[x]), NEW r \in Requests,
           UNCHANGED <<now, registry>>,
           \A x \in Requests \ {r} : req'[x] = req[x],
           RequestInv(req[r])'
    PROVE  (\A x \in Requests : RequestInv(req[x]))'
<1> SUFFICES ASSUME NEW x \in Requests PROVE RequestInv(req[x])'
  OBVIOUS
<1>1. CASE x = r
  BY <1>1
<1>2. CASE x # r
  BY <1>2 DEF RequestInv, Identified, AnswerJustified, VerifiedIsAllowed, AnswerLimited,
              StreamLawful, StreamLimited, Lawful
<1> QED BY <1>1, <1>2

\* A request that ended needs nothing.
LEMMA IdleKeeps ==
    ASSUME NEW r \in Requests, req'[r] = Idle
    PROVE  RequestInv(req[r])'
  BY DEF RequestInv, Identified, AnswerJustified, VerifiedIsAllowed, AnswerLimited,
         StreamLawful, StreamLimited, Idle

\* A step of a request keeps the invariants of all requests.
LEMMA ServeKeeps ==
    ASSUME IInv, NEW r \in Requests, Serve(r)
    PROVE  /\ req' \in [Requests -> RequestRecords]
           /\ (\A x \in Requests : RequestInv(req[x]))'
<1> DEFINE Goal == /\ req' \in [Requests -> RequestRecords]
                   /\ (\A x \in Requests : RequestInv(req[x]))'
<1> USE AccessAssumption
<1>a. /\ req \in [Requests -> RequestRecords] /\ req[r] \in RequestRecords
      /\ \A x \in Requests : RequestInv(req[x])
      /\ now \in Nat
  BY DEF IInv, TypeOK
<1>b. ASSUME req' = [req EXCEPT ![r] = Idle], UNCHANGED <<now, registry>> PROVE Goal
  <2>1. req' \in [Requests -> RequestRecords] /\ req'[r] = Idle
    BY <1>a, <1>b, IdleType
  <2>2. RequestInv(req[r])'
    BY <2>1, IdleKeeps
  <2> QED BY <1>a, <1>b, <2>1, <2>2, OthersKeep
<1>c. ASSUME NEW q \in RequestRecords, req' = [req EXCEPT ![r] = q],
             UNCHANGED <<now, registry>>, RequestInv(req[r])'
      PROVE  Goal
  BY <1>a, <1>c, OthersKeep
<1>1. ASSUME NEW kind \in Kinds, NEW u \in Users, NEW p \in Passwords, NEW m \in Mountpoints,
             Authenticate(r, kind, u, p, m)
      PROVE  Goal
  <2> DEFINE b == m \in online
             q == [Idle EXCEPT !.pc = "asked", !.kind = kind, !.user = u, !.password = p,
                               !.mount = m, !.available = b, !.since = now]
  <2>a. b \in BOOLEAN
    OBVIOUS
  <2>b. req' = [req EXCEPT ![r] = q]
    BY <1>1 DEF Authenticate
  <2> HIDE DEF b
  <2>1. q \in RequestRecords
    BY <1>a, <2>a DEF Idle, NoAnswer, RequestRecords, Answers
  <2>2. req' = [req EXCEPT ![r] = q] /\ UNCHANGED <<now, registry>>
    BY <1>1, <2>b DEF Authenticate
  <2>3. req'[r] = q
    BY <1>a, <2>2
  <2>4. /\ q.pc = "asked" /\ q.kind \in Kinds /\ q.user \in Users
        /\ q.password \in Passwords /\ q.mount \in Mountpoints
    BY DEF Idle
  <2> HIDE DEF q
  <2>5. RequestInv(req[r])'
    BY <2>3, <2>4 DEF RequestInv, Identified, AnswerJustified, VerifiedIsAllowed,
                      AnswerLimited, StreamLawful, StreamLimited
  <2> QED BY <1>c, <2>1, <2>2, <2>5
<1>2. CASE PolicyAnswers(r)
  <2> DEFINE old == req[r]
             q == [old EXCEPT !.pc = "answered", !.answer = Policy(old)]
  <2>1. old.pc = "asked" /\ req' = [req EXCEPT ![r] = q] /\ UNCHANGED <<now, registry>>
    BY <1>2, <1>a DEF PolicyAnswers, RequestRecords
  <2>2. Identified(old)
    BY <1>a DEF RequestInv
  <2>3. q \in RequestRecords
    BY <1>a, <2>1, <2>2, PolicyType DEF RequestRecords, Identified, IInv
  <2>4. req'[r] = q
    BY <1>a, <2>1
  <2>5. /\ q.pc = "answered" /\ q.answer = Policy(old)
        /\ q.kind = old.kind /\ q.user = old.user /\ q.password = old.password
        /\ q.mount = old.mount
    BY <1>a DEF RequestRecords
  <2> HIDE DEF q
  <2>6. AnswerJustified(req[r])'
    <3>1. SUFFICES ASSUME q.answer.allow, q.answer.hash # None, q.answer.hash = q.password
                   PROVE  Lawful(req[r])'
      BY <2>4 DEF AnswerJustified
    <3>2. Lawful(old)
      BY <2>5, <3>1, PolicyIsLawful
    <3> QED BY <2>1, <2>4, <2>5, <3>2 DEF Lawful
  <2>7. Identified(req[r])'
    BY <2>1, <2>2, <2>4, <2>5 DEF Identified
  <2>8. AnswerLimited(req[r])'
    BY <2>4, <2>5 DEF AnswerLimited, Policy
  <2>9. RequestInv(req[r])'
    BY <2>4, <2>5, <2>6, <2>7, <2>8 DEF RequestInv, VerifiedIsAllowed, StreamLawful, StreamLimited
  <2> QED BY <1>c, <2>1, <2>3, <2>9
<1>3. CASE QueryFails(r)
  BY <1>b, <1>3 DEF QueryFails
<1>4. CASE Denied(r)
  BY <1>b, <1>4 DEF Denied
<1>5. CASE CheckPassword(r)
  <2> DEFINE old == req[r]
             q == [old EXCEPT !.pc = "verifying"]
  <2>1. /\ old.pc = "answered" /\ old.answer.allow /\ old.answer.hash # None
        /\ req' = [req EXCEPT ![r] = q] /\ UNCHANGED <<now, registry>>
    BY <1>5, <1>a DEF CheckPassword, RequestRecords
  <2>2. q \in RequestRecords /\ req'[r] = q
    BY <1>a, <2>1 DEF RequestRecords
  <2>3. /\ q.pc = "verifying" /\ q.answer = old.answer /\ q.lawful = old.lawful
        /\ q.kind = old.kind /\ q.user = old.user /\ q.password = old.password
        /\ q.mount = old.mount
    BY <1>a DEF RequestRecords
  <2>4. RequestInv(old)
    BY <1>a
  <2> HIDE DEF q
  <2>5. RequestInv(req[r])'
    BY <2>1, <2>2, <2>3, <2>4
    DEF RequestInv, Identified, AnswerJustified, VerifiedIsAllowed, AnswerLimited,
        StreamLawful, StreamLimited, Lawful
  <2> QED BY <1>c, <2>1, <2>2, <2>5
<1>6. CASE PasswordRefused(r)
  BY <1>b, <1>6 DEF PasswordRefused
<1>d. ASSUME Verified(r), NEW dl \in Nat \cup {None},
             req[r].kind = "get" =>
                dl = IF req[r].answer.limit = None THEN None ELSE now + req[r].answer.limit,
             UNCHANGED <<now, registry>>,
             req' = [req EXCEPT ![r] = [req[r] EXCEPT !.pc = "streaming", !.since = now,
                                        !.deadline = dl, !.lawful = @ \/ Lawful(req[r])]]
      PROVE  Goal
  <2> DEFINE old == req[r]
             b == old.lawful \/ Lawful(old)
             q == [old EXCEPT !.pc = "streaming", !.since = now, !.deadline = dl,
                              !.lawful = b]
  <2>a. b \in BOOLEAN /\ (b <=> (old.lawful \/ Lawful(old)))
    OBVIOUS
  <2>b. req' = [req EXCEPT ![r] = q]
    BY <1>d
  <2> HIDE DEF b
  <2>1. req' = [req EXCEPT ![r] = q] /\ q \in RequestRecords /\ req'[r] = q
    BY <1>a, <1>d, <2>a, <2>b DEF RequestRecords
  <2>2. /\ q.pc = "streaming" /\ q.since = now /\ q.deadline = dl /\ q.lawful = b
        /\ q.kind = old.kind /\ q.user = old.user /\ q.password = old.password
        /\ q.mount = old.mount
    BY <1>a DEF RequestRecords
  <2>3. RequestInv(old) /\ old.pc = "verifying" /\ old.answer.hash = old.password
    BY <1>a, <1>d DEF Verified
  <2>4. q.lawful
    <3>1. old.lawful \/ Lawful(old)
      BY <2>3 DEF RequestInv, AnswerJustified, VerifiedIsAllowed
    <3> QED BY <2>2, <2>a, <3>1
  <2>5. q.kind = "get" /\ q.user = Anonymous => q.deadline = q.since + SessionLimit /\ now <= q.deadline
    BY <1>a, <1>d, <2>2, <2>3 DEF RequestInv, AnswerLimited
  <2> HIDE DEF q
  <2>6. RequestInv(req[r])'
    BY <1>d, <2>1, <2>2, <2>3, <2>4, <2>5
    DEF RequestInv, Identified, AnswerJustified, VerifiedIsAllowed, AnswerLimited,
        StreamLawful, StreamLimited
  <2> QED BY <1>c, <1>d, <2>1, <2>6
<1>7. CASE StartStream(r)
  <2>1. Deadline(req[r].answer.limit) \in Nat \cup {None}
    BY <1>a DEF Deadline, RequestRecords, Answers
  <2>2. /\ Verified(r) /\ UNCHANGED <<now, registry>>
        /\ req' = [req EXCEPT ![r] = [req[r] EXCEPT !.pc = "streaming", !.since = now,
                                      !.deadline = Deadline(req[r].answer.limit),
                                      !.lawful = @ \/ Lawful(req[r])]]
    BY <1>7, <1>a DEF StartStream, RequestRecords
  <2>3. Deadline(req[r].answer.limit)
          = IF req[r].answer.limit = None THEN None ELSE now + req[r].answer.limit
    BY DEF Deadline
  <2> QED BY <1>d, <2>1, <2>2, <2>3
<1>8. CASE StartPublishing(r)
  <2>1. req[r].kind = "put" /\ req[r].deadline \in Nat \cup {None}
    BY <1>8, <1>a DEF StartPublishing, RequestRecords
  <2>2. /\ Verified(r) /\ UNCHANGED <<now, registry>>
        /\ req' = [req EXCEPT ![r] = [req[r] EXCEPT !.pc = "streaming", !.since = now,
                                      !.deadline = req[r].deadline,
                                      !.lawful = @ \/ Lawful(req[r])]]
    BY <1>8, <1>a DEF StartPublishing, RequestRecords
  <2> QED BY <1>d, <2>1, <2>2
<1>9. CASE SessionLimitReached(r)
  BY <1>b, <1>9 DEF SessionLimitReached
<1>10. CASE Disconnect(r)
  BY <1>b, <1>10 DEF Disconnect
<1>11. ASSUME NEW i \in DOMAIN tokens, IssueToken(r, i) PROVE Goal
  BY <1>b, <1>11 DEF IssueToken
<1> QED BY <1>1, <1>2, <1>3, <1>4, <1>5, <1>6, <1>7, <1>8, <1>9, <1>10, <1>11 DEF Serve
-----------------------------------------------------------------------------
(* The registry and the clock.                                              *)

\* What Observe notes of a request: that the registry allows it, before it changes.
LEMMA ObserveEffect ==
    ASSUME TypeOK, Observe, NEW r \in Requests
    PROVE  /\ req'[r] \in RequestRecords
           /\ req'[r].pc = req[r].pc /\ req'[r].kind = req[r].kind
           /\ req'[r].user = req[r].user /\ req'[r].password = req[r].password
           /\ req'[r].mount = req[r].mount /\ req'[r].answer = req[r].answer
           /\ req'[r].since = req[r].since /\ req'[r].deadline = req[r].deadline
           /\ req[r].lawful => req'[r].lawful
           /\ req[r].pc \in {"answered", "verifying"} /\ Lawful(req[r]) => req'[r].lawful
<1> DEFINE old == req[r]
           b == old.lawful \/ Lawful(old)
           q == [old EXCEPT !.lawful = b]
<1>1. b \in BOOLEAN /\ (b <=> (old.lawful \/ Lawful(old)))
  OBVIOUS
<1>2. old \in RequestRecords
  BY DEF TypeOK
<1>3. req'[r] = IF old.pc \in {"asked", "answered", "verifying"} THEN q ELSE old
  BY DEF Observe
<1> HIDE DEF old, b
<1>4. /\ q \in RequestRecords /\ q.lawful = b
      /\ q.pc = old.pc /\ q.kind = old.kind /\ q.user = old.user
      /\ q.password = old.password /\ q.mount = old.mount /\ q.answer = old.answer
      /\ q.since = old.since /\ q.deadline = old.deadline
  BY <1>1, <1>2 DEF RequestRecords
<1> HIDE DEF q
<1>5. CASE old.pc \in {"asked", "answered", "verifying"}
  BY <1>1, <1>3, <1>4, <1>5 DEF old
<1>6. CASE old.pc \notin {"asked", "answered", "verifying"}
  BY <1>2, <1>3, <1>6 DEF old
<1> QED BY <1>5, <1>6

\* A step that observes keeps the invariants of the requests, if the deadlines of
\* the limited streams are not passed.
LEMMA ObserveKeeps ==
    ASSUME IInv, Observe,
           \A r \in Requests : StreamLimited(req[r])'
    PROVE  /\ req' \in [Requests -> RequestRecords]
           /\ (\A r \in Requests : RequestInv(req[r]))'
<1>a. TypeOK
  BY DEF IInv
<1>1. req' \in [Requests -> RequestRecords]
  <2>1. \A r \in Requests : req'[r] \in RequestRecords
    BY <1>a, ObserveEffect
  <2> QED BY <2>1 DEF Observe
<1>2. ASSUME NEW r \in Requests PROVE RequestInv(req[r])'
  <2>1. RequestInv(req[r])
    BY DEF IInv
  <2>2. /\ req'[r].pc = req[r].pc /\ req'[r].kind = req[r].kind
        /\ req'[r].user = req[r].user /\ req'[r].password = req[r].password
        /\ req'[r].mount = req[r].mount /\ req'[r].answer = req[r].answer
        /\ req[r].lawful => req'[r].lawful
        /\ req[r].pc \in {"answered", "verifying"} /\ Lawful(req[r]) => req'[r].lawful
    BY <1>a, ObserveEffect
  <2>3. AnswerJustified(req[r])'
    BY <2>1, <2>2 DEF RequestInv, AnswerJustified
  <2>4. (Identified(req[r]) /\ VerifiedIsAllowed(req[r]) /\ AnswerLimited(req[r]))'
    BY <2>1, <2>2 DEF RequestInv, Identified, VerifiedIsAllowed, AnswerLimited
  <2>5. StreamLawful(req[r])'
    BY <2>1, <2>2 DEF RequestInv, StreamLawful
  <2> QED BY <2>3, <2>4, <2>5 DEF RequestInv
<1> QED BY <1>1, <1>2

\* Time does not pass a deadline: its timer fires first.
LEMMA TickKeepsLimits ==
    ASSUME IInv, Tick, NEW r \in Requests
    PROVE  StreamLimited(req[r])'
<1> USE AccessAssumption
<1>1. /\ req'[r].pc = req[r].pc /\ req'[r].kind = req[r].kind
      /\ req'[r].user = req[r].user /\ req'[r].since = req[r].since
      /\ req'[r].deadline = req[r].deadline
  BY ObserveEffect DEF Tick, IInv
<1>2. SUFFICES ASSUME req[r].pc = "streaming", req[r].kind = "get", req[r].user = Anonymous
               PROVE  req[r].deadline = req[r].since + SessionLimit /\ now + 1 <= req[r].deadline
  BY <1>1 DEF StreamLimited, Tick
<1>3. req[r].deadline = req[r].since + SessionLimit /\ now <= req[r].deadline
  BY <1>2 DEF IInv, RequestInv, StreamLimited
<1>4. req[r].since \in Nat /\ now \in Nat
  BY DEF IInv, TypeOK, RequestRecords
<1>5. req[r].deadline # None /\ req[r].deadline \in Nat
  BY <1>3, <1>4
<1>6. ~(now >= req[r].deadline)
  BY <1>2, <1>5 DEF Tick, Due
<1> QED BY <1>3, <1>4, <1>5, <1>6
-----------------------------------------------------------------------------
(* Tokens.                                                                  *)

\* A token is issued for a verified request, and presented before it expires.
LEMMA TokensKeep ==
    ASSUME IInv, Next
    PROVE  /\ tokens' \in [1..MaxTokens -> TokenRecords \cup {None}]
           /\ (\A i \in DOMAIN tokens : TokenInv(tokens[i]))'
<1> DEFINE Goal == /\ tokens' \in [1..MaxTokens -> TokenRecords \cup {None}]
                   /\ (\A i \in DOMAIN tokens : TokenInv(tokens[i]))'
<1> USE AccessAssumption
<1>a. /\ tokens \in [1..MaxTokens -> TokenRecords \cup {None}]
      /\ DOMAIN tokens = 1..MaxTokens
      /\ \A i \in 1..MaxTokens : TokenInv(tokens[i])
      /\ now \in Nat
  BY DEF IInv, TypeOK
<1>b. ASSUME UNCHANGED tokens PROVE Goal
  BY <1>a, <1>b DEF TokenInv
<1>c. ASSUME NEW i \in 1..MaxTokens, NEW t \in TokenRecords,
             tokens' = [tokens EXCEPT ![i] = t],
             t.lawful, t.exp = t.iat + TokenTTL, t.used # None => t.used < t.exp
      PROVE  Goal
  <2>1. tokens' \in [1..MaxTokens -> TokenRecords \cup {None}]
    BY <1>a, <1>c
  <2>2. \A j \in 1..MaxTokens : TokenInv(tokens'[j])
    BY <1>a, <1>c DEF TokenInv
  <2> QED BY <2>1, <2>2 DEF TokenInv
<1>1. ASSUME NEW r \in Requests, NEW i \in DOMAIN tokens, IssueToken(r, i) PROVE Goal
  <2> DEFINE old == req[r]
             b == old.lawful \/ Lawful(old)
             t == [user |-> old.user, mount |-> old.mount, iat |-> now,
                   exp |-> now + TokenTTL, lawful |-> b, used |-> None]
  <2>1. /\ old.pc = "verifying" /\ old.answer.hash = old.password
        /\ tokens' = [tokens EXCEPT ![i] = t]
    BY <1>1 DEF IssueToken, Verified, SessionToken
  <2>2. RequestInv(old)
    BY DEF IInv
  <2>3. b \in BOOLEAN /\ (b <=> (old.lawful \/ Lawful(old)))
    OBVIOUS
  <2>4. old.user \in Users /\ old.mount \in Mountpoints
    BY <2>1, <2>2 DEF RequestInv, Identified
  <2>5. old.lawful \/ Lawful(old)
    BY <2>1, <2>2 DEF RequestInv, AnswerJustified, VerifiedIsAllowed
  <2> HIDE DEF b
  <2>6. t \in TokenRecords
    BY <1>a, <2>3, <2>4 DEF TokenRecords
  <2>7. t.lawful /\ t.exp = t.iat + TokenTTL /\ t.used = None
    BY <2>3, <2>5
  <2> QED BY <1>a, <1>c, <2>1, <2>6, <2>7
<1>2. ASSUME NEW i \in DOMAIN tokens, Hello(i) PROVE Goal
  <2> DEFINE old == tokens[i]
             t == [old EXCEPT !.used = now]
  <2>1. /\ old # None /\ now < old.exp /\ tokens' = [tokens EXCEPT ![i] = t]
    BY <1>2 DEF Hello, TokenAccepted
  <2>2. old \in TokenRecords /\ TokenInv(old)
    BY <1>a, <2>1
  <2>3. /\ t \in TokenRecords /\ t.lawful = old.lawful /\ t.exp = old.exp
        /\ t.iat = old.iat /\ t.used = now
    BY <1>a, <2>2 DEF TokenRecords
  <2>4. t.lawful /\ t.exp = t.iat + TokenTTL
    BY <2>1, <2>2, <2>3 DEF TokenInv
  <2> HIDE DEF t
  <2> QED BY <1>a, <1>c, <2>1, <2>3, <2>4
<1>3. ASSUME NEW r \in Requests, Serve(r), \A i \in DOMAIN tokens : ~IssueToken(r, i)
      PROVE  Goal
  BY <1>b, <1>3
  DEF Serve, Authenticate, PolicyAnswers, QueryFails, Denied, CheckPassword,
      PasswordRefused, StartStream, StartPublishing, SessionLimitReached, Disconnect
<1>4. ASSUME NEW u \in Users, NEW e \in Entries \cup {None}, Edit(u, e) PROVE Goal
  BY <1>b, <1>4 DEF Edit
<1>5. CASE Tick
  BY <1>b, <1>5 DEF Tick
<1> QED BY <1>1, <1>2, <1>3, <1>4, <1>5 DEF Next
-----------------------------------------------------------------------------
(* The theorems.                                                            *)

LEMMA InitInv == Init => IInv
<1> SUFFICES ASSUME Init PROVE IInv
  OBVIOUS
<1> USE AccessAssumption DEF Init
<1>1. TypeOK
  BY IdleType DEF TypeOK
<1>2. \A r \in Requests : RequestInv(req[r])
  BY DEF RequestInv, Identified, AnswerJustified, VerifiedIsAllowed, AnswerLimited,
         StreamLawful, StreamLimited, Idle
<1>3. \A i \in DOMAIN tokens : TokenInv(tokens[i])
  BY DEF TokenInv
<1> QED BY <1>1, <1>2, <1>3 DEF IInv

LEMMA NextInv == IInv /\ [Next]_vars => IInv'
<1> SUFFICES ASSUME IInv, [Next]_vars PROVE IInv'
  OBVIOUS
<1> USE AccessAssumption
<1>1. CASE Next
  <2>1. /\ tokens' \in [1..MaxTokens -> TokenRecords \cup {None}]
        /\ (\A i \in DOMAIN tokens : TokenInv(tokens[i]))'
    BY <1>1, TokensKeep
  <2>2. ASSUME NEW r \in Requests, Serve(r) PROVE IInv'
    <3>1. /\ req' \in [Requests -> RequestRecords]
          /\ (\A x \in Requests : RequestInv(req[x]))'
      BY <2>2, ServeKeeps
    <3>2. UNCHANGED <<now, registry>>
      BY <2>2
      DEF Serve, Authenticate, PolicyAnswers, QueryFails, Denied, CheckPassword, IssueToken,
          PasswordRefused, StartStream, StartPublishing, SessionLimitReached, Disconnect
    <3>3. req[r].pc # "idle" => req[r].mount \in Mountpoints
      BY DEF IInv, RequestInv, Identified
    <3>4. online' \subseteq Mountpoints
      BY <2>2, <3>3
      DEF Serve, Authenticate, PolicyAnswers, QueryFails, Denied, CheckPassword, IssueToken,
          PasswordRefused, StartStream, StartPublishing, SessionLimitReached, Disconnect,
          Verified, IInv, TypeOK
    <3> QED BY <2>1, <3>1, <3>2, <3>4 DEF IInv, TypeOK
  <2>3. ASSUME NEW i \in DOMAIN tokens, Hello(i) PROVE IInv'
    <3>1. UNCHANGED <<now, registry, online, req>>
      BY <2>3 DEF Hello
    <3>2. (\A x \in Requests : RequestInv(req[x]))'
      BY <3>1 DEF IInv, RequestInv, Identified, AnswerJustified, VerifiedIsAllowed,
                  AnswerLimited, StreamLawful, StreamLimited, Lawful
    <3> QED BY <2>1, <3>1, <3>2 DEF IInv, TypeOK
  <2>4. ASSUME NEW u \in Users, NEW e \in Entries \cup {None}, Edit(u, e) PROVE IInv'
    <3>1. Observe /\ now' = now /\ online' = online /\ registry' = [registry EXCEPT ![u] = e]
      BY <2>4 DEF Edit
    <3>2. ASSUME NEW r \in Requests PROVE StreamLimited(req[r])'
      <4>1. /\ req'[r].pc = req[r].pc /\ req'[r].kind = req[r].kind
            /\ req'[r].user = req[r].user /\ req'[r].since = req[r].since
            /\ req'[r].deadline = req[r].deadline
        BY <3>1, ObserveEffect DEF IInv
      <4> QED BY <3>1, <4>1 DEF IInv, RequestInv, StreamLimited
    <3>3. /\ req' \in [Requests -> RequestRecords]
          /\ (\A r \in Requests : RequestInv(req[r]))'
      BY <3>1, <3>2, ObserveKeeps
    <3> QED BY <2>1, <3>1, <3>3 DEF IInv, TypeOK
  <2>5. CASE Tick
    <3>1. Observe /\ now' = now + 1 /\ UNCHANGED <<registry, online>>
      BY <2>5 DEF Tick
    <3>2. \A r \in Requests : StreamLimited(req[r])'
      BY <2>5, TickKeepsLimits
    <3>3. /\ req' \in [Requests -> RequestRecords]
          /\ (\A r \in Requests : RequestInv(req[r]))'
      BY <3>1, <3>2, ObserveKeeps
    <3> QED BY <2>1, <3>1, <3>3 DEF IInv, TypeOK
  <2> QED BY <1>1, <2>2, <2>3, <2>4, <2>5 DEF Next
<1>2. CASE UNCHANGED vars
  BY <1>2 DEF vars, IInv, TypeOK, TokenInv, RequestInv, Identified, AnswerJustified,
              VerifiedIsAllowed, AnswerLimited, StreamLawful, StreamLimited, Lawful
<1> QED BY <1>1, <1>2

LEMMA Inductive == Spec => []IInv
  BY InitInv, NextInv, PTL DEF Spec

\* Requests, tokens, registry and clock stay within their types.
THEOREM TypeCorrect == Spec => []TypeOK
<1>1. IInv => TypeOK
  BY DEF IInv
<1> QED BY <1>1, Inductive, PTL

\* No stream and no UDP session is granted that the registry did not allow, with
\* that password, at some moment between request and grant, however registry and
\* clock move while OPA and bcrypt are awaited; and no token opens a session after
\* its time.
THEOREM NoUnjustifiedGrant == Spec => []GrantsJustified
<1>1. IInv => GrantsJustified
  BY DEF IInv, GrantsJustified, RequestInv, StreamLawful, TokenInv
<1> QED BY <1>1, Inductive, PTL

\* Every stream of the anonymous rover ends within max_session_seconds of its
\* start, whatever came before it.
THEOREM AnonymousStreamsEnd == Spec => []LimitedSessionsEnd
<1>1. IInv => LimitedSessionsEnd
  BY DEF IInv, LimitedSessionsEnd, RequestInv, StreamLimited
<1> QED BY <1>1, Inductive, PTL
=============================================================================
