------------------------- MODULE OnboardingBotProofs -------------------------
(***************************************************************************)
(* Proofs about OnboardingBot for any finite set of names, any accounts    *)
(* and any number of pull requests, runs and reruns.                       *)
(***************************************************************************)
EXTENDS OnboardingBot, FiniteSetTheorems, TLAPS

Credentials == [user : Users, to : People]
Hashes == [Users -> Nat \cup {Given}]
\* The hashes a run generated.
Credited == [Users -> Nat]
Owners == [Users -> People \cup {None}]
Branches == [commit : Nat, entries : SUBSET Users, hash : Hashes, owner : Owners]
Trees == [entries : SUBSET Users, hash : Hashes, owner : Owners]
RunRecords == [pc : Status, base : Branches \cup {None}, tree : Trees \cup {None},
               creds : Credited]

TypeOK ==
    /\ main \in Branches
    /\ pr \in [Runs -> [author : People, entries : SUBSET Users, hash : Hashes] \cup {None}]
    /\ run \in [Runs -> RunRecords]
    /\ starts \in Nat
    /\ issued \in Seq(Credentials)
    /\ announced \subseteq 1..Len(issued)

\* Each hash of h that is not Given belongs to a password for that entry, posted
\* to its owner: one of the credentials in list, with a comment in posted.
Sent(h, owner, list, posted) ==
    \A u \in Users : h[u] > 0 =>
        /\ h[u] \in posted
        /\ list[h[u]] = [user |-> u, to |-> owner[u]]

\* Owners are pinned for entries of the file only.
OwnersOfEntries == \A u \in Users : main.owner[u] # None => u \in main.entries

\* A request opened long ago has hashes that are no longer those of main, but
\* they too were sent to the owners of now.
RequestsSent ==
    \A r \in Runs : pr[r] # None => Sent(pr[r].hash, main.owner, issued, announced)

Working == {"checked", "storing", "posting", "pushing", "closing"}

\* The checkout of a run is main itself, or main has got commits since.
BaseIsMain(r) ==
    LET base == run[r].base IN
    /\ base \in Branches
    /\ base.commit <= main.commit
    /\ base.commit = main.commit => base = main
    /\ \A u \in Users : base.hash[u] <= Len(issued)

\* The results of a run: passwords for entries that are new or the author's own,
\* encrypted to the author, later than any hash of the checkout.
CredentialsOwned(r) ==
    \A u \in Users : run[r].creds[u] # 0 =>
        /\ run[r].creds[u] \in 1..Len(issued)
        /\ issued[run[r].creds[u]] = [user |-> u, to |-> pr[r].author]
        /\ run[r].base.hash[u] < run[r].creds[u]
        /\ u \in pr[r].entries
        /\ u \notin run[r].base.entries \/ run[r].base.owner[u] = pr[r].author

\* Before the results are stored the working copy is the file of the request and
\* the owners of the checkout; afterwards it has the results in it.
TreeBefore(r) ==
    /\ run[r].tree \in Trees
    /\ run[r].tree.entries = pr[r].entries
    /\ run[r].tree.hash = pr[r].hash
    /\ run[r].tree.owner = run[r].base.owner
TreeAfter(r) ==
    /\ run[r].tree \in Trees
    /\ run[r].tree.entries = pr[r].entries
    /\ run[r].tree.hash = [u \in Users |-> IF run[r].creds[u] # 0 THEN run[r].creds[u]
                                           ELSE pr[r].hash[u]]
    /\ run[r].tree.owner = [u \in Users |-> IF run[r].creds[u] # 0 THEN pr[r].author
                                            ELSE run[r].base.owner[u]]

RunInv(r) ==
    run[r].pc \in Working =>
        /\ pr[r] # None
        /\ BaseIsMain(r)
        /\ CredentialsOwned(r)
        /\ run[r].pc \in {"checked", "storing"} => TreeBefore(r)
        /\ run[r].pc = "checked" => run[r].creds = NoHash
        /\ run[r].pc \notin {"checked", "storing"} => TreeAfter(r)
        /\ run[r].pc # "checked" => run[r].base.entries \subseteq pr[r].entries
        /\ run[r].pc = "pushing" => \A u \in Results(r) : run[r].creds[u] \in announced

\* The inductive invariant.
IInv ==
    /\ TypeOK
    /\ PasswordsReachOwners
    /\ OwnersOfEntries
    /\ RequestsSent
    /\ \A r \in Runs : RunInv(r)
-----------------------------------------------------------------------------
(* Numbering the credentials of a run.                                      *)

\* SetToSeq lists every element of a finite set.
LEMMA SetToSeqLists ==
    ASSUME NEW S, IsFiniteSet(S)
    PROVE  /\ Cardinality(S) \in Nat
           /\ SetToSeq(S) \in [1..Cardinality(S) -> S]
           /\ \A u \in S : \E i \in 1..Cardinality(S) : SetToSeq(S)[i] = u
<1> DEFINE n == Cardinality(S)
           f == SetToSeq(S)
<1>1. n \in Nat /\ \E g : g \in Bijection(1..n, S)
  BY FS_CardinalityType DEF ExistsBijection
<1>2. \E g \in [1..n -> S] : IsInjective(g)
  BY <1>1 DEF Bijection, Injection
<1>3. f \in [1..n -> S] /\ IsInjective(f)
  BY <1>2 DEF SetToSeq
<1> HIDE DEF f
<1>4. f \in Injection(1..n, S)
  BY <1>3 DEF Injection
<1>5. Cardinality(1..n) = n
  BY <1>1, FS_Interval
<1>6. f \in Surjection(1..n, S)
  BY <1>4, <1>5, FS_Injection
<1>7. \A u \in S : \E i \in 1..n : f[i] = u
  BY <1>6 DEF Surjection
<1> QED BY <1>1, <1>3, <1>7 DEF f

\* The credentials of a run get numbers of their own, after all the others.
LEMMA GenerateEffect ==
    ASSUME TypeOK, NEW r \in Runs, pr[r] # None, NEW ok \in SUBSET Users,
           GenerateCredentials(r, ok), run[r].creds = NoHash
    PROVE  /\ issued' \in Seq(Credentials) /\ Len(issued) <= Len(issued')
           /\ \A i \in 1..Len(issued) : issued'[i] = issued[i]
           /\ \E cr \in Credited :
                 /\ run' = [run EXCEPT ![r].pc = "storing", ![r].creds = cr]
                 /\ \A u \in Users : cr[u] # 0 =>
                       /\ u \in ok
                       /\ cr[u] \in (Len(issued) + 1)..Len(issued')
                       /\ issued'[cr[u]] = [user |-> u, to |-> pr[r].author]
<1> DEFINE batch == SetToSeq(ok)
           n == Cardinality(ok)
           at(u) == CHOOSE i \in DOMAIN batch : batch[i] = u
           cr == [u \in Users |-> IF u \in ok THEN Len(issued) + at(u) ELSE 0]
           new == [i \in DOMAIN batch |-> [user |-> batch[i], to |-> pr[r].author]]
<1>1. IsFiniteSet(ok)
  BY BotAssumption, FS_Subset
<1>2. /\ n \in Nat /\ batch \in [1..n -> ok] /\ DOMAIN batch = 1..n
      /\ \A u \in ok : \E i \in 1..n : batch[i] = u
  BY <1>1, SetToSeqLists
<1>3. issued' = issued \o new /\ run' = [run EXCEPT ![r].pc = "storing", ![r].creds = cr]
  BY DEF GenerateCredentials
<1> HIDE DEF batch, n
<1>4. \A u \in ok : at(u) \in 1..n /\ batch[at(u)] = u
  BY <1>2
<1>5. pr[r].author \in People
  BY DEF TypeOK
<1>6. new \in [1..n -> Credentials]
  BY <1>2, <1>5 DEF Credentials
<1>7. new \in Seq(Credentials) /\ Len(new) = n /\ issued \in Seq(Credentials)
  BY <1>2, <1>6 DEF TypeOK
<1>8. \A u \in ok : new[at(u)] = [user |-> u, to |-> pr[r].author]
  BY <1>2, <1>4
<1> HIDE DEF at, new
<1>9. /\ issued' \in Seq(Credentials) /\ Len(issued') = Len(issued) + n
      /\ Len(issued) \in Nat
      /\ \A i \in 1..Len(issued) : issued'[i] = issued[i]
      /\ \A i \in 1..n : issued'[Len(issued) + i] = new[i]
  BY <1>2, <1>3, <1>7
<1>10. cr \in Credited
  BY <1>2, <1>4, <1>9 DEF Credited
<1>11. ASSUME NEW u \in Users, cr[u] # 0
       PROVE  /\ u \in ok
              /\ cr[u] \in (Len(issued) + 1)..Len(issued')
              /\ issued'[cr[u]] = [user |-> u, to |-> pr[r].author]
  <2>1. u \in ok /\ cr[u] = Len(issued) + at(u)
    BY <1>11
  <2>2. at(u) \in 1..n /\ new[at(u)] = [user |-> u, to |-> pr[r].author]
    BY <1>4, <1>8, <2>1
  <2>3. cr[u] \in (Len(issued) + 1)..Len(issued')
    BY <1>2, <1>9, <2>1, <2>2
  <2>4. issued'[cr[u]] = new[at(u)]
    BY <1>9, <2>1, <2>2
  <2> QED BY <2>1, <2>2, <2>3, <2>4
<1> HIDE DEF cr
<1>12. Len(issued) <= Len(issued')
  BY <1>2, <1>9
<1> QED BY <1>3, <1>9, <1>10, <1>11, <1>12
-----------------------------------------------------------------------------
(* What every step keeps.                                                   *)

\* Credentials and comments are only ever added.
Later ==
    /\ issued' \in Seq(Credentials)
    /\ Len(issued) <= Len(issued')
    /\ \A i \in 1..Len(issued) : issued'[i] = issued[i]
    /\ announced \subseteq announced'

\* What was sent stays sent, as long as no pinned owner changes.
LEMMA SentLater ==
    ASSUME NEW h, NEW o1, NEW o2, NEW l1 \in Seq(Credentials), NEW l2, NEW p1, NEW p2,
           p1 \subseteq 1..Len(l1), p1 \subseteq p2,
           \A i \in 1..Len(l1) : l2[i] = l1[i],
           \A u \in Users : o1[u] # None => o2[u] = o1[u],
           Sent(h, o1, l1, p1)
    PROVE  Sent(h, o2, l2, p2)
<1> SUFFICES ASSUME NEW u \in Users, h[u] > 0
             PROVE  h[u] \in p2 /\ l2[h[u]] = [user |-> u, to |-> o2[u]]
  BY DEF Sent
<1>1. h[u] \in p1 /\ h[u] \in 1..Len(l1) /\ l1[h[u]] = [user |-> u, to |-> o1[u]]
  BY DEF Sent
<1>2. l1[h[u]] \in Credentials
  BY <1>1
<1>3. o1[u] \in People
  BY <1>1, <1>2 DEF Credentials
<1> QED BY <1>1, <1>3, BotAssumption

\* A run that does not step keeps its invariant while the others, and main, move on.
LEMMA OthersKeep ==
    ASSUME TypeOK, Later, NEW x \in Runs, RunInv(x), run'[x] = run[x],
           pr[x] # None => pr'[x] = pr[x],
           main' = main \/ (main'.commit \in Nat /\ main'.commit > main.commit)
    PROVE  RunInv(x)'
<1> SUFFICES ASSUME run[x].pc \in Working PROVE RunInv(x)'
  BY DEF RunInv
<1>1. /\ pr[x] # None /\ pr'[x] = pr[x] /\ BaseIsMain(x) /\ CredentialsOwned(x)
      /\ Len(issued) \in Nat /\ Len(issued') \in Nat
      /\ run[x].creds \in Credited
  BY DEF RunInv, TypeOK, Later, RunRecords
<1>2. BaseIsMain(x)'
  <2>1. main.commit \in Nat /\ run[x].base.commit \in Nat /\ run[x].base.hash \in Hashes
    BY <1>1 DEF TypeOK, Branches, BaseIsMain
  <2>2. \A u \in Users : run[x].base.hash[u] <= Len(issued')
    <3> SUFFICES ASSUME NEW u \in Users PROVE run[x].base.hash[u] <= Len(issued')
      OBVIOUS
    <3>1. run[x].base.hash[u] \in Int
      BY <2>1 DEF Hashes, Given
    <3>2. run[x].base.hash[u] <= Len(issued) /\ Len(issued) <= Len(issued')
      BY <1>1 DEF BaseIsMain, Later
    <3> QED BY <1>1, <3>1, <3>2
  <2> QED BY <1>1, <2>1, <2>2 DEF BaseIsMain
<1>3. CredentialsOwned(x)'
  <2> SUFFICES ASSUME NEW u \in Users, run[x].creds[u] # 0
               PROVE  /\ run[x].creds[u] \in 1..Len(issued')
                      /\ issued'[run[x].creds[u]] = [user |-> u, to |-> pr[x].author]
                      /\ run[x].base.hash[u] < run[x].creds[u]
                      /\ u \in pr[x].entries
                      /\ u \notin run[x].base.entries \/ run[x].base.owner[u] = pr[x].author
    BY <1>1 DEF CredentialsOwned
  <2>1. run[x].creds[u] \in 1..Len(issued)
    BY <1>1 DEF CredentialsOwned
  <2>2. run[x].creds[u] \in 1..Len(issued') /\ issued'[run[x].creds[u]] = issued[run[x].creds[u]]
    BY <1>1, <2>1 DEF Later
  <2> QED BY <1>1, <2>2 DEF CredentialsOwned
<1> QED BY <1>1, <1>2, <1>3 DEF RunInv, TreeBefore, TreeAfter, Results, Later

\* A step of run r that leaves main and the requests alone keeps everything, if it
\* keeps the invariant of r.
LEMMA StepOfRun ==
    ASSUME IInv, Later, NEW r \in Runs, NEW q \in RunRecords,
           run' = [run EXCEPT ![r] = q], UNCHANGED <<main, pr>>,
           starts' \in Nat, announced' \subseteq 1..Len(issued'),
           RunInv(r)'
    PROVE  IInv'
<1>1. TypeOK /\ TypeOK'
  BY DEF IInv, TypeOK, Later
<1>2. /\ Sent(main.hash, main.owner, issued, announced)
      /\ \A x \in Runs : pr[x] # None => Sent(pr[x].hash, main.owner, issued, announced)
  BY DEF IInv, PasswordsReachOwners, Sent, RequestsSent
<1>3. \A h : Sent(h, main.owner, issued, announced)
                => Sent(h, main.owner, issued', announced')
  <2> TAKE h
  <2> HAVE Sent(h, main.owner, issued, announced)
  <2> QED BY <1>1, SentLater DEF TypeOK, Later
<1>4. PasswordsReachOwners'
  BY <1>2, <1>3 DEF PasswordsReachOwners, Sent
<1>5. RequestsSent'
  BY <1>2, <1>3 DEF RequestsSent
<1>6. ASSUME NEW x \in Runs PROVE RunInv(x)'
  <2>1. CASE x = r
    BY <2>1
  <2>2. CASE x # r
    <3>1. RunInv(x) /\ run'[x] = run[x]
      BY <1>1, <2>2 DEF IInv, TypeOK
    <3> QED BY <1>1, <3>1, OthersKeep
  <2> QED BY <2>1, <2>2
<1>7. OwnersOfEntries'
  BY DEF IInv, OwnersOfEntries
<1> QED BY <1>1, <1>4, <1>5, <1>6, <1>7 DEF IInv
-----------------------------------------------------------------------------
(* The steps of a workflow run.                                             *)

LEMMA IdleTypes ==
    ASSUME NEW status \in Status
    PROVE  [Idle EXCEPT !.pc = status] \in RunRecords /\ [Idle EXCEPT !.pc = status].pc = status
  BY DEF Idle, RunRecords, NoHash, Credited

LEMMA NothingLater == ASSUME TypeOK, UNCHANGED <<issued, announced>> PROVE Later
  BY DEF Later, TypeOK

\* A run that ends, for whatever reason, after a comment was posted or not.
LEMMA EndsKeeps ==
    ASSUME IInv, Later, NEW r \in Runs, NEW status \in Status \ Working, Ends(r, status),
           announced' \subseteq 1..Len(issued'), UNCHANGED <<main, pr, starts>>
    PROVE  IInv'
<1> DEFINE q == [Idle EXCEPT !.pc = status]
<1>1. q \in RunRecords /\ q.pc = status
  BY IdleTypes
<1>2. run' = [run EXCEPT ![r] = q]
  BY DEF Ends
<1> HIDE DEF q
<1>3. run'[r] = q
  BY <1>2 DEF IInv, TypeOK
<1>4. RunInv(r)'
  BY <1>1, <1>3 DEF RunInv
<1>5. starts' \in Nat
  BY DEF IInv, TypeOK
<1> QED BY <1>1, <1>2, <1>4, <1>5, StepOfRun

\* The runner checks out main and the request.
LEMMA CheckoutKeeps ==
    ASSUME IInv, NEW r \in Runs, Checkout(r)
    PROVE  IInv'
<1> DEFINE t == [entries |-> pr[r].entries, hash |-> pr[r].hash, owner |-> main.owner]
           q == [pc |-> "checked", base |-> main, creds |-> NoHash, tree |-> t]
<1>a. TypeOK /\ PasswordsReachOwners /\ pr[r] # None
  BY DEF IInv, Checkout
<1>1. /\ main \in Branches /\ pr[r].entries \subseteq Users /\ pr[r].hash \in Hashes
      /\ main.owner \in Owners /\ main.hash \in Hashes /\ main.commit \in Nat
  BY <1>a DEF TypeOK, Branches
<1>2. t \in Trees /\ NoHash \in Credited
  BY <1>1 DEF Trees, NoHash, Credited
<1>3. /\ run' = [run EXCEPT ![r] = q] /\ starts' = starts + 1
      /\ UNCHANGED <<main, pr, issued, announced>>
  BY DEF Checkout
<1>4. q \in RunRecords
  BY <1>1, <1>2 DEF RunRecords, Status
<1>5. run'[r] = q
  BY <1>3, <1>a DEF TypeOK
<1>6. \A u \in Users : main.hash[u] <= Len(issued)
  <2>1. Len(issued) \in Nat
    BY <1>a DEF TypeOK
  <2>2. ASSUME NEW u \in Users PROVE main.hash[u] <= Len(issued)
    <3>1. main.hash[u] \in Nat \cup {Given}
      BY <1>1 DEF Hashes
    <3>2. main.hash[u] > 0 => main.hash[u] \in 1..Len(issued)
      BY <1>a DEF PasswordsReachOwners, TypeOK
    <3> QED BY <2>1, <3>1, <3>2 DEF Given
  <2> QED BY <2>2
<1>7. RunInv(r)'
  <2>1. BaseIsMain(r)'
    BY <1>1, <1>3, <1>5, <1>6 DEF BaseIsMain
  <2>2. CredentialsOwned(r)'
    BY <1>5 DEF CredentialsOwned, NoHash
  <2>3. TreeBefore(r)'
    BY <1>2, <1>3, <1>5 DEF TreeBefore
  <2> QED BY <1>3, <1>5, <1>a, <2>1, <2>2, <2>3 DEF RunInv
<1>8. starts' \in Nat /\ announced' \subseteq 1..Len(issued') /\ Later
  BY <1>3, <1>a, NothingLater DEF TypeOK
<1> HIDE DEF q
<1> QED BY <1>3, <1>4, <1>7, <1>8, StepOfRun

\* Facts about a run at work that every step of the script starts from.
LEMMA RunFacts ==
    ASSUME IInv, NEW r \in Runs, run[r].pc \in Working
    PROVE  /\ run[r] \in RunRecords /\ run[r].creds \in Credited
           /\ pr[r] # None /\ pr[r].author \in People
           /\ pr[r].entries \subseteq Users /\ pr[r].hash \in Hashes
           /\ BaseIsMain(r) /\ run[r].base \in Branches
           /\ run[r].base.owner \in Owners /\ run[r].base.hash \in Hashes
           /\ run[r].base.entries \subseteq Users
           /\ CredentialsOwned(r)
<1>1. RunInv(r) /\ TypeOK
  BY DEF IInv
<1>2. pr[r] # None /\ BaseIsMain(r) /\ CredentialsOwned(r)
  BY <1>1 DEF RunInv
<1>3. run[r].base \in Branches
  BY <1>2 DEF BaseIsMain
<1> QED BY <1>1, <1>2, <1>3 DEF TypeOK, RunRecords, Branches

\* A step of r that changes its position only.
LEMMA MoveEffect ==
    ASSUME IInv, NEW r \in Runs, NEW to \in Status, run' = [run EXCEPT ![r].pc = to]
    PROVE  /\ [run[r] EXCEPT !.pc = to] \in RunRecords
           /\ run' = [run EXCEPT ![r] = [run[r] EXCEPT !.pc = to]]
           /\ run'[r].pc = to /\ run'[r].base = run[r].base
           /\ run'[r].tree = run[r].tree /\ run'[r].creds = run[r].creds
  BY DEF IInv, TypeOK, RunRecords

\* The script finds nothing to do.
LEMMA NothingToDoKeeps ==
    ASSUME IInv, NEW r \in Runs, NothingToDo(r)
    PROVE  IInv'
<1>a. run[r].pc = "checked" /\ run[r].pc \in Working /\ OnlyAdditions(r)
  BY DEF NothingToDo, Working
<1>1. /\ run' = [run EXCEPT ![r].pc = "pushing"]
      /\ UNCHANGED <<main, pr, starts, issued, announced>>
  BY DEF NothingToDo
<1>2. /\ [run[r] EXCEPT !.pc = "pushing"] \in RunRecords
      /\ run' = [run EXCEPT ![r] = [run[r] EXCEPT !.pc = "pushing"]]
      /\ run'[r].pc = "pushing" /\ run'[r].base = run[r].base
      /\ run'[r].tree = run[r].tree /\ run'[r].creds = run[r].creds
  BY <1>1, MoveEffect DEF Status
<1>3. /\ pr[r] # None /\ BaseIsMain(r) /\ CredentialsOwned(r)
      /\ pr[r].hash \in Hashes /\ run[r].base.owner \in Owners
  BY <1>a, RunFacts
<1>4. TreeBefore(r) /\ run[r].creds = NoHash
  BY <1>a DEF IInv, RunInv
<1>5. TreeAfter(r)
  <2>1. \A u \in Users : run[r].creds[u] = 0
    BY <1>4 DEF NoHash
  <2>2. pr[r].hash = [u \in Users |-> IF run[r].creds[u] # 0 THEN run[r].creds[u]
                                      ELSE pr[r].hash[u]]
    BY <1>3, <2>1 DEF Hashes
  <2>3. run[r].base.owner = [u \in Users |-> IF run[r].creds[u] # 0 THEN pr[r].author
                                             ELSE run[r].base.owner[u]]
    BY <1>3, <2>1 DEF Owners
  <2> QED BY <1>4, <2>2, <2>3 DEF TreeBefore, TreeAfter
<1>6. run[r].base.entries \subseteq pr[r].entries
  BY <1>a, <1>4 DEF OnlyAdditions, TreeBefore
<1>7. RunInv(r)'
  <2>1. BaseIsMain(r)' /\ CredentialsOwned(r)' /\ TreeAfter(r)'
    BY <1>1, <1>2, <1>3, <1>5 DEF BaseIsMain, CredentialsOwned, TreeAfter
  <2>2. Results(r)' = {}
    BY <1>2, <1>4 DEF Results, NoHash
  <2> QED BY <1>1, <1>2, <1>3, <1>6, <2>1, <2>2 DEF RunInv
<1>8. Later /\ starts' \in Nat /\ announced' \subseteq 1..Len(issued')
  BY <1>1, NothingLater DEF IInv, TypeOK
<1> QED BY <1>1, <1>2, <1>7, <1>8, StepOfRun

\* Passwords are made for new entries and for those of the author only.
LEMMA GenerateKeeps ==
    ASSUME IInv, NEW r \in Runs, NEW ok \in SUBSET Users, GenerateCredentials(r, ok)
    PROVE  IInv'
<1>a. /\ run[r].pc = "checked" /\ run[r].pc \in Working /\ OnlyAdditions(r)
      /\ Tampered(r) = {} /\ ok \subseteq Hashless(r)
      /\ UNCHANGED <<main, pr, starts, announced>>
  BY DEF GenerateCredentials, Working
<1>b. /\ run[r] \in RunRecords /\ pr[r] # None /\ BaseIsMain(r)
      /\ run[r].base.hash \in Hashes
  BY <1>a, RunFacts
<1>c. TreeBefore(r) /\ run[r].creds = NoHash /\ TypeOK
  BY <1>a DEF IInv, RunInv
<1>1. /\ issued' \in Seq(Credentials) /\ Len(issued) <= Len(issued')
      /\ \A i \in 1..Len(issued) : issued'[i] = issued[i]
  BY <1>b, <1>c, GenerateEffect
<1>2. PICK cr \in Credited :
        /\ run' = [run EXCEPT ![r].pc = "storing", ![r].creds = cr]
        /\ \A u \in Users : cr[u] # 0 =>
              /\ u \in ok
              /\ cr[u] \in (Len(issued) + 1)..Len(issued')
              /\ issued'[cr[u]] = [user |-> u, to |-> pr[r].author]
  BY <1>b, <1>c, GenerateEffect
<1> DEFINE q == [run[r] EXCEPT !.pc = "storing", !.creds = cr]
<1>3. /\ q \in RunRecords /\ run' = [run EXCEPT ![r] = q]
      /\ run'[r] = q /\ q.pc = "storing" /\ q.base = run[r].base
      /\ q.tree = run[r].tree /\ q.creds = cr
  BY <1>b, <1>c, <1>2 DEF RunRecords, Status, TypeOK
<1> HIDE DEF q
<1>4. Len(issued) \in Nat /\ Len(issued') \in Nat
  BY <1>1, <1>c DEF TypeOK
<1>5. BaseIsMain(r)'
  <2>1. \A u \in Users : run[r].base.hash[u] <= Len(issued')
    BY <1>1, <1>4, <1>b DEF BaseIsMain, Hashes, Given
  <2> QED BY <1>3, <1>a, <1>b, <2>1 DEF BaseIsMain
<1>6. CredentialsOwned(r)'
  <2> SUFFICES ASSUME NEW u \in Users, cr[u] # 0
               PROVE  /\ cr[u] \in 1..Len(issued')
                      /\ issued'[cr[u]] = [user |-> u, to |-> pr[r].author]
                      /\ run[r].base.hash[u] < cr[u]
                      /\ u \in pr[r].entries
                      /\ u \notin run[r].base.entries \/ run[r].base.owner[u] = pr[r].author
    BY <1>3, <1>a DEF CredentialsOwned
  <2>1. /\ u \in ok /\ cr[u] \in (Len(issued) + 1)..Len(issued')
        /\ issued'[cr[u]] = [user |-> u, to |-> pr[r].author]
    BY <1>2
  <2>2. cr[u] \in 1..Len(issued') /\ run[r].base.hash[u] < cr[u]
    BY <1>4, <1>b, <2>1 DEF BaseIsMain, Hashes, Given
  <2>3. u \in pr[r].entries
    BY <1>a, <1>c, <2>1 DEF Hashless, TreeBefore
  <2>4. u \in New(r) \cup Rotation(r)
    BY <1>a, <2>1 DEF Tampered
  <2>5. u \notin run[r].base.entries \/ run[r].base.owner[u] = pr[r].author
    BY <2>4 DEF New, Rotation
  <2> QED BY <2>1, <2>2, <2>3, <2>5
<1>7. RunInv(r)'
  <2>1. TreeBefore(r)'
    BY <1>3, <1>a, <1>c DEF TreeBefore
  <2>2. run[r].base.entries \subseteq pr[r].entries
    BY <1>a, <1>c DEF OnlyAdditions, TreeBefore
  <2> QED BY <1>3, <1>5, <1>6, <1>a, <1>b, <2>1, <2>2 DEF RunInv
<1>8. Later /\ starts' \in Nat
  BY <1>1, <1>a, <1>c DEF Later, TypeOK
<1>9. announced' \subseteq 1..Len(issued')
  BY <1>1, <1>4, <1>a, <1>c DEF TypeOK
<1> QED BY <1>3, <1>7, <1>8, <1>9, <1>a, StepOfRun

\* Storing puts the results into the working copy.
LEMMA StoreKeeps ==
    ASSUME IInv, NEW r \in Runs, StoreHashes(r)
    PROVE  IInv'
<1> DEFINE old == run[r]
           h == [u \in Users |-> IF u \in Results(r) THEN old.creds[u] ELSE old.tree.hash[u]]
           o == [u \in Users |-> IF u \in Results(r) THEN pr[r].author ELSE old.tree.owner[u]]
           t == [old.tree EXCEPT !.hash = h, !.owner = o]
           q == [old EXCEPT !.pc = "posting", !.tree = t]
<1>a. /\ old.pc = "storing" /\ old.pc \in Working
      /\ UNCHANGED <<main, pr, starts, issued, announced>>
  BY DEF StoreHashes, Working
<1>b. /\ old \in RunRecords /\ old.creds \in Credited /\ pr[r] # None
      /\ pr[r].author \in People /\ pr[r].entries \subseteq Users /\ pr[r].hash \in Hashes
      /\ BaseIsMain(r) /\ CredentialsOwned(r) /\ old.base.owner \in Owners
  BY <1>a, RunFacts
<1>c. /\ old.tree \in Trees /\ old.tree.entries = pr[r].entries
      /\ old.tree.hash = pr[r].hash /\ old.tree.owner = old.base.owner
      /\ old.base.entries \subseteq pr[r].entries /\ TypeOK
  BY <1>a DEF IInv, RunInv, TreeBefore
<1>1. run' = [run EXCEPT ![r] = q]
  BY <1>b, <1>c DEF StoreHashes, RunRecords, TypeOK
<1>2. h \in Hashes /\ o \in Owners
  BY <1>b, <1>c DEF Hashes, Credited, Owners
<1>3. /\ h = [u \in Users |-> IF old.creds[u] # 0 THEN old.creds[u] ELSE pr[r].hash[u]]
      /\ o = [u \in Users |-> IF old.creds[u] # 0 THEN pr[r].author ELSE old.base.owner[u]]
  BY <1>c DEF Results
<1> HIDE DEF h, o
<1>4. t \in Trees /\ t.entries = pr[r].entries /\ t.hash = h /\ t.owner = o
  BY <1>2, <1>b, <1>c DEF Trees
<1> HIDE DEF t
<1>6. /\ q \in RunRecords /\ run'[r] = q /\ q.pc = "posting" /\ q.base = old.base
      /\ q.tree = t /\ q.creds = old.creds
  BY <1>1, <1>4, <1>b, <1>c DEF RunRecords, Status, TypeOK
<1> HIDE DEF q
<1>7. RunInv(r)'
  <2>1. BaseIsMain(r)' /\ CredentialsOwned(r)'
    BY <1>6, <1>a, <1>b DEF BaseIsMain, CredentialsOwned
  <2>2. TreeAfter(r)'
    BY <1>3, <1>4, <1>6, <1>a DEF TreeAfter
  <2> QED BY <1>6, <1>a, <1>b, <1>c, <2>1, <2>2 DEF RunInv
<1>8. Later /\ starts' \in Nat /\ announced' \subseteq 1..Len(issued')
  BY <1>a, <1>c, NothingLater DEF TypeOK
<1> QED BY <1>1, <1>6, <1>7, <1>8, <1>a, StepOfRun

\* A comment about one of the run's own credentials.
LEMMA PostLater ==
    ASSUME IInv, NEW r \in Runs, run[r].pc = "posting", NEW c \in Unposted(r),
           announced' = announced \cup {c}, UNCHANGED issued
    PROVE  Later /\ announced' \subseteq 1..Len(issued')
<1>1. CredentialsOwned(r) /\ TypeOK
  BY RunFacts DEF Working, IInv
<1>2. c \in 1..Len(issued)
  BY <1>1 DEF Unposted, Results, CredentialsOwned
<1> QED BY <1>1, <1>2 DEF Later, TypeOK

\* The run goes on to push when its last credential has been posted.
LEMMA PostKeeps ==
    ASSUME IInv, NEW r \in Runs, PostCredential(r)
    PROVE  IInv'
<1>a. /\ run[r].pc = "posting" /\ run[r].pc \in Working
      /\ UNCHANGED <<main, pr, starts, issued>>
  BY DEF PostCredential, Working
<1>1. PICK c \in Unposted(r) :
        /\ announced' = announced \cup {c}
        /\ run' = [run EXCEPT ![r].pc = IF Unposted(r) = {c} THEN "pushing" ELSE @]
  BY DEF PostCredential
<1> DEFINE to == IF Unposted(r) = {c} THEN "pushing" ELSE "posting"
<1>2. run' = [run EXCEPT ![r].pc = to] /\ to \in Status
  BY <1>1, <1>a DEF Status
<1>b. to = "pushing" => Unposted(r) = {c}
  OBVIOUS
<1>d. to \in {"posting", "pushing"}
  OBVIOUS
<1> HIDE DEF to
<1>3. /\ [run[r] EXCEPT !.pc = to] \in RunRecords
      /\ run' = [run EXCEPT ![r] = [run[r] EXCEPT !.pc = to]]
      /\ run'[r].pc = to /\ run'[r].base = run[r].base
      /\ run'[r].tree = run[r].tree /\ run'[r].creds = run[r].creds
  BY <1>2, MoveEffect
<1>4. /\ pr[r] # None /\ BaseIsMain(r) /\ CredentialsOwned(r) /\ TreeAfter(r)
      /\ run[r].base.entries \subseteq pr[r].entries
  BY <1>a DEF IInv, RunInv
<1>5. RunInv(r)'
  <2>1. BaseIsMain(r)' /\ CredentialsOwned(r)' /\ TreeAfter(r)'
    BY <1>3, <1>4, <1>a DEF BaseIsMain, CredentialsOwned, TreeAfter
  <2>2. to = "pushing" => \A u \in Results(r) : run[r].creds[u] \in announced'
    BY <1>1, <1>b DEF Unposted
  <2>3. Results(r)' = Results(r)
    BY <1>3 DEF Results
  <2> QED BY <1>3, <1>4, <1>a, <1>d, <2>1, <2>2, <2>3 DEF RunInv
<1>6. Later /\ announced' \subseteq 1..Len(issued') /\ starts' \in Nat
  BY <1>1, <1>a, PostLater DEF IInv, TypeOK
<1> QED BY <1>3, <1>5, <1>6, <1>a, StepOfRun
-----------------------------------------------------------------------------
(* The push.                                                                *)

\* A push is a fast-forward of the main that the run checked out: it adds the
\* results, and everything else it changes goes back to hashes sent before.
LEMMA PushEffect ==
    ASSUME IInv, NEW r \in Runs, Push(r)
    PROVE  /\ main' \in Branches /\ main'.commit = main.commit + 1
           /\ main.entries \subseteq main'.entries
           /\ \A u \in Users : main.owner[u] # None => main'.owner[u] = main.owner[u]
           /\ \A u \in Users : main'.owner[u] # None => u \in main'.entries
           /\ Sent(main'.hash, main'.owner, issued, announced)
           /\ \A u \in Results(r) : main'.hash[u] = run[r].creds[u]
<1> DEFINE cr == run[r].creds
           h == [u \in Users |-> IF cr[u] # 0 THEN cr[u] ELSE pr[r].hash[u]]
           o == [u \in Users |-> IF cr[u] # 0 THEN pr[r].author ELSE main.owner[u]]
<1>a. run[r].pc = "pushing" /\ run[r].pc \in Working /\ run[r].base.commit = main.commit
  BY DEF Push, FastForward, Working
<1>b. /\ cr \in Credited /\ pr[r] # None /\ pr[r].author \in People
      /\ pr[r].entries \subseteq Users /\ pr[r].hash \in Hashes
      /\ CredentialsOwned(r) /\ run[r].base = main
  BY <1>a, RunFacts DEF BaseIsMain
<1>c. /\ TypeOK /\ OwnersOfEntries /\ Sent(pr[r].hash, main.owner, issued, announced)
      /\ TreeAfter(r) /\ main.entries \subseteq pr[r].entries
      /\ \A u \in Results(r) : cr[u] \in announced
  BY <1>a, <1>b DEF IInv, RunInv, RequestsSent
<1>1. run[r].tree.entries = pr[r].entries /\ run[r].tree.hash = h /\ run[r].tree.owner = o
  BY <1>b, <1>c DEF TreeAfter
<1>2. h \in Hashes /\ o \in Owners /\ main.commit \in Nat
  BY <1>b, <1>c DEF Hashes, Credited, Owners, TypeOK, Branches
<1>3. main' = [commit |-> main.commit + 1, entries |-> pr[r].entries, hash |-> h, owner |-> o]
  BY <1>1 DEF Push
<1>4. main' \in Branches /\ main'.commit = main.commit + 1
  BY <1>2, <1>3, <1>b DEF Branches
<1>5. ASSUME NEW u \in Users, cr[u] # 0
      PROVE  /\ u \in pr[r].entries
             /\ u \notin main.entries \/ main.owner[u] = pr[r].author
             /\ cr[u] \in announced
             /\ issued[cr[u]] = [user |-> u, to |-> pr[r].author]
  BY <1>5, <1>b, <1>c DEF CredentialsOwned, Results
<1>6. \A u \in Users : main.owner[u] # None => o[u] = main.owner[u]
  BY <1>5, <1>c DEF OwnersOfEntries
<1>7. \A u \in Users : o[u] # None => u \in pr[r].entries
  BY <1>5, <1>c DEF OwnersOfEntries
<1>8. Sent(h, o, issued, announced)
  <2> SUFFICES ASSUME NEW u \in Users, h[u] > 0
               PROVE  h[u] \in announced /\ issued[h[u]] = [user |-> u, to |-> o[u]]
    BY DEF Sent
  <2>1. CASE cr[u] # 0
    BY <1>5, <2>1
  <2>2. CASE cr[u] = 0
    BY <1>c, <2>2 DEF Sent
  <2> QED BY <2>1, <2>2
<1>9. \A u \in Results(r) : h[u] = cr[u]
  BY DEF Results
<1> HIDE DEF h, o
<1> QED BY <1>3, <1>4, <1>6, <1>7, <1>8, <1>9, <1>c

LEMMA PushKeeps ==
    ASSUME IInv, NEW r \in Runs, Push(r)
    PROVE  IInv'
<1>a. TypeOK /\ main.commit \in Nat
  BY DEF IInv, TypeOK, Branches
<1>b. Later
  BY <1>a, NothingLater DEF Push
<1>1. /\ run' = [run EXCEPT ![r].pc = "closing"] /\ run[r].pc = "pushing"
      /\ UNCHANGED <<pr, starts, issued, announced>>
  BY DEF Push
<1>2. /\ main' \in Branches /\ main'.commit = main.commit + 1
      /\ \A u \in Users : main.owner[u] # None => main'.owner[u] = main.owner[u]
      /\ \A u \in Users : main'.owner[u] # None => u \in main'.entries
      /\ Sent(main'.hash, main'.owner, issued, announced)
  BY PushEffect
<1>3. /\ [run[r] EXCEPT !.pc = "closing"] \in RunRecords
      /\ run' = [run EXCEPT ![r] = [run[r] EXCEPT !.pc = "closing"]]
      /\ run'[r].pc = "closing" /\ run'[r].base = run[r].base
      /\ run'[r].tree = run[r].tree /\ run'[r].creds = run[r].creds
  BY <1>1, MoveEffect DEF Status
<1>4. TypeOK'
  BY <1>1, <1>2, <1>3, <1>a DEF TypeOK
<1>5. PasswordsReachOwners' /\ OwnersOfEntries'
  BY <1>1, <1>2 DEF PasswordsReachOwners, OwnersOfEntries, Sent
<1>6. RequestsSent'
  <2> SUFFICES ASSUME NEW x \in Runs, pr[x] # None
               PROVE  Sent(pr[x].hash, main'.owner, issued, announced)
    BY <1>1 DEF RequestsSent
  <2>1. Sent(pr[x].hash, main.owner, issued, announced)
    BY DEF IInv, RequestsSent
  <2> QED BY <1>2, <1>a, <2>1, SentLater DEF TypeOK
<1>7. ASSUME NEW x \in Runs PROVE RunInv(x)'
  <2>0. RunInv(x) /\ main'.commit \in Nat /\ main'.commit > main.commit
    BY <1>2, <1>a DEF IInv
  <2>1. CASE x # r
    <3>1. run'[x] = run[x]
      BY <1>1, <1>a, <2>1 DEF TypeOK
    <3> QED BY <1>1, <1>a, <1>b, <2>0, <3>1, OthersKeep
  <2>2. CASE x = r
    <3>1. /\ pr[r] # None /\ BaseIsMain(r) /\ CredentialsOwned(r) /\ TreeAfter(r)
          /\ run[r].base.entries \subseteq pr[r].entries
      BY <1>1, <2>0, <2>2 DEF RunInv, Working
    <3>2. run[r].base.commit \in Nat
      BY <3>1 DEF BaseIsMain, Branches
    <3>3. BaseIsMain(r)'
      BY <1>1, <1>2, <1>3, <1>a, <3>1, <3>2 DEF BaseIsMain
    <3>4. CredentialsOwned(r)' /\ TreeAfter(r)'
      BY <1>1, <1>3, <3>1 DEF CredentialsOwned, TreeAfter
    <3> QED BY <1>1, <1>3, <2>2, <3>1, <3>3, <3>4 DEF RunInv
  <2> QED BY <2>1, <2>2
<1> QED BY <1>4, <1>5, <1>6, <1>7 DEF IInv

\* A run with nothing to commit has made no password: it would differ from every
\* hash of the checkout.
LEMMA NothingStagedMeansNoResults ==
    ASSUME IInv, NEW r \in Runs, run[r].pc = "pushing", NothingStaged(r)
    PROVE  Results(r) = {}
<1>1. /\ CredentialsOwned(r) /\ TreeAfter(r) /\ run[r].base.hash \in Hashes
      /\ run[r].creds \in Credited
  BY RunFacts DEF Working, IInv, RunInv
<1>2. SUFFICES ASSUME NEW u \in Users, run[r].creds[u] # 0 PROVE FALSE
  BY DEF Results
<1>3. run[r].base.hash[u] < run[r].creds[u]
  BY <1>1, <1>2 DEF CredentialsOwned
<1>4. run[r].base.hash[u] = run[r].creds[u]
  BY <1>1, <1>2 DEF NothingStaged, TreeAfter
<1> QED BY <1>1, <1>2, <1>3, <1>4 DEF Hashes, Credited

LEMMA SkipKeeps ==
    ASSUME IInv, NEW r \in Runs, SkipPush(r)
    PROVE  IInv'
<1>1. /\ run' = [run EXCEPT ![r].pc = "closing"] /\ run[r].pc = "pushing"
      /\ UNCHANGED <<main, pr, starts, issued, announced>>
  BY DEF SkipPush
<1>2. /\ [run[r] EXCEPT !.pc = "closing"] \in RunRecords
      /\ run' = [run EXCEPT ![r] = [run[r] EXCEPT !.pc = "closing"]]
      /\ run'[r].pc = "closing" /\ run'[r].base = run[r].base
      /\ run'[r].tree = run[r].tree /\ run'[r].creds = run[r].creds
  BY <1>1, MoveEffect DEF Status
<1>3. RunInv(r)'
  <2>1. /\ pr[r] # None /\ BaseIsMain(r) /\ CredentialsOwned(r) /\ TreeAfter(r)
        /\ run[r].base.entries \subseteq pr[r].entries
    BY <1>1 DEF IInv, RunInv, Working
  <2>2. BaseIsMain(r)' /\ CredentialsOwned(r)' /\ TreeAfter(r)'
    BY <1>1, <1>2, <2>1 DEF BaseIsMain, CredentialsOwned, TreeAfter
  <2> QED BY <1>1, <1>2, <2>1, <2>2 DEF RunInv
<1>4. Later /\ starts' \in Nat /\ announced' \subseteq 1..Len(issued')
  BY <1>1, NothingLater DEF IInv, TypeOK
<1> QED BY <1>1, <1>2, <1>3, <1>4, StepOfRun

\* A request is made from main as it is: its hashes were sent to the owners.
LEMMA OpenKeeps ==
    ASSUME IInv, NEW r \in Runs, NEW p \in People, NEW add, NEW drop, NEW given,
           add \subseteq Users, Open(r, p, add, drop, given)
    PROVE  IInv'
<1> DEFINE h == [u \in Users |-> IF u \in drop THEN 0
                                 ELSE IF u \in given THEN Given ELSE main.hash[u]]
           q == [author |-> p, entries |-> main.entries \cup add, hash |-> h]
<1>1. /\ pr[r] = None /\ pr' = [pr EXCEPT ![r] = q]
      /\ UNCHANGED <<main, run, starts, issued, announced>>
  BY DEF Open
<1>2. TypeOK /\ main.entries \subseteq Users /\ main.hash \in Hashes
  BY DEF IInv, TypeOK, Branches
<1>3. h \in Hashes
  BY <1>2 DEF Hashes
<1>4. Sent(h, main.owner, issued, announced)
  <2> SUFFICES ASSUME NEW u \in Users, h[u] > 0 PROVE h[u] = main.hash[u]
    BY DEF IInv, PasswordsReachOwners, Sent
  <2> QED BY DEF Given
<1> HIDE DEF h
<1>5. q \in [author : People, entries : SUBSET Users, hash : Hashes] /\ q.hash = h
  BY <1>2, <1>3
<1> HIDE DEF q
<1>6. TypeOK'
  BY <1>1, <1>2, <1>5 DEF TypeOK
<1>7. RequestsSent'
  BY <1>1, <1>2, <1>4, <1>5 DEF IInv, RequestsSent, TypeOK
<1>8. ASSUME NEW x \in Runs PROVE RunInv(x)'
  <2>1. pr[x] # None => pr'[x] = pr[x]
    BY <1>1, <1>2 DEF TypeOK
  <2> QED BY <1>1, <1>2, <2>1, NothingLater, OthersKeep DEF IInv
<1>9. PasswordsReachOwners' /\ OwnersOfEntries'
  BY <1>1 DEF IInv, PasswordsReachOwners, OwnersOfEntries
<1> QED BY <1>6, <1>7, <1>8, <1>9 DEF IInv
-----------------------------------------------------------------------------
(* The theorems.                                                            *)

LEMMA InitInv == Init => IInv
<1> SUFFICES ASSUME Init PROVE IInv
  OBVIOUS
<1>1. Idle \in RunRecords /\ NoHash \in Credited
  BY DEF Idle, RunRecords, NoHash, Credited, Status
<1>2. PICK entries \in SUBSET Users, owner \in Owners :
         /\ \A u \in Users \ entries : owner[u] = None
         /\ main = [commit |-> 0, entries |-> entries, owner |-> owner,
                    hash |-> [u \in Users |-> IF u \in entries THEN Given ELSE 0]]
  BY DEF Init, Owners
<1>5. main \in Branches /\ OwnersOfEntries /\ \A u \in Users : ~(main.hash[u] > 0)
  <2>1. [u \in Users |-> IF u \in entries THEN Given ELSE 0] \in Hashes
    BY DEF Hashes
  <2> QED BY <1>2, <2>1 DEF Branches, OwnersOfEntries, Given
<1>6. TypeOK
  BY <1>1, <1>5 DEF Init, TypeOK
<1>3. PasswordsReachOwners /\ OwnersOfEntries /\ RequestsSent
  BY <1>5 DEF Init, PasswordsReachOwners, RequestsSent
<1>4. \A r \in Runs : RunInv(r)
  BY DEF Init, RunInv, Idle, Working
<1> QED BY <1>3, <1>4, <1>6 DEF IInv

\* Steps other than a push leave main alone.
LEMMA MainFrame ==
    ASSUME Next, \A r \in Runs : ~Push(r)
    PROVE  UNCHANGED main
  BY DEF Next, Open, Checkout, VerifyAdditions, Script, DecryptFails, Reject, NothingToDo,
         GenerateCredentials, GenerateFails, StoreHashes, StoreFails, PostCredential,
         PostFails, SkipPush, PushFails, Close, CloseFails

LEMMA NextInv == IInv /\ [Next]_vars => IInv'
<1> SUFFICES ASSUME IInv, [Next]_vars PROVE IInv'
  OBVIOUS
<1>a. TypeOK /\ {"failed", "closed", "tampered"} \subseteq Status \ Working
  BY DEF IInv, Status, Working
<1>b. ASSUME NEW r \in Runs, NEW status \in {"failed", "closed"}, Ends(r, status),
             UNCHANGED <<main, pr, starts, issued, announced>>
      PROVE  IInv'
  BY <1>a, <1>b, NothingLater, EndsKeeps DEF TypeOK
<1>1. ASSUME NEW r \in Runs, NEW p \in People, NEW add \in SUBSET Users,
             NEW drop \in SUBSET Users,
             NEW given \in SUBSET Users, Open(r, p, add, drop, given)
      PROVE  IInv'
  BY <1>1, OpenKeeps
<1>2. ASSUME NEW r \in Runs, Checkout(r) PROVE IInv'
  BY <1>2, CheckoutKeeps
<1>3. ASSUME NEW r \in Runs, VerifyAdditions(r) PROVE IInv'
  BY <1>3, <1>b DEF VerifyAdditions
<1>4. ASSUME NEW r \in Runs, DecryptFails(r) \/ GenerateFails(r) \/ StoreFails(r)
                             \/ PushFails(r) \/ CloseFails(r)
      PROVE  IInv'
  BY <1>4, <1>b DEF DecryptFails, GenerateFails, StoreFails, PushFails, CloseFails, Fails
<1>5. ASSUME NEW r \in Runs, Reject(r) PROVE IInv'
  <2>1. /\ run' = [run EXCEPT ![r].pc = "tampered"]
        /\ UNCHANGED <<main, pr, starts, issued, announced>>
    BY <1>5 DEF Reject
  <2>2. /\ [run[r] EXCEPT !.pc = "tampered"] \in RunRecords
        /\ run' = [run EXCEPT ![r] = [run[r] EXCEPT !.pc = "tampered"]]
        /\ run'[r].pc = "tampered"
    BY <1>a, <2>1, MoveEffect
  <2>3. RunInv(r)'
    BY <2>2 DEF RunInv, Working
  <2>4. Later /\ starts' \in Nat /\ announced' \subseteq 1..Len(issued')
    BY <1>a, <2>1, NothingLater DEF TypeOK
  <2> QED BY <2>1, <2>2, <2>3, <2>4, StepOfRun
<1>6. ASSUME NEW r \in Runs, NothingToDo(r) PROVE IInv'
  BY <1>6, NothingToDoKeeps
<1>7. ASSUME NEW r \in Runs, NEW ok \in SUBSET Users, GenerateCredentials(r, ok) PROVE IInv'
  BY <1>7, GenerateKeeps
<1>8. ASSUME NEW r \in Runs, StoreHashes(r) PROVE IInv'
  BY <1>8, StoreKeeps
<1>9. ASSUME NEW r \in Runs, PostCredential(r) PROVE IInv'
  BY <1>9, PostKeeps
<1>10. ASSUME NEW r \in Runs, PostFails(r) PROVE IInv'
  <2>1. run[r].pc = "posting" /\ Ends(r, "failed") /\ UNCHANGED <<main, pr, starts, issued>>
    BY <1>10 DEF PostFails, Fails
  <2>2. Later /\ announced' \subseteq 1..Len(issued')
    <3>1. CASE announced' = announced
      BY <1>a, <2>1, <3>1, NothingLater DEF TypeOK
    <3>2. ASSUME NEW c \in Unposted(r), announced' = announced \cup {c}
          PROVE  Later /\ announced' \subseteq 1..Len(issued')
      BY <2>1, <3>2, PostLater
    <3> QED BY <1>10, <3>1, <3>2 DEF PostFails
  <2> QED BY <1>a, <2>1, <2>2, EndsKeeps
<1>11. ASSUME NEW r \in Runs, Push(r) PROVE IInv'
  BY <1>11, PushKeeps
<1>12. ASSUME NEW r \in Runs, SkipPush(r) PROVE IInv'
  BY <1>12, SkipKeeps
<1>13. ASSUME NEW r \in Runs, Close(r) PROVE IInv'
  BY <1>13, <1>b DEF Close
<1>14. CASE UNCHANGED vars
  BY <1>14 DEF vars, IInv, TypeOK, PasswordsReachOwners, OwnersOfEntries, RequestsSent,
               RunInv, BaseIsMain, CredentialsOwned, TreeBefore, TreeAfter, Results
<1> QED
  BY <1>1, <1>2, <1>3, <1>4, <1>5, <1>6, <1>7, <1>8, <1>9, <1>10, <1>11, <1>12, <1>13, <1>14
  DEF Next, Script

LEMMA Inductive == Spec => []IInv
  BY InitInv, NextInv, PTL DEF Spec

\* Branch, requests, runs and credentials stay within their types.
THEOREM TypeCorrect == Spec => []TypeOK
<1>1. IInv => TypeOK
  BY DEF IInv
<1> QED BY <1>1, Inductive, PTL

\* Every hash on main that the bot generated is that of a password posted to the
\* owner of its entry, whatever runs fail, race, start again or come from an old
\* copy of main, and whatever hashes requests bring or main had before.
THEOREM EveryPasswordReachesItsOwner == Spec => []PasswordsReachOwners
<1>1. IInv => PasswordsReachOwners
  BY DEF IInv
<1> QED BY <1>1, Inductive, PTL

\* No step takes an entry from main or gives it to another owner: main moves by
\* fast-forward pushes of runs that saw it.
THEOREM OwnersStayPinned == Spec => OwnersPinned
<1>1. ASSUME IInv, [Next]_vars
      PROVE  [/\ main.entries \subseteq main'.entries
              /\ \A u \in Users : main.owner[u] # None => main'.owner[u] = main.owner[u]]_vars
  <2>1. ASSUME NEW r \in Runs, Push(r)
        PROVE  /\ main.entries \subseteq main'.entries
               /\ \A u \in Users : main.owner[u] # None => main'.owner[u] = main.owner[u]
    BY <1>1, <2>1, PushEffect
  <2> QED BY <1>1, <2>1, MainFrame
<1> QED BY <1>1, Inductive, PTL DEF Spec, OwnersPinned

\* A run that reports success has its passwords on main and posted.
THEOREM SuccessMeansStored == Spec => OnboardedMeansStored
<1>1. ASSUME IInv, [Next]_vars
      PROVE  [\A r \in Runs : run[r].pc = "pushing" /\ run'[r].pc = "closing" =>
                 \A u \in Results(r) :
                     main'.hash[u] = run[r].creds[u] /\ run[r].creds[u] \in announced]_vars
  <2> SUFFICES ASSUME Next, NEW r \in Runs, run[r].pc = "pushing", run'[r].pc = "closing",
                      NEW u \in Results(r)
               PROVE  main'.hash[u] = run[r].creds[u] /\ run[r].creds[u] \in announced
    BY <1>1
  <2>1. run[r].creds[u] \in announced
    BY <1>1 DEF IInv, RunInv, Working
  <2>2. Push(r) \/ SkipPush(r)
    <3>1. run \in [Runs -> RunRecords] /\ run[r] \in RunRecords
      BY <1>1 DEF IInv, TypeOK
    <3>2. ASSUME NEW x \in Runs, NEW q, run' = [run EXCEPT ![x] = q], q.pc # "closing"
          PROVE  FALSE
      BY <3>1, <3>2
    <3>3. ASSUME NEW x \in Runs, NEW to, run' = [run EXCEPT ![x].pc = to], to # "closing"
          PROVE  FALSE
      BY <3>1, <3>3 DEF RunRecords
    <3>4. ASSUME NEW x \in Runs, NEW st \in Status, st # "closing", Ends(x, st)
          PROVE  FALSE
      BY <3>2, <3>4, IdleTypes DEF Ends
    <3>5. ASSUME NEW x \in Runs, x # r, Push(x) \/ SkipPush(x) PROVE FALSE
      BY <3>1, <3>5 DEF Push, SkipPush
    <3>6. ASSUME UNCHANGED run PROVE FALSE
      BY <3>6
    <3>7. ASSUME NEW x \in Runs, \E p \in People, add, drop, given \in SUBSET Users :
                                    Open(x, p, add, drop, given)
          PROVE  FALSE
      BY <3>6, <3>7 DEF Open
    <3>8. ASSUME NEW x \in Runs, Checkout(x) PROVE FALSE
      BY <3>2, <3>8 DEF Checkout
    <3>9. ASSUME NEW x \in Runs, VerifyAdditions(x) \/ DecryptFails(x) \/ GenerateFails(x)
                    \/ StoreFails(x) \/ PostFails(x) \/ PushFails(x) \/ Close(x) \/ CloseFails(x)
          PROVE  FALSE
      BY <3>4, <3>9
      DEF VerifyAdditions, DecryptFails, GenerateFails, StoreFails, PostFails, PushFails,
          Close, CloseFails, Fails, Status
    <3>10. ASSUME NEW x \in Runs, Reject(x) \/ NothingToDo(x) PROVE FALSE
      BY <3>3, <3>10 DEF Reject, NothingToDo
    <3>11. ASSUME NEW x \in Runs, NEW ok, GenerateCredentials(x, ok) PROVE FALSE
      BY <3>1, <3>11 DEF GenerateCredentials, RunRecords
    <3>12. ASSUME NEW x \in Runs, StoreHashes(x) PROVE FALSE
      BY <3>1, <3>12 DEF StoreHashes, RunRecords
    <3>13. ASSUME NEW x \in Runs, PostCredential(x) PROVE FALSE
      BY <3>1, <3>13 DEF PostCredential, RunRecords
    <3> QED
      BY <3>5, <3>7, <3>8, <3>9, <3>10, <3>11, <3>12, <3>13 DEF Next, Script
  <2>3. CASE Push(r)
    BY <1>1, <2>1, <2>3, PushEffect
  <2>4. CASE SkipPush(r)
    BY <1>1, <2>4, NothingStagedMeansNoResults DEF SkipPush
  <2> QED BY <2>1, <2>2, <2>3, <2>4
<1> QED BY <1>1, Inductive, PTL DEF Spec, OnboardedMeansStored
=============================================================================
