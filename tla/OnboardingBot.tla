--------------------------- MODULE OnboardingBot ---------------------------
(***************************************************************************)
(* The onboarding bot: .github/scripts/onboard.py, and the workflow        *)
(* .github/workflows/onboard.yml that runs it for a pull request, commits  *)
(* its result to main and closes the request.  Runs of different requests  *)
(* are not serialised, any of their calls may fail, and a failed run may   *)
(* be started again.                                                       *)
(*                                                                         *)
(* A user stands for an entry of either role.  Of an entry the model keeps *)
(* its password hash: the number of a credential, 0 for none, or Given for *)
(* one the bot did not generate; of a credential, whom its password was    *)
(* encrypted to.  Pull requests change ops/values.yaml only, by adding     *)
(* entries with or without a hash, by removing hashes or writing others in *)
(* their place, or by adding lines the bot ignores; the workflow closes    *)
(* the ones that touch another file.  Whether sops accepts a file somebody *)
(* wrote a hash into is its own affair (DecryptFails).                     *)
(***************************************************************************)
EXTENDS Integers, Sequences, SequencesExt

CONSTANTS Users,     \* names of entries
          People,    \* GitHub accounts
          Runs,      \* pull requests, each with its workflow run
          MaxStarts, \* bound: times a workflow is started, over all requests
          None

ASSUME BotAssumption ==
    /\ MaxStarts \in Nat
    /\ IsFiniteSet(Users)
    /\ None \notin People

VARIABLES main,       \* the branch: [commit, entries, hash, owner]
          pr,         \* pr[r]: [author, entries, hash], or None
          run,        \* run[r]: [pc, base, tree, creds]
          starts,     \* workflows started so far
          issued,     \* the credentials generated: a sequence of [user, to]
          announced   \* credentials posted as comments

vars == <<main, pr, run, starts, issued, announced>>

Status == {"idle", "checked", "storing", "posting", "pushing", "closing",
           "closed", "tampered", "failed"}

NoHash == [u \in Users |-> 0]

\* A hash that was on main before the bot, or that a pull request brought along.
Given == -1

\* tree is the runner's working copy; creds holds the results of the run.
Idle == [pc |-> "idle", base |-> None, tree |-> None, creds |-> NoHash]

\* Entries made by hand have a hash, and an owner may be pinned for them.
Init ==
    /\ \E entries \in SUBSET Users, owner \in [Users -> People \cup {None}] :
          /\ \A u \in Users \ entries : owner[u] = None
          /\ main = [commit |-> 0, entries |-> entries, owner |-> owner,
                     hash |-> [u \in Users |-> IF u \in entries THEN Given ELSE 0]]
    /\ pr = [r \in Runs |-> None]
    /\ run = [r \in Runs |-> Idle]
    /\ starts = 0
    /\ issued = <<>>
    /\ announced = {}

----------------------------------------------------------------------------
(* The author of a pull request, working on a copy of main. *)

\* add: new entries; drop: entries whose hash is removed; given: entries, new or
\* not, that get a hash from the author.
Open(r, p, add, drop, given) ==
    /\ pr[r] = None
    /\ add \subseteq Users \ main.entries
    /\ drop \subseteq {u \in main.entries : main.hash[u] # 0}
    /\ given \subseteq (main.entries \cup add) \ drop
    /\ pr' = [pr EXCEPT ![r] =
                 [author |-> p,
                  entries |-> main.entries \cup add,
                  hash |-> [u \in Users |->
                               IF u \in drop THEN 0
                               ELSE IF u \in given THEN Given ELSE main.hash[u]]]]
    /\ UNCHANGED <<main, run, starts, issued, announced>>

----------------------------------------------------------------------------
(* The workflow, up to the script. *)

\* The job ends, and the runner's working copy is gone.
Ends(r, status) == run' = [run EXCEPT ![r] = [Idle EXCEPT !.pc = status]]

Fails(r) == Ends(r, "failed")

\* The runner checks out main, and ops/values.yaml of the pull request.
Checkout(r) ==
    /\ pr[r] # None
    /\ run[r].pc \in {"idle", "failed", "tampered"}
    /\ starts < MaxStarts
    /\ starts' = starts + 1
    /\ run' = [run EXCEPT ![r] =
                  [pc |-> "checked", base |-> main, creds |-> NoHash,
                   tree |-> [entries |-> pr[r].entries, hash |-> pr[r].hash,
                             owner |-> main.owner]]]
    /\ UNCHANGED <<main, pr, issued, announced>>

\* Removed lines close the request, lines of hashes excepted.
OnlyAdditions(r) == run[r].base.entries \subseteq run[r].tree.entries

VerifyAdditions(r) ==
    /\ run[r].pc = "checked"
    /\ ~OnlyAdditions(r)
    /\ Ends(r, "closed")
    /\ UNCHANGED <<main, pr, starts, issued, announced>>

----------------------------------------------------------------------------
(* The script. *)

Hashless(r) == {u \in run[r].tree.entries : run[r].tree.hash[u] = 0}

New(r) == Hashless(r) \ run[r].base.entries

Rotation(r) ==
    {u \in Hashless(r) \cap run[r].base.entries :
        run[r].base.owner[u] = pr[r].author}

Tampered(r) == Hashless(r) \ (New(r) \cup Rotation(r))

\* sops cannot decrypt a file, or the request names a user twice.
DecryptFails(r) ==
    /\ run[r].pc = "checked"
    /\ OnlyAdditions(r)
    /\ Fails(r)
    /\ UNCHANGED <<main, pr, starts, issued, announced>>

Reject(r) ==
    /\ run[r].pc = "checked"
    /\ OnlyAdditions(r)
    /\ Tampered(r) # {}
    /\ run' = [run EXCEPT ![r].pc = "tampered"]
    /\ UNCHANGED <<main, pr, starts, issued, announced>>

NothingToDo(r) ==
    /\ run[r].pc = "checked"
    /\ OnlyAdditions(r)
    /\ Hashless(r) = {}
    /\ run' = [run EXCEPT ![r].pc = "pushing"]
    /\ UNCHANGED <<main, pr, starts, issued, announced>>

\* ok: the entries for which the keys of the author could be fetched and the
\* password be encrypted to them.
GenerateCredentials(r, ok) ==
    /\ run[r].pc = "checked"
    /\ OnlyAdditions(r)
    /\ Hashless(r) # {}
    /\ Tampered(r) = {}
    /\ ok \subseteq Hashless(r) /\ ok # {}
    /\ LET batch == SetToSeq(ok)
           number(u) == Len(issued) + CHOOSE i \in DOMAIN batch : batch[i] = u
       IN  /\ issued' = issued \o [i \in DOMAIN batch |->
                                      [user |-> batch[i], to |-> pr[r].author]]
           /\ run' = [run EXCEPT
                         ![r].pc = "storing",
                         ![r].creds = [u \in Users |->
                                          IF u \in ok THEN number(u) ELSE 0]]
    /\ UNCHANGED <<main, pr, starts, announced>>

\* No password could be encrypted for any entry.
GenerateFails(r) ==
    /\ run[r].pc = "checked"
    /\ OnlyAdditions(r)
    /\ Hashless(r) # {}
    /\ Tampered(r) = {}
    /\ Fails(r)
    /\ UNCHANGED <<main, pr, starts, issued, announced>>

Results(r) == {u \in Users : run[r].creds[u] # 0}

\* The hashes and the pinned owners go to the runner's copy of the files.
StoreHashes(r) ==
    /\ run[r].pc = "storing"
    /\ run' = [run EXCEPT
                  ![r].pc = "posting",
                  ![r].tree.hash = [u \in Users |-> IF u \in Results(r)
                                                    THEN run[r].creds[u] ELSE @[u]],
                  ![r].tree.owner = [u \in Users |-> IF u \in Results(r)
                                                     THEN pr[r].author ELSE @[u]]]
    /\ UNCHANGED <<main, pr, starts, issued, announced>>

StoreFails(r) ==
    /\ run[r].pc = "storing"
    /\ Fails(r)
    /\ UNCHANGED <<main, pr, starts, issued, announced>>

Unposted(r) == {run[r].creds[u] : u \in Results(r)} \ announced

PostCredential(r) ==
    /\ run[r].pc = "posting"
    /\ \E c \in Unposted(r) :
          /\ announced' = announced \cup {c}
          /\ run' = [run EXCEPT ![r].pc =
                        IF Unposted(r) = {c} THEN "pushing" ELSE @]
    /\ UNCHANGED <<main, pr, starts, issued>>

\* Mutation: a comment that cannot be posted does not end the script.
PostFails_Ignored(r) ==
    /\ run[r].pc = "posting"
    /\ run' = [run EXCEPT ![r].pc = "pushing"]
    /\ UNCHANGED <<main, pr, starts, issued, announced>>

\* The comment may have been posted all the same.
PostFails(r) ==
    /\ run[r].pc = "posting"
    /\ \/ announced' = announced
       \/ \E c \in Unposted(r) : announced' = announced \cup {c}
    /\ Fails(r)
    /\ UNCHANGED <<main, pr, starts, issued>>

----------------------------------------------------------------------------
(* The rest of the workflow. *)

\* As far as entries go: the request may have other lines to commit.
NothingStaged(r) ==
    run[r].tree = [entries |-> run[r].base.entries, hash |-> run[r].base.hash,
                   owner |-> run[r].base.owner]

\* Mutation: git push --force.
FastForward_Forced(r) == TRUE

\* git push: refused when main has moved on since the checkout.
FastForward(r) == run[r].base.commit = main.commit

Push(r) ==
    /\ run[r].pc = "pushing"
    /\ FastForward(r)
    /\ main' = [commit |-> main.commit + 1, entries |-> run[r].tree.entries,
                hash |-> run[r].tree.hash, owner |-> run[r].tree.owner]
    /\ run' = [run EXCEPT ![r].pc = "closing"]
    /\ UNCHANGED <<pr, starts, issued, announced>>

SkipPush(r) ==
    /\ run[r].pc = "pushing"
    /\ NothingStaged(r)
    /\ run' = [run EXCEPT ![r].pc = "closing"]
    /\ UNCHANGED <<main, pr, starts, issued, announced>>

\* Mutation: the step's exit status is ignored.
PushFails_Ignored(r) ==
    /\ run[r].pc = "pushing"
    /\ run' = [run EXCEPT ![r].pc = "closing"]
    /\ UNCHANGED <<main, pr, starts, issued, announced>>

PushFails(r) ==
    /\ run[r].pc = "pushing"
    /\ Fails(r)
    /\ UNCHANGED <<main, pr, starts, issued, announced>>

Close(r) ==
    /\ run[r].pc = "closing"
    /\ Ends(r, "closed")
    /\ UNCHANGED <<main, pr, starts, issued, announced>>

CloseFails(r) ==
    /\ run[r].pc = "closing"
    /\ Fails(r)
    /\ UNCHANGED <<main, pr, starts, issued, announced>>

Script(r) ==
    \/ DecryptFails(r) \/ Reject(r) \/ NothingToDo(r)
    \/ \E ok \in SUBSET Users : GenerateCredentials(r, ok)
    \/ GenerateFails(r)
    \/ StoreHashes(r) \/ StoreFails(r)
    \/ PostCredential(r) \/ PostFails(r)

Next ==
    \E r \in Runs :
        \/ \E p \in People, add, drop, given \in SUBSET Users :
              Open(r, p, add, drop, given)
        \/ Checkout(r) \/ VerifyAdditions(r)
        \/ Script(r)
        \/ Push(r) \/ SkipPush(r) \/ PushFails(r)
        \/ Close(r) \/ CloseFails(r)

Spec == Init /\ [][Next]_vars

----------------------------------------------------------------------------
(* Properties. *)

\* A hash on main that the bot generated belongs to a password that was sent to
\* the owner pinned for the entry, whatever runs failed, raced or were repeated
\* and whatever old copies of main they started from: the bot gives nobody the
\* password of another's entry, and none of its hashes is in use whose password
\* was not posted (onboard.py posts the comments before the workflow commits,
\* and re-issues a password to the pinned owner only).  It is no more than that:
\* a request may bring a hash of its own, also for an entry of somebody else, and
\* a rotation that failed for some of its entries leaves them without a hash.
PasswordsReachOwners ==
    \A u \in Users :
        main.hash[u] > 0 =>
            /\ main.hash[u] \in announced
            /\ issued[main.hash[u]] = [user |-> u, to |-> main.owner[u]]

\* An entry stays on main with the owner first pinned for it, also when two
\* requests for the same new name run at once (detect_changes, git push).
OwnersPinned ==
    [][/\ main.entries \subseteq main'.entries
       /\ \A u \in Users : main.owner[u] # None => main'.owner[u] = main.owner[u]]_vars

\* A run that reaches the step that reports success has put every password
\* it generated on main and in a comment ("Credentials have been issued and
\* committed directly to main", onboard.yml).
OnboardedMeansStored ==
    [][\A r \in Runs : run[r].pc = "pushing" /\ run'[r].pc = "closing" =>
          \A u \in Results(r) :
              main'.hash[u] = run[r].creds[u] /\ run[r].creds[u] \in announced]_vars
=============================================================================
