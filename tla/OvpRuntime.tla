------------------------------ MODULE OvpRuntime ------------------------------
(***************************************************************************)
(* The OVP mutation boundary of ovp_runtime.py: the life of delegated      *)
(* tasks from "prepare" to "cleanup", over the Git state the commands read *)
(* and change.                                                             *)
(*                                                                         *)
(* A command on a task runs under the task's lock (module TaskLock), so at *)
(* most one runs per task and cmd[t] is what that one is about to do.  A   *)
(* command that reads Git in one call and acts in a later one is split     *)
(* there: between two of its steps commands on other tasks run, which take *)
(* another lock but share the leader's checkout, and the worker in its     *)
(* worktree and the leader's user go on.  A command may be killed between  *)
(* any two steps.                                                          *)
(*                                                                         *)
(* A commit is an index of dag.  reach is its history, patch the commits   *)
(* whose change its tree has: a merge brings both, a cherry-pick only the  *)
(* change.  The content of a commit is reduced to what the gates and a     *)
(* merge tell apart (Diffs, LeaderDiffs).                                  *)
(***************************************************************************)
EXTENDS Naturals, Sequences

CONSTANTS
    Tasks,        \* task ids
    Leader,       \* author of the commits that are not a worker's
    Strategies,   \* the integration strategies in use
    Diffs,        \* what a worker's tree may differ in from the task's base
    LeaderDiffs,  \* what a commit of the leader's may be to the tasks
    OneAtATime,   \* TRUE: the orchestrator integrates one task after the other
    LiveWorkers,  \* TRUE: workers touch their worktree while a command runs
    LiveLeader,   \* TRUE: the leader's user does so while a task integrates
    MaxWork,      \* bound: commits when users and workers stop making more
    MaxCommits,   \* bound: commits in the repository, integrations included
    MaxEvents     \* bound: disturbances (crashes, conflicts, user actions)

ASSUME OvpRuntimeAssumption ==
    /\ Leader \notin Tasks
    /\ Strategies \subseteq {"merge", "cherry-pick"}
    \* "none": nothing; "inside": files in scope; "blemish": in scope, but
    \* "git diff --check" complains; "outside": a file outside the scope.
    /\ Diffs \subseteq {"none", "inside", "blemish", "outside"}
    \* "shared": it changes what the tasks change, and Git cannot merge them.
    /\ LeaderDiffs \subseteq {"none", "shared"}
    /\ OneAtATime \in BOOLEAN
    /\ LiveWorkers \in BOOLEAN
    /\ LiveLeader \in BOOLEAN
    /\ MaxWork \in Nat
    /\ MaxCommits \in Nat
    /\ MaxEvents \in Nat

VARIABLES
    dag,       \* the commits of the repository, in the order they were made
    leader,    \* the leader checkout: HEAD, tree, branch, unfinished sequence
    tip,       \* the head of each worker branch, NoCommit if there is none
    ws,        \* each worktree: present, HEAD, on its own branch, clean
    manifest,  \* manifest.json of each task
    contract,  \* is AI_CREOLE.txt there
    cmd,       \* the command that runs on each task
    events     \* disturbances so far

vars == <<dag, leader, tip, ws, manifest, contract, cmd, events>>

NoCommit == 0

FINAL_STATES == {"PROVEN", "FAILED", "UNKNOWN", "REJECTED"}
Receivable == {"READY", "DISPATCHED", "WORKING", "REWORK"}
Integrated == {"INTEGRATED", "PROVEN", "FAILED", "UNKNOWN"}
STATES == FINAL_STATES \union Receivable
            \union {"REVIEW_READY", "ACCEPTED", "INTEGRATED"}

NoManifest ==
    [state |-> "absent", base_commit |-> NoCommit,
     receipt |-> NoCommit, checks_pass |-> FALSE,
     decision |-> "none", review_head |-> NoCommit,
     integrated_head |-> NoCommit, leader_head_after |-> NoCommit,
     proof_head |-> NoCommit, cleanup |-> "none"]

NoWorktree ==
    [present |-> FALSE, head |-> NoCommit, own |-> FALSE, clean |-> TRUE]

Idle == [pc |-> "idle", commit |-> NoCommit, arg |-> "none"]

-------------------------------------------------------------------------------
(* Git *)

Reach(c) == dag[c].reach
Patches(c) == dag[c].patch
Latest == Len(dag)

\* One more commit, with the given history and changes besides its own.
Record(reach, patch, diff, author) ==
    LET new == Latest + 1
    IN  /\ Latest < MaxCommits
        /\ dag' = Append(dag, [reach |-> reach \union {new},
                               patch |-> patch \union {new},
                               diff |-> diff, author |-> author])

\* git rev-list base..worker_head
Revs(t, head) == Reach(head) \ Reach(manifest[t].base_commit)

\* A merge or a cherry-pick was started in the leader checkout and not ended.
MidOperation == leader.tree \in {"merge", "cherry-pick"}

\* The leader's project has a change that Git cannot merge with those of c.
Conflicts(c) ==
    /\ c \notin Reach(leader.head)
    /\ \E k \in Patches(leader.head) \ Patches(c) : dag[k].diff = "shared"

-------------------------------------------------------------------------------

Init ==
    /\ dag = <<[reach |-> {1}, patch |-> {1}, diff |-> "none", author |-> Leader]>>
    /\ leader = [head |-> 1, tree |-> "clean", attached |-> TRUE,
                 onto |-> NoCommit, safe |-> NoCommit]
    /\ tip = [t \in Tasks |-> NoCommit]
    /\ ws = [t \in Tasks |-> NoWorktree]
    /\ manifest = [t \in Tasks |-> NoManifest]
    /\ contract = [t \in Tasks |-> FALSE]
    /\ cmd = [t \in Tasks |-> Idle]
    /\ events = 0

\* A command stops, by its return or by an exception: the lock is released.
Finish(t) == cmd' = [cmd EXCEPT ![t] = Idle]

\* A command goes on to its next step with what it has read so far.
Continue(t, pc, commit, arg) ==
    cmd' = [cmd EXCEPT ![t] = [pc |-> pc, commit |-> commit, arg |-> arg]]

\* _save_manifest
SaveManifest(t, m) == manifest' = [manifest EXCEPT ![t] = m]

Disturb ==
    /\ events < MaxEvents
    /\ events' = events + 1

Calm == UNCHANGED events

-------------------------------------------------------------------------------
(* prepare *)

\* preflight passes and reads the base commit, HEAD or what --base-ref names,
\* before the lock is taken.  The leader checkout is clean, or --allow-dirty was
\* given; the disposable worktree it makes and removes leaves nothing behind.
PrepareRead(t) ==
    /\ cmd[t].pc = "idle"
    /\ manifest[t].state = "absent"
    /\ \E c \in 1 .. Latest :
        /\ dag[c].author = Leader
        /\ Continue(t, "worktree", c, "none")
    /\ UNCHANGED <<dag, leader, tip, ws, manifest, contract, events>>

\* Under the lock, neither manifest, worktree nor branch may be there yet;
\* "git worktree add -b" makes the last two.
PrepareWorktree(t) ==
    /\ cmd[t].pc = "worktree"
    /\ manifest[t].state = "absent"
    /\ ~ ws[t].present
    /\ tip[t] = NoCommit
    /\ tip' = [tip EXCEPT ![t] = cmd[t].commit]
    /\ ws' = [ws EXCEPT ![t] = [present |-> TRUE, head |-> cmd[t].commit,
                                own |-> TRUE, clean |-> TRUE]]
    /\ Continue(t, "manifest", cmd[t].commit, "none")
    /\ UNCHANGED <<dag, leader, manifest, contract, events>>

\* Mutant: the return code of "git worktree add" is not looked at.
PrepareOnFailure(t) ==
    /\ cmd[t].pc = "worktree"
    /\ Disturb
    /\ Continue(t, "manifest", cmd[t].commit, "none")
    /\ UNCHANGED <<dag, leader, tip, ws, manifest, contract>>

\* One of the three is there, or "git worktree add" fails, and may have made the
\* branch before it did.
PrepareRefuse(t) ==
    /\ cmd[t].pc = "worktree"
    /\ \/ /\ ws[t].present \/ tip[t] # NoCommit
          /\ Calm
          /\ UNCHANGED tip
       \/ /\ ~ ws[t].present /\ tip[t] = NoCommit
          /\ Disturb
          /\ \E branch \in {NoCommit, cmd[t].commit} : tip' = [tip EXCEPT ![t] = branch]
    /\ Finish(t)
    /\ UNCHANGED <<dag, leader, ws, manifest, contract>>

\* The manifest is written for the first time.
PrepareSave(t) ==
    /\ cmd[t].pc = "manifest"
    /\ SaveManifest(t, [manifest[t] EXCEPT !.state = "READY",
                                           !.base_commit = cmd[t].commit])
    /\ Continue(t, "contract", NoCommit, "none")
    /\ UNCHANGED <<dag, leader, tip, ws, contract, events>>

PrepareContract(t) ==
    /\ cmd[t].pc = "contract"
    /\ contract' = [contract EXCEPT ![t] = TRUE]
    /\ Finish(t)
    /\ UNCHANGED <<dag, leader, tip, ws, manifest, events>>

-------------------------------------------------------------------------------
(* mark *)

\* Mutant: a task that is dispatched already is accepted.
MarkDispatchedAgain(t) ==
    /\ cmd[t].pc = "idle"
    /\ manifest[t].state \in {"READY", "REWORK", "DISPATCHED"}
    /\ SaveManifest(t, [manifest[t] EXCEPT !.state = "DISPATCHED"])
    /\ UNCHANGED <<dag, leader, tip, ws, contract, cmd, events>>

MarkDispatched(t) ==
    /\ cmd[t].pc = "idle"
    /\ manifest[t].state \in {"READY", "REWORK"}
    /\ SaveManifest(t, [manifest[t] EXCEPT !.state = "DISPATCHED"])
    /\ UNCHANGED <<dag, leader, tip, ws, contract, cmd, events>>

MarkWorking(t) ==
    /\ cmd[t].pc = "idle"
    /\ manifest[t].state \in {"DISPATCHED", "REWORK"}
    /\ SaveManifest(t, [manifest[t] EXCEPT !.state = "WORKING"])
    /\ UNCHANGED <<dag, leader, tip, ws, contract, cmd, events>>

-------------------------------------------------------------------------------
(* receipt *)

\* The worktree is on the worker branch, HEAD is read and is not the base.
SubmitRead(t) ==
    /\ cmd[t].pc = "idle"
    /\ manifest[t].state \in Receivable
    /\ ws[t].present /\ ws[t].own
    /\ ws[t].head # manifest[t].base_commit
    /\ Continue(t, "receipt", ws[t].head, "none")
    /\ UNCHANGED <<dag, leader, tip, ws, manifest, contract, events>>

\* The tree is clean and differs from the base inside the scope only; the
\* receipt, with the HEAD that was read before, is saved with the state.  The
\* statuses of the acceptance checks are the worker's; what counts is whether
\* every required one is PASS.
SubmitSave(t) ==
    /\ cmd[t].pc = "receipt"
    /\ ws[t].clean
    /\ dag[ws[t].head].diff \in {"inside", "blemish"}
    /\ \E pass \in BOOLEAN :
        SaveManifest(t, [manifest[t] EXCEPT !.state = "REVIEW_READY",
                                            !.receipt = cmd[t].commit,
                                            !.checks_pass = pass])
    /\ Finish(t)
    /\ UNCHANGED <<dag, leader, tip, ws, contract, events>>

\* The tree is dirty, unchanged or out of scope, or the reported check ids are
\* not the acceptance ids: nothing is saved.
SubmitRefuse(t) ==
    /\ cmd[t].pc = "receipt"
    /\ Finish(t)
    /\ UNCHANGED <<dag, leader, tip, ws, manifest, contract, events>>

-------------------------------------------------------------------------------
(* review *)

\* The leader reviews with a decision in mind; current_head is read first.
ReviewRead(t) ==
    /\ cmd[t].pc = "idle"
    /\ manifest[t].state = "REVIEW_READY"
    /\ ws[t].present
    /\ \E decision \in {"accept", "rework", "reject"} :
        Continue(t, "review", ws[t].head, decision)
    /\ UNCHANGED <<dag, leader, tip, ws, manifest, contract, events>>

\* Mutant: ovp.review.head_stable is not required.
GatesPassAnyHead(t) ==
    /\ ws[t].own
    /\ dag[ws[t].head].diff # "outside"
    /\ dag[cmd[t].commit].diff # "blemish"
    /\ ws[t].clean
    /\ manifest[t].checks_pass

\* Mutant: ovp.review.diff_check is not required.
GatesPassAnyPatch(t) ==
    /\ cmd[t].commit = manifest[t].receipt
    /\ ws[t].own
    /\ dag[ws[t].head].diff # "outside"
    /\ ws[t].clean
    /\ manifest[t].checks_pass

\* The required checks of the review.  The branch, the scope and the tree are
\* read now, "git diff --check" looks at the head that was read before.
GatesPass(t) ==
    /\ cmd[t].commit = manifest[t].receipt
    /\ ws[t].own
    /\ dag[ws[t].head].diff # "outside"
    /\ dag[cmd[t].commit].diff # "blemish"
    /\ ws[t].clean
    /\ manifest[t].checks_pass

Decided == [accept |-> "ACCEPTED", rework |-> "REWORK", reject |-> "REJECTED"]

\* The decision is saved; "accept" needs every gate and --inspected-diff, and
\* leaves the manifest as it is otherwise.
ReviewDecide(t) ==
    /\ cmd[t].pc = "review"
    /\ LET decision == cmd[t].arg IN
        \/ /\ decision = "accept" => GatesPass(t)
           /\ SaveManifest(t, [manifest[t] EXCEPT !.state = Decided[decision],
                                                  !.decision = decision,
                                                  !.review_head = cmd[t].commit])
        \/ /\ decision = "accept"  \* a gate failed, or the diff was not inspected
           /\ UNCHANGED manifest
    /\ Finish(t)
    /\ UNCHANGED <<dag, leader, tip, ws, contract, events>>

-------------------------------------------------------------------------------
(* integrate *)

\* The steps of a command that has checked and will change the leader checkout.
Integrating == {"apply", "abort", "record"}

Alone(t) == OneAtATime => \A s \in Tasks \ {t} : cmd[s].pc \notin Integrating

\* Mutant: a branch that was merged before is refused.
IntegrateCheckUnmerged(t) ==
    /\ cmd[t].pc = "idle"
    /\ Alone(t)
    /\ manifest[t].state = "ACCEPTED"
    /\ leader.tree = "clean"
    /\ leader.attached
    /\ tip[t] = manifest[t].receipt
    /\ tip[t] \notin Reach(leader.head)
    /\ manifest[t].base_commit \in Reach(leader.head)
    /\ \E strategy \in Strategies :
        Continue(t, "apply", manifest[t].receipt, strategy)
    /\ UNCHANGED <<dag, leader, tip, ws, manifest, contract, events>>

\* The leader checkout is clean and on a branch, the worker branch is still at
\* the receipt's head, the base is still in the leader's history.
IntegrateCheck(t) ==
    /\ cmd[t].pc = "idle"
    /\ Alone(t)
    /\ manifest[t].state = "ACCEPTED"
    /\ leader.tree = "clean"
    /\ leader.attached
    /\ tip[t] = manifest[t].receipt
    /\ manifest[t].base_commit \in Reach(leader.head)
    /\ \E strategy \in Strategies :
        Continue(t, "apply", manifest[t].receipt, strategy)
    /\ UNCHANGED <<dag, leader, tip, ws, manifest, contract, events>>

\* HEAD of the leader checkout moves to the commit just made.
AdvanceLeader == leader' = [leader EXCEPT !.head = Latest + 1]

\* "git merge --no-ff <worker branch>": whatever the branch holds by now.  A
\* branch that is already in the history is a success that changes nothing.
MergeBranch(t) ==
    /\ ~ MidOperation
    /\ \/ /\ tip[t] \in Reach(leader.head)
          /\ UNCHANGED <<dag, leader>>
       \/ /\ tip[t] \notin Reach(leader.head)
          /\ ~ Conflicts(tip[t])
          /\ \E diff \in LeaderDiffs :
                Record(Reach(leader.head) \union Reach(tip[t]),
                       Patches(leader.head) \union Patches(tip[t]), diff, Leader)
          /\ AdvanceLeader

\* The commits to pick are more than one.  Git then keeps a sequence: onto, the
\* HEAD it goes back to on --abort, and safe, the HEAD it has come to.
Several(t) == Revs(t, cmd[t].commit) # {cmd[t].commit}

\* Git refuses to pick over an unfinished operation, and several commits while
\* there is a sequence.
PickRefused(t) == MidOperation \/ (Several(t) /\ leader.onto # NoCommit)

\* The commits are picked in their order: these may be in when Git ends.
Prefixes(t) == {Revs(t, cmd[t].commit) \intersect (1 .. k) : k \in 0 .. Latest}

\* HEAD once the commits of part are in; they are one commit here.
Picked(part) == IF part = {} THEN leader.head ELSE Latest + 1

\* "git cherry-pick" brings the commits of part, which the tree does not have,
\* and leaves tree, onto and safe.
Pick(t, part, tree, onto, safe) ==
    /\ ~ PickRefused(t)
    /\ part = Revs(t, cmd[t].commit) => ~ Conflicts(cmd[t].commit)
    /\ part \intersect Patches(leader.head) = {}
    /\ IF part = {} THEN UNCHANGED dag
       ELSE \E diff \in LeaderDiffs :
                Record(Reach(leader.head), Patches(leader.head) \union part, diff, Leader)
    /\ leader' = [leader EXCEPT !.head = Picked(part), !.tree = tree, !.onto = onto,
                                !.safe = IF onto = NoCommit THEN NoCommit ELSE safe]

\* Mutant: the commits are taken from the branch as it is now.
CherryPickBranch(t) ==
    Pick(t, Revs(t, tip[t]), leader.tree, leader.onto, Picked(Revs(t, tip[t])))

\* All the commits up to the head that was checked are picked.  A sequence of
\* several is over; a single pick counts for one that is still there.
CherryPick(t) ==
    LET revs == Revs(t, cmd[t].commit)
    IN  Pick(t, revs, leader.tree, leader.onto, Picked(revs))

IntegrateApply(t) ==
    /\ cmd[t].pc = "apply"
    /\ \/ cmd[t].arg = "merge" /\ MergeBranch(t)
       \/ cmd[t].arg = "cherry-pick" /\ CherryPick(t)
    /\ Continue(t, "record", cmd[t].commit, cmd[t].arg)
    /\ UNCHANGED <<tip, ws, manifest, contract, events>>

\* The tree as a failed attempt leaves it.
Unfinished(t) == IF leader.tree = "clean" THEN cmd[t].arg ELSE leader.tree

LeaveUnfinished(t) == leader' = [leader EXCEPT !.tree = Unfinished(t)]

\* Mutant: the return code of Git is not looked at.
IntegrateOnFailure(t) ==
    /\ cmd[t].pc = "apply"
    /\ Disturb
    /\ LeaveUnfinished(t)
    /\ Continue(t, "record", cmd[t].commit, cmd[t].arg)
    /\ UNCHANGED <<dag, tip, ws, manifest, contract>>

\* Git does not merge: another operation is unfinished, the branch conflicts, or
\* a disturbance.
MergeFails(t) ==
    /\ \/ (MidOperation \/ Conflicts(tip[t])) /\ Calm
       \/ Disturb
    /\ LeaveUnfinished(t)
    /\ UNCHANGED dag

\* Git does not pick at all.  A sequence of several is there by then.
PickRefuses(t) ==
    /\ PickRefused(t)
    /\ leader' = IF Several(t) /\ leader.onto = NoCommit
                 THEN [leader EXCEPT !.onto = leader.head, !.safe = leader.head]
                 ELSE leader
    /\ UNCHANGED <<dag, events>>

\* The sequence that a pick adds to.
Sequence(t) == IF Several(t) THEN leader.head ELSE leader.onto

\* Git stops at a commit that conflicts, or whose change the tree already has, or
\* at a disturbance.  The commits before it are in.
PickStops(t) ==
    LET revs == Revs(t, cmd[t].commit) IN
    \E part \in Prefixes(t) \ {revs} :
        /\ Pick(t, part, Unfinished(t), Sequence(t), Picked(part))
        /\ \/ /\ \/ Conflicts(cmd[t].commit)
                \/ \E c \in revs \intersect Patches(leader.head) :
                        part = revs \intersect (1 .. c - 1)
             /\ Calm
           \/ Disturb

\* Git fails.
IntegrateFail(t) ==
    /\ cmd[t].pc = "apply"
    /\ \/ cmd[t].arg = "merge" /\ MergeFails(t)
       \/ cmd[t].arg = "cherry-pick" /\ (PickRefuses(t) \/ PickStops(t))
    /\ Continue(t, "abort", cmd[t].commit, cmd[t].arg)
    /\ UNCHANGED <<tip, ws, manifest, contract>>

\* Git is killed half way, before it has noted the HEAD it has come to or after.
PickKilled(t) ==
    \E part \in Prefixes(t), tree \in {leader.tree, Unfinished(t)} :
        \E safe \in {IF Several(t) THEN leader.head ELSE leader.safe, Picked(part)} :
            Pick(t, part, tree, Sequence(t), safe)

\* Git runs into its timeout: RuntimeError before the line that aborts.
IntegrateTimeout(t) ==
    /\ cmd[t].pc = "apply"
    /\ Disturb
    /\ \/ cmd[t].arg = "merge" /\ LeaveUnfinished(t) /\ UNCHANGED dag
       \/ cmd[t].arg = "cherry-pick" /\ PickKilled(t)
    /\ Finish(t)
    /\ UNCHANGED <<tip, ws, manifest, contract>>

\* "git merge --abort" ends an unfinished merge, whoever started it.
AbortMerge ==
    leader' = [leader EXCEPT !.tree = IF @ = "merge" THEN "clean" ELSE @]

\* "git cherry-pick --abort" ends an unfinished pick.  A sequence, whoever started
\* it, takes HEAD back to where it began, but only if HEAD is where Git left it;
\* uncommitted edits stay, or make it fail.
AbortPick ==
    LET ended == [leader EXCEPT !.onto = NoCommit, !.safe = NoCommit] IN
    \/ /\ leader.onto = NoCommit
       /\ leader' = [leader EXCEPT !.tree = IF @ = "cherry-pick" THEN "clean" ELSE @]
    \/ /\ leader.onto # NoCommit /\ leader.safe # leader.head
       /\ leader' = ended
    \/ /\ leader.onto # NoCommit /\ leader.safe = leader.head
       /\ leader' = [ended EXCEPT !.head = leader.onto,
                                  !.tree = IF @ = "dirty" THEN @ ELSE "clean"]
    \/ leader.tree = "dirty" /\ UNCHANGED leader

\* The task stays ACCEPTED.
IntegrateAbort(t) ==
    /\ cmd[t].pc = "abort"
    /\ \/ cmd[t].arg = "merge" /\ AbortMerge
       \/ cmd[t].arg = "cherry-pick" /\ AbortPick
    /\ Finish(t)
    /\ UNCHANGED <<dag, tip, ws, manifest, contract, events>>

\* HEAD is read again, and saved with the state.
IntegrateSave(t) ==
    /\ cmd[t].pc = "record"
    /\ SaveManifest(t, [manifest[t] EXCEPT !.state = "INTEGRATED",
                                           !.integrated_head = cmd[t].commit,
                                           !.leader_head_after = leader.head])
    /\ Finish(t)
    /\ UNCHANGED <<dag, leader, tip, ws, contract, events>>

-------------------------------------------------------------------------------
(* proof *)

Verdicts == [PASS |-> "PROVEN", WARN |-> "PROVEN", FAIL |-> "FAILED",
             UNKNOWN |-> "UNKNOWN", SKIPPED |-> "UNKNOWN"]

\* A result of the proof path is recorded while HEAD is the one integrated.
RecordProof(t) ==
    /\ cmd[t].pc = "idle"
    /\ manifest[t].state = "INTEGRATED"
    /\ leader.head = manifest[t].leader_head_after
    /\ \E status \in DOMAIN Verdicts :
        SaveManifest(t, [manifest[t] EXCEPT !.state = Verdicts[status],
                                            !.proof_head = leader.head])
    /\ UNCHANGED <<dag, leader, tip, ws, contract, cmd, events>>

-------------------------------------------------------------------------------
(* cleanup *)

\* A closed task's worktree is removed if it is there and clean.  A dirty one,
\* and one Git does not remove, end the command with nothing changed.
CleanupRemove(t) ==
    /\ cmd[t].pc = "idle"
    /\ manifest[t].state \in FINAL_STATES
    /\ ws[t].present => ws[t].clean
    /\ ws' = [ws EXCEPT ![t] = NoWorktree]
    /\ Continue(t, "cleanup", NoCommit, "none")
    /\ UNCHANGED <<dag, leader, tip, manifest, contract, events>>

\* Mutant: "git branch -D".
DeletableAny(t) == tip[t] # NoCommit

\* "git branch -d" deletes a branch that HEAD has merged, and no other.
Deletable(t) == tip[t] # NoCommit /\ tip[t] \in Reach(leader.head)

\* With --delete-branch the branch goes if Git finds that safe; either way the
\* outcome is saved.
CleanupSave(t) ==
    /\ cmd[t].pc = "cleanup"
    /\ \E delete \in BOOLEAN :
        LET deleted == delete /\ Deletable(t)
        IN  /\ tip' = [tip EXCEPT ![t] = IF deleted THEN NoCommit ELSE @]
            /\ SaveManifest(t, [manifest[t] EXCEPT !.cleanup =
                                   IF deleted THEN "deleted" ELSE "kept"])
    /\ Finish(t)
    /\ UNCHANGED <<dag, leader, ws, contract, events>>

-------------------------------------------------------------------------------
(* Workers, the leader's user, and crashes: nothing here is the runtime's. *)

WorkerFree(t) ==
    /\ ws[t].present
    /\ LiveWorkers \/ cmd[t].pc = "idle"

\* A worker commits, with whatever content, on the branch it is on.
WorkerCommit(t) ==
    /\ WorkerFree(t)
    /\ Latest < MaxWork
    /\ \E diff \in Diffs :
        Record(Reach(ws[t].head), Patches(ws[t].head), diff, t)
    /\ ws' = [ws EXCEPT ![t] = [@ EXCEPT !.head = Latest + 1, !.clean = TRUE]]
    /\ tip' = IF ws[t].own THEN [tip EXCEPT ![t] = Latest + 1] ELSE tip
    /\ UNCHANGED <<leader, manifest, contract, cmd, events>>

\* A worker takes its branch to another commit of its own, or back to the base.
WorkerReset(t) ==
    /\ WorkerFree(t)
    /\ ws[t].own
    /\ manifest[t].state # "absent"
    /\ Disturb
    /\ \E c \in {k \in 1 .. Latest : dag[k].author = t} \union {manifest[t].base_commit} :
        /\ ws' = [ws EXCEPT ![t] = [@ EXCEPT !.head = c, !.clean = TRUE]]
        /\ tip' = [tip EXCEPT ![t] = c]
    /\ UNCHANGED <<dag, leader, manifest, contract, cmd>>

\* A worker edits a file and does not commit, or throws the edit away.
WorkerEdit(t) ==
    /\ WorkerFree(t)
    /\ Disturb
    /\ ws' = [ws EXCEPT ![t].clean = ~ @]
    /\ UNCHANGED <<dag, leader, tip, manifest, contract, cmd>>

\* A worker switches to another branch at the same commit, or back.
WorkerSwitch(t) ==
    /\ WorkerFree(t)
    /\ Disturb
    /\ \/ /\ ws[t].own
          /\ ws' = [ws EXCEPT ![t].own = FALSE]
       \/ /\ ~ ws[t].own
          /\ ws' = [ws EXCEPT ![t] = [@ EXCEPT !.own = TRUE, !.head = tip[t]]]
    /\ UNCHANGED <<dag, leader, tip, manifest, contract, cmd>>

UserFree ==
    LiveLeader \/ \A t \in Tasks : cmd[t].pc \notin Integrating

\* The leader's user commits in the checkout.
LeaderCommit ==
    /\ UserFree
    /\ ~ MidOperation
    /\ Latest < MaxWork
    /\ \E diff \in LeaderDiffs :
        Record(Reach(leader.head), Patches(leader.head), diff, Leader)
    /\ leader' = [leader EXCEPT !.head = Latest + 1, !.tree = "clean"]
    /\ UNCHANGED <<tip, ws, manifest, contract, cmd, events>>

\* What the user does may or may not end a sequence that is there.
Quit(checkout) == {checkout, [checkout EXCEPT !.onto = NoCommit, !.safe = NoCommit]}

\* The leader's user takes the checkout back to an earlier commit.
LeaderReset ==
    /\ UserFree
    /\ Disturb
    /\ \E c \in Reach(leader.head) :
        /\ dag[c].author = Leader
        /\ leader' \in Quit([leader EXCEPT !.head = c, !.tree = "clean"])
    /\ UNCHANGED <<dag, tip, ws, manifest, contract, cmd>>

\* The leader's user edits without committing, or detaches HEAD.
LeaderEdit ==
    /\ UserFree
    /\ ~ MidOperation
    /\ Disturb
    /\ \/ leader' = [leader EXCEPT !.tree = "dirty"]
       \/ leader' = [leader EXCEPT !.attached = FALSE]
    /\ UNCHANGED <<dag, tip, ws, manifest, contract, cmd>>

\* The leader's user makes the checkout usable again: clean, on a branch.
LeaderRepair ==
    /\ UserFree
    /\ leader.tree # "clean" \/ ~ leader.attached \/ leader.onto # NoCommit
    /\ leader' \in Quit([leader EXCEPT !.tree = "clean", !.attached = TRUE])
    /\ UNCHANGED <<dag, tip, ws, manifest, contract, cmd, events>>

\* The process of a command is killed.  Files, worktrees and commits stay as
\* they are; the lock it leaves is removed by a later command.
Crash(t) ==
    /\ cmd[t].pc # "idle"
    /\ Disturb
    /\ Finish(t)
    /\ UNCHANGED <<dag, leader, tip, ws, manifest, contract>>

-------------------------------------------------------------------------------

\* The steps a command takes once it has begun.
Proceed(t) ==
    \/ PrepareWorktree(t)
    \/ PrepareRefuse(t)
    \/ PrepareSave(t)
    \/ PrepareContract(t)
    \/ SubmitSave(t)
    \/ SubmitRefuse(t)
    \/ ReviewDecide(t)
    \/ IntegrateApply(t)
    \/ IntegrateFail(t)
    \/ IntegrateTimeout(t)
    \/ IntegrateAbort(t)
    \/ IntegrateSave(t)
    \/ CleanupSave(t)

\* The commands the orchestrator or a worker may begin.
Begin(t) ==
    \/ PrepareRead(t)
    \/ MarkDispatched(t)
    \/ MarkWorking(t)
    \/ SubmitRead(t)
    \/ ReviewRead(t)
    \/ IntegrateCheck(t)
    \/ RecordProof(t)
    \/ CleanupRemove(t)

Worker(t) ==
    \/ WorkerCommit(t)
    \/ WorkerReset(t)
    \/ WorkerEdit(t)
    \/ WorkerSwitch(t)

User ==
    \/ LeaderCommit
    \/ LeaderReset
    \/ LeaderEdit
    \/ LeaderRepair

Next ==
    \/ User
    \/ \E t \in Tasks : Begin(t) \/ Proceed(t) \/ Worker(t) \/ Crash(t)

Spec == Init /\ [][Next]_vars

\* A command that has begun goes on; the orchestrator retries the integration of
\* an accepted task and records the proof of an integrated one; the leader's
\* user puts his checkout in order.  Workers owe nothing.
Fairness ==
    /\ WF_vars(LeaderRepair)
    /\ \A t \in Tasks :
        /\ WF_vars(Proceed(t))
        /\ WF_vars(IntegrateCheck(t))
        /\ WF_vars(RecordProof(t))

FairSpec == Spec /\ Fairness

-------------------------------------------------------------------------------
(* Properties *)

CommitIds == 0 .. Latest

Commit == [reach : SUBSET Nat, patch : SUBSET Nat,
           diff : Diffs \union LeaderDiffs \union {"none"},
           author : Tasks \union {Leader}]

Checkout == [head : CommitIds, tree : {"clean", "dirty", "merge", "cherry-pick"},
             attached : BOOLEAN, onto : CommitIds, safe : CommitIds]

Worktree == [present : BOOLEAN, head : CommitIds, own : BOOLEAN, clean : BOOLEAN]

Manifest ==
    [state : STATES \union {"absent"}, base_commit : CommitIds,
     receipt : CommitIds, checks_pass : BOOLEAN,
     decision : {"none"} \union DOMAIN Decided, review_head : CommitIds,
     integrated_head : CommitIds, leader_head_after : CommitIds,
     proof_head : CommitIds, cleanup : {"none", "kept", "deleted"}]

Command ==
    [pc : {"idle", "worktree", "manifest", "contract", "receipt", "review",
           "apply", "abort", "record", "cleanup"},
     commit : CommitIds,
     arg : {"none"} \union DOMAIN Decided \union Strategies]

TypeOK ==
    /\ dag \in Seq(Commit)
    /\ leader \in Checkout
    /\ tip \in [Tasks -> CommitIds]
    /\ ws \in [Tasks -> Worktree]
    /\ manifest \in [Tasks -> Manifest]
    /\ contract \in [Tasks -> BOOLEAN]
    /\ cmd \in [Tasks -> Command]
    /\ events \in Nat

\* The commit a task stands for does not change on its way: what is accepted is
\* the receipt's head with every required check passed, what is integrated is
\* what was accepted, what is judged is the head the integration recorded.
EvidenceBound ==
    \A t \in Tasks :
        LET m == manifest[t] IN
        /\ m.state \in Integrated \union {"ACCEPTED"} =>
            /\ m.decision = "accept"
            /\ m.checks_pass
            /\ m.receipt # NoCommit
            /\ m.review_head = m.receipt
        /\ m.state \in Integrated => m.integrated_head = m.receipt
        /\ m.state \in Integrated \ {"INTEGRATED"} => m.proof_head = m.leader_head_after

\* The commits of a task that its leader has approved.
Approved(t) ==
    IF manifest[t].decision = "accept" THEN Patches(manifest[t].review_head) ELSE {}

\* No change of a worker is in the leader's project unless it is part of a head
\* that was reviewed and accepted.
OnlyReviewedLands ==
    \A c \in Patches(leader.head) :
        dag[c].author # Leader => c \in Approved(dag[c].author)

\* What is accepted keeps to the scope and passed "git diff --check".
AcceptedInScope ==
    \A t \in Tasks :
        manifest[t].state \in Integrated \union {"ACCEPTED"} =>
            dag[manifest[t].receipt].diff = "inside"

\* A task that has a manifest and is not closed has the worktree and the branch
\* it says it has, whatever crashed or failed.
ManifestBacked ==
    \A t \in Tasks :
        manifest[t].state \in STATES \ FINAL_STATES =>
            ws[t].present /\ tip[t] # NoCommit

\* No command destroys work: a worktree goes only when its task is closed and
\* nothing in it is uncommitted, a branch only when the leader's history has it.
NothingDestroyed ==
    [][\A t \in Tasks :
        /\ ws[t].present /\ ~ ws'[t].present =>
            manifest[t].state \in FINAL_STATES /\ ws[t].clean
        /\ tip[t] # NoCommit /\ tip'[t] = NoCommit =>
            tip[t] \in Reach(leader.head)]_vars

\* An accepted task gets integrated: after crashes, merges that were disturbed
\* and timeouts a retry finds its way, also over a merge that was made and not
\* recorded, unless the worker moved its branch, the leader's user left the task's
\* base, or his project has what Git cannot merge with the task, which no retry
\* changes.
AcceptedIsIntegrated ==
    \A t \in Tasks :
        manifest[t].state = "ACCEPTED" ~>
            \/ manifest[t].state # "ACCEPTED"
            \/ tip[t] # manifest[t].receipt
            \/ manifest[t].base_commit \notin Reach(leader.head)
            \/ Conflicts(tip[t])

\* The runtime implements the protocol.  A task's evidence are the commits from
\* its base to the receipt's head; landed are its commits in the leader's tree.
Protocol == INSTANCE OvpProtocol WITH
    Commits <- 1 .. MaxCommits,
    state <- [t \in Tasks |-> manifest[t].state],
    evidence <- [t \in Tasks |-> IF manifest[t].receipt = NoCommit THEN {}
                                 ELSE Revs(t, manifest[t].receipt)],
    landed <- [t \in Tasks |-> {c \in Patches(leader.head) : dag[c].author = t}]

ImplementsProtocol == Protocol!Spec
===============================================================================
