---------------------------- MODULE OvpRuntimeInv ----------------------------
(***************************************************************************)
(* Why the safety properties of OvpRuntime hold: an inductive invariant.   *)
(***************************************************************************)
EXTENDS OvpRuntime

\* A commit's history and its changes are commits made up to it.
DagInv ==
    \A c \in 1 .. Latest :
        /\ c \in Reach(c) /\ Reach(c) \in SUBSET (1 .. c)
        /\ c \in Patches(c) /\ Patches(c) \in SUBSET (1 .. c)

\* Every HEAD and every branch that is there points to a commit.
HeadInv ==
    /\ leader.head # NoCommit
    /\ \A t \in Tasks :
        ws[t].present => ws[t].head # NoCommit /\ tip[t] # NoCommit

\* What a manifest in a given state has recorded.
RecordInv ==
    \A t \in Tasks :
        /\ manifest[t].state # "absent" => manifest[t].base_commit # NoCommit
        /\ manifest[t].state \in Integrated \union {"REVIEW_READY", "ACCEPTED"} =>
            manifest[t].receipt # NoCommit

\* A command that was checked and goes on finds its task as it left it: no
\* other command on the task runs, and nothing else changes the manifest.
CommandInv ==
    \A t \in Tasks :
        /\ cmd[t].pc \in {"worktree", "manifest"} =>
            manifest[t].state = "absent" /\ cmd[t].commit # NoCommit
        /\ cmd[t].pc = "manifest" => ws[t].present /\ tip[t] # NoCommit
        /\ cmd[t].pc = "contract" => manifest[t].state = "READY"
        /\ cmd[t].pc = "receipt" =>
            manifest[t].state \in Receivable /\ cmd[t].commit # NoCommit
        /\ cmd[t].pc = "review" =>
            manifest[t].state = "REVIEW_READY" /\ cmd[t].arg \in DOMAIN Decided
        /\ cmd[t].pc \in Integrating =>
            /\ manifest[t].state = "ACCEPTED"
            /\ cmd[t].commit = manifest[t].receipt
            /\ cmd[t].arg \in Strategies
        /\ cmd[t].pc = "cleanup" => manifest[t].state \in FINAL_STATES /\ ~ ws[t].present

IndInv ==
    /\ TypeOK
    /\ DagInv
    /\ HeadInv
    /\ RecordInv
    /\ CommandInv
    /\ ManifestBacked
    /\ EvidenceBound

-------------------------------------------------------------------------------
(* What lands, and that it is what the protocol says: further invariants.  *)

Author(c) == dag[c].author

\* The branch that is merged is the head that was accepted: because workers keep
\* still while a command runs on their task, or because nothing is merged.
Steady == LiveWorkers = FALSE \/ "merge" \notin Strategies

\* Nothing but the integration of a task changes the leader's checkout until it
\* ends: his user keeps still, and no other integration goes on, or can abort what
\* this one has brought.
Undisturbed ==
    /\ Steady
    /\ LiveLeader = FALSE
    /\ OneAtATime \/ "cherry-pick" \notin Strategies

AloneInv ==
    OneAtATime =>
        \A s, t \in Tasks : s # t => ~ (cmd[s].pc \in Integrating /\ cmd[t].pc \in Integrating)

\* What is in a commit's history is in its tree, and in the history and the
\* tree of everything made on top of it.
HistoryInv ==
    \A c \in 1 .. Latest :
        /\ Reach(c) \in SUBSET Patches(c)
        /\ \A b \in Reach(c) :
            Reach(b) \in SUBSET Reach(c) /\ Patches(b) \in SUBSET Patches(c)

\* The commits of a task and the leader's.
Home(t) == {NoCommit} \union {c \in 1 .. Latest : Author(c) \in {t, Leader}}

\* A task's branch, worktree and commands are at a commit of its own or one it
\* was given; the leader's checkout is at one of the leader's, and goes back to one.
HomeInv ==
    /\ Author(leader.head) = Leader
    /\ leader.onto # NoCommit => Author(leader.onto) = Leader
    /\ \A t \in Tasks :
        /\ ws[t].present => ws[t].head \in Home(t)
        /\ tip[t] \in Home(t)
        /\ cmd[t].commit \in Home(t)
        /\ manifest[t].base_commit \in Home(t)
        /\ manifest[t].receipt \in Home(t)
        /\ cmd[t].pc \in {"worktree", "manifest"} => Author(cmd[t].commit) = Leader

\* An acceptance is for good, and a task without a manifest has no receipt.
ApprovalInv ==
    \A t \in Tasks :
        /\ manifest[t].decision = "accept" =>
            manifest[t].state \in Integrated \union {"ACCEPTED"}
        /\ manifest[t].state = "absent" => manifest[t].receipt = NoCommit

\* Every change in a commit's tree is its author's, the leader's, or was
\* reviewed and accepted; what is about to be merged is what was accepted.
TrustInv ==
    Steady =>
        \A t \in Tasks :
            /\ \A c \in 1 .. Latest : \A k \in Patches(c) :
                Author(k) = t => Author(c) = t \/ k \in Approved(t)
            /\ cmd[t].pc = "apply" /\ cmd[t].arg = "merge" => tip[t] = manifest[t].receipt

LandInv == HistoryInv /\ HomeInv /\ ApprovalInv /\ TrustInv

\* A receipt is of the head that was looked at: in scope, and once it is accepted
\* without whitespace errors.
Scoped(t) ==
    /\ cmd[t].pc = "receipt" => cmd[t].commit = ws[t].head
    /\ manifest[t].state = "REVIEW_READY" =>
        dag[manifest[t].receipt].diff \in {"inside", "blemish"}
    /\ manifest[t].state \in Integrated \union {"ACCEPTED"} =>
        dag[manifest[t].receipt].diff = "inside"

ScopeInv == LiveWorkers = FALSE => \A t \in Tasks : Scoped(t)

\* A task builds on the commit b: what its commits have beyond b's history are
\* the changes of the task in their trees, and all they have of others is b's.
BuildsOn(t, b) ==
    /\ b # NoCommit
    /\ \A k \in Patches(b) : Author(k) # t
    /\ \A c \in 1 .. Latest :
        Author(c) = t =>
            /\ b \in Reach(c)
            /\ Reach(c) \ Reach(b) = {k \in Patches(c) : Author(k) = t}
            /\ \A k \in Patches(c) : Author(k) = t \/ k \in Patches(b)

\* The branch and the worktree are at b or at a commit made on top of it.
Grounded(t, b) ==
    /\ BuildsOn(t, b)
    /\ ws[t].present => ws[t].head = b \/ Author(ws[t].head) = t
    /\ tip[t] # NoCommit => tip[t] = b \/ Author(tip[t]) = t

\* The commits of a task come after its base, which is the commit its worktree
\* was made from; a task that has neither worktree nor branch has none.
BaseInv ==
    \A t \in Tasks :
        /\ manifest[t].state # "absent" => Grounded(t, manifest[t].base_commit)
        /\ cmd[t].pc = "manifest" => Grounded(t, cmd[t].commit)
        /\ manifest[t].receipt # NoCommit => Author(manifest[t].receipt) = t
        /\ cmd[t].pc = "receipt" => Author(cmd[t].commit) = t
        /\ manifest[t].state = "absent" /\ ~ ws[t].present /\ tip[t] = NoCommit =>
            \A c \in 1 .. Latest : Author(c) # t

\* What an undisturbed integration has landed stays until that is recorded, and the
\* head it recorded has it for good.
LandedInv ==
    Undisturbed =>
        \A t \in Tasks :
            /\ cmd[t].pc = "record" =>
                Revs(t, manifest[t].receipt) \in SUBSET Patches(leader.head)
            /\ manifest[t].state \in Integrated =>
                /\ manifest[t].leader_head_after # NoCommit
                /\ Revs(t, manifest[t].receipt)
                    \in SUBSET Patches(manifest[t].leader_head_after)

\* The bound holds for the commits of workers.
BoundInv == \A c \in 1 .. Latest : Author(c) # Leader => c <= MaxCommits

MapInv == BaseInv /\ AloneInv /\ LandedInv /\ BoundInv

\* What the protocol calls a task's evidence, and what of it has landed.
Evidence(t) ==
    IF manifest[t].receipt = NoCommit THEN {} ELSE Revs(t, manifest[t].receipt)

Landed(t) == {c \in Patches(leader.head) : dag[c].author = t}

StrongInv == IndInv /\ LandInv /\ ScopeInv /\ MapInv
===============================================================================
