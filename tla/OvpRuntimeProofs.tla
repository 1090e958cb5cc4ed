--------------------------- MODULE OvpRuntimeProofs ---------------------------
(***************************************************************************)
(* The commands of ovp_runtime.py keep IndInv and StrongInv, whatever set  *)
(* of tasks they run on, whatever workers, the leader's user and crashes   *)
(* do in between, and however many commits the repository has; what they   *)
(* do is what OvpProtocol promises.                                        *)
(***************************************************************************)
EXTENDS OvpRuntimeInv, TLAPS

-------------------------------------------------------------------------------
(* The repository *)

\* A commit that is made leaves the others as they are, and knows its own history.
LEMMA RecordGrows ==
  ASSUME TypeOK, DagInv,
         NEW reach \in SUBSET (1 .. Latest), NEW patch \in SUBSET (1 .. Latest),
         NEW diff \in Diffs \union LeaderDiffs \union {"none"}, NEW author \in Tasks \union {Leader},
         Record(reach, patch, diff, author)
  PROVE  /\ dag' \in Seq(Commit)
         /\ Latest \in Nat
         /\ Latest' = Latest + 1
         /\ DagInv'
<1> DEFINE new == [reach |-> reach \union {Latest + 1},
                   patch |-> patch \union {Latest + 1},
                   diff |-> diff, author |-> author]
<1>1. dag \in Seq(Commit) /\ Latest \in Nat
  BY DEF TypeOK, Commit, Latest
<1>2. new \in Commit
  BY <1>1 DEF Commit
<1>3. dag' = Append(dag, new)
  BY DEF Record
<1>4. dag' \in Seq(Commit) /\ Latest' = Latest + 1 /\ dag'[Latest + 1] = new
        /\ \A c \in 1 .. Latest : dag'[c] = dag[c]
  BY <1>1, <1>2, <1>3 DEF Latest
<1>5. DagInv'
  <2> SUFFICES ASSUME NEW c \in 1 .. Latest + 1
               PROVE  /\ c \in dag'[c].reach /\ dag'[c].reach \in SUBSET (1 .. c)
                      /\ c \in dag'[c].patch /\ dag'[c].patch \in SUBSET (1 .. c)
    BY <1>4 DEF DagInv, Reach, Patches
  <2>1. CASE c \in 1 .. Latest
    BY <2>1, <1>4 DEF DagInv, Reach, Patches
  <2>2. CASE c = Latest + 1
    <3>1. dag'[c].reach = reach \union {c} /\ dag'[c].patch = patch \union {c}
      BY <2>2, <1>4
    <3> QED
      BY <2>2, <3>1, <1>1
  <2> QED
    BY <2>1, <2>2, <1>1
<1> QED
  BY <1>1, <1>4, <1>5

\* The commits of a history are commits.
LEMMA HistoryIsCommits ==
  ASSUME IndInv, NEW c \in CommitIds, c # NoCommit
  PROVE  /\ Latest \in Nat
         /\ Reach(c) \in SUBSET (1 .. Latest)
         /\ Patches(c) \in SUBSET (1 .. Latest)
<1>1. Latest \in Nat /\ c \in 1 .. Latest
  BY DEF IndInv, TypeOK, CommitIds, Latest, NoCommit
<1> QED
  BY <1>1 DEF IndInv, DagInv

-------------------------------------------------------------------------------
(* Types *)

\* The fields of a manifest, a command and a worktree have their types.
LEMMA Fields ==
  ASSUME TypeOK, NEW t \in Tasks
  PROVE  /\ manifest[t] \in Manifest /\ ws[t] \in Worktree /\ cmd[t] \in Command
         /\ leader.head \in CommitIds /\ tip[t] \in CommitIds
         /\ leader.onto \in CommitIds /\ leader.safe \in CommitIds
         /\ ws[t].head \in CommitIds /\ cmd[t].commit \in CommitIds
         /\ manifest[t].base_commit \in CommitIds
         /\ manifest[t].receipt \in CommitIds
         /\ NoCommit \in CommitIds
BY DEF TypeOK, Checkout, Worktree, Manifest, Command, NoCommit, CommitIds, Latest

\* The types only grow, as commits are made.
LEMMA TypesGrow ==
  ASSUME TypeOK, Latest' \in Nat, Latest' >= Latest
  PROVE  /\ CommitIds \subseteq CommitIds'
         /\ Checkout \subseteq Checkout'
         /\ Worktree \subseteq Worktree'
         /\ Manifest \subseteq Manifest'
         /\ Command \subseteq Command'
<1>1. CommitIds \subseteq CommitIds'
  BY DEF TypeOK, CommitIds, Latest
<1>2. Checkout \subseteq Checkout'
  BY <1>1 DEF Checkout
<1>3. Worktree \subseteq Worktree'
  BY <1>1 DEF Worktree
<1>4. Manifest \subseteq Manifest'
  BY <1>1 DEF Manifest
<1>5. Command \subseteq Command'
  BY <1>1 DEF Command
<1> QED
  BY <1>1, <1>2, <1>3, <1>4, <1>5

\* A step that makes no commit.
LEMMA NoCommitMade ==
  ASSUME IndInv, UNCHANGED dag, leader' \in Checkout,
         tip' \in [Tasks -> CommitIds], ws' \in [Tasks -> Worktree],
         manifest' \in [Tasks -> Manifest], contract' \in [Tasks -> BOOLEAN],
         cmd' \in [Tasks -> Command], events' \in Nat
  PROVE  TypeOK' /\ DagInv'
<1>1. Latest' = Latest /\ Latest \in Nat
  BY DEF IndInv, TypeOK, Latest
<1>2. TypeOK'
  BY <1>1, TypesGrow DEF IndInv, TypeOK, Commit
<1>3. DagInv'
  BY <1>1 DEF IndInv, DagInv, Reach, Patches
<1> QED
  BY <1>2, <1>3

-------------------------------------------------------------------------------
(* Steps of one kind *)

\* The leader checkout moves, if at all, to a commit of the repository.
CheckoutMoves ==
    /\ dag' \in Seq(Commit) /\ Latest' \in Nat /\ Latest' >= Latest /\ DagInv'
    /\ leader' \in Checkout' /\ leader'.head # NoCommit

\* A command that moves on, and at most the leader checkout with it.
LEMMA CommandMoves ==
  ASSUME IndInv, UNCHANGED <<tip, ws, manifest>>, CheckoutMoves,
         contract' \in [Tasks -> BOOLEAN], cmd' \in [Tasks -> Command],
         events' \in Nat, CommandInv'
  PROVE  IndInv'
<1>1. TypeOK'
  BY TypesGrow DEF CheckoutMoves, IndInv, TypeOK, Commit
<1>2. HeadInv' /\ RecordInv' /\ ManifestBacked' /\ EvidenceBound'
  BY DEF CheckoutMoves, IndInv, HeadInv, RecordInv, ManifestBacked, EvidenceBound
<1> QED
  BY <1>1, <1>2 DEF CheckoutMoves, IndInv

\* No commit is made, and HEAD stays at a commit.
LEMMA CheckoutStays ==
  ASSUME IndInv, UNCHANGED dag, leader' \in Checkout, leader'.head # NoCommit
  PROVE  CheckoutMoves
<1>1. Latest' = Latest /\ Latest \in Nat
  BY DEF IndInv, TypeOK, Latest
<1>2. DagInv'
  BY <1>1 DEF IndInv, DagInv, Reach, Patches
<1>3. leader' \in Checkout'
  BY <1>1, TypesGrow DEF IndInv
<1> QED
  BY <1>1, <1>2, <1>3 DEF IndInv, TypeOK, CheckoutMoves

\* The same when nothing of the repository changes.
LEMMA RepositoryStays ==
  ASSUME IndInv, UNCHANGED <<dag, leader>>
  PROVE  CheckoutMoves
BY CheckoutStays DEF IndInv, TypeOK, HeadInv

\* A command that stops: nothing is expected of it any more.
LEMMA CommandStops ==
  ASSUME IndInv, NEW t \in Tasks, Finish(t), UNCHANGED <<manifest, ws>>,
         \A s \in Tasks : tip[s] # NoCommit => tip'[s] # NoCommit
  PROVE  cmd' \in [Tasks -> Command] /\ CommandInv'
<1>1. Idle \in Command
  BY Fields DEF IndInv, Idle, Command
<1>2. cmd' \in [Tasks -> Command]
  BY <1>1 DEF IndInv, TypeOK, Finish
<1>3. CommandInv'
  BY DEF IndInv, TypeOK, CommandInv, Integrating, Finish, Idle
<1> QED
  BY <1>2, <1>3

\* A worker or the leader's user moves; the commands and the manifests stay.
LEMMA GitMoves ==
  ASSUME IndInv, UNCHANGED <<manifest, contract, cmd>>, events' \in Nat,
         dag' \in Seq(Commit), Latest' \in Nat, Latest' >= Latest, DagInv',
         leader' \in Checkout', leader'.head # NoCommit,
         tip' \in [Tasks -> CommitIds'], ws' \in [Tasks -> Worktree'],
         \A s \in Tasks :
            /\ ws'[s].present = ws[s].present
            /\ tip[s] # NoCommit => tip'[s] # NoCommit
            /\ ws'[s].present => ws'[s].head # NoCommit
  PROVE  IndInv'
<1>1. TypeOK'
  BY TypesGrow DEF IndInv, TypeOK, Commit
<1>2. HeadInv' /\ RecordInv' /\ CommandInv' /\ ManifestBacked' /\ EvidenceBound'
  BY DEF IndInv, HeadInv, RecordInv, CommandInv, ManifestBacked, EvidenceBound
<1> QED
  BY <1>1, <1>2 DEF IndInv

\* The same when a worktree changes and no commit is made.
LEMMA WorktreeMoves ==
  ASSUME IndInv, UNCHANGED <<dag, leader, manifest, contract, cmd>>, events' \in Nat,
         tip' \in [Tasks -> CommitIds], ws' \in [Tasks -> Worktree],
         \A s \in Tasks :
            /\ ws'[s].present = ws[s].present
            /\ tip[s] # NoCommit => tip'[s] # NoCommit
            /\ ws'[s].present => ws'[s].head # NoCommit
  PROVE  IndInv'
<1>1. TypeOK' /\ DagInv'
  BY NoCommitMade DEF IndInv, TypeOK
<1>2. HeadInv' /\ RecordInv' /\ CommandInv' /\ ManifestBacked' /\ EvidenceBound'
  BY DEF IndInv, HeadInv, RecordInv, CommandInv, ManifestBacked, EvidenceBound
<1> QED
  BY <1>1, <1>2 DEF IndInv

\* What a command saves.
LEMMA Saved ==
  ASSUME TypeOK, NEW t \in Tasks, NEW m \in Manifest, SaveManifest(t, m)
  PROVE  /\ manifest' \in [Tasks -> Manifest]
         /\ manifest'[t] = m
         /\ \A s \in Tasks \ {t} : manifest'[s] = manifest[s]
BY DEF TypeOK, SaveManifest

\* HEAD moves to a commit that was just made.
LEMMA HeadAdvances ==
  ASSUME TypeOK, Latest' = Latest + 1, AdvanceLeader
  PROVE  leader' \in Checkout' /\ leader'.head # NoCommit
<1>1. Latest \in Nat
  BY DEF TypeOK, Latest
<1>2. Latest + 1 \in CommitIds' /\ Latest + 1 # NoCommit
  BY <1>1 DEF CommitIds, NoCommit
<1>3. leader \in Checkout'
  BY <1>1, TypesGrow DEF TypeOK
<1> QED
  BY <1>2, <1>3 DEF AdvanceLeader, Checkout

-------------------------------------------------------------------------------
(* The commands *)

\* "prepare" makes the worktree and the branch before it writes the manifest.
LEMMA PrepareKeeps ==
  ASSUME IndInv, NEW t \in Tasks,
         \/ PrepareRead(t) \/ PrepareWorktree(t) \/ PrepareRefuse(t)
         \/ PrepareSave(t) \/ PrepareContract(t)
  PROVE  IndInv'
<1> USE DEF IndInv
<1>1. CASE PrepareRead(t)
  <2>1. PICK c \in 1 .. Latest : Continue(t, "worktree", c, "none")
    BY <1>1 DEF PrepareRead
  <2>2. c \in CommitIds /\ c # NoCommit
    BY <2>1 DEF CommitIds, NoCommit
  <2>3. cmd' \in [Tasks -> Command] /\ CommandInv'
    BY <1>1, <2>1, <2>2, Fields
       DEF PrepareRead, Continue, TypeOK, Command, CommandInv, Integrating
  <2> QED
    BY <1>1, <2>3, CommandMoves, RepositoryStays DEF PrepareRead, TypeOK
<1>2. CASE PrepareWorktree(t)
  <2>1. cmd' \in [Tasks -> Command]
    BY <1>2, Fields DEF PrepareWorktree, Continue, TypeOK, Command
  <2>2. ws' \in [Tasks -> Worktree] /\ tip' \in [Tasks -> CommitIds]
    BY <1>2, Fields DEF PrepareWorktree, TypeOK, Worktree
  <2>3. TypeOK' /\ DagInv'
    BY <1>2, <2>1, <2>2, NoCommitMade DEF PrepareWorktree, TypeOK
  <2>4. HeadInv'
    BY <1>2 DEF PrepareWorktree, TypeOK, HeadInv, CommandInv, Integrating
  <2>5. CommandInv' /\ ManifestBacked'
    BY <1>2 DEF PrepareWorktree, Continue, TypeOK, CommandInv, Integrating, ManifestBacked, STATES
  <2>6. RecordInv' /\ EvidenceBound'
    BY <1>2 DEF PrepareWorktree, RecordInv, EvidenceBound
  <2> QED
    BY <2>3, <2>4, <2>5, <2>6
<1>3. CASE PrepareRefuse(t)
  <2>1. tip' \in [Tasks -> CommitIds] /\ \A s \in Tasks : tip[s] # NoCommit => tip'[s] # NoCommit
    BY <1>3, Fields DEF PrepareRefuse, TypeOK
  <2>2. cmd' \in [Tasks -> Command] /\ CommandInv'
    BY <1>3, <2>1, CommandStops DEF PrepareRefuse
  <2>3. TypeOK' /\ DagInv'
    BY <1>3, <2>1, <2>2, NoCommitMade DEF PrepareRefuse, Disturb, Calm, TypeOK
  <2>4. HeadInv' /\ RecordInv' /\ ManifestBacked' /\ EvidenceBound'
    BY <1>3, <2>1 DEF PrepareRefuse, HeadInv, RecordInv, ManifestBacked, EvidenceBound
  <2> QED
    BY <2>2, <2>3, <2>4
<1>4. CASE PrepareSave(t)
  <2> DEFINE m == [manifest[t] EXCEPT !.state = "READY", !.base_commit = cmd[t].commit]
  <2>1. m \in Manifest
    BY Fields DEF Manifest, STATES, Receivable
  <2>2. SaveManifest(t, m)
    BY <1>4 DEF PrepareSave
  <2>3. cmd' \in [Tasks -> Command]
    BY <1>4, Fields DEF PrepareSave, Continue, TypeOK, Command
  <2>4. TypeOK' /\ DagInv'
    BY <1>4, <2>1, <2>2, <2>3, Saved, NoCommitMade DEF PrepareSave, TypeOK
  <2>5. m.state = "READY" /\ m.base_commit # NoCommit
    BY <1>4, Fields DEF PrepareSave, CommandInv, Manifest
  <2> HIDE DEF m
  <2>6. HeadInv' /\ ManifestBacked'
    BY <1>4, <2>1, <2>2, Saved DEF PrepareSave, HeadInv, CommandInv, Integrating, ManifestBacked
  <2>7. RecordInv' /\ EvidenceBound'
    BY <2>1, <2>2, <2>5, Saved DEF RecordInv, EvidenceBound, Integrated
  <2>8. CommandInv'
    BY <1>4, <2>1, <2>2, <2>5, Saved DEF PrepareSave, Continue, TypeOK, CommandInv, Integrating
  <2> QED
    BY <2>4, <2>6, <2>7, <2>8
<1>5. CASE PrepareContract(t)
  <2>1. cmd' \in [Tasks -> Command] /\ CommandInv'
    BY <1>5, CommandStops DEF PrepareContract
  <2> QED
    BY <1>5, <2>1, CommandMoves, RepositoryStays DEF PrepareContract, TypeOK
<1> QED
  BY <1>1, <1>2, <1>3, <1>4, <1>5

\* "mark" changes the state only, between states with nothing recorded.
LEMMA MarkKeeps ==
  ASSUME IndInv, NEW t \in Tasks, MarkDispatched(t) \/ MarkWorking(t)
  PROVE  IndInv'
<1> USE DEF IndInv
<1>1. PICK marked \in {"DISPATCHED", "WORKING"} :
        SaveManifest(t, [manifest[t] EXCEPT !.state = marked])
  BY DEF MarkDispatched, MarkWorking
<1> DEFINE m == [manifest[t] EXCEPT !.state = marked]
<1>2. /\ SaveManifest(t, m)
      /\ manifest[t].state \in Receivable /\ cmd[t].pc = "idle"
      /\ UNCHANGED <<dag, leader, tip, ws, contract, cmd, events>>
  BY <1>1 DEF MarkDispatched, MarkWorking, Receivable
<1>3. m \in Manifest
  BY Fields DEF Manifest, STATES, Receivable
<1>4. m.state = marked /\ m.base_commit = manifest[t].base_commit
  BY Fields DEF Manifest
<1> HIDE DEF m
<1>5. TypeOK' /\ DagInv'
  BY <1>2, <1>3, Saved, NoCommitMade DEF TypeOK
<1>6. HeadInv' /\ RecordInv' /\ EvidenceBound'
  BY <1>2, <1>3, <1>4, Saved DEF HeadInv, RecordInv, EvidenceBound, Receivable, Integrated
<1>7. CommandInv' /\ ManifestBacked'
  BY <1>2, <1>3, <1>4, Saved
     DEF CommandInv, Integrating, ManifestBacked, STATES, FINAL_STATES, Receivable
<1> QED
  BY <1>5, <1>6, <1>7

\* "receipt" saves the head it has read under the same lock.
LEMMA SubmitKeeps ==
  ASSUME IndInv, NEW t \in Tasks, SubmitRead(t) \/ SubmitSave(t) \/ SubmitRefuse(t)
  PROVE  IndInv'
<1> USE DEF IndInv
<1>1. CASE SubmitRead(t)
  <2>1. cmd' \in [Tasks -> Command] /\ CommandInv'
    BY <1>1, Fields DEF SubmitRead, Continue, TypeOK, Command, CommandInv, HeadInv, Integrating
  <2> QED
    BY <1>1, <2>1, CommandMoves, RepositoryStays DEF SubmitRead, TypeOK
<1>2. CASE SubmitSave(t)
  <2>1. PICK pass \in BOOLEAN :
          SaveManifest(t, [manifest[t] EXCEPT !.state = "REVIEW_READY",
                                              !.receipt = cmd[t].commit,
                                              !.checks_pass = pass])
    BY <1>2 DEF SubmitSave
  <2> DEFINE m == [manifest[t] EXCEPT !.state = "REVIEW_READY",
                                      !.receipt = cmd[t].commit,
                                      !.checks_pass = pass]
  <2>2. m \in Manifest
    BY Fields DEF Manifest, STATES
  <2>3. /\ m.state = "REVIEW_READY" /\ m.receipt = cmd[t].commit
        /\ m.base_commit = manifest[t].base_commit
    BY Fields DEF Manifest
  <2>4. SaveManifest(t, m)
    BY <2>1
  <2> HIDE DEF m
  <2>5. /\ manifest[t].state \in Receivable /\ cmd[t].commit # NoCommit /\ Finish(t)
        /\ UNCHANGED <<dag, leader, tip, ws, contract, events>>
    BY <1>2 DEF SubmitSave, CommandInv, Integrating
  <2>6. cmd' \in [Tasks -> Command]
    BY <2>5, Fields DEF Finish, Idle, TypeOK, Command
  <2>7. TypeOK' /\ DagInv'
    BY <2>2, <2>4, <2>5, <2>6, Saved, NoCommitMade DEF TypeOK
  <2>8. HeadInv' /\ RecordInv' /\ EvidenceBound'
    BY <2>2, <2>3, <2>4, <2>5, Saved
       DEF HeadInv, RecordInv, EvidenceBound, Receivable, Integrated
  <2>9. CommandInv' /\ ManifestBacked'
    BY <2>2, <2>3, <2>4, <2>5, Saved
       DEF Finish, Idle, TypeOK, CommandInv, Integrating, ManifestBacked, STATES, FINAL_STATES, Receivable
  <2> QED
    BY <2>7, <2>8, <2>9
<1>3. CASE SubmitRefuse(t)
  <2>1. cmd' \in [Tasks -> Command] /\ CommandInv'
    BY <1>3, CommandStops DEF SubmitRefuse
  <2> QED
    BY <1>3, <2>1, CommandMoves, RepositoryStays DEF SubmitRefuse, TypeOK
<1> QED
  BY <1>1, <1>2, <1>3

\* "review" accepts only the head of the receipt, with its checks passed.
LEMMA ReviewKeeps ==
  ASSUME IndInv, NEW t \in Tasks, ReviewRead(t) \/ ReviewDecide(t)
  PROVE  IndInv'
<1> USE DEF IndInv
<1>1. CASE ReviewRead(t)
  <2>1. cmd' \in [Tasks -> Command] /\ CommandInv'
    BY <1>1, Fields DEF ReviewRead, Continue, TypeOK, Command, CommandInv, Integrating, Decided
  <2> QED
    BY <1>1, <2>1, CommandMoves, RepositoryStays DEF ReviewRead, TypeOK
<1>2. CASE ReviewDecide(t) /\ UNCHANGED manifest
  <2>1. cmd' \in [Tasks -> Command] /\ CommandInv'
    BY <1>2, CommandStops DEF ReviewDecide
  <2> QED
    BY <1>2, <2>1, CommandMoves, RepositoryStays DEF ReviewDecide, TypeOK
<1>3. CASE ReviewDecide(t) /\ ~ UNCHANGED manifest
  <2> DEFINE m == [manifest[t] EXCEPT !.state = Decided[cmd[t].arg],
                                      !.decision = cmd[t].arg,
                                      !.review_head = cmd[t].commit]
  <2>1. /\ manifest[t].state = "REVIEW_READY" /\ cmd[t].arg \in {"accept", "rework", "reject"}
        /\ cmd[t].arg = "accept" => GatesPass(t)
        /\ SaveManifest(t, m) /\ Finish(t)
        /\ UNCHANGED <<dag, leader, tip, ws, contract, events>>
    BY <1>3 DEF ReviewDecide, CommandInv, Integrating, Decided
  <2>2. Decided[cmd[t].arg] \in {"ACCEPTED", "REWORK", "REJECTED"}
    BY <2>1 DEF Decided
  <2>3. m \in Manifest
    <3>1. Decided[cmd[t].arg] \in STATES
      BY <2>2 DEF STATES, Receivable, FINAL_STATES
    <3>2. cmd[t].arg \in {"none"} \union DOMAIN Decided
      BY <2>1 DEF Decided
    <3>3. manifest[t] \in Manifest /\ cmd[t].commit \in CommitIds
      BY Fields
    <3> HIDE DEF IndInv
    <3> QED
      BY <3>1, <3>2, <3>3 DEF Manifest
  <2>4. /\ m.state = Decided[cmd[t].arg]
        /\ m.decision = cmd[t].arg /\ m.review_head = cmd[t].commit
        /\ m.base_commit = manifest[t].base_commit
        /\ m.receipt = manifest[t].receipt /\ m.checks_pass = manifest[t].checks_pass
    BY Fields DEF Manifest
  <2>5. m.state = "ACCEPTED" => /\ m.decision = "accept" /\ m.checks_pass
                                /\ m.receipt # NoCommit /\ m.review_head = m.receipt
    <3> SUFFICES ASSUME m.state = "ACCEPTED"
                 PROVE  /\ m.decision = "accept" /\ m.checks_pass
                        /\ m.receipt # NoCommit /\ m.review_head = m.receipt
      OBVIOUS
    <3>1. cmd[t].arg = "accept"
      BY <2>1, <2>4 DEF Decided
    <3> QED
      BY <2>1, <2>4, <3>1 DEF GatesPass, RecordInv
  <2> HIDE DEF m
  <2>6. cmd' \in [Tasks -> Command]
    BY <2>1, Fields DEF Finish, Idle, TypeOK, Command
  <2>7. TypeOK' /\ DagInv'
    BY <2>1, <2>3, <2>6, Saved, NoCommitMade DEF TypeOK
  <2>8. HeadInv' /\ RecordInv'
    BY <2>1, <2>2, <2>3, <2>4, Saved DEF HeadInv, RecordInv
  <2>9. EvidenceBound'
    BY <2>1, <2>2, <2>3, <2>4, <2>5, Saved DEF EvidenceBound, Integrated
  <2>10. CommandInv' /\ ManifestBacked'
    BY <2>1, <2>2, <2>3, <2>4, Saved
       DEF Finish, Idle, TypeOK, CommandInv, Integrating, ManifestBacked, STATES, FINAL_STATES
  <2> QED
    BY <2>7, <2>8, <2>9, <2>10
<1> QED
  BY <1>1, <1>2, <1>3

\* What Git is told to bring when a task integrates: parts of its history.
LEMMA Brought ==
  ASSUME IndInv, NEW t \in Tasks, cmd[t].pc = "apply"
  PROVE  /\ manifest[t].state = "ACCEPTED" /\ cmd[t].arg \in Strategies
         /\ cmd[t].commit = manifest[t].receipt
         /\ cmd[t].commit \in CommitIds /\ cmd[t].commit # NoCommit
         /\ leader.head \in CommitIds /\ leader.head # NoCommit
         /\ tip[t] \in CommitIds /\ tip[t] # NoCommit
         /\ Revs(t, cmd[t].commit) \in SUBSET (1 .. Latest)
<1>1. /\ manifest[t].state = "ACCEPTED" /\ cmd[t].arg \in Strategies
      /\ cmd[t].commit = manifest[t].receipt
  BY DEF IndInv, CommandInv, Integrating
<1>2. cmd[t].commit # NoCommit /\ leader.head # NoCommit /\ tip[t] # NoCommit
  BY <1>1 DEF IndInv, HeadInv, ManifestBacked, RecordInv, STATES, FINAL_STATES
<1>3. Revs(t, cmd[t].commit) \in SUBSET (1 .. Latest)
  BY <1>2, Fields, HistoryIsCommits DEF Revs, IndInv
<1> QED
  BY <1>1, <1>2, <1>3, Fields DEF IndInv

\* A checkout whose fields are of the repository is one.
LEMMA CheckoutTyped ==
  ASSUME TypeOK, Latest' \in Nat, Latest' >= Latest,
         NEW head \in CommitIds', NEW tree \in {"clean", "dirty", "merge", "cherry-pick"},
         NEW onto \in CommitIds', NEW safe \in CommitIds',
         leader' = [leader EXCEPT !.head = head, !.tree = tree, !.onto = onto, !.safe = safe]
  PROVE  leader' \in Checkout' /\ leader'.head = head /\ leader'.onto = onto
<1>1. leader \in Checkout'
  BY TypesGrow DEF TypeOK
<1> HIDE DEF CommitIds
<1> QED
  BY <1>1 DEF Checkout

\* A pick makes at most one commit, and notes commits of the repository only.
LEMMA PickMoves ==
  ASSUME IndInv, NEW t \in Tasks, cmd[t].pc = "apply",
         NEW part \in SUBSET Revs(t, cmd[t].commit),
         NEW tree \in {"clean", "dirty", "merge", "cherry-pick"},
         NEW onto \in CommitIds, NEW safe \in CommitIds \union {Picked(part)},
         Pick(t, part, tree, onto, safe)
  PROVE  /\ CheckoutMoves /\ leader'.onto = onto
         /\ \/ UNCHANGED dag /\ leader'.head = leader.head
            \/ /\ \E diff \in LeaderDiffs :
                    Record(Reach(leader.head), Patches(leader.head) \union part, diff, Leader)
               /\ leader'.head = Latest + 1
<1> USE DEF IndInv
<1> DEFINE noted == IF onto = NoCommit THEN NoCommit ELSE safe
<1>0. leader' = [leader EXCEPT !.head = Picked(part), !.tree = tree, !.onto = onto,
                               !.safe = noted]
  BY DEF Pick
<1>1. /\ leader.head \in CommitIds /\ leader.head # NoCommit
      /\ NoCommit \in CommitIds /\ Latest \in Nat
  BY Fields DEF HeadInv, TypeOK, Latest
<1>2. CASE part = {}
  <2>1. UNCHANGED dag /\ Picked(part) = leader.head
    BY <1>2 DEF Pick, Picked
  <2>2. Latest' = Latest /\ CommitIds' = CommitIds
    BY <2>1 DEF Latest, CommitIds
  <2>3. noted \in CommitIds'
    BY <1>1, <2>1, <2>2
  <2>4. /\ TypeOK /\ Latest' \in Nat /\ Latest' >= Latest
        /\ leader.head \in CommitIds' /\ onto \in CommitIds'
        /\ leader' = [leader EXCEPT !.head = leader.head, !.tree = tree,
                                    !.onto = onto, !.safe = noted]
    BY <1>0, <1>1, <2>1, <2>2
  <2> HIDE DEF noted, IndInv
  <2>6. leader' \in Checkout' /\ leader'.head = leader.head /\ leader'.onto = onto
    BY <2>3, <2>4, CheckoutTyped
  <2>5. Checkout' = Checkout
    BY <2>2 DEF Checkout
  <2> QED
    BY <1>1, <2>1, <2>6, <2>5, CheckoutStays DEF IndInv
<1>3. CASE part # {}
  <2>1. PICK diff \in LeaderDiffs :
          Record(Reach(leader.head), Patches(leader.head) \union part, diff, Leader)
    BY <1>3 DEF Pick
  <2>2. /\ Reach(leader.head) \in SUBSET (1 .. Latest)
        /\ Patches(leader.head) \union part \in SUBSET (1 .. Latest)
    BY <1>1, Brought, HistoryIsCommits
  <2>3. /\ dag' \in Seq(Commit) /\ Latest' = Latest + 1 /\ DagInv'
    BY <2>1, <2>2, RecordGrows
  <2>4. /\ CommitIds \subseteq CommitIds' /\ Latest + 1 \in CommitIds'
        /\ Latest + 1 # NoCommit /\ Picked(part) = Latest + 1
    BY <1>1, <1>3, <2>3, TypesGrow DEF CommitIds, NoCommit, Picked
  <2>5. noted \in CommitIds'
    BY <1>1, <2>4
  <2>7. /\ TypeOK /\ Latest' \in Nat /\ Latest' >= Latest
        /\ onto \in CommitIds'
        /\ leader' = [leader EXCEPT !.head = Latest + 1, !.tree = tree,
                                    !.onto = onto, !.safe = noted]
    BY <1>0, <1>1, <2>3, <2>4
  <2> HIDE DEF noted, IndInv
  <2>6. leader' \in Checkout' /\ leader'.head = Latest + 1 /\ leader'.onto = onto
    BY <2>4, <2>5, <2>7, CheckoutTyped
  <2> QED
    BY <1>1, <2>1, <2>3, <2>4, <2>6 DEF CheckoutMoves
<1> QED
  BY <1>2, <1>3

\* The step in which "integrate" runs Git.
Integrates(t) == IntegrateApply(t) \/ IntegrateFail(t) \/ IntegrateTimeout(t)

\* It brings the task's branch, or commits of it, or nothing, and may leave a
\* sequence that began at HEAD.
LEMMA Integration ==
  ASSUME IndInv, NEW t \in Tasks, Integrates(t)
  PROVE  /\ cmd[t].pc = "apply" /\ CheckoutMoves
         /\ leader'.onto \in {NoCommit, leader.onto, leader.head}
         /\ \/ UNCHANGED dag /\ leader'.head = leader.head
            \/ /\ cmd[t].arg = "merge"
               /\ \E diff \in LeaderDiffs :
                    Record(Reach(leader.head) \union Reach(tip[t]),
                           Patches(leader.head) \union Patches(tip[t]), diff, Leader)
               /\ leader'.head = Latest + 1
            \/ /\ cmd[t].arg = "cherry-pick"
               /\ \E part \in SUBSET Revs(t, cmd[t].commit), diff \in LeaderDiffs :
                    Record(Reach(leader.head), Patches(leader.head) \union part, diff, Leader)
               /\ leader'.head = Latest + 1
<1> USE DEF IndInv
<1>1. cmd[t].pc = "apply"
  BY DEF Integrates, IntegrateApply, IntegrateFail, IntegrateTimeout
<1>2. /\ cmd[t].arg \in Strategies
      /\ leader.head \in CommitIds /\ leader.head # NoCommit /\ leader \in Checkout
      /\ leader.onto \in CommitIds /\ leader.safe \in CommitIds
      /\ tip[t] \in CommitIds /\ tip[t] # NoCommit
  BY <1>1, Brought, Fields DEF TypeOK
<1>3. /\ leader.tree \in {"clean", "dirty", "merge", "cherry-pick"}
      /\ Unfinished(t) \in {"clean", "dirty", "merge", "cherry-pick"}
      /\ Sequence(t) \in {leader.onto, leader.head}
  BY <1>2, OvpRuntimeAssumption DEF Unfinished, Sequence, Checkout
<1>4. CASE MergeBranch(t) /\ cmd[t].arg = "merge"
  <2>1. CASE UNCHANGED <<dag, leader>>
    BY <1>1, <2>1, RepositoryStays
  <2>2. CASE ~ UNCHANGED <<dag, leader>>
    <3>1. PICK diff \in LeaderDiffs :
            Record(Reach(leader.head) \union Reach(tip[t]),
                   Patches(leader.head) \union Patches(tip[t]), diff, Leader)
      BY <1>4, <2>2 DEF MergeBranch
    <3>2. AdvanceLeader
      BY <1>4, <2>2 DEF MergeBranch
    <3>3. /\ Reach(leader.head) \union Reach(tip[t]) \in SUBSET (1 .. Latest)
          /\ Patches(leader.head) \union Patches(tip[t]) \in SUBSET (1 .. Latest)
      BY <1>2, HistoryIsCommits
    <3>4. dag' \in Seq(Commit) /\ Latest' = Latest + 1 /\ Latest \in Nat /\ DagInv'
      BY <3>1, <3>3, RecordGrows
    <3>5. leader' \in Checkout' /\ leader'.head # NoCommit
      BY <3>2, <3>4, HeadAdvances
    <3>6. leader'.head = Latest + 1 /\ leader'.onto = leader.onto
      BY <1>2, <3>2 DEF AdvanceLeader, Checkout
    <3>7. CheckoutMoves
      BY <3>4, <3>5 DEF CheckoutMoves
    <3> QED
      BY <1>1, <1>4, <3>1, <3>6, <3>7
  <2> QED
    BY <2>1, <2>2
<1>5. CASE LeaveUnfinished(t) /\ UNCHANGED dag
  <2>1. leader' \in Checkout /\ leader'.head = leader.head /\ leader'.onto = leader.onto
    BY <1>2, <1>3, <1>5 DEF LeaveUnfinished, Checkout
  <2> QED
    BY <1>1, <1>2, <1>5, <2>1, CheckoutStays
<1>6. CASE PickRefuses(t)
  <2>1. UNCHANGED dag
    BY <1>6 DEF PickRefuses
  <2>2. /\ leader' \in Checkout /\ leader'.head = leader.head
        /\ leader'.onto \in {leader.onto, leader.head}
    BY <1>2, <1>6 DEF PickRefuses, Checkout
  <2> QED
    BY <1>1, <1>2, <2>1, <2>2, CheckoutStays
<1>7. ASSUME cmd[t].arg = "cherry-pick",
             NEW part \in SUBSET Revs(t, cmd[t].commit),
             NEW tree \in {"clean", "dirty", "merge", "cherry-pick"},
             NEW onto \in {leader.onto, leader.head},
             NEW safe \in {leader.head, leader.safe, Picked(part)},
             Pick(t, part, tree, onto, safe)
      PROVE  /\ CheckoutMoves /\ leader'.onto = onto
             /\ \/ UNCHANGED dag /\ leader'.head = leader.head
                \/ /\ \E diff \in LeaderDiffs :
                        Record(Reach(leader.head), Patches(leader.head) \union part, diff, Leader)
                   /\ leader'.head = Latest + 1
  BY <1>1, <1>2, <1>7, PickMoves
<1>8. CASE CherryPick(t) /\ cmd[t].arg = "cherry-pick"
  <2>1. Pick(t, Revs(t, cmd[t].commit), leader.tree, leader.onto, Picked(Revs(t, cmd[t].commit)))
    BY <1>8 DEF CherryPick
  <2> QED
    BY <1>1, <1>3, <1>7, <1>8, <2>1
<1>9. \A part \in Prefixes(t) : part \in SUBSET Revs(t, cmd[t].commit)
  BY DEF Prefixes
<1>10. CASE PickStops(t) /\ cmd[t].arg = "cherry-pick"
  <2>1. PICK part \in Prefixes(t) : Pick(t, part, Unfinished(t), Sequence(t), Picked(part))
    BY <1>10 DEF PickStops
  <2> QED
    BY <1>1, <1>3, <1>7, <1>9, <1>10, <2>1
<1>11. CASE PickKilled(t) /\ cmd[t].arg = "cherry-pick"
  <2>1. PICK part \in Prefixes(t), tree \in {leader.tree, Unfinished(t)} :
          \E safe \in {leader.head, leader.safe, Picked(part)} :
            Pick(t, part, tree, Sequence(t), safe)
    BY <1>11 DEF PickKilled
  <2>2. PICK safe \in {leader.head, leader.safe, Picked(part)} :
          Pick(t, part, tree, Sequence(t), safe)
    BY <2>1
  <2> QED
    BY <1>1, <1>3, <1>7, <1>9, <1>11, <2>2
<1> QED
  BY <1>4, <1>5, <1>6, <1>8, <1>10, <1>11
     DEF Integrates, IntegrateApply, IntegrateFail, IntegrateTimeout, MergeFails

\* The abort of a failed integration leaves HEAD, or takes it back to where a
\* sequence of picks began.
LEMMA Abort ==
  ASSUME IndInv, NEW t \in Tasks, IntegrateAbort(t)
  PROVE  /\ cmd[t].pc = "abort" /\ UNCHANGED dag /\ CheckoutMoves
         /\ leader'.onto \in {NoCommit, leader.onto}
         /\ \/ leader'.head = leader.head
            \/ /\ cmd[t].arg = "cherry-pick" /\ leader.onto # NoCommit
               /\ leader'.head = leader.onto
<1>1. /\ leader \in Checkout /\ leader.head # NoCommit /\ NoCommit \in CommitIds
      /\ leader.onto \in CommitIds /\ cmd[t].pc = "abort" /\ UNCHANGED dag
  BY Fields DEF IndInv, TypeOK, HeadInv, IntegrateAbort
<1>2. CASE AbortMerge
  <2>1. leader' \in Checkout /\ leader'.head = leader.head /\ leader'.onto = leader.onto
    BY <1>1, <1>2 DEF AbortMerge, Checkout
  <2> QED
    BY <1>1, <2>1, CheckoutStays
<1>3. CASE AbortPick /\ cmd[t].arg = "cherry-pick"
  <2>1. /\ leader' \in Checkout /\ leader'.onto \in {NoCommit, leader.onto}
        /\ \/ leader'.head = leader.head
           \/ leader.onto # NoCommit /\ leader'.head = leader.onto
    BY <1>1, <1>3 DEF AbortPick, Checkout
  <2> QED
    BY <1>1, <1>3, <2>1, CheckoutStays
<1> QED
  BY <1>2, <1>3 DEF IntegrateAbort

\* "integrate" saves the head it has checked, whatever Git does in between.
LEMMA IntegrateKeeps ==
  ASSUME IndInv, NEW t \in Tasks,
         \/ IntegrateCheck(t) \/ IntegrateApply(t) \/ IntegrateFail(t)
         \/ IntegrateTimeout(t) \/ IntegrateAbort(t) \/ IntegrateSave(t)
  PROVE  IndInv'
<1> USE DEF IndInv
<1>1. CASE IntegrateCheck(t)
  <2>1. cmd' \in [Tasks -> Command] /\ CommandInv'
    BY <1>1, Fields
       DEF IntegrateCheck, Continue, TypeOK, Command, CommandInv, Integrating
  <2> QED
    BY <1>1, <2>1, CommandMoves, RepositoryStays DEF IntegrateCheck, TypeOK
<1>2. CASE Integrates(t)
  <2>1. cmd[t].pc = "apply" /\ CheckoutMoves
    BY <1>2, Integration
  <2>2. UNCHANGED <<tip, ws, manifest, contract>> /\ events' \in Nat
    BY <1>2
       DEF Integrates, IntegrateApply, IntegrateFail, IntegrateTimeout, MergeFails,
           PickRefuses, PickStops, Disturb, Calm, TypeOK
  <2>3. cmd' \in [Tasks -> Command] /\ CommandInv'
    <3>1. CASE Finish(t)
      BY <2>2, <3>1, CommandStops
    <3>2. CASE \E pc \in {"record", "abort"} : Continue(t, pc, cmd[t].commit, cmd[t].arg)
      BY <2>1, <2>2, <3>2, Fields DEF Continue, TypeOK, Command, CommandInv, Integrating
    <3> QED
      BY <1>2, <3>1, <3>2 DEF Integrates, IntegrateApply, IntegrateFail, IntegrateTimeout
  <2> QED
    BY <2>1, <2>2, <2>3, CommandMoves DEF TypeOK
<1>4. CASE IntegrateAbort(t)
  <2>1. cmd' \in [Tasks -> Command] /\ CommandInv'
    BY <1>4, CommandStops DEF IntegrateAbort
  <2> QED
    BY <1>4, <2>1, CommandMoves, Abort DEF IntegrateAbort, TypeOK
<1>5. CASE IntegrateSave(t)
  <2> DEFINE m == [manifest[t] EXCEPT !.state = "INTEGRATED",
                                      !.integrated_head = cmd[t].commit,
                                      !.leader_head_after = leader.head]
  <2>1. /\ manifest[t].state = "ACCEPTED" /\ cmd[t].commit = manifest[t].receipt
        /\ SaveManifest(t, m) /\ Finish(t)
        /\ UNCHANGED <<dag, leader, tip, ws, contract, events>>
    BY <1>5 DEF IntegrateSave, CommandInv, Integrating
  <2>2. m \in Manifest
    BY Fields DEF Manifest, STATES
  <2>3. /\ m.state = "INTEGRATED" /\ m.integrated_head = cmd[t].commit
        /\ m.decision = manifest[t].decision /\ m.checks_pass = manifest[t].checks_pass
        /\ m.receipt = manifest[t].receipt /\ m.review_head = manifest[t].review_head
        /\ m.base_commit = manifest[t].base_commit
    BY Fields DEF Manifest
  <2> HIDE DEF m
  <2>4. cmd' \in [Tasks -> Command]
    BY <2>1, Fields DEF Finish, Idle, TypeOK, Command
  <2>5. TypeOK' /\ DagInv'
    BY <2>1, <2>2, <2>4, Saved, NoCommitMade DEF TypeOK
  <2>6. HeadInv' /\ RecordInv' /\ EvidenceBound'
    BY <2>1, <2>2, <2>3, Saved DEF HeadInv, RecordInv, EvidenceBound, Integrated
  <2>7. CommandInv' /\ ManifestBacked'
    BY <2>1, <2>2, <2>3, Saved
       DEF Finish, Idle, TypeOK, CommandInv, Integrating, ManifestBacked, STATES, FINAL_STATES
  <2> QED
    BY <2>5, <2>6, <2>7
<1> QED
  BY <1>1, <1>2, <1>4, <1>5 DEF Integrates

\* "proof" records a verdict only on the head the integration left.
LEMMA RecordProofKeeps ==
  ASSUME IndInv, NEW t \in Tasks, RecordProof(t)
  PROVE  IndInv'
<1> USE DEF IndInv
<1>1. PICK status \in DOMAIN Verdicts :
        SaveManifest(t, [manifest[t] EXCEPT !.state = Verdicts[status],
                                            !.proof_head = leader.head])
  BY DEF RecordProof
<1> DEFINE m == [manifest[t] EXCEPT !.state = Verdicts[status], !.proof_head = leader.head]
<1>2. Verdicts[status] \in {"PROVEN", "FAILED", "UNKNOWN"}
  BY DEF Verdicts
<1>3. /\ manifest[t].state = "INTEGRATED" /\ cmd[t].pc = "idle"
      /\ leader.head = manifest[t].leader_head_after
      /\ SaveManifest(t, m)
      /\ UNCHANGED <<dag, leader, tip, ws, contract, cmd, events>>
  BY <1>1 DEF RecordProof
<1>4. m \in Manifest
  <2>1. Verdicts[status] \in STATES
    BY <1>2 DEF STATES, FINAL_STATES
  <2>2. manifest[t] \in Manifest /\ leader.head \in CommitIds
    BY Fields
  <2> HIDE DEF IndInv
  <2> QED
    BY <2>1, <2>2 DEF Manifest
<1>5. /\ m.state = Verdicts[status] /\ m.proof_head = leader.head
      /\ m.decision = manifest[t].decision /\ m.checks_pass = manifest[t].checks_pass
      /\ m.receipt = manifest[t].receipt /\ m.review_head = manifest[t].review_head
      /\ m.base_commit = manifest[t].base_commit
      /\ m.integrated_head = manifest[t].integrated_head
      /\ m.leader_head_after = manifest[t].leader_head_after
  BY Fields DEF Manifest
<1> HIDE DEF m
<1>6. TypeOK' /\ DagInv'
  BY <1>3, <1>4, Saved, NoCommitMade DEF TypeOK
<1>7. HeadInv' /\ RecordInv' /\ EvidenceBound'
  BY <1>2, <1>3, <1>4, <1>5, Saved DEF HeadInv, RecordInv, EvidenceBound, Integrated
<1>8. CommandInv' /\ ManifestBacked'
  BY <1>2, <1>3, <1>4, <1>5, Saved DEF CommandInv, Integrating, ManifestBacked, STATES, FINAL_STATES
<1> QED
  BY <1>6, <1>7, <1>8

\* "cleanup" removes the worktree of a closed task only.
LEMMA CleanupKeeps ==
  ASSUME IndInv, NEW t \in Tasks, CleanupRemove(t) \/ CleanupSave(t)
  PROVE  IndInv'
<1> USE DEF IndInv
<1>1. CASE CleanupRemove(t)
  <2>1. cmd' \in [Tasks -> Command]
    BY <1>1, Fields DEF CleanupRemove, Continue, TypeOK, Command
  <2>2. NoWorktree \in Worktree
    BY Fields DEF NoWorktree, Worktree
  <2>3. ws' \in [Tasks -> Worktree] /\ ~ ws'[t].present
    BY <1>1, <2>2 DEF CleanupRemove, TypeOK, NoWorktree
  <2>4. TypeOK' /\ DagInv'
    BY <1>1, <2>1, <2>3, NoCommitMade DEF CleanupRemove, TypeOK
  <2>5. HeadInv' /\ RecordInv' /\ EvidenceBound'
    BY <1>1, <2>3 DEF CleanupRemove, HeadInv, RecordInv, EvidenceBound, TypeOK
  <2>6. \A s \in Tasks \ {t} : cmd'[s] = cmd[s] /\ ws'[s] = ws[s]
    BY <1>1 DEF CleanupRemove, Continue, TypeOK
  <2>7. cmd'[t].pc = "cleanup" /\ manifest[t].state \in FINAL_STATES /\ UNCHANGED <<manifest, tip>>
    BY <1>1 DEF CleanupRemove, Continue, TypeOK
  <2>8. CommandInv'
    BY <2>3, <2>6, <2>7 DEF CommandInv, Integrating
  <2>9. ManifestBacked'
    BY <2>6, <2>7 DEF ManifestBacked
  <2> QED
    BY <2>4, <2>5, <2>8, <2>9
<1>2. CASE CleanupSave(t)
  <2>1. PICK deleted \in BOOLEAN :
          /\ tip' = [tip EXCEPT ![t] = IF deleted THEN NoCommit ELSE @]
          /\ SaveManifest(t, [manifest[t] EXCEPT !.cleanup =
                                IF deleted THEN "deleted" ELSE "kept"])
    BY <1>2 DEF CleanupSave, Deletable
  <2> DEFINE m == [manifest[t] EXCEPT !.cleanup = IF deleted THEN "deleted" ELSE "kept"]
  <2>2. /\ manifest[t].state \in FINAL_STATES /\ ~ ws[t].present
        /\ SaveManifest(t, m) /\ Finish(t)
        /\ UNCHANGED <<dag, leader, ws, contract, events>>
    BY <1>2, <2>1 DEF CleanupSave, CommandInv
  <2>3. m \in Manifest
    BY Fields DEF Manifest
  <2>4. /\ m.state = manifest[t].state /\ m.base_commit = manifest[t].base_commit
        /\ m.decision = manifest[t].decision /\ m.checks_pass = manifest[t].checks_pass
        /\ m.receipt = manifest[t].receipt /\ m.review_head = manifest[t].review_head
        /\ m.integrated_head = manifest[t].integrated_head
        /\ m.proof_head = manifest[t].proof_head
        /\ m.leader_head_after = manifest[t].leader_head_after
    BY Fields DEF Manifest
  <2> HIDE DEF m
  <2>5. /\ tip' \in [Tasks -> CommitIds] /\ cmd' \in [Tasks -> Command]
        /\ \A s \in Tasks \ {t} : tip'[s] = tip[s]
    BY <2>1, <2>2, Fields DEF Finish, Idle, TypeOK, Command
  <2>6. TypeOK' /\ DagInv'
    BY <2>2, <2>3, <2>5, Saved, NoCommitMade DEF TypeOK
  <2>7. HeadInv' /\ RecordInv' /\ EvidenceBound'
    BY <2>2, <2>3, <2>4, <2>5, Saved DEF HeadInv, RecordInv, EvidenceBound
  <2>8. CommandInv' /\ ManifestBacked'
    BY <2>2, <2>3, <2>4, <2>5, Saved
       DEF Finish, Idle, TypeOK, CommandInv, Integrating, ManifestBacked
  <2> QED
    BY <2>6, <2>7, <2>8
<1> QED
  BY <1>1, <1>2

-------------------------------------------------------------------------------
(* Workers, the leader's user, crashes *)

\* A worker changes its worktree and its branch, and removes neither.
LEMMA WorkerKeeps ==
  ASSUME IndInv, NEW t \in Tasks, Worker(t)
  PROVE  /\ IndInv'
         /\ \A s \in Tasks :
              /\ ws'[s].present = ws[s].present
              /\ tip[s] # NoCommit => tip'[s] # NoCommit
<1> USE DEF IndInv
<1>1. ws[t].present /\ ws[t].head # NoCommit /\ tip[t] # NoCommit
  BY DEF Worker, WorkerCommit, WorkerReset, WorkerEdit, WorkerSwitch, WorkerFree, HeadInv
<1>2. CASE WorkerCommit(t)
  <2>1. PICK diff \in Diffs : Record(Reach(ws[t].head), Patches(ws[t].head), diff, t)
    BY <1>2 DEF WorkerCommit
  <2>2. dag' \in Seq(Commit) /\ Latest \in Nat /\ Latest' = Latest + 1 /\ DagInv'
    BY <1>1, <2>1, Fields, HistoryIsCommits, RecordGrows
  <2>3. Latest + 1 \in CommitIds' /\ Latest + 1 # NoCommit /\ CommitIds \subseteq CommitIds'
    BY <2>2, TypesGrow DEF CommitIds, NoCommit
  <2> DEFINE w == [ws[t] EXCEPT !.head = Latest + 1, !.clean = TRUE]
  <2>4. w \in Worktree' /\ w.present = ws[t].present /\ w.head = Latest + 1
    BY <2>3, Fields DEF Worktree
  <2>5. ws' = [ws EXCEPT ![t] = w]
    BY <1>2 DEF WorkerCommit
  <2> HIDE DEF w
  <2>6. ws' \in [Tasks -> Worktree']
    BY <2>2, <2>4, <2>5, TypesGrow DEF TypeOK
  <2>7. tip' \in [Tasks -> CommitIds']
    BY <1>2, <2>3 DEF WorkerCommit, TypeOK
  <2>8. leader' \in Checkout' /\ leader'.head # NoCommit
    BY <1>2, <2>2, TypesGrow DEF WorkerCommit, TypeOK, HeadInv
  <2>9. \A s \in Tasks :
          /\ ws'[s].present = ws[s].present
          /\ tip[s] # NoCommit => tip'[s] # NoCommit
          /\ ws'[s].present => ws'[s].head # NoCommit
    BY <1>2, <2>3, <2>4, <2>5 DEF WorkerCommit, TypeOK, HeadInv
  <2> QED
    BY <1>2, <2>2, <2>6, <2>7, <2>8, <2>9, GitMoves DEF WorkerCommit, TypeOK
<1>3. CASE WorkerReset(t)
  <2>1. PICK c \in {k \in 1 .. Latest : dag[k].author = t} \union {manifest[t].base_commit} :
          /\ ws' = [ws EXCEPT ![t] = [@ EXCEPT !.head = c, !.clean = TRUE]]
          /\ tip' = [tip EXCEPT ![t] = c]
    BY <1>3 DEF WorkerReset
  <2>2. c \in CommitIds /\ c # NoCommit
    <3>1. manifest[t].base_commit # NoCommit
      BY <1>3 DEF WorkerReset, RecordInv
    <3>2. 1 .. Latest \subseteq CommitIds \ {NoCommit}
      BY DEF CommitIds, NoCommit
    <3> QED
      BY <2>1, <3>1, <3>2, Fields
  <2> DEFINE w == [ws[t] EXCEPT !.head = c, !.clean = TRUE]
  <2>3. w \in Worktree /\ w.present = ws[t].present /\ w.head = c
    BY <2>2, Fields DEF Worktree
  <2>4. ws' = [ws EXCEPT ![t] = w]
    BY <2>1
  <2> HIDE DEF w
  <2>5. ws' \in [Tasks -> Worktree] /\ tip' \in [Tasks -> CommitIds]
    BY <2>1, <2>2, <2>3, <2>4 DEF TypeOK
  <2>6. \A s \in Tasks :
          /\ ws'[s].present = ws[s].present
          /\ tip[s] # NoCommit => tip'[s] # NoCommit
          /\ ws'[s].present => ws'[s].head # NoCommit
    BY <2>1, <2>2, <2>3, <2>4 DEF TypeOK, HeadInv
  <2> QED
    BY <1>3, <2>5, <2>6, WorktreeMoves DEF WorkerReset, Disturb, TypeOK
<1>4. CASE WorkerEdit(t) \/ WorkerSwitch(t)
  <2>1. PICK w \in Worktree :
          /\ ws' = [ws EXCEPT ![t] = w]
          /\ w.present = ws[t].present
          /\ w.head # NoCommit
    <3>1. CASE WorkerEdit(t)
      <4> DEFINE w == [ws[t] EXCEPT !.clean = ~ @]
      <4>1. w \in Worktree /\ w.present = ws[t].present /\ w.head = ws[t].head
        BY Fields DEF Worktree
      <4>2. ws' = [ws EXCEPT ![t] = w]
        BY <3>1 DEF WorkerEdit
      <4> QED
        BY <1>1, <4>1, <4>2
    <3>2. CASE WorkerSwitch(t) /\ ws[t].own
      <4> DEFINE w == [ws[t] EXCEPT !.own = FALSE]
      <4>1. w \in Worktree /\ w.present = ws[t].present /\ w.head = ws[t].head
        BY Fields DEF Worktree
      <4>2. ws' = [ws EXCEPT ![t] = w]
        BY <3>2 DEF WorkerSwitch
      <4> QED
        BY <1>1, <4>1, <4>2
    <3>3. CASE WorkerSwitch(t) /\ ~ ws[t].own
      <4> DEFINE w == [ws[t] EXCEPT !.own = TRUE, !.head = tip[t]]
      <4>1. w \in Worktree /\ w.present = ws[t].present /\ w.head = tip[t]
        BY Fields DEF Worktree
      <4>2. ws' = [ws EXCEPT ![t] = w]
        BY <3>3 DEF WorkerSwitch
      <4> QED
        BY <1>1, <4>1, <4>2
    <3> QED
      BY <1>4, <3>1, <3>2, <3>3
  <2>2. ws' \in [Tasks -> Worktree]
    BY <2>1 DEF TypeOK
  <2>3. UNCHANGED <<dag, leader, tip, manifest, contract, cmd>> /\ events' \in Nat
    BY <1>4 DEF WorkerEdit, WorkerSwitch, Disturb, TypeOK
  <2>4. \A s \in Tasks :
          /\ ws'[s].present = ws[s].present
          /\ ws'[s].present => ws'[s].head # NoCommit
    BY <2>1 DEF TypeOK, HeadInv
  <2> QED
    BY <2>2, <2>3, <2>4, WorktreeMoves DEF TypeOK
<1> QED
  BY <1>2, <1>3, <1>4 DEF Worker

\* The leader's user changes the leader's checkout only.
LEMMA UserKeeps == ASSUME IndInv, User PROVE IndInv'
<1> USE DEF IndInv
<1>1. leader.head \in CommitIds /\ leader.head # NoCommit
  BY DEF TypeOK, Checkout, HeadInv
<1>2. CASE LeaderCommit
  <2>1. PICK diff \in LeaderDiffs :
          Record(Reach(leader.head), Patches(leader.head), diff, Leader)
    BY <1>2 DEF LeaderCommit
  <2>2. dag' \in Seq(Commit) /\ Latest \in Nat /\ Latest' = Latest + 1 /\ DagInv'
    BY <1>1, <2>1, HistoryIsCommits, RecordGrows
  <2>3. Latest + 1 \in CommitIds' /\ Latest + 1 # NoCommit
    BY <2>2 DEF CommitIds, NoCommit
  <2>4. leader' \in Checkout' /\ leader'.head # NoCommit
    <3>1. leader \in Checkout'
      BY <2>2, TypesGrow DEF TypeOK
    <3>2. leader' = [leader EXCEPT !.head = Latest + 1, !.tree = "clean"]
      BY <1>2 DEF LeaderCommit
    <3> QED
      BY <2>3, <3>1, <3>2 DEF Checkout
  <2>5. tip' \in [Tasks -> CommitIds'] /\ ws' \in [Tasks -> Worktree']
    BY <1>2, <2>2, TypesGrow DEF LeaderCommit, TypeOK
  <2> QED
    BY <1>2, <2>2, <2>4, <2>5, GitMoves DEF LeaderCommit, TypeOK, HeadInv
<1>3. CASE LeaderReset \/ LeaderEdit \/ LeaderRepair
  <2>1. UNCHANGED <<dag, tip, ws, manifest, contract, cmd>> /\ events' \in Nat
    <3>1. CASE LeaderReset
      BY <3>1 DEF LeaderReset, Disturb, TypeOK
    <3>2. CASE LeaderEdit
      BY <3>2 DEF LeaderEdit, Disturb, TypeOK
    <3>3. CASE LeaderRepair
      BY <3>3 DEF LeaderRepair, TypeOK
    <3> QED
      BY <1>3, <3>1, <3>2, <3>3
  <2>2. leader' \in Checkout /\ leader'.head # NoCommit
    <3>1. CASE LeaderReset
      <4>1. PICK c \in Reach(leader.head) :
              leader' \in Quit([leader EXCEPT !.head = c, !.tree = "clean"])
        BY <3>1 DEF LeaderReset
      <4>2. c \in CommitIds /\ c # NoCommit
        BY <1>1, <4>1, HistoryIsCommits DEF CommitIds, NoCommit
      <4> QED
        <5> DEFINE back == [leader EXCEPT !.head = c, !.tree = "clean"]
        <5>1. leader \in Checkout /\ NoCommit \in CommitIds
          BY DEF TypeOK, NoCommit, CommitIds, Latest
        <5>2. back \in Checkout /\ back.head = c
          BY <4>2, <5>1 DEF Checkout
        <5>3. leader' = back \/ leader' = [back EXCEPT !.onto = NoCommit, !.safe = NoCommit]
          BY <4>1 DEF Quit
        <5> HIDE DEF back, IndInv
        <5> QED
          BY <4>2, <5>1, <5>2, <5>3 DEF Checkout
    <3>2. CASE LeaderEdit
      BY <1>1, <3>2 DEF LeaderEdit, TypeOK, Checkout
    <3>3. CASE LeaderRepair
      <4>1. leader \in Checkout /\ NoCommit \in CommitIds
        BY DEF TypeOK, NoCommit, CommitIds, Latest
      <4> QED
        BY <1>1, <3>3, <4>1 DEF LeaderRepair, Quit, Checkout
    <3> QED
      BY <1>3, <3>1, <3>2, <3>3
  <2>3. Latest' = Latest /\ Latest \in Nat /\ DagInv'
    BY <2>1 DEF TypeOK, Latest, DagInv, Reach, Patches
  <2>4. leader' \in Checkout' /\ tip' \in [Tasks -> CommitIds'] /\ ws' \in [Tasks -> Worktree']
    BY <2>1, <2>2, <2>3, TypesGrow DEF TypeOK
  <2> QED
    BY <2>1, <2>2, <2>3, <2>4, GitMoves DEF TypeOK, HeadInv
<1> QED
  BY <1>2, <1>3 DEF User

\* A command that is killed leaves what it has done so far.
LEMMA CrashKeeps == ASSUME IndInv, NEW t \in Tasks, Crash(t) PROVE IndInv'
<1>1. cmd' \in [Tasks -> Command] /\ CommandInv'
  BY CommandStops DEF Crash
<1> QED
  BY <1>1, CommandMoves, RepositoryStays DEF IndInv, Crash, Disturb, TypeOK

-------------------------------------------------------------------------------
(* The theorems *)

\* The empty repository, without tasks.
LEMMA InitInv == Init => IndInv
<1> SUFFICES ASSUME Init PROVE IndInv
  OBVIOUS
<1> DEFINE root == [reach |-> {1}, patch |-> {1}, diff |-> "none", author |-> Leader]
<1>1. dag = <<root>> /\ root \in Commit
  BY DEF Init, Commit
<1>2. dag \in Seq(Commit) /\ Latest = 1 /\ dag[1].reach = {1} /\ dag[1].patch = {1}
  BY <1>1 DEF Latest
<1>3. CommitIds = {0, 1}
  BY <1>2 DEF CommitIds
<1>4. NoManifest \in Manifest /\ NoWorktree \in Worktree /\ Idle \in Command
  BY <1>3 DEF NoManifest, Manifest, NoWorktree, Worktree, Idle, Command, NoCommit
<1>5. leader \in Checkout
  BY <1>3 DEF Init, Checkout, NoCommit
<1>6. TypeOK
  BY <1>2, <1>3, <1>4, <1>5 DEF Init, TypeOK, NoCommit
<1>7. DagInv
  BY <1>2 DEF DagInv, Reach, Patches
<1>8. HeadInv /\ RecordInv /\ CommandInv
  BY DEF Init, HeadInv, RecordInv, CommandInv, NoManifest, NoWorktree, NoCommit, Idle,
         Integrated, Integrating
<1>9. ManifestBacked /\ EvidenceBound
  BY DEF Init, ManifestBacked, EvidenceBound, NoManifest, STATES, FINAL_STATES, Receivable,
         Integrated
<1> QED
  BY <1>6, <1>7, <1>8, <1>9 DEF IndInv

\* Every step keeps IndInv: one lemma per command and one for what is around it.
LEMMA NextKeeps == ASSUME IndInv, [Next]_vars PROVE IndInv'
<1>1. CASE User
  BY <1>1, UserKeeps
<1>2. ASSUME NEW t \in Tasks, Begin(t) \/ Proceed(t) PROVE IndInv'
  BY <1>2, PrepareKeeps, MarkKeeps, SubmitKeeps, ReviewKeeps, IntegrateKeeps,
     RecordProofKeeps, CleanupKeeps DEF Begin, Proceed
<1>3. ASSUME NEW t \in Tasks, Worker(t) \/ Crash(t) PROVE IndInv'
  BY <1>3, WorkerKeeps, CrashKeeps
<1>4. CASE UNCHANGED vars
  <2>1. UNCHANGED <<dag, leader, tip, ws, manifest, contract, cmd, events>>
    BY <1>4 DEF vars
  <2>2. CommandInv'
    BY <2>1 DEF IndInv, CommandInv
  <2> QED
    BY <2>1, <2>2, CommandMoves, RepositoryStays DEF IndInv, TypeOK
<1> QED
  BY <1>1, <1>2, <1>3, <1>4 DEF Next

\* IndInv is inductive, and so holds of every reachable state.
THEOREM Inductive == Spec => []IndInv
<1>1. IndInv /\ [Next]_vars => IndInv'
  BY NextKeeps
<1> QED
  BY <1>1, InitInv, PTL DEF Spec

\* The variables keep their types: no command writes a manifest field, a HEAD
\* or a branch that is not a state, a decision or a commit of the repository.
THEOREM TypesHold == Spec => []TypeOK
<1>1. IndInv => TypeOK
  BY DEF IndInv
<1> QED
  BY <1>1, Inductive, PTL

\* What is accepted is the head the receipt named, with its checks passed; what
\* is integrated is what was accepted; what is judged is what was integrated.
THEOREM EvidenceIsBound == Spec => []EvidenceBound
<1>1. IndInv => EvidenceBound
  BY DEF IndInv
<1> QED
  BY <1>1, Inductive, PTL

\* A task that is not closed has the worktree and the branch of its manifest,
\* after any crash or failure of any command on it.
THEOREM ManifestsAreBacked == Spec => []ManifestBacked
<1>1. IndInv => ManifestBacked
  BY DEF IndInv
<1> QED
  BY <1>1, Inductive, PTL

\* A step takes neither an open or dirty worktree nor a branch that is not merged.
Spared(t) ==
    /\ ws[t].present /\ ~ ws'[t].present =>
        manifest[t].state \in FINAL_STATES /\ ws[t].clean
    /\ tip[t] # NoCommit /\ tip'[t] = NoCommit => tip[t] \in Reach(leader.head)

LEMMA NextSpares ==
  ASSUME IndInv, [Next]_vars, NEW t \in Tasks
  PROVE  Spared(t)
<1> USE DEF Spared
<1>1. CASE User
  BY <1>1 DEF User, LeaderCommit, LeaderReset, LeaderEdit, LeaderRepair
<1>2. ASSUME NEW s \in Tasks, CleanupRemove(s) PROVE Spared(t)
  BY <1>2 DEF CleanupRemove, TypeOK, IndInv
<1>3. ASSUME NEW s \in Tasks, CleanupSave(s) PROVE Spared(t)
  BY <1>3 DEF CleanupSave, Deletable, TypeOK, IndInv
<1>4. ASSUME NEW s \in Tasks, PrepareWorktree(s) \/ PrepareRefuse(s) PROVE Spared(t)
  BY <1>4 DEF PrepareWorktree, PrepareRefuse, CommandInv, TypeOK, IndInv
<1>5. ASSUME NEW s \in Tasks, UNCHANGED <<ws, tip>> PROVE Spared(t)
  BY <1>5
<1>6. ASSUME NEW s \in Tasks, Begin(s) \/ Proceed(s) \/ Crash(s) PROVE Spared(t)
  <2>1. \/ CleanupRemove(s) \/ CleanupSave(s) \/ PrepareWorktree(s) \/ PrepareRefuse(s)
        \/ UNCHANGED <<ws, tip>>
    BY <1>6
       DEF Begin, Proceed, Crash, PrepareRead, PrepareSave,
           PrepareContract, MarkDispatched, MarkWorking, SubmitRead, SubmitSave,
           SubmitRefuse, ReviewRead, ReviewDecide, IntegrateCheck, IntegrateApply,
           IntegrateFail, IntegrateTimeout, IntegrateAbort, IntegrateSave, RecordProof
  <2> QED
    BY <2>1, <1>2, <1>3, <1>4, <1>5
<1>7. ASSUME NEW s \in Tasks, Worker(s) PROVE Spared(t)
  <2>1. /\ ws'[t].present = ws[t].present
        /\ tip[t] # NoCommit => tip'[t] # NoCommit
    BY <1>7, WorkerKeeps
  <2> QED
    BY <2>1
<1> QED
  BY <1>1, <1>6, <1>7 DEF Next, vars

\* No step of anyone takes a worktree that is open or dirty, or a branch whose
\* commits the leader's history does not have.
THEOREM NothingIsDestroyed == Spec => NothingDestroyed
<1>1. IndInv /\ [Next]_vars => [\A t \in Tasks : Spared(t)]_vars
  BY NextSpares
<1> QED
  BY <1>1, Inductive, PTL DEF Spec, NothingDestroyed, Spared

-------------------------------------------------------------------------------
(* Who writes what *)

\* A step of a task: of a command on it, its worker, or a crash.
StepOf(t) == Begin(t) \/ Proceed(t) \/ Worker(t) \/ Crash(t)

\* Each part of the state is written by a few actions only.
LEMMA Writers ==
  ASSUME TypeOK, NEW t \in Tasks, StepOf(t)
  PROVE  /\ UNCHANGED dag \/ Integrates(t) \/ WorkerCommit(t)
         /\ UNCHANGED leader \/ Integrates(t) \/ IntegrateAbort(t)
         /\ \/ UNCHANGED <<ws, tip>>
            \/ PrepareWorktree(t) \/ PrepareRefuse(t)
            \/ CleanupRemove(t) \/ CleanupSave(t) \/ Worker(t)
         /\ \/ UNCHANGED manifest
            \/ PrepareSave(t) \/ MarkDispatched(t) \/ MarkWorking(t) \/ SubmitSave(t)
            \/ ReviewDecide(t) \/ IntegrateSave(t) \/ RecordProof(t) \/ CleanupSave(t)
         /\ \/ UNCHANGED cmd \/ Finish(t)
            \/ PrepareRead(t) \/ PrepareWorktree(t) \/ PrepareSave(t) \/ SubmitRead(t)
            \/ ReviewRead(t) \/ IntegrateCheck(t) \/ IntegrateApply(t) \/ IntegrateFail(t)
            \/ CleanupRemove(t)
<1> USE DEF StepOf
<1>1. UNCHANGED dag \/ Integrates(t) \/ WorkerCommit(t)
  BY DEF Integrates, Begin, Proceed, Worker, PrepareRead, PrepareWorktree, PrepareRefuse,
         PrepareSave, PrepareContract, MarkDispatched, MarkWorking, SubmitRead,
         SubmitSave, SubmitRefuse, ReviewRead, ReviewDecide, IntegrateCheck,
         IntegrateAbort, IntegrateSave, RecordProof, CleanupRemove, CleanupSave,
         WorkerReset, WorkerEdit, WorkerSwitch, Crash
<1>2. UNCHANGED leader \/ Integrates(t) \/ IntegrateAbort(t)
  BY DEF Integrates, Begin, Proceed, Worker, PrepareRead,
         PrepareWorktree, PrepareRefuse, PrepareSave, PrepareContract,
         MarkDispatched, MarkWorking, SubmitRead, SubmitSave, SubmitRefuse,
         ReviewRead, ReviewDecide, IntegrateCheck,
         IntegrateSave, RecordProof, CleanupRemove, CleanupSave,
         WorkerCommit, WorkerReset, WorkerEdit, WorkerSwitch, Crash
<1>3. \/ UNCHANGED <<ws, tip>>
      \/ PrepareWorktree(t) \/ PrepareRefuse(t)
      \/ CleanupRemove(t) \/ CleanupSave(t) \/ Worker(t)
  BY DEF Begin, Proceed, PrepareRead, PrepareSave, PrepareContract,
         MarkDispatched, MarkWorking, SubmitRead, SubmitSave, SubmitRefuse,
         ReviewRead, ReviewDecide, IntegrateCheck, IntegrateApply, IntegrateFail,
         IntegrateTimeout, IntegrateAbort, IntegrateSave, RecordProof, Crash
<1>4. \/ UNCHANGED manifest
      \/ PrepareSave(t) \/ MarkDispatched(t) \/ MarkWorking(t) \/ SubmitSave(t)
      \/ ReviewDecide(t) \/ IntegrateSave(t) \/ RecordProof(t) \/ CleanupSave(t)
  BY DEF Begin, Proceed, Worker, PrepareRead, PrepareWorktree, PrepareRefuse,
         PrepareContract, SubmitRead, SubmitRefuse, ReviewRead, IntegrateCheck,
         IntegrateApply, IntegrateFail, IntegrateTimeout, IntegrateAbort,
         CleanupRemove, WorkerCommit, WorkerReset, WorkerEdit, WorkerSwitch, Crash
<1>5. \/ UNCHANGED cmd \/ Finish(t)
      \/ PrepareRead(t) \/ PrepareWorktree(t) \/ PrepareSave(t) \/ SubmitRead(t)
      \/ ReviewRead(t) \/ IntegrateCheck(t) \/ IntegrateApply(t) \/ IntegrateFail(t)
      \/ CleanupRemove(t)
  BY DEF Begin, Proceed, Worker, PrepareRefuse, PrepareContract, MarkDispatched,
         MarkWorking, SubmitSave, SubmitRefuse, ReviewDecide, IntegrateTimeout,
         IntegrateAbort, IntegrateSave, RecordProof, CleanupSave, WorkerCommit,
         WorkerReset, WorkerEdit, WorkerSwitch, Crash
<1> QED
  BY <1>1, <1>2, <1>3, <1>4, <1>5

\* What a receipt saves.
LEMMA SubmitWrites ==
  ASSUME IndInv, NEW t \in Tasks, SubmitSave(t)
  PROVE  /\ cmd[t].pc = "receipt" /\ cmd[t].commit # NoCommit
         /\ manifest[t].state \in Receivable /\ manifest'[t].state = "REVIEW_READY"
         /\ manifest'[t].receipt = cmd[t].commit
         /\ manifest'[t].base_commit = manifest[t].base_commit
         /\ manifest'[t].decision = manifest[t].decision
         /\ manifest'[t].review_head = manifest[t].review_head
         /\ manifest'[t].leader_head_after = manifest[t].leader_head_after
         /\ UNCHANGED <<dag, leader>>
<1>1. PICK pass \in BOOLEAN :
        SaveManifest(t, [manifest[t] EXCEPT !.state = "REVIEW_READY",
                                            !.receipt = cmd[t].commit,
                                            !.checks_pass = pass])
  BY DEF SubmitSave
<1>2. /\ cmd[t].pc = "receipt" /\ cmd[t].commit # NoCommit
      /\ manifest[t].state \in Receivable /\ UNCHANGED <<dag, leader>>
  BY DEF SubmitSave, IndInv, CommandInv
<1> QED
  BY <1>1, <1>2 DEF SaveManifest, IndInv, TypeOK, Manifest

\* What a save of other fields leaves as it is.
LEMMA Kept ==
  ASSUME IndInv, NEW t \in Tasks, StepOf(t)
  PROVE  /\ PrepareSave(t) \/ manifest'[t].base_commit = manifest[t].base_commit
         /\ SubmitSave(t) \/ manifest'[t].receipt = manifest[t].receipt
         /\ \/ ReviewDecide(t)
            \/ /\ manifest'[t].decision = manifest[t].decision
               /\ manifest'[t].review_head = manifest[t].review_head
         /\ IntegrateSave(t) \/ manifest'[t].leader_head_after = manifest[t].leader_head_after
<1> USE DEF SaveManifest, TypeOK, Manifest, IndInv
<1>1. CASE UNCHANGED manifest
  BY <1>1
<1>2. CASE PrepareSave(t)
  BY <1>2 DEF PrepareSave
<1>3. CASE MarkDispatched(t) \/ MarkWorking(t)
  BY <1>3 DEF MarkDispatched, MarkWorking
<1>4. CASE SubmitSave(t)
  BY <1>4, SubmitWrites
<1>5. CASE ReviewDecide(t) /\ ~ UNCHANGED manifest
  <2>1. SaveManifest(t, [manifest[t] EXCEPT !.state = Decided[cmd[t].arg],
                                            !.decision = cmd[t].arg,
                                            !.review_head = cmd[t].commit])
    BY <1>5 DEF ReviewDecide
  <2> QED
    BY <1>5, <2>1
<1>6. CASE IntegrateSave(t)
  BY <1>6 DEF IntegrateSave
<1>7. CASE RecordProof(t)
  BY <1>7 DEF RecordProof
<1>8. CASE CleanupSave(t)
  BY <1>8 DEF CleanupSave
<1> QED
  BY <1>1, <1>2, <1>3, <1>4, <1>5, <1>6, <1>7, <1>8, Writers

\* Where the state of a task moves, and what is recorded on the way.
LEMMA Moved ==
  ASSUME IndInv, NEW t \in Tasks, StepOf(t)
  PROVE  \/ manifest'[t].state = manifest[t].state
         \/ /\ PrepareSave(t)
            /\ manifest[t].state = "absent" /\ manifest'[t].state = "READY"
            /\ manifest'[t].base_commit = cmd[t].commit
         \/ /\ manifest[t].state \in {"READY", "REWORK"}
            /\ manifest'[t].state = "DISPATCHED"
         \/ /\ manifest[t].state \in {"DISPATCHED", "REWORK"}
            /\ manifest'[t].state = "WORKING"
         \/ /\ SubmitSave(t)
            /\ manifest[t].state \in Receivable /\ manifest'[t].state = "REVIEW_READY"
            /\ manifest'[t].receipt = cmd[t].commit
         \/ /\ ReviewDecide(t)
            /\ manifest[t].state = "REVIEW_READY" /\ cmd[t].arg \in DOMAIN Decided
            /\ manifest'[t].state = Decided[cmd[t].arg]
            /\ manifest'[t].decision = cmd[t].arg
            /\ manifest'[t].review_head = cmd[t].commit
            /\ cmd[t].arg = "accept" => GatesPass(t)
         \/ /\ IntegrateSave(t)
            /\ manifest[t].state = "ACCEPTED" /\ manifest'[t].state = "INTEGRATED"
            /\ manifest'[t].leader_head_after = leader.head
         \/ /\ RecordProof(t)
            /\ manifest[t].state = "INTEGRATED"
            /\ manifest'[t].state \in {"PROVEN", "FAILED", "UNKNOWN"}
<1> USE DEF SaveManifest, TypeOK, Manifest, IndInv
<1>1. CASE UNCHANGED manifest
  BY <1>1
<1>2. CASE PrepareSave(t)
  BY <1>2 DEF PrepareSave, CommandInv
<1>3. CASE MarkDispatched(t) \/ MarkWorking(t)
  BY <1>3 DEF MarkDispatched, MarkWorking
<1>4. CASE SubmitSave(t)
  BY <1>4, SubmitWrites
<1>5. CASE ReviewDecide(t)
  <2>1. manifest[t].state = "REVIEW_READY" /\ cmd[t].arg \in DOMAIN Decided
    BY <1>5 DEF ReviewDecide, CommandInv
  <2> QED
    BY <1>5, <2>1 DEF ReviewDecide
<1>6. CASE IntegrateSave(t)
  BY <1>6 DEF IntegrateSave, CommandInv, Integrating
<1>7. CASE RecordProof(t)
  <2>1. PICK status \in DOMAIN Verdicts :
          SaveManifest(t, [manifest[t] EXCEPT !.state = Verdicts[status],
                                              !.proof_head = leader.head])
    BY <1>7 DEF RecordProof
  <2>2. Verdicts[status] \in {"PROVEN", "FAILED", "UNKNOWN"}
    BY DEF Verdicts
  <2> QED
    BY <1>7, <2>1, <2>2 DEF RecordProof
<1>8. CASE CleanupSave(t)
  BY <1>8 DEF CleanupSave
<1> QED
  BY <1>1, <1>2, <1>3, <1>4, <1>5, <1>6, <1>7, <1>8, Writers

\* A command that goes on, and with what.
LEMMA Commanded ==
  ASSUME TypeOK, NEW t \in Tasks, StepOf(t)
  PROVE  \/ cmd'[t] = cmd[t]
         \/ cmd'[t].pc = "idle" /\ cmd'[t].commit = NoCommit
         \/ /\ PrepareRead(t) /\ cmd'[t].pc = "worktree"
            /\ cmd'[t].commit \in 1 .. Latest /\ dag[cmd'[t].commit].author = Leader
         \/ /\ PrepareWorktree(t) /\ cmd[t].pc = "worktree"
            /\ cmd'[t].pc = "manifest" /\ cmd'[t].commit = cmd[t].commit
         \/ PrepareSave(t) /\ cmd'[t].pc = "contract" /\ cmd'[t].commit = NoCommit
         \/ SubmitRead(t) /\ cmd'[t].pc = "receipt" /\ cmd'[t].commit = ws[t].head
         \/ ReviewRead(t) /\ cmd'[t].pc = "review" /\ cmd'[t].commit = ws[t].head
         \/ IntegrateCheck(t) /\ cmd'[t].pc = "apply" /\ cmd'[t].commit = manifest[t].receipt
         \/ IntegrateApply(t) /\ cmd'[t].pc = "record" /\ cmd'[t].commit = cmd[t].commit
         \/ IntegrateFail(t) /\ cmd'[t].pc = "abort" /\ cmd'[t].commit = cmd[t].commit
         \/ CleanupRemove(t) /\ cmd'[t].pc = "cleanup" /\ cmd'[t].commit = NoCommit
<1> USE DEF Continue, TypeOK
<1>1. CASE UNCHANGED cmd
  BY <1>1
<1>2. CASE Finish(t)
  BY <1>2 DEF Finish, Idle
<1>3. CASE PrepareRead(t) \/ PrepareWorktree(t) \/ PrepareSave(t)
  BY <1>3 DEF PrepareRead, PrepareWorktree, PrepareSave
<1>4. CASE SubmitRead(t) \/ ReviewRead(t)
  BY <1>4 DEF SubmitRead, ReviewRead
<1>5. CASE IntegrateCheck(t) \/ IntegrateApply(t) \/ IntegrateFail(t)
  BY <1>5 DEF IntegrateCheck, IntegrateApply, IntegrateFail
<1>6. CASE CleanupRemove(t)
  BY <1>6 DEF CleanupRemove
<1> QED
  BY <1>1, <1>2, <1>3, <1>4, <1>5, <1>6, Writers

\* The other tasks stay as they are.
LEMMA OthersStay ==
  ASSUME TypeOK, NEW t \in Tasks, StepOf(t), NEW s \in Tasks, s # t
  PROVE  /\ manifest'[s] = manifest[s] /\ cmd'[s] = cmd[s]
         /\ ws'[s] = ws[s] /\ tip'[s] = tip[s]
<1>1. manifest'[s] = manifest[s]
  <2>1. UNCHANGED manifest \/ \E m : SaveManifest(t, m)
    BY Writers, Zenon
       DEF PrepareSave, MarkDispatched, MarkWorking, SubmitSave, ReviewDecide,
           IntegrateSave, RecordProof, CleanupSave
  <2> QED
    BY <2>1 DEF SaveManifest, TypeOK
<1>2. cmd'[s] = cmd[s]
  BY Writers
     DEF Finish, PrepareRead, PrepareWorktree, PrepareSave, SubmitRead, ReviewRead,
         IntegrateCheck, IntegrateApply, IntegrateFail, CleanupRemove, Continue, TypeOK
<1>3. ws'[s] = ws[s] /\ tip'[s] = tip[s]
  BY Writers
     DEF PrepareWorktree, PrepareRefuse, CleanupRemove, CleanupSave, Worker, WorkerCommit,
         WorkerReset, WorkerEdit, WorkerSwitch, TypeOK
<1> QED
  BY <1>1, <1>2, <1>3


-------------------------------------------------------------------------------
(* Commits that are made *)

\* The commit new is made on top of p and q, with the changes extra besides.
Adds(new, p, q, extra, author) ==
    /\ Latest \in Nat /\ new = Latest + 1 /\ Latest' = new /\ new <= MaxCommits
    /\ p \in 1 .. Latest /\ q \in 1 .. Latest /\ extra \in SUBSET (1 .. Latest)
    /\ \A c \in 1 .. Latest : dag'[c] = dag[c]
    /\ dag'[new].reach = Reach(p) \union Reach(q) \union {new}
    /\ dag'[new].patch = Patches(p) \union Patches(q) \union extra \union {new}
    /\ dag'[new].author = author

\* Record makes such a commit.
LEMMA RecordAdds ==
  ASSUME IndInv, NEW p \in 1 .. Latest, NEW q \in 1 .. Latest,
         NEW extra \in SUBSET (1 .. Latest),
         NEW diff \in Diffs \union LeaderDiffs \union {"none"}, NEW author \in Tasks \union {Leader},
         Record(Reach(p) \union Reach(q), Patches(p) \union Patches(q) \union extra,
                diff, author)
  PROVE  Adds(Latest + 1, p, q, extra, author) /\ Latest + 1 \in Nat \ {0}
<1> DEFINE new == [reach |-> Reach(p) \union Reach(q) \union {Latest + 1},
                   patch |-> Patches(p) \union Patches(q) \union extra \union {Latest + 1},
                   diff |-> diff, author |-> author]
<1>1. dag \in Seq(Commit) /\ Latest \in Nat /\ MaxCommits \in Nat
  BY OvpRuntimeAssumption DEF IndInv, TypeOK, Commit, Latest
<1>2. Reach(p) \in SUBSET (1 .. Latest) /\ Reach(q) \in SUBSET (1 .. Latest)
        /\ Patches(p) \in SUBSET (1 .. Latest) /\ Patches(q) \in SUBSET (1 .. Latest)
  <2>1. p \in CommitIds /\ p # NoCommit /\ q \in CommitIds /\ q # NoCommit
    BY <1>1 DEF CommitIds, NoCommit
  <2> QED
    BY <2>1, HistoryIsCommits
<1>3. new \in Commit
  <2>1. new.reach \in SUBSET Nat
    BY <1>1, <1>2
  <2>2. new.patch \in SUBSET Nat
    <3>1. /\ Patches(p) \subseteq Nat /\ Patches(q) \subseteq Nat
          /\ extra \subseteq Nat /\ {Latest + 1} \subseteq Nat
      BY <1>1, <1>2
    <3> QED
      BY <3>1
  <2> QED
    BY <2>1, <2>2 DEF Commit
<1>4. dag' = Append(dag, new) /\ Latest < MaxCommits
  BY DEF Record
<1>5. Latest' = Latest + 1 /\ dag'[Latest + 1] = new
        /\ \A c \in 1 .. Latest : dag'[c] = dag[c]
  BY <1>1, <1>3, <1>4 DEF Latest
<1>6. /\ dag'[Latest + 1].reach = Reach(p) \union Reach(q) \union {Latest + 1}
      /\ dag'[Latest + 1].patch
           = Patches(p) \union Patches(q) \union extra \union {Latest + 1}
      /\ dag'[Latest + 1].author = author
  BY <1>5
<1>7. Latest + 1 <= MaxCommits /\ Latest + 1 \in Nat \ {0}
  BY <1>1, <1>4
<1> HIDE DEF new
<1> QED
  BY <1>1, <1>5, <1>6, <1>7 DEF Adds

\* The heads from which commits are made.
LEMMA Heads ==
  ASSUME IndInv
  PROVE  /\ leader.head \in 1 .. Latest
         /\ \A t \in Tasks :
              ws[t].present => ws[t].head \in 1 .. Latest /\ tip[t] \in 1 .. Latest
<1>1. Latest \in Nat /\ leader.head \in 0 .. Latest /\ leader.head # 0
  BY Fields DEF IndInv, TypeOK, Checkout, HeadInv, CommitIds, NoCommit, Latest
<1>2. \A t \in Tasks : tip[t] \in 0 .. Latest /\ ws[t].head \in 0 .. Latest
  BY Fields DEF IndInv, CommitIds
<1> QED
  BY <1>1, <1>2 DEF IndInv, HeadInv, NoCommit

\* The leader's user commits on top of his HEAD.
LEMMA LeaderCommitAdds ==
  ASSUME IndInv, LeaderCommit
  PROVE  /\ Adds(Latest + 1, leader.head, leader.head, {}, Leader)
         /\ leader'.head = Latest + 1
<1>0. PICK diff \in LeaderDiffs :
        Record(Reach(leader.head), Patches(leader.head), diff, Leader)
  BY DEF LeaderCommit
<1>1. Record(Reach(leader.head) \union Reach(leader.head),
             Patches(leader.head) \union Patches(leader.head) \union {}, diff, Leader)
  <2>1. Reach(leader.head) \union Reach(leader.head) = Reach(leader.head)
        /\ Patches(leader.head) \union Patches(leader.head) \union {} = Patches(leader.head)
    OBVIOUS
  <2> QED
    BY <1>0, <2>1, Zenon
<1>2. leader'.head = Latest + 1
  BY DEF LeaderCommit, IndInv, TypeOK, Checkout
<1> QED
  BY <1>1, <1>2, RecordAdds, Heads

\* A worker commits on top of the HEAD of its worktree.
LEMMA WorkerCommitAdds ==
  ASSUME IndInv, NEW t \in Tasks, WorkerCommit(t)
  PROVE  /\ Adds(Latest + 1, ws[t].head, ws[t].head, {}, t)
         /\ ws[t].present /\ ws'[t].present /\ ws'[t].head = Latest + 1
         /\ tip'[t] \in {tip[t], Latest + 1}
<1>1. PICK diff \in Diffs : Record(Reach(ws[t].head), Patches(ws[t].head), diff, t)
  BY DEF WorkerCommit
<1>2. Record(Reach(ws[t].head) \union Reach(ws[t].head),
             Patches(ws[t].head) \union Patches(ws[t].head) \union {}, diff, t)
  <2>1. Reach(ws[t].head) \union Reach(ws[t].head) = Reach(ws[t].head)
        /\ Patches(ws[t].head) \union Patches(ws[t].head) \union {} = Patches(ws[t].head)
    OBVIOUS
  <2> QED
    BY <2>1, <1>1, Zenon
<1>3. ws[t].present
  BY DEF WorkerCommit, WorkerFree
<1>4. ws'[t].present /\ ws'[t].head = Latest + 1 /\ tip'[t] \in {tip[t], Latest + 1}
  BY <1>3 DEF WorkerCommit, IndInv, TypeOK, Worktree
<1> QED
  BY <1>2, <1>3, <1>4, RecordAdds, Heads

\* What an integration finds, and does to the leader's project.
LEMMA IntegrationAdds ==
  ASSUME IndInv, NEW t \in Tasks, Integrates(t)
  PROVE  /\ cmd[t].pc = "apply" /\ manifest[t].state = "ACCEPTED" /\ ws[t].present
         /\ cmd[t].commit = manifest[t].receipt /\ manifest[t].receipt \in 1 .. Latest
         /\ manifest[t].base_commit \in 1 .. Latest
         /\ leader'.onto \in {NoCommit, leader.onto, leader.head}
         /\ \/ UNCHANGED dag /\ leader'.head = leader.head
            \/ /\ cmd[t].arg = "merge"
               /\ Adds(Latest + 1, leader.head, tip[t], {}, Leader)
               /\ leader'.head = Latest + 1
            \/ /\ cmd[t].arg = "cherry-pick"
               /\ \E part \in SUBSET Revs(t, manifest[t].receipt) :
                    Adds(Latest + 1, leader.head, leader.head, part, Leader)
               /\ leader'.head = Latest + 1
<1>1. /\ cmd[t].pc = "apply" /\ manifest[t].state = "ACCEPTED"
      /\ cmd[t].commit = manifest[t].receipt
      /\ Revs(t, manifest[t].receipt) \in SUBSET (1 .. Latest)
  BY Integration, Brought
<1>2. /\ manifest[t].receipt \in 1 .. Latest /\ manifest[t].base_commit \in 1 .. Latest
      /\ ws[t].present
  <2>1. Latest \in Nat
    BY DEF IndInv, TypeOK, Latest
  <2>2. manifest[t].receipt # NoCommit /\ manifest[t].base_commit # NoCommit
    BY <1>1 DEF IndInv, RecordInv
  <2>3. ws[t].present
    BY <1>1 DEF IndInv, ManifestBacked, STATES, FINAL_STATES
  <2> QED
    BY <2>1, <2>2, <2>3, Fields DEF IndInv, CommitIds, NoCommit
<1>3. leader.head \in 1 .. Latest /\ tip[t] \in 1 .. Latest
  BY <1>2, Heads
<1>4. ASSUME NEW diff \in LeaderDiffs,
             Record(Reach(leader.head) \union Reach(tip[t]),
                    Patches(leader.head) \union Patches(tip[t]), diff, Leader)
      PROVE  Adds(Latest + 1, leader.head, tip[t], {}, Leader)
  <2>1. Patches(leader.head) \union Patches(tip[t]) \union {}
          = Patches(leader.head) \union Patches(tip[t])
    OBVIOUS
  <2>2. Record(Reach(leader.head) \union Reach(tip[t]),
               Patches(leader.head) \union Patches(tip[t]) \union {}, diff, Leader)
    BY <1>4, <2>1, Zenon
  <2> QED
    BY <1>3, <2>2, RecordAdds
<1>5. ASSUME NEW part \in SUBSET Revs(t, manifest[t].receipt), NEW diff \in LeaderDiffs,
             Record(Reach(leader.head), Patches(leader.head) \union part, diff, Leader)
      PROVE  Adds(Latest + 1, leader.head, leader.head, part, Leader)
  <2>1. Reach(leader.head) \union Reach(leader.head) = Reach(leader.head)
        /\ Patches(leader.head) \union Patches(leader.head) = Patches(leader.head)
    OBVIOUS
  <2>2. Record(Reach(leader.head) \union Reach(leader.head),
               Patches(leader.head) \union Patches(leader.head) \union part, diff, Leader)
    BY <1>5, <2>1, Zenon
  <2>3. part \in SUBSET (1 .. Latest)
    BY <1>1
  <2> QED
    BY <1>3, <2>2, <2>3, RecordAdds
<1>6. \/ UNCHANGED dag /\ leader'.head = leader.head
      \/ /\ cmd[t].arg = "merge"
         /\ Adds(Latest + 1, leader.head, tip[t], {}, Leader)
         /\ leader'.head = Latest + 1
      \/ /\ cmd[t].arg = "cherry-pick"
         /\ \E part \in SUBSET Revs(t, manifest[t].receipt) :
              Adds(Latest + 1, leader.head, leader.head, part, Leader)
         /\ leader'.head = Latest + 1
  BY <1>1, <1>4, <1>5, Integration
<1> QED
  BY <1>1, <1>2, <1>6, Integration

\* ... when Git has succeeded: all of the branch or of the task's commits is there.
LEMMA ApplyAdds ==
  ASSUME IndInv, NEW t \in Tasks, IntegrateApply(t)
  PROVE  \/ /\ cmd[t].arg = "merge" /\ tip[t] \in Reach(leader.head)
            /\ UNCHANGED <<dag, leader>>
         \/ /\ cmd[t].arg = "merge" /\ leader'.head = Latest + 1
            /\ dag'[Latest + 1].patch
                 = Patches(leader.head) \union Patches(tip[t]) \union {Latest + 1}
         \/ /\ cmd[t].arg = "cherry-pick" /\ Revs(t, manifest[t].receipt) = {}
         \/ /\ cmd[t].arg = "cherry-pick" /\ leader'.head = Latest + 1
            /\ dag'[Latest + 1].patch
                 = Patches(leader.head) \union Revs(t, manifest[t].receipt)
                     \union {Latest + 1}
<1> DEFINE revs == Revs(t, manifest[t].receipt)
<1>1. /\ leader \in Checkout /\ Latest \in Nat /\ dag \in Seq(Commit)
      /\ cmd[t].commit = manifest[t].receipt
  <2>1. cmd[t].commit = manifest[t].receipt
    BY IntegrationAdds DEF Integrates
  <2> QED
    BY <2>1 DEF IndInv, TypeOK, Latest
<1>2. ASSUME NEW reach, NEW patch, NEW diff, Record(reach, patch, diff, Leader)
      PROVE  dag'[Latest + 1].patch = patch \union {Latest + 1}
  BY <1>1, <1>2 DEF Record, Latest
<1>3. CASE cmd[t].arg = "merge" /\ MergeBranch(t) /\ tip[t] \notin Reach(leader.head)
  BY <1>1, <1>2, <1>3 DEF MergeBranch, AdvanceLeader, Checkout
<1>4. CASE cmd[t].arg = "cherry-pick" /\ CherryPick(t) /\ revs # {}
  <2>1. Pick(t, revs, leader.tree, leader.onto, Picked(revs))
    BY <1>1, <1>4 DEF CherryPick
  <2>2. PICK diff \in LeaderDiffs :
          Record(Reach(leader.head), Patches(leader.head) \union revs, diff, Leader)
    BY <1>4, <2>1 DEF Pick
  <2>3. leader'.head = Latest + 1
    BY <1>1, <1>4, <2>1 DEF Pick, Picked, Checkout
  <2>4. dag'[Latest + 1].patch = Patches(leader.head) \union revs \union {Latest + 1}
    BY <1>2, <2>2
  <2> QED
    BY <1>4, <2>3, <2>4
<1> QED
  BY <1>3, <1>4 DEF IntegrateApply, MergeBranch

\* The commits of the repository stay, and at most one is added.
LEMMA Grows ==
  ASSUME IndInv, Next
  PROVE  /\ Latest \in Nat
         /\ UNCHANGED dag \/ \E p, q \in 1 .. Latest, extra \in SUBSET (1 .. Latest),
                                author \in Tasks \union {Leader} :
                                Adds(Latest + 1, p, q, extra, author)
         /\ Latest' \in {Latest, Latest + 1}
         /\ \A c \in 1 .. Latest : dag'[c] = dag[c]
<1>1. Latest \in Nat
  BY DEF IndInv, TypeOK, Latest
<1>2. UNCHANGED dag \/ \E p, q \in 1 .. Latest, extra \in SUBSET (1 .. Latest),
                           author \in Tasks \union {Leader} :
                           Adds(Latest + 1, p, q, extra, author)
  <2>1. CASE User
    <3>1. CASE LeaderCommit
      <4>1. Adds(Latest + 1, leader.head, leader.head, {}, Leader)
        BY <3>1, LeaderCommitAdds
      <4> QED
        BY <4>1 DEF Adds
    <3>2. CASE ~ LeaderCommit
      BY <2>1, <3>2 DEF User, LeaderReset, LeaderEdit, LeaderRepair
    <3> QED
      BY <3>1, <3>2
  <2>2. ASSUME NEW t \in Tasks, StepOf(t), ~ UNCHANGED dag
        PROVE  \E p, q \in 1 .. Latest, extra \in SUBSET (1 .. Latest),
                 author \in Tasks \union {Leader} : Adds(Latest + 1, p, q, extra, author)
    <3>1. CASE WorkerCommit(t)
      <4>1. Adds(Latest + 1, ws[t].head, ws[t].head, {}, t)
        BY <3>1, WorkerCommitAdds
      <4> QED
        BY <4>1 DEF Adds
    <3>2. CASE Integrates(t)
      <4>1. \/ Adds(Latest + 1, leader.head, tip[t], {}, Leader)
            \/ \E part \in SUBSET Revs(t, manifest[t].receipt) :
                    Adds(Latest + 1, leader.head, leader.head, part, Leader)
        BY <2>2, <3>2, IntegrationAdds
      <4> QED
        BY <4>1 DEF Adds
    <3> QED
      BY <2>2, <3>1, <3>2, Writers DEF IndInv
  <2> QED
    BY <2>1, <2>2 DEF Next, StepOf
<1>3. CASE UNCHANGED dag
  BY <1>1, <1>3 DEF Latest
<1>4. CASE \E p, q \in 1 .. Latest, extra \in SUBSET (1 .. Latest),
               author \in Tasks \union {Leader} :
               Adds(Latest + 1, p, q, extra, author)
  BY <1>1, <1>4 DEF Adds
<1> QED
  BY <1>1, <1>2, <1>3, <1>4

-------------------------------------------------------------------------------
(* What is in a commit *)

\* A commit on top of others has their histories and their trees.
LEMMA HistoryKeeps == ASSUME IndInv, HistoryInv, Next PROVE HistoryInv'
<1> SUFFICES ASSUME NEW c \in 1 .. Latest'
             PROVE  /\ dag'[c].reach \in SUBSET dag'[c].patch
                    /\ \A b \in dag'[c].reach :
                        /\ dag'[b].reach \in SUBSET dag'[c].reach
                        /\ dag'[b].patch \in SUBSET dag'[c].patch
  BY DEF HistoryInv, Reach, Patches
<1>1. Latest \in Nat /\ Latest' \in {Latest, Latest + 1}
        /\ \A k \in 1 .. Latest : dag'[k] = dag[k]
  BY Grows
<1>2. \A k \in 1 .. Latest : Reach(k) \in SUBSET (1 .. Latest)
                              /\ Patches(k) \in SUBSET (1 .. Latest)
  BY <1>1 DEF IndInv, DagInv
<1>3. CASE c \in 1 .. Latest
  BY <1>1, <1>2, <1>3 DEF HistoryInv, Reach, Patches
<1>4. CASE c = Latest + 1 /\ Latest' = Latest + 1
  <2>1. PICK p \in 1 .. Latest, q \in 1 .. Latest, extra \in SUBSET (1 .. Latest),
             author \in Tasks \union {Leader} : Adds(c, p, q, extra, author)
    BY <1>1, <1>4, Grows DEF Latest
  <2>2. /\ dag'[c].reach = Reach(p) \union Reach(q) \union {c}
        /\ dag'[c].patch = Patches(p) \union Patches(q) \union extra \union {c}
    BY <2>1 DEF Adds
  <2>3. /\ Reach(p) \subseteq Patches(p) /\ Reach(q) \subseteq Patches(q)
        /\ \A b \in Reach(p) : Reach(b) \subseteq Reach(p) /\ Patches(b) \subseteq Patches(p)
        /\ \A b \in Reach(q) : Reach(b) \subseteq Reach(q) /\ Patches(b) \subseteq Patches(q)
    BY DEF HistoryInv
  <2>4. ASSUME NEW b \in dag'[c].reach
        PROVE  dag'[b].reach \in SUBSET dag'[c].reach /\ dag'[b].patch \in SUBSET dag'[c].patch
    <3>1. CASE b = c
      BY <3>1
    <3>2. CASE b # c
      <4>1. b \in Reach(p) \/ b \in Reach(q)
        BY <2>2, <2>4, <3>2
      <4>2. dag'[b] = dag[b]
        BY <1>1, <1>2, <4>1
      <4> QED
        BY <2>2, <2>3, <4>1, <4>2 DEF Reach, Patches
    <3> QED
      BY <3>1, <3>2
  <2> QED
    BY <2>2, <2>3, <2>4
<1> QED
  BY <1>1, <1>3, <1>4

\* Homes only grow.
LEMMA HomeGrows ==
  ASSUME IndInv, Next, NEW t \in Tasks
  PROVE  Home(t) \subseteq Home(t)'
<1>1. Latest \in Nat /\ Latest' \in {Latest, Latest + 1}
        /\ \A k \in 1 .. Latest : dag'[k] = dag[k]
  BY Grows
<1> SUFFICES ASSUME NEW c \in 1 .. Latest, Author(c) \in {t, Leader}
             PROVE  c \in 1 .. Latest' /\ dag'[c].author \in {t, Leader}
  BY DEF Home, Author
<1> QED
  BY <1>1 DEF Author

\* The leader's HEAD only moves between commits of the leader, and so does the
\* one a sequence of picks goes back to.
LEMMA LeaderStaysHome ==
  ASSUME IndInv, HomeInv, Next
  PROVE  /\ dag'[leader'.head].author = Leader
         /\ leader'.onto # NoCommit => dag'[leader'.onto].author = Leader
<1> DEFINE Goal == /\ dag'[leader'.head].author = Leader
                   /\ leader'.onto # NoCommit => dag'[leader'.onto].author = Leader
<1>1. /\ Latest \in Nat /\ leader.head \in 1 .. Latest /\ leader \in Checkout
      /\ leader.onto # NoCommit => leader.onto \in 1 .. Latest
      /\ \A k \in 1 .. Latest : dag'[k] = dag[k]
  BY Grows, Heads DEF IndInv, TypeOK, Checkout, CommitIds, NoCommit
<1>2. /\ dag'[leader.head].author = Leader
      /\ leader.onto # NoCommit => dag'[leader.onto].author = Leader
  BY <1>1 DEF HomeInv, Author
<1>3. CASE LeaderCommit
  <2>1. Adds(Latest + 1, leader.head, leader.head, {}, Leader) /\ leader'.head = Latest + 1
    BY <1>3, LeaderCommitAdds
  <2>2. leader'.onto = leader.onto
    BY <1>1, <1>3 DEF LeaderCommit, Checkout
  <2> QED
    BY <1>2, <2>1, <2>2 DEF Adds
<1>4. CASE LeaderReset
  <2>1. PICK c \in Reach(leader.head) :
          /\ dag[c].author = Leader
          /\ leader' \in Quit([leader EXCEPT !.head = c, !.tree = "clean"])
    BY <1>4 DEF LeaderReset
  <2>2. leader'.head = c /\ leader'.onto \in {NoCommit, leader.onto}
    BY <1>1, <2>1 DEF Quit, Checkout
  <2>3. c \in 1 .. Latest
    BY <1>1 DEF IndInv, DagInv
  <2> QED
    BY <1>1, <1>2, <2>1, <2>2, <2>3
<1>5. CASE LeaderEdit \/ LeaderRepair
  <2>1. leader'.head = leader.head /\ leader'.onto \in {NoCommit, leader.onto}
    BY <1>1, <1>5 DEF LeaderEdit, LeaderRepair, Quit, Checkout
  <2> QED
    BY <2>1, <1>2
<1>6. ASSUME NEW t \in Tasks, StepOf(t) PROVE Goal
  <2>1. CASE UNCHANGED leader
    BY <1>2, <2>1
  <2>2. CASE Integrates(t)
    <3>1. leader'.onto # NoCommit => dag'[leader'.onto].author = Leader
      BY <1>2, <2>2, IntegrationAdds
    <3>2. \/ leader'.head = leader.head
          \/ leader'.head = Latest + 1 /\ dag'[Latest + 1].author = Leader
      BY <2>2, IntegrationAdds DEF Adds
    <3> QED
      BY <1>2, <3>1, <3>2
  <2>3. CASE IntegrateAbort(t)
    BY <1>2, <2>3, Abort
  <2> QED
    BY <1>6, <2>1, <2>2, <2>3, Writers DEF IndInv
<1> QED
  BY <1>3, <1>4, <1>5, <1>6 DEF Next, User, StepOf


\* A task that a step is not about stays as it is.
Same(t) ==
    /\ manifest'[t] = manifest[t] /\ cmd'[t] = cmd[t]
    /\ ws'[t] = ws[t] /\ tip'[t] = tip[t]

\* A step is about one task, or about none.
LEMMA SameOrStep ==
  ASSUME IndInv, Next, NEW t \in Tasks
  PROVE  StepOf(t) \/ Same(t)
<1>1. CASE User
  BY <1>1 DEF User, LeaderCommit, LeaderReset, LeaderEdit, LeaderRepair, Same
<1>2. ASSUME NEW s \in Tasks, StepOf(s) PROVE StepOf(t) \/ Same(t)
  BY <1>2, OthersStay DEF IndInv, Same
<1> QED
  BY <1>1, <1>2 DEF Next, StepOf

\* Where a worker takes its worktree and its branch.
LEMMA WorkerHeads ==
  ASSUME IndInv, NEW t \in Tasks, Worker(t)
  PROVE  /\ ws[t].present /\ ws'[t].present
         /\ LiveWorkers \/ cmd[t].pc = "idle"
         /\ UNCHANGED <<manifest, cmd>>
         /\ tip'[t] \in {tip[t], ws'[t].head}
         /\ \/ ws'[t].head \in {ws[t].head, tip[t]}
            \/ /\ WorkerCommit(t) /\ ws'[t].head = Latest + 1
               /\ Adds(Latest + 1, ws[t].head, ws[t].head, {}, t)
            \/ /\ UNCHANGED dag /\ ws'[t].head \in 1 .. Latest
               /\ \/ dag[ws'[t].head].author = t
                  \/ ws'[t].head = manifest[t].base_commit /\ manifest[t].state # "absent"
<1> USE DEF IndInv, TypeOK, Worktree
<1>1. ws[t].present /\ (LiveWorkers \/ cmd[t].pc = "idle") /\ UNCHANGED <<manifest, cmd>>
  BY DEF Worker, WorkerCommit, WorkerReset, WorkerEdit, WorkerSwitch, WorkerFree
<1>2. CASE WorkerCommit(t)
  BY <1>1, <1>2, WorkerCommitAdds
<1>3. CASE WorkerReset(t)
  <2>1. PICK c \in {k \in 1 .. Latest : dag[k].author = t} \union {manifest[t].base_commit} :
          /\ ws' = [ws EXCEPT ![t] = [@ EXCEPT !.head = c, !.clean = TRUE]]
          /\ tip' = [tip EXCEPT ![t] = c]
    BY <1>3 DEF WorkerReset
  <2>2. ws'[t].head = c /\ tip'[t] = c /\ ws'[t].present /\ UNCHANGED dag
    BY <1>1, <1>3, <2>1 DEF WorkerReset
  <2>3. manifest[t].state # "absent" /\ manifest[t].base_commit \in 1 .. Latest
    <3>1. Latest \in Nat
      BY DEF Latest
    <3>2. manifest[t].state # "absent" /\ manifest[t].base_commit # NoCommit
      BY <1>3 DEF WorkerReset, RecordInv
    <3> QED
      BY <3>1, <3>2, Fields DEF CommitIds, NoCommit
  <2> QED
    BY <1>1, <2>1, <2>2, <2>3
<1>4. CASE WorkerEdit(t)
  BY <1>1, <1>4 DEF WorkerEdit
<1>5. CASE WorkerSwitch(t)
  BY <1>1, <1>5 DEF WorkerSwitch
<1> QED
  BY <1>2, <1>3, <1>4, <1>5 DEF Worker

\* Where any step of a task takes them.
LEMMA WorktreeHeads ==
  ASSUME IndInv, NEW t \in Tasks, StepOf(t)
  PROVE  \/ ws'[t] = ws[t] /\ tip'[t] = tip[t]
         \/ /\ PrepareWorktree(t) /\ cmd[t].pc = "worktree" /\ manifest[t].state = "absent"
            /\ ~ ws[t].present /\ tip[t] = NoCommit
            /\ ws'[t].present /\ ws'[t].head = cmd[t].commit /\ tip'[t] = cmd[t].commit
            /\ cmd'[t].pc = "manifest"
         \/ /\ PrepareRefuse(t) /\ cmd[t].pc = "worktree" /\ manifest[t].state = "absent"
            /\ ~ ws[t].present /\ tip[t] = NoCommit
            /\ ws'[t] = ws[t] /\ tip'[t] = cmd[t].commit
         \/ /\ CleanupRemove(t) /\ ~ ws'[t].present /\ tip'[t] = tip[t]
            /\ cmd[t].pc = "idle" /\ cmd'[t].pc = "cleanup"
            /\ manifest[t].state \in FINAL_STATES /\ UNCHANGED manifest
         \/ /\ CleanupSave(t) /\ ws'[t] = ws[t] /\ tip'[t] = NoCommit
            /\ cmd[t].pc = "cleanup" /\ cmd'[t].pc = "idle"
            /\ manifest[t].state \in FINAL_STATES /\ ~ ws[t].present
         \/ Worker(t)
<1> USE DEF IndInv, TypeOK, Worktree
<1>1. CASE PrepareWorktree(t)
  BY <1>1 DEF PrepareWorktree, Continue
<1>2. CASE CleanupRemove(t)
  BY <1>2 DEF CleanupRemove, Continue, NoWorktree
<1>3. CASE CleanupSave(t)
  BY <1>3 DEF CleanupSave, CommandInv, Finish, Idle
<1>4. CASE PrepareRefuse(t)
  BY <1>4 DEF PrepareRefuse, CommandInv
<1> QED
  BY <1>1, <1>2, <1>3, <1>4, Writers

\* Nobody takes a branch or a worktree to a commit of another task.
LEMMA HomeKeeps == ASSUME IndInv, HomeInv, Next PROVE HomeInv'
<1>1. /\ dag'[leader'.head].author = Leader
      /\ leader'.onto # NoCommit => dag'[leader'.onto].author = Leader
  BY LeaderStaysHome
<1> SUFFICES ASSUME NEW t \in Tasks
             PROVE  /\ ws'[t].present => ws'[t].head \in Home(t)'
                    /\ tip'[t] \in Home(t)'
                    /\ cmd'[t].commit \in Home(t)'
                    /\ manifest'[t].base_commit \in Home(t)'
                    /\ manifest'[t].receipt \in Home(t)'
                    /\ cmd'[t].pc \in {"worktree", "manifest"} =>
                        dag'[cmd'[t].commit].author = Leader
  BY <1>1 DEF HomeInv, Author
<1>2. /\ Latest \in Nat /\ Home(t) \subseteq Home(t)'
      /\ \A k \in 1 .. Latest : dag'[k] = dag[k]
  BY Grows, HomeGrows
<1>3. /\ ws[t].present => ws[t].head \in Home(t)
      /\ tip[t] \in Home(t) /\ cmd[t].commit \in Home(t)
      /\ manifest[t].base_commit \in Home(t) /\ manifest[t].receipt \in Home(t)
      /\ cmd[t].pc \in {"worktree", "manifest"} =>
          cmd[t].commit \in 1 .. Latest /\ dag[cmd[t].commit].author = Leader
  <2>1. cmd[t].pc \in {"worktree", "manifest"} => cmd[t].commit \in 1 .. Latest
    BY <1>2, Fields DEF IndInv, CommandInv, CommitIds, NoCommit
  <2> QED
    BY <2>1 DEF HomeInv, Author
<1>4. CASE Same(t)
  BY <1>2, <1>3, <1>4 DEF Same
<1>5. CASE StepOf(t)
  <2>1. /\ NoCommit \in Home(t)'
        /\ \A c \in 1 .. Latest : dag[c].author = Leader => c \in Home(t)
    BY DEF Home, Author
  <2>2. (ws'[t].present => ws'[t].head \in Home(t)') /\ tip'[t] \in Home(t)'
    <3>1. CASE Worker(t)
      <4>1. CASE WorkerCommit(t) /\ ws'[t].head = Latest + 1
                  /\ Adds(Latest + 1, ws[t].head, ws[t].head, {}, t)
        <5>1. Latest + 1 \in Home(t)'
          BY <4>1 DEF Adds, Home, Author
        <5> QED
          BY <1>2, <1>3, <3>1, <4>1, <5>1, WorkerHeads
      <4>2. CASE ws'[t].head \in 1 .. Latest /\ dag[ws'[t].head].author = t
        <5>1. ws'[t].head \in Home(t)
          BY <4>2 DEF Home, Author
        <5> QED
          BY <1>2, <1>3, <3>1, <5>1, WorkerHeads
      <4> QED
        BY <1>2, <1>3, <3>1, <4>1, <4>2, WorkerHeads
    <3> QED
      BY <1>2, <1>3, <1>5, <2>1, <3>1, WorktreeHeads
  <2>3. cmd'[t].commit \in Home(t)'
    <3>1. SubmitRead(t) \/ ReviewRead(t) => ws[t].present
      BY DEF SubmitRead, ReviewRead
    <3> QED
      BY <1>2, <1>3, <1>5, <2>1, <3>1, Commanded DEF IndInv
  <2>4. cmd'[t].pc \in {"worktree", "manifest"} => dag'[cmd'[t].commit].author = Leader
    BY <1>2, <1>3, <1>5, <2>1, Commanded DEF IndInv
  <2>5. manifest'[t].base_commit \in Home(t)' /\ manifest'[t].receipt \in Home(t)'
    <3>1. PrepareSave(t) => manifest'[t].base_commit = cmd[t].commit
      BY DEF PrepareSave, SaveManifest, IndInv, TypeOK, Manifest
    <3>2. SubmitSave(t) => manifest'[t].receipt = cmd[t].commit
      BY SubmitWrites
    <3> QED
      BY <1>2, <1>3, <1>5, <3>1, <3>2, Kept DEF IndInv
  <2> QED
    BY <2>2, <2>3, <2>4, <2>5
<1> QED
  BY <1>4, <1>5, SameOrStep


\* Who makes commits.
LEMMA Makers ==
  ASSUME IndInv, Next
  PROVE  \/ UNCHANGED dag \/ LeaderCommit
         \/ \E t \in Tasks : WorkerCommit(t) \/ Integrates(t)
<1>1. ASSUME NEW t \in Tasks, StepOf(t)
      PROVE  UNCHANGED dag \/ Integrates(t) \/ WorkerCommit(t)
  BY <1>1, Writers DEF IndInv
<1>2. CASE User
  BY <1>2 DEF User, LeaderReset, LeaderEdit, LeaderRepair
<1> QED
  BY <1>1, <1>2 DEF Next, StepOf

-------------------------------------------------------------------------------
(* What was accepted, and what lands *)

\* No command follows an acceptance with another decision.
LEMMA ApprovalKeeps == ASSUME IndInv, ApprovalInv, Next PROVE ApprovalInv'
<1> SUFFICES ASSUME NEW t \in Tasks
             PROVE  /\ manifest'[t].decision = "accept" =>
                        manifest'[t].state \in Integrated \union {"ACCEPTED"}
                    /\ manifest'[t].state = "absent" => manifest'[t].receipt = NoCommit
  BY DEF ApprovalInv
<1>1. CASE Same(t)
  BY <1>1 DEF Same, ApprovalInv
<1>2. CASE StepOf(t)
  <2>1. manifest'[t].decision = "accept" =>
          manifest'[t].state \in Integrated \union {"ACCEPTED"}
    <3>1. CASE ReviewDecide(t) /\ manifest'[t].state # manifest[t].state
      <4>1. manifest[t].state = "REVIEW_READY"
        BY <3>1 DEF ReviewDecide, IndInv, CommandInv
      <4>2. /\ manifest'[t].state = Decided[cmd[t].arg] /\ cmd[t].arg \in DOMAIN Decided
            /\ manifest'[t].decision = cmd[t].arg
        BY <1>2, <3>1, <4>1, Moved DEF Receivable
      <4> QED
        BY <4>2 DEF Decided
    <3>2. CASE ReviewDecide(t) /\ manifest'[t].state = manifest[t].state
      <4>1. manifest[t].state = "REVIEW_READY"
        BY <3>2 DEF ReviewDecide, IndInv, CommandInv
      <4>2. UNCHANGED manifest
        <5>1. ~ SaveManifest(t, [manifest[t] EXCEPT !.state = Decided[cmd[t].arg],
                                                    !.decision = cmd[t].arg,
                                                    !.review_head = cmd[t].commit])
          <6>1. Decided[cmd[t].arg] # "REVIEW_READY"
            BY <3>2 DEF ReviewDecide, IndInv, CommandInv, Decided
          <6> QED
            BY <3>2, <4>1, <6>1 DEF SaveManifest, IndInv, TypeOK, Manifest
        <5> QED
          BY <3>2, <5>1 DEF ReviewDecide
      <4> QED
        BY <4>2 DEF ApprovalInv
    <3>3. CASE ~ ReviewDecide(t)
      <4>1. manifest'[t].decision = manifest[t].decision
        BY <1>2, <3>3, Kept DEF IndInv
      <4> QED
        BY <1>2, <3>3, <4>1, Moved DEF ApprovalInv, Receivable, Integrated
    <3> QED
      BY <3>1, <3>2, <3>3
  <2>2. manifest'[t].state = "absent" => manifest'[t].receipt = NoCommit
    <3>1. manifest'[t].state = "absent" => manifest[t].state = "absent"
      BY <1>2, Moved DEF Decided
    <3>2. SubmitSave(t) => manifest[t].state # "absent"
      BY SubmitWrites DEF Receivable
    <3> QED
      BY <1>2, <3>1, <3>2, Kept DEF ApprovalInv, IndInv
  <2> QED
    BY <2>1, <2>2
<1> QED
  BY <1>1, <1>2, SameOrStep

\* What was accepted stays accepted.
LEMMA ApprovedGrows ==
  ASSUME IndInv, ApprovalInv, Next, NEW t \in Tasks
  PROVE  Approved(t) \subseteq Approved(t)'
<1>1. /\ Latest \in Nat
      /\ \A k \in 1 .. Latest : dag'[k] = dag[k]
  BY Grows
<1> SUFFICES ASSUME manifest[t].decision = "accept"
             PROVE  /\ manifest'[t].decision = "accept"
                    /\ dag'[manifest'[t].review_head].patch = dag[manifest[t].review_head].patch
  BY DEF Approved, Patches
<1>2. manifest[t].state \in Integrated \union {"ACCEPTED"}
  BY DEF ApprovalInv
<1>3. manifest[t].review_head \in 1 .. Latest
  <2>1. manifest[t].review_head = manifest[t].receipt /\ manifest[t].receipt # NoCommit
    BY <1>2 DEF IndInv, EvidenceBound
  <2> QED
    BY <1>1, <2>1, Fields DEF IndInv, CommitIds, NoCommit
<1>4. manifest'[t].decision = "accept" /\ manifest'[t].review_head = manifest[t].review_head
  <2>1. CASE Same(t)
    BY <2>1 DEF Same
  <2>2. CASE StepOf(t)
    <3>1. ~ ReviewDecide(t)
      BY <1>2 DEF ReviewDecide, IndInv, CommandInv, Integrated
    <3> QED
      BY <2>2, <3>1, Kept DEF IndInv
  <2> QED
    BY <2>1, <2>2, SameOrStep
<1> QED
  BY <1>1, <1>3, <1>4

\* The head of an accepted task was reviewed: its commits are approved.
LEMMA AcceptedIsApproved ==
  ASSUME IndInv, HistoryInv, HomeInv, NEW t \in Tasks, manifest[t].state = "ACCEPTED"
  PROVE  /\ manifest[t].receipt \in 1 .. Latest
         /\ Author(manifest[t].receipt) \in {t, Leader}
         /\ Approved(t) = Patches(manifest[t].receipt)
         /\ Revs(t, manifest[t].receipt) \subseteq Approved(t)
<1>1. /\ manifest[t].decision = "accept" /\ manifest[t].receipt # NoCommit
      /\ manifest[t].review_head = manifest[t].receipt
  BY DEF IndInv, EvidenceBound
<1>2. manifest[t].receipt \in 1 .. Latest /\ Author(manifest[t].receipt) \in {t, Leader}
  BY <1>1 DEF HomeInv, Home
<1>3. Approved(t) = Patches(manifest[t].receipt)
  BY <1>1 DEF Approved
<1>4. Reach(manifest[t].receipt) \subseteq Patches(manifest[t].receipt)
  BY <1>2 DEF HistoryInv
<1> QED
  BY <1>1, <1>2, <1>3, <1>4 DEF Revs

\* No step makes a tree with a change that was not reviewed.
LEMMA TrustKeeps == ASSUME IndInv, LandInv, Next PROVE TrustInv'
<1> USE DEF LandInv
<1> SUFFICES ASSUME Steady, NEW t \in Tasks
             PROVE  /\ \A c \in 1 .. Latest' : \A k \in dag'[c].patch :
                        dag'[k].author = t => dag'[c].author = t \/ k \in Approved(t)'
                    /\ cmd'[t].pc = "apply" /\ cmd'[t].arg = "merge" =>
                        tip'[t] = manifest'[t].receipt
  BY DEF TrustInv, Steady, Author, Patches
<1>1. Latest \in Nat /\ Latest' \in {Latest, Latest + 1}
        /\ \A k \in 1 .. Latest : dag'[k] = dag[k]
  BY Grows
<1>2. ASSUME NEW c \in 1 .. Latest, NEW k \in Patches(c), Author(k) = t
      PROVE  Author(c) = t \/ k \in Approved(t)
  BY <1>2 DEF TrustInv
<1>3. \A c \in 1 .. Latest : Patches(c) \subseteq 1 .. Latest
  BY <1>1 DEF IndInv, DagInv
<1>4. \A k \in Approved(t) : k \in Approved(t)'
  BY ApprovedGrows
\* What a commit has of its parents, with the parents' author and its own.
<1>5. ASSUME NEW p \in 1 .. Latest, NEW q \in 1 .. Latest,
             NEW extra \in SUBSET (1 .. Latest), NEW a,
             Adds(Latest + 1, p, q, extra, a),
             \A k \in Patches(p) \union Patches(q) \union extra :
                Author(k) = t => a = t \/ k \in Approved(t)
      PROVE  \A c \in 1 .. Latest' : \A k \in dag'[c].patch :
                dag'[k].author = t => dag'[c].author = t \/ k \in Approved(t)'
  <2> SUFFICES ASSUME NEW c \in 1 .. Latest', NEW k \in dag'[c].patch, dag'[k].author = t
               PROVE  dag'[c].author = t \/ k \in Approved(t)'
    OBVIOUS
  <2>1. /\ dag'[Latest + 1].patch
             = Patches(p) \union Patches(q) \union extra \union {Latest + 1}
        /\ dag'[Latest + 1].author = a
    BY <1>5 DEF Adds
  <2>2. CASE c \in 1 .. Latest
    <3>1. k \in Patches(c) /\ k \in 1 .. Latest
      BY <1>1, <1>3, <2>2 DEF Patches
    <3> QED
      BY <1>1, <1>2, <1>4, <2>2, <3>1 DEF Author
  <2>3. CASE c = Latest + 1 /\ k # Latest + 1
    <3>1. k \in Patches(p) \union Patches(q) \union extra /\ k \in 1 .. Latest
      BY <1>3, <2>1, <2>3
    <3> QED
      BY <1>1, <1>4, <1>5, <2>1, <2>3, <3>1 DEF Author
  <2>4. CASE c = Latest + 1 /\ k = Latest + 1
    BY <2>4
  <2> QED
    BY <1>1, <2>2, <2>3, <2>4
<1>6. \A c \in 1 .. Latest' : \A k \in dag'[c].patch :
        dag'[k].author = t => dag'[c].author = t \/ k \in Approved(t)'
  <2> DEFINE Goal == \A c \in 1 .. Latest' : \A k \in dag'[c].patch :
                        dag'[k].author = t => dag'[c].author = t \/ k \in Approved(t)'
             FromLeader == \A k \in Patches(leader.head) : Author(k) = t => k \in Approved(t)
  <2>1. CASE UNCHANGED dag
    <3>1. Latest' = Latest
      BY <2>1 DEF Latest
    <3> QED
      BY <1>2, <1>3, <1>4, <2>1, <3>1 DEF Author, Patches
  <2>2. FromLeader
    <3>1. leader.head \in 1 .. Latest /\ Author(leader.head) = Leader /\ Leader # t
      BY Heads, OvpRuntimeAssumption DEF HomeInv
    <3> QED
      BY <1>2, <3>1
  <2>3. CASE LeaderCommit
    <3>1. Adds(Latest + 1, leader.head, leader.head, {}, Leader)
      BY <2>3, LeaderCommitAdds
    <3>2. \A k \in Patches(leader.head) \union Patches(leader.head) \union {} :
            Author(k) = t => Leader = t \/ k \in Approved(t)
      BY <2>2
    <3> QED
      BY <1>5, <3>1, <3>2, Heads
  <2>4. ASSUME NEW s \in Tasks, WorkerCommit(s) PROVE Goal
    <3>1. Adds(Latest + 1, ws[s].head, ws[s].head, {}, s) /\ ws[s].present
      BY <2>4, WorkerCommitAdds
    <3>2. ws[s].head \in 1 .. Latest /\ Author(ws[s].head) \in {s, Leader} /\ Leader # t
      BY <3>1, Heads, OvpRuntimeAssumption DEF HomeInv, Home, NoCommit
    <3>3. \A k \in Patches(ws[s].head) \union Patches(ws[s].head) \union {} :
            Author(k) = t => s = t \/ k \in Approved(t)
      BY <1>2, <3>2
    <3> QED
      BY <1>5, <3>1, <3>2, <3>3
  <2>5. ASSUME NEW s \in Tasks, Integrates(s), ~ UNCHANGED dag PROVE Goal
    <3>1. /\ manifest[s].state = "ACCEPTED" /\ cmd[s].pc = "apply" /\ ws[s].present
          /\ \/ /\ cmd[s].arg = "merge"
                /\ Adds(Latest + 1, leader.head, tip[s], {}, Leader)
             \/ \E part \in SUBSET Revs(s, manifest[s].receipt) :
                    Adds(Latest + 1, leader.head, leader.head, part, Leader)
      BY <2>5, IntegrationAdds
    <3>2. /\ manifest[s].receipt \in 1 .. Latest /\ Leader # t
          /\ Author(manifest[s].receipt) \in {s, Leader}
          /\ Approved(s) = Patches(manifest[s].receipt)
          /\ Revs(s, manifest[s].receipt) \subseteq Approved(s)
      BY <3>1, AcceptedIsApproved, OvpRuntimeAssumption
    <3>3. \A k \in Patches(manifest[s].receipt) : Author(k) = t => k \in Approved(t)
      BY <1>2, <3>2
    <3>4. CASE /\ cmd[s].arg = "merge"
               /\ Adds(Latest + 1, leader.head, tip[s], {}, Leader)
      <4>1. tip[s] = manifest[s].receipt
        BY <3>1, <3>4 DEF TrustInv
      <4>2. \A k \in Patches(leader.head) \union Patches(tip[s]) \union {} :
              Author(k) = t => Leader = t \/ k \in Approved(t)
        BY <2>2, <3>3, <4>1
      <4> QED
        BY <1>5, <3>2, <3>4, <4>1, <4>2, Heads
    <3>5. ASSUME NEW part \in SUBSET Revs(s, manifest[s].receipt),
                 Adds(Latest + 1, leader.head, leader.head, part, Leader)
          PROVE  Goal
      <4>1. part \in SUBSET (1 .. Latest)
        BY <3>5 DEF Adds
      <4>2. \A k \in Patches(leader.head) \union Patches(leader.head) \union part :
              Author(k) = t => Leader = t \/ k \in Approved(t)
        BY <2>2, <3>2, <3>3
      <4> QED
        BY <1>5, <3>5, <4>1, <4>2, Heads
    <3> QED
      BY <3>1, <3>4, <3>5
  <2>6. \/ UNCHANGED dag \/ LeaderCommit
        \/ \E s \in Tasks : WorkerCommit(s) \/ Integrates(s)
    BY Makers
  <2> QED
    BY <2>1, <2>3, <2>4, <2>5, <2>6
<1>7. cmd'[t].pc = "apply" /\ cmd'[t].arg = "merge" => tip'[t] = manifest'[t].receipt
  <2> SUFFICES ASSUME cmd'[t].pc = "apply", cmd'[t].arg = "merge"
               PROVE  tip'[t] = manifest'[t].receipt
    OBVIOUS
  <2>1. CASE Same(t)
    BY <2>1 DEF Same, TrustInv
  <2>2. CASE StepOf(t) /\ IntegrateCheck(t)
    BY <2>2 DEF IntegrateCheck
  <2>3. CASE StepOf(t) /\ ~ IntegrateCheck(t)
    <3>1. cmd'[t] = cmd[t]
      BY <2>3, Commanded DEF IndInv
    <3>2. LiveWorkers = FALSE
      <4>1. "merge" \in Strategies
        BY <3>1 DEF IndInv, CommandInv, Integrating
      <4> QED
        BY <4>1 DEF Steady
    <3>3. tip'[t] = tip[t]
      BY <2>3, <3>1, <3>2, WorktreeHeads, WorkerHeads
    <3>4. manifest'[t].receipt = manifest[t].receipt
      <4>1. ~ SubmitSave(t)
        BY <3>1 DEF SubmitSave
      <4> QED
        BY <2>3, <4>1, Kept DEF IndInv
    <3> QED
      BY <3>1, <3>3, <3>4 DEF TrustInv
  <2> QED
    BY <2>1, <2>2, <2>3, SameOrStep
<1> QED
  BY <1>6, <1>7


\* The receipt, and then the review, are of a head that was looked at, as long as
\* the worktree keeps its head while a receipt is made.
LEMMA ScopedMoves ==
  ASSUME IndInv, NEW t \in Tasks, Scoped(t),
         StepOf(t) \/ Same(t),
         Latest \in Nat, \A k \in 1 .. Latest : dag'[k] = dag[k],
         cmd'[t] = cmd[t] /\ cmd[t].pc = "receipt" => ws'[t].head = ws[t].head
  PROVE  Scoped(t)'
<1>1. /\ cmd[t].pc = "receipt" => cmd[t].commit = ws[t].head
      /\ manifest[t].state = "REVIEW_READY" =>
          dag[manifest[t].receipt].diff \in {"inside", "blemish"}
      /\ manifest[t].state \in Integrated \union {"ACCEPTED"} =>
          dag[manifest[t].receipt].diff = "inside"
  BY DEF Scoped
<1>2. manifest[t].state \in Integrated \union {"REVIEW_READY", "ACCEPTED"} =>
        manifest[t].receipt \in 1 .. Latest
  BY Fields DEF IndInv, RecordInv, CommitIds, NoCommit
<1>3. CASE Same(t)
  BY <1>1, <1>2, <1>3 DEF Same, Scoped
<1>4. CASE StepOf(t)
  <2>1. cmd'[t].pc = "receipt" => cmd'[t].commit = ws'[t].head
    <3>1. CASE SubmitRead(t)
      BY <3>1, <1>4, Commanded DEF SubmitRead, IndInv
    <3>2. CASE cmd'[t] = cmd[t] /\ cmd[t].pc = "receipt"
      BY <1>1, <3>2
    <3> QED
      BY <1>4, <3>1, <3>2, Commanded DEF IndInv
  <2>2. CASE SubmitSave(t)
    <3>1. /\ manifest[t].state \in Receivable /\ cmd[t].commit \in 1 .. Latest
          /\ dag[cmd[t].commit].diff \in {"inside", "blemish"}
      BY <1>1, <2>2, Fields DEF SubmitSave, IndInv, CommandInv, CommitIds, NoCommit
    <3>2. manifest'[t].state = "REVIEW_READY" /\ manifest'[t].receipt = cmd[t].commit
      BY <2>2, SubmitWrites
    <3> QED
      BY <2>1, <3>1, <3>2 DEF Integrated, Scoped
  <2>3. CASE ~ SubmitSave(t)
    <3>1. manifest'[t].receipt = manifest[t].receipt
      BY <1>4, <2>3, Kept DEF IndInv
    <3>2. manifest'[t].state = "REVIEW_READY" => manifest[t].state = "REVIEW_READY"
      BY <1>4, <2>3, Moved DEF Decided
    <3>3. manifest'[t].state \in Integrated \union {"ACCEPTED"} =>
            \/ manifest[t].state \in Integrated \union {"ACCEPTED"}
            \/ manifest[t].state = "REVIEW_READY" /\ GatesPass(t)
      BY <1>4, <2>3, Moved DEF Decided, Integrated
    <3>4. GatesPass(t) => dag[manifest[t].receipt].diff # "blemish"
      BY DEF GatesPass
    <3> QED
      BY <1>1, <1>2, <2>1, <3>1, <3>2, <3>3, <3>4 DEF Scoped
  <2> QED
    BY <2>2, <2>3
<1> QED
  BY <1>3, <1>4

\* Workers that keep still while a command runs leave the worktree its head.
LEMMA ScopeKeeps == ASSUME IndInv, ScopeInv, Next PROVE ScopeInv'
<1> SUFFICES ASSUME LiveWorkers = FALSE, NEW t \in Tasks PROVE Scoped(t)'
  BY DEF ScopeInv
<1>1. Latest \in Nat /\ \A k \in 1 .. Latest : dag'[k] = dag[k]
  BY Grows
<1>2. cmd'[t] = cmd[t] /\ cmd[t].pc = "receipt" => ws'[t].head = ws[t].head
  BY SameOrStep, WorktreeHeads, WorkerHeads DEF Same
<1> QED
  BY <1>1, <1>2, SameOrStep, ScopedMoves DEF ScopeInv

\* The bound is checked whenever a commit is made.
LEMMA BoundKeeps == ASSUME IndInv, BoundInv, Next PROVE BoundInv'
<1> SUFFICES ASSUME NEW c \in 1 .. Latest', dag'[c].author # Leader
             PROVE  c <= MaxCommits
  BY DEF BoundInv, Author
<1>1. Latest \in Nat /\ \A k \in 1 .. Latest : dag'[k] = dag[k]
  BY Grows
<1>2. CASE c \in 1 .. Latest
  BY <1>1, <1>2 DEF BoundInv, Author
<1>3. CASE c \notin 1 .. Latest
  <2>1. c = Latest + 1 /\ ~ UNCHANGED dag
    BY <1>1, <1>3, Grows DEF Latest
  <2> QED
    BY <2>1, Grows DEF Adds
<1> QED
  BY <1>2, <1>3

-------------------------------------------------------------------------------
(* What a task is based on *)

\* Only its worker makes commits of a task.
LEMMA OwnCommits ==
  ASSUME IndInv, Next, NEW t \in Tasks
  PROVE  \/ \A c \in 1 .. Latest' : dag'[c].author = t => c \in 1 .. Latest
         \/ WorkerCommit(t)
<1>1. Latest \in Nat /\ Latest' \in {Latest, Latest + 1}
  BY Grows
<1>2. CASE UNCHANGED dag
  BY <1>2 DEF Latest
<1>3. CASE dag'[Latest + 1].author # t
  BY <1>1, <1>3
<1>4. CASE LeaderCommit
  <2>1. dag'[Latest + 1].author = Leader
    BY <1>4, LeaderCommitAdds DEF Adds
  <2> QED
    BY <1>3, <2>1, OvpRuntimeAssumption
<1>5. ASSUME NEW s \in Tasks, Integrates(s), ~ UNCHANGED dag
      PROVE  dag'[Latest + 1].author # t
  <2>1. \/ Adds(Latest + 1, leader.head, tip[s], {}, Leader)
        \/ \E part \in SUBSET Revs(s, manifest[s].receipt) :
                Adds(Latest + 1, leader.head, leader.head, part, Leader)
    BY <1>5, IntegrationAdds
  <2>2. dag'[Latest + 1].author = Leader
    BY <2>1 DEF Adds
  <2> QED
    BY <2>2, OvpRuntimeAssumption
<1>6. ASSUME NEW s \in Tasks, WorkerCommit(s), s # t
      PROVE  dag'[Latest + 1].author # t
  BY <1>6, WorkerCommitAdds DEF Adds
<1> QED
  BY <1>2, <1>3, <1>4, <1>5, <1>6, Makers

\* A commit of the worker is built on what its worktree was at.
LEMMA BuildsOnKeeps ==
  ASSUME IndInv, Next, NEW t \in Tasks, NEW b \in 1 .. Latest, Grounded(t, b)
  PROVE  BuildsOn(t, b)'
<1>1. Latest \in Nat /\ Latest' \in {Latest, Latest + 1}
        /\ \A k \in 1 .. Latest : dag'[k] = dag[k]
  BY Grows
<1>2. \A c \in 1 .. Latest : /\ Reach(c) \in SUBSET (1 .. Latest) /\ c \in Reach(c)
                             /\ Patches(c) \in SUBSET (1 .. Latest)
  BY <1>1 DEF IndInv, DagInv
<1>3. /\ b # NoCommit
      /\ \A k \in Patches(b) : Author(k) # t
      /\ \A c \in 1 .. Latest :
          Author(c) = t =>
            /\ b \in Reach(c)
            /\ Reach(c) \ Reach(b) = {k \in Patches(c) : Author(k) = t}
            /\ \A k \in Patches(c) : Author(k) = t \/ k \in Patches(b)
  BY DEF Grounded, BuildsOn
<1>4. ASSUME NEW c \in 1 .. Latest', dag'[c].author = t
      PROVE  /\ b \in dag'[c].reach
             /\ dag'[c].reach \ dag'[b].reach = {k \in dag'[c].patch : dag'[k].author = t}
             /\ \A k \in dag'[c].patch : dag'[k].author = t \/ k \in dag'[b].patch
  <2>1. CASE c \in 1 .. Latest
    <3>1. dag'[c] = dag[c] /\ dag'[b] = dag[b] /\ Author(c) = t
      BY <1>1, <1>4, <2>1 DEF Author
    <3>2. \A k \in Patches(c) : dag'[k].author = Author(k)
      BY <1>1, <1>2, <2>1 DEF Author
    <3>3. {k \in dag'[c].patch : dag'[k].author = t} = {k \in Patches(c) : Author(k) = t}
      BY <3>1, <3>2 DEF Patches
    <3> QED
      BY <1>3, <2>1, <3>1, <3>2, <3>3 DEF Reach, Patches
  <2>2. CASE c \notin 1 .. Latest
    <3>1. WorkerCommit(t) /\ c = Latest + 1
      BY <1>1, <1>4, <2>2, OwnCommits
    <3> DEFINE p == ws[t].head
    <3>2. /\ dag'[c].reach = Reach(p) \union {c} /\ dag'[c].patch = Patches(p) \union {c}
          /\ p \in 1 .. Latest /\ ws[t].present
      BY <3>1, WorkerCommitAdds DEF Adds
    <3>3. p = b \/ Author(p) = t
      BY <3>2 DEF Grounded
    <3>4. /\ b \in Reach(p)
          /\ Reach(p) \ Reach(b) = {k \in Patches(p) : Author(k) = t}
          /\ \A k \in Patches(p) : Author(k) = t \/ k \in Patches(b)
      BY <1>2, <1>3, <3>2, <3>3
    <3> HIDE DEF p
    <3>5. dag'[b] = dag[b] /\ \A k \in Patches(p) : dag'[k].author = Author(k)
      BY <1>1, <1>2, <3>2 DEF Author
    <3>6. c \notin Reach(b) /\ c \notin Patches(p)
      BY <1>1, <1>2, <3>1, <3>2
    <3>7. {k \in dag'[c].patch : dag'[k].author = t}
            = {k \in Patches(p) : Author(k) = t} \union {c}
      BY <1>4, <3>2, <3>5, <3>6
    <3> QED
      BY <1>4, <3>2, <3>4, <3>5, <3>6, <3>7 DEF Reach, Patches
  <2> QED
    BY <2>1, <2>2
<1>5. \A k \in dag'[b].patch : dag'[k].author # t
  BY <1>1, <1>2, <1>3 DEF Author, Patches
<1> QED
  BY <1>3, <1>4, <1>5 DEF BuildsOn, Reach, Patches, Author

\* A worktree leaves its base for commits made on top of it only.
LEMMA GroundedKeeps ==
  ASSUME IndInv, Next, NEW t \in Tasks, NEW b \in 1 .. Latest, Grounded(t, b),
         \/ manifest[t].state # "absent" /\ manifest[t].base_commit = b
         \/ manifest[t].state = "absent" /\ cmd[t].pc = "manifest"
  PROVE  Grounded(t, b)'
<1>1. BuildsOn(t, b)'
  BY BuildsOnKeeps
<1>2. Latest \in Nat /\ \A k \in 1 .. Latest : dag'[k] = dag[k]
  BY Grows
<1>3. /\ ws[t].present => ws[t].head = b \/ Author(ws[t].head) = t
      /\ tip[t] # NoCommit => tip[t] = b \/ Author(tip[t]) = t
  BY DEF Grounded
<1>4. /\ ws[t].present => ws[t].head \in 1 .. Latest /\ tip[t] \in 1 .. Latest
      /\ tip[t] # NoCommit => tip[t] \in 1 .. Latest
  BY <1>2, Heads, Fields DEF IndInv, CommitIds, NoCommit
<1>5. /\ ws'[t].present => ws'[t].head = b \/ dag'[ws'[t].head].author = t
      /\ tip'[t] # NoCommit => tip'[t] = b \/ dag'[tip'[t]].author = t
  <2>1. CASE ws'[t] = ws[t] /\ tip'[t] \in {tip[t], NoCommit}
    BY <1>2, <1>3, <1>4, <2>1 DEF Author
  <2>2. CASE ~ ws'[t].present /\ tip'[t] = tip[t]
    BY <1>2, <1>3, <1>4, <2>2 DEF Author
  <2>3. CASE Worker(t)
    <3>1. ws[t].present /\ tip[t] # NoCommit
      BY <2>3, WorkerHeads DEF IndInv, HeadInv
    <3>2. ws'[t].head = b \/ dag'[ws'[t].head].author = t
      <4>1. CASE ws'[t].head \in {ws[t].head, tip[t]}
        BY <1>2, <1>3, <1>4, <3>1, <4>1 DEF Author
      <4>2. CASE ws'[t].head = Latest + 1 /\ Adds(Latest + 1, ws[t].head, ws[t].head, {}, t)
        BY <4>2 DEF Adds
      <4> QED
        BY <2>3, <4>1, <4>2, WorkerHeads
    <3> QED
      BY <1>2, <1>3, <1>4, <2>3, <3>1, <3>2, WorkerHeads DEF Author
  <2>4. CASE StepOf(t) /\ ~ Worker(t)
    BY <1>3, <2>1, <2>2, <2>4, WorktreeHeads
  <2> QED
    BY <2>1, <2>3, <2>4, SameOrStep DEF Same
<1> QED
  BY <1>1, <1>5 DEF Grounded, Author

\* The base in a manifest is the one its worktree was made from.
LEMMA BaseKeeps == ASSUME IndInv, BaseInv, Next PROVE BaseInv'
<1> SUFFICES ASSUME NEW t \in Tasks
             PROVE  /\ manifest'[t].state # "absent" =>
                        \E b \in 1 .. Latest : manifest'[t].base_commit = b /\ Grounded(t, b)'
                    /\ cmd'[t].pc = "manifest" =>
                        \E b \in 1 .. Latest : cmd'[t].commit = b /\ Grounded(t, b)'
                    /\ manifest'[t].receipt # NoCommit =>
                        dag'[manifest'[t].receipt].author = t
                    /\ cmd'[t].pc = "receipt" => dag'[cmd'[t].commit].author = t
                    /\ manifest'[t].state = "absent" /\ ~ ws'[t].present
                          /\ tip'[t] = NoCommit =>
                        \A c \in 1 .. Latest' : dag'[c].author # t
  BY DEF BaseInv, Author, Grounded, BuildsOn, Reach, Patches
<1>1. Latest \in Nat /\ \A k \in 1 .. Latest : dag'[k] = dag[k]
  BY Grows
<1>2. /\ manifest[t].state # "absent" =>
          manifest[t].base_commit \in 1 .. Latest /\ Grounded(t, manifest[t].base_commit)
      /\ cmd[t].pc = "manifest" =>
          /\ manifest[t].state = "absent" /\ cmd[t].commit \in 1 .. Latest
          /\ Grounded(t, cmd[t].commit)
  BY <1>1, Fields DEF BaseInv, IndInv, RecordInv, CommandInv, CommitIds, NoCommit
<1>3. /\ manifest[t].state # "absent" =>
          \E b \in 1 .. Latest : manifest[t].base_commit = b /\ Grounded(t, b)'
      /\ cmd[t].pc = "manifest" =>
          \E b \in 1 .. Latest : cmd[t].commit = b /\ Grounded(t, b)'
  <2>1. ASSUME NEW b \in 1 .. Latest, Grounded(t, b), manifest[t].state # "absent",
               manifest[t].base_commit = b
        PROVE  Grounded(t, b)'
    BY <2>1, GroundedKeeps
  <2>2. ASSUME NEW b \in 1 .. Latest, Grounded(t, b), manifest[t].state = "absent",
               cmd[t].pc = "manifest"
        PROVE  Grounded(t, b)'
    BY <2>2, GroundedKeeps
  <2> QED
    BY <1>2, <2>1, <2>2
<1>4. /\ manifest[t].receipt # NoCommit =>
          manifest[t].receipt \in 1 .. Latest /\ dag[manifest[t].receipt].author = t
      /\ cmd[t].pc = "receipt" =>
          /\ manifest[t].state \in Receivable
          /\ cmd[t].commit \in 1 .. Latest /\ dag[cmd[t].commit].author = t
  BY <1>1, Fields DEF BaseInv, Author, IndInv, CommandInv, CommitIds, NoCommit
<1>5. CASE Same(t)
  <2>1. manifest[t].state = "absent" /\ ~ ws[t].present /\ tip[t] = NoCommit =>
          \A c \in 1 .. Latest' : dag'[c].author # t
    <3>1. ws[t].present \/ ~ WorkerCommit(t)
      BY DEF WorkerCommit, WorkerFree
    <3> QED
      BY <1>1, <3>1, OwnCommits DEF BaseInv, Author
  <2> QED
    BY <1>1, <1>3, <1>4, <1>5, <2>1 DEF Same
<1>6. CASE StepOf(t)
  <2>1. manifest'[t].state # "absent" =>
          \E b \in 1 .. Latest : manifest'[t].base_commit = b /\ Grounded(t, b)'
    <3>1. CASE manifest[t].state = "absent" /\ manifest'[t].state # "absent"
      <4>1. PrepareSave(t) /\ manifest'[t].base_commit = cmd[t].commit
        BY <1>6, <3>1, Moved DEF Receivable
      <4>2. cmd[t].pc = "manifest"
        BY <4>1 DEF PrepareSave
      <4> QED
        BY <1>3, <4>1, <4>2
    <3>2. CASE manifest[t].state # "absent"
      <4>1. ~ PrepareSave(t)
        BY <3>2 DEF PrepareSave, IndInv, CommandInv
      <4> QED
        BY <1>3, <1>6, <3>2, <4>1, Kept DEF IndInv
    <3> QED
      BY <3>1, <3>2
  <2>2. cmd'[t].pc = "manifest" =>
          \E b \in 1 .. Latest : cmd'[t].commit = b /\ Grounded(t, b)'
    <3>1. CASE PrepareWorktree(t)
      <4>0. cmd[t].commit \in 1 .. Latest
        BY <1>1, <3>1, Fields
           DEF PrepareWorktree, IndInv, CommandInv, CommitIds, NoCommit
      <4> PICK b \in 1 .. Latest : b = cmd[t].commit
        BY <4>0
      <4>1. /\ b \in 1 .. Latest /\ cmd'[t].commit = b
            /\ manifest[t].state = "absent" /\ ~ ws[t].present /\ tip[t] = NoCommit
            /\ ws'[t].head = b /\ tip'[t] = b /\ UNCHANGED dag
        BY <1>1, <3>1, Fields
           DEF PrepareWorktree, Continue, IndInv, TypeOK, Worktree, CommandInv,
               CommitIds, NoCommit
      <4>2. \A c \in 1 .. Latest : Author(c) # t
        BY <4>1 DEF BaseInv
      <4>3. Patches(b) \subseteq 1 .. Latest
        BY <1>1, <4>1 DEF IndInv, DagInv
      <4>4. Latest' = Latest
        BY <4>1 DEF Latest
      <4>5. BuildsOn(t, b)'
        BY <1>1, <4>1, <4>2, <4>3, <4>4 DEF BuildsOn, Author, Reach, Patches, NoCommit
      <4>6. Grounded(t, b)'
        BY <4>1, <4>5 DEF Grounded
      <4> QED
        BY <4>1, <4>6
    <3>2. CASE cmd'[t] = cmd[t]
      BY <1>3, <3>2
    <3> QED
      BY <1>6, <3>1, <3>2, Commanded DEF IndInv
  <2>3. manifest'[t].receipt # NoCommit => dag'[manifest'[t].receipt].author = t
    <3>1. CASE SubmitSave(t)
      BY <1>1, <1>4, <3>1, SubmitWrites
    <3>2. CASE ~ SubmitSave(t)
      BY <1>1, <1>4, <1>6, <3>2, Kept DEF IndInv
    <3> QED
      BY <3>1, <3>2
  <2>4. cmd'[t].pc = "receipt" => dag'[cmd'[t].commit].author = t
    <3>1. CASE SubmitRead(t)
      <4>1. /\ manifest[t].state \in Receivable /\ ws[t].present
            /\ ws[t].head # manifest[t].base_commit
        BY <3>1 DEF SubmitRead
      <4>2. Author(ws[t].head) = t /\ ws[t].head \in 1 .. Latest
        BY <1>2, <4>1, Heads DEF Grounded, Receivable
      <4> QED
        BY <1>1, <3>1, <4>2 DEF SubmitRead, Continue, IndInv, TypeOK, Author
    <3>2. CASE cmd'[t] = cmd[t]
      BY <1>1, <1>4, <3>2
    <3> QED
      BY <1>6, <3>1, <3>2, Commanded DEF IndInv
  <2>5. manifest'[t].state = "absent" /\ ~ ws'[t].present /\ tip'[t] = NoCommit =>
          \A c \in 1 .. Latest' : dag'[c].author # t
    <3> SUFFICES ASSUME manifest'[t].state = "absent", ~ ws'[t].present, tip'[t] = NoCommit
                 PROVE  \A c \in 1 .. Latest' : dag'[c].author # t
      OBVIOUS
    <3>1. manifest[t].state = "absent"
      BY <1>6, Moved DEF Decided
    <3>2. ~ Worker(t)
      BY WorkerHeads
    <3>3. ~ ws[t].present /\ tip[t] = NoCommit
      BY <1>6, <3>1, <3>2, WorktreeHeads DEF FINAL_STATES
    <3>4. ~ WorkerCommit(t)
      BY <3>2 DEF Worker
    <3> QED
      BY <1>1, <3>1, <3>3, <3>4, OwnCommits DEF BaseInv, Author
  <2> QED
    BY <2>1, <2>2, <2>3, <2>4, <2>5
<1> QED
  BY <1>5, <1>6, SameOrStep


-------------------------------------------------------------------------------
(* What has landed *)

\* Where the tasks integrate one after the other, no two of them have begun.
LEMMA AloneKeeps == ASSUME IndInv, AloneInv, Next PROVE AloneInv'
<1> SUFFICES ASSUME OneAtATime, NEW s \in Tasks, NEW t \in Tasks, s # t,
                    cmd'[s].pc \in Integrating, cmd'[t].pc \in Integrating
             PROVE  FALSE
  BY DEF AloneInv
<1>1. ASSUME NEW r \in Tasks, NEW q \in Tasks, r # q, StepOf(r),
             cmd'[r].pc \in Integrating, cmd'[q].pc \in Integrating
      PROVE  FALSE
  <2>1. cmd[q].pc \in Integrating
    BY <1>1, OthersStay DEF IndInv
  <2>2. cmd[r].pc \in Integrating \/ IntegrateCheck(r)
    BY <1>1, Commanded DEF Integrating, IndInv, IntegrateApply, IntegrateFail
  <2>3. ~ IntegrateCheck(r)
    BY <1>1, <2>1 DEF IntegrateCheck, Alone
  <2> QED
    BY <1>1, <2>1, <2>2, <2>3 DEF AloneInv
<1>2. StepOf(s) \/ StepOf(t) \/ (Same(s) /\ Same(t))
  BY SameOrStep
<1> QED
  BY <1>1, <1>2 DEF Same, AloneInv

\* Until what a task brings is recorded, an undisturbed checkout keeps what it has.
LEMMA LeaderGrows ==
  ASSUME IndInv, AloneInv, Next, Undisturbed, NEW t \in Tasks,
         cmd[t].pc \in {"apply", "record"}
  PROVE  Patches(leader.head) \subseteq Patches(leader.head)'
<1> SUFFICES Patches(leader.head) \subseteq dag'[leader'.head].patch
  BY DEF Patches
<1>1. leader.head \in 1 .. Latest /\ \A k \in 1 .. Latest : dag'[k] = dag[k]
  BY Heads, Grows
<1>2. ~ User
  BY DEF User, LeaderCommit, LeaderReset, LeaderEdit, LeaderRepair, UserFree, Integrating,
         Undisturbed
<1>3. CASE leader'.head = leader.head
  BY <1>1, <1>3 DEF Patches
<1>4. ASSUME NEW s \in Tasks, Integrates(s), leader'.head # leader.head
      PROVE  Patches(leader.head) \subseteq dag'[leader'.head].patch
  BY <1>4, IntegrationAdds DEF Adds
<1>5. ASSUME NEW s \in Tasks, IntegrateAbort(s)
      PROVE  leader'.head = leader.head
  <2>1. cmd[s].pc = "abort" /\ cmd[s].arg \in Strategies
    BY <1>5, Abort DEF IndInv, CommandInv, Integrating
  <2>2. CASE OneAtATime
    <3>1. s = t
      BY <2>1, <2>2 DEF AloneInv, Integrating
    <3> QED
      BY <2>1, <3>1
  <2>3. CASE "cherry-pick" \notin Strategies
    BY <1>5, <2>1, <2>3, Abort
  <2> QED
    BY <2>2, <2>3 DEF Undisturbed
<1> QED
  BY <1>2, <1>3, <1>4, <1>5, Writers DEF Next, StepOf, IndInv

\* The commits between base and receipt stay while nobody submits again.
LEMMA EvidenceStays ==
  ASSUME IndInv, Next, NEW t \in Tasks,
         manifest[t].state \notin Receivable \union {"absent"},
         manifest[t].receipt # NoCommit
  PROVE  /\ manifest'[t].receipt = manifest[t].receipt
         /\ manifest'[t].base_commit = manifest[t].base_commit
         /\ Revs(t, manifest[t].receipt)' = Revs(t, manifest[t].receipt)
<1>1. Latest \in Nat /\ \A k \in 1 .. Latest : dag'[k] = dag[k]
  BY Grows
<1>2. /\ manifest'[t].receipt = manifest[t].receipt
      /\ manifest'[t].base_commit = manifest[t].base_commit
  <2>1. CASE Same(t)
    BY <2>1 DEF Same
  <2>2. CASE StepOf(t)
    <3>1. ~ PrepareSave(t) /\ ~ SubmitSave(t)
      BY DEF PrepareSave, SubmitSave, IndInv, CommandInv, Receivable
    <3> QED
      BY <2>2, <3>1, Kept DEF IndInv
  <2> QED
    BY <2>1, <2>2, SameOrStep
<1>3. manifest[t].receipt \in 1 .. Latest /\ manifest[t].base_commit \in 1 .. Latest
  BY <1>1, Fields DEF IndInv, RecordInv, CommitIds, NoCommit
<1> QED
  BY <1>1, <1>2, <1>3 DEF Revs, Reach

\* An integration that succeeds brings all of a task's evidence.
LEMMA EvidenceLands ==
  ASSUME IndInv, LandInv, Steady, NEW t \in Tasks, IntegrateApply(t)
  PROVE  Revs(t, manifest[t].receipt) \subseteq dag'[leader'.head].patch
<1> USE DEF LandInv
<1>1. /\ cmd[t].pc = "apply" /\ manifest[t].state = "ACCEPTED"
      /\ manifest[t].receipt \in 1 .. Latest /\ leader.head \in 1 .. Latest
  BY IntegrationAdds, Heads DEF Integrates
<1>2. Revs(t, manifest[t].receipt) \subseteq Patches(manifest[t].receipt)
  BY <1>1, AcceptedIsApproved
<1>3. cmd[t].arg = "merge" => tip[t] = manifest[t].receipt
  BY <1>1 DEF TrustInv
<1>4. CASE /\ cmd[t].arg = "merge" /\ tip[t] \in Reach(leader.head)
           /\ UNCHANGED <<dag, leader>>
  <2>1. Patches(tip[t]) \subseteq Patches(leader.head)
    BY <1>1, <1>4 DEF HistoryInv
  <2> QED
    BY <1>2, <1>3, <1>4, <2>1 DEF Patches
<1>5. CASE /\ cmd[t].arg = "merge" /\ leader'.head = Latest + 1
           /\ dag'[Latest + 1].patch
                = Patches(leader.head) \union Patches(tip[t]) \union {Latest + 1}
  BY <1>2, <1>3, <1>5
<1> QED
  BY <1>4, <1>5, ApplyAdds

\* What a task integrates stays integrated until it is recorded, and after.
LEMMA LandedKeeps == ASSUME IndInv, LandInv, AloneInv, LandedInv, Next PROVE LandedInv'
<1> USE DEF LandInv
<1> SUFFICES ASSUME Undisturbed, Steady, NEW t \in Tasks
             PROVE  /\ cmd'[t].pc = "record" =>
                        Revs(t, manifest[t].receipt)' \in SUBSET Patches(leader.head)'
                    /\ manifest'[t].state \in Integrated =>
                        /\ manifest'[t].leader_head_after # NoCommit
                        /\ Revs(t, manifest[t].receipt)'
                            \in SUBSET Patches(manifest[t].leader_head_after)'
  BY DEF LandedInv, Undisturbed, Steady
<1>1. /\ cmd[t].pc = "record" => Revs(t, manifest[t].receipt) \in SUBSET Patches(leader.head)
      /\ manifest[t].state \in Integrated =>
          /\ manifest[t].leader_head_after # NoCommit
          /\ Revs(t, manifest[t].receipt) \in SUBSET Patches(manifest[t].leader_head_after)
  BY DEF LandedInv
<1>2. Latest \in Nat /\ leader.head \in 1 .. Latest
        /\ \A k \in 1 .. Latest : dag'[k] = dag[k]
  BY Grows, Heads
<1>3. manifest[t].state \in Integrated \union {"ACCEPTED"} =>
        /\ manifest[t].receipt # NoCommit
        /\ manifest'[t].receipt = manifest[t].receipt
        /\ manifest'[t].base_commit = manifest[t].base_commit
        /\ Revs(t, manifest[t].receipt)' = Revs(t, manifest[t].receipt)
  <2> SUFFICES ASSUME manifest[t].state \in Integrated \union {"ACCEPTED"}
               PROVE  /\ manifest[t].receipt # NoCommit
                      /\ manifest'[t].receipt = manifest[t].receipt
                      /\ manifest'[t].base_commit = manifest[t].base_commit
                      /\ Revs(t, manifest[t].receipt)' = Revs(t, manifest[t].receipt)
    OBVIOUS
  <2>1. manifest[t].receipt # NoCommit
    BY DEF IndInv, RecordInv
  <2>2. manifest[t].state \notin Receivable \union {"absent"}
    BY DEF Integrated, Receivable
  <2> QED
    BY <2>1, <2>2, EvidenceStays
<1>4. cmd[t].pc \in {"apply", "record"} =>
        /\ manifest[t].state = "ACCEPTED"
        /\ Patches(leader.head) \subseteq Patches(leader.head)'
  BY LeaderGrows DEF IndInv, CommandInv, Integrating
<1>6. cmd'[t].pc = "record" =>
        Revs(t, manifest[t].receipt)' \in SUBSET Patches(leader.head)'
  <2>1. CASE cmd'[t] = cmd[t]
    BY <1>1, <1>3, <1>4, <2>1
  <2>2. CASE IntegrateApply(t)
    <3>1. Revs(t, manifest[t].receipt) \subseteq Patches(leader.head)'
      BY <2>2, EvidenceLands DEF Patches
    <3>2. cmd[t].pc = "apply"
      BY <2>2 DEF IntegrateApply
    <3> QED
      BY <1>3, <1>4, <3>1, <3>2
  <2> QED
    BY <2>1, <2>2, SameOrStep, Commanded DEF Same, IndInv
<1>7. manifest'[t].state \in Integrated =>
        /\ manifest'[t].leader_head_after # NoCommit
        /\ Revs(t, manifest[t].receipt)' \in SUBSET Patches(manifest[t].leader_head_after)'
  <2> SUFFICES ASSUME manifest'[t].state \in Integrated
               PROVE  /\ manifest'[t].leader_head_after # NoCommit
                      /\ Revs(t, manifest[t].receipt)'
                          \in SUBSET Patches(manifest[t].leader_head_after)'
    OBVIOUS
  <2>1. CASE IntegrateSave(t)
    <3>1. cmd[t].pc = "record" /\ manifest'[t].leader_head_after = leader.head
            /\ UNCHANGED <<dag, leader>>
      BY <2>1 DEF IntegrateSave, SaveManifest, IndInv, TypeOK, Manifest
    <3> QED
      BY <1>1, <1>2, <1>3, <1>4, <3>1 DEF Patches, NoCommit
  <2>2. CASE /\ manifest[t].state \in Integrated
             /\ manifest'[t].leader_head_after = manifest[t].leader_head_after
    <3>1. manifest[t].leader_head_after \in 1 .. Latest
      BY <1>1, <1>2, <2>2 DEF IndInv, TypeOK, Manifest, CommitIds, NoCommit
    <3> QED
      BY <1>1, <1>2, <1>3, <2>2, <3>1 DEF Patches
  <2>3. CASE StepOf(t) /\ ~ IntegrateSave(t)
    <3>1. manifest'[t].leader_head_after = manifest[t].leader_head_after
      BY <2>3, Kept DEF IndInv
    <3>2. manifest[t].state \in Integrated
      BY <2>3, Moved DEF Integrated, Decided
    <3> QED
      BY <2>2, <3>1, <3>2
  <2> QED
    BY <2>1, <2>2, <2>3, SameOrStep DEF Same
<1> QED
  BY <1>6, <1>7


\* A repository with one commit and no task has nothing to keep.
LEMMA InitStrong == Init => StrongInv
<1> SUFFICES ASSUME Init PROVE LandInv /\ ScopeInv /\ MapInv
  BY InitInv DEF StrongInv
<1>1. /\ Latest = 1 /\ dag[1].author = Leader /\ dag[1].reach = {1} /\ dag[1].patch = {1}
      /\ leader.head = 1 /\ leader.onto = NoCommit
  BY DEF Init, Latest
<1>2. \A t \in Tasks :
        /\ ~ ws[t].present /\ tip[t] = NoCommit
        /\ cmd[t].pc = "idle" /\ cmd[t].commit = NoCommit
        /\ manifest[t].state = "absent" /\ manifest[t].decision = "none"
        /\ manifest[t].base_commit = NoCommit /\ manifest[t].receipt = NoCommit
  BY DEF Init, NoWorktree, Idle, NoManifest
<1>3. HistoryInv /\ BoundInv
  BY <1>1 DEF HistoryInv, BoundInv, Reach, Patches, Author
<1>4. HomeInv
  BY <1>1, <1>2 DEF HomeInv, Home, Author
<1>5. ApprovalInv /\ ScopeInv /\ AloneInv /\ LandedInv
  BY <1>2 DEF ApprovalInv, ScopeInv, Scoped, AloneInv, LandedInv, Integrated, Integrating
<1>6. TrustInv
  <2>1. \A t \in Tasks : \A c \in 1 .. Latest : \A k \in Patches(c) : Author(k) # t
    BY <1>1, OvpRuntimeAssumption DEF Patches, Author
  <2>2. \A t \in Tasks : cmd[t].pc # "apply"
    BY <1>2
  <2> QED
    BY <2>1, <2>2 DEF TrustInv
<1>7. BaseInv
  <2>1. \A t \in Tasks : \A c \in 1 .. Latest : Author(c) # t
    BY <1>1, OvpRuntimeAssumption DEF Author
  <2> QED
    BY <1>2, <2>1 DEF BaseInv
<1> QED
  BY <1>3, <1>4, <1>5, <1>6, <1>7 DEF LandInv, MapInv

\* The rest of StrongInv does not look at the disturbances that are counted.
LEMMA CountingKeeps ==
  ASSUME StrongInv, UNCHANGED <<dag, leader, tip, ws, manifest, contract, cmd>>, IndInv'
  PROVE  StrongInv'
<1> USE DEF StrongInv, LandInv, MapInv
<1>1. HistoryInv' /\ HomeInv' /\ ApprovalInv'
  BY DEF HistoryInv, HomeInv, ApprovalInv, Home, Author, Reach, Patches, Latest
<1>2. TrustInv'
  BY DEF TrustInv, Steady, Author, Approved, Patches, Latest
<1>3. ScopeInv' /\ BaseInv' /\ AloneInv' /\ LandedInv' /\ BoundInv'
  BY DEF ScopeInv, Scoped, BaseInv, AloneInv, LandedInv, BoundInv, Undisturbed, Steady,
         Grounded, BuildsOn, Revs, Author, Reach, Patches, Latest
<1> QED
  BY <1>1, <1>2, <1>3

\* Every step keeps StrongInv: one lemma per part of it.
LEMMA StrongKeeps == ASSUME StrongInv, [Next]_vars PROVE StrongInv'
<1>1. CASE Next
  BY <1>1, NextKeeps, HistoryKeeps, HomeKeeps, ApprovalKeeps, TrustKeeps, ScopeKeeps,
     BaseKeeps, AloneKeeps, LandedKeeps, BoundKeeps DEF StrongInv, LandInv, MapInv
<1>2. CASE UNCHANGED vars
  BY <1>2, NextKeeps, CountingKeeps DEF vars, StrongInv
<1> QED
  BY <1>1, <1>2

\* StrongInv is inductive: the histories, the trees and the records of every
\* repository the commands can make, whatever happens around them.
THEOREM StrongInductive == Spec => []StrongInv
<1>1. StrongInv /\ [Next]_vars => StrongInv'
  BY StrongKeeps
<1> QED
  BY <1>1, InitStrong, PTL DEF Spec

\* Where the branch that is merged cannot move under the command, no change of
\* a worker is in the leader's project unless it was reviewed and accepted.
THEOREM OnlyReviewedIsLanded == ASSUME Steady PROVE Spec => []OnlyReviewedLands
<1>1. StrongInv => OnlyReviewedLands
  <2> SUFFICES ASSUME StrongInv, NEW c \in Patches(leader.head), dag[c].author # Leader
               PROVE  c \in Approved(dag[c].author)
    BY DEF OnlyReviewedLands
  <2>1. leader.head \in 1 .. Latest /\ Author(leader.head) = Leader
    BY Heads DEF StrongInv, LandInv, HomeInv
  <2>2. c \in 1 .. Latest
    <3>1. leader.head \in CommitIds /\ leader.head # NoCommit
      BY DEF StrongInv, IndInv, TypeOK, Checkout, HeadInv
    <3> QED
      BY <3>1, HistoryIsCommits DEF StrongInv
  <2>3. dag[c].author \in Tasks
    <3>1. dag \in Seq(Commit)
      BY DEF StrongInv, IndInv, TypeOK
    <3>2. dag[c] \in Commit
      BY <2>2, <3>1 DEF Latest
    <3> QED
      BY <3>2 DEF Commit
  <2> QED
    BY <2>1, <2>3, OvpRuntimeAssumption DEF StrongInv, LandInv, TrustInv, Author
<1> QED
  BY <1>1, StrongInductive, PTL

\* With workers that keep still while a command runs on their task, what is
\* accepted keeps to the scope and has no whitespace errors.
THEOREM AcceptedIsInScope == ASSUME LiveWorkers = FALSE PROVE Spec => []AcceptedInScope
<1>1. StrongInv => AcceptedInScope
  BY DEF StrongInv, ScopeInv, Scoped, AcceptedInScope
<1> QED
  BY <1>1, StrongInductive, PTL


-------------------------------------------------------------------------------
(* The protocol *)

\* The evidence of a task are its changes in the tree of the receipt's head.
LEMMA EvidenceIsOwn ==
  ASSUME StrongInv, NEW t \in Tasks, NEW c \in 1 .. Latest, Author(c) = t,
         manifest[t].state # "absent"
  PROVE  /\ Revs(t, c) = {k \in Patches(c) : Author(k) = t}
         /\ c \in Revs(t, c)
         /\ Revs(t, c) \subseteq 1 .. MaxCommits
         /\ \A k \in Patches(c) : Author(k) = t \/ k \in Patches(manifest[t].base_commit)
<1>1. BuildsOn(t, manifest[t].base_commit)
  BY DEF StrongInv, MapInv, BaseInv, Grounded
<1>2. /\ Revs(t, c) = {k \in Patches(c) : Author(k) = t}
      /\ \A k \in Patches(c) : Author(k) = t \/ k \in Patches(manifest[t].base_commit)
  BY <1>1 DEF BuildsOn, Revs
<1>3. c \in Patches(c) /\ Patches(c) \subseteq 1 .. Latest /\ Latest \in Nat
  BY DEF StrongInv, IndInv, DagInv, TypeOK, Latest
<1>4. \A k \in Revs(t, c) : k \in 1 .. MaxCommits
  BY <1>2, <1>3, OvpRuntimeAssumption DEF StrongInv, MapInv, BoundInv
<1> QED
  BY <1>2, <1>3, <1>4

\* Only a new receipt changes the evidence.
LEMMA EvidenceSame ==
  ASSUME StrongInv, Next, NEW t \in Tasks, ~ SubmitSave(t)
  PROVE  Evidence(t)' = Evidence(t)
<1> USE DEF StrongInv, LandInv
<1>1. manifest'[t].receipt = manifest[t].receipt
  BY SameOrStep, Kept DEF Same, IndInv
<1>2. CASE manifest[t].receipt = NoCommit
  BY <1>1, <1>2 DEF Evidence
<1>3. CASE manifest[t].receipt # NoCommit
  <2>1. Latest \in Nat /\ \A k \in 1 .. Latest : dag'[k] = dag[k]
    BY Grows
  <2>2. manifest[t].state # "absent"
    BY <1>3 DEF ApprovalInv
  <2>3. manifest[t].receipt \in 1 .. Latest /\ manifest[t].base_commit \in 1 .. Latest
    BY <1>3, <2>1, <2>2, Fields DEF IndInv, RecordInv, CommitIds, NoCommit
  <2>4. manifest'[t].base_commit = manifest[t].base_commit
    <3>1. ~ PrepareSave(t)
      BY <2>2 DEF PrepareSave, IndInv, CommandInv
    <3> QED
      BY <3>1, SameOrStep, Kept DEF Same, IndInv
  <2> QED
    BY <1>1, <1>3, <2>1, <2>3, <2>4 DEF Evidence, Revs, Reach
<1> QED
  BY <1>2, <1>3

\* What may have landed of a task: accepted evidence.
LandedIsAllowed(t) ==
    /\ Landed(t) \subseteq 1 .. MaxCommits
    /\ Landed(t) \subseteq IF manifest[t].state \in Integrated \union {"ACCEPTED"}
                          THEN Evidence(t) ELSE {}

\* What has landed of a task was accepted, whether an integration has brought it in
\* whole or in part.
LEMMA LandedIsAccepted == StrongInv /\ Steady => \A t \in Tasks : LandedIsAllowed(t)
<1> SUFFICES ASSUME StrongInv, Steady, NEW t \in Tasks,
                    NEW k \in Patches(leader.head), dag[k].author = t
             PROVE  /\ k \in 1 .. MaxCommits
                    /\ manifest[t].state \in Integrated \union {"ACCEPTED"}
                    /\ k \in Evidence(t)
  BY DEF LandedIsAllowed, Landed
<1> USE DEF StrongInv, LandInv, MapInv
<1>1. leader.head \in 1 .. Latest /\ Author(leader.head) = Leader /\ Leader # t
  BY Heads, OvpRuntimeAssumption DEF HomeInv
<1>2. k \in Approved(t)
  BY <1>1 DEF TrustInv, Author
<1>3. manifest[t].decision = "accept" /\ k \in Patches(manifest[t].review_head)
  BY <1>2 DEF Approved
<1>4. /\ manifest[t].state \in Integrated \union {"ACCEPTED"}
      /\ manifest[t].receipt # NoCommit
      /\ manifest[t].review_head = manifest[t].receipt
  BY <1>3 DEF ApprovalInv, IndInv, EvidenceBound
<1>5. manifest[t].receipt \in 1 .. Latest /\ manifest[t].state # "absent"
      /\ Author(manifest[t].receipt) = t
  <2>1. manifest[t].receipt \in 0 .. Latest /\ Latest \in Nat
    BY Fields DEF IndInv, TypeOK, CommitIds, Latest
  <2> QED
    BY <1>4, <2>1 DEF BaseInv, Integrated, NoCommit
<1>6. /\ Revs(t, manifest[t].receipt)
           = {c \in Patches(manifest[t].receipt) : Author(c) = t}
      /\ Revs(t, manifest[t].receipt) \subseteq 1 .. MaxCommits
  BY <1>5, EvidenceIsOwn
<1> QED
  BY <1>3, <1>4, <1>6 DEF Evidence, Author

\* What has landed stays with the leader's HEAD.
LEMMA LandedSame ==
  ASSUME StrongInv, Next, NEW t \in Tasks, UNCHANGED leader
  PROVE  Landed(t)' = Landed(t)
<1> USE DEF StrongInv
<1>1. /\ Latest \in Nat /\ leader.head \in 1 .. Latest
      /\ \A k \in 1 .. Latest : dag'[k] = dag[k]
  BY Grows, Heads
<1>2. Patches(leader.head) \subseteq 1 .. Latest
  BY <1>1 DEF IndInv, DagInv
<1> QED
  BY <1>1, <1>2 DEF Landed, Patches

\* Evidence that is in the leader's tree has landed.
LEMMA EvidenceIsIn ==
  ASSUME StrongInv, NEW t \in Tasks,
         manifest[t].state \in {"ACCEPTED", "INTEGRATED"},
         Revs(t, manifest[t].receipt) \subseteq Patches(leader.head)
  PROVE  Evidence(t) \subseteq Landed(t)
<1>1. manifest[t].receipt \in 0 .. Latest /\ manifest[t].receipt # NoCommit
  BY Fields DEF StrongInv, IndInv, RecordInv, Integrated, CommitIds
<1>2. manifest[t].receipt \in 1 .. Latest /\ Author(manifest[t].receipt) = t
  BY <1>1 DEF StrongInv, MapInv, BaseInv, NoCommit
<1>3. Revs(t, manifest[t].receipt) = {k \in Patches(manifest[t].receipt) : Author(k) = t}
  BY <1>2, EvidenceIsOwn
<1> QED
  BY <1>1, <1>3 DEF Evidence, Landed, Author

\* The state of the protocol, as OvpRuntime's manifests and repository show it.
States == [t \in Tasks |-> manifest[t].state]
Evidences == [t \in Tasks |-> IF manifest[t].receipt = NoCommit THEN {}
                              ELSE Revs(t, manifest[t].receipt)]
Lands == [t \in Tasks |-> {c \in Patches(leader.head) : dag[c].author = t}]

\* A step on a task moves that task's state only.
LEMMA StatesMove ==
  ASSUME StrongInv, NEW t \in Tasks, StepOf(t)
  PROVE  States' = [States EXCEPT ![t] = manifest'[t].state]
<1>1. \A s \in Tasks : s # t => manifest'[s] = manifest[s]
  BY OthersStay DEF StrongInv, IndInv
<1> QED
  BY <1>1 DEF States

\* ... and that task's evidence only, with a receipt.
LEMMA EvidencesMove ==
  ASSUME StrongInv, Next, NEW t \in Tasks, StepOf(t)
  PROVE  /\ Evidences' = [Evidences EXCEPT ![t] = Evidence(t)']
         /\ ~ SubmitSave(t) => UNCHANGED Evidences
<1>1. \A s \in Tasks : s # t => Evidence(s)' = Evidence(s)
  <2> SUFFICES ASSUME NEW s \in Tasks, s # t PROVE Evidence(s)' = Evidence(s)
    OBVIOUS
  <2>1. CASE SubmitSave(s)
    <3>1. Same(s)
      BY OthersStay DEF StrongInv, IndInv, Same
    <3>2. manifest'[s].state = "REVIEW_READY" /\ manifest[s].state # "REVIEW_READY"
      BY <2>1, SubmitWrites DEF StrongInv, Receivable
    <3> QED
      BY <3>1, <3>2 DEF Same
  <2>2. CASE ~ SubmitSave(s)
    BY <2>2, EvidenceSame
  <2> QED
    BY <2>1, <2>2
<1>2. Evidences = [s \in Tasks |-> Evidence(s)]
        /\ Evidences' = [s \in Tasks |-> Evidence(s)']
  BY DEF Evidences, Evidence
<1>3. ~ SubmitSave(t) => Evidence(t)' = Evidence(t)
  BY EvidenceSame
<1> HIDE DEF Evidences
<1> QED
  BY <1>1, <1>2, <1>3

\* What has landed changes when the leader's checkout does.
LEMMA LandsSame ==
  ASSUME StrongInv, Next, UNCHANGED leader
  PROVE  UNCHANGED Lands
<1>1. \A s \in Tasks : Landed(s)' = Landed(s)
  BY LandedSame
<1>2. Lands = [s \in Tasks |-> Landed(s)] /\ Lands' = [s \in Tasks |-> Landed(s)']
  BY DEF Lands, Landed
<1> QED
  BY <1>1, <1>2

\* The steps that change the leader's checkout, an integration, its abort or the
\* leader's user, land accepted evidence or take it away.
LEMMA CheckoutMaps ==
  ASSUME StrongInv, Next, UNCHANGED manifest, Steady
  PROVE  Protocol!Land
<1>1. \A t \in Tasks : LandedIsAllowed(t)'
  <2>1. StrongInv' /\ Steady'
    BY StrongKeeps DEF Steady
  <2>2. (StrongInv /\ Steady => \A t \in Tasks : LandedIsAllowed(t))'
    BY LandedIsAccepted, PTL
  <2> QED
    BY <2>1, <2>2
<1>2. \A t \in Tasks : ~ SubmitSave(t)
  BY SubmitWrites DEF StrongInv, Receivable
<1>3. \A t \in Tasks : Evidence(t)' = Evidence(t)
  BY <1>2, EvidenceSame
<1>4. UNCHANGED States
  BY DEF States
<1>5. /\ Evidences = [s \in Tasks |-> Evidence(s)]
      /\ Evidences' = [s \in Tasks |-> Evidence(s)']
  BY DEF Evidences, Evidence
<1>6. Lands' = [s \in Tasks |-> Landed(s)']
  BY DEF Lands, Landed
<1>7. UNCHANGED Evidences
  BY <1>3, <1>5
<1>8. /\ Lands' \in [Tasks -> SUBSET (1 .. MaxCommits)]
      /\ \A t \in Tasks :
            Lands'[t] \subseteq IF States[t] \in Integrated \union {"ACCEPTED"}
                               THEN Evidences[t] ELSE {}
  BY <1>1, <1>3, <1>5, <1>6 DEF LandedIsAllowed, States
<1>9. Protocol!Accepted = Integrated \union {"ACCEPTED"}
  BY DEF Protocol!Accepted, Protocol!Proofs, Integrated
<1> QED
  BY <1>4, <1>7, <1>8, <1>9 DEF Protocol!Land, Protocol!Allowed, States, Evidences, Lands

\* Every step of the runtime is a step of the protocol, or none.  What it takes: the
\* branch that is merged is the one that was accepted, and to close a task, nobody
\* else has moved the leader's tree.
LEMMA StepMaps ==
  ASSUME StrongInv, Next,
         UNCHANGED leader \/ Steady,
         \A t \in Tasks : IntegrateSave(t) \/ RecordProof(t) => Undisturbed
  PROVE  Protocol!Next \/ UNCHANGED <<States, Evidences, Lands>>
<1>1. CASE UNCHANGED manifest /\ ~ UNCHANGED leader
  BY <1>1, CheckoutMaps DEF Protocol!Next
<1>2. CASE User
  <2>1. UNCHANGED manifest
    BY <1>2 DEF User, LeaderCommit, LeaderReset, LeaderEdit, LeaderRepair
  <2>2. CASE UNCHANGED leader
    <3>1. \A t \in Tasks : ~ SubmitSave(t)
      BY <2>1, SubmitWrites DEF StrongInv, Receivable
    <3>2. \A t \in Tasks : Evidence(t)' = Evidence(t)
      BY <3>1, EvidenceSame
    <3>3. /\ Evidences = [s \in Tasks |-> Evidence(s)]
          /\ Evidences' = [s \in Tasks |-> Evidence(s)']
      BY DEF Evidences, Evidence
    <3> HIDE DEF Evidences
    <3>4. UNCHANGED <<States, Evidences, Lands>>
      BY <2>1, <2>2, <3>2, <3>3, LandsSame DEF States
    <3> QED
      BY <3>4
  <2> QED
    BY <1>1, <2>1, <2>2
<1>3. ASSUME NEW t \in Tasks, StepOf(t), UNCHANGED leader
      PROVE  Protocol!Next \/ UNCHANGED <<States, Evidences, Lands>>
  <2>1. /\ States' = [States EXCEPT ![t] = manifest'[t].state]
        /\ States[t] = manifest[t].state /\ DOMAIN States = Tasks
        /\ Evidences' = [Evidences EXCEPT ![t] = Evidence(t)']
        /\ ~ SubmitSave(t) => UNCHANGED Evidences
        /\ Evidences[t] = Evidence(t) /\ Lands[t] = Landed(t)
        /\ DOMAIN Lands = Tasks /\ DOMAIN Evidences = Tasks
    BY <1>3, StatesMove, EvidencesMove DEF States, Evidences, Lands, Evidence, Landed
  <2>2. UNCHANGED Lands
    BY <1>3, LandsSame
  <2>3. manifest'[t].state = manifest[t].state => UNCHANGED States
    BY <2>1 DEF States
  <2>5. CASE SubmitSave(t)
    <3>1. /\ manifest[t].state \in Receivable /\ manifest'[t].state = "REVIEW_READY"
          /\ manifest'[t].receipt = cmd[t].commit /\ cmd[t].commit # NoCommit
          /\ cmd[t].pc = "receipt" /\ UNCHANGED <<dag, leader>>
          /\ manifest'[t].base_commit = manifest[t].base_commit
      BY <2>5, SubmitWrites DEF StrongInv
    <3>2. cmd[t].commit \in 1 .. Latest /\ Author(cmd[t].commit) = t
      <4>1. cmd[t].commit \in 0 .. Latest
        BY Fields DEF StrongInv, IndInv, CommitIds
      <4> QED
        BY <3>1, <4>1 DEF StrongInv, MapInv, BaseInv, NoCommit
    <3>3. /\ cmd[t].commit \in Revs(t, cmd[t].commit)
          /\ Revs(t, cmd[t].commit) \subseteq 1 .. MaxCommits
      BY <3>1, <3>2, EvidenceIsOwn DEF Receivable
    <3>4. Evidence(t)' = Revs(t, cmd[t].commit)
      BY <3>1 DEF Evidence, Revs, Reach
    <3>5. Evidence(t)' \in (SUBSET (1 .. MaxCommits)) \ {{}}
      BY <3>3, <3>4
    <3>7. Protocol!Report(t)
      BY <2>1, <2>2, <3>1, <3>5
         DEF Protocol!Report, Protocol!Move, Protocol!Receivable, States, Evidences, Lands,
             Receivable
    <3> QED
      BY <3>7 DEF Protocol!Next
  <2>6. CASE ~ SubmitSave(t) /\ manifest'[t].state # manifest[t].state
    <3>1. UNCHANGED <<Evidences, Lands>>
      BY <2>1, <2>2, <2>6
    <3>2. CASE manifest[t].state = "absent" /\ manifest'[t].state = "READY"
      BY <2>1, <3>1, <3>2
         DEF Protocol!Next, Protocol!Prepare, Protocol!Move, States, Evidences, Lands
    <3>3. CASE \/ /\ manifest[t].state \in {"READY", "REWORK"}
                  /\ manifest'[t].state = "DISPATCHED"
               \/ /\ manifest[t].state \in {"DISPATCHED", "REWORK"}
                  /\ manifest'[t].state = "WORKING"
      BY <2>1, <3>1, <3>3
         DEF Protocol!Next, Protocol!Dispatch, Protocol!Move, States, Evidences, Lands
    <3>4. CASE /\ manifest[t].state = "REVIEW_READY"
               /\ manifest'[t].state \in {"ACCEPTED", "REWORK", "REJECTED"}
      BY <2>1, <3>1, <3>4
         DEF Protocol!Next, Protocol!Decide, Protocol!Decisions, Protocol!Move,
             States, Evidences, Lands
    <3>5. CASE IntegrateSave(t) /\ manifest[t].state = "ACCEPTED"
                  /\ manifest'[t].state = "INTEGRATED"
      <4>1. Evidences[t] \subseteq Lands[t]
        <5>1. cmd[t].pc = "record"
          BY <3>5 DEF IntegrateSave
        <5>2. Revs(t, manifest[t].receipt) \subseteq Patches(leader.head)
          BY <3>5, <5>1 DEF StrongInv, MapInv, LandedInv
        <5> QED
          BY <2>1, <3>5, <5>2, EvidenceIsIn
      <4> QED
        BY <2>1, <3>1, <3>5, <4>1
           DEF Protocol!Next, Protocol!Integrate, Protocol!Move, States, Evidences, Lands
    <3>6. CASE RecordProof(t) /\ manifest[t].state = "INTEGRATED"
                 /\ manifest'[t].state \in {"PROVEN", "FAILED", "UNKNOWN"}
      <4>1. Evidences[t] \subseteq Lands[t]
        <5>1. leader.head = manifest[t].leader_head_after
          BY <3>6 DEF RecordProof
        <5>2. Revs(t, manifest[t].receipt) \subseteq Patches(leader.head)
          BY <3>6, <5>1 DEF StrongInv, MapInv, LandedInv, Integrated
        <5> QED
          BY <2>1, <3>6, <5>2, EvidenceIsIn
      <4> QED
        BY <2>1, <3>1, <3>6, <4>1
           DEF Protocol!Next, Protocol!Prove, Protocol!Proofs, Protocol!Move,
               States, Evidences, Lands
    <3>7. ReviewDecide(t) => Decided[cmd[t].arg] \in {"ACCEPTED", "REWORK", "REJECTED"}
      BY DEF ReviewDecide, Decided, StrongInv, IndInv, CommandInv
    <3> QED
      BY <1>3, <2>6, <3>2, <3>3, <3>4, <3>5, <3>6, <3>7, Moved DEF StrongInv
  <2> QED
    BY <2>1, <2>2, <2>3, <2>5, <2>6
<1>4. ASSUME NEW t \in Tasks, StepOf(t), ~ UNCHANGED leader
      PROVE  Protocol!Next \/ UNCHANGED <<States, Evidences, Lands>>
  <2>1. Integrates(t) \/ IntegrateAbort(t)
    BY <1>4, Writers DEF StrongInv, IndInv
  <2>2. UNCHANGED manifest
    BY <2>1 DEF Integrates, IntegrateApply, IntegrateFail, IntegrateTimeout, IntegrateAbort
  <2> QED
    BY <1>1, <1>4, <2>2
<1> QED
  BY <1>2, <1>3, <1>4 DEF Next, StepOf

\* A leader's project with one commit has nothing of any task.
LEMMA ProtocolInit == ASSUME Init PROVE Protocol!Init
<1>1. \A t \in Tasks : {c \in Patches(leader.head) : dag[c].author = t} = {}
  <2>1. leader.head = 1 /\ dag[1].patch = {1} /\ dag[1].author = Leader
    BY DEF Init
  <2> QED
    BY <2>1, OvpRuntimeAssumption DEF Patches
<1> QED
  BY <1>1 DEF Init, NoManifest, Protocol!Init

\* The runtime implements the protocol.
THEOREM RuntimeImplementsProtocol == ASSUME Undisturbed PROVE Spec => ImplementsProtocol
<1>1. Init => Protocol!Init
  BY ProtocolInit
<1>2. StrongInv /\ [Next]_vars => [Protocol!Next]_(Protocol!vars)
  <2> SUFFICES ASSUME StrongInv, [Next]_vars
               PROVE  Protocol!Next \/ UNCHANGED Protocol!vars
    OBVIOUS
  <2>1. CASE Next
    BY <2>1, StepMaps DEF Undisturbed, Protocol!vars, States, Evidences, Lands
  <2>2. CASE UNCHANGED vars
    BY <2>2 DEF vars, Protocol!vars, Revs, Reach, Patches
  <2> QED
    BY <2>1, <2>2
<1> QED
  BY <1>1, <1>2, StrongInductive, PTL DEF Spec, ImplementsProtocol, Protocol!Spec
===============================================================================
