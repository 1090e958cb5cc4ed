----------------------------- MODULE VisualReview -----------------------------
(***************************************************************************)
(* The visual review of an OVP task (ovp_visual_review.py) on top of the   *)
(* broker: "capture" runs launch, capture and stop in the task's worktree  *)
(* and records a picture for the head under review; "review" lets a        *)
(* decision pass to the runtime only when that record backs it.            *)
(*                                                                         *)
(* A task is its worktree.  Of the runtime there is the state of the task, *)
(* the head of its receipt, and the gates of review_task that look at the  *)
(* worktree.  Equal hashes are the same picture.                           *)
(***************************************************************************)
EXTENDS VisualBroker

Tasks == Worktrees

VARIABLES
    state,     \* manifest state of each task
    receipt,   \* the head of its receipt
    temp,      \* the picture in .mado-loop-visual/ of its worktree, or 0
    file,      \* the durable picture for each task and head, or 0
    evidence,  \* visual-review.json of each task
    cited,     \* the picture in the reason of its acceptance, or 0
    next,      \* what each user's bridge command does next
    work       \* what it has read and has yet to record

broker == <<disk, born, table, signals, record, at, call, seen, outcome>>
reviewVars == <<broker, disturbed, state, receipt, temp, file, evidence, cited, next, work>>

NoWork == [task |-> "none"]

\* What capture gathers, and what visual-review.json keeps of it.
Work(t, s) ==
    [task |-> t, session |-> s, head |-> receipt[t],
     capture |-> "SKIPPED", stop |-> "SKIPPED", artifact |-> 0]

NoEvidence == [head |-> "none"]
Evidence(job) ==
    [head |-> job.head, capture |-> job.capture, stop |-> job.stop,
     artifact |-> job.artifact]

\* What review has read and decided.
Judgement(t, decision) ==
    [task |-> t, session |-> "none", decision |-> decision, read |-> evidence[t]]

Decisions == {"ACCEPTED", "REWORK", "REJECTED"}

\* The worktree is at the head of the receipt, and git status is empty.
AtReceipt(t) ==
    /\ disk[t] = receipt[t]
    /\ temp[t] = 0

\* _context
Context(t) == state[t] = "REVIEW_READY" /\ AtReceipt(t)

\* Another bridge command is running on the task, or on one of the sessions.
Busy(u, t, sessions) ==
    \E v \in Users \ {u} :
        /\ next[v] # "idle"
        /\ work[v].task = t \/ work[v].session \in sessions

ReviewInit ==
    /\ Init
    /\ state = [t \in Tasks |-> "WORKING"]
    /\ receipt = disk
    /\ temp = [t \in Tasks |-> 0]
    /\ file = [t \in Tasks |-> [c \in Commits |-> 0]]
    /\ evidence = [t \in Tasks |-> NoEvidence]
    /\ cited = [t \in Tasks |-> 0]
    /\ next = [u \in Users |-> "idle"]
    /\ work = [u \in Users |-> NoWork]

Then(u, step, job) ==
    /\ next' = [next EXCEPT ![u] = step]
    /\ work' = [work EXCEPT ![u] = job]

EndBridge(u) == Then(u, "idle", NoWork)

Returned(u, step) == next[u] = step /\ at[u] = "idle"

-------------------------------------------------------------------------------
(* capture_visual_evidence *)

\* _context, and the temporary picture removed: there is none in a clean worktree.
CaptureContext(u, t, s) ==
    /\ next[u] = "idle" /\ at[u] = "idle"
    /\ Context(t)
    /\ Then(u, "launch", Work(t, s))
    /\ DisturbIf(Busy(u, t, {s}), "overlap")
    /\ UNCHANGED <<broker, state, receipt, temp, file, evidence, cited>>

BridgeLaunch(u) ==
    /\ next[u] = "launch"
    /\ Launch(u, work[u].session, work[u].task)
    /\ Then(u, "launched", work[u])
    /\ UNCHANGED <<state, receipt, temp, file, evidence, cited>>

BridgeCapture(u) ==
    /\ Returned(u, "launched")
    /\ outcome[u] = "PASS"
    /\ Capture(u, work[u].session, work[u].task)
    /\ Then(u, "captured", work[u])
    /\ UNCHANGED <<state, receipt, temp, file, evidence, cited>>

\* The picture a capture of the bridge takes goes into the worktree.
BridgeGrab(u) ==
    /\ Grab(u)
    /\ temp' = IF next[u] = "captured"
               THEN [temp EXCEPT ![work[u].task] = table[seen[u].pid]]
               ELSE temp
    /\ UNCHANGED <<state, receipt, file, evidence, cited, next, work>>

\* A command that raises has failed.
Status(u) == IF outcome[u] = "raised" THEN "FAIL" ELSE outcome[u]

\* finally: the process is stopped whatever became of the capture.
BridgeStop(u) ==
    /\ Returned(u, "captured")
    /\ Stop(u, work[u].session, work[u].task)
    /\ Then(u, "stopped", [work[u] EXCEPT !.capture = Status(u)])
    /\ UNCHANGED <<state, receipt, temp, file, evidence, cited>>

\* The picture is copied out of the worktree, under the head that was read.
BridgeCopy(u) ==
    /\ Returned(u, "stopped")
    /\ LET t == work[u].task
           taken == work[u].capture = "PASS" /\ temp[t] # 0
       IN /\ file' = IF taken THEN [file EXCEPT ![t][work[u].head] = temp[t]] ELSE file
          /\ Then(u, "clear", [work[u] EXCEPT !.stop = Status(u),
                                              !.artifact = IF taken THEN temp[t] ELSE 0])
    /\ UNCHANGED <<broker, disturbed, state, receipt, temp, evidence, cited>>

\* Nothing was launched: nothing to capture, stop or copy.
BridgeSkip(u) ==
    /\ Returned(u, "launched")
    /\ outcome[u] # "PASS"
    /\ Then(u, "clear", work[u])
    /\ UNCHANGED <<broker, disturbed, state, receipt, temp, file, evidence, cited>>

BridgeClear(u) ==
    /\ next[u] = "clear"
    /\ temp' = [temp EXCEPT ![work[u].task] = 0]
    /\ Then(u, "record", work[u])
    /\ UNCHANGED <<broker, disturbed, state, receipt, file, evidence, cited>>

\* The head and the worktree are looked at again, for the result only: the
\* record is the same whether or not they changed.
BridgeRecord(u) ==
    /\ next[u] = "record"
    /\ evidence' = [evidence EXCEPT ![work[u].task] = Evidence(work[u])]
    /\ EndBridge(u)
    /\ UNCHANGED <<broker, disturbed, state, receipt, temp, file, cited>>

\* The copy fails, or Git does before the record is written: the exception
\* leaves the function, and the picture in the worktree.
BridgeFault(u) ==
    /\ Returned(u, "stopped") \/ next[u] = "record"
    /\ Disturb("fault")
    /\ EndBridge(u)
    /\ UNCHANGED <<broker, state, receipt, temp, file, evidence, cited>>

-------------------------------------------------------------------------------
(* review_with_visual_evidence *)

\* Mutant: the head of the evidence is not compared with the one under review.
ConfirmedAnyHead(t) ==
    /\ evidence[t].artifact # 0
    /\ evidence[t].artifact = file[t][evidence[t].head]
    /\ evidence[t].capture = "PASS"
    /\ evidence[t].stop = "PASS"

\* The checks that an acceptance requires: the evidence is for this head, the
\* picture is unchanged, capture and stop passed.
Confirmed(t) ==
    /\ evidence[t].head = receipt[t]
    /\ evidence[t].artifact # 0
    /\ evidence[t].artifact = file[t][evidence[t].head]
    /\ evidence[t].capture = "PASS"
    /\ evidence[t].stop = "PASS"

\* An acceptance that is not confirmed is blocked here and changes nothing.
ReviewContext(u, t, decision) ==
    /\ next[u] = "idle" /\ at[u] = "idle"
    /\ Context(t)
    /\ evidence[t] # NoEvidence
    /\ decision = "ACCEPTED" => Confirmed(t)
    /\ Then(u, "judge", Judgement(t, decision))
    /\ DisturbIf(Busy(u, t, {}), "overlap")
    /\ UNCHANGED <<broker, state, receipt, temp, file, evidence, cited>>

\* review_task decides, unless its own gates block an acceptance.
Judge(u) ==
    /\ next[u] = "judge"
    /\ LET t == work[u].task
           decision == work[u].decision
       IN /\ state[t] = "REVIEW_READY"
          /\ IF decision = "ACCEPTED" /\ ~ AtReceipt(t)
             THEN UNCHANGED <<state, cited>>
             ELSE /\ state' = [state EXCEPT ![t] = decision]
                  /\ cited' = [cited EXCEPT ![t] =
                        IF decision = "ACCEPTED" THEN work[u].read.artifact ELSE 0]
    /\ Then(u, "rewrite", work[u])
    /\ UNCHANGED <<broker, disturbed, receipt, temp, file, evidence>>

\* review_task raises: somebody else has decided.
JudgeTooLate(u) ==
    /\ next[u] = "judge"
    /\ state[work[u].task] # "REVIEW_READY"
    /\ EndBridge(u)
    /\ UNCHANGED <<broker, disturbed, state, receipt, temp, file, evidence, cited>>

\* The record that was read is written back with the decision.
Rewrite(u) ==
    /\ next[u] = "rewrite"
    /\ evidence' = [evidence EXCEPT ![work[u].task] = work[u].read]
    /\ EndBridge(u)
    /\ UNCHANGED <<broker, disturbed, state, receipt, temp, file, cited>>

-------------------------------------------------------------------------------
(* The worker, and the system. *)

\* Rework is dispatched again, and the worker reports what it has committed.
Resume(t) ==
    /\ state[t] = "REWORK"
    /\ state' = [state EXCEPT ![t] = "WORKING"]
    /\ UNCHANGED <<broker, disturbed, receipt, temp, file, evidence, cited, next, work>>

Report(t) ==
    /\ state[t] = "WORKING"
    /\ disk[t] \in Commits /\ temp[t] = 0
    /\ state' = [state EXCEPT ![t] = "REVIEW_READY"]
    /\ receipt' = [receipt EXCEPT ![t] = disk[t]]
    /\ UNCHANGED <<broker, disturbed, temp, file, evidence, cited, next, work>>

\* A worker moves its worktree while it works; later it is not supposed to.
WorkerMoves(t) ==
    /\ \E c \in Contents : disk' = [disk EXCEPT ![t] = c]
    /\ DisturbIf(state[t] # "WORKING", "work")
    /\ UNCHANGED <<born, table, signals, record, at, call, seen, outcome,
                   state, receipt, temp, file, evidence, cited, next, work>>

\* Somebody removes a picture that a command left behind.
Sweep(t) ==
    /\ temp[t] # 0
    /\ \A u \in Users : next[u] # "idle" => work[u].task # t
    /\ temp' = [temp EXCEPT ![t] = 0]
    /\ UNCHANGED <<broker, disturbed, state, receipt, file, evidence, cited, next, work>>

BrokerMoves ==
    /\ System \/ \E u \in Users : Continue(u)
    /\ UNCHANGED <<state, receipt, temp, file, evidence, cited, next, work>>

\* The broker's command runs in the process of the bridge's.
BridgeCrash(u) ==
    /\ next[u] # "idle" \/ at[u] # "idle"
    /\ Disturb("crash")
    /\ Return(u, "raised")
    /\ EndBridge(u)
    /\ UNCHANGED <<disk, born, table, signals, record, call,
                   state, receipt, temp, file, evidence, cited>>

ReviewNext ==
    \/ BrokerMoves
    \/ \E t \in Tasks : Resume(t) \/ Report(t) \/ WorkerMoves(t) \/ Sweep(t)
    \/ \E u \in Users :
        \/ \E t \in Tasks, s \in Sessions : CaptureContext(u, t, s)
        \/ BridgeLaunch(u)
        \/ BridgeCapture(u)
        \/ BridgeGrab(u)
        \/ BridgeStop(u)
        \/ BridgeCopy(u)
        \/ BridgeSkip(u)
        \/ BridgeClear(u)
        \/ BridgeRecord(u)
        \/ BridgeFault(u)
        \/ \E t \in Tasks, decision \in Decisions : ReviewContext(u, t, decision)
        \/ Judge(u)
        \/ JudgeTooLate(u)
        \/ Rewrite(u)
        \/ BridgeCrash(u)

ReviewSpec == ReviewInit /\ [][ReviewNext]_reviewVars

-------------------------------------------------------------------------------
(* Properties *)

\* Process i was started in the worktree of the task when it held c.
Pictures(i, t, c) ==
    /\ i \in Processes
    /\ born[i].kind = "godot"
    /\ born[i].root = t
    /\ born[i].shows = c

\* The picture an acceptance cites is of the accepted head: a process started in
\* the task's worktree when that was clean and at the head of the receipt.  It
\* is, whatever is killed, refused or fails, unless bridge commands overlap, a pid
\* changes hands, or the worker touches what is under review.
QuietlyPictured ==
    Happened \subseteq {"crash", "refused", "fault"} =>
        \A t \in Tasks : state[t] = "ACCEPTED" => Pictures(cited[t], t, receipt[t])

-------------------------------------------------------------------------------
(* The inductive invariant *)

Capturing(u) == next[u] \in {"launch", "launched", "captured", "stopped", "clear", "record"}
Judging(u) == next[u] \in {"judge", "rewrite"}

Statuses == Outcomes \union {"SKIPPED"}
Captures ==
    [task : Tasks, session : Sessions, head : Commits,
     capture : Statuses, stop : Statuses, artifact : Nat]
Evidences == [head : Commits, capture : Statuses, stop : Statuses, artifact : Nat]
Judgements ==
    [task : Tasks, session : {"none"}, decision : Decisions,
     read : Evidences]

BridgeSteps == {"idle", "launch", "launched", "captured", "stopped", "clear", "record",
                "judge", "rewrite"}

\* A capture has gathered, a review has read, an idle user has nothing.
WorkOK ==
    /\ next \in [Users -> BridgeSteps]
    /\ work \in [Users -> Captures \union Judgements \union {NoWork}]
    /\ \A u \in Users :
        /\ Capturing(u) => work[u] \in Captures
        /\ Judging(u) => work[u] \in Judgements

ReviewTypeOK ==
    /\ state \in [Tasks -> {"WORKING", "REVIEW_READY"} \union Decisions]
    /\ receipt \in [Tasks -> Commits]
    /\ temp \in [Tasks -> Nat]
    /\ file \in [Tasks -> [Commits -> Nat]]
    /\ evidence \in [Tasks -> Evidences \union {NoEvidence}]
    /\ cited \in [Tasks -> Nat]
    /\ WorkOK

\* The step of the broker's command that a step of the bridge waits for.
Calls(u) ==
    /\ at[u] # "idle" => call[u] = <<work[u].session, work[u].task>>
    /\ at[u] \in {"spawn", "settle", "save"} => next[u] = "launched"
    /\ at[u] = "grab" => next[u] = "captured"
    /\ at[u] \in {"close", "closing", "kill", "killing", "stopped"} => next[u] = "stopped"

Quiet == Happened \subseteq {"crash", "refused", "fault"}

\* Each task has one bridge command at most, and each session one capture.
OneBridge ==
    \A u, v \in Users :
        u # v /\ next[u] # "idle" /\ next[v] # "idle" =>
            /\ work[u].task # work[v].task
            /\ Capturing(u) /\ Capturing(v) => work[u].session # work[v].session

\* Nothing in the worktree moves once its receipt is there.
ReceiptKept == \A t \in Tasks : state[t] # "WORKING" => disk[t] = receipt[t]

NoneOrPictures(i, t, c) == i = 0 \/ Pictures(i, t, c)

\* What is kept of a capture is of the head that was read.
OfItsHead(kept, t) == kept = NoEvidence \/ NoneOrPictures(kept.artifact, t, kept.head)

\* A capture has the task and its head to itself, and what it holds, launches,
\* finds recorded, or has in the worktree is of that head.
CaptureTrue(u) ==
    LET t == work[u].task
        s == work[u].session
        c == work[u].head
    IN Capturing(u) =>
        /\ state[t] = "REVIEW_READY"
        /\ c = receipt[t]
        /\ at[u] \in {"settle", "save", "grab"} => Pictures(seen[u].identity, t, c)
        /\ next[u] = "launched" /\ at[u] = "idle" /\ outcome[u] = "PASS" =>
            /\ record[s].status = "RUNNING"
            /\ Pictures(record[s].identity, t, c)
        /\ NoneOrPictures(temp[t], t, c)
        /\ NoneOrPictures(work[u].artifact, t, c)

JudgeTrue(u) ==
    LET t == work[u].task
        read == work[u].read
    IN Judging(u) =>
        /\ OfItsHead(read, t)
        /\ next[u] = "judge" =>
            /\ state[t] = "REVIEW_READY"
            /\ work[u].decision = "ACCEPTED" => read.head = receipt[t] /\ read.artifact # 0

QuietInv ==
    /\ OneBridge
    /\ ReceiptKept
    /\ \A u \in Users : CaptureTrue(u) /\ JudgeTrue(u)
    /\ \A t \in Tasks : OfItsHead(evidence[t], t)
    /\ \A t \in Tasks : state[t] = "ACCEPTED" => Pictures(cited[t], t, receipt[t])

ReviewInv ==
    /\ BrokerInv
    /\ ReviewTypeOK
    /\ \A u \in Users : Calls(u)
    /\ Quiet => QuietInv
=============================================================================
