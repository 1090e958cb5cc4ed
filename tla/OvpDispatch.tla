------------------------------ MODULE OvpDispatch ------------------------------
(***************************************************************************)
(* The dispatch adapter of ovp_dispatch.py on top of OvpRuntime: it reads  *)
(* the manifest and checks the worktree without the lock, marks the task   *)
(* DISPATCHED and WORKING with two commands, runs one worker process in    *)
(* the worktree and hands what it reports to the receipt gate.             *)
(*                                                                         *)
(* Marks and receipts are the dispatchers' here: the worker has no access  *)
(* to the state of the runtime.  A worker moves its worktree only while a  *)
(* dispatcher waits for it, or as a stray: the child of a killed           *)
(* dispatcher, or what a worker that ran into its timeout had started.     *)
(***************************************************************************)
EXTENDS OvpRuntime

CONSTANT Dispatchers

VARIABLES
    disp,   \* what each dispatcher does, on which task, from which HEAD
    stray   \* is a process of an earlier worker left in the worktree

dispVars == <<disp, stray>>

\* "validate" has read the manifest; "mark" and "start" follow, "run" waits for
\* the worker, "submit" has its handoff, "gate" is inside submit_receipt, which
\* has saved the receipt in "answer".
Phases == {"idle", "validate", "mark", "marked", "start", "run", "submit", "gate",
           "answer"}

\* report is the ovp_state of the last result, "none" for an exception.
NoDispatch == [pc |-> "idle", resume |-> FALSE, report |-> "none"]

Active(t, d) == disp[t][d].pc # "idle"

-------------------------------------------------------------------------------

DispatchInit ==
    /\ Init
    /\ disp = [t \in Tasks |-> [d \in Dispatchers |-> NoDispatch]]
    /\ stray = [t \in Tasks |-> FALSE]

Enter(t, d, pc) == disp' = [disp EXCEPT ![t][d].pc = pc]

\* The dispatcher returns a result that names the task's state, or raises.
Return(t, d, report) ==
    disp' = [disp EXCEPT ![t][d] = [NoDispatch EXCEPT !.report = report]]

RuntimeStays == UNCHANGED vars

\* Mutant: --resume is accepted in the states of a fresh dispatch.
ReadTaskAnyState(t, d) ==
    /\ disp[t][d].pc = "idle"
    /\ \E resume \in BOOLEAN :
        /\ manifest[t].state \in {"READY", "REWORK", "WORKING"}
        /\ resume => \A e \in Dispatchers : ~ Active(t, e)
        /\ disp' = [disp EXCEPT ![t][d] =
                      [NoDispatch EXCEPT !.pc = "validate", !.resume = resume]]
    /\ RuntimeStays
    /\ UNCHANGED stray

\* dispatch_task reads the manifest.  The orchestrator resumes a task only when
\* no dispatcher is left on it.
ReadTask(t, d) ==
    /\ disp[t][d].pc = "idle"
    /\ \E resume \in BOOLEAN :
        /\ IF resume THEN /\ manifest[t].state = "WORKING"
                          /\ \A e \in Dispatchers : ~ Active(t, e)
                     ELSE manifest[t].state \in {"READY", "REWORK"}
        /\ disp' = [disp EXCEPT ![t][d] =
                      [NoDispatch EXCEPT !.pc = "validate", !.resume = resume]]
    /\ RuntimeStays
    /\ UNCHANGED stray

\* What _validate_workspace asks of the worktree, and the contract is there.
WorkspaceFits(t, d) ==
    /\ ws[t].present
    /\ ws[t].own
    /\ manifest[t].base_commit \in Reach(ws[t].head)
    /\ disp[t][d].resume \/ ws[t].clean
    /\ contract[t]

Validate(t, d) ==
    /\ disp[t][d].pc = "validate"
    /\ WorkspaceFits(t, d)
    /\ Enter(t, d, IF disp[t][d].resume THEN "start" ELSE "mark")
    /\ RuntimeStays
    /\ UNCHANGED stray

\* The worktree does not fit, or the provider is not installed.
ValidateRefuse(t, d) ==
    /\ disp[t][d].pc = "validate"
    /\ Return(t, d, "none")
    /\ RuntimeStays
    /\ UNCHANGED stray

DispatchMark(t, d) ==
    /\ disp[t][d].pc = "mark"
    /\ MarkDispatched(t)
    /\ Enter(t, d, "marked")
    /\ UNCHANGED stray

DispatchStart(t, d) ==
    /\ disp[t][d].pc = "marked"
    /\ MarkWorking(t)
    /\ Enter(t, d, "start")
    /\ UNCHANGED stray

\* mark_task raises: the transition is not valid any more, or the lock is held.
MarkRefuse(t, d) ==
    /\ \/ /\ disp[t][d].pc = "mark"
          /\ manifest[t].state \notin {"READY", "REWORK"} \/ cmd[t].pc # "idle"
       \/ /\ disp[t][d].pc = "marked"
          /\ manifest[t].state \notin {"DISPATCHED", "REWORK"} \/ cmd[t].pc # "idle"
    /\ Return(t, d, "none")
    /\ RuntimeStays
    /\ UNCHANGED stray

\* run_worker starts the provider in the worktree.
RunWorker(t, d) ==
    /\ disp[t][d].pc = "start"
    /\ disp' = [disp EXCEPT ![t][d].pc = "run"]
    /\ RuntimeStays
    /\ UNCHANGED stray

\* The worker exits with a handoff whose check ids are the acceptance ids.
WorkerReports(t, d) ==
    /\ disp[t][d].pc = "run"
    /\ Enter(t, d, "submit")
    /\ RuntimeStays
    /\ UNCHANGED stray

\* The worker fails or its handoff is not valid: the task "remains WORKING".
WorkerFails(t, d) ==
    /\ disp[t][d].pc = "run"
    /\ Return(t, d, "WORKING")
    /\ RuntimeStays
    /\ UNCHANGED stray

\* The worker runs into its timeout: it is killed, what it had started is not.
WorkerTimesOut(t, d) ==
    /\ disp[t][d].pc = "run"
    /\ Disturb
    /\ Return(t, d, "WORKING")
    /\ stray' = [stray EXCEPT ![t] = TRUE]
    /\ UNCHANGED <<dag, leader, tip, ws, manifest, contract, cmd>>

\* submit_receipt, with the result of its checks: refused, or REVIEW_READY.
DispatchSubmit(t, d) ==
    /\ disp[t][d].pc = "submit"
    /\ SubmitRead(t)
    /\ Enter(t, d, "gate")
    /\ UNCHANGED stray

SubmitNotPossible(t, d) ==
    /\ disp[t][d].pc = "submit"
    /\ \/ cmd[t].pc # "idle"
       \/ manifest[t].state \notin Receivable
       \/ ~ ws[t].present \/ ~ ws[t].own
       \/ ws[t].head = manifest[t].base_commit
    /\ Return(t, d, "WORKING")
    /\ RuntimeStays
    /\ UNCHANGED stray

\* The receipt is saved and the lock on its way out: the task is the reviewer's.
GateAccepts(t, d) ==
    /\ disp[t][d].pc = "gate"
    /\ SubmitSave(t)
    /\ disp' = [disp EXCEPT ![t][d] = [NoDispatch EXCEPT !.pc = "answer"]]
    /\ UNCHANGED stray

GateAnswers(t, d) ==
    /\ disp[t][d].pc = "answer"
    /\ Return(t, d, "REVIEW_READY")
    /\ RuntimeStays
    /\ UNCHANGED stray

\* What is left of submit_receipt raises: its lock file cannot be removed, or a
\* path it was given cannot be made an artifact.  dispatch_task takes that for
\* a refusal.
GateAnswerFails(t, d) ==
    /\ disp[t][d].pc = "answer"
    /\ Disturb
    /\ Return(t, d, "WORKING")
    /\ UNCHANGED <<dag, leader, tip, ws, manifest, contract, cmd, stray>>

GateRefuses(t, d) ==
    /\ disp[t][d].pc = "gate"
    /\ SubmitRefuse(t)
    /\ Return(t, d, "WORKING")
    /\ UNCHANGED stray

\* The dispatcher is killed; a worker it has started goes on without it.
DispatcherCrash(t, d) ==
    /\ Active(t, d)
    /\ Disturb
    /\ Return(t, d, "none")
    /\ stray' = [stray EXCEPT ![t] = @ \/ disp[t][d].pc = "run"]
    /\ IF disp[t][d].pc = "gate" THEN Finish(t) ELSE UNCHANGED cmd
    /\ UNCHANGED <<dag, leader, tip, ws, manifest, contract>>

-------------------------------------------------------------------------------

Dispatch(t, d) ==
    \/ ReadTask(t, d)
    \/ Validate(t, d)
    \/ ValidateRefuse(t, d)
    \/ DispatchMark(t, d)
    \/ DispatchStart(t, d)
    \/ MarkRefuse(t, d)
    \/ RunWorker(t, d)
    \/ WorkerReports(t, d)
    \/ WorkerFails(t, d)
    \/ WorkerTimesOut(t, d)
    \/ DispatchSubmit(t, d)
    \/ SubmitNotPossible(t, d)
    \/ GateAccepts(t, d)
    \/ GateAnswers(t, d)
    \/ GateAnswerFails(t, d)
    \/ GateRefuses(t, d)
    \/ DispatcherCrash(t, d)

\* A process of a worker is in the worktree.
WorkerAlive(t) == stray[t] \/ \E d \in Dispatchers : disp[t][d].pc = "run"

\* The commands of the runtime that are not the dispatcher's.
Orchestrate(t) ==
    \/ PrepareRead(t)
    \/ PrepareWorktree(t)
    \/ PrepareRefuse(t)
    \/ PrepareSave(t)
    \/ PrepareContract(t)
    \/ ReviewRead(t)
    \/ ReviewDecide(t)
    \/ CleanupRemove(t)
    \/ CleanupSave(t)
    \/ cmd[t].pc # "receipt" /\ Crash(t)

DispatchNext ==
    \E t \in Tasks :
        \/ Orchestrate(t) /\ UNCHANGED dispVars
        \/ WorkerAlive(t) /\ Worker(t) /\ UNCHANGED dispVars
        \/ \E d \in Dispatchers : Dispatch(t, d)

DispatchSpec == DispatchInit /\ [][DispatchNext]_<<vars, dispVars>>

-------------------------------------------------------------------------------
(* Properties *)

HasWorktree(t, d) == disp[t][d].pc \in {"marked", "start", "run", "submit", "gate"}

\* However many dispatchers read the same READY or REWORK task and whatever
\* order their marks come in, one at most has the worktree for its worker.
OneWorkerAtATime ==
    \A t \in Tasks : \A d, e \in Dispatchers :
        HasWorktree(t, d) /\ HasWorktree(t, e) => d = e

\* What a dispatcher may rely on: while it has the worktree the manifest is in
\* the state it marked, a resumed task is WORKING and nobody else's, and a
\* receipt on its way to the gate is a dispatcher's.
DispatchInv ==
    /\ disp \in [Tasks -> [Dispatchers ->
            [pc : Phases, resume : BOOLEAN,
             report : {"none", "WORKING", "REVIEW_READY"}]]]
    /\ stray \in [Tasks -> BOOLEAN]
    /\ \A t \in Tasks : \A d \in Dispatchers :
        /\ HasWorktree(t, d) =>
            manifest[t].state = IF disp[t][d].pc = "marked" THEN "DISPATCHED"
                                                          ELSE "WORKING"
        /\ Active(t, d) /\ disp[t][d].resume =>
            /\ manifest[t].state = "WORKING"
            /\ \A e \in Dispatchers : Active(t, e) => e = d
        /\ disp[t][d].pc = "gate" => cmd[t].pc = "receipt"
        /\ disp[t][d].pc = "answer" => manifest[t].receipt # NoCommit
    /\ OneWorkerAtATime

\* What is accepted keeps to the scope and passed "git diff --check", as long as no
\* process of an earlier worker is left in the worktree: nobody tells a worker to
\* keep still, but that of a dispatch has ended when its receipt is made.
DispatchedInScope ==
    \A t \in Tasks :
        ~ stray[t] /\ manifest[t].state \in Integrated \union {"ACCEPTED"} =>
            dag[manifest[t].receipt].diff = "inside"

\* A result that names a state names one the task was taken to.  WORKING is the
\* manifest's when it is reported, so the task can be resumed, unless
\* submit_receipt raised after it had saved; REVIEW_READY is reported of a task
\* whose receipt is recorded, however far the reviewer has got with it since.
ReportsTheState ==
    [][\A t \in Tasks : \A d \in Dispatchers :
        Active(t, d) /\ disp'[t][d].pc = "idle" =>
            /\ disp'[t][d].report = "WORKING" /\ disp[t][d].pc # "answer" =>
                manifest'[t].state = "WORKING"
            /\ disp'[t][d].report = "REVIEW_READY" =>
                manifest'[t].receipt # NoCommit]_<<vars, dispVars>>
=============================================================================
