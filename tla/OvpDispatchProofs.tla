--------------------------- MODULE OvpDispatchProofs ---------------------------
(***************************************************************************)
(* However many dispatchers run on however many tasks, a worktree has one  *)
(* worker at a time, and what is proved of the runtime's manifests goes on *)
(* to hold when dispatchers drive it.                                      *)
(***************************************************************************)
EXTENDS OvpDispatch, OvpRuntimeProofs

\* What the manifest and the other dispatchers owe to a dispatcher in state r.
Backed(t, d, r, m, c) ==
    /\ r.pc \in {"marked", "start", "run", "submit", "gate"} =>
        /\ m.state = IF r.pc = "marked" THEN "DISPATCHED" ELSE "WORKING"
        /\ \A e \in Dispatchers : HasWorktree(t, e) => e = d
    /\ r.pc # "idle" /\ r.resume =>
        /\ m.state = "WORKING"
        /\ \A e \in Dispatchers : Active(t, e) => e = d
    /\ r.pc = "gate" => c = "receipt"
    /\ r.pc = "answer" => m.receipt # NoCommit

\* A receipt that is there can be replaced, not taken back.
ReceiptsStay ==
    \A s \in Tasks :
        manifest[s].receipt # NoCommit => manifest'[s].receipt # NoCommit

DispatchRecord ==
    [pc : Phases, resume : BOOLEAN,
     report : {"none", "WORKING", "REVIEW_READY"}]

-------------------------------------------------------------------------------

\* A dispatcher moves, and what the others rely on stays as it is.
LEMMA DispatcherMoves ==
  ASSUME DispatchInv, NEW t \in Tasks, NEW d \in Dispatchers,
         NEW r \in DispatchRecord,
         disp' = [disp EXCEPT ![t][d] = r],
         stray' \in [Tasks -> BOOLEAN],
         Active(t, d) \/ \A e \in Dispatchers : Active(t, e) => ~ disp[t][e].resume,
         Backed(t, d, r, manifest'[t], cmd'[t].pc),
         \A s \in Tasks : s # t =>
            manifest'[s] = manifest[s] /\ cmd'[s].pc = cmd[s].pc,
         ReceiptsStay,
         \A e \in Dispatchers \ {d} :
            /\ HasWorktree(t, e) \/ (Active(t, e) /\ disp[t][e].resume) =>
                manifest'[t].state = manifest[t].state
            /\ disp[t][e].pc = "gate" => cmd'[t].pc = cmd[t].pc
  PROVE  DispatchInv'
<1>1. /\ disp'[t][d] = r
      /\ \A s \in Tasks : \A e \in Dispatchers :
            s # t \/ e # d => disp'[s][e] = disp[s][e]
      /\ disp' \in [Tasks -> [Dispatchers -> DispatchRecord]]
  BY DEF DispatchInv, DispatchRecord
<1>2. OneWorkerAtATime'
  BY <1>1 DEF OneWorkerAtATime, DispatchInv, HasWorktree, Backed
<1>3. ASSUME NEW s \in Tasks, NEW e \in Dispatchers, HasWorktree(s, e)'
      PROVE  manifest'[s].state = IF disp'[s][e].pc = "marked" THEN "DISPATCHED"
                                                              ELSE "WORKING"
  <2>1. CASE s = t /\ e = d
    BY <2>1, <1>1, <1>3 DEF HasWorktree, Backed
  <2>2. CASE s # t \/ e # d
    <3>1. disp'[s][e] = disp[s][e] /\ HasWorktree(s, e)
      BY <2>2, <1>1, <1>3 DEF HasWorktree
    <3>2. manifest'[s].state = manifest[s].state
      BY <2>2, <3>1
    <3> QED
      BY <3>1, <3>2 DEF DispatchInv
  <2> QED
    BY <2>1, <2>2
<1>4. ASSUME NEW s \in Tasks, NEW e \in Dispatchers, Active(s, e)', disp'[s][e].resume
      PROVE  /\ manifest'[s].state = "WORKING"
             /\ \A f \in Dispatchers : Active(s, f)' => f = e
  <2>1. CASE s = t /\ e = d
    BY <2>1, <1>1, <1>4 DEF Active, Backed
  <2>2. CASE s # t \/ e # d
    <3>1. disp'[s][e] = disp[s][e] /\ Active(s, e) /\ disp[s][e].resume
      BY <2>2, <1>1, <1>4 DEF Active
    <3>2. manifest[s].state = "WORKING" /\ \A f \in Dispatchers : Active(s, f) => f = e
      BY <3>1 DEF DispatchInv
    <3>3. s # t
      BY <2>2, <3>1, <3>2
    <3> QED
      BY <3>2, <3>3, <1>1 DEF Active
  <2> QED
    BY <2>1, <2>2
<1>5. ASSUME NEW s \in Tasks, NEW e \in Dispatchers, disp'[s][e].pc = "gate"
      PROVE  cmd'[s].pc = "receipt"
  <2>1. CASE s = t /\ e = d
    BY <2>1, <1>1, <1>5 DEF Backed
  <2>2. CASE s # t \/ e # d
    <3>1. disp[s][e].pc = "gate"
      BY <2>2, <1>1, <1>5
    <3>2. cmd'[s].pc = cmd[s].pc
      BY <2>2, <3>1
    <3> QED
      BY <3>1, <3>2 DEF DispatchInv
  <2> QED
    BY <2>1, <2>2
<1>6. ASSUME NEW s \in Tasks, NEW e \in Dispatchers, disp'[s][e].pc = "answer"
      PROVE  manifest'[s].receipt # NoCommit
  <2>1. CASE s = t /\ e = d
    BY <2>1, <1>1, <1>6 DEF Backed
  <2>2. CASE s # t \/ e # d
    BY <2>2, <1>1, <1>6 DEF ReceiptsStay, DispatchInv
  <2> QED
    BY <2>1, <2>2
<1> QED
  BY <1>1, <1>2, <1>3, <1>4, <1>5, <1>6 DEF DispatchInv, DispatchRecord

\* Nothing a dispatcher relies on changes.
LEMMA DispatchersStay ==
  ASSUME DispatchInv, UNCHANGED dispVars, ReceiptsStay,
         \A s \in Tasks : \A e \in Dispatchers :
            /\ HasWorktree(s, e) \/ (Active(s, e) /\ disp[s][e].resume) =>
                manifest'[s].state = manifest[s].state
            /\ disp[s][e].pc = "gate" => cmd'[s].pc = cmd[s].pc
  PROVE  DispatchInv'
<1>1. UNCHANGED <<disp, stray>>
  BY DEF dispVars
<1>2. OneWorkerAtATime' /\ \A t \in Tasks : \A d \in Dispatchers :
        /\ HasWorktree(t, d)' = HasWorktree(t, d)
        /\ Active(t, d)' = Active(t, d)
  BY <1>1 DEF DispatchInv, OneWorkerAtATime, HasWorktree, Active
<1>3. ASSUME NEW t \in Tasks, NEW d \in Dispatchers
      PROVE  /\ HasWorktree(t, d) => manifest'[t].state =
                    IF disp[t][d].pc = "marked" THEN "DISPATCHED" ELSE "WORKING"
             /\ Active(t, d) /\ disp[t][d].resume =>
                    /\ manifest'[t].state = "WORKING"
                    /\ \A e \in Dispatchers : Active(t, e) => e = d
             /\ disp[t][d].pc = "gate" => cmd'[t].pc = "receipt"
             /\ disp[t][d].pc = "answer" => manifest'[t].receipt # NoCommit
  BY DEF DispatchInv, ReceiptsStay
<1> QED
  BY <1>1, <1>2, <1>3 DEF DispatchInv

-------------------------------------------------------------------------------

\* Only a receipt and the two marks touch what OvpRuntime describes.
LEMMA DispatchKeepsRuntime ==
  ASSUME IndInv, NEW t \in Tasks, NEW d \in Dispatchers, Dispatch(t, d)
  PROVE  IndInv'
<1>1. CASE RuntimeStays
  BY <1>1, NextKeeps DEF RuntimeStays
<1>2. CASE MarkDispatched(t) \/ MarkWorking(t) \/ SubmitRead(t) \/ SubmitSave(t)
           \/ SubmitRefuse(t)
  BY <1>2, MarkKeeps, SubmitKeeps
<1>3. CASE DispatcherCrash(t, d) \/ WorkerTimesOut(t, d) \/ GateAnswerFails(t, d)
  <2>1. UNCHANGED <<dag, leader, tip, ws, manifest, contract>> /\ events' \in Nat
    BY <1>3 DEF DispatcherCrash, WorkerTimesOut, GateAnswerFails, Disturb, IndInv, TypeOK
  <2>2. Finish(t) \/ UNCHANGED cmd
    BY <1>3 DEF DispatcherCrash, WorkerTimesOut, GateAnswerFails
  <2>3. cmd' \in [Tasks -> Command] /\ CommandInv'
    BY <2>1, <2>2, CommandStops DEF IndInv, TypeOK, CommandInv
  <2> QED
    BY <2>1, <2>3, RepositoryStays, CommandMoves DEF IndInv, TypeOK
<1> QED
  BY <1>1, <1>2, <1>3
     DEF Dispatch, ReadTask, Validate, ValidateRefuse, DispatchMark, DispatchStart,
         MarkRefuse, RunWorker, WorkerReports, WorkerFails, DispatchSubmit,
         SubmitNotPossible, GateAccepts, GateAnswers, GateRefuses

\* A dispatcher that has the worktree moves on with it: nobody else has it.
LEMMA HolderMoves ==
  ASSUME DispatchInv, NEW t \in Tasks, NEW d \in Dispatchers,
         NEW r \in DispatchRecord, HasWorktree(t, d),
         disp' = [disp EXCEPT ![t][d] = r],
         UNCHANGED stray,
         r.pc \in {"start", "gate"},
         r.resume = disp[t][d].resume,
         ReceiptsStay,
         manifest'[t].state = "WORKING",
         r.pc = "gate" => cmd'[t].pc = "receipt",
         \A s \in Tasks : s # t => manifest'[s] = manifest[s] /\ cmd'[s] = cmd[s]
  PROVE  DispatchInv'
<1>1. Active(t, d)
  BY DEF HasWorktree, Active
<1>2. \A e \in Dispatchers : HasWorktree(t, e) => e = d
  BY DEF DispatchInv, OneWorkerAtATime
<1>3. \A e \in Dispatchers : Active(t, e) /\ disp[t][e].resume => e = d
  BY <1>1 DEF DispatchInv
<1>4. \A e \in Dispatchers : disp[t][e].pc = "gate" => HasWorktree(t, e)
  BY DEF HasWorktree
<1>5. Backed(t, d, r, manifest'[t], cmd'[t].pc)
  BY <1>1, <1>2 DEF Backed, DispatchInv
<1>6. stray' \in [Tasks -> BOOLEAN]
  BY DEF DispatchInv
<1> QED
  BY <1>1, <1>2, <1>3, <1>4, <1>5, <1>6, DispatcherMoves

\* A dispatcher is done with the worktree: only the one at the gate has a
\* command to end.
LEMMA DispatcherLeaves ==
  ASSUME DispatchInv, NEW t \in Tasks, NEW d \in Dispatchers,
         NEW r \in DispatchRecord, r.pc \in {"idle", "answer"}, ~ r.resume,
         disp' = [disp EXCEPT ![t][d] = r],
         r.pc = "answer" => manifest'[t].receipt # NoCommit,
         Active(t, d),
         stray' \in [Tasks -> BOOLEAN],
         ReceiptsStay,
         UNCHANGED <<manifest, cmd>> \/ disp[t][d].pc = "gate",
         \A s \in Tasks : s # t => manifest'[s] = manifest[s] /\ cmd'[s] = cmd[s]
  PROVE  DispatchInv'
<1>1. Backed(t, d, r, manifest'[t], cmd'[t].pc)
  BY DEF Backed
<1>2. disp[t][d].pc = "gate" =>
        \A e \in Dispatchers \ {d} :
            ~ HasWorktree(t, e) /\ ~ (Active(t, e) /\ disp[t][e].resume)
  BY DEF DispatchInv, OneWorkerAtATime, HasWorktree, Active
<1>3. \A e \in Dispatchers : disp[t][e].pc = "gate" => HasWorktree(t, e)
  BY DEF HasWorktree
<1> QED
  BY <1>1, <1>2, <1>3, DispatcherMoves

\* A dispatcher returns.
LEMMA DispatcherReturns ==
  ASSUME DispatchInv, NEW t \in Tasks, NEW d \in Dispatchers,
         NEW rep \in {"none", "WORKING", "REVIEW_READY"}, Return(t, d, rep),
         Active(t, d),
         stray' \in [Tasks -> BOOLEAN],
         UNCHANGED manifest,
         UNCHANGED cmd \/ disp[t][d].pc = "gate",
         \A s \in Tasks : s # t => cmd'[s] = cmd[s]
  PROVE  DispatchInv'
<1> DEFINE r == [NoDispatch EXCEPT !.report = rep]
<1>1. /\ r \in DispatchRecord /\ r.pc = "idle" /\ ~ r.resume
      /\ disp' = [disp EXCEPT ![t][d] = r]
  BY DEF Return, NoDispatch, NoCommit, DispatchRecord, Phases
<1>2. ReceiptsStay
  BY DEF ReceiptsStay
<1> HIDE DEF r
<1> QED
  BY <1>1, <1>2, DispatcherLeaves

\* A dispatcher that only reads, waits or returns.
LEMMA DispatcherWaits ==
  ASSUME IndInv, DispatchInv, NEW t \in Tasks, NEW d \in Dispatchers,
         \/ ReadTask(t, d) \/ Validate(t, d) \/ ValidateRefuse(t, d)
         \/ MarkRefuse(t, d) \/ RunWorker(t, d) \/ WorkerReports(t, d)
         \/ WorkerFails(t, d) \/ SubmitNotPossible(t, d) \/ WorkerTimesOut(t, d)
         \/ GateAnswers(t, d) \/ GateAnswerFails(t, d) \/ GateRefuses(t, d)
         \/ DispatcherCrash(t, d)
  PROVE  DispatchInv'
<1> DEFINE old == disp[t][d]
<1>0. UNCHANGED manifest /\ ReceiptsStay
  BY DEF ReceiptsStay, ReadTask, Validate, ValidateRefuse, MarkRefuse, RunWorker,
         WorkerReports, WorkerFails, SubmitNotPossible, WorkerTimesOut, GateAnswers,
         GateAnswerFails, GateRefuses, SubmitRefuse, DispatcherCrash, RuntimeStays, vars
<1>1. old \in DispatchRecord /\ ws[t].head \in Nat /\ stray \in [Tasks -> BOOLEAN]
  BY Fields DEF DispatchInv, DispatchRecord, IndInv, CommitIds, TypeOK, Latest
<1>2. CASE ReadTask(t, d)
  <2>1. PICK resume \in BOOLEAN :
          /\ IF resume THEN /\ manifest[t].state = "WORKING"
                            /\ \A e \in Dispatchers : ~ Active(t, e)
                       ELSE manifest[t].state \in {"READY", "REWORK"}
          /\ disp' = [disp EXCEPT ![t][d] =
                        [NoDispatch EXCEPT !.pc = "validate", !.resume = resume]]
    BY <1>2 DEF ReadTask
  <2> DEFINE r == [NoDispatch EXCEPT !.pc = "validate", !.resume = resume]
  <2>2. r \in DispatchRecord /\ r.pc = "validate" /\ r.resume = resume
    BY DEF NoDispatch, NoCommit, DispatchRecord, Phases
  <2>3. \A e \in Dispatchers : Active(t, e) => ~ disp[t][e].resume
    BY <2>1 DEF DispatchInv
  <2>4. UNCHANGED <<manifest, cmd, stray>>
    BY <1>2 DEF ReadTask, RuntimeStays, vars
  <2>5. Backed(t, d, r, manifest'[t], cmd'[t].pc)
    BY <2>1, <2>2, <2>4 DEF Backed
  <2> HIDE DEF r
  <2> QED
    BY <2>1, <2>2, <2>3, <2>4, <2>5, <1>0, <1>1, DispatcherMoves DEF r
<1>3. CASE Validate(t, d)
  <2> DEFINE r == [old EXCEPT !.pc = IF old.resume THEN "start" ELSE "mark"]
  <2>1. r \in DispatchRecord /\ disp' = [disp EXCEPT ![t][d] = r] /\ r.resume = old.resume
    BY <1>1, <1>3 DEF Validate, Enter, DispatchRecord, Phases, DispatchInv
  <2>2. Active(t, d) /\ UNCHANGED <<manifest, cmd, stray>>
    BY <1>3 DEF Validate, Active, RuntimeStays, vars
  <2>3. Backed(t, d, r, manifest'[t], cmd'[t].pc)
    BY <2>2, <1>1 DEF Backed, DispatchInv, HasWorktree, Active, DispatchRecord
  <2> HIDE DEF r
  <2> QED
    BY <2>1, <2>2, <2>3, <1>0, <1>1, DispatcherMoves
<1>4. CASE RunWorker(t, d)
  <2> DEFINE r == [old EXCEPT !.pc = "run"]
  <2>1. r \in DispatchRecord /\ disp' = [disp EXCEPT ![t][d] = r]
    BY <1>1, <1>4 DEF RunWorker, DispatchRecord, Phases, DispatchInv
  <2>2. Active(t, d) /\ HasWorktree(t, d) /\ UNCHANGED <<manifest, cmd, stray>>
    BY <1>4 DEF RunWorker, Active, HasWorktree, RuntimeStays, vars
  <2>3. Backed(t, d, r, manifest'[t], cmd'[t].pc)
    BY <2>2, <1>1, <1>4
       DEF RunWorker, Backed, DispatchInv, OneWorkerAtATime, DispatchRecord
  <2> HIDE DEF r
  <2> QED
    BY <2>1, <2>2, <2>3, <1>0, <1>1, DispatcherMoves
<1>5. CASE WorkerReports(t, d)
  <2> DEFINE r == [old EXCEPT !.pc = "submit"]
  <2>1. r \in DispatchRecord /\ disp' = [disp EXCEPT ![t][d] = r]
    BY <1>1, <1>5 DEF WorkerReports, Enter, DispatchRecord, Phases, DispatchInv
  <2>2. Active(t, d) /\ HasWorktree(t, d) /\ UNCHANGED <<manifest, cmd, stray>>
    BY <1>5 DEF WorkerReports, Active, HasWorktree, RuntimeStays, vars
  <2>3. Backed(t, d, r, manifest'[t], cmd'[t].pc)
    BY <2>2, <1>1, <1>5
       DEF WorkerReports, Backed, DispatchInv, OneWorkerAtATime, DispatchRecord
  <2> HIDE DEF r
  <2> QED
    BY <2>1, <2>2, <2>3, <1>0, <1>1, DispatcherMoves
<1>6. CASE \/ ValidateRefuse(t, d) \/ MarkRefuse(t, d) \/ WorkerFails(t, d)
           \/ SubmitNotPossible(t, d) \/ WorkerTimesOut(t, d) \/ DispatcherCrash(t, d)
           \/ GateAnswers(t, d) \/ GateAnswerFails(t, d) \/ GateRefuses(t, d)
  <2> USE DEF ValidateRefuse, MarkRefuse, WorkerFails, SubmitNotPossible, WorkerTimesOut,
              DispatcherCrash, GateAnswers, GateAnswerFails, GateRefuses
  <2>1. \E rep \in {"none", "WORKING", "REVIEW_READY"} : Return(t, d, rep)
    BY <1>6
  <2>2. Active(t, d) /\ stray' \in [Tasks -> BOOLEAN]
    BY <1>1, <1>6 DEF Active
  <2>3. UNCHANGED cmd \/ (old.pc = "gate" /\ Finish(t))
    BY <1>6 DEF RuntimeStays, vars, SubmitRefuse
  <2>4. \A s \in Tasks : s # t => cmd'[s] = cmd[s]
    BY <2>3 DEF Finish, IndInv, TypeOK
  <2> QED
    BY <2>1, <2>2, <2>3, <2>4, <1>0, DispatcherReturns
<1> QED
  BY <1>2, <1>3, <1>4, <1>5, <1>6

\* A dispatcher that has a command of the runtime done.
LEMMA DispatcherCommands ==
  ASSUME IndInv, DispatchInv, NEW t \in Tasks, NEW d \in Dispatchers,
         \/ DispatchMark(t, d) \/ DispatchStart(t, d) \/ DispatchSubmit(t, d)
         \/ GateAccepts(t, d)
  PROVE  DispatchInv'
<1> DEFINE old == disp[t][d]
<1>1. old \in DispatchRecord /\ stray \in [Tasks -> BOOLEAN] /\ UNCHANGED stray
  BY DEF DispatchInv, DispatchRecord, DispatchMark, DispatchStart, DispatchSubmit,
         GateAccepts
<1>2. \A s \in Tasks : s # t => manifest'[s] = manifest[s] /\ cmd'[s] = cmd[s]
  BY DEF IndInv, TypeOK, Continue, Finish, SaveManifest, DispatchMark, MarkDispatched,
         DispatchStart, MarkWorking, DispatchSubmit, SubmitRead, GateAccepts, SubmitSave
<1>0. ReceiptsStay
  <2>1. CASE GateAccepts(t, d)
    BY <2>1, <1>2, SubmitWrites DEF GateAccepts, ReceiptsStay
  <2>2. CASE DispatchMark(t, d) \/ DispatchStart(t, d)
    <3>1. StepOf(t)
      BY <2>2 DEF DispatchMark, DispatchStart, StepOf, Begin
    <3>2. manifest[t].receipt # NoCommit => manifest'[t].receipt # NoCommit
      BY <3>1, Kept, SubmitWrites
    <3> QED
      BY <3>2, <1>2 DEF ReceiptsStay
  <2>3. CASE DispatchSubmit(t, d)
    BY <2>3 DEF DispatchSubmit, SubmitRead, ReceiptsStay
  <2> QED
    BY <2>1, <2>2, <2>3
<1>3. CASE DispatchMark(t, d)
  <2> DEFINE r == [old EXCEPT !.pc = "marked"]
  <2>1. r \in DispatchRecord /\ disp' = [disp EXCEPT ![t][d] = r]
    BY <1>1, <1>3 DEF DispatchMark, Enter, DispatchRecord, Phases, DispatchInv
  <2>2. /\ old.pc = "mark" /\ Active(t, d) /\ UNCHANGED cmd
        /\ manifest[t].state \in {"READY", "REWORK"}
        /\ manifest'[t].state = "DISPATCHED"
    BY <1>3, Fields DEF DispatchMark, MarkDispatched, SaveManifest, Active, Manifest,
                        IndInv, TypeOK
  <2>3. /\ ~ old.resume
        /\ \A e \in Dispatchers :
              ~ HasWorktree(t, e) /\ ~ (Active(t, e) /\ disp[t][e].resume)
                /\ disp[t][e].pc # "gate"
    BY <2>2 DEF DispatchInv, HasWorktree
  <2>4. Backed(t, d, r, manifest'[t], cmd'[t].pc)
    BY <2>1, <2>2, <2>3, <1>1 DEF Backed, DispatchRecord
  <2> HIDE DEF r
  <2> QED
    BY <2>1, <2>2, <2>3, <2>4, <1>0, <1>1, <1>2, DispatcherMoves
<1>4. CASE DispatchStart(t, d)
  <2> DEFINE r == [old EXCEPT !.pc = "start"]
  <2>1. r \in DispatchRecord /\ disp' = [disp EXCEPT ![t][d] = r]
    BY <1>1, <1>4 DEF DispatchStart, Enter, DispatchRecord, Phases, DispatchInv
  <2>2. /\ old.pc = "marked" /\ Active(t, d) /\ HasWorktree(t, d) /\ UNCHANGED cmd
        /\ manifest'[t].state = "WORKING"
    BY <1>4, Fields DEF DispatchStart, MarkWorking, SaveManifest, Active, HasWorktree,
                        Manifest, IndInv, TypeOK
  <2> HIDE DEF r
  <2> QED
    BY <2>1, <2>2, <1>0, <1>1, <1>2, HolderMoves DEF r, DispatchRecord
<1>5. CASE DispatchSubmit(t, d)
  <2> DEFINE r == [old EXCEPT !.pc = "gate"]
  <2>1. r \in DispatchRecord /\ disp' = [disp EXCEPT ![t][d] = r]
    BY <1>1, <1>5 DEF DispatchSubmit, Enter, DispatchRecord, Phases, DispatchInv
  <2>2. /\ old.pc = "submit" /\ Active(t, d) /\ HasWorktree(t, d) /\ UNCHANGED manifest
        /\ cmd'[t].pc = "receipt"
    BY <1>5 DEF DispatchSubmit, SubmitRead, Continue, Active, HasWorktree, IndInv, TypeOK
  <2>3. manifest'[t].state = "WORKING"
    BY <2>2 DEF DispatchInv
  <2> HIDE DEF r
  <2> QED
    BY <2>1, <2>2, <2>3, <1>0, <1>1, <1>2, HolderMoves DEF r, DispatchRecord
<1>6. CASE GateAccepts(t, d)
  <2> DEFINE r == [NoDispatch EXCEPT !.pc = "answer"]
  <2>1. r \in DispatchRecord /\ r.pc = "answer" /\ ~ r.resume
    BY DEF NoDispatch, NoCommit, DispatchRecord, Phases
  <2>2. /\ disp' = [disp EXCEPT ![t][d] = r] /\ old.pc = "gate" /\ Active(t, d)
        /\ manifest'[t].receipt # NoCommit
    BY <1>6, SubmitWrites DEF GateAccepts, Active
  <2> HIDE DEF r
  <2> QED
    BY <2>1, <2>2, <1>0, <1>1, <1>2, DispatcherLeaves
<1> QED
  BY <1>3, <1>4, <1>5, <1>6


\* The rest of the world leaves a dispatcher its worktree and its state.
LEMMA OthersKeep ==
  ASSUME IndInv, DispatchInv, UNCHANGED dispVars,
         NEW t \in Tasks, Orchestrate(t) \/ Worker(t)
  PROVE  IndInv' /\ DispatchInv'
<1>1. IndInv'
  BY NextKeeps DEF Orchestrate, Next, Begin, Proceed
<1>2. manifest'[t].state = manifest[t].state
        \/ manifest[t].state \notin {"DISPATCHED", "WORKING"}
  <2>1. CASE PrepareSave(t)
    BY <2>1 DEF PrepareSave, CommandInv, IndInv
  <2>2. CASE ReviewDecide(t)
    BY <2>2 DEF ReviewDecide, CommandInv, IndInv
  <2>3. CASE CleanupSave(t)
    BY <2>3 DEF CleanupSave, CommandInv, IndInv, FINAL_STATES
  <2>4. CASE UNCHANGED manifest
    BY <2>4
  <2> QED
    BY <2>1, <2>2, <2>3, <2>4
       DEF Orchestrate, Worker, PrepareRead, PrepareWorktree, PrepareRefuse,
           PrepareContract, ReviewRead, CleanupRemove, Crash,
           WorkerCommit, WorkerReset, WorkerEdit, WorkerSwitch
<1>3. /\ \A s \in Tasks : s # t => manifest'[s] = manifest[s] /\ cmd'[s] = cmd[s]
      /\ cmd[t].pc = "receipt" => cmd'[t] = cmd[t]
  <2> USE DEF IndInv, TypeOK, Continue, Finish, SaveManifest
  <2>1. CASE Worker(t)
    BY <2>1 DEF Worker, WorkerCommit, WorkerReset, WorkerEdit, WorkerSwitch
  <2>2. CASE PrepareRead(t) \/ PrepareWorktree(t) \/ PrepareRefuse(t)
             \/ PrepareSave(t) \/ PrepareContract(t)
    BY <2>2 DEF PrepareRead, PrepareWorktree, PrepareRefuse, PrepareSave, PrepareContract
  <2>3. CASE ReviewRead(t) \/ ReviewDecide(t) \/ CleanupRemove(t) \/ CleanupSave(t)
    BY <2>3 DEF ReviewRead, ReviewDecide, CleanupRemove, CleanupSave
  <2>4. CASE cmd[t].pc # "receipt" /\ Crash(t)
    BY <2>4 DEF Crash
  <2> QED
    BY <2>1, <2>2, <2>3, <2>4 DEF Orchestrate
<1>4. ASSUME NEW s \in Tasks, NEW e \in Dispatchers,
             HasWorktree(s, e) \/ (Active(s, e) /\ disp[s][e].resume)
      PROVE  manifest'[s].state = manifest[s].state
  <2>1. manifest[s].state \in {"DISPATCHED", "WORKING"}
    BY <1>4 DEF DispatchInv
  <2> QED
    BY <2>1, <1>2, <1>3
<1>5. ASSUME NEW s \in Tasks, NEW e \in Dispatchers, disp[s][e].pc = "gate"
      PROVE  cmd'[s].pc = cmd[s].pc
  <2>1. cmd[s].pc = "receipt"
    BY <1>5 DEF DispatchInv
  <2> QED
    BY <2>1, <1>3
<1>6. ReceiptsStay
  <2>1. StepOf(t)
    BY DEF Orchestrate, StepOf, Begin, Proceed
  <2>2. manifest[t].receipt # NoCommit => manifest'[t].receipt # NoCommit
    BY <2>1, Kept, SubmitWrites
  <2> QED
    BY <2>2, <1>3 DEF ReceiptsStay
<1> QED
  BY <1>1, <1>4, <1>5, <1>6, DispatchersStay

\* What a dispatcher reports when it returns: one that reports WORKING has had the
\* worktree till then, so the task was WORKING whatever the others did, or it was
\* at its answer, and one that reports REVIEW_READY has come from there.
LEMMA ReturnsTheState ==
  ASSUME IndInv, DispatchInv, NEW t \in Tasks, NEW d \in Dispatchers, Dispatch(t, d),
         Active(t, d), disp'[t][d].pc = "idle"
  PROVE  /\ disp'[t][d].report = "WORKING" /\ disp[t][d].pc # "answer" =>
                manifest'[t].state = "WORKING"
         /\ disp'[t][d].report = "REVIEW_READY" => manifest'[t].receipt # NoCommit
<1>1. ASSUME NEW rep \in {"none", "WORKING", "REVIEW_READY"}, Return(t, d, rep)
      PROVE  disp'[t][d].report = rep
  BY <1>1 DEF Return, NoDispatch, DispatchInv
<1>2. ASSUME NEW pc \in Phases \ {"idle"}, Enter(t, d, pc)
      PROVE  FALSE
  BY <1>2 DEF Enter, DispatchInv
<1>3. /\ disp[t][d].pc \in {"run", "submit", "gate"} => manifest[t].state = "WORKING"
      /\ disp[t][d].pc = "answer" => manifest[t].receipt # NoCommit
  BY DEF DispatchInv, HasWorktree
<1>4. CASE WorkerFails(t, d) \/ WorkerTimesOut(t, d) \/ SubmitNotPossible(t, d)
           \/ GateRefuses(t, d)
  <2>1. disp'[t][d].report = "WORKING"
    BY <1>4, <1>1 DEF WorkerFails, WorkerTimesOut, SubmitNotPossible, GateRefuses
  <2>2. UNCHANGED manifest /\ disp[t][d].pc \in {"run", "submit", "gate"}
    BY <1>4 DEF WorkerFails, WorkerTimesOut, SubmitNotPossible, GateRefuses,
                RuntimeStays, vars, SubmitRefuse
  <2> QED
    BY <2>1, <2>2, <1>3
<1>5. CASE GateAnswers(t, d)
  <2>1. disp'[t][d].report = "REVIEW_READY" /\ UNCHANGED manifest
    BY <1>5, <1>1 DEF GateAnswers, RuntimeStays, vars
  <2> QED
    BY <2>1, <1>3, <1>5 DEF GateAnswers
<1>6. CASE GateAnswerFails(t, d)
  BY <1>6, <1>1 DEF GateAnswerFails
<1>7. CASE ValidateRefuse(t, d) \/ MarkRefuse(t, d) \/ DispatcherCrash(t, d)
  BY <1>7, <1>1 DEF ValidateRefuse, MarkRefuse, DispatcherCrash
<1>8. ~ ReadTask(t, d)
  BY DEF ReadTask, Active
<1>9. ~ GateAccepts(t, d)
  BY DEF GateAccepts, NoDispatch, DispatchInv
<1>10. ~ (DispatchMark(t, d) \/ DispatchStart(t, d) \/ WorkerReports(t, d)
          \/ DispatchSubmit(t, d) \/ RunWorker(t, d) \/ Validate(t, d))
  BY <1>2 DEF DispatchMark, DispatchStart, WorkerReports, DispatchSubmit, RunWorker,
              Validate, Enter, Phases
<1> QED
  BY <1>4, <1>5, <1>6, <1>7, <1>8, <1>9, <1>10 DEF Dispatch

\* A dispatcher that is not at work on a task leaves what it does there alone.
LEMMA OneDispatcherMoves ==
  ASSUME DispatchInv, NEW t \in Tasks, NEW d \in Dispatchers, Dispatch(t, d),
         NEW s \in Tasks, NEW e \in Dispatchers, s # t \/ e # d
  PROVE  disp'[s][e] = disp[s][e]
<1> USE DEF DispatchInv
<1>1. CASE ReadTask(t, d) \/ GateAccepts(t, d)
  <2>1. PICK r : disp' = [disp EXCEPT ![t][d] = r]
    BY <1>1 DEF ReadTask, GateAccepts
  <2> QED
    BY <2>1
<1>2. CASE (\E pc \in Phases : Enter(t, d, pc)) \/ RunWorker(t, d)
  BY <1>2 DEF Enter, RunWorker
<1>3. CASE \E rep \in {"none", "WORKING", "REVIEW_READY"} : Return(t, d, rep)
  BY <1>3 DEF Return
<1>4. CASE DispatchMark(t, d) \/ DispatchStart(t, d) \/ WorkerReports(t, d)
           \/ DispatchSubmit(t, d) \/ Validate(t, d)
  BY <1>4, <1>2 DEF DispatchMark, DispatchStart, WorkerReports, DispatchSubmit, Validate,
                    Phases
<1>5. CASE ValidateRefuse(t, d) \/ MarkRefuse(t, d) \/ DispatcherCrash(t, d)
           \/ WorkerFails(t, d) \/ WorkerTimesOut(t, d) \/ SubmitNotPossible(t, d)
           \/ GateRefuses(t, d) \/ GateAnswers(t, d) \/ GateAnswerFails(t, d)
  BY <1>5, <1>3 DEF ValidateRefuse, MarkRefuse, DispatcherCrash, WorkerFails, WorkerTimesOut,
                    SubmitNotPossible, GateRefuses, GateAnswers, GateAnswerFails
<1> QED
  BY <1>1, <1>2, <1>4, <1>5 DEF Dispatch

-------------------------------------------------------------------------------
(* What is accepted, and the protocol *)

\* Dispatchers integrate nothing, a receipt is that of a dispatcher at the gate,
\* and without a stray process it is of the head that is looked at.
DispatchedInv ==
    \A t \in Tasks :
        /\ cmd[t].pc \notin {"apply", "abort", "record"}
        /\ manifest[t].state \notin Integrated
        /\ cmd[t].pc = "receipt" => \E d \in Dispatchers : disp[t][d].pc = "gate"
        /\ ~ stray[t] => Scoped(t)

RuntimeKept == UNCHANGED <<dag, leader, tip, ws, manifest, contract, cmd>>

\* A step of a dispatcher is one of the runtime, of a command or a crash on its
\* task, or it changes no more than the count of the disturbances.
LEMMA DispatchIsStep ==
  ASSUME IndInv, DispatchInv, NEW t \in Tasks, NEW d \in Dispatchers, Dispatch(t, d)
  PROVE  StepOf(t) \/ RuntimeKept
<1>1. CASE RuntimeStays
  BY <1>1 DEF RuntimeStays, vars, RuntimeKept
<1>2. CASE DispatchMark(t, d) \/ DispatchStart(t, d) \/ DispatchSubmit(t, d)
           \/ GateAccepts(t, d) \/ GateRefuses(t, d)
  BY <1>2 DEF DispatchMark, DispatchStart, DispatchSubmit, GateAccepts, GateRefuses,
              StepOf, Begin, Proceed
<1>3. CASE WorkerTimesOut(t, d) \/ GateAnswerFails(t, d)
  BY <1>3 DEF WorkerTimesOut, GateAnswerFails, RuntimeKept
<1>4. CASE DispatcherCrash(t, d)
  <2>1. CASE disp[t][d].pc = "gate"
    <3>1. cmd[t].pc = "receipt"
      BY <2>1 DEF DispatchInv
    <3>2. Crash(t)
      BY <1>4, <2>1, <3>1 DEF DispatcherCrash, Crash
    <3> QED
      BY <3>2 DEF StepOf
  <2>2. CASE disp[t][d].pc # "gate"
    BY <1>4, <2>2 DEF DispatcherCrash, RuntimeKept
  <2> QED
    BY <2>1, <2>2
<1> QED
  BY <1>1, <1>2, <1>3, <1>4
     DEF Dispatch, ReadTask, Validate, ValidateRefuse, MarkRefuse, RunWorker,
         WorkerReports, WorkerFails, SubmitNotPossible, GateAnswers

\* So is every step of the dispatchers, the orchestrator and the workers.
LEMMA DispatchIsNext ==
  ASSUME IndInv, DispatchInv, DispatchNext
  PROVE  Next \/ RuntimeKept
<1>1. ASSUME NEW t \in Tasks, Orchestrate(t) \/ Worker(t) PROVE Next
  BY <1>1 DEF Orchestrate, Next, Begin, Proceed
<1>2. ASSUME NEW t \in Tasks, NEW d \in Dispatchers, Dispatch(t, d)
      PROVE  Next \/ RuntimeKept
  BY <1>2, DispatchIsStep DEF StepOf, Next
<1> QED
  BY <1>1, <1>2 DEF DispatchNext

\* Nobody integrates here, and the leader's checkout stays as it is.
LEMMA DispatchKeepsLeader ==
  ASSUME IndInv, DispatchInv, DispatchedInv, DispatchNext
  PROVE  UNCHANGED leader
<1>1. ASSUME NEW t \in Tasks, StepOf(t) PROVE UNCHANGED leader
  <2>1. ~ Integrates(t) /\ ~ IntegrateAbort(t)
    BY DEF DispatchedInv, Integrates, IntegrateApply, IntegrateFail, IntegrateTimeout,
           IntegrateAbort
  <2> QED
    BY <1>1, <2>1, Writers DEF IndInv
<1>2. ASSUME NEW t \in Tasks, Orchestrate(t) \/ Worker(t) PROVE StepOf(t)
  BY <1>2 DEF Orchestrate, StepOf, Begin, Proceed
<1>3. ASSUME NEW t \in Tasks, NEW d \in Dispatchers, Dispatch(t, d)
      PROVE  UNCHANGED leader
  BY <1>1, <1>3, DispatchIsStep DEF RuntimeKept
<1> QED
  BY <1>1, <1>2, <1>3 DEF DispatchNext

\* What the dispatchers do keeps all that is known of the runtime.
LEMMA DispatchKeepsStrong ==
  ASSUME StrongInv, DispatchInv, DispatchNext, IndInv'
  PROVE  StrongInv'
<1>1. CASE Next
  BY <1>1, StrongKeeps
<1>2. CASE RuntimeKept
  BY <1>2, CountingKeeps DEF RuntimeKept
<1> QED
  BY <1>1, <1>2, DispatchIsNext DEF StrongInv

\* The commands that begin or go on, and whose receipt it is.
LEMMA CommandsOfDispatch ==
  ASSUME IndInv, DispatchInv, DispatchNext, NEW t \in Tasks
  PROVE  \/ cmd'[t] = cmd[t]
         \/ cmd'[t].pc \in {"idle", "worktree", "manifest", "contract", "review", "cleanup"}
         \/ \E d \in Dispatchers : DispatchSubmit(t, d)
<1> USE DEF IndInv, TypeOK
<1>1. ASSUME NEW s \in Tasks, Orchestrate(s)
      PROVE  \/ cmd'[t] = cmd[t]
             \/ cmd'[t].pc \in {"idle", "worktree", "manifest", "contract", "review", "cleanup"}
  <2>1. CASE PrepareRead(s) \/ PrepareWorktree(s) \/ PrepareRefuse(s) \/ PrepareSave(s)
             \/ PrepareContract(s)
    BY <2>1 DEF PrepareRead, PrepareWorktree, PrepareRefuse, PrepareSave, PrepareContract,
                Continue, Finish, Idle
  <2>2. CASE ReviewRead(s) \/ ReviewDecide(s) \/ CleanupRemove(s) \/ CleanupSave(s)
             \/ Crash(s)
    BY <2>2 DEF ReviewRead, ReviewDecide, CleanupRemove, CleanupSave, Crash,
                Continue, Finish, Idle
  <2> QED
    BY <1>1, <2>1, <2>2 DEF Orchestrate
<1>2. ASSUME NEW s \in Tasks, Worker(s) PROVE cmd'[t] = cmd[t]
  BY <1>2 DEF Worker, WorkerCommit, WorkerReset, WorkerEdit, WorkerSwitch
<1>3. ASSUME NEW s \in Tasks, NEW d \in Dispatchers, Dispatch(s, d), ~ DispatchSubmit(s, d)
      PROVE  cmd'[t] = cmd[t] \/ cmd'[t].pc = "idle"
  <2>1. UNCHANGED cmd \/ Finish(s)
    BY <1>3 DEF Dispatch, ReadTask, Validate, ValidateRefuse, DispatchMark, DispatchStart,
         MarkRefuse, RunWorker, WorkerReports, WorkerFails, WorkerTimesOut,
         SubmitNotPossible, GateAccepts, GateAnswers,
         GateAnswerFails, GateRefuses, DispatcherCrash, RuntimeStays, vars,
         MarkDispatched, MarkWorking, SubmitSave, SubmitRefuse
  <2> QED
    BY <2>1 DEF Finish, Idle
<1>4. ASSUME NEW s \in Tasks, NEW d \in Dispatchers, DispatchSubmit(s, d), s # t
      PROVE  cmd'[t] = cmd[t]
  BY <1>4 DEF DispatchSubmit, SubmitRead, Continue
<1> QED
  BY <1>1, <1>2, <1>3, <1>4 DEF DispatchNext

\* A dispatcher leaves the gate together with its command.
LEMMA GateStays ==
  ASSUME IndInv, DispatchInv, DispatchNext, NEW t \in Tasks, NEW d \in Dispatchers,
         disp[t][d].pc = "gate", cmd'[t].pc # "idle"
  PROVE  disp'[t][d].pc = "gate"
<1> USE DEF IndInv, TypeOK
<1>1. CASE UNCHANGED dispVars
  BY <1>1 DEF dispVars
<1>2. ASSUME NEW s \in Tasks, NEW e \in Dispatchers, Dispatch(s, e), s # t \/ e # d
      PROVE  disp'[t][d] = disp[t][d]
  BY <1>2, OneDispatcherMoves
<1>3. ASSUME Dispatch(t, d) PROVE FALSE
  <2>1. GateAccepts(t, d) \/ GateRefuses(t, d) \/ DispatcherCrash(t, d)
    BY <1>3 DEF Dispatch, ReadTask, Validate, ValidateRefuse, DispatchMark, DispatchStart,
         MarkRefuse, RunWorker, WorkerReports, WorkerFails, WorkerTimesOut, DispatchSubmit,
         SubmitNotPossible, GateAnswers, GateAnswerFails
  <2>2. Finish(t)
    BY <2>1 DEF GateAccepts, GateAnswers,
         GateAnswerFails, GateRefuses, DispatcherCrash, SubmitSave, SubmitRefuse
  <2> QED
    BY <2>2 DEF Finish, Idle
<1> QED
  BY <1>1, <1>2, <1>3 DEF DispatchNext

\* While a receipt is made, no worker moves a worktree without strays: its
\* dispatcher would have the worktree together with the one at the gate.
LEMMA HeadStaysAtGate ==
  ASSUME IndInv, DispatchInv, DispatchedInv, DispatchNext, NEW t \in Tasks,
         ~ stray[t], cmd'[t] = cmd[t], cmd[t].pc = "receipt"
  PROVE  ws'[t].head = ws[t].head
<1>1. PICK d \in Dispatchers : disp[t][d].pc = "gate"
  BY DEF DispatchedInv
<1>2. ~ WorkerAlive(t)
  BY <1>1 DEF WorkerAlive, DispatchInv, OneWorkerAtATime, HasWorktree
<1>3. CASE RuntimeKept
  BY <1>3 DEF RuntimeKept
<1>4. ASSUME NEW s \in Tasks, s # t, StepOf(s) PROVE ws'[t].head = ws[t].head
  BY <1>4, OthersStay DEF IndInv
<1>5. ASSUME StepOf(t), ~ Worker(t) PROVE ws'[t].head = ws[t].head
  BY <1>5, WorktreeHeads
<1>6. ASSUME NEW s \in Tasks, Orchestrate(s) PROVE StepOf(s)
  BY <1>6 DEF Orchestrate, StepOf, Begin, Proceed
<1>7. ASSUME NEW s \in Tasks, Worker(s) PROVE StepOf(s)
  BY <1>7 DEF StepOf
<1>8. ASSUME Orchestrate(t), Worker(t) PROVE ws'[t].head = ws[t].head
  <2>1. UNCHANGED ws \/ PrepareWorktree(t) \/ CleanupRemove(t)
    BY <1>8 DEF Orchestrate, PrepareRead, PrepareRefuse, PrepareSave, PrepareContract,
         ReviewRead, ReviewDecide, CleanupSave, Crash
  <2>2. cmd'[t].pc # "receipt" \/ UNCHANGED ws
    BY <2>1 DEF PrepareWorktree, CleanupRemove, Continue, IndInv, TypeOK
  <2> QED
    BY <2>2
<1>9. ASSUME NEW e \in Dispatchers, Dispatch(t, e) PROVE UNCHANGED ws
  BY <1>9 DEF Dispatch, ReadTask, Validate, ValidateRefuse, DispatchMark, DispatchStart,
         MarkRefuse, RunWorker, WorkerReports, WorkerFails, WorkerTimesOut, DispatchSubmit,
         SubmitNotPossible, GateAccepts, GateAnswers,
         GateAnswerFails, GateRefuses, DispatcherCrash, RuntimeStays, vars,
         MarkDispatched, MarkWorking, SubmitRead, SubmitSave, SubmitRefuse
<1> QED
  BY <1>2, <1>3, <1>4, <1>5, <1>6, <1>7, <1>8, <1>9, DispatchIsStep DEF DispatchNext

\* Strays are never taken back.
LEMMA StraysStay ==
  ASSUME DispatchInv, DispatchNext, NEW t \in Tasks, stray[t]
  PROVE  stray'[t]
<1>1. ASSUME NEW s \in Tasks, NEW d \in Dispatchers, Dispatch(s, d)
      PROVE  \/ UNCHANGED stray
             \/ stray' = [stray EXCEPT ![s] = TRUE]
             \/ stray' = [stray EXCEPT ![s] = stray[s] \/ disp[s][d].pc = "run"]
  BY <1>1 DEF Dispatch, ReadTask, Validate, ValidateRefuse, DispatchMark, DispatchStart,
         MarkRefuse, RunWorker, WorkerReports, WorkerFails, WorkerTimesOut, DispatchSubmit,
         SubmitNotPossible, GateAccepts, GateAnswers,
         GateAnswerFails, GateRefuses, DispatcherCrash
<1> QED
  BY <1>1 DEF DispatchNext, dispVars, DispatchInv

\* DispatchedInv is kept.
LEMMA DispatchedKeeps ==
  ASSUME IndInv, DispatchInv, DispatchedInv, DispatchNext
  PROVE  DispatchedInv'
<1> SUFFICES ASSUME NEW t \in Tasks
             PROVE  /\ cmd'[t].pc \notin {"apply", "abort", "record"}
                    /\ manifest'[t].state \notin Integrated
                    /\ cmd'[t].pc = "receipt" =>
                        \E d \in Dispatchers : disp'[t][d].pc = "gate"
                    /\ ~ stray'[t] => Scoped(t)'
  BY DEF DispatchedInv
<1>1. /\ cmd[t].pc \notin {"apply", "abort", "record"}
      /\ manifest[t].state \notin Integrated
      /\ cmd[t].pc = "receipt" => \E d \in Dispatchers : disp[t][d].pc = "gate"
      /\ ~ stray[t] => Scoped(t)
  BY DEF DispatchedInv
<1>2. StepOf(t) \/ Same(t)
  <2>1. CASE Next
    BY <2>1, SameOrStep
  <2>2. CASE RuntimeKept
    BY <2>2 DEF RuntimeKept, Same
  <2> QED
    BY <2>1, <2>2, DispatchIsNext
<1>3. ASSUME NEW d \in Dispatchers, DispatchSubmit(t, d)
      PROVE  cmd'[t].pc = "receipt" /\ disp'[t][d].pc = "gate"
  BY <1>3 DEF DispatchSubmit, SubmitRead, Enter, Continue, IndInv, TypeOK, DispatchInv
<1>4. cmd'[t].pc \notin {"apply", "abort", "record"}
  BY <1>1, <1>3, CommandsOfDispatch
<1>5. manifest'[t].state \notin Integrated
  <2>1. ~ IntegrateSave(t) /\ ~ RecordProof(t)
    BY <1>1 DEF IntegrateSave, RecordProof, Integrated
  <2> QED
    BY <1>1, <1>2, <2>1, Moved DEF Same, Integrated, Decided
<1>6. cmd'[t].pc = "receipt" => \E d \in Dispatchers : disp'[t][d].pc = "gate"
  BY <1>1, <1>3, CommandsOfDispatch, GateStays
<1>7. ASSUME ~ stray'[t] PROVE Scoped(t)'
  <2>1. ~ stray[t]
    BY <1>7, StraysStay
  <2>2. Latest \in Nat /\ \A k \in 1 .. Latest : dag'[k] = dag[k]
    BY Grows, DispatchIsNext DEF RuntimeKept, IndInv, TypeOK, Latest
  <2>3. cmd'[t] = cmd[t] /\ cmd[t].pc = "receipt" => ws'[t].head = ws[t].head
    BY <2>1, HeadStaysAtGate
  <2> QED
    BY <1>1, <1>2, <2>1, <2>2, <2>3, ScopedMoves
<1> QED
  BY <1>4, <1>5, <1>6, <1>7

-------------------------------------------------------------------------------
(* The theorems *)

\* The strengthened invariant of the runtime and of its dispatchers.
THEOREM DispatchInductive == DispatchSpec => [](IndInv /\ DispatchInv)
<1>1. DispatchInit => IndInv /\ DispatchInv
  <2>1. DispatchInit => DispatchInv
    BY DEF DispatchInit, DispatchInv, NoDispatch, NoCommit, Phases, HasWorktree, Active,
           OneWorkerAtATime
  <2> QED
    BY <2>1, InitInv DEF DispatchInit
<1>2. IndInv /\ DispatchInv /\ [DispatchNext]_<<vars, dispVars>>
        => IndInv' /\ DispatchInv'
  <2> SUFFICES ASSUME IndInv, DispatchInv, [DispatchNext]_<<vars, dispVars>>
               PROVE  IndInv' /\ DispatchInv'
    OBVIOUS
  <2>1. ASSUME NEW t \in Tasks, NEW d \in Dispatchers, Dispatch(t, d)
        PROVE  IndInv' /\ DispatchInv'
    BY <2>1, DispatchKeepsRuntime, DispatcherWaits, DispatcherCommands DEF Dispatch
  <2>2. ASSUME NEW t \in Tasks, Orchestrate(t) \/ Worker(t), UNCHANGED dispVars
        PROVE  IndInv' /\ DispatchInv'
    BY <2>2, OthersKeep
  <2>3. CASE UNCHANGED <<vars, dispVars>>
    BY <2>3, NextKeeps, DispatchersStay DEF vars, ReceiptsStay
  <2> QED
    BY <2>1, <2>2, <2>3 DEF DispatchNext
<1> QED
  BY <1>1, <1>2, PTL DEF DispatchSpec

\* However many dispatchers race for a task, one at most is past its first mark
\* with the worktree: the two marks, each under the lock, are enough.
THEOREM OneWorker == DispatchSpec => []OneWorkerAtATime
<1>1. DispatchInv => OneWorkerAtATime
  BY DEF DispatchInv
<1> QED
  BY <1>1, DispatchInductive, PTL

\* A result that names a state names one the task was taken to, whoever else has
\* been at it: unless submit_receipt raised after it had saved, a task reported
\* WORKING is WORKING and can be resumed.
THEOREM ResultsAreTrue == DispatchSpec => ReportsTheState
<1> DEFINE A == \A t \in Tasks : \A d \in Dispatchers :
                  Active(t, d) /\ disp'[t][d].pc = "idle" =>
                    /\ disp'[t][d].report = "WORKING" /\ disp[t][d].pc # "answer" =>
                        manifest'[t].state = "WORKING"
                    /\ disp'[t][d].report = "REVIEW_READY" =>
                        manifest'[t].receipt # NoCommit
<1>1. IndInv /\ DispatchInv /\ [DispatchNext]_<<vars, dispVars>>
        => [A]_<<vars, dispVars>>
  <2> SUFFICES ASSUME IndInv, DispatchInv, DispatchNext,
                      NEW t \in Tasks, NEW d \in Dispatchers,
                      Active(t, d), disp'[t][d].pc = "idle"
               PROVE  /\ disp'[t][d].report = "WORKING" /\ disp[t][d].pc # "answer" =>
                            manifest'[t].state = "WORKING"
                      /\ disp'[t][d].report = "REVIEW_READY" =>
                            manifest'[t].receipt # NoCommit
    OBVIOUS
  <2>1. disp'[t][d] # disp[t][d]
    BY DEF Active
  <2>2. ~ UNCHANGED dispVars
    BY <2>1 DEF dispVars
  <2>3. PICK s \in Tasks, e \in Dispatchers : Dispatch(s, e)
    BY <2>2 DEF DispatchNext
  <2>4. s = t /\ e = d
    BY <2>1, <2>3, OneDispatcherMoves
  <2> QED
    BY <2>3, <2>4, ReturnsTheState
<1> QED
  BY <1>1, DispatchInductive, PTL DEF DispatchSpec, ReportsTheState

\* All that is known of the runtime's repository and records holds with the
\* dispatchers too, and what is known of the receipts they make.
THEOREM DispatchedInductive == DispatchSpec => [](StrongInv /\ DispatchInv /\ DispatchedInv)
<1>1. DispatchInit => StrongInv /\ DispatchedInv
  <2>1. ASSUME DispatchInit PROVE DispatchedInv
    <3>1. \A t \in Tasks : cmd[t].pc = "idle" /\ manifest[t].state = "absent"
      BY <2>1 DEF DispatchInit, Init, Idle, NoManifest
    <3> QED
      BY <3>1 DEF DispatchedInv, Scoped, Integrated
  <2> QED
    BY <2>1, InitStrong DEF DispatchInit
<1>2. StrongInv /\ DispatchInv /\ DispatchedInv /\ IndInv' /\ [DispatchNext]_<<vars, dispVars>>
        => StrongInv' /\ DispatchedInv'
  <2> SUFFICES ASSUME StrongInv, DispatchInv, DispatchedInv, IndInv',
                      [DispatchNext]_<<vars, dispVars>>
               PROVE  StrongInv' /\ DispatchedInv'
    OBVIOUS
  <2>1. CASE DispatchNext
    BY <2>1, DispatchKeepsStrong, DispatchedKeeps DEF StrongInv
  <2>2. CASE UNCHANGED <<vars, dispVars>>
    <3>1. StrongInv'
      BY <2>2, StrongKeeps
    <3>2. DispatchedInv'
      BY <2>2 DEF DispatchedInv, dispVars, vars, Scoped
    <3> QED
      BY <3>1, <3>2
  <2> QED
    BY <2>1, <2>2
<1> QED
  BY <1>1, <1>2, DispatchInductive, PTL DEF DispatchSpec

\* What the runtime promises of its records and of the work in worktrees and
\* branches holds when dispatchers race, time out and are killed.
THEOREM DispatchKeepsPromises ==
  DispatchSpec => [](EvidenceBound /\ ManifestBacked) /\ NothingDestroyed
<1>1. IndInv => EvidenceBound /\ ManifestBacked
  BY DEF IndInv
<1>2. IndInv /\ DispatchInv /\ [DispatchNext]_<<vars, dispVars>>
        => [\A t \in Tasks : Spared(t)]_vars
  <2> SUFFICES ASSUME IndInv, DispatchInv, [DispatchNext]_<<vars, dispVars>>,
                      NEW t \in Tasks
               PROVE  Spared(t) \/ UNCHANGED vars
    OBVIOUS
  <2>1. CASE [Next]_vars
    BY <2>1, NextSpares
  <2>2. CASE RuntimeKept
    BY <2>2 DEF RuntimeKept, Spared
  <2> QED
    BY <2>1, <2>2, DispatchIsNext DEF vars
<1> QED
  BY <1>1, <1>2, DispatchInductive, PTL DEF DispatchSpec, NothingDestroyed, Spared

\* Whatever workers do while their dispatcher waits for them, what is accepted of
\* a task no stray process is left on keeps to the scope: the dispatcher hands in
\* the receipt when its worker is gone, and nobody else has the worktree.
THEOREM DispatchStaysInScope == DispatchSpec => []DispatchedInScope
<1>1. DispatchedInv => DispatchedInScope
  BY DEF DispatchedInv, DispatchedInScope, Scoped
<1> QED
  BY <1>1, DispatchedInductive, PTL

\* Tasks that dispatchers race for, crash on and resume walk through the protocol
\* all the same, for any workers and any strategies: every step is one of
\* OvpProtocol or a stutter.
THEOREM DispatchImplementsProtocol == DispatchSpec => ImplementsProtocol
<1>1. DispatchInit => Protocol!Init
  <2> SUFFICES ASSUME Init PROVE Protocol!Init
    BY DEF DispatchInit
  <2> QED
    BY ProtocolInit
<1>2. StrongInv /\ DispatchInv /\ DispatchedInv /\ [DispatchNext]_<<vars, dispVars>>
        => [Protocol!Next]_(Protocol!vars)
  <2> SUFFICES ASSUME StrongInv, DispatchInv, DispatchedInv,
                      [DispatchNext]_<<vars, dispVars>>
               PROVE  Protocol!Next \/ UNCHANGED Protocol!vars
    OBVIOUS
  <2>1. CASE Next
    <3>1. \A t \in Tasks : ~ IntegrateSave(t) /\ ~ RecordProof(t)
      BY DEF DispatchedInv, IntegrateSave, RecordProof, Integrated
    <3>2. UNCHANGED leader
      BY DispatchKeepsLeader DEF StrongInv, vars
    <3> QED
      BY <2>1, <3>1, <3>2, StepMaps DEF Protocol!vars, States, Evidences, Lands
  <2>2. CASE RuntimeKept
    BY <2>2 DEF RuntimeKept, Protocol!vars, Revs, Reach, Patches
  <2>3. Next \/ RuntimeKept
    BY DispatchIsNext DEF vars, RuntimeKept, StrongInv
  <2> QED
    BY <2>1, <2>2, <2>3
<1> QED
  BY <1>1, <1>2, DispatchedInductive, PTL DEF DispatchSpec, ImplementsProtocol, Protocol!Spec
===============================================================================
