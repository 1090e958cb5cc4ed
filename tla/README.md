# MADO LOOP in TLA+

Specifications of the parts of MADO LOOP that keep state, run concurrently or
decide for others: the mutation boundary for delegated coding tasks (OVP) with
the lock and the manifests under it, the adapter that dispatches workers, the
visual broker and the review it feeds, the runs that share the allowance for
model calls, the worker swarms and the rules of which worker may see which data,
the strategy advice with its evidence ledger, and the records on disk (skill
feedback, evaluation results, vendored snapshots). TLC checks them on small
instances, TLAPS proves the most important properties for all instances.

`S` below is `src/.agents/skills/mado-loop/scripts`, and `docs` is
`src/.agents/skills/mado-loop/references`.

## Inventory

| Component | State it keeps | Operations | Interacts with | Hard behaviour |
|---|---|---|---|---|
| OVP runtime, `S/ovp_runtime.py` | per task: `manifest.json`, `receipt.json`, `AI_CREOLE.txt`, a lock file, a Git worktree and a branch | prepare, mark, receipt, review, integrate, proof, cleanup, status | Git in the leader checkout and in the worktrees; workers and users move both | commands race per task (lock) and across tasks (shared checkout); Git state is read in one call and used in another; commands are killed; Git fails or times out |
| OVP dispatch, `S/ovp_dispatch.py` | `dispatch/latest.json`, captured output | dispatch, resume, dry run | runtime (mark, receipt), one worker process | reads the manifest without the lock; worker timeouts; stray processes; killed dispatcher |
| Visual broker, `S/visual_broker.py` | one state file per session | launch, capture, stop | a Godot process, its window | no lock; pid reuse; killed between start and save |
| OVP visual review, `S/ovp_visual_review.py` | `visual-review.json`, the picture | capture, review | broker, runtime's review | evidence for one HEAD, used for another |
| Budget governor, `S/budget_governor_v2.py`, with `codex_plus_budget.py`, `codex_plus_lane.py`, `codex_plus_swarm.py` | run ledger, observations of the remaining quota | plan, run | provider lanes in threads | fallback after a partial failure, caps, unlocked files |
| Routers and swarms, `S/provider_router.py`, `worker_swarm.py`, `adaptive_swarm.py`, `nvidia_*.py` | none, or a report | route, fan out, review, report | remote providers, in a pool of threads | a route decided by role, tier, default, profile and consent; calls that fail; a reviewer after the team |
| Strategy advice, `S/capability_*.py`, `strategy_resolver.py`, `strategy_shadow_compare.py` | a snapshot file, a comparison file | validate, probe, resolve, snapshot, compare | the capability registry, programs and keys of the machine | files handed from command to command while the registry and the machine change |
| Evidence ledger, `S/shadow_evidence.py` | one ledger file | capture, join, materialize | comparisons, results | read, append and replace without a lock |
| Skill feedback, `S/record_skill_feedback.py` | ledger, statistics | record | the skill selector | two files, no lock, killed in between |
| Results, `S/common/result.py` and the proof adapters, `S/eval_result.py`, `compare_eval_results.py`, `validate_eval_case.py`, `make_proof_sheet.py` | none | build, validate and compare results | every tool | precedence of FAIL, UNKNOWN, WARN; a sequence of promotions |
| Packaging, `src/scripts/update_vendor.py`, `package.py` | the vendored snapshot, its backup, the archive | update, package | each other, through the directory | a replacement in several file operations |
| Classification, `S/classify_*.py`, `select_skills.py` | none | keyword scoring of a text | | |
| Tools, `S/common/godot_*.py`, `sprite_processor.py`, `mado_doctor.py`, `release_audit.py`, the PowerShell installers | none | run a program, inspect, install | | pure I/O |
| Vendored payloads, `vendor/` | | | | third-party, left aside |

What makes each correct:

* runtime: a lock excludes and is always freed; no saved transition is lost;
  what is accepted, integrated and proved is one and the same commit; only that
  commit lands; no command destroys work; a crash or failure leaves a task that
  can go on; every task is closed in the end;
* dispatch: one worker per worktree; a failed dispatch leaves the task WORKING
  and says so; no receipt without new work;
* broker and visual review: only the broker's own process is stopped, every
  process it starts is stopped, and the accepted picture shows the accepted head;
* governor and lanes: a payload goes only where it may, every permitted lane is
  tried before a role is given up, Luna is called once per role at most and every
  call is in the ledger, a tighter allowance never leads to more spending;
* swarms: no text goes to a provider that its sensitivity and the consents
  forbid, the verdict is that of all the calls, and every run ends;
* advice: READY rests on what was seen, and router, registry and resolver agree on
  who may see what;
* ledgers: no event is lost and none is there twice, statistics agree with the
  events, and an outcome is bound to what was really compared;
* results: a required check that did not pass is never a PASS, and promotions
  never lower a gate;
* packaging: a whole snapshot survives every failure, and none but a whole one is
  packed.

## Plan

| Step | Modules | Status |
|---|---|---|
| 1 | `TaskLock`: the lock and read-modify-write of the manifest | done, proved |
| 2 | `OvpProtocol` (abstract) and `OvpRuntime` (detailed, refines it) | done, safety and the refinement proved |
| 3 | `OvpDispatch` on top of `OvpRuntime` | done, proved up to the refinement of `OvpProtocol` |
| 4 | `VisualBroker` (sessions and processes), `VisualReview` composing it with the review step of the runtime | done, proved |
| 5 | `BudgetGovernor` with `QuotaObservations`: candidates per role, caps, fallback, ledger; both `run_governor` and `run_swarm` | done, safety proved |
| 6 | `ProviderRouter`, `SwarmTeams`, `WorkerSwarm`: the four kinds of swarm; `SwarmAdvice`: the registry and the resolver beside them | done, safety proved |
| 7 | `CapabilityAdvice`, `ShadowEvidence`, and `StrategyShadow` composing them | done, proved |
| 8 | `SkillFeedback`, `EvalPromotion`, `VendorUpdate` | done, proved |
| 9 | `BudgetGovernorProofs`, `OvpRuntimeInv` up to the refinement `OvpRuntime` => `OvpProtocol`, the pipeline of `StrategyShadow` | done |
| 10 | `VisualProofs`: `QuietlyPictured`, and the broker's promises under the bridge; the runtime's under dispatchers | done |

Composition: `OvpDispatch` extends `OvpRuntime`; `VisualReview` extends
`VisualBroker`, whose commands the bridge calls, and has of the runtime what its
review looks at; `BudgetGovernor` extends `QuotaObservations`; `WorkerSwarm` is an
instance of `ProviderRouter` and `SwarmTeams`; `SwarmAdvice` extends it with
`CapabilityAdvice`; `StrategyShadow` extends `ShadowEvidence`, `CapabilityAdvice`
and `SwarmTeams`, whose commands hand files to each other.
`TaskLock` stays separate: `OvpRuntime` assumes what it proves, at most one
command at a time per task.

## TaskLock

`_task_lock` (ovp_runtime.py:140-171) as the steps of a process: `open` with
`O_EXCL`, `stat`, `unlink` of a stale file, the command body (`load`, `save`),
and `finally`. The file is `lock`: absent, young, or stale; `creator` remembers
whose `open` made it, which the file itself does not tell. The manifest is the
number of updates of each process that are in it, which is all a lost update
needs. `GrowStale` lets time pass after a command; `Crash` kills one and `Overrun`
lets one outlive the stale limit, and `disturbances` counts both. What the lock
promises it promises until the first of them.

* `lock` (3 processes, one command each, one disturbance): `MutualExclusion`,
   `NoLostUpdate`, and `LockIsFreed` whatever is disturbed.
  Three processes are a holder, a waiter and one that comes late. Fairness: a
  running command goes on, time passes, and a process with work left tries
  again; no process is promised the lock.
* `lock_overwritten` fails as it should: **a command that is overrun loses its
  lock while it runs**. TLC's trace: the first command takes the lock, runs past
  LOCK_STALE_SECONDS (`Overrun`) and loads the manifest; the second finds the lock
  stale, removes it, makes its own and loads the same manifest; both save, and one
  transition is overwritten. The documentation says that transitions do not
  overwrite each other (docs/protocol/orchestration-verification.md:92). With
  `Overrun` taken out the property fails all the same, by a longer way: after a
  kill two waiters take over the stale lock together, since the age is read from
  one file and the unlink takes whatever is at the path.

## OvpProtocol and OvpRuntime

`OvpRuntime` has the manifests (`manifest`), the contract files (`contract`), the
worktrees (`ws`), branches (`tip`), the leader checkout (`leader`), the commits
(`dag`) and, per task, the command that runs (`cmd`): what it is about to do and
what it has read. A command is one action when it reads and writes under the lock
without a Git call that another party can invalidate in between; otherwise it is
split where it reads Git and where it acts on it:

| Command | Steps | What may happen in between |
|---|---|---|
| prepare | `PrepareRead`, `PrepareWorktree` / `PrepareRefuse`, `PrepareSave`, `PrepareContract` | another prepare, a crash |
| mark | `MarkDispatched`, `MarkWorking` | |
| receipt | `SubmitRead`, `SubmitSave` / `SubmitRefuse` | the worker commits, resets, edits, switches |
| review | `ReviewRead`, `ReviewDecide` | the same |
| integrate | `IntegrateCheck`, `IntegrateApply` / `IntegrateFail` / `IntegrateTimeout`, `IntegrateAbort` or `IntegrateSave` | the worker, the leader's user, integrations of other tasks |
| proof | `RecordProof` | |
| cleanup | `CleanupRemove`, `CleanupSave` | |

Any of them may be killed between two steps (`Crash`); the lock it leaves behind
is `TaskLock`'s subject. A commit is an index of `dag` with its history
(`reach`), the changes its tree has (`patch`) and what its content means to the
gates (`diff`): nothing, in scope, in scope with whitespace errors, or out of
scope. A merge brings history and changes, a cherry-pick only changes. Workers
and the leader's user are the environment: they commit, reset, edit and switch.
The lock itself is abstracted: a command begins when none runs on its task.

What Git does is modelled as git 2.39 was seen to do it:

* `git merge --no-ff` of a branch that is already in succeeds and changes nothing;
  it fails over an unfinished operation and on a conflict, and leaves the merge
  unfinished (`MergeFails`) until `--abort`.
* `git cherry-pick` of several commits (ovp_runtime.py:777-782) lands them in their
  order, and keeps a sequence meanwhile: `leader.onto` is the HEAD it goes back to,
  `leader.safe` the HEAD it has come to. It may stop at a commit that conflicts, or
  whose change the tree already has, with the commits before it in (`PickStops`);
  over an unfinished operation or sequence it does not start (`PickRefuses`); the
  timeout of `_run` kills it anywhere and nothing is aborted (`PickKilled`). The
  commits that got in (`Prefixes`) are one commit of the model.
* `git cherry-pick --abort` (`AbortPick`) takes HEAD back to where the sequence
  began, whoever began it, if HEAD is where Git left it; otherwise it ends the
  sequence and leaves HEAD; uncommitted edits may make it fail.
* Whether a merge or a pick conflicts is a matter of contents: a commit of the
  leader's whose `diff` is `shared` conflicts with every task that does not have it
  (`Conflicts`), on each retry again. The leader's commits take their `diff` from
  `LeaderDiffs`, those that a merge or a pick makes as well, so that two tasks may
  conflict with each other. Any other failure of Git is a disturbance.

`OvpProtocol` is the promise without Git: a task walks through its states; what is
in the project of a task is a part of its accepted evidence (the commits of the
receipt), and grows and shrinks (`Land`) as it is picked commit by commit and
rewound; only a project that has all of the evidence is recorded as integrated, and
judged. The refinement mapping (end of `OvpRuntime`) reads the state from the manifest,
the evidence as `git rev-list base..receipt` and what has landed from the tree of the
leader's HEAD.

* `runtime_live`: one task, cherry-pick, everybody moves at any time, two
  disturbances (crashes, Git failures, resets, edits). `EvidenceBound`,
  `OnlyReviewedLands`, `NothingDestroyed`.
* `runtime_quiet`: two tasks share the leader checkout, both strategies, three
  kinds of content and conflicts, one disturbance; workers and user act between
  commands, and the orchestrator integrates one task after the other
  (`OneAtATime`). `AcceptedInScope`, `ManifestBacked`, and `ImplementsProtocol`
  (the refinement).
* `runtime_recovery`: `AcceptedIsIntegrated` for merge, with crashes, disturbed
  merges, conflicts and timeouts. A task that conflicts with the leader's project
  stays ACCEPTED whatever is retried, "for a bounded recovery decision"
  (docs/protocol/orchestration-verification.md:152); every other one is integrated
  in the end, unless its worker or the leader's user takes its branch or its base
  away. Fairness: a command that has begun goes on (nothing else holds its lock),
  the orchestrator retries integration and proof, and the leader's user repairs
  his checkout, without which a timeout of Git blocks it for good. Workers owe
  nothing.
* `runtime_unreviewed` fails as it should: **`git merge <branch>` merges what
  the branch holds by then**, not the head that was checked
  (ovp_runtime.py:754-773).

Not checked, because it plainly does not hold: once HEAD has moved before the proof
of a task is recorded, for instance by the integration of another task, the task
stays INTEGRATED for ever (ovp_runtime.py:839).

Bounds: `MaxWork` commits by people and `MaxCommits` in all (three or four and
five: the root, a worker's first and second commit, a foreign one, an
integration), `MaxEvents` disturbances. A race in this system needs one foreign
move between two steps of a command, so two are one more than the shortest
counterexample; retries need a second failure. Deadlock is not checked: when the
bounds are used up and every task is closed nothing is left to do.

`AcceptedInScope` and `ImplementsProtocol` are checked with
workers that leave the worktree alone while a command on their task runs: with
live workers the receipt and the review look at HEAD, branch, scope and tree in
four calls, and a worker that commits and resets in between can pass each.
`EvidenceBound` needs no such condition.

`AcceptedIsIntegrated` does not hold for cherry-pick: after a crash between
cherry-pick and save, Git stops at the empty commit of the retry, and after a
timeout half way it does so at the first commit that is in, and goes no further
until somebody takes HEAD back.

`ImplementsProtocol` does not hold when two tasks are cherry-picked at the same
time. With `OneAtATime = FALSE` and four commits by workers TLC finds this: a timeout
leaves the sequence of the first task; the second task picks its one commit; before
that is saved, the retry of the first is refused by Git and its abort takes HEAD back to
where the sequence began; the second task is recorded as INTEGRATED with its commit
gone (ovp_runtime.py:780-792). The locks are per task, so nothing in the code keeps the
two apart. If the second task is saved before the retry, its work is taken back all the
same, which the protocol has (`Land`): no proof of it is recorded then, since HEAD is
not what its integration left.

Left out: a base that is a commit of another task's worker (`PrepareRead` takes any
commit of the leader's), and the difference between a pick that stops at a conflict and
one that stops at an empty commit: both leave the checkout `cherry-pick`.

## OvpDispatch

`dispatch_task` (ovp_dispatch.py:435-590) for any number of dispatchers on each
task: read the manifest without the lock, check the worktree, mark twice, run the
worker, submit. `disp[t][d]` is where dispatcher `d` of task `t` is; marks and
receipts are the actions of `OvpRuntime`. A worker moves its worktree only while
a dispatcher waits for it or as a `stray`, what is left of a worker that was
killed at its timeout or lost its dispatcher. The orchestrator is taken to resume
a task only when no dispatcher is left on it, as docs/protocol/ovp-dispatch.md asks;
nothing in the code enforces this.

`submit_receipt` is three steps here: what it reads, the save (`GateAccepts`) and its
return (`GateAnswers`). After the save its lock file may fail to go, or a path fail to
become an artifact (ovp_runtime.py:169, 651): dispatch_task takes that exception for a
refusal and reports WORKING of a task that is REVIEW_READY (`GateAnswerFails`,
ovp_dispatch.py:565-577). `ReportsTheState` says so: WORKING is true of the manifest
when it is reported, for every failure but that one, and REVIEW_READY is reported only
of a task whose receipt is recorded.

* `dispatch_workers` (one task, two dispatchers, three kinds of content, three
  disturbances): `OneWorkerAtATime`, `DispatchedInScope`, `ReportsTheState`. Two
  dispatchers are what a race takes, and the proofs cover any number.

`DispatchedInScope` is `AcceptedInScope` without the condition that workers keep
still: a dispatcher hands the receipt in when its worker has ended, and nobody else
has the worktree. It is for the tasks no stray process is left on, and needs that:
with three disturbances (a timeout and two resets) a stray that commits under
`submit_receipt` and resets under `review_task` has a head accepted that is out of
scope.

In a rework round a worker that commits nothing is handed to review again, because
HEAD is compared with the base only (ovp_runtime.py:583); no property says
otherwise.

## VisualBroker and VisualReview

`VisualBroker` has the three commands of visual_broker.py, none of which takes a
lock. A process is its place in the order of all processes started, which is also
its identity; `table` says which process has each pid, and pids are given out
again. `record` is the state file of each session, `at[u]` the step a command is
at and `seen[u]` what it has read:

| Command | Steps | What may happen in between |
|---|---|---|
| launch | `Launch`, `Spawn`, `Settle` / `SettleUnidentified`, `SaveRunning` | the game exits; another command; a crash |
| capture | `Capture`, `Grab` / `GrabNothing` | the same; the pid goes to another process |
| stop | `Stop`, `Close`, `CloseTimesOut`, `Kill`, `Gone` / `KillTimesOut`, `SaveStopped` | the same |

`Close` exists on Windows only (`Windows`); capture is UNKNOWN elsewhere. The
system ends processes and starts foreign ones at any time (`System`).

`VisualReview` is the bridge of ovp_visual_review.py. `capture` is the chain
`CaptureContext`, `BridgeLaunch`, `BridgeCapture`, `BridgeGrab`, `BridgeStop`,
`BridgeCopy`, `BridgeClear`, `BridgeRecord`, with `BridgeSkip` when the launch did
not pass and `BridgeFault` for the exceptions it lets out; `review` is
`ReviewContext`, `Judge` / `JudgeTooLate`, `Rewrite`. A picture is the process it
shows, and a process shows what its worktree held when it started. `evidence` is
visual-review.json, `file` the durable picture per head, `temp` the one in the
worktree, which makes `git status` dirty.

Some promises end with a disturbance, and `disturbed` records which have
happened: a command is killed (`crash`), two run on one session or task
(`overlap`), a pid changes hands under a command that has checked it (`reuse`), a
file of the bridge cannot be written (`fault`), a signal or state file of the broker is
refused (`refused`), a worker moves what is under review (`work`).
Each property names the kinds it does not hold under:

* `SignalsOwn`: only a process the broker launched for the session is told to
  end, unless a pid is reused between the check and the signal
  (visual_broker.py:517-519). Crashes, overlaps, and state files whose process is
  long gone do no harm.
* `StoppedIsGone`: what is recorded as STOPPED is gone, whatever happens.
* `LiveIsRecorded`: a game that runs and was not told to end is recorded,
  unless a command is killed between Popen and save, two overlap, or the system
  refuses a signal or a write: a `terminate()` that raises is swallowed
  (visual_broker.py:373-376), and a state file that cannot be written (403) ends
  the launch with the game running.
* `QuietlyPictured`: an accepted task cites a picture of a game that was started
  in its worktree at the accepted head, through crashes and faults.

The runs:

* `visual`: two users, one task, one session, two commits and an edited worktree,
  two pids, two processes, one disturbance of any kind, on Windows. It checks
  these four. Two users are what an overlap
  takes; two processes are a game and the one that gets its pid, or the games of
  two captures. The broker is used through the bridge only, and moves of the
  worktree are the worker's; the proofs cover direct use (`VisualBroker!Spec`)
  and both platforms. Deadlock is not checked: with no process left to start a
  command that is about to start one has come to the bound.

The bridge looks at the worktree after the capture and does not keep what it saw: a
worker that moves between the context check and the launch and is back before the
review has a picture of other content accepted (ovp_visual_review.py:132-176).
`QuietlyPictured` therefore ends with the disturbance `work`.

Left out: the paths of projects and scenes, log files, hashing (equal hashes are
the same picture), the fallback identity of platforms that are neither Windows
nor Linux (208-212: any process with the pid passes there), and a live process whose
identity cannot be read (165, 199-200), which the broker takes for gone.

## QuotaObservations and BudgetGovernor

`QuotaObservations` is codex_plus_budget.py. A sync is three steps, the read of the
history (`SyncRead`), the opening of the file, which empties it (`SyncOpen`), and
the write (`SyncWrite`), since `write_text` is not atomic and nothing locks the
file. `BurnState` is the chain of comparisons of calibrated_pressure, over whole
hours and percentages, with rates cross multiplied; a window without elapsed time
has no rate.

`BudgetGovernor` has the two programs that plan by it. `GovernorPlan` and
`SwarmPlan` read the budget once (`Budget`: the account if it is calibrated, else
the ledger of Luna calls) and fix roles, lanes and caps for the rest of the run,
whatever is recorded meanwhile. Then each role has a thread:

| Program | Steps of a thread | Failures |
|---|---|---|
| governor, `run_assignment` | `Answer` or `Fail` or `Unsent`, then `LogPass` or `LogError`, then the next lane | `UncountedCall`, `LogPassFault`, `LogErrorFault` |
| swarm, `run_codex_worker` and the collecting loop | `Return`, then `Collect` | `CollectFault`, then `Abort` once the pool is done |

A call and the Luna row that follows it are one step: a crash between them is a
call without a row, which is what `UncountedCall` shows. `usage` is the ledger of
Luna calls, `ledger` the governor's. A run may be killed (`Crash`) at any point.
Which worker answers, fails or is never called (a prompt over Luna's limit) is a
choice.

The run `governor` checks:

* `PlannedIsPermitted`: the filter of the plan agrees with the check the router
  makes again before each call;
* `EveryLaneIsTried`: a role given up as exhausted has an ERROR row for each lane
  it is permitted;
* `AnsweredIsLogged`: a role's answer is that of the one lane the ledger has a
  PASS row for, through ledger faults, where an answer that cannot be logged is
  thrown away and the next lane called;
* `LunaIsCounted`: each call of Luna has its one row, and a role calls Luna once
  at most;
* `WorseIsStricter`: had less been left at the last observation, neither more
  roles, nor more effort, nor an earlier place of Luna would follow; it goes
  through the burn state, the mode, caps, efforts and lane orders;
* `HistoryKept`: the file holds the last observations, unless two syncs overlap or
  one is killed, when history is lost;
* `RunsEnd`: under fairness of the run's own steps only, which the timeout of each
  call justifies.

Its instance is a set of scenarios, chosen in the first state, so that no two
dimensions multiply that do not interact: all five lanes for one role, with each
kind of consent given or not; three roles in threads; two runs on one ledger, with
a day passing; a run planned before, during and after two observations; three
observations of which two are kept, in two reset windows; two overlapping syncs.
20, 18 and 4 percent at eight hours from the reset give all four burn states in
two observations an hour apart, and one call of 2 against a weekly 13 makes the
ledger `conserve`. One kind of disturbance happens per behaviour. Deadlock is not
checked: a run ends.

What the model shows and nothing promises otherwise: caps and efforts are those of
the moment of the plan, so runs planned together may together spend more than any
of them would have been allowed after the other.

`LaneOrder` also shows a disagreement with docs/routing/budget-governor-v2.md:53-56:
in critical mode Luna is to be the last automatic lane, but recon, test_writer and
release_auditor keep the orders of budget_governor_v2.py:245-246, where it comes
before local.

## The worker swarms

`ProviderRouter` is the part of provider_router.py that decides: whether a provider
is configured (`Configured`), whether it may see text of a sensitivity
(`Permitted`), and the choice (`SelectProvider`), as operators over the names set in
the environment and the consents on the command line. `SwarmTeams` is the policy of
adaptive_swarm.py: which roles a task gets and whether they are reviewed.

`WorkerSwarm` is a run of worker_swarm.py, adaptive_swarm.py, nvidia_fleet.py or
nvidia_fleet_benchmark.py. What the four share is the state: `phase` is the main
thread, `status` and `route` each scheduled role, `verdict` the report.

| Code | Action |
|---|---|
| `build_assignments` or `select_provider`, then the pool | `FanOut`, or `Refuse` |
| a thread takes a call; the call ends, at its timeout at the latest | `StartCall`, `EndCall` |
| the reviewer is routed and called, after everybody | `StartReview`, or `ReviewUnroutable` |
| the verdict, the report, the output file | `Finish` |

`SwarmAdvice` puts beside it the worker manifests of `capabilities/registry-v2.json`
and asks `ResolveCapabilities` and `BindingForFeature` who may do the job.

The run `swarm` has 13553 jobs and checks:

* `DataStaysPermitted`: whatever providers and models roles, tiers, defaults and the
  fleet profile name, secret text goes to the local provider only, private text to
  NVIDIA with consent only, and the logged provider sees public text on request only;
* `VerdictIsHonest`: PASS takes an answer of everybody, the reviewer that was asked
  for included, and FAIL means that nobody answered;
* `AdviceMatchesRouting`: three tables in three files agree, in every combination of
  the keys and switches that tell providers apart;
* `RunsEnd`, under weak fairness of the run: its threads go on, and every call is
  given a timeout.

A team of one to four and a pool smaller than the team are the cases of the fan-out;
an environment in which each provider is the only one, several are or none is, the
cases of the routing. Deadlock is not checked: a run ends.

The reviewer's route is looked up after the team has answered: if there is none
(`ReviewUnroutable`) the answers are lost, though the document promises that planning
fails (docs/routing/adaptive-swarm.md:98).

## Strategy advice and the evidence ledger

`CapabilityAdvice` has capability_manifest.py, capability_snapshot.py and
strategy_resolver.py as operators. A probe is what it needs, a set of facts about
the machine, all of them or one of each group; the six kinds of probe are of this
form. A registry stands for its digest.

`ShadowEvidence` is shadow_evidence.py: commands that share a ledger without a
lock. A join reads the ledger (`StartJoin`), reads it again (`LoadAgain`) and
replaces it (`AppendEvent`, or `AppendUnchanged`, `AppendRefused`); a capture reads
it once. Any may be killed (`Killed`), also after the replacement and before it has
reported. `answered` is what has been reported as recorded, which no file holds, and
`overlapped` that two commands were at work at once.

`StrategyShadow` is the way from one to the other: `TakeSnapshot` in whatever state
the machine is, `WriteComparison`, `CaptureFile`, `JoinOutcome`, with an edit of the
registry at any time (`RegistryEdited`). The files are those of the last command.

The run `shadow` (two commands, one receipt, an edited, a shipped and an invalid
registry, a program and a key that come and go, two intents) checks:

* `ReadyIsBacked`: every feature of a READY strategy is provided by a capability that
  was there when the snapshot was taken, from the same registry, with the permissions
  and policies that were granted;
* `ExecutedWasAllowed`: an outcome joined commands later is of a strategy that was
  offered and allowed, never of a blocked one;
* `OneEventPerId`, also when commands overlap;
* `LedgerMaterializes` and `AnsweredIsKept`, while they follow one another.

One receipt is what a conflict takes, two commands an overlap; three commands are a
capture, a join and one that repeats or contradicts. Deadlock is not checked: the
bounds are used up. The commands are interchangeable, and no liveness is checked, so
symmetry is sound.

With overlapping commands the last two do not hold: the slower one replaces the ledger
by what it had read (shadow_evidence.py:553). And nothing compares the time of a
snapshot with anything, so READY is about the past. The manifests of the run are
declared DECLARED, as all of registry-v2.json are; the validator would also let one
declare itself PROBED or QUALIFIED (capability_manifest.py:36, 273), and a snapshot
taken without probing would then repeat that.

## Records

Three parts that keep records on disk and do not meet; the run `records` has a
behaviour of each.

`SkillFeedback` is record_skill_feedback.py. `LoadLedger`, `AppendLine` and
`WriteStats` are the three steps of a command; it may be killed between them, in the
middle of its line, or just before the newline. Such a line is `open`, and what is
written next is glued to it (`Written`): the line does not parse, and no command loads
the ledger any more. That takes no overlap: a line cut before its newline loads, so the
next command adds its event to it and reports PASS (record_skill_feedback.py:161). Both
properties are therefore about ledgers whose lines parse. `StatsAreBacked`: the
statistics never count what the ledger does not have, and nothing twice, however
commands overlap and wherever they are killed. `StatsFollowLedger`: while they follow
one another, the ledger loads and a command that reported PASS has left the statistics
of all of it, also when it repeats one that was killed half way. Two commands and two
receipts, one of them with two contents.

`EvalPromotion` is eval_result.py, compare_eval_results.py and the aggregation of
common/result.py. A champion is replaced whenever the comparison says
PROMOTE_CANDIDATE. `GatesNeverFall`: through any number of promotions no hard gate
gets worse than it was with any earlier champion. `NoComeback`: when tokens and time
are known the comparison has no cycle; with a measure missing it has, since an
unknown compares as equal. `PassIsObserved`: PASS means that every gate was seen to
pass, and the two copies of the status rules agree.

`VendorUpdate` is update_vendor.py and package.py. `MoveAway`, `Install` and
`DropBackup` are the file operations of an update and `Leave` removes its staging
directory; `RollBack` is a failing replacement, `RollBackFails` and `DropFails` what
then fails as well, `KillUpdate` its end anywhere; `CollectPayload` and `PublishArchive` are the
packager. `VendorNeverLost`: while programs follow one another no step loses the
last whole snapshot, nor leaves a torn one at the root. `PackagedIsWhole`: an archive
holds one whole snapshot, and nothing besides unless an update was `untidy`: killed, or
failing to move back or to remove what it had made, since a backup or a staging
directory is payload to the packager (update_vendor.py:224, package.py:80-92). Left out
is the filter of package.py:27-48, which drops members by the names of their
directories; the present snapshots have none of them. The
replacement is not the atomic one that the provenance text speaks of
(update_vendor.py:82): a kill between the two renames leaves the backup alone, and
every later update refuses.

Two updates at a time, three in all, are a killed one, a refused one and one that
goes through. Deadlock is not checked: the bounds are used up.

## Proofs

`TaskLockProofs`: `LockInv` is inductive for any set of processes and any number
of commands. Until a command is killed or too slow, the lock file is there exactly
when one process is inside and was made by it, nobody is about to unlink it, and
the copy that is about to be written is the manifest on disk. `MutualExclusion`
and `NoLostUpdate` follow, with the condition in the property
(`Undisturbed`); without it both are false (`lock_overwritten`).
`UpdatesAreAtomic`: until then the manifest changes only by one process's update of
what is on disk, so a command of `OvpRuntime` may read the record at each of its
steps instead of keeping the copy it loaded.

`OvpRuntimeProofs`: `IndInv` (module `OvpRuntimeInv`) is inductive for any tasks,
strategies, contents and bounds, with live workers and users. `EvidenceBound` and
`ManifestBacked` are not inductive as they stand: a command that has read and not
yet saved must still find its task as it was. `CommandInv` says so per step,
`RecordInv` what a manifest in a given state has recorded, `HeadInv` and `DagInv`
that every HEAD is a commit whose history are earlier commits. One lemma per
command shows that its steps keep `IndInv`, on top of a few lemmas on kinds of
steps (`CommandMoves`, `GitMoves`, `HeadAdvances`). `TypesHold`,
`EvidenceIsBound` and `ManifestsAreBacked` are its conjuncts;
`NothingIsDestroyed` is an action property proved from it.

`StrongInv` adds what the rest needs, and is inductive without any hypothesis; its
parts are conditional where the system is. `LandInv`: what is in a commit's history is
in its tree, branches and worktrees are at commits of their task or the leader, HEAD and
the HEAD a sequence goes back to are the leader's, and every change in a tree is its
author's, the leader's, or was approved (`TrustInv`). `ScopeInv`: a receipt is of the
head that was looked at. `MapInv`: the base of a task has none of its changes, and
between the integration and its record all of the evidence is in HEAD. From it follow

* `OnlyReviewedIsLanded`, if `Steady`: nothing is merged, or workers keep still while
  a command on their task runs. The hypothesis is needed: `runtime_unreviewed` is
  the counterexample without it;
* `AcceptedIsInScope`, if `LiveWorkers = FALSE`, for the reason given above;
* `RuntimeImplementsProtocol`, if `Undisturbed`: `Steady`, `LiveLeader = FALSE`, and
  nothing is cherry-picked or `OneAtATime`. Under the mapping at the end of `OvpRuntime`
  the initial states are those of `OvpProtocol` and each step is a step of it or a
  stutter. `CheckoutMaps` covers every step that changes HEAD, whole, in part or back:
  what of a task is in the tree is accepted evidence before and after. Only the record
  and the proof need the last two hypotheses (`StepMaps`): a user who resets the
  checkout between the merge and the record, or the abort of another cherry-pick, has a
  task recorded as integrated whose evidence is gone, which the protocol does not do.

`runtime_quiet` has such constants, and `runtime_live` is `Steady` with live workers.
Which of Git's behaviours a step has is settled once, in `Integration` and `Abort`
(lemmas on what `IntegrateApply`, `IntegrateFail`, `IntegrateTimeout` and
`IntegrateAbort` may do to HEAD and the sequence); the proofs of the invariants use those.

`OvpDispatchProofs`: `DispatchInv` with `IndInv` is inductive for any number of
dispatchers and tasks. While a dispatcher has the worktree the manifest is in
the state it has marked, so no other can mark it; `OneWorker` follows, and so does
`ResultsAreTrue` (`ReportsTheState`): until its receipt is saved, nobody moves the manifest
from where the dispatcher left it. Each step of a dispatcher is a step of the runtime
or counts a disturbance (`DispatchIsNext`), so that `StrongInv` is kept as well. With
it and `DispatchedInv` (a receipt that is being made is that of a dispatcher at the
gate, which alone has the worktree, so no worker is there to move the head) follow

* `DispatchKeepsPromises`: `EvidenceBound`, `ManifestBacked` and `NothingDestroyed`
  hold when dispatchers drive the runtime, as they do when an operator does;
* `DispatchStaysInScope` (`DispatchedInScope`), with workers that never keep still;
* `DispatchImplementsProtocol`: what races, crashes, timeouts and resumes of
  dispatchers do to tasks is what `OvpProtocol` allows. It has none of the hypotheses
  of `RuntimeImplementsProtocol`, since a dispatcher integrates nothing.

`VisualProofs`: `BrokerInv` is inductive for any users, sessions, worktrees
and pids, on both platforms, with direct use of the broker. `SignalsOwn` and
`LiveIsRecorded` are about the past of a process and need three facts. A file, on
disk or in a command's hands, names a game of its session that never had another
pid (`Names`); a pid that a command holds is still that process's or free, until
one is reused (`PidsKept`); and while no two commands overlap on a session, the
file on disk is what the command has read, and a launch finds its process gone
(`OnePerSession`), so that saving the new record forgets no live game; for
`LiveIsRecorded` nothing may have been refused either. One lemma
per conjunct shows that every step keeps it; `Writers` says which actions write
which part of the state, so that a lemma looks at those only.

`ReviewInv` is that of the bridge on top of it, also in `VisualProofs`, and
`ReviewInductive` has no hypothesis. Each step of the bridge is one of the broker's
commands or leaves processes, files and commands alone, so `BrokerInv` goes on to
hold, and with it `ReviewKeepsProcesses`. `Calls` says which of the broker's steps a
step of the bridge waits for. The rest, `QuietInv`, holds until commands overlap, a
pid changes hands or a worker touches what is under review; crashes and faults do not
end it. `QuietlyPictured` says something of an acceptance and of a process that was
started long before, and the picture passes through five hands in between: the window
that is grabbed, the file in the worktree, the artifact a capture holds, the durable
file with its record, and what a review has read. `CaptureTrue`, `OfItsHead` and
`JudgeTrue` say of each that it is of the head it is kept for. They need that the
receipt is what the worktree holds (`ReceiptKept`), and that each task has one bridge
command and each session one capture (`OneBridge`), or the session's record could be
that of another worktree. TLC found `ReviewInv` to hold on the constants of `visual`,
with and without Windows, before it was proved.

`WorkerSwarmProofs`: `SwarmInvariant` says that every route is the one `RouteFor`
gives, that the reviewer is there only after all others have ended, and that the
scheduled roles are the team. `DataIsPermitted` then rests on one lemma about the
router: whatever `SelectProvider` returns is permitted for the sensitivity and the
consents it was given (`SelectedIsPermitted`), and `RouteIsAllowed` carries this
through overrides and the fleet profile, for any environment and any override.
`ReportIsHonest` is proved from the invariant and the definition of the verdict.
`RouterFollowsAdvice` (`AdviceMatchesRouting`) computes, for any environment and
consents, which workers of the registry pass `ResolveCapabilities` and
`BindingForFeature`, and compares them with what `Configured` and `Permitted` say.

`ShadowEvidenceProofs`: `OneEventPerId` is not inductive: a command must have read
a ledger without two events of one id, and the event it is about to add must not be
in it. `LedgerInvariant` says so for every command at work, and, until two overlap,
that what a command has read is the file. It covers any number of commands,
receipts and shadows. The pipeline of `StrategyShadow` keeps it (`PipelineKeepsLedger`),
and with it `ShadowInv`: whatever the snapshot file, the comparison file, a command or
the ledger holds was built by the code from what was there when the snapshot was taken.
`OnlyAllowedIsExecuted` follows from both. `ReadyWasThere` supposes that no manifest of
a registry declares itself PROBED, which holds of the shipped one; a manifest that does
is READY without having been seen, see above.

`RecordProofs`: for `SkillFeedback` the invariant is that what a command has loaded,
and what it is about to count, is in the ledger; that the statistics are those of some
events of the ledger; and, until two overlap, that the command at work has loaded all
there is. All of it holds as long as no line is torn, which appending never repairs
(`Written` keeps a torn line or makes one). `StatsAreBacked` follows because more events
never have fewer uses, for any commands, kills and events. For `VendorUpdate`: while
programs follow one another one update at most is under way, its step says where the
whole snapshot is, and unless one was untidy nothing else is left when it has gone. For
`EvalPromotion` the invariant is that `Verdict` promotes along an order: each promotion
keeps every gate, and improves the gates, or keeps them and improves or keeps
stability, or keeps both and improves efficiency; `ComparisonHasNoCycle` follows
because each of these is transitive once all measures are known.

`BudgetGovernorProofs` has three parts.

* `QuotaInv`: until two syncs overlap or one is killed, the one at work carries the last
  observations from the file to the file; `HistoryIsKept` rests on lemmas about
  `LastOf` and `Append`, for any length of the history.
* `GovernorInv`: one predicate per role (`Governed`, `Swarmed`) relates the lanes a
  thread has left, its step and its calls to its rows in both ledgers: the lanes left
  are permitted, without repetition, and together with the lanes that failed are all
  that are available. `PlannedIsPermitted`, `LunaIsCounted`, `AnsweredIsLogged` and
  `EveryLaneIsTried` are not inductive one by one and all follow from it. That
  every lane order names each lane once (`LaneOrderIsComplete`) is what makes the
  fallback complete.
* `LessIsStricter` (`WorseIsStricter`): observations are in the order of their times
  (`TimesInv`), so the last of the list is the one that counts; with less left there
  more has been burned in the same time (`LessIsPressed`), each of the comparisons
  of `BurnState` is monotone in both (`StateIsMonotone`), and caps, efforts and orders
  are monotone in the mode (`StricterSpendsNoMore`).

Assumptions: only those on the constants (`TaskLockAssumption`,
`OvpRuntimeAssumption`, `VisualBrokerAssumption`, `GovernorAssumption`,
`QuotaAssumption`, `JobsAreAccepted`, `ShadowsOffer`,
`LegacyIsNotOffered`, `CasesAreCases`, `RunsAreRuns`, `NoPinIsTorn`, `EventsAreWhole`), which TLC
evaluates in the runs, and the hypotheses named above. Type correctness and most of the
inductive invariants are proved and not checked by a run.

Some proofs changed the model. `LaneOrder`, `Effort` and `LedgerMode` were CASE
expressions whose arms overlap: TLC takes the first that is true, as the code does,
but TLA+ leaves the choice open, so that nothing could be proved about recon in critical
mode. They are written with disjoint conditions now, and `LanesFor` without
`SelectSeq`, which the provers cannot unfold. In `VisualReview` a review, which uses no
session, counted as an overlap with any other review: `Busy` is asked about the
sessions a command uses now, and `QuietlyPictured` covers those runs too.

Only model-checked: the liveness properties and everything under fairness
(`LockIsFreed`, `AcceptedIsIntegrated`, both `RunsEnd`), which are out of the prover's
reach. Every other property of a passing run is stated by a theorem.

## Not modelled

Of the runtime: parsing of arguments, the wording of messages and results, glob
matching of scopes (a commit is in scope or not), preflight beyond the commit it
returns, the status command. Of dispatch: provider command lines, the environment
handed to the worker, the prompt. Of the governor: the manual WorkBuddy suggestion,
models and prompts. Of the swarms: prompts, text bounds, the HTTP request and its
request profiles, the scores of the benchmark, which decide nothing. Of the advice:
a legacy observation given as a file, the syntax of identifiers and digests. Of the
records: what a case file must look like, repair cycles and tokens in the feedback.

Not at all: text classification and skill selection (keyword scoring of a text,
whose outcome `SwarmTeams` takes as an input), the Godot and sprite wrappers (they
start one program and parse what it prints), the doctor and the release audit
(read-only inspections), the proof adapters (they fill in one result), the
PowerShell installers, and the vendored payloads (third-party code).
