---------------------------- MODULE BudgetGovernor ----------------------------
(***************************************************************************)
(* Runs that send the roles of a task to model lanes, paced by the Codex   *)
(* Plus allowance: run_governor (budget_governor_v2.py), which tries the   *)
(* lanes of a role one after the other, and run_swarm                      *)
(* (codex_plus_swarm.py), which only uses Luna.  Both plan first and then  *)
(* run a thread per role.  They share the ledger of Luna calls             *)
(* (codex_plus_lane.py) and the status file; no lock protects either.      *)
(***************************************************************************)
EXTENDS QuotaObservations

CONSTANTS
    Procs,      \* the processes, each of which makes one run
    Scenarios,  \* [lanes, consents, tasks, procs, syncers], and [syncs, times] that
                \* bound the observations made and the times of the clock
    Credits,    \* what a Luna call is estimated to cost
    Weekly      \* the weekly budget in credits, 0 when none is configured

Luna == "codex-plus-luna"

\* The order of _priority_for_domains.
SPAWN_PRIORITY ==
    <<"recon", "gameplay_specialist", "ui_specialist", "asset_specialist",
      "implementer", "release_auditor", "test_writer">>

RELEASE_PRIORITY ==
    <<"release_auditor", "test_writer", "recon", "gameplay_specialist",
      "ui_specialist", "asset_specialist", "implementer">>

Roles == {SPAWN_PRIORITY[i] : i \in DOMAIN SPAWN_PRIORITY}

Lanes == {"openrouter-hy3-free", "nvidia-fleet", "empero-free", "local", Luna}

Sensitivities == {"public", "private", "secret"}

Modes == {"normal", "conserve", "critical"}

ASSUME GovernorAssumption ==
    /\ \A s \in Scenarios :
        /\ s.syncers \subseteq Syncers
        /\ s.procs \subseteq Procs
        /\ s.syncs \in Nat /\ s.times \subseteq Nat
        /\ \A task \in s.tasks : task.roles \subseteq Roles
        /\ s.lanes \subseteq Lanes
        /\ "empero-free" \in s.lanes   \* it needs no key
        /\ s.consents \subseteq {"nvidia-private", "logged-free", Luna}
    /\ Credits \subseteq Nat
    /\ Weekly \in Nat

VARIABLES
    setup,   \* the configured lanes, what the user consented to, what is asked, and
             \* which processes take part
    run,     \* of each process: what it runs and how it ended
    thread,  \* of each process and role: what its thread does
    usage,   \* the ledger of Luna calls
    ledger   \* the ledger of the governor

runVars == <<run, thread, usage, ledger>>
vars == <<quotaVars, disturbed, setup, runVars>>

-------------------------------------------------------------------------------
(* Which lanes a payload may be sent to *)

\* Mutant: a private payload needs no consent.
AvailableUnasked(sensitivity) ==
    {lane \in setup.lanes :
        /\ sensitivity = "secret" => lane = "local"
        /\ lane = "empero-free" => sensitivity = "public" /\ "logged-free" \in setup.consents
        /\ lane = Luna => Luna \in setup.consents}

\* detect_availability: what the plan may use.
Available(sensitivity) ==
    {lane \in setup.lanes :
        /\ sensitivity = "secret" => lane = "local"
        /\ lane = "nvidia-fleet" => sensitivity = "public" \/ "nvidia-private" \in setup.consents
        /\ lane = "empero-free" => sensitivity = "public" /\ "logged-free" \in setup.consents
        /\ lane = Luna => Luna \in setup.consents}

\* select_provider, before each call; for Luna, the search of the PATH.
Permitted(lane, sensitivity) ==
    /\ lane \in setup.lanes
    /\ CASE lane = "local" -> TRUE
         [] lane = "openrouter-hy3-free" -> sensitivity # "secret"
         [] lane = "nvidia-fleet" ->
                \/ sensitivity = "public"
                \/ sensitivity = "private" /\ "nvidia-private" \in setup.consents
         [] lane = "empero-free" -> sensitivity = "public" /\ "logged-free" \in setup.consents
         [] lane = Luna -> TRUE

-------------------------------------------------------------------------------
(* How hard the allowance is pressed *)

Cost(rows) == FoldSet(LAMBDA row, sum : row.credits + sum, 0, rows)

Since(hours) == {row \in usage : row.at >= now - hours}

\* budget_summary: the week, the day, and seven such days, against the budget.
LedgerMode ==
    LET week == Cost(Since(7 * 24))
        day  == Cost(Since(24))
        Spent(total, percent) == 100 * total >= percent * Weekly
    IN IF Weekly = 0 THEN "normal"
       ELSE IF Spent(week, 95) \/ Spent(7 * day, 150) \/ Spent(7 * day, 135) THEN "critical"
       ELSE IF Spent(week, 80) \/ Spent(7 * day, 100) \/ Spent(7 * day, 105) THEN "conserve"
       ELSE "normal"

\* The budget a burn state stands for: max is max_recommended.
BudgetOf(burnState, remaining) ==
    [mode |-> ModeOf(burnState), max |-> burnState = "aggressive" /\ remaining >= 15]

\* _budget: the account wins, the ledger is the fallback.
Budget ==
    IF Calibrated(status, now)
    THEN BudgetOf(Pressure(status, now), status[Latest(status)].remaining)
    ELSE [mode |-> LedgerMode, max |-> FALSE]

\* How hard Luna works: choose_profile and the promotion of _profile_for_role.
Effort(role, budget) ==
    LET low == role \in {"recon", "test_writer"}
    IN CASE budget.mode = "conserve" -> "high"
         [] budget.mode = "critical" -> IF low THEN "medium" ELSE "high"
         [] budget.mode = "normal" ->
                IF low THEN "high" ELSE IF budget.max THEN "max" ELSE "xhigh"

\* _ordered_lane_names.
LaneOrder(role, mode) ==
    IF role \in {"recon", "test_writer"}
    THEN <<"openrouter-hy3-free", "nvidia-fleet", "empero-free", Luna, "local">>
    ELSE IF role = "release_auditor"
    THEN <<"nvidia-fleet", "openrouter-hy3-free", "empero-free", Luna, "local">>
    ELSE IF mode = "critical"
    THEN <<"openrouter-hy3-free", "nvidia-fleet", "empero-free", "local", Luna>>
    ELSE IF mode = "conserve"
    THEN <<"nvidia-fleet", "openrouter-hy3-free", "local", "empero-free", Luna>>
    ELSE <<"nvidia-fleet", Luna, "openrouter-hy3-free", "local", "empero-free">>

\* The lanes of the order that are enabled.
LanesFor(role, mode, sensitivity) ==
    LET order == LaneOrder(role, mode)
        Enabled(i) == IF order[i] \in Available(sensitivity) THEN <<order[i]>> ELSE <<>>
    IN Enabled(1) \o Enabled(2) \o Enabled(3) \o Enabled(4) \o Enabled(5)

\* MAX_AUTOMATIC_WORKERS and max_spawned_for_mode.
Cap(kind, mode) ==
    IF kind = "governor" THEN IF mode = "normal" THEN 3 ELSE 2
                         ELSE IF mode = "normal" THEN 2 ELSE 1

\* The first roles of the task, in the order of priority.
Selected(task, cap) ==
    LET priority == IF task.release THEN RELEASE_PRIORITY ELSE SPAWN_PRIORITY
        asked    == SelectSeq(priority, LAMBDA role : role \in task.roles)
    IN {asked[i] : i \in 1..(IF Len(asked) < cap THEN Len(asked) ELSE cap)}

-------------------------------------------------------------------------------
(* Planning *)

NoThread == [step |-> "off", todo |-> <<>>, calls |-> 0, result |-> "none", lost |-> FALSE]

NoRun == [kind |-> "none", sensitivity |-> "none", state |-> "idle"]

Init ==
    /\ QuotaInit
    /\ setup \in Scenarios
    /\ run = [p \in Procs |-> NoRun]
    /\ thread = [p \in Procs |-> [role \in Roles |-> NoThread]]
    /\ usage = {}
    /\ ledger = {}

\* The plan is refused when a role has no lane at all.
StartRun(p, kind, sensitivity, planned) ==
    /\ run' = [run EXCEPT ![p] =
           [kind |-> kind, sensitivity |-> sensitivity,
            state |-> IF \E role \in DOMAIN planned : planned[role] = <<>>
                      THEN "refused" ELSE "running"]]
    /\ thread' = [thread EXCEPT ![p] =
           [role \in Roles |->
              IF run'[p].state = "running" /\ role \in DOMAIN planned
              THEN [NoThread EXCEPT !.step = "calling", !.todo = planned[role]]
              ELSE NoThread]]
    /\ UNCHANGED <<usage, ledger>>

\* A secret task does not look at the budget.
GovernorPlan(p) ==
    /\ run[p].state = "idle"
    /\ \E task \in setup.tasks, sensitivity \in Sensitivities :
        LET mode == IF sensitivity = "secret" THEN "normal" ELSE Budget.mode
        IN StartRun(p, "governor", sensitivity,
                    [role \in Selected(task, Cap("governor", mode)) |->
                        LanesFor(role, mode, sensitivity)])

\* A secret task is refused.
SwarmPlan(p) ==
    /\ run[p].state = "idle"
    /\ \E task \in setup.tasks, sensitivity \in Sensitivities \ {"secret"} :
        StartRun(p, "swarm", sensitivity,
                 [role \in Selected(task, Cap("swarm", Budget.mode)) |-> <<Luna>>])

-------------------------------------------------------------------------------
(* The threads of the governor *)

Lane(p, role) == Head(thread[p][role].todo)

At(p, kind, role, step) ==
    /\ run[p].kind = kind
    /\ run[p].state \in {"running", "aborting"}
    /\ thread[p][role].step = step

Moves(p, role, t) == thread' = [thread EXCEPT ![p][role] = t]

Went(p, role, step) == [thread[p][role] EXCEPT !.step = step]

\* A lane that was called: only the calls of Luna are counted here.
Called(p, role, step) ==
    [thread[p][role] EXCEPT !.step = step,
                            !.calls = IF Lane(p, role) = Luna THEN @ + 1 ELSE @]

UsageRow(p, role, credits) == [run |-> p, role |-> role, at |-> now, credits |-> credits]

CountCall(p, role) ==
    \E credits \in Credits : usage' = usage \union {UsageRow(p, role, credits)}

\* The lane answers; what Luna used is recorded.
Answer(p, role) ==
    /\ At(p, "governor", role, "calling")
    /\ Permitted(Lane(p, role), run[p].sensitivity)
    /\ Moves(p, role, Called(p, role, "answered"))
    /\ IF Lane(p, role) = Luna THEN CountCall(p, role) ELSE UNCHANGED usage
    /\ UNCHANGED <<run, ledger, disturbed>>

\* Mutant: a failed call of Luna is not recorded.
FailUncounted(p, role) ==
    /\ At(p, "governor", role, "calling")
    /\ Moves(p, role, Called(p, role, "failed"))
    /\ UNCHANGED <<usage, run, ledger, disturbed>>

\* The lane fails.  What Luna used is recorded before its status is looked at.
Fail(p, role) ==
    /\ At(p, "governor", role, "calling")
    /\ Moves(p, role, Called(p, role, "failed"))
    /\ IF Lane(p, role) = Luna THEN CountCall(p, role) ELSE UNCHANGED usage
    /\ UNCHANGED <<run, ledger, disturbed>>

\* Nothing was called: the router refuses the lane, or the prompt is too long for
\* Luna.
Unsent(p, role) ==
    /\ At(p, "governor", role, "calling")
    /\ Moves(p, role, Went(p, role, "failed"))
    /\ UNCHANGED <<usage, run, ledger, disturbed>>

\* Luna was called, and the ledger of its calls cannot be written: the lane has
\* failed, whatever Luna answered.
UncountedCall(p, role) ==
    /\ At(p, "governor", role, "calling")
    /\ Lane(p, role) = Luna
    /\ Disturb("fault")
    /\ Moves(p, role, [Called(p, role, "failed") EXCEPT !.lost = TRUE])
    /\ UNCHANGED <<usage, run, ledger>>

LedgerRow(p, role, outcome) ==
    [run |-> p, role |-> role, lane |-> Lane(p, role), status |-> outcome]

\* The role is answered once its answer is in the ledger.
LogPass(p, role) ==
    /\ At(p, "governor", role, "answered")
    /\ ledger' = ledger \union {LedgerRow(p, role, "PASS")}
    /\ Moves(p, role, [Went(p, role, "done") EXCEPT !.result = Lane(p, role)])
    /\ UNCHANGED <<usage, run, disturbed>>

\* Mutant: the answer is used although it could not be logged.
LogPassFaultIgnored(p, role) ==
    /\ At(p, "governor", role, "answered")
    /\ Disturb("fault")
    /\ Moves(p, role, [Went(p, role, "done") EXCEPT !.result = Lane(p, role)])
    /\ UNCHANGED <<usage, run, ledger>>

\* An answer that cannot be logged is a failure of its lane.
LogPassFault(p, role) ==
    /\ At(p, "governor", role, "answered")
    /\ Disturb("fault")
    /\ Moves(p, role, Went(p, role, "failed"))
    /\ UNCHANGED <<usage, run, ledger>>

\* Mutant: the loop ends at the lane that failed.
LogErrorLast(p, role) ==
    /\ At(p, "governor", role, "failed")
    /\ ledger' = ledger \union {LedgerRow(p, role, "ERROR")}
    /\ Moves(p, role, [Went(p, role, "done") EXCEPT !.result = "exhausted"])
    /\ UNCHANGED <<usage, run, disturbed>>

\* The next lane is tried, if there is one.
LogError(p, role) ==
    LET rest == Tail(thread[p][role].todo)
    IN /\ At(p, "governor", role, "failed")
       /\ ledger' = ledger \union {LedgerRow(p, role, "ERROR")}
       /\ Moves(p, role,
                IF rest = <<>>
                THEN [Went(p, role, "done") EXCEPT !.result = "exhausted"]
                ELSE [Went(p, role, "calling") EXCEPT !.todo = rest])
       /\ UNCHANGED <<usage, run, disturbed>>

\* A failure that cannot be logged ends the thread, with its lanes untried.
LogErrorFault(p, role) ==
    /\ At(p, "governor", role, "failed")
    /\ Disturb("fault")
    /\ Moves(p, role, [Went(p, role, "done") EXCEPT !.result = "broken"])
    /\ UNCHANGED <<usage, run, ledger>>

GovernorThread(p, role) ==
    \/ Answer(p, role) \/ Fail(p, role) \/ Unsent(p, role) \/ UncountedCall(p, role)
    \/ LogPass(p, role) \/ LogPassFault(p, role)
    \/ LogError(p, role) \/ LogErrorFault(p, role)

-------------------------------------------------------------------------------
(* The threads of the swarm, and the process that collects what they return *)

\* Luna is called if it can be, or the call raises; either is a result.
Return(p, role) ==
    /\ At(p, "swarm", role, "calling")
    /\ \E result \in {Luna, "failed", "unsent"} :
        /\ result = Luna => Permitted(Luna, run[p].sensitivity)
        /\ Moves(p, role,
                 [(IF result = "unsent" THEN Went(p, role, "returned")
                                        ELSE Called(p, role, "returned"))
                   EXCEPT !.result = result])
    /\ UNCHANGED <<run, usage, ledger, disturbed>>

\* Every result is recorded, one that never called Luna at no cost.
Collect(p, role) ==
    /\ At(p, "swarm", role, "returned")
    /\ run[p].state = "running"
    /\ Moves(p, role, Went(p, role, "done"))
    /\ IF thread[p][role].result = "unsent"
       THEN usage' = usage \union {UsageRow(p, role, 0)}
       ELSE CountCall(p, role)
    /\ UNCHANGED <<run, ledger, disturbed>>

\* A row that cannot be written ends the collection; the pool still waits for the
\* threads.
CollectFault(p, role) ==
    /\ At(p, "swarm", role, "returned")
    /\ run[p].state = "running"
    /\ Disturb("fault")
    /\ run' = [run EXCEPT ![p].state = "aborting"]
    /\ UNCHANGED <<thread, usage, ledger>>

\* Mutant: the pool is left once everything is collected.
AbortCollected(p) ==
    /\ run[p].state = "aborting"
    /\ \A role \in Roles : thread[p][role].step \in {"off", "done"}
    /\ run' = [run EXCEPT ![p].state = "failed"]
    /\ UNCHANGED <<thread, usage, ledger, disturbed>>

\* What was returned and not collected is lost with the run.
Abort(p) ==
    /\ run[p].state = "aborting"
    /\ \A role \in Roles : thread[p][role].step # "calling"
    /\ run' = [run EXCEPT ![p].state = "failed"]
    /\ UNCHANGED <<thread, usage, ledger, disturbed>>

-------------------------------------------------------------------------------

Finish(p) ==
    /\ run[p].state = "running"
    /\ \A role \in Roles : thread[p][role].step \in {"off", "done"}
    /\ run' = [run EXCEPT ![p].state = "ended"]
    /\ UNCHANGED <<thread, usage, ledger, disturbed>>

Crash(p) ==
    /\ run[p].state \in {"running", "aborting"}
    /\ Disturb("crash")
    /\ run' = [run EXCEPT ![p].state = "killed"]
    /\ UNCHANGED <<thread, usage, ledger>>

Plan(p) == (GovernorPlan(p) \/ SwarmPlan(p)) /\ UNCHANGED disturbed

\* What a run does once it is planned.
Work(p) ==
    \/ \E role \in Roles : \/ GovernorThread(p, role)
                           \/ Return(p, role)
                           \/ Collect(p, role)
                           \/ CollectFault(p, role)
    \/ Abort(p)
    \/ Finish(p)

QuotaStep ==
    /\ UNCHANGED <<setup, runVars>>
    /\ \/ Tick(setup.times)
       \/ \E u \in setup.syncers : Sync(u) /\ AtMost(setup.syncs)'

RunStep ==
    /\ UNCHANGED <<quotaVars, setup>>
    /\ \E p \in setup.procs : Plan(p) \/ Work(p) \/ Crash(p)

Next == QuotaStep \/ RunStep

\* A call ends: each has a timeout.  No run has to be started, and nothing else has
\* to go wrong.
Spec ==
    /\ Init /\ [][Next]_vars
    /\ \A p \in Procs : WF_vars(Work(p) /\ UNCHANGED <<quotaVars, setup>>)

-------------------------------------------------------------------------------
(* Properties *)

CallsOf(p, role) == {row \in usage : row.run = p /\ row.role = role}

LanesWith(p, role, outcome) ==
    {lane \in Lanes :
        [run |-> p, role |-> role, lane |-> lane, status |-> outcome] \in ledger}

\* A call of Luna that was made is in the ledger the next plan reads, whether it
\* was answered or not, and is there once; and a role calls Luna once at most,
\* however many of its lanes fail.  Only a call whose row could not be written is
\* missing.
LunaIsCounted ==
    \A p \in Procs, role \in Roles :
        LET t == thread[p][role]
            rows == Cardinality(CallsOf(p, role))
        IN /\ t.calls <= 1
           /\ run[p].kind = "governor" => rows = (IF t.lost THEN 0 ELSE t.calls)
           /\ run[p].kind = "swarm" => rows <= 1
           /\ run[p].kind = "swarm" /\ run[p].state = "ended" => rows >= t.calls

\* A role is answered by a lane if and only if the governor's ledger says so, and
\* says so of this lane alone: an answer that could not be logged is not used.
AnsweredIsLogged ==
    \A p \in Procs, role \in Roles :
        run[p].kind = "governor" =>
            LanesWith(p, role, "PASS") = {thread[p][role].result} \intersect Lanes

\* The lanes that are logged as failed and those still to be tried are all the
\* lanes the role is permitted: a role is only given up with every one of them
\* tried and logged.
EveryLaneIsTried ==
    \A p \in Procs, role \in Roles :
        LET t == thread[p][role]
        IN /\ t.result = "exhausted" =>
                LanesWith(p, role, "ERROR") = Available(run[p].sensitivity)
           /\ run[p].kind = "governor" /\ t.step = "calling" =>
                LanesWith(p, role, "ERROR") = Available(run[p].sensitivity) \ ToSet(t.todo)

\* What the plan offers a role agrees with the check made before each call: no
\* fallback is refused, and none sends a payload where it may not go.
PlannedIsPermitted ==
    \A p \in Procs, role \in Roles :
        run[p].kind = "governor" =>
            \A lane \in ToSet(thread[p][role].todo) : Permitted(lane, run[p].sensitivity)

EffortRank(effort) ==
    CASE effort = "medium" -> 1 [] effort = "high" -> 2 [] effort = "xhigh" -> 3 [] effort = "max" -> 4

LunaPosition(role, mode) == CHOOSE i \in 1..5 : LaneOrder(role, mode)[i] = Luna

SpendsNoMore(worse, budget) ==
    /\ \A kind \in {"governor", "swarm"} : Cap(kind, worse.mode) <= Cap(kind, budget.mode)
    /\ \A role \in Roles :
        /\ EffortRank(Effort(role, worse)) <= EffortRank(Effort(role, budget))
        /\ LunaPosition(role, worse.mode) >= LunaPosition(role, budget.mode)

\* Had less been left at the last observation, the budget would not be laxer in any
\* respect: no more roles, no more effort, Luna no earlier.
WorseIsStricter ==
    Calibrated(status, now) =>
        LET last == Latest(status)
        IN \A less \in Percents :
            less <= status[last].remaining =>
                LET rows == [status EXCEPT ![last].remaining = less]
                IN SpendsNoMore(BudgetOf(Pressure(rows, now), less), Budget)

\* A run that was planned ends, whatever fails in it.
RunsEnd ==
    \A p \in Procs : run[p].state = "running" ~> run[p].state \in {"ended", "failed", "killed"}
===============================================================================
