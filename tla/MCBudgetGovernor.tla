--------------------------- MODULE MCBudgetGovernor ---------------------------
(* BudgetGovernor on two processes and machines with a few lanes. *)
EXTENDS BudgetGovernor

CONSTANTS s1, s2, p1, p2

Implement == [roles |-> {"implementer"}, release |-> FALSE]
Release   == [roles |-> {"recon", "release_auditor", "test_writer"}, release |-> TRUE]

\* One run on a machine with these lanes, and nothing else.
Alone(lanes, consents, task) ==
    [lanes |-> lanes, consents |-> consents, tasks |-> {task}, procs |-> {p1},
     syncers |-> {}, syncs |-> 0, times |-> {0}]

\* The fallbacks of a role, and what may be sent where.
Fallbacks == Alone(Lanes, {"nvidia-private", Luna}, Implement)
Unconsented == Alone(Lanes, {"logged-free"}, Implement)

\* Several roles at once.
Threads == Alone({"empero-free", Luna}, {Luna}, Release)

\* Runs that follow or overlap each other share the ledger of Luna calls.
SharedLedger ==
    [Alone({"empero-free", Luna}, {Luna}, Implement)
     EXCEPT !.procs = {p1, p2}, !.times = {0, 25}]

\* The account is observed before, between and during plans.
Observed ==
    [Alone({"empero-free", Luna}, {Luna}, Implement)
     EXCEPT !.syncers = {s1}, !.syncs = 2, !.times = {0, 1}]

\* Observations of more than one window, and more of them than are kept.
History ==
    [Observed EXCEPT !.procs = {}, !.syncs = 3, !.times = {0, 1, 8, 9}]

Overlap ==
    [Observed EXCEPT !.procs = {}, !.syncers = {s1, s2}]

MCScenarios == {Fallbacks, Unconsented, Threads, SharedLedger, Observed, History, Overlap}
===============================================================================
