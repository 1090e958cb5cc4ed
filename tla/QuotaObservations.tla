-------------------------- MODULE QuotaObservations --------------------------
(***************************************************************************)
(* The pace of the Codex Plus allowance (codex_plus_budget.py).  "sync"    *)
(* adds an observation, what is left and when the allowance is reset, to   *)
(* the status file; every plan computes from that file how hard the        *)
(* allowance is pressed.  No lock protects the file, and it is written in  *)
(* place: it is empty for a moment.                                        *)
(*                                                                         *)
(* Times are hours, and what is left is a percentage.  Rates and ratios    *)
(* are compared by cross multiplication.                                   *)
(***************************************************************************)
EXTENDS Integers, Sequences, FiniteSets, SequencesExt

CONSTANTS
    Syncers,          \* the processes that record observations
    Percents,         \* what is left, as observed
    Horizons,         \* hours until the reset, as observed
    MaxHistory,       \* observations kept (32 in the code)
    MaxDisturbances   \* bound: kinds of disturbances

\* Two syncs overlap; a command is killed; a ledger cannot be written.
Kinds == {"overlap", "crash", "fault"}

ASSUME QuotaAssumption ==
    /\ Percents \subseteq 0..100
    /\ Horizons \subseteq Nat \ {0}
    /\ MaxHistory \in Nat \ {0}
    /\ MaxDisturbances \in Nat

VARIABLES
    now,       \* the time
    status,    \* the observations in the status file; none while it is written
    sync,      \* what each syncer does next
    kept,      \* the observations it is about to write
    made,      \* every observation saved so far, in order
    disturbed  \* the kinds of things that have gone wrong

quotaVars == <<now, status, sync, kept, made>>

ReservePercent == 5
LookbackHours == 24
ToleranceHours == 2

Disturb(kind) ==
    /\ disturbed' = disturbed \union {kind}
    /\ Cardinality(disturbed') <= MaxDisturbances

DisturbIf(condition, kind) ==
    IF condition THEN Disturb(kind) ELSE UNCHANGED disturbed

-------------------------------------------------------------------------------
(* calibrated_pressure *)

Observation(remaining, left) == [at |-> now, reset |-> now + left, remaining |-> remaining]

Gap(m, n) == IF m >= n THEN m - n ELSE n - m

\* The rows in the order of their times: the last one, and the first of those
\* that share its reset and are at most a day older.
Latest(rows) ==
    CHOOSE i \in DOMAIN rows :
        \A j \in DOMAIN rows :
            rows[j].at < rows[i].at \/ (rows[j].at = rows[i].at /\ j <= i)

Window(rows) ==
    LET latest == rows[Latest(rows)]
    IN {i \in DOMAIN rows :
            /\ Gap(rows[i].reset, latest.reset) <= ToleranceHours
            /\ rows[i].at >= latest.at - LookbackHours}

Earliest(rows) ==
    CHOOSE i \in Window(rows) :
        \A j \in Window(rows) :
            rows[i].at < rows[j].at \/ (rows[i].at = rows[j].at /\ i <= j)

\* What the window shows: burned in elapsed hours.  Without elapsed time there is
\* no rate.
Burned(rows) ==
    LET burned == rows[Earliest(rows)].remaining - rows[Latest(rows)].remaining
    IN IF burned > 0 THEN burned ELSE 0

Elapsed(rows) == rows[Latest(rows)].at - rows[Earliest(rows)].at

Spendable(remaining) == IF remaining > ReservePercent THEN remaining - ReservePercent ELSE 0

\* The observed rate is at least a/b of the rate that can be sustained until the
\* reset.  With nothing to spend any burning is infinitely too fast.
RatioAtLeast(a, b, remaining, left, burned, elapsed) ==
    /\ burned > 0
    /\ b * burned * left >= a * Spendable(remaining) * elapsed

RatioAtMost(a, b, remaining, left, burned, elapsed) ==
    \/ burned = 0
    \/ (Spendable(remaining) > 0) /\ b * burned * left <= a * Spendable(remaining) * elapsed

\* What would be left at the reset, were the rate kept.
ProjectedBelow(percent, remaining, left, burned, elapsed) ==
    (remaining - percent) * elapsed < burned * left

BurnState(remaining, left, burned, elapsed) ==
    LET Faster(a, b) == RatioAtLeast(a, b, remaining, left, burned, elapsed)
        EndsBelow(percent) == ProjectedBelow(percent, remaining, left, burned, elapsed)
        rated == elapsed > 0
    IN IF \/ remaining <= ReservePercent /\ left > 1
          \/ rated /\ (remaining * elapsed <= burned * left \/ Faster(3, 2))
       THEN "critical"
       ELSE IF rated /\ (EndsBelow(ReservePercent) \/ Faster(23, 20))
       THEN "conserve"
       ELSE IF \/ /\ rated
                  /\ remaining >= 20
                  /\ ~ EndsBelow(20) \/ RatioAtMost(3, 5, remaining, left, burned, elapsed)
               \/ /\ ~ rated
                  /\ (left <= 24 /\ remaining >= 35) \/ (left <= 6 /\ remaining >= 15)
       THEN "aggressive"
       ELSE "normal"

\* Mutant: only "conserve" is a mode of its own.
ModeOfConserve(burnState) == IF burnState = "conserve" THEN burnState ELSE "normal"

ModeOf(burnState) == IF burnState \in {"conserve", "critical"} THEN burnState ELSE "normal"

\* Without an observation, and once its window has ended, the account says nothing.
Calibrated(rows, t) == rows # <<>> /\ rows[Latest(rows)].reset > t

Pressure(rows, t) ==
    LET latest == rows[Latest(rows)]
    IN BurnState(latest.remaining, latest.reset - t, Burned(rows), Elapsed(rows))

-------------------------------------------------------------------------------
(* save_observation *)

\* Mutant: the oldest observations are kept.
FirstOf(rows, n) == IF Len(rows) <= n THEN rows ELSE SubSeq(rows, 1, n)

LastOf(rows, n) == IF Len(rows) <= n THEN rows ELSE SubSeq(rows, Len(rows) - n + 1, Len(rows))

QuotaInit ==
    /\ now = 0
    /\ status = <<>>
    /\ sync = [u \in Syncers |-> "idle"]
    /\ kept = [u \in Syncers |-> <<>>]
    /\ made = <<>>
    /\ disturbed = {}

Syncing == {u \in Syncers : sync[u] # "idle"}

\* Bound: observations made.
AtMost(syncs) == Len(made) + Cardinality(Syncing) <= syncs

SyncMoves(u, step, rows) ==
    /\ sync' = [sync EXCEPT ![u] = step]
    /\ kept' = [kept EXCEPT ![u] = rows]

\* The history is read, and the new observation added to it.
SyncRead(u) ==
    /\ sync[u] = "idle"
    /\ \E remaining \in Percents, left \in Horizons :
        SyncMoves(u, "open",
                  LastOf(Append(status, Observation(remaining, left)), MaxHistory))
    /\ DisturbIf(Syncing # {}, "overlap")
    /\ UNCHANGED <<now, status, made>>

\* write_text empties the file first.
SyncOpen(u) ==
    /\ sync[u] = "open"
    /\ status' = <<>>
    /\ SyncMoves(u, "write", kept[u])
    /\ UNCHANGED <<now, made, disturbed>>

SyncWrite(u) ==
    /\ sync[u] = "write"
    /\ status' = kept[u]
    /\ made' = Append(made, kept[u][Len(kept[u])])
    /\ SyncMoves(u, "idle", <<>>)
    /\ UNCHANGED <<now, disturbed>>

SyncCrash(u) ==
    /\ sync[u] # "idle"
    /\ Disturb("crash")
    /\ SyncMoves(u, "idle", <<>>)
    /\ UNCHANGED <<now, status, made>>

Tick(times) ==
    /\ \E t \in times : t > now /\ now' = t
    /\ UNCHANGED <<status, sync, kept, made, disturbed>>

Sync(u) == SyncRead(u) \/ SyncOpen(u) \/ SyncWrite(u) \/ SyncCrash(u)

-------------------------------------------------------------------------------
(* Properties *)

\* The last observations are retained, as many as there is room for, as long as
\* syncs are made one after the other and none is killed: a history is only ever
\* missing while a sync is writing it.
HistoryKept ==
    disturbed \intersect {"overlap", "crash"} = {} =>
        \/ /\ IsSuffix(status, made)
           /\ Len(status) = IF Len(made) < MaxHistory THEN Len(made) ELSE MaxHistory
        \/ \E u \in Syncers : sync[u] = "write"
===============================================================================
