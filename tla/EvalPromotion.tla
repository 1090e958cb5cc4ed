---------------------------- MODULE EvalPromotion ----------------------------
(***************************************************************************)
(* Evaluation results and which of two is better: eval_result.py,          *)
(* compare_eval_results.py, and the result contract of common/result.py    *)
(* that the tools behind them use.                                         *)
(*                                                                         *)
(* A case is [digest, proof, acceptance, required]: the proof levels it    *)
(* requires, its acceptance checks and the required ones among them.       *)
(* (Invariants are acceptance checks a second time and change nothing.)    *)
(* A run is [case, seen, signatures, repairs, tokens, time]: it observes a *)
(* status for some gates, failure signatures, its repair cycles, and       *)
(* perhaps tokens and wall time (Null when not).  The champion of a case   *)
(* is replaced by a challenger when whoever decides follows the verdict.   *)
(***************************************************************************)
EXTENDS Integers, FiniteSets

CONSTANTS Cases,
          Runs,           \* what runs observe
          MaxPromotions   \* bound: champions replaced

(* The checks of the case validator and of build_eval_result.              *)
ASSUME CasesAreCases ==
    \A case \in Cases : /\ IsFiniteSet(case.proof) /\ IsFiniteSet(case.acceptance)
                        /\ case.required \subseteq case.acceptance
ASSUME RunsAreRuns ==
    \A run \in Runs :
        /\ run.case \in Cases
        /\ \A g \in DOMAIN run.seen : run.seen[g] \in {"PASS", "WARN", "UNKNOWN", "FAIL"}
        /\ IsFiniteSet(run.signatures)
        /\ run.repairs \in Nat /\ run.tokens \in Nat \cup {-1} /\ run.time \in Nat \cup {-1}

StatusRank == [FAIL |-> 0, UNKNOWN |-> 1, WARN |-> 2, PASS |-> 3]
Null == -1

VARIABLES champion,  \* the result that is the champion
          past       \* the champions before it

evalVars == <<champion, past>>

-----------------------------------------------------------------------------
(* common/result.py: a check is [required, status]; noted is the set of    *)
(* "warnings" and "unknowns" that come without a check.                    *)
AggregateStatus(checks, noted) ==
    LET required(s) == \E c \in checks : c.required /\ c.status \in s
    IN  IF required({"FAIL"}) THEN "FAIL"
        ELSE IF "unknowns" \in noted \/ required({"UNKNOWN", "SKIPPED"}) THEN "UNKNOWN"
        ELSE IF \/ "warnings" \in noted
                \/ \E c \in checks : c.status = "WARN" \/ (~c.required /\ c.status # "PASS")
             THEN "WARN" ELSE "PASS"

(* Mutant of RequiredStatus: a warning hides that a gate was not observed. *)
RequiredStatusWarned(outcomes) ==
    LET required(s) == \E o \in outcomes : o.required /\ o.status = s
    IN  IF required("FAIL") THEN "FAIL"
        ELSE IF \E o \in outcomes : o.status = "WARN" \/ (~o.required /\ o.status # "PASS")
             THEN "WARN"
        ELSE IF required("UNKNOWN") THEN "UNKNOWN" ELSE "PASS"

(* eval_result.py has its own.                                             *)
RequiredStatus(outcomes) ==
    LET required(s) == \E o \in outcomes : o.required /\ o.status = s
    IN  IF required("FAIL") THEN "FAIL"
        ELSE IF required("UNKNOWN") THEN "UNKNOWN"
        ELSE IF \E o \in outcomes : o.status = "WARN" \/ (~o.required /\ o.status # "PASS")
             THEN "WARN" ELSE "PASS"

ProofStatus(statuses) ==
    CASE statuses = {} -> "UNPROVEN"
      [] "FAIL" \in statuses -> "FAILED"
      [] statuses = {"PASS"} -> "PROVEN"
      [] statuses = {"UNKNOWN"} -> "UNKNOWN"
      [] OTHER -> "PARTIAL"

Gates(case) == case.proof \cup case.acceptance
HardGates(case) == case.proof \cup case.required

(* A gate nobody observed is UNKNOWN.                                      *)
BuildEvalResult(run) ==
    LET case == run.case
        outcome == [g \in Gates(case) |->
                       IF g \in DOMAIN run.seen THEN run.seen[g] ELSE "UNKNOWN"]
    IN  [case |-> case, outcome |-> outcome,
         status |-> RequiredStatus({[required |-> g \in HardGates(case),
                                     status |-> outcome[g]] : g \in Gates(case)}),
         proof_status |-> ProofStatus({outcome[g] : g \in case.proof}),
         failures |-> {<<g, outcome[g]>> :
                        g \in {h \in HardGates(case) : outcome[h] \in {"FAIL", "UNKNOWN"}}}
                     \cup run.signatures,
         repairs |-> run.repairs, tokens |-> run.tokens, time |-> run.time]

-----------------------------------------------------------------------------
(* 1 when the challenger's value is lower, -1 when it is higher, 0 when it *)
(* is equal or one of them is not known.                                   *)
LowerIsBetter(old, new) ==
    IF old = Null \/ new = Null \/ old = new THEN 0 ELSE IF new < old THEN 1 ELSE -1

HardDelta(old, new) ==
    {StatusRank[new.outcome[g]] - StatusRank[old.outcome[g]] : g \in HardGates(old.case)}

UnknownCount(result) ==
    Cardinality({g \in HardGates(result.case) : result.outcome[g] = "UNKNOWN"})

StabilityDelta(old, new) ==
    {LowerIsBetter(UnknownCount(old), UnknownCount(new)),
     LowerIsBetter(old.repairs, new.repairs),
     LowerIsBetter(Cardinality(old.failures), Cardinality(new.failures))}

EfficiencyDelta(old, new) ==
    {LowerIsBetter(old.tokens, new.tokens), LowerIsBetter(old.time, new.time)}

(* Mutant of Improves: one better value is enough.                         *)
ImprovesSomewhere(deltas) == \E d \in deltas : d > 0

Improves(deltas) == (\A d \in deltas : d >= 0) /\ (\E d \in deltas : d > 0)
Worsens(deltas) == \E d \in deltas : d < 0

(* Mutant of Verdict: gates are looked at when stability is equal.         *)
VerdictStabilityFirst(old, new) ==
    IF old.case # new.case THEN "UNKNOWN"
    ELSE IF Improves(StabilityDelta(old, new)) THEN "PROMOTE_CANDIDATE"
    ELSE IF Worsens(HardDelta(old, new)) THEN "REJECT" ELSE "HOLD"

(* compare_results: hard gates first, then stability, then efficiency.     *)
Verdict(old, new) ==
    IF old.case # new.case THEN "UNKNOWN"
    ELSE LET hard == HardDelta(old, new)
             stability == StabilityDelta(old, new)
         IN  IF Worsens(hard) THEN "REJECT"
             ELSE IF \/ Improves(hard)
                     \/ Improves(stability)
                     \/ ~Worsens(stability) /\ Improves(EfficiencyDelta(old, new))
                  THEN "PROMOTE_CANDIDATE" ELSE "HOLD"

-----------------------------------------------------------------------------
EvalInit ==
    /\ champion \in {BuildEvalResult(run) : run \in Runs}
    /\ past = {}

Promote(run) ==
    /\ Cardinality(past) < MaxPromotions
    /\ Verdict(champion, BuildEvalResult(run)) = "PROMOTE_CANDIDATE"
    /\ champion' = BuildEvalResult(run)
    /\ past' = past \cup {champion}

EvalNext == \E run \in Runs : Promote(run)

EvalSpec == EvalInit /\ [][EvalNext]_evalVars

-----------------------------------------------------------------------------
(* Over any number of promotions no required gate is ever in a worse       *)
(* status than it was with an earlier champion of the case.                *)
GatesNeverFall ==
    \A old \in past :
        /\ old.case = champion.case
        /\ \A g \in HardGates(old.case) :
            StatusRank[champion.outcome[g]] >= StatusRank[old.outcome[g]]

(* When every run observed its tokens and its time, an earlier champion is *)
(* never a candidate again: the comparison has no cycles.                  *)
NoComeback ==
    (\A r \in past \cup {champion} : r.tokens # Null /\ r.time # Null) =>
        \A old \in past : Verdict(champion, old) # "PROMOTE_CANDIDATE"

(* A result that says PASS was observed to pass at every gate, required or *)
(* not, so all its proof is PROVEN; and the two status contracts of the    *)
(* program give the same status to the same outcomes.                      *)
PassIsObserved ==
    /\ champion.status = "PASS" <=>
            \A g \in Gates(champion.case) : champion.outcome[g] = "PASS"
    /\ champion.status = "PASS" /\ champion.case.proof # {} =>
            champion.proof_status = "PROVEN"
    /\ champion.status =
            AggregateStatus({[required |-> g \in HardGates(champion.case),
                              status |-> champion.outcome[g]] :
                                g \in Gates(champion.case)}, {})
=============================================================================
