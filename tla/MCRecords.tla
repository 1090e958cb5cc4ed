------------------------------ MODULE MCRecords ------------------------------
(***************************************************************************)
(* Three small parts that keep records on disk and do not meet: skill      *)
(* feedback, evaluation results and the vendored snapshots.  A behaviour   *)
(* is one of one of them; the others stay as they began.                   *)
(***************************************************************************)
EXTENDS SkillFeedback, EvalPromotion, VendorUpdate

\* Two receipts; one of them with two contents.
MCFeedbackEvents ==
    {[receipt |-> "r1", status |-> "PASS", skills |-> {"ui"}],
     [receipt |-> "r1", status |-> "FAIL", skills |-> {"ui", "sprite"}],
     [receipt |-> "r2", status |-> "PASS", skills |-> {"sprite"}]}

MCCase == [digest |-> "d1", proof |-> {"P1"}, acceptance |-> {"saves", "smooth"},
           required |-> {"saves"}]
MCNewCase == [digest |-> "d2", proof |-> {}, acceptance |-> {"saves"},
              required |-> {"saves"}]
MCCases == {MCCase, MCNewCase}

Run(case, seen, signatures, repairs, tokens, time) ==
    [case |-> case, seen |-> seen, signatures |-> signatures, repairs |-> repairs,
     tokens |-> tokens, time |-> time]

\* Every status of the hard gates; a soft gate; every measure on equal gates
\* and on better ones; a run of the case after it was changed.
MCRuns ==
    {Run(MCCase, seen, {}, 0, 1, 1) :
        seen \in [{"P1", "saves"} -> {"FAIL", "UNKNOWN", "WARN", "PASS"}]}
    \cup
    {Run(MCCase, [P1 |-> p1, saves |-> "PASS", smooth |-> smooth], {}, 1, 1, 1) :
        p1 \in {"WARN", "PASS"}, smooth \in {"FAIL", "PASS"}}
    \cup
    {Run(MCCase, [P1 |-> p1, saves |-> "PASS"], m[1], m[2], m[3], m[4]) :
        p1 \in {"WARN", "PASS"},
        m \in ({{}, {"timeout"}} \X {0, 1} \X {1} \X {1})
                \cup ({{}} \X {0} \X {Null, 0, 2} \X {Null, 0, 1})}
    \cup {Run(MCNewCase, [saves |-> "PASS"], {}, 0, 0, 0)}

-----------------------------------------------------------------------------
Others(mine) ==
    CASE mine = "feedback" -> UNCHANGED <<evalVars, vendorVars>>
      [] mine = "evals" -> UNCHANGED <<feedbackVars, vendorVars>>
      [] mine = "vendor" -> UNCHANGED <<feedbackVars, evalVars>>

VARIABLE part

Init == /\ part \in {"feedback", "evals", "vendor"}
        /\ FeedbackInit
        /\ IF part = "evals" THEN EvalInit
           ELSE champion = BuildEvalResult(Run(MCNewCase, <<>>, {}, 0, 0, 0)) /\ past = {}
        /\ VendorInit /\ (part # "vendor" => root = Absent)

Next ==
    /\ UNCHANGED part
    /\ \/ part = "feedback" /\ FeedbackNext /\ Others("feedback")
       \/ part = "evals" /\ EvalNext /\ Others("evals")
       \/ part = "vendor" /\ VendorNext /\ Others("vendor")

Spec == Init /\ [][Next]_<<part, feedbackVars, evalVars, vendorVars>>
=============================================================================
