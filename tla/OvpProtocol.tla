------------------------------ MODULE OvpProtocol ------------------------------
(***************************************************************************)
(* What the OVP mutation boundary promises, without git, locks or files:   *)
(* a task walks through the states of its manifest, the evidence put up    *)
(* for review stays the same until the orchestrator asks for rework, only  *)
(* that evidence lands in the leader's project, only after acceptance, and *)
(* a task is closed with a proof only of a project its evidence landed in. *)
(*                                                                         *)
(* OvpRuntime is shown to implement this specification.                    *)
(***************************************************************************)
CONSTANTS
    Tasks,    \* task ids
    Commits   \* everything a worker may commit

VARIABLES
    state,     \* where each task is in its life
    evidence,  \* the commits of each task's last receipt
    landed     \* the commits of each task in the leader's project

vars == <<state, evidence, landed>>

Receivable == {"READY", "DISPATCHED", "WORKING", "REWORK"}
Proofs == {"PROVEN", "FAILED", "UNKNOWN"}
Accepted == {"ACCEPTED", "INTEGRATED"} \union Proofs
Decisions == {"ACCEPTED", "REWORK", "REJECTED"}

Move(t, from, to) ==
    /\ state[t] \in from
    /\ state' = [state EXCEPT ![t] = to]

Init ==
    /\ state = [t \in Tasks |-> "absent"]
    /\ evidence = [t \in Tasks |-> {}]
    /\ landed = [t \in Tasks |-> {}]

Prepare(t) ==
    /\ Move(t, {"absent"}, "READY")
    /\ UNCHANGED <<evidence, landed>>

Dispatch(t) ==
    /\ \/ Move(t, {"READY", "REWORK"}, "DISPATCHED")
       \/ Move(t, {"DISPATCHED", "REWORK"}, "WORKING")
    /\ UNCHANGED <<evidence, landed>>

\* A worker puts up a nonempty set of commits and stops.
Report(t) ==
    /\ Move(t, Receivable, "REVIEW_READY")
    /\ \E e \in (SUBSET Commits) \ {{}} : evidence' = [evidence EXCEPT ![t] = e]
    /\ UNCHANGED landed

\* The orchestrator decides on that evidence and no other.
Decide(t) ==
    /\ \E d \in Decisions : Move(t, {"REVIEW_READY"}, d)
    /\ UNCHANGED <<evidence, landed>>

\* The task counts as integrated only when its evidence is in the project.
Integrate(t) ==
    /\ evidence[t] \subseteq landed[t]
    /\ Move(t, {"ACCEPTED"}, "INTEGRATED")
    /\ UNCHANGED <<evidence, landed>>

\* The proof path judges a project that contains the evidence.
Prove(t) ==
    /\ evidence[t] \subseteq landed[t]
    /\ \E verdict \in Proofs : Move(t, {"INTEGRATED"}, verdict)
    /\ UNCHANGED <<evidence, landed>>

\* What has landed of a task is accepted evidence and nothing else.  It enters the
\* project in whole or in part, and leaves it again where an integration fails or
\* the leader goes back.
Allowed(t) == IF state[t] \in Accepted THEN evidence[t] ELSE {}

Land ==
    /\ landed' \in [Tasks -> SUBSET Commits]
    /\ \A t \in Tasks : landed'[t] \subseteq Allowed(t)
    /\ UNCHANGED <<state, evidence>>

Next ==
    \/ Land
    \/ \E t \in Tasks :
        \/ Prepare(t)
        \/ Dispatch(t)
        \/ Report(t)
        \/ Decide(t)
        \/ Integrate(t)
        \/ Prove(t)

Spec == Init /\ [][Next]_vars
================================================================================
