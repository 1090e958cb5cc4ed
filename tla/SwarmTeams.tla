----------------------------- MODULE SwarmTeams -----------------------------
(***************************************************************************)
(* The team an adaptive swarm puts together for a task: the policy part of *)
(* adaptive_swarm.py.  A task is [found, long, architecture]: the domains  *)
(* the classifier finds in its text, whether it is longer than 1000        *)
(* characters, and whether it speaks of architecture.                      *)
(***************************************************************************)
EXTENDS Integers, FiniteSets

RoleTiers ==
    [architect |-> "reasoning", recon |-> "reasoning",
     gameplay_specialist |-> "specialist", ui_specialist |-> "specialist",
     asset_specialist |-> "specialist", implementer |-> "coding",
     test_writer |-> "verification", release_auditor |-> "verification",
     reviewer |-> "verification"]

DomainRoles ==
    LET build == {"implementer", "test_writer"}
    IN  [CODE |-> build,
         GAMEPLAY |-> build \cup {"gameplay_specialist"},
         UI |-> build \cup {"ui_specialist"},
         SPRITE |-> build \cup {"asset_specialist"},
         IMAGE |-> {"asset_specialist", "test_writer"},
         ANIMATION |-> build \cup {"asset_specialist"},
         ASSET_INTEGRATION |-> build \cup {"asset_specialist"},
         REFERENCE_TO_UI |-> build \cup {"ui_specialist", "asset_specialist"},
         PIXEL_ART |-> {"asset_specialist", "test_writer"},
         PLAYTEST |-> {"gameplay_specialist", "test_writer"},
         RELEASE |-> {"release_auditor", "test_writer"}]

ComplexityFor(task) ==
    LET one(b) == IF b THEN 1 ELSE 0
    IN  Cardinality(task.found) + 2 * one("RELEASE" \in task.found)
            + one({"ASSET_INTEGRATION", "REFERENCE_TO_UI"} \cap task.found # {})
            + one(task.long) + one(task.architecture)

ChooseRoles(task) ==
    LET asked == UNION {DomainRoles[d] : d \in task.found}
        team == (asked
                    \cup (IF task.found = {} THEN {"recon"} ELSE {})
                    \cup (IF ComplexityFor(task) >= 3 \/ Cardinality(task.found) >= 2
                          THEN {"architect"} ELSE {}))
                \ (IF "RELEASE" \in task.found THEN {"implementer"} ELSE {})
    IN  IF team = {} THEN {"recon"} ELSE team

ReviewWanted(task) ==
    \/ Cardinality(ChooseRoles(task)) >= 2
    \/ "RELEASE" \in task.found
    \/ Cardinality(task.found) >= 2
=============================================================================
