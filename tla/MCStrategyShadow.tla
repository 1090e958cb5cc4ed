-------------------------- MODULE MCStrategyShadow --------------------------
(***************************************************************************)
(* A part of the shipped registry (capabilities/registry-v2.json), an      *)
(* edited copy of it in which the engine lost its static evidence and the  *)
(* swarm is retired, and one that does not validate.                       *)
(***************************************************************************)
EXTENDS StrategyShadow

CONSTANTS c1, c2

MCCommands == {c1, c2}
MCReceipts == {"r1"}
MCStrategies == {"direct-agent-with-tools", "isolated-mutation-agent",
                 "single-delegate-proposal", "adaptive-swarm"}
MCOutcomes == {[kind |-> "result-v1.1", status |-> "PASS"],
               [kind |-> "eval-result-v0.1", status |-> "SKIPPED"]}
MCFacts == {"godot", "OPENROUTER_API_KEY"}

All == {"public", "private", "secret"}
Always == [all |-> {}, groups |-> {}]
Manifest(id, domains, features, network, sensitivities, probe) ==
    [id |-> id, domains |-> domains, features |-> features, network |-> network,
     sensitivities |-> sensitivities, policies |-> <<>>, declared |-> "DECLARED",
     probe |-> probe]

Orchestrator == Manifest("runtime.orchestrator", {"ALL"}, {"strategy.coordinate"},
                         "none", All, Always)
Engine == Manifest("engine.godot", {"CODE", "GAMEPLAY", "RELEASE"},
                   {"engine.project.inspect", "engine.runtime.execute",
                    "evidence.static"}, "none", All,
                   [all |-> {}, groups |-> {{"godot"}}])
OpenRouterWorker == Manifest("worker.openrouter", {"ALL"}, {"agent.delegate.proposal"},
                       "required", {"public", "private"},
                       [all |-> {"OPENROUTER_API_KEY"}, groups |-> {}])
Swarm == Manifest("adapter.adaptive-swarm", {"ALL"}, {"strategy.multi_agent.adaptive"},
                  "none", All, Always)
Ovp == Manifest("runtime.ovp-mutation", {"CODE", "GAMEPLAY"},
                {"workspace.isolated.mutation", "repo.worktree", "review.boundary"},
                "none", All, Always)

MCRegistries ==
    [shipped |-> {Orchestrator, Engine, OpenRouterWorker, Swarm, Ovp},
     edited |-> {Orchestrator, [Engine EXCEPT !.features = @ \ {"evidence.static"}],
                 OpenRouterWorker, [Swarm EXCEPT !.declared = "RETIRED"], Ovp},
     invalid |-> {[Engine EXCEPT !.domains = {"ALL", "CODE"}]}]

MCQualifications ==
    {[capability |-> "engine.godot", scope |-> "canary", bound |-> Engine]}

Task(found) == [found |-> found, long |-> FALSE, architecture |-> FALSE]

\* A private change with every permission, and a public look around with
\* none for the network.
MCRequests ==
    {[intent |-> [domains |-> {"CODE"}, goal |-> Task({"CODE", "UI"}),
                  work_mode |-> "modify", proof |-> "P0",
                  sensitivity |-> "private", coordination |-> "minimal"],
      authority |-> [permissions |-> {"read_repo", "write_isolated_workspace",
                                      "execute_tools", "delegate", "network"},
                     ceiling |-> "private", policies |-> {}]],
     [intent |-> [domains |-> {"GAMEPLAY"}, goal |-> Task({"GAMEPLAY"}),
                  work_mode |-> "observe", proof |-> "P1",
                  sensitivity |-> "public", coordination |-> "parallel_ok"],
      authority |-> [permissions |-> {"read_repo", "execute_tools", "delegate"},
                     ceiling |-> "public", policies |-> {}]]}

Symmetry == {[c \in MCCommands |-> IF c = c1 THEN c2 ELSE c1], [c \in MCCommands |-> c]}

(* Every comparison that can be made of a valid registry: what Shadows has *)
(* to hold.                                                                *)
AllShadows ==
    UNION {{CompareShadow(q.intent, q.authority, Registries[v],
        BuildSnapshot(v, Registries[v], Qualifications, w, broken, probing)) :
        q \in Requests, w \in SUBSET Facts,
        broken \in Faults(v), probing \in BOOLEAN} :
        v \in {u \in DOMAIN Registries : RegistryOK(Registries[u])}}
=============================================================================
