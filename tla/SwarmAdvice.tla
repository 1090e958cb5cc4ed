---------------------------- MODULE SwarmAdvice ----------------------------
(***************************************************************************)
(* Three parts of the program say which worker may see which data: the     *)
(* router that swarms call (provider_router.py), the capability registry   *)
(* (capabilities/registry-v2.json through capability_manifest.py), and the *)
(* strategy resolver over a snapshot of it.  This module puts the worker   *)
(* manifests of the registry beside a run of a swarm.                      *)
(***************************************************************************)
EXTENDS WorkerSwarm, CapabilityAdvice

WorkerManifest(id, network, sensitivities, policies, all, groups) ==
    [id |-> id, domains |-> {"ALL"}, features |-> {"agent.delegate.proposal"},
     network |-> network, sensitivities |-> sensitivities, policies |-> policies,
     declared |-> "DECLARED", probe |-> [all |-> all, groups |-> groups]]

WorkerOf ==
    [local |-> WorkerManifest("worker.local-openai", "none",
                {"public", "private", "secret"}, <<>>,
                {"MADO_LOCAL_BASE_URL", "MADO_LOCAL_MODEL"}, {}),
     openrouter |-> WorkerManifest("worker.openrouter", "required",
                {"public", "private"}, <<>>, {"OPENROUTER_API_KEY"},
                {{"MADO_OPENROUTER_MODEL", "OPENROUTER_MODEL"}}),
     nvidia |-> WorkerManifest("worker.nvidia-nim", "required",
                {"public", "private"}, [private |-> {"explicit.nvidia_private"}],
                {"MADO_NVIDIA_MODEL"}, {{"NVIDIA_API_KEY", "MADO_NVIDIA_API_KEY"}}),
     empero |-> WorkerManifest("worker.empero", "required", {"public"},
                [public |-> {"explicit.logged_free"}], {}, {})]

WorkerRegistry == {WorkerOf[p] : p \in Providers}

(* The policy tokens that the consents and switches of an environment are. *)
PolicyTokens(env, consents) ==
    (IF LoggedFreeAllowed(env, consents) THEN {"explicit.logged_free"} ELSE {})
    \cup (IF PrivateNvidiaAllowed(env, consents) THEN {"explicit.nvidia_private"} ELSE {})

-----------------------------------------------------------------------------
(* The providers the capability registry selects for a delegated task.     *)
Delegates(env, sensitivity, consents) ==
    {p \in Providers : WorkerOf[p].id \in
        ResolveCapabilities(WorkerRegistry, {"agent.delegate.proposal"}, "CODE",
            sensitivity, PolicyTokens(env, consents), env, TRUE, TRUE)}

(* The ones the strategy resolver binds to it from a probed snapshot, when *)
(* the authority allows the network.                                       *)
BoundDelegates(env, sensitivity, consents) ==
    {p \in Providers : WorkerOf[p] \in
        BindingForFeature("agent.delegate.proposal", WorkerRegistry,
            BuildSnapshot("shipped", WorkerRegistry, {}, env, {}, TRUE),
            [domains |-> {"CODE"}, sensitivity |-> sensitivity],
            [permissions |-> {"delegate", "network"},
             policies |-> PolicyTokens(env, consents)])}

(* The registry, the resolver and the router agree on every provider; the  *)
(* automatic route finds one exactly when there is one; and a call that is *)
(* made with the configured model goes to a provider the registry selects. *)
AdviceMatchesRouting ==
    LET j == ProfileEnv(job)
        s == IF j.kind = "benchmark" THEN "public" ELSE j.sensitivity
        delegates == Delegates(j.env, s, j.consents)
        routed(p) == SelectProvider(p, s, FALSE, j.preferFree, j.env, j.consents)
    IN  /\ delegates = BoundDelegates(j.env, s, j.consents)
        /\ delegates = {p \in Providers : routed(p) # Refused}
        /\ (routed("auto") = Refused) <=> (delegates = {})
        /\ j.kind \in {"worker", "adaptive"} /\ ~j.model /\ j.models = {} =>
                \A r \in DOMAIN route : route[r] \in delegates
=============================================================================
