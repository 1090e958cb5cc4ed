------------------------- MODULE CapabilityAdvice -------------------------
(***************************************************************************)
(* The advisory strategy layer: capability manifests and their probes      *)
(* (capability_manifest.py), the snapshot of what is present               *)
(* (capability_snapshot.py), and the resolver that says which strategy     *)
(* shapes are READY, CONDITIONAL or BLOCKED (strategy_resolver.py).        *)
(*                                                                         *)
(* A manifest is a record [id, domains, features, network, sensitivities,  *)
(* policies, declared, probe].  What a probe looks at (a file, a program,  *)
(* an environment variable) is a fact; the world is the set of facts that  *)
(* hold now.  A probe is [all, groups]: every fact of all and one of each  *)
(* group; the six probe types are all of this form.  A registry is a set   *)
(* of manifests under a version name that stands for its canonical digest. *)
(***************************************************************************)
EXTENDS FiniteSets

Domains == {"CODE", "GAMEPLAY", "UI", "SPRITE", "IMAGE", "ANIMATION",
            "ASSET_INTEGRATION", "REFERENCE_TO_UI", "PIXEL_ART", "PLAYTEST",
            "RELEASE"}

SensitivityOrder == [public |-> {"public", "private", "secret"},
                     private |-> {"private", "secret"},
                     secret |-> {"secret"}]

NoProbe == [all |-> {"none"}, groups |-> {}]

-----------------------------------------------------------------------------
(***************************************************************************)
(* Manifests.                                                              *)
(***************************************************************************)
ManifestOK(m) ==
    /\ m.domains # {} /\ m.features # {} /\ m.sensitivities # {}
    /\ m.domains = {"ALL"} \/ m.domains \subseteq Domains
    /\ DOMAIN m.policies \subseteq m.sensitivities
    /\ \A s \in DOMAIN m.policies : m.policies[s] # {}

RegistryOK(manifests) ==
    /\ \A m \in manifests : ManifestOK(m)
    /\ \A m, n \in manifests : m.id = n.id => m = n

(* broken: the probe raised OSError, which only one that looks at          *)
(* something can do.                                                       *)
ProbeManifest(m, world, broken) ==
    IF m.declared = "RETIRED" THEN "RETIRED"
    ELSE IF m.probe = NoProbe THEN m.declared
    ELSE IF broken /\ m.probe.all \cup UNION m.probe.groups # {} THEN "UNKNOWN"
    ELSE IF /\ m.probe.all \subseteq world
            /\ \A g \in m.probe.groups : g \cap world # {}
         THEN "PROBED" ELSE "UNAVAILABLE"

PolicyOf(m, sensitivity) ==
    IF sensitivity \in DOMAIN m.policies THEN m.policies[sensitivity] ELSE {}

(* resolve --feature --domain --sensitivity --policy, with --probe and     *)
(* --require-probed (required): the ids that are selected.                 *)
ResolveCapabilities(manifests, features, domain, sensitivity, policies, world, probing, required) ==
    LET Present(m) == LET state == ProbeManifest(m, world, FALSE)
                      IN  /\ state \notin {"UNAVAILABLE", "RETIRED"}
                          /\ required => state \in {"PROBED", "QUALIFIED"}
    IN  {m.id : m \in {n \in manifests :
            /\ features \subseteq n.features
            /\ n.domains = {"ALL"} \/ domain \in n.domains
            /\ sensitivity \in n.sensitivities
            /\ PolicyOf(n, sensitivity) \subseteq policies
            /\ n.declared # "RETIRED"
            /\ probing => Present(n)}}

-----------------------------------------------------------------------------
(***************************************************************************)
(* Snapshots.  A qualification is [capability, scope, bound]: bound is the *)
(* manifest whose digest the record names.  seen is not in the file: it is *)
(* the world at the moment of the snapshot, which properties compare with. *)
(***************************************************************************)
QualificationsOK(manifests, records) ==
    \A q \in records : \E m \in manifests : m.id = q.capability

BuildSnapshot(version, manifests, records, world, broken, probing) ==
    [registry |-> version, seen |-> world,
     states |-> [id \in {m.id : m \in manifests} |->
                    LET m == CHOOSE n \in manifests : n.id = id
                    IN  IF probing THEN ProbeManifest(m, world, id \in broken)
                        ELSE m.declared],
     active |-> [id \in {m.id : m \in manifests} |->
                    {q.scope : q \in {p \in records :
                        p.capability = id /\ p.bound.id = id
                        /\ p.bound \in manifests}}]]

-----------------------------------------------------------------------------
(***************************************************************************)
(* The resolver.  An intent is [domains, goal, work_mode, proof,           *)
(* sensitivity, coordination], goal being the domains the legacy           *)
(* classifier finds in its text; an authority is [permissions, ceiling,    *)
(* policies].                                                              *)
(***************************************************************************)
IntentOK(intent) == intent.domains # {} /\ intent.domains \subseteq Domains

DomainRequiredFeatures ==
    [CODE |-> {"engine.project.inspect"},
     GAMEPLAY |-> {"engine.project.inspect", "engine.runtime.execute"},
     UI |-> {"engine.project.inspect", "evidence.layout"},
     SPRITE |-> {"sprite.normalize"},
     IMAGE |-> {"image.generate"},
     ANIMATION |-> {"engine.runtime.execute"},
     ASSET_INTEGRATION |-> {"engine.project.inspect"},
     REFERENCE_TO_UI |-> {"guidance.reference_to_ui", "guidance.ui.design"},
     PIXEL_ART |-> {"guidance.pixel_art"},
     PLAYTEST |-> {"engine.runtime.execute"},
     RELEASE |-> {"artifact.release.audit"}]

ProofRequiredFeatures ==
    LET run == {"evidence.static", "engine.runtime.execute"}
    IN  [P0 |-> {"evidence.static"}, P1 |-> run,
         P2 |-> run \cup {"evidence.layout"},
         P3 |-> run \cup {"evidence.behavior"},
         P4 |-> run \cup {"screenshot.capture"},
         P5 |-> run \cup {"artifact.export", "artifact.release.audit"}]

RequiredFeatures(intent) ==
    {"strategy.coordinate"} \cup ProofRequiredFeatures[intent.proof]
        \cup UNION {DomainRequiredFeatures[d] : d \in intent.domains}

ManifestCompatible(m, feature, intent, authority) ==
    /\ feature \in m.features
    /\ "ALL" \in m.domains \/ m.domains \cap intent.domains # {}
    /\ intent.sensitivity \in m.sensitivities
    /\ m.network = "required" => "network" \in authority.permissions
    /\ PolicyOf(m, intent.sensitivity) \subseteq authority.policies

BindingForFeature(feature, manifests, snapshot, intent, authority) ==
    {m \in manifests :
        /\ m.id \in DOMAIN snapshot.states
        /\ ManifestCompatible(m, feature, intent, authority)
        /\ snapshot.states[m.id] \notin {"UNAVAILABLE", "RETIRED"}}

CandidateState(bindings, snapshot, allowed, forcedConditional) ==
    IF ~allowed \/ {} \in bindings THEN "BLOCKED"
    ELSE IF \/ \E b \in bindings : \A m \in b : snapshot.states[m.id] # "PROBED"
            \/ forcedConditional
         THEN "CONDITIONAL" ELSE "READY"

(* What each shape asks beyond the intent: features and permissions.       *)
Shape(strategy) ==
    CASE strategy = "direct-agent-with-tools" ->
            [extra |-> {}, permissions |-> {"read_repo", "execute_tools"}]
      [] strategy = "isolated-mutation-agent" ->
            [extra |-> {"workspace.isolated.mutation", "repo.worktree",
                        "review.boundary"},
             permissions |-> {"read_repo", "write_isolated_workspace",
                              "execute_tools"}]
      [] strategy = "single-delegate-proposal" ->
            [extra |-> {"agent.delegate.proposal"},
             permissions |-> {"read_repo", "delegate"}]
      [] strategy = "adaptive-swarm" ->
            [extra |-> {"agent.delegate.proposal", "strategy.multi_agent.adaptive"},
             permissions |-> {"read_repo", "delegate"}]

Offered(intent) ==
    {"direct-agent-with-tools", "single-delegate-proposal", "adaptive-swarm"}
        \cup (IF intent.work_mode = "modify" THEN {"isolated-mutation-agent"} ELSE {})

Bindings(strategy, manifests, snapshot, intent, authority) ==
    {BindingForFeature(f, manifests, snapshot, intent, authority) :
        f \in RequiredFeatures(intent) \cup Shape(strategy).extra}

BuildCandidate(strategy, manifests, snapshot, intent, authority) ==
    IF strategy = "direct-agent-with-tools" /\ intent.work_mode = "modify"
    THEN "BLOCKED"
    ELSE CandidateState(
            Bindings(strategy, manifests, snapshot, intent, authority), snapshot,
            /\ authority.ceiling \in SensitivityOrder[intent.sensitivity]
            /\ Shape(strategy).permissions \subseteq authority.permissions,
            strategy = "adaptive-swarm" /\ intent.coordination # "parallel_ok")

(* Mutant of ResolverAccepts: a snapshot of another registry will do.      *)
ResolverAcceptsAny(version, manifests, snapshot, intent) ==
    /\ IntentOK(intent) /\ RegistryOK(manifests)
    /\ DOMAIN snapshot.states \subseteq {m.id : m \in manifests}

(* The version under which the snapshot was taken must be the one of the   *)
(* registry the resolver reads.                                            *)
ResolverAccepts(version, manifests, snapshot, intent) ==
    /\ IntentOK(intent) /\ RegistryOK(manifests)
    /\ snapshot.registry = version
    /\ DOMAIN snapshot.states \subseteq {m.id : m \in manifests}

BuildStrategyCandidates(manifests, snapshot, intent, authority) ==
    [s \in Offered(intent) |->
        BuildCandidate(s, manifests, snapshot, intent, authority)]
=============================================================================
