--------------------------- MODULE StrategyShadow ---------------------------
(***************************************************************************)
(* From the capabilities of a machine to the evidence about its strategies *)
(* (capability_snapshot.py, strategy_shadow_compare.py,                    *)
(* shadow_evidence.py): a snapshot is taken, an intent is compared with    *)
(* what the snapshot allows, and the comparison is captured in the ledger  *)
(* and joined with an outcome.  The steps are separate commands that hand  *)
(* files to each other; between them the registry may be edited, and what  *)
(* the probes look at may come and go.                                     *)
(***************************************************************************)
EXTENDS Integers, ShadowEvidence, CapabilityAdvice, SwarmTeams

CONSTANTS Registries,      \* the manifests of each version of the registry
          Facts,           \* what probes look at and may come or go
          Qualifications,  \* the records of the qualification file
          Requests,        \* the intents, each with the authority it comes with
          MaxChanges,      \* bound: edits of the registry
          MaxSnapshots,    \* bound: snapshots taken
          MaxCompares,     \* bound: comparisons made
          MaxCommands      \* bound: ledger commands started

NoSnapshot == [registry |-> None]
NoFile == [shadow |-> None]

VARIABLES version,    \* the version of the registry file
          snapshot,   \* the snapshot file
          file,       \* the comparison file
          used        \* how much of each bound is used

shadowVars == <<version, snapshot, file, used, ledgerVars>>

Spend(what, max) == used[what] < max /\ used' = [used EXCEPT ![what] = @ + 1]

Init ==
    /\ LedgerInit
    /\ version \in {v \in DOMAIN Registries : RegistryOK(Registries[v])}
    /\ snapshot = NoSnapshot /\ file = NoFile
    /\ used = [changes |-> 0, snapshots |-> 0, compares |-> 0,
               commands |-> 0]

RegistryEdited(v) ==
    /\ Spend("changes", MaxChanges)
    /\ v # version /\ version' = v
    /\ UNCHANGED <<snapshot, file, ledgerVars>>

(* The capabilities whose probe raises OSError: none or all.               *)
Faults(v) == {{}, {m.id : m \in Registries[v]}}

(* capability_snapshot.py, whatever the world is like by then: an invalid  *)
(* registry or a qualification of a capability that it lacks is refused.   *)
TakeSnapshot(world, probing, broken) ==
    /\ Spend("snapshots", MaxSnapshots)
    /\ RegistryOK(Registries[version])
    /\ QualificationsOK(Registries[version], Qualifications)
    /\ snapshot' = BuildSnapshot(version, Registries[version], Qualifications,
                                 world, broken, probing)
    /\ UNCHANGED <<version, file, ledgerVars>>

(* The legacy side: the domains the classifier finds in the goal and the   *)
(* team they give.                                                         *)
ProjectLegacyPolicy(intent) ==
    [source |-> "projection", domains |-> intent.goal.found,
     roles |-> ChooseRoles(intent.goal), review |-> ReviewWanted(intent.goal)]

CompareShadow(intent, authority, manifests, snap) ==
    [intent |-> intent, authority |-> authority, registry |-> snap.registry,
     states |-> snap.states, active |-> snap.active,
     legacy |-> ProjectLegacyPolicy(intent),
     candidates |-> BuildStrategyCandidates(manifests, snap, intent, authority)]

(* strategy_shadow_compare.py > shadow-compare.json.  file also remembers  *)
(* the world the snapshot saw, which the file does not.                    *)
WriteComparison(intent, authority) ==
    /\ Spend("compares", MaxCompares)
    /\ snapshot # NoSnapshot
    /\ ResolverAccepts(version, Registries[version], snapshot, intent)
    /\ file' = [shadow |-> CompareShadow(intent, authority, Registries[version], snapshot),
                seen |-> snapshot.seen]
    /\ UNCHANGED <<version, snapshot, ledgerVars>>

CaptureFile(c, r) ==
    /\ Spend("commands", MaxCommands)
    /\ file # NoFile
    /\ StartCapture(c, r, file.shadow)
    /\ UNCHANGED <<version, snapshot, file>>

JoinOutcome(c) ==
    /\ Spend("commands", MaxCommands)
    /\ JoinSome(c)
    /\ UNCHANGED <<version, snapshot, file>>

GoOn(c) ==
    /\ Continue(c)
    /\ UNCHANGED <<version, snapshot, file, used>>

Next ==
    \/ \E v \in DOMAIN Registries : RegistryEdited(v)
    \/ \E world \in SUBSET Facts, probing \in BOOLEAN, broken \in Faults(version) :
            TakeSnapshot(world, probing, broken)
    \/ \E q \in Requests : WriteComparison(q.intent, q.authority)
    \/ \E c \in Commands :
            \/ \E r \in Receipts : CaptureFile(c, r)
            \/ JoinOutcome(c)
            \/ GoOn(c)

Spec == Init /\ [][Next]_shadowVars

-----------------------------------------------------------------------------
(* The comparison file calls a strategy READY only when every feature it   *)
(* needs is provided by some capability that was really there when the     *)
(* snapshot was taken, for the data in question, with the permissions the  *)
(* authority has and the policies it was granted, read from the same       *)
(* registry as the snapshot; changing files are never READY to be changed  *)
(* outside an isolated workspace.                                          *)
ReadyIsBacked ==
    file # NoFile =>
        LET s == file.shadow
        IN  \A strategy \in DOMAIN s.candidates :
                s.candidates[strategy] = "READY" =>
                /\ \A f \in RequiredFeatures(s.intent) \cup Shape(strategy).extra :
                    \E m \in Registries[s.registry] :
                        /\ f \in m.features /\ s.intent.sensitivity \in m.sensitivities
                        /\ m.probe # NoProbe /\ m.probe.all \subseteq file.seen
                        /\ \A g \in m.probe.groups : g \cap file.seen # {}
                        /\ m.network # "required" \/ "network" \in s.authority.permissions
                        /\ PolicyOf(m, s.intent.sensitivity) \subseteq s.authority.policies
                /\ Shape(strategy).permissions \subseteq s.authority.permissions
                /\ s.intent.work_mode = "modify" => strategy # "direct-agent-with-tools"

(* Every outcome that the ledger binds to a strategy of the resolver is of *)
(* one that the authority of the comparison allowed for that data: it had  *)
(* the permissions the strategy and its network capabilities ask, changes  *)
(* stayed in an isolated workspace, and nothing it needed was found absent *)
(* or retired.                                                             *)
ExecutedWasAllowed ==
    \A e \in ledger :
        e.type = "OUTCOME_JOINED" /\ e.route # "legacy" =>
            LET s == e.shadow
            IN  /\ e.strategy \in DOMAIN s.candidates
                /\ Shape(e.strategy).permissions \subseteq s.authority.permissions
                /\ s.intent.work_mode = "modify" => e.strategy # "direct-agent-with-tools"
                /\ \A f \in RequiredFeatures(s.intent) \cup Shape(e.strategy).extra :
                    \E m \in Registries[s.registry] :
                        /\ f \in m.features
                        /\ s.states[m.id] \notin {"UNAVAILABLE", "RETIRED"}
                        /\ m.network # "required" \/ "network" \in s.authority.permissions
=============================================================================
