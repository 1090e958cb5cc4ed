-------------------------- MODULE WorkerSwarmProofs --------------------------
(***************************************************************************)
(* Proofs about WorkerSwarm, for any set of jobs: whom data may be sent    *)
(* to, what a report says, and when the reviewer is called; and about      *)
(* SwarmAdvice: what the router does is what the registry says.            *)
(***************************************************************************)
EXTENDS SwarmAdvice, TLAPS

-----------------------------------------------------------------------------
(* The team.                                                               *)
LEMMA DomainRolesAreNoReview ==
    \A d \in DOMAIN DomainRoles : ReviewRole \notin DomainRoles[d]
  BY DEF DomainRoles, ReviewRole

LEMMA TeamIsThere ==
    ASSUME NEW j \in Jobs PROVE Roles(j) # {} /\ ReviewRole \notin Roles(j)
<1>1. ASSUME NEW task, task.found \subseteq DOMAIN DomainRoles
      PROVE  ChooseRoles(task) # {} /\ ReviewRole \notin ChooseRoles(task)
  <2>1. ReviewRole \notin UNION {DomainRoles[d] : d \in task.found}
    BY <1>1, DomainRolesAreNoReview
  <2> QED
    BY <2>1 DEF ChooseRoles, ReviewRole
<1> QED
  BY <1>1, JobsAreAccepted DEF Roles, FixedRoles, ReviewRole

-----------------------------------------------------------------------------
(* The router.                                                             *)
LEMMA FirstCandidateIsOne ==
    ASSUME NEW s \in {"public", "private", "secret"}, NEW prefer \in BOOLEAN,
           NEW env, NEW consents, ProviderCandidates(s, env, consents) # {}
    PROVE  FirstCandidate(FallbackOrder(s, prefer), ProviderCandidates(s, env, consents))
                \in ProviderCandidates(s, env, consents)
<1> DEFINE c == ProviderCandidates(s, env, consents)
           o == FallbackOrder(s, prefer)
           First(i) == o[i] \in c /\ \A j \in 1..(i - 1) : o[j] \notin c
<1>1. c \subseteq {"local", "openrouter", "nvidia", "empero"} /\ c # {}
  BY DEF ProviderCandidates, Providers
<1>2. s = "private" => "empero" \notin c
  BY DEF ProviderCandidates, Permitted
<1>3. s = "secret" => c \subseteq {"local"}
  BY DEF ProviderCandidates, Permitted
<1> HIDE DEF c
<1>4. \E i \in DOMAIN o : First(i)
  <2>1. CASE s = "secret"
    <3>1. o = <<"local">>
      BY <2>1 DEF FallbackOrder
    <3>2. "local" \in c
      BY <1>1, <1>3, <2>1
    <3>3. 1 \in DOMAIN o /\ First(1)
      BY <3>1, <3>2
    <3> QED
      BY <3>3
  <2>2. CASE s = "private"
    <3>1. o = <<"openrouter", "nvidia", "local">>
      BY <2>2 DEF FallbackOrder
    <3>2. CASE "openrouter" \in c
      <4>1. 1 \in DOMAIN o /\ First(1)
        BY <3>1, <3>2
      <4> QED
        BY <4>1
    <3>3. CASE "openrouter" \notin c /\ "nvidia" \in c
      <4>1. 2 \in DOMAIN o /\ First(2)
        BY <3>1, <3>3
      <4> QED
        BY <4>1
    <3>4. CASE "openrouter" \notin c /\ "nvidia" \notin c
      <4>1. "local" \in c
        BY <1>1, <1>2, <2>2, <3>4
      <4>2. 3 \in DOMAIN o /\ First(3)
        BY <3>1, <3>4, <4>1
      <4> QED
        BY <4>2
    <3> QED
      BY <3>2, <3>3, <3>4
  <2>3. CASE s = "public"
    <3> DEFINE Names(a, b, x, y) == o = <<a, b, x, y>> /\ c \subseteq {a, b, x, y}
    <3>1. \E a, b, x, y \in Providers : Names(a, b, x, y)
      BY <1>1, <2>3 DEF FallbackOrder, Providers
    <3>2. PICK a \in Providers, b \in Providers, x \in Providers, y \in Providers :
                Names(a, b, x, y)
      BY <3>1
    <3>3. CASE a \in c
      <4>1. 1 \in DOMAIN o /\ First(1)
        BY <3>2, <3>3
      <4> QED
        BY <4>1
    <3>4. CASE a \notin c /\ b \in c
      <4>1. 2 \in DOMAIN o /\ First(2)
        BY <3>2, <3>4
      <4> QED
        BY <4>1
    <3>5. CASE a \notin c /\ b \notin c /\ x \in c
      <4>1. 3 \in DOMAIN o /\ First(3)
        BY <3>2, <3>5
      <4> QED
        BY <4>1
    <3>6. CASE a \notin c /\ b \notin c /\ x \notin c
      <4>1. y \in c
        BY <1>1, <3>2, <3>6
      <4>2. 4 \in DOMAIN o /\ First(4)
        BY <3>2, <3>6, <4>1
      <4> QED
        BY <4>2
    <3> QED
      BY <3>3, <3>4, <3>5, <3>6
  <2> QED
    BY <2>1, <2>2, <2>3
<1>5. First(CHOOSE i \in DOMAIN o : First(i))
  BY <1>4
<1> QED
  BY <1>5 DEF FirstCandidate, c

(* A provider that is named or found may have the data.                    *)
LEMMA SelectedIsPermitted ==
    ASSUME NEW provider, NEW s \in {"public", "private", "secret"}, NEW override,
           NEW prefer \in BOOLEAN, NEW env, NEW consents,
           SelectProvider(provider, s, override, prefer, env, consents) # Refused
    PROVE  /\ SelectProvider(provider, s, override, prefer, env, consents) \in Providers
           /\ Permitted(SelectProvider(provider, s, override, prefer, env, consents),
                        s, env, consents)
           /\ SelectProvider(provider, s, override, prefer, env, consents) = "empero" =>
                        LoggedFreeAllowed(env, consents)
<1>1. CASE provider \in Providers
  BY <1>1 DEF SelectProvider, Configured
<1>2. CASE provider \notin Providers
  <2>1. ProviderCandidates(s, env, consents) # {}
    BY <1>2 DEF SelectProvider
  <2>2. SelectProvider(provider, s, override, prefer, env, consents) =
            FirstCandidate(FallbackOrder(s, prefer), ProviderCandidates(s, env, consents))
    BY <1>2 DEF SelectProvider
  <2>3. SelectProvider(provider, s, override, prefer, env, consents)
            \in ProviderCandidates(s, env, consents)
    BY <2>1, <2>2, FirstCandidateIsOne
  <2> QED
    BY <2>3 DEF ProviderCandidates, Configured
<1> QED
  BY <1>1, <1>2

-----------------------------------------------------------------------------
(* Whom the data of a job may be sent to.                                  *)
Allowed(j, provider) ==
    LET s == IF j.kind = "benchmark" THEN "public" ELSE j.sensitivity
    IN  /\ s = "secret" => provider = "local"
        /\ s = "private" /\ provider = "nvidia" =>
                \/ "MADO_ALLOW_NVIDIA_PRIVATE" \in j.env
                \/ j.kind = "fleet" /\ "nvidia_private" \in j.consents
        /\ provider = "empero" =>
                s = "public" /\ LoggedFreeAllowed(j.env, j.consents)

(* What the profile of the fleet does not change.                          *)
LEMMA ProfileKeeps ==
    ASSUME NEW j \in Jobs
    PROVE  /\ ProfileEnv(j).sensitivity = j.sensitivity
           /\ ProfileEnv(j).preferFree = j.preferFree
           /\ ProfileEnv(j).consents = j.consents
           /\ \A name : name \in ProfileEnv(j).env <=>
                    \/ name \in j.env
                    \/ /\ name = "MADO_ALLOW_NVIDIA_PRIVATE"
                       /\ j.kind = "fleet" /\ "nvidia_private" \in j.consents
  BY JobsAreAccepted DEF ProfileEnv

LEMMA ConfiguredIsAllowed ==
    ASSUME NEW j \in Jobs, NEW role, j.kind \in {"adaptive", "fleet"},
           ConfiguredRoute(ProfileEnv(j), role) # Refused
    PROVE  /\ ConfiguredRoute(ProfileEnv(j), role) \in Providers
           /\ Allowed(j, ConfiguredRoute(ProfileEnv(j), role))
<1> DEFINE e == ProfileEnv(j)
           consents == e.consents \ {"nvidia_private"}
           p == ConfiguredRoute(e, role)
<1>1. PICK provider, override :
        p = SelectProvider(provider, e.sensitivity, override, e.preferFree, e.env, consents)
  BY DEF ConfiguredRoute
<1>2. e.sensitivity \in {"public", "private", "secret"} /\ e.preferFree \in BOOLEAN
  BY ProfileKeeps, JobsAreAccepted
<1>3. p \in Providers /\ Permitted(p, e.sensitivity, e.env, consents)
  BY <1>1, <1>2, SelectedIsPermitted
<1>4. p = "empero" => LoggedFreeAllowed(e.env, consents)
  BY <1>1, <1>2, <1>3, SelectedIsPermitted
<1> HIDE DEF p
<1>5. e.sensitivity = j.sensitivity /\ consents = j.consents \ {"nvidia_private"}
  BY ProfileKeeps
<1>6. \A name : name \in e.env <=>
        \/ name \in j.env
        \/ /\ name = "MADO_ALLOW_NVIDIA_PRIVATE"
           /\ j.kind = "fleet" /\ "nvidia_private" \in j.consents
  BY ProfileKeeps
<1> HIDE DEF e
<1>7. j.sensitivity = "secret" => p = "local"
  BY <1>3, <1>5 DEF Permitted
<1>8. j.sensitivity = "private" /\ p = "nvidia" =>
        \/ "MADO_ALLOW_NVIDIA_PRIVATE" \in j.env
        \/ j.kind = "fleet" /\ "nvidia_private" \in j.consents
  BY <1>3, <1>5, <1>6 DEF Permitted, PrivateNvidiaAllowed
<1>9. p = "empero" => j.sensitivity = "public"
  BY <1>2, <1>3, <1>5 DEF Permitted
<1>10. p = "empero" => LoggedFreeAllowed(j.env, j.consents)
  BY <1>4, <1>5, <1>6 DEF LoggedFreeAllowed
<1>11. p \in Providers /\ Allowed(j, p)
  BY <1>3, <1>7, <1>8, <1>9, <1>10 DEF Allowed
<1> QED
  BY <1>11 DEF p, e

LEMMA RouteIsAllowed ==
    ASSUME NEW j \in Jobs, NEW role, RouteFor(j, role) # Refused
    PROVE  RouteFor(j, role) \in Providers /\ Allowed(j, RouteFor(j, role))
<1>1. j.kind \in {"adaptive", "fleet", "worker", "benchmark"}
  BY JobsAreAccepted
<1>2. CASE j.kind \in {"adaptive", "fleet"}
  <2>1. RouteFor(j, role) = ConfiguredRoute(ProfileEnv(j), role)
    BY <1>2 DEF RouteFor
  <2> QED
    BY <1>2, <2>1, ConfiguredIsAllowed
<1>3. CASE j.kind = "worker"
  <2> DEFINE consents == j.consents \ {"nvidia_private"}
             p == SelectProvider(j.provider, j.sensitivity, j.model, j.preferFree,
                                 j.env, consents)
  <2>1. RouteFor(j, role) = p
    BY <1>3 DEF RouteFor
  <2>2. /\ p \in Providers /\ Permitted(p, j.sensitivity, j.env, consents)
        /\ p = "empero" => LoggedFreeAllowed(j.env, consents)
    BY <2>1, JobsAreAccepted, SelectedIsPermitted
  <2> HIDE DEF p
  <2>3. p \in Providers /\ Allowed(j, p)
    BY <1>3, <2>2, JobsAreAccepted DEF Allowed, Permitted, PrivateNvidiaAllowed, LoggedFreeAllowed
  <2> QED
    BY <2>1, <2>3
<1>4. CASE j.kind = "benchmark"
  <2> DEFINE p == SelectProvider("nvidia", "public", TRUE, FALSE, j.env, {})
  <2>1. RouteFor(j, role) = p
    BY <1>4 DEF RouteFor
  <2>2. p = "nvidia"
    BY <2>1 DEF SelectProvider, Providers
  <2> QED
    BY <1>4, <2>1, <2>2 DEF Allowed, Providers
<1> QED
  BY <1>1, <1>2, <1>3, <1>4

-----------------------------------------------------------------------------
(* The inductive invariant: the routes are those of the roles, and the     *)
(* reviewer is there only when the team is done and it was asked for.      *)
Scheduled ==
    /\ DOMAIN route = DOMAIN status
    /\ status = [r \in DOMAIN status |-> status[r]]
    /\ \A r \in DOMAIN status :
        /\ status[r] \in {"queued", "calling", "PASS", "ERROR"}
        /\ route[r] \in Providers /\ Allowed(job, route[r])

Staffed ==
    /\ phase = "planning" => DOMAIN status = {}
    /\ phase = "fanout" => DOMAIN status = Roles(job)
    /\ phase = "review" => ReviewRole \in DOMAIN status /\ WantsReview(job)
    /\ ReviewRole \in DOMAIN status =>
        /\ phase \in {"review", "reported", "refused"}
        /\ DOMAIN status = Roles(job) \cup {ReviewRole} /\ WantsReview(job)
        /\ \A r \in Roles(job) : status[r] \in {"PASS", "ERROR"}

Concluded ==
    /\ phase \in {"planning", "fanout", "review", "reported", "refused"}
    /\ verdict \in {"none", "PASS", "WARN", "FAIL"}
    /\ phase = "reported" =>
        /\ AllEnded /\ verdict = TransportStatus
        /\ Roles(job) \subseteq DOMAIN status
        /\ DOMAIN status \subseteq Roles(job) \cup {ReviewRole}
        /\ ReviewRole \notin DOMAIN status => ~ReviewDue
        /\ ReviewRole \in DOMAIN status => WantsReview(job)

SwarmInv == job \in Jobs /\ Scheduled /\ Staffed /\ Concluded

LEMMA SwarmStarts == Init => SwarmInv
  BY DEF Init, SwarmInv, Scheduled, Staffed, Concluded

LEMMA SwarmSteps == SwarmInv /\ [Next]_vars => SwarmInv'
<1> SUFFICES ASSUME SwarmInv, [Next]_vars PROVE SwarmInv'
  OBVIOUS
<1> USE DEF SwarmInv
<1>0. Roles(job) # {} /\ ReviewRole \notin Roles(job)
  BY TeamIsThere
<1>1. CASE FanOut
  <2>1. \A r \in Roles(job) : RouteFor(job, r) \in Providers /\ Allowed(job, RouteFor(job, r))
    BY <1>1, RouteIsAllowed DEF FanOut, PlanOK
  <2>2. Scheduled'
    BY <1>1, <2>1 DEF FanOut, Scheduled
  <2>3. Staffed' /\ Concluded'
    BY <1>0, <1>1 DEF FanOut, Staffed, Concluded
  <2> QED
    BY <1>1, <2>2, <2>3 DEF FanOut
<1>2. CASE Refuse \/ ReviewUnroutable
  BY <1>0, <1>2 DEF Refuse, ReviewUnroutable, Scheduled, Staffed, Concluded
<1>3. ASSUME NEW r \in DOMAIN status, StartCall(r) PROVE SwarmInv'
  BY <1>0, <1>3 DEF StartCall, Scheduled, Staffed, Concluded
<1>4. ASSUME NEW r \in DOMAIN status, NEW result \in {"PASS", "ERROR"}, EndCall(r, result)
      PROVE  SwarmInv'
  <2>1. DOMAIN status' = DOMAIN status /\ UNCHANGED <<job, phase, route, verdict>>
    BY <1>4 DEF EndCall, Scheduled
  <2>2. \A x \in DOMAIN status : status'[x] = IF x = r THEN result ELSE status[x]
    BY <1>4 DEF EndCall, Scheduled
  <2>3. phase # "reported"
    BY <1>4 DEF EndCall, Concluded, AllEnded
  <2>4. Scheduled'
    BY <1>4, <2>1 DEF EndCall, Scheduled
  <2>5. Staffed' /\ Concluded'
    BY <2>1, <2>2, <2>3 DEF Staffed, Concluded
  <2> QED
    BY <2>1, <2>4, <2>5
<1>5. CASE StartReview
  <2>1. RouteFor(job, ReviewRole) \in Providers /\ Allowed(job, RouteFor(job, ReviewRole))
    BY <1>5, RouteIsAllowed DEF StartReview
  <2>2. Scheduled'
    BY <1>5, <2>1 DEF StartReview, Scheduled
  <2>3. Staffed' /\ Concluded'
    BY <1>0, <1>5 DEF StartReview, Staffed, Concluded, AllEnded, ReviewDue
  <2> QED
    BY <1>5, <2>2, <2>3 DEF StartReview
<1>6. CASE Finish
  <2>1. Scheduled' /\ Staffed'
    BY <1>0, <1>6 DEF Finish, Scheduled, Staffed
  <2>2. Concluded'
    BY <1>0, <1>6 DEF Finish, Concluded, Staffed, AllEnded, TransportStatus, SomePassed, ReviewDue
  <2> QED
    BY <1>6, <2>1, <2>2 DEF Finish
<1>7. CASE UNCHANGED vars
  BY <1>7 DEF vars, Scheduled, Staffed, Concluded, AllEnded, TransportStatus, SomePassed, ReviewDue
<1> QED
  BY <1>1, <1>2, <1>3, <1>4, <1>5, <1>6, <1>7 DEF Next

THEOREM SwarmInvariant == Spec => []SwarmInv
  BY SwarmStarts, SwarmSteps, PTL DEF Spec

-----------------------------------------------------------------------------
(* Whatever jobs, environments and overrides there are, every role's route *)
(* is a provider its data may go to.                                       *)
THEOREM DataIsPermitted == Spec => []DataStaysPermitted
<1>1. SwarmInv => DataStaysPermitted
  BY DEF SwarmInv, Scheduled, Allowed, DataStaysPermitted
<1> QED
  BY <1>1, SwarmInvariant, PTL

(* The values of the variables.                                            *)
THEOREM SwarmIsTyped == Spec => []SwarmTypeOK
<1>1. SwarmInv => SwarmTypeOK
  BY DEF SwarmInv, Scheduled, Concluded, SwarmTypeOK
<1> QED
  BY <1>1, SwarmInvariant, PTL

(* The reviewer is called when every member of the team has ended.         *)
THEOREM ReviewerReadsAll == Spec => []ReviewComesLast
<1>1. SwarmInv => ReviewComesLast
  BY DEF SwarmInv, Staffed, ReviewComesLast
<1> QED
  BY <1>1, SwarmInvariant, PTL

(* For any team, a report says PASS exactly when everybody who was asked   *)
(* for answered, and FAIL exactly when nobody did.                         *)
THEOREM ReportIsHonest == Spec => []VerdictIsHonest
<1>1. SwarmInv => VerdictIsHonest
  <2> SUFFICES ASSUME SwarmInv, phase = "reported" PROVE VerdictIsHonest
    BY DEF VerdictIsHonest
  <2>1. Roles(job) # {} /\ ReviewRole \notin Roles(job)
    BY TeamIsThere DEF SwarmInv
  <2>2. /\ \A r \in DOMAIN status : status[r] \in {"PASS", "ERROR"}
        /\ verdict = TransportStatus
        /\ Roles(job) \subseteq DOMAIN status
        /\ DOMAIN status \subseteq Roles(job) \cup {ReviewRole}
        /\ ReviewRole \notin DOMAIN status => ~ReviewDue
        /\ ReviewRole \in DOMAIN status => WantsReview(job)
    BY DEF SwarmInv, Concluded, AllEnded
  <2>3. verdict = "FAIL" <=> \A r \in DOMAIN status : status[r] = "ERROR"
    BY <2>2 DEF TransportStatus, SomePassed
  <2>4. verdict = "PASS" <=> \A r \in DOMAIN status : status[r] = "PASS"
    BY <2>1, <2>2 DEF TransportStatus, SomePassed
  <2>5. verdict = "PASS" /\ WantsReview(job) => ReviewRole \in DOMAIN status
    BY <2>2, <2>3, <2>4 DEF TransportStatus, SomePassed, ReviewDue
  <2> QED
    BY <2>1, <2>2, <2>3, <2>4, <2>5 DEF VerdictIsHonest
<1> QED
  BY <1>1, SwarmInvariant, PTL

-----------------------------------------------------------------------------
(***************************************************************************)
(* The registry, the resolver and the router.                              *)
(***************************************************************************)
(* What the registry and the resolver ask of the manifest of a worker.     *)
Selectable(m, s, env, consents) ==
    /\ s \in m.sensitivities
    /\ PolicyOf(m, s) \subseteq PolicyTokens(env, consents)
    /\ ProbeManifest(m, env, FALSE) = "PROBED"

(* A manifest without policies asks for none.                              *)
LEMMA NoPolicy == ASSUME NEW m, m.policies = <<>>, NEW s PROVE PolicyOf(m, s) = {}
<1>1. DOMAIN <<>> = {}
  OBVIOUS
<1> QED
  BY <1>1 DEF PolicyOf

(* A worker that is probed is there or is not.                             *)
LEMMA WorkerIsProbed ==
    ASSUME NEW m, m.declared = "DECLARED", NEW env, "none" \notin m.probe.all
    PROVE  ProbeManifest(m, env, FALSE) =
                IF /\ m.probe.all \subseteq env
                   /\ \A g \in m.probe.groups : g \cap env # {}
                THEN "PROBED" ELSE "UNAVAILABLE"
<1>1. m.probe # NoProbe
  BY DEF NoProbe
<1> QED
  BY <1>1 DEF ProbeManifest

(* What the four manifests of the workers have in common.                  *)
LEMMA WorkersDelegate ==
    ASSUME NEW p \in Providers
    PROVE  /\ WorkerOf[p].domains = {"ALL"} /\ WorkerOf[p].declared = "DECLARED"
           /\ WorkerOf[p].features = {"agent.delegate.proposal"}
           /\ "none" \notin WorkerOf[p].probe.all
           /\ \A q \in Providers : WorkerOf[p].id = WorkerOf[q].id => p = q
  BY DEF Providers, WorkerOf, WorkerManifest

(* The manifest of a worker and the conditions of the router say the same. *)
LEMMA ManifestSaysRouter ==
    ASSUME NEW p \in Providers, NEW s \in {"public", "private", "secret"},
           NEW env, NEW consents
    PROVE  Selectable(WorkerOf[p], s, env, consents)
                <=> p \in ProviderCandidates(s, env, consents)
<1> DEFINE m == WorkerOf[p]
<1>0. m.declared = "DECLARED" /\ "none" \notin m.probe.all
  BY WorkersDelegate
<1>1. ProbeManifest(m, env, FALSE) = "PROBED"
        <=> /\ m.probe.all \subseteq env
            /\ \A g \in m.probe.groups : g \cap env # {}
  BY <1>0, WorkerIsProbed
<1>2. CASE p = "local"
  <2>1. /\ m.sensitivities = {"public", "private", "secret"} /\ m.policies = <<>>
        /\ m.probe.all = {"MADO_LOCAL_BASE_URL", "MADO_LOCAL_MODEL"}
        /\ m.probe.groups = {}
    BY <1>2 DEF WorkerOf, WorkerManifest
  <2>2. PolicyOf(m, s) = {}
    BY <2>1, NoPolicy
  <2> HIDE DEF m
  <2>3. Selectable(m, s, env, consents) <=> {"MADO_LOCAL_BASE_URL", "MADO_LOCAL_MODEL"} \subseteq env
    BY <1>1, <2>1, <2>2 DEF Selectable
  <2> QED
    BY <1>2, <2>3 DEF ProviderCandidates, Configured, Permitted, m
<1>3. CASE p = "openrouter"
  <2>1. /\ m.sensitivities = {"public", "private"} /\ m.policies = <<>>
        /\ m.probe.all = {"OPENROUTER_API_KEY"}
        /\ m.probe.groups = {{"MADO_OPENROUTER_MODEL", "OPENROUTER_MODEL"}}
    BY <1>3 DEF WorkerOf, WorkerManifest
  <2>2. PolicyOf(m, s) = {}
    BY <2>1, NoPolicy
  <2> HIDE DEF m
  <2>3. Selectable(m, s, env, consents)
          <=> /\ s # "secret" /\ "OPENROUTER_API_KEY" \in env
              /\ {"MADO_OPENROUTER_MODEL", "OPENROUTER_MODEL"} \cap env # {}
    BY <1>1, <2>1, <2>2 DEF Selectable
  <2> QED
    BY <1>3, <2>3 DEF ProviderCandidates, Configured, Permitted, m
<1>4. CASE p = "nvidia"
  <2>1. /\ m.sensitivities = {"public", "private"}
        /\ m.policies = [private |-> {"explicit.nvidia_private"}]
        /\ m.probe.all = {"MADO_NVIDIA_MODEL"}
        /\ m.probe.groups = {{"NVIDIA_API_KEY", "MADO_NVIDIA_API_KEY"}}
    BY <1>4 DEF WorkerOf, WorkerManifest
  <2>2. PolicyOf(m, s) = IF s = "private" THEN {"explicit.nvidia_private"} ELSE {}
    <3>1. /\ DOMAIN m.policies = {"private"}
          /\ m.policies["private"] = {"explicit.nvidia_private"}
      BY <2>1
    <3> QED
      BY <3>1 DEF PolicyOf
  <2> HIDE DEF m
  <2>3. PolicyOf(m, s) \subseteq PolicyTokens(env, consents)
          <=> (s = "private" => PrivateNvidiaAllowed(env, consents))
    BY <2>2 DEF PolicyTokens
  <2>4. Selectable(m, s, env, consents)
          <=> /\ s # "secret" /\ "MADO_NVIDIA_MODEL" \in env
              /\ s = "private" => PrivateNvidiaAllowed(env, consents)
              /\ {"NVIDIA_API_KEY", "MADO_NVIDIA_API_KEY"} \cap env # {}
    BY <1>1, <2>1, <2>3 DEF Selectable
  <2> QED
    BY <1>4, <2>4 DEF ProviderCandidates, Configured, Permitted, m
<1>5. CASE p = "empero"
  <2>1. /\ m.sensitivities = {"public"}
        /\ m.policies = [public |-> {"explicit.logged_free"}]
        /\ m.probe.all = {} /\ m.probe.groups = {}
    BY <1>5 DEF WorkerOf, WorkerManifest
  <2>2. PolicyOf(m, s) = IF s = "public" THEN {"explicit.logged_free"} ELSE {}
    BY <2>1 DEF PolicyOf
  <2> HIDE DEF m
  <2>3. PolicyOf(m, s) \subseteq PolicyTokens(env, consents)
          <=> (s = "public" => LoggedFreeAllowed(env, consents))
    BY <2>2 DEF PolicyTokens
  <2>4. Selectable(m, s, env, consents)
          <=> s = "public" /\ LoggedFreeAllowed(env, consents)
    BY <1>1, <2>1, <2>3 DEF Selectable
  <2> QED
    BY <1>5, <2>4 DEF ProviderCandidates, Configured, Permitted, m
<1> QED
  BY <1>2, <1>3, <1>4, <1>5 DEF Providers

(* The capability registry selects the candidates of the router.           *)
LEMMA RegistrySaysRouter ==
    ASSUME NEW s \in {"public", "private", "secret"}, NEW env, NEW consents
    PROVE  Delegates(env, s, consents) = ProviderCandidates(s, env, consents)
<1> DEFINE Selected == {n \in WorkerRegistry : Selectable(n, s, env, consents)}
<1>1. ResolveCapabilities(WorkerRegistry, {"agent.delegate.proposal"}, "CODE", s,
            PolicyTokens(env, consents), env, TRUE, TRUE) = {m.id : m \in Selected}
  <2>1. ASSUME NEW n \in WorkerRegistry
        PROVE  /\ n.domains = {"ALL"} /\ n.declared = "DECLARED"
               /\ n.features = {"agent.delegate.proposal"}
               /\ ProbeManifest(n, env, FALSE) \in {"PROBED", "UNAVAILABLE"}
    BY WorkersDelegate, WorkerIsProbed DEF WorkerRegistry
  <2> QED
    BY <2>1 DEF ResolveCapabilities, Selectable
<1>2. ASSUME NEW p \in Providers
      PROVE  WorkerOf[p].id \in {m.id : m \in Selected}
                <=> Selectable(WorkerOf[p], s, env, consents)
  BY WorkersDelegate DEF WorkerRegistry
<1>3. ProviderCandidates(s, env, consents) \subseteq Providers
  BY DEF ProviderCandidates
<1> QED
  BY <1>1, <1>2, <1>3, ManifestSaysRouter DEF Delegates

(* The snapshot of the workers says which of them are there.               *)
LEMMA WorkerInSnapshot ==
    ASSUME NEW p \in Providers, NEW env, NEW snap,
           snap = BuildSnapshot("shipped", WorkerRegistry, {}, env, {}, TRUE)
    PROVE  /\ WorkerOf[p].id \in DOMAIN snap.states
           /\ snap.states[WorkerOf[p].id] = ProbeManifest(WorkerOf[p], env, FALSE)
<1>1. (CHOOSE n \in WorkerRegistry : n.id = WorkerOf[p].id) = WorkerOf[p]
  BY WorkersDelegate DEF WorkerRegistry
<1>2. snap.states = [id \in {m.id : m \in WorkerRegistry} |->
                        LET x == CHOOSE n \in WorkerRegistry : n.id = id
                        IN  ProbeManifest(x, env, id \in {})]
  BY DEF BuildSnapshot
<1>3. WorkerOf[p].id \in {m.id : m \in WorkerRegistry}
  BY DEF WorkerRegistry
<1>4. snap.states[WorkerOf[p].id] =
        ProbeManifest(CHOOSE n \in WorkerRegistry : n.id = WorkerOf[p].id, env,
                      WorkerOf[p].id \in {})
  BY <1>2, <1>3
<1>5. (WorkerOf[p].id \in {}) = FALSE
  OBVIOUS
<1> QED
  BY <1>1, <1>2, <1>3, <1>4, <1>5

(* The resolver binds the candidates of the router.                        *)
LEMMA ResolverSaysRouter ==
    ASSUME NEW s \in {"public", "private", "secret"}, NEW env, NEW consents
    PROVE  BoundDelegates(env, s, consents) = ProviderCandidates(s, env, consents)
<1>1. PICK snap : snap = BuildSnapshot("shipped", WorkerRegistry, {}, env, {}, TRUE)
  OBVIOUS
<1>2. ASSUME NEW p \in Providers
      PROVE  WorkerOf[p] \in
                BindingForFeature("agent.delegate.proposal", WorkerRegistry, snap,
                    [domains |-> {"CODE"}, sensitivity |-> s],
                    [permissions |-> {"delegate", "network"},
                     policies |-> PolicyTokens(env, consents)])
             <=> Selectable(WorkerOf[p], s, env, consents)
  <2>1. /\ WorkerOf[p] \in WorkerRegistry /\ WorkerOf[p].id \in DOMAIN snap.states
        /\ snap.states[WorkerOf[p].id] = ProbeManifest(WorkerOf[p], env, FALSE)
    BY <1>1, WorkerInSnapshot DEF WorkerRegistry
  <2>2. ProbeManifest(WorkerOf[p], env, FALSE) \in {"PROBED", "UNAVAILABLE"}
    BY WorkersDelegate, WorkerIsProbed
  <2>3. /\ WorkerOf[p].domains = {"ALL"}
        /\ WorkerOf[p].features = {"agent.delegate.proposal"}
    BY WorkersDelegate
  <2> QED
    BY <2>1, <2>2, <2>3 DEF BindingForFeature, ManifestCompatible, Selectable
<1>3. ProviderCandidates(s, env, consents) \subseteq Providers
  BY DEF ProviderCandidates
<1> QED
  BY <1>1, <1>2, <1>3, ManifestSaysRouter DEF BoundDelegates

(* A provider that is named is taken when it is a candidate.               *)
LEMMA NamedIsCandidate ==
    ASSUME NEW p \in Providers, NEW s, NEW prefer, NEW env, NEW consents
    PROVE  SelectProvider(p, s, FALSE, prefer, env, consents) =
                IF p \in ProviderCandidates(s, env, consents) THEN p ELSE Refused
  BY DEF SelectProvider, ProviderCandidates

(* A provider that is not named is found when there is a candidate.        *)
LEMMA OtherIsCandidate ==
    ASSUME NEW s \in {"public", "private", "secret"}, NEW prefer \in BOOLEAN,
           NEW env, NEW consents
    PROVE  \A p : p \notin Providers =>
            /\ p = "auto" /\ ProviderCandidates(s, env, consents) # {} =>
                SelectProvider(p, s, FALSE, prefer, env, consents)
                    \in ProviderCandidates(s, env, consents)
            /\ p # "auto" \/ ProviderCandidates(s, env, consents) = {} =>
                SelectProvider(p, s, FALSE, prefer, env, consents) = Refused
<1>1. ASSUME NEW p, p \notin Providers
      PROVE  SelectProvider(p, s, FALSE, prefer, env, consents) =
                IF p = "auto" /\ ProviderCandidates(s, env, consents) # {}
                THEN FirstCandidate(FallbackOrder(s, prefer),
                                    ProviderCandidates(s, env, consents))
                ELSE Refused
  BY <1>1 DEF SelectProvider
<1> QED
  BY <1>1, FirstCandidateIsOne

(* So whatever the router is asked, it gives a candidate or refuses.       *)
LEMMA SelectedIsCandidate ==
    ASSUME NEW p, NEW s \in {"public", "private", "secret"}, NEW prefer \in BOOLEAN,
           NEW env, NEW consents,
           SelectProvider(p, s, FALSE, prefer, env, consents) # Refused
    PROVE  SelectProvider(p, s, FALSE, prefer, env, consents)
                \in ProviderCandidates(s, env, consents)
<1>1. CASE p \in Providers
  BY <1>1, NamedIsCandidate
<1>2. CASE p \notin Providers
  BY <1>2, OtherIsCandidate
<1> QED
  BY <1>1, <1>2

(* No provider goes by the name of the refusal or of the automatic route.  *)
LEMMA ProvidersAreNamed ==
    ASSUME NEW s, NEW env, NEW consents
    PROVE  /\ Refused \notin Providers /\ "auto" \notin Providers
           /\ ProviderCandidates(s, env, consents) \subseteq Providers
  BY DEF Providers, Refused, ProviderCandidates

(* More consents never take a provider away.                               *)
LEMMA ConsentsAdd ==
    ASSUME NEW s \in {"public", "private", "secret"}, NEW env, NEW consents,
           NEW fewer \in SUBSET consents
    PROVE  ProviderCandidates(s, env, fewer) \subseteq ProviderCandidates(s, env, consents)
  BY DEF ProviderCandidates, Providers, Configured, Permitted, LoggedFreeAllowed,
         PrivateNvidiaAllowed

-----------------------------------------------------------------------------
(* Nothing reroutes a role once it has been given a route.                 *)
RoutedAsAsked == \A r \in DOMAIN route : route[r] = RouteFor(job, r) /\ route[r] # Refused

LEMMA RoutedSteps == SwarmInv /\ RoutedAsAsked /\ [Next]_vars => RoutedAsAsked'
<1> SUFFICES ASSUME SwarmInv, RoutedAsAsked, [Next]_vars PROVE RoutedAsAsked'
  OBVIOUS
<1>1. CASE FanOut
  BY <1>1 DEF FanOut, PlanOK, RoutedAsAsked
<1>2. CASE StartReview
  BY <1>2 DEF StartReview, RoutedAsAsked
<1>3. CASE UNCHANGED <<job, route>>
  BY <1>3 DEF RoutedAsAsked
<1> QED
  BY <1>1, <1>2, <1>3
     DEF Next, vars, Refuse, StartCall, EndCall, ReviewUnroutable, Finish

(* A call that is made with the configured model is one of the router's    *)
(* candidates, as a job that names no model asks.                          *)
LEMMA PlainRouteIsCandidate ==
    ASSUME NEW j \in Jobs, NEW r, j.kind \in {"worker", "adaptive"}, ~ j.model,
           j.models = {}, RouteFor(j, r) # Refused
    PROVE  RouteFor(j, r) \in ProviderCandidates(j.sensitivity, j.env, j.consents)
<1>1. j.sensitivity \in {"public", "private", "secret"} /\ j.preferFree \in BOOLEAN
  BY JobsAreAccepted
<1> DEFINE consents == j.consents \ {"nvidia_private"}
<1>2. PICK p : RouteFor(j, r) = SelectProvider(p, j.sensitivity, FALSE, j.preferFree, j.env,
                                              consents)
  <2>0. j.model = FALSE
    BY JobsAreAccepted
  <2>1. CASE j.kind = "worker"
    BY <2>0, <2>1 DEF RouteFor
  <2>2. CASE j.kind = "adaptive"
    <3>1. RouteFor(j, r) = ConfiguredRoute(j, r)
      BY <2>2 DEF RouteFor, ProfileEnv
    <3>2. ({r, RoleTiers[r]} \cap j.models # {} \/ j.model) = FALSE
      BY <2>0
    <3> QED
      BY <3>1, <3>2 DEF ConfiguredRoute
  <2> QED
    BY <2>1, <2>2
<1>3. consents \in SUBSET j.consents
  OBVIOUS
<1> HIDE DEF consents
<1>4. RouteFor(j, r) \in ProviderCandidates(j.sensitivity, j.env, consents)
  <2>1. SelectProvider(p, j.sensitivity, FALSE, j.preferFree, j.env, consents) # Refused
    BY <1>2
  <2>2. SelectProvider(p, j.sensitivity, FALSE, j.preferFree, j.env, consents)
            \in ProviderCandidates(j.sensitivity, j.env, consents)
    BY <1>1, <2>1, SelectedIsCandidate
  <2> QED
    BY <1>2, <2>2
<1> QED
  BY <1>1, <1>3, <1>4, ConsentsAdd

(* For every job and every environment, the registry, the resolver and the *)
(* router name the same providers, the automatic route finds one exactly   *)
(* when there is one, and a run calls no other.                            *)
THEOREM RouterFollowsAdvice == Spec => []AdviceMatchesRouting
<1>1. Init => RoutedAsAsked
  BY DEF Init, RoutedAsAsked
<1>2. SwarmInv /\ RoutedAsAsked => AdviceMatchesRouting
  <2> SUFFICES ASSUME SwarmInv, RoutedAsAsked PROVE AdviceMatchesRouting
    OBVIOUS
  <2>1. PICK j, s : /\ j = ProfileEnv(job)
                    /\ s = IF j.kind = "benchmark" THEN "public" ELSE j.sensitivity
    OBVIOUS
  <2>2. s \in {"public", "private", "secret"} /\ j.preferFree \in BOOLEAN
    BY <2>1, ProfileKeeps, JobsAreAccepted DEF SwarmInv
  <2>3. /\ Delegates(j.env, s, j.consents) = ProviderCandidates(s, j.env, j.consents)
        /\ BoundDelegates(j.env, s, j.consents) = ProviderCandidates(s, j.env, j.consents)
    BY <2>2, RegistrySaysRouter, ResolverSaysRouter
  <2>4. /\ {p \in Providers : SelectProvider(p, s, FALSE, j.preferFree, j.env, j.consents)
                                # Refused} = ProviderCandidates(s, j.env, j.consents)
        /\ SelectProvider("auto", s, FALSE, j.preferFree, j.env, j.consents) = Refused
             <=> ProviderCandidates(s, j.env, j.consents) = {}
    <3>1. /\ Refused \notin Providers /\ "auto" \notin Providers
          /\ ProviderCandidates(s, j.env, j.consents) \subseteq Providers
      BY ProvidersAreNamed
    <3>2. ASSUME NEW p \in Providers
          PROVE  SelectProvider(p, s, FALSE, j.preferFree, j.env, j.consents) # Refused
                    <=> p \in ProviderCandidates(s, j.env, j.consents)
      BY <3>1, NamedIsCandidate
    <3>3. /\ ProviderCandidates(s, j.env, j.consents) # {} =>
                SelectProvider("auto", s, FALSE, j.preferFree, j.env, j.consents)
                    \in ProviderCandidates(s, j.env, j.consents)
          /\ ProviderCandidates(s, j.env, j.consents) = {} =>
                SelectProvider("auto", s, FALSE, j.preferFree, j.env, j.consents) = Refused
      <4>1. PICK prefer \in BOOLEAN : prefer = j.preferFree
        BY <2>2
      <4>2. PICK env, consents : env = j.env /\ consents = j.consents
        OBVIOUS
      <4>3. \A p : p \notin Providers =>
              /\ p = "auto" /\ ProviderCandidates(s, env, consents) # {} =>
                    SelectProvider(p, s, FALSE, prefer, env, consents)
                        \in ProviderCandidates(s, env, consents)
              /\ p # "auto" \/ ProviderCandidates(s, env, consents) = {} =>
                    SelectProvider(p, s, FALSE, prefer, env, consents) = Refused
        BY <2>2, OtherIsCandidate
      <4> QED
        BY <3>1, <4>1, <4>2, <4>3
    <3> QED
      BY <3>1, <3>2, <3>3
  <2>5. ASSUME j.kind \in {"worker", "adaptive"}, ~ j.model, j.models = {},
               NEW r \in DOMAIN route
        PROVE  route[r] \in ProviderCandidates(s, j.env, j.consents)
    <3>1. j = job /\ s = job.sensitivity
      BY <2>1, <2>5, JobsAreAccepted DEF ProfileEnv, SwarmInv
    <3> QED
      BY <2>5, <3>1, PlainRouteIsCandidate DEF RoutedAsAsked, SwarmInv
  <2> QED
    BY <2>1, <2>3, <2>4, <2>5 DEF AdviceMatchesRouting
<1> QED
  BY <1>1, <1>2, RoutedSteps, SwarmInvariant, PTL DEF Spec

=============================================================================
