----------------------------- MODULE WorkerSwarm -----------------------------
(***************************************************************************)
(* One run of a swarm of workers: worker_swarm.py (fixed team, one         *)
(* provider), adaptive_swarm.py (team and routes chosen per role),         *)
(* nvidia_fleet.py (the adaptive swarm under a fixed profile) and          *)
(* nvidia_fleet_benchmark.py (fixed team, the reviewer always called).     *)
(*                                                                         *)
(* A job is the command line and the environment:                          *)
(*   kind, env, consents, sensitivity, preferFree,                         *)
(*   provider    --provider: a provider, "auto" or "off"                   *)
(*   model       --model was given                                         *)
(*   task        see SwarmTeams                                            *)
(*   roles       --roles of the fixed swarm                                *)
(*   review      --review "yes", --no-review "no", or neither, "auto"      *)
(*   workers     --max-workers                                             *)
(*   providers   MADO_ADAPTIVE_PROVIDER_<role or tier>: a partial function *)
(*   models      the roles and tiers with MADO_ADAPTIVE_MODEL_<name>       *)
(*   default     MADO_ADAPTIVE_DEFAULT_PROVIDER, or "none"                 *)
(*   writable    the --output file can be written                          *)
(* A call of a provider ends with content or with an error; a hung one is  *)
(* ended by the timeout that every call is given.                          *)
(***************************************************************************)
EXTENDS Integers, FiniteSets

CONSTANT Jobs

INSTANCE ProviderRouter
INSTANCE SwarmTeams

VARIABLES job,      \* what was asked
          phase,    \* where the main thread is
          status,   \* for each scheduled role, how far its call is
          route,    \* for each scheduled role, the provider it is sent to
          verdict   \* the status of the report, or "none"

vars == <<job, phase, status, route, verdict>>

FixedRoles == {"architect", "implementer", "test_writer"}
ReviewRole == "reviewer"

(* What the argument parsers let through.                                  *)
ASSUME JobsAreAccepted ==
    \A j \in Jobs :
        /\ DOMAIN j = {"kind", "env", "consents", "sensitivity", "preferFree",
                       "provider", "model", "task", "roles", "review", "workers",
                       "providers", "models", "default", "writable"}
        /\ j.kind \in {"adaptive", "fleet", "worker", "benchmark"}
        /\ j.sensitivity \in {"public", "private", "secret"}
        /\ j.preferFree \in BOOLEAN /\ j.model \in BOOLEAN
        /\ j.roles # {} /\ j.roles \subseteq FixedRoles
        /\ j.task.found \subseteq DOMAIN DomainRoles

(***************************************************************************)
(* The profile of the NVIDIA fleet, laid over the environment.             *)
(***************************************************************************)
ProfileEnv(j) ==
    IF j.kind # "fleet" THEN j
    ELSE [j EXCEPT !.default = "nvidia",
                   !.models = @ \cup {"reasoning", "specialist", "coding",
                                      "verification", "recon", "reviewer",
                                      "release_auditor"},
                   !.env = IF "nvidia_private" \in j.consents
                           THEN @ \cup {"MADO_ALLOW_NVIDIA_PRIVATE"} ELSE @]

HasNvidiaKey(j) == {"NVIDIA_API_KEY", "MADO_NVIDIA_API_KEY"} \cap j.env # {}

(***************************************************************************)
(* The adaptive and fleet routes: role over tier over command line, and a  *)
(* model without a provider needs one from elsewhere.                      *)
(***************************************************************************)
ConfiguredRoute(j, role) ==
    LET tier == RoleTiers[role]
        named == IF role \in DOMAIN j.providers THEN j.providers[role]
                 ELSE IF tier \in DOMAIN j.providers THEN j.providers[tier]
                 ELSE j.provider
        override == {role, tier} \cap j.models # {} \/ j.model
        provider ==
            IF named # "auto" \/ ~override THEN named
            ELSE IF j.default # "none" THEN j.default
            ELSE IF j.sensitivity = "secret" THEN "local"
            ELSE IF "OPENROUTER_API_KEY" \in j.env THEN "openrouter"
            ELSE IF {"MADO_LOCAL_BASE_URL", "MADO_LOCAL_MODEL"} \subseteq j.env
                 THEN "local"
            ELSE "off"
    IN  SelectProvider(provider, j.sensitivity, override, j.preferFree, j.env,
                       j.consents \ {"nvidia_private"})

(* The route of a role of any kind of swarm.                               *)
RouteFor(j, role) ==
    CASE j.kind \in {"adaptive", "fleet"} -> ConfiguredRoute(ProfileEnv(j), role)
      [] j.kind = "worker" ->
            SelectProvider(j.provider, j.sensitivity, j.model, j.preferFree,
                           j.env, j.consents \ {"nvidia_private"})
      [] j.kind = "benchmark" ->
            SelectProvider("nvidia", "public", TRUE, FALSE, j.env, {})

Roles(j) ==
    CASE j.kind \in {"adaptive", "fleet"} -> ChooseRoles(j.task)
      [] j.kind = "worker" -> j.roles
      [] j.kind = "benchmark" -> FixedRoles

WantsReview(j) ==
    \/ j.kind = "benchmark"
    \/ j.review = "yes"
    \/ /\ j.review = "auto"
       /\ j.kind \in {"adaptive", "fleet"} => ReviewWanted(j.task)

Parallelism(j) ==
    LET n == Cardinality(Roles(j))
    IN  IF j.kind # "benchmark" /\ j.workers < n THEN j.workers ELSE n

-----------------------------------------------------------------------------
Init ==
    /\ job \in Jobs
    /\ phase = "planning"
    /\ status = <<>> /\ route = <<>>
    /\ verdict = "none"

(* The team is put together and every member has a route: build_assignments*)
(* or the single select_provider.  The executor is given all the calls.    *)
PlanOK(j) ==
    /\ j.kind \in {"fleet", "benchmark"} => HasNvidiaKey(j)
    /\ \A r \in Roles(j) : RouteFor(j, r) # Refused

FanOut ==
    /\ phase = "planning" /\ PlanOK(job)
    /\ phase' = "fanout"
    /\ status' = [r \in Roles(job) |-> "queued"]
    /\ route' = [r \in Roles(job) |-> RouteFor(job, r)]
    /\ UNCHANGED <<job, verdict>>

Refuse ==
    /\ phase = "planning" /\ ~PlanOK(job)
    /\ phase' = "refused"
    /\ UNCHANGED <<job, status, route, verdict>>

Calling == {r \in DOMAIN status : status[r] = "calling"}

(* Mutant of StartCall: one thread too few.                                *)
StartCallBelow(r) ==
    /\ phase = "fanout"
    /\ status[r] = "queued" /\ Cardinality(Calling) < Parallelism(job) - 1
    /\ status' = [status EXCEPT ![r] = "calling"]
    /\ UNCHANGED <<job, phase, route, verdict>>

(* A thread of the pool takes the next call.                               *)
StartCall(r) ==
    /\ phase = "fanout"
    /\ status[r] = "queued" /\ Cardinality(Calling) < Parallelism(job)
    /\ status' = [status EXCEPT ![r] = "calling"]
    /\ UNCHANGED <<job, phase, route, verdict>>

EndCall(r, result) ==
    /\ status[r] = "calling"
    /\ status' = [status EXCEPT ![r] = result]
    /\ UNCHANGED <<job, phase, route, verdict>>

AllEnded == \A r \in DOMAIN status : status[r] \in {"PASS", "ERROR"}
SomePassed == \E r \in DOMAIN status : status[r] = "PASS"
ReviewDue == WantsReview(job) /\ (SomePassed \/ job.kind = "benchmark")

(* All futures are done and the reviewer is routed and called.  The route  *)
(* is looked up only here.                                                 *)
StartReview ==
    /\ phase = "fanout" /\ AllEnded /\ ReviewDue
    /\ RouteFor(job, ReviewRole) # Refused
    /\ phase' = "review"
    /\ status' = [r \in DOMAIN status \cup {ReviewRole} |->
                    IF r = ReviewRole THEN "calling" ELSE status[r]]
    /\ route' = [r \in DOMAIN route \cup {ReviewRole} |->
                    IF r = ReviewRole THEN RouteFor(job, ReviewRole) ELSE route[r]]
    /\ UNCHANGED <<job, verdict>>

(* The reviewer has no route: the exception ends the run.                  *)
ReviewUnroutable ==
    /\ phase = "fanout" /\ AllEnded /\ ReviewDue
    /\ RouteFor(job, ReviewRole) = Refused
    /\ phase' = "refused"
    /\ UNCHANGED <<job, status, route, verdict>>

(* Mutant of TransportStatus: only the team's errors are looked at.        *)
TeamStatus ==
    IF ~SomePassed THEN "FAIL"
    ELSE IF \E r \in Roles(job) : status[r] = "ERROR" THEN "WARN" ELSE "PASS"

TransportStatus ==
    IF ~SomePassed THEN "FAIL"
    ELSE IF \E r \in DOMAIN status : status[r] = "ERROR" THEN "WARN" ELSE "PASS"

Finish ==
    /\ AllEnded
    /\ phase \in {"fanout", "review"} /\ (phase = "fanout" => ~ReviewDue)
    /\ phase' = IF job.writable THEN "reported" ELSE "refused"
    /\ verdict' = IF job.writable THEN TransportStatus ELSE "none"
    /\ UNCHANGED <<job, status, route>>

Next ==
    \/ FanOut \/ Refuse
    \/ \E r \in DOMAIN status : StartCall(r)
    \/ \E r \in DOMAIN status, result \in {"PASS", "ERROR"} : EndCall(r, result)
    \/ StartReview \/ ReviewUnroutable \/ Finish

(* The main thread and the threads of the pool keep running, and a call    *)
(* ends at its timeout at the latest.                                      *)
Fairness == WF_vars(Next)

Spec == Init /\ [][Next]_vars /\ Fairness

-----------------------------------------------------------------------------
Ended == phase \in {"reported", "refused"}

SwarmTypeOK ==
    /\ phase \in {"planning", "fanout", "review", "reported", "refused"}
    /\ DOMAIN route = DOMAIN status
    /\ \A r \in DOMAIN status :
        /\ status[r] \in {"queued", "calling", "PASS", "ERROR"}
        /\ route[r] \in Providers
    /\ verdict \in {"none", "PASS", "WARN", "FAIL"}

(* Secret text goes to the local provider only, private text never to the  *)
(* provider that logs it, and to NVIDIA only with consent, whatever        *)
(* providers and models the roles, the tiers and the fleet profile name.   *)
DataStaysPermitted ==
    \A r \in DOMAIN status :
        LET s == IF job.kind = "benchmark" THEN "public" ELSE job.sensitivity
        IN  /\ s = "secret" => route[r] = "local"
            /\ s = "private" /\ route[r] = "nvidia" =>
                    \/ "MADO_ALLOW_NVIDIA_PRIVATE" \in job.env
                    \/ job.kind = "fleet" /\ "nvidia_private" \in job.consents
            /\ route[r] = "empero" =>
                    s = "public" /\ LoggedFreeAllowed(job.env, job.consents)

(* A report says PASS only when every member of the team answered and so   *)
(* did the reviewer that was asked for, and FAIL only when nobody did.     *)
VerdictIsHonest ==
    phase = "reported" =>
        /\ verdict = "PASS" <=>
              \A r \in Roles(job) \cup (IF WantsReview(job) THEN {ReviewRole} ELSE {}) :
                  r \in DOMAIN status /\ status[r] = "PASS"
        /\ verdict = "FAIL" <=> \A r \in DOMAIN status : status[r] = "ERROR"

(* The reviewer reads the answers of the whole team: while it works nobody *)
(* else does.                                                              *)
ReviewComesLast ==
    ReviewRole \in DOMAIN status =>
        /\ Roles(job) \subseteq DOMAIN status
        /\ \A r \in Roles(job) : status[r] \in {"PASS", "ERROR"}

(* Every run ends, with a report or a refusal.                             *)
RunsEnd == <>Ended
=============================================================================
