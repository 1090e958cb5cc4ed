---------------------------- MODULE MCWorkerSwarm ----------------------------
(***************************************************************************)
(* Jobs for TLC: every kind of swarm under environments in which each      *)
(* provider is, in turn, the only one configured, several are, or none is; *)
(* tasks that give teams of one to four; overrides for a role, a tier and  *)
(* the reviewer.                                                           *)
(***************************************************************************)
EXTENDS SwarmAdvice

Local == {"MADO_LOCAL_BASE_URL", "MADO_LOCAL_MODEL"}
OpenRouter == {"OPENROUTER_API_KEY", "OPENROUTER_MODEL"}
Nvidia == {"NVIDIA_API_KEY", "MADO_NVIDIA_MODEL"}

\* What tells the providers apart, in every combination, for the plain jobs.
WorkerEnvs ==
    {UNION e : e \in SUBSET {Local, {"OPENROUTER_API_KEY"}, {"OPENROUTER_MODEL"},
                             {"MADO_NVIDIA_API_KEY"}, {"MADO_NVIDIA_MODEL"},
                             {"MADO_ALLOW_LOGGED_FREE"},
                             {"MADO_ALLOW_NVIDIA_PRIVATE"}}}

MCEnvs == {{}, Local, Nvidia, OpenRouter \cup {"MADO_ALLOW_LOGGED_FREE"},
           Nvidia \cup Local \cup {"MADO_ALLOW_NVIDIA_PRIVATE"}}

MCTasks == {[found |-> {}, long |-> FALSE, architecture |-> FALSE],
            [found |-> {"CODE"}, long |-> TRUE, architecture |-> TRUE],
            [found |-> {"RELEASE"}, long |-> FALSE, architecture |-> FALSE]}

\* No overrides; a tier sent elsewhere; a role's model; the reviewer's model
\* or provider; a role sent to the logged provider.
MCOverrides ==
    {[providers |-> <<>>, models |-> {}, default |-> "none"],
     [providers |-> [verification |-> "local"], models |-> {}, default |-> "none"],
     [providers |-> <<>>, models |-> {"implementer"}, default |-> "nvidia"],
     [providers |-> <<>>, models |-> {"reviewer"}, default |-> "none"],
     [providers |-> [reviewer |-> "off"], models |-> {"coding"}, default |-> "none"],
     [providers |-> [implementer |-> "empero"], models |-> {}, default |-> "none"]}

Plain == [providers |-> <<>>, models |-> {}, default |-> "none"]

Job(kind, env, s, provider, task, review, workers, o, consents, writable) ==
    [kind |-> kind, env |-> env, sensitivity |-> s, provider |-> provider,
     model |-> FALSE, preferFree |-> "logged_free" \in consents, task |-> task,
     roles |-> {"implementer", "test_writer"}, review |-> review,
     workers |-> workers, providers |-> o.providers, models |-> o.models,
     default |-> o.default, consents |-> consents, writable |-> writable]

MCJobs ==
    {Job("adaptive", env, s, "auto", task, review, 2, o, {}, TRUE) :
        env \in MCEnvs, s \in {"public", "private", "secret"}, task \in MCTasks,
        review \in {"auto", "no"}, o \in MCOverrides}
    \cup
    {Job("fleet", env, s, "auto", task, "auto", 2, o, consents, writable) :
        env \in MCEnvs, s \in {"public", "private"}, task \in MCTasks,
        o \in MCOverrides, consents \in {{}, {"nvidia_private"}},
        writable \in BOOLEAN}
    \cup
    {Job("worker", env, s, provider, CHOOSE t \in MCTasks : TRUE, review, w,
         Plain, consents, TRUE) :
        env \in WorkerEnvs, s \in {"public", "private", "secret"},
        provider \in {"auto", "empero", "nvidia", "off"}, review \in {"auto", "no"},
        w \in {1, 2}, consents \in {{}, {"logged_free"}}}
    \cup
    {Job("benchmark", env, "public", "auto", CHOOSE t \in MCTasks : TRUE, "auto", 3,
         Plain, {}, TRUE) : env \in MCEnvs}
=============================================================================
