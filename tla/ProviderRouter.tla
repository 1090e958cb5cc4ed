--------------------------- MODULE ProviderRouter ---------------------------
(***************************************************************************)
(* Which worker provider may see which data: provider_router.py.  An       *)
(* environment is the set of names that are set in it (and, for the two    *)
(* MADO_ALLOW switches, that are true).  A consent is a command line flag  *)
(* "logged_free" or "nvidia_private".                                      *)
(***************************************************************************)
EXTENDS Integers, Sequences

Providers == {"local", "openrouter", "nvidia", "empero"}
Refused == "refused"

LoggedFreeAllowed(env, consents) ==
    "logged_free" \in consents \/ "MADO_ALLOW_LOGGED_FREE" \in env

PrivateNvidiaAllowed(env, consents) ==
    "nvidia_private" \in consents \/ "MADO_ALLOW_NVIDIA_PRIVATE" \in env

(* Mutant of Configured: the second name of the NVIDIA key is forgotten.   *)
ConfiguredOneKey(provider, override, env, consents) ==
    CASE provider = "local" ->
            /\ "MADO_LOCAL_BASE_URL" \in env
            /\ override \/ "MADO_LOCAL_MODEL" \in env
      [] provider = "openrouter" ->
            /\ "OPENROUTER_API_KEY" \in env
            /\ override \/ {"MADO_OPENROUTER_MODEL", "OPENROUTER_MODEL"} \cap env # {}
      [] provider = "nvidia" ->
            /\ "NVIDIA_API_KEY" \in env
            /\ override \/ "MADO_NVIDIA_MODEL" \in env
      [] provider = "empero" -> LoggedFreeAllowed(env, consents)

(* override: the caller names a model, so none need be configured.         *)
Configured(provider, override, env, consents) ==
    CASE provider = "local" ->
            /\ "MADO_LOCAL_BASE_URL" \in env
            /\ override \/ "MADO_LOCAL_MODEL" \in env
      [] provider = "openrouter" ->
            /\ "OPENROUTER_API_KEY" \in env
            /\ override \/ {"MADO_OPENROUTER_MODEL", "OPENROUTER_MODEL"} \cap env # {}
      [] provider = "nvidia" ->
            /\ {"NVIDIA_API_KEY", "MADO_NVIDIA_API_KEY"} \cap env # {}
            /\ override \/ "MADO_NVIDIA_MODEL" \in env
      [] provider = "empero" -> LoggedFreeAllowed(env, consents)

(* Mutant of Permitted: private text may go to NVIDIA unasked.             *)
PermittedUnasked(provider, sensitivity, env, consents) ==
    CASE sensitivity = "secret" -> provider = "local"
      [] sensitivity = "private" -> provider # "empero"
      [] sensitivity = "public" -> TRUE

Permitted(provider, sensitivity, env, consents) ==
    CASE sensitivity = "secret" -> provider = "local"
      [] sensitivity = "private" ->
            /\ provider # "empero"
            /\ provider = "nvidia" => PrivateNvidiaAllowed(env, consents)
      [] sensitivity = "public" -> TRUE

(* The providers the automatic route tries, first choice first.            *)
FallbackOrder(sensitivity, preferFree) ==
    CASE sensitivity = "public" /\ preferFree ->
            <<"nvidia", "empero", "openrouter", "local">>
      [] sensitivity = "public" /\ ~preferFree ->
            <<"openrouter", "local", "nvidia", "empero">>
      [] sensitivity = "private" -> <<"openrouter", "nvidia", "local">>
      [] sensitivity = "secret" -> <<"local">>

ProviderCandidates(sensitivity, env, consents) ==
    {p \in Providers : /\ Configured(p, FALSE, env, consents)
                       /\ Permitted(p, sensitivity, env, consents)}

FirstCandidate(order, candidates) ==
    order[CHOOSE i \in DOMAIN order :
            /\ order[i] \in candidates
            /\ \A j \in 1..(i - 1) : order[j] \notin candidates]

SelectProvider(provider, sensitivity, override, preferFree, env, consents) ==
    LET candidates == ProviderCandidates(sensitivity, env, consents)
        order == FallbackOrder(sensitivity, preferFree)
    IN  IF provider \in Providers
        THEN IF /\ Permitted(provider, sensitivity, env, consents)
                /\ Configured(provider, override, env, consents)
             THEN provider ELSE Refused
        ELSE IF provider = "auto" /\ ~override /\ candidates # {}
             THEN FirstCandidate(order, candidates) ELSE Refused
=============================================================================
