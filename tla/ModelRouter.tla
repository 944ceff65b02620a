---------------------------- MODULE ModelRouter ----------------------------
(***************************************************************************)
(* ShieldModelRouter (shield_governance/model_router.py): a profile names  *)
(* a model for every guardian and for some auxiliary roles, and every      *)
(* client of a model is built through it.                                  *)
(*                                                                         *)
(* The entry of a role has the fields enabled, provider, model, served,    *)
(* url and keyEnv, "absent" when the YAML leaves one out; a url is         *)
(* Absent or a scheme with the labels of its host.  Entries that are not   *)
(* mappings, temperatures and token limits are left out.                   *)
(***************************************************************************)
EXTENDS Integers, Sequences

GuardianRoles == {"defender", "evaluator", "supervisor", "auditor"}
Providers     == {"anthropic", "openai_compat", "local"}
Absent        == [scheme |-> "absent", host |-> <<>>]

DefaultServedVia(provider) == IF provider = "anthropic" THEN "cloud" ELSE "local"
DefaultKeyEnv(provider) ==
    IF provider = "anthropic" THEN "ANTHROPIC_API_KEY" ELSE "SHIELD_LLM_KEY"

\* What _resolve raises on is not well formed; a disabled role is not looked at.
WellFormed(entry) ==
    \/ ~entry.enabled
    \/ /\ entry.provider \in Providers
       /\ entry.model # ""
       /\ entry.served \in {"absent", "cloud", "local"}
       /\ entry.provider = "openai_compat" => entry.url # Absent

Resolved(entry) ==
    IF entry.enabled
    THEN [enabled  |-> TRUE,
          provider |-> entry.provider,
          served   |-> IF entry.served = "absent" THEN DefaultServedVia(entry.provider)
                       ELSE entry.served,
          url      |-> entry.url,
          keyEnv   |-> IF entry.keyEnv = "absent" THEN DefaultKeyEnv(entry.provider)
                       ELSE entry.keyEnv]
    ELSE [enabled |-> FALSE, provider |-> "local", served |-> "local",
          url |-> Absent, keyEnv |-> "SHIELD_LLM_KEY"]

Roles(cfg) == DOMAIN cfg.guardians \cup DOMAIN cfg.aux

Entry(cfg, role) ==
    IF role \in DOMAIN cfg.aux THEN cfg.aux[role] ELSE cfg.guardians[role]

\* The profiles the constructor takes.
ValidProfile(cfg) ==
    /\ cfg.profile # ""
    /\ DOMAIN cfg.guardians = GuardianRoles
    /\ DOMAIN cfg.aux \cap GuardianRoles = {}
    /\ \A role \in Roles(cfg) : WellFormed(Entry(cfg, role))

ForRole(cfg, role) == Resolved(Entry(cfg, role))

\* The key of a client: Anthropic needs one, a compatible server does not.
ApiKey(model, environ) ==
    IF model.keyEnv \in DOMAIN environ THEN environ[model.keyEnv] ELSE ""

CanBuild(cfg, role, environ) ==
    /\ role \in Roles(cfg)
    /\ ForRole(cfg, role).enabled
    /\ ForRole(cfg, role).provider = "anthropic" =>
           ApiKey(ForRole(cfg, role), environ) # ""

\* Where the client of a role sends its calls: Anthropic's own servers, the
\* role's base_url, or nowhere for a local classifier.
CloudUrl == [scheme |-> "https", host |-> <<"api", "anthropic", "com">>]
Nowhere  == [scheme |-> "none", host |-> <<>>]

Endpoint(cfg, role) ==
    CASE ForRole(cfg, role).provider = "anthropic"     -> CloudUrl
      [] ForRole(cfg, role).provider = "openai_compat" -> ForRole(cfg, role).url
      [] ForRole(cfg, role).provider = "local"         -> Nowhere
=============================================================================
