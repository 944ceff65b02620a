------------------------------- MODULE AirGap -------------------------------
(***************************************************************************)
(* The air-gap verifier (shield_governance/air_gap_verify.py): checks of   *)
(* the packaged local profile, of the imports of the governance source, of *)
(* the environment and of the host; an attestation is signed when none     *)
(* fails and the host was really probed.                                   *)
(*                                                                         *)
(* It is the packaged profile that is checked, whatever profile a server   *)
(* runs with, and the probe is made in a network namespace of its own.     *)
(* An import is a record of the file, the first component of the module,   *)
(* its other components and the names it imports.                          *)
(***************************************************************************)
EXTENDS ModelRouter

SecondOctets == {"16", "17", "18", "19", "20", "21", "22", "23", "24", "25",
                 "26", "27", "28", "29", "30", "31"}

\* Hosts are compared as text: a name whose first label is 10 passes for an
\* address of the private range.
IsLocalEndpoint(url) ==
    LET h == url.host
    IN  /\ url.scheme = "http"
        /\ h # <<>>
        /\ \/ h \in {<<"localhost">>, <<"127", "0", "0", "1">>, <<"::1">>}
           \/ Len(h) >= 2 /\ h[Len(h)] \in {"svc", "local"}
           \/ Len(h) >= 2 /\ h[1] = "10"
           \/ Len(h) >= 3 /\ h[1] = "192" /\ h[2] = "168"
           \/ Len(h) = 4 /\ h[1] = "172" /\ h[2] \in SecondOctets

\* A role the check of the routes is content with.
LocalRoute(model) ==
    \/ ~model.enabled
    \/ /\ model.provider \in {"local", "openai_compat"}
       /\ model.served = "local"
       /\ model.provider = "openai_compat" =>
             /\ IsLocalEndpoint(model.url)
             /\ model.keyEnv \notin {"ANTHROPIC_API_KEY", "OPENAI_API_KEY"}

Status(ok) == IF ok THEN "PASS" ELSE "FAIL"

ProfileChecks(cfg) ==
    IF ~ValidProfile(cfg) THEN <<"FAIL">>
    ELSE <<Status(cfg.profile = "local"),
           Status(\A role \in Roles(cfg) : LocalRoute(ForRole(cfg, role)))>>

\* The air_gap.telemetry settings of the profile, if it has any.
TelemetryChecks(telemetry) ==
    IF ~telemetry.given THEN <<"FAIL">>
    ELSE <<Status(telemetry.chroma = FALSE),
           Status(telemetry.langsmith = FALSE /\ telemetry.langchain = FALSE),
           Status(telemetry.hub = TRUE /\ telemetry.transformers = TRUE)>>

DirectClients   == {"anthropic", "langchain_anthropic", "langchain_openai", "openai"}
HiddenTelemetry == {"langsmith", "mlflow", "wandb"}
RemotePolicies  == {"Policy", "RemotePolicy"}

\* A file that does not parse counts as one with a direct client.
SourceChecks(imports, unparsed) ==
    <<Status(/\ unparsed = {}
             /\ \A i \in imports :
                   i.root \in DirectClients => i.file = "model_router.py"),
      Status(\A i \in imports :
                i.root = "invariant" => (i.parts \cup i.names) \cap RemotePolicies = {}),
      Status(\A i \in imports : i.root \notin HiddenTelemetry)>>

\* The keys of the environment that are set to something true.
RuntimeChecks(set) ==
    <<Status("ANONYMIZED_TELEMETRY" \notin set),
      Status(set \cap {"LANGSMITH_TRACING", "LANGCHAIN_TRACING_V2"} = {})>>

\* The host: a probe that does not return, or cannot be started, counts as one
\* whose connection was refused.
EgressCheck(host) ==
    IF host.system # "Linux" \/ ~host.unshare \/ host.namespace # 0 THEN "SKIP"
    ELSE Status(host.probe # 0)

Checks(cfg, telemetry, imports, unparsed, set) ==
    ProfileChecks(cfg)
        \o (IF ValidProfile(cfg) THEN TelemetryChecks(telemetry) ELSE <<>>)
        \o SourceChecks(imports, unparsed)
        \o RuntimeChecks(set)

\* run_air_gap_verification; an attestation goes with PASS and only with it.
Result(checks, egress, key) ==
    IF egress = "FAIL" \/ \E n \in DOMAIN checks : checks[n] = "FAIL" THEN "FAIL"
    ELSE IF egress = "SKIP" THEN "SKIPPED"
    ELSE Status(key)

ExitStatus(result) == IF result = "FAIL" THEN 1 ELSE 0
=============================================================================
