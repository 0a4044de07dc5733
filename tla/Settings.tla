------------------------------- MODULE Settings -------------------------------
(***************************************************************************)
(* internal/config: how the built-in settings, the file and the            *)
(* environment become the configuration in force, what is refused on the   *)
(* way, and what the configuration gives a tenant and a key.               *)
(*                                                                         *)
(* A document is a record of what is written in it.  A written value is    *)
(* Empty, Malformed, or a value of the setting's kind; "tenant:role" is    *)
(* the sequence of its fields, and a tenant label a sequence of one unless *)
(* somebody wrote more into it.                                            *)
(***************************************************************************)
EXTENDS EgressPolicy, FiniteSets, SequencesExt

CONSTANTS Empty, Malformed,
          Builtin,      \* a compiled-in value nothing here depends on
          KnownPacks    \* the rule packs that compile

Texts == {"addr", "preamble", "local.endpoint", "cloud.endpoint", "cloud.api_key",
          "trusted_proxy_header", "rule_dir", "session_header", "price_book",
          "audit_path", "metrics_path", "budget_period", "budget_timezone"}
Flags == {"allow_anonymous", "disable_entropy", "ingress_scan", "cache_enabled",
          "audit_disabled", "debug", "dashboard"}
Numbers == {"enumeration_min_dictionary", "stream_max_buffer", "session_max",
            "cache_max", "local_cost", "max_body_bytes", "rate_limit_per_min",
            "rate_limit_burst", "retries", "breaker_threshold"}
Durations == {"local.timeout", "cloud.timeout", "session_ttl", "cache_ttl",
              "serving_timeouts", "breaker_cooldown"}
Lists == {"redact_packs", "redact_disable", "internal_domains"}
Selections == {"local.provider", "cloud.provider", "guard_severity", "stream_mode"}
Plain == Texts \cup Flags \cup Numbers \cup Durations \cup Lists \cup Selections

Thresholds == {"cloud_max_sensitivity", "deny_above_sensitivity"}
FileNames == Plain \cup {"api_keys", "tenants", "policy"}
Detection == {"redact_packs", "redact_disable", "internal_domains"}

Has(doc, n) == n \in DOMAIN doc
Get(doc, n, default) == IF Has(doc, n) THEN doc[n] ELSE default
Written(doc, n) == Has(doc, n) /\ doc[n] \notin {Empty, Malformed}
-----------------------------------------------------------------------------
(* Roles, and the two formats a role is written in.                        *)
Rank == [caller |-> 1, operator |-> 2, admin |-> 3]
Roles == DOMAIN Rank
Allows(role, need) == Rank[role] >= Rank[need]
DefaultRole == "operator"

SplitTenantRole(w) ==
    [tenant |-> IF w = <<>> THEN "" ELSE w[1],
     role |-> IF Len(w) = 2 /\ w[2] \in Roles THEN w[2] ELSE DefaultRole]

Anonymous == <<"anonymous">>
Unlabelled == <<"default">>

(* Of several parts that name a key, the last one counts.                  *)
LastFor(parts, key) == parts[SelectLastInSeq(parts, LAMBDA p : p[1] = key)]
KeysIn(parts) == {parts[i][1] : i \in DOMAIN parts} \ {""}

ParseAPIKeys(parts) ==
    [key \in KeysIn(parts) |->
        LET name == SplitTenantRole(Tail(LastFor(parts, key))).tenant
        IN  IF name = "" THEN Unlabelled ELSE <<name>>]

ParseAPIRoles(parts) ==
    LET labelled == SelectSeq(parts, LAMBDA p : Len(p) > 1)
    IN  [key \in KeysIn(labelled) |-> SplitTenantRole(Tail(LastFor(labelled, key))).role]

RoleFor(c, key) == Get(c.roles, key, DefaultRole)
-----------------------------------------------------------------------------
Default(n) ==
    IF n \in Flags THEN n \in {"ingress_scan", "cache_enabled", "dashboard"}
    ELSE IF n \in {"rate_limit_per_min", "rate_limit_burst"} THEN 0
    ELSE IF n \in {"redact_packs", "redact_disable"} THEN <<>>
    ELSE IF n = "cloud.api_key" THEN Empty
    ELSE Builtin

DefaultPolicy == [cloudMax |-> 1, denyAbove |-> DenyDisabled, fallback |-> TRUE]

Defaults ==
    [plain |-> [n \in Plain |-> Default(n)], policy |-> DefaultPolicy,
     keys |-> <<>>, roles |-> <<>>, tenants |-> <<>>,
     oidc |-> [issuer |-> Empty, audience |-> Empty, claim |-> Empty, map |-> <<>>]]

(* policy.Parse on one threshold: absent inherits, empty is the default.   *)
Threshold(doc, n, base, default) ==
    IF ~Has(doc, n) THEN base ELSE IF doc[n] = Empty THEN default ELSE doc[n]

ReadPolicy(doc, base) ==
    [cloudMax  |-> Threshold(doc, "cloud_max_sensitivity", base.cloudMax, DefaultPolicy.cloudMax),
     denyAbove |-> Threshold(doc, "deny_above_sensitivity", base.denyAbove, DenyDisabled),
     fallback  |-> IF Written(doc, "allow_cloud_fallback") THEN doc.allow_cloud_fallback
                   ELSE base.fallback]

PolicyFails(doc) == \E n \in Thresholds : Has(doc, n) /\ doc[n] = Malformed

(* A tenant of the file starts from the policy the file arrived at.        *)
FileTenant(t, policy) ==
    [policy |-> IF Has(t, "policy") THEN ReadPolicy(t.policy, policy) ELSE Empty,
     perMin |-> Get(t, "rate_limit_per_min", 0), burst |-> Get(t, "rate_limit_burst", 0),
     budget |-> Get(t, "token_budget", 0),
     detection |-> [n \in Detection |-> Get(t, n, <<>>)]]

(* A key the loader does not know, or a value of another kind.             *)
FileFails(f) ==
    \/ \E n \in DOMAIN f : n \notin FileNames \/ (n \in Plain \ Texts /\ f[n] = Malformed)
    \/ Has(f, "policy") /\ PolicyFails(f.policy)
    \/ Has(f, "tenants") /\ \E name \in DOMAIN f.tenants :
           Has(f.tenants[name], "policy") /\ PolicyFails(f.tenants[name].policy)

ApplyFile(c, f) ==
    LET policy == IF Has(f, "policy") THEN ReadPolicy(f.policy, c.policy) ELSE c.policy
    IN  [c EXCEPT
           !.plain = [n \in Plain |-> Get(f, n, @[n])],
           !.policy = policy,
           !.keys = IF Has(f, "api_keys")
                    THEN [key \in DOMAIN f.api_keys |->
                             IF f.api_keys[key] = <<"">> THEN Unlabelled ELSE f.api_keys[key]]
                    ELSE @,
           !.tenants = IF Has(f, "tenants")
                       THEN [name \in DOMAIN f.tenants |-> FileTenant(f.tenants[name], policy)]
                       ELSE @]
-----------------------------------------------------------------------------
(* The environment: what is absent, empty or of another kind leaves the    *)
(* setting as it is, but for the selections and thresholds, which fail.    *)
EnvFails(env) ==
    PolicyFails(env) \/ \E n \in Selections : Has(env, n) /\ env[n] = Malformed

Overrides(env, n) == IF n \in Texts THEN Has(env, n) /\ env[n] # Empty ELSE Written(env, n)
EnvText(env, n, old) == IF Has(env, n) /\ env[n] # Empty THEN env[n] ELSE old

EnvPlain(env, old) ==
    LET set == [n \in Plain |-> IF Overrides(env, n) THEN env[n] ELSE old[n]]
    IN  [set EXCEPT
           !["cache_max"] = IF set["cache_enabled"] THEN @ ELSE 0,
           !["cloud.api_key"] = IF @ = Empty THEN Get(env, "openai_api_key", Empty) ELSE @]

ApplyEnv(c, env) ==
    [c EXCEPT
       !.plain = EnvPlain(env, @),
       !.policy = ReadPolicy(env, @),
       !.keys = IF Written(env, "api_keys") THEN ParseAPIKeys(env.api_keys) ELSE @,
       !.roles = IF Written(env, "api_keys") THEN ParseAPIRoles(env.api_keys) ELSE @,
       !.oidc = [issuer |-> EnvText(env, "oidc_issuer", @.issuer),
                 audience |-> EnvText(env, "oidc_audience", @.audience),
                 claim |-> EnvText(env, "oidc_tenant_claim", @.claim),
                 map |-> IF Written(env, "oidc_tenant_map")
                         THEN ParseAPIKeys(env.oidc_tenant_map) ELSE @.map]]
-----------------------------------------------------------------------------
(* What would run but should not.                                          *)
Labels(c) == {c.keys[key] : key \in DOMAIN c.keys} \cup
             (IF c.plain["allow_anonymous"] THEN {Anonymous} ELSE {})

Validate(c) ==
    /\ DOMAIN c.keys # {} \/ c.plain["allow_anonymous"]
    /\ DOMAIN c.tenants \subseteq Labels(c)
    /\ c.plain["budget_period"] \in {Empty, Builtin, "daily", "monthly"}
    /\ c.plain["budget_timezone"] # Malformed
    /\ \A name \in DOMAIN c.tenants :
           c.tenants[name].policy # Empty =>
               c.tenants[name].policy.cloudMax <= c.policy.cloudMax

(* FromEnv and Reload: the file, then the environment, then the check.     *)
Effective(f, env) == ApplyEnv(ApplyFile(Defaults, f), env)
Loads(f, env) == ~FileFails(f) /\ ~EnvFails(env) /\ Validate(Effective(f, env))

OIDCEnabled(c) == c.oidc.issuer # Empty

(* gateway.New and Reload: the detectors and the verifier must build.      *)
Tenant(c, t) == c.tenants[t]
PolicyFor(c, t) ==
    IF Has(c.tenants, t) /\ Tenant(c, t).policy # Empty THEN Tenant(c, t).policy ELSE c.policy

Inherit(own, global) == IF own > 0 THEN own ELSE global
RateLimitFor(c, t) ==
    LET own(limit) == IF Has(c.tenants, t) THEN limit ELSE 0
    IN  [perMin |-> Inherit(own(Tenant(c, t).perMin), c.plain["rate_limit_per_min"]),
         burst |-> Inherit(own(Tenant(c, t).burst), c.plain["rate_limit_burst"])]

AnyLimit(c) == c.plain["rate_limit_per_min"] > 0 \/ \E t \in DOMAIN c.tenants : Tenant(c, t).perMin > 0
BudgetFor(c, t) == IF Has(c.tenants, t) THEN Tenant(c, t).budget ELSE 0
AnyBudget(c) == \E t \in DOMAIN c.tenants : Tenant(c, t).budget > 0

RedactionFor(c, t) ==
    [n \in Detection |->
        IF Has(c.tenants, t) /\ Tenant(c, t).detection[n] # <<>>
        THEN Tenant(c, t).detection[n] ELSE c.plain[n]]

Compiles(packs) == ToSet(packs) \subseteq KnownPacks
VerifierBuilds(c) ==
    OIDCEnabled(c) => c.oidc.audience # Empty /\ c.oidc.claim # Empty /\ DOMAIN c.oidc.map # {}
Builds(c) ==
    /\ VerifierBuilds(c) /\ Compiles(c.plain["redact_packs"])
    /\ \A t \in Labels(c) : Compiles(RedactionFor(c, t)["redact_packs"])

(* The view in force for a tenant, with overrides or without.              *)
ViewFor(c, t) == [rules |-> RedactionFor(c, t), policy |-> PolicyFor(c, t)]

(* What makes a reload drop the answer cache.                              *)
RulesChanged(a, b) ==
    \/ \E n \in Detection \cup {"disable_entropy", "rule_dir"} : a.plain[n] # b.plain[n]
    \/ DOMAIN a.tenants # DOMAIN b.tenants
    \/ \E t \in DOMAIN a.tenants : a.tenants[t].detection # b.tenants[t].detection
=============================================================================
