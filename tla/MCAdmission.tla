----------------------------- MODULE MCAdmission -----------------------------
(***************************************************************************)
(* The cases Admission is checked on, and the reference definitions the    *)
(* pure parts of Settings and Identity are compared with.                  *)
(***************************************************************************)
EXTENDS Admission

None == <<"none">>
KeyOnly(k) == <<<<"key", k>>, None, None>>
Bearer(token) == <<<<"jwt", token>>, None, None>>
Ask(credentials, endpoint) == [credentials |-> credentials, endpoint |-> endpoint]

Jwk(kid, material) ==
    [kid |-> kid, kty |-> "RSA", use |-> "sig", decodes |-> TRUE, material |-> material]
Token(kid, signer, groups) ==
    [readable |-> TRUE, alg |-> "RS256", kid |-> kid, signer |-> signer, iss |-> "idp",
     aud |-> <<"other", "phigate">>, exp |-> 5, nbf |-> NoTime, groups |-> groups]

OIDCEnv == [oidc_issuer |-> "idp", oidc_audience |-> "phigate", oidc_tenant_claim |-> "groups",
            oidc_tenant_map |-> <<<<"sre", "ops", "operator">>, <<"app", "web", "caller">>>>,
            api_keys |-> <<<<"static", "web", "caller">>>>]

(* The provider rotates twice; the last document also has keys not meant   *)
(* for signing.  Two clients hold tokens of it and keep trying.            *)
Rotation ==
    [env |-> OIDCEnv, files |-> <<<<>>>>, persistent |-> {1, 2},
     documents |-> <<<<Jwk("old", "m1")>>,
                     <<Jwk("old", "m1"), Jwk("mid", "m2")>>,
                     <<[Jwk("enc", "m9") EXCEPT !.use = "enc"], Jwk("new", "m3"),
                       [Jwk("ec", "m4") EXCEPT !.kty = "EC"]>>>>,
     asks |-> <<Ask(Bearer(Token("new", "m3", <<"none", "sre">>)), "chat"),
                Ask(Bearer([Token("ec", "m4", <<"app">>) EXCEPT !.alg = "ES256", !.exp = -1]), "models")>>]

(* Tokens the verifier must turn away, and one that names no key.          *)
Tokens ==
    [env |-> OIDCEnv, files |-> <<<<>>>>, persistent |-> {},
     documents |-> <<<<Jwk("only", "m1")>>, <<[Jwk("odd", "m2") EXCEPT !.decodes = FALSE]>>>>,
     asks |-> <<Ask(Bearer(Token("", "m1", <<"app">>)), "stats"),
                Ask(<<None, <<"jwt", [Token("only", "m1", <<"sre">>) EXCEPT !.alg = "HS256"]>>,
                      <<"key", "static">>>>, "chat"),
                Ask(Bearer([Token("only", "m1", <<"sre">>) EXCEPT !.exp = -2]), "stats")>>]

(* The limits change under a tenant that is being served; it also has a    *)
(* budget, and one of its keys is gone from the file.                      *)
Limits ==
    [env |-> [rate_limit_per_min |-> 0, allow_anonymous |-> Malformed],
     files |-> <<[api_keys |-> [k1 |-> <<"acme">>, k2 |-> <<"acme">>], rate_limit_burst |-> 3,
                  tenants |-> (<<"acme">> :> [rate_limit_per_min |-> 2, token_budget |-> 9])],
                 [api_keys |-> [k1 |-> <<"acme">>],
                  tenants |-> (<<"acme">> :> [rate_limit_per_min |-> 1])],
                 [api_keys |-> [k1 |-> <<"acme">>], tenants |-> (<<"acme ">> :> <<>>)]>>,
     persistent |-> {}, documents |-> <<<<>>>>,
     asks |-> <<Ask(KeyOnly("k1"), "chat"), Ask(KeyOnly("k1"), "embeddings"),
                Ask(KeyOnly("k2"), "metrics")>>]

(* No credentials at first, then some: what the debug endpoint asks for.   *)
Opened ==
    [env |-> <<>>,
     files |-> <<[allow_anonymous |-> TRUE, debug |-> TRUE, dashboard |-> FALSE],
                 [allow_anonymous |-> TRUE, api_keys |-> [k1 |-> <<"acme", "admin">>]]>>,
     persistent |-> {}, documents |-> <<<<>>>>,
     asks |-> <<Ask(KeyOnly("k1"), "debug"), Ask(KeyOnly("no"), "dashboard"),
                Ask(KeyOnly("no"), "rules")>>]
-----------------------------------------------------------------------------
(* Documents that differ in one setting of each kind, and in policies.     *)
Levels == {Empty, Malformed, 0, 2}
Policies == {<<>>} \cup [{"cloud_max_sensitivity"} -> Levels]
Plains == UNION {[{n} -> {Empty, Malformed, "daily"}] : n \in {"budget_period", "stream_mode"}}
              \cup [{"redact_packs"} -> {Empty, Malformed, <<"core">>}]
              \cup [{"rate_limit_per_min"} -> {Malformed, 1, 2}]
Acme == <<"acme">>
Files == {d @@ [allow_anonymous |-> TRUE] @@ [policy |-> p] : d \in Plains \cup {<<>>}, p \in Policies}
TenantFiles ==
    {[api_keys |-> [k |-> Acme], policy |-> p, tenants |-> (Acme :> [policy |-> q])] :
        p \in Policies, q \in Policies}
Environments == Plains \cup Policies \cup {<<>>}

(* What the environment writes legibly wins over the file, which wins over *)
(* what is compiled in; what it leaves empty or illegible changes nothing. *)
ASSUME EnvironmentWins ==
    \A f \in Files, env \in Environments, n \in {"budget_period", "redact_packs", "rate_limit_per_min"} :
        Loads(f, env) =>
            Effective(f, env).plain[n] =
                IF Has(env, n) /\ env[n] \notin {Empty, Malformed} THEN env[n]
                ELSE IF Has(f, n) THEN f[n] ELSE Default(n)

(* A file is refused for what the environment is let off with.             *)
ASSUME FileIsStrict ==
    \A d \in Plains : \A n \in DOMAIN d \ (Texts \cup Selections) :
        d[n] = Malformed => FileFails(d) /\ ~EnvFails(d)

(* An accepted configuration gives no tenant more of the cloud than all    *)
(* have, whichever of the two documents set the limit.                     *)
ASSUME CeilingHolds ==
    \A f \in TenantFiles, env \in Policies :
        Loads(f, env) => PolicyFor(Effective(f, env), Acme).cloudMax
                             <= Effective(f, env).policy.cloudMax

(* A reload that keeps the cache keeps what every tenant's text is masked  *)
(* by, so an entry's key still means what it meant.                        *)
ASSUME QuietReload ==
    \A f, g \in Files \cup TenantFiles :
        LET a == Effective(f, <<>>)
            b == Effective(g, <<>>)
        IN  ~RulesChanged(a, b) => RedactionFor(a, Acme) = RedactionFor(b, Acme)

(* A part of the key list is judged by its last mention, and a role that   *)
(* is not one of the three is the default, neither more nor less.          *)
Words == {"", "a", "caller", "admin", "amin"}
ASSUME LastMentionCounts ==
    \A x \in Words, y \in Words, u \in Words, v \in Words :
        LET parts == <<<<"k", x, u>>, <<"", "z">>, <<"k", y, v>>>>
        IN  /\ ParseAPIKeys(parts) = ("k" :> IF y = "" THEN Unlabelled ELSE <<y>>)
            /\ ParseAPIRoles(parts)["k"] = IF v \in Roles THEN v ELSE "operator"

(* Each usable entry of a key document can be found by its kid, unless a   *)
(* later usable one bears the same; nothing else can.                      *)
SomeKeys ==
    {[kid |-> k, kty |-> t, use |-> u, decodes |-> d, material |-> "m"] :
        k \in {"", "a"}, t \in {"RSA", "oct"}, u \in {"", "sig", "enc"}, d \in BOOLEAN}
ASSUME LaterKeyWins ==
    \A a \in SomeKeys, b \in SomeKeys :
        LET keys == ParseJWKS(<<a, [b EXCEPT !.material = "n"]>>)
        IN  \A kid \in {"", "a"} :
                kid \in DOMAIN keys <=>
                    \E x \in {a, b} : Usable(x) /\ x.kid = kid
                        /\ keys[kid].material = IF Usable(b) /\ b.kid = kid THEN "n" ELSE "m"
-----------------------------------------------------------------------------
MCRequests == 1..3
MCWorkloads == [rotation |-> Rotation, tokens |-> Tokens, limits |-> Limits, opened |-> Opened]
=============================================================================
