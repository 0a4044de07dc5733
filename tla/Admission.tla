------------------------------- MODULE Admission -------------------------------
(***************************************************************************)
(* What stands between the socket and a handler: the credential, checked   *)
(* against the configuration in force or by the identity provider's keys,  *)
(* the tenant's rate limit, its budget and the endpoint's role; with       *)
(* reloads of the configuration and rotations of the provider's keys going *)
(* on meanwhile (internal/gateway middleware.go, server.go, gateway.go,    *)
(* internal/oidc/jwks.go).                                                 *)
(*                                                                         *)
(* A configuration in force is named by its file: the environment of a     *)
(* process does not change.  Each reload makes a new verifier.  A Tick is  *)
(* a minute, and a request between two steps of the limiter takes no such  *)
(* time; a fetch is cut at ten seconds, before the refresh interval ends.  *)
(***************************************************************************)
EXTENDS Settings, Identity, TLC

CONSTANTS Requests,
          Workloads,              \* the environment, files, key documents and
                                  \* requests of each case
          MaxReloads, MaxTicks    \* bounds

ASSUME BoundAssumption == MaxReloads \in Nat /\ MaxTicks \in Nat

VARIABLES load,       \* the workload, chosen once
          inForce,    \* the file the configuration in force came from
          gen,        \* the verifier in force
          held,       \* verifier -> the provider's document it holds, 0: none
          recent,     \* verifier -> whether it refreshed within the interval
          published,  \* the provider's document
          buckets,    \* tenant -> its token bucket, where it has one
          req,        \* request -> where it stands
          ticks,      \* ticks since the configuration in force was loaded
          used        \* tenant -> requests let through since, under its limits

vars == <<load, inForce, gen, held, recent, published, buckets, req, ticks, used>>
oidcVars == <<held, recent, published>>
limitVars == <<buckets, ticks, used>>

Verifiers == 0..MaxReloads

(* Constant tables: a file's configuration, and what a document parses to. *)
Configurations ==
    [l \in DOMAIN Workloads |-> [f \in DOMAIN Workloads[l].files |->
        Effective(Workloads[l].files[f], Workloads[l].env)]]
Accepted ==
    [l \in DOMAIN Workloads |-> {f \in DOMAIN Workloads[l].files :
        Loads(Workloads[l].files[f], Workloads[l].env) /\ Builds(Configurations[l][f])}]
KeySets ==
    [l \in DOMAIN Workloads |-> [d \in 0..Len(Workloads[l].documents) |->
        ParseJWKS(IF d = 0 THEN <<>> ELSE Workloads[l].documents[d])]]

(* The limits of a configuration that was accepted are integers.           *)
ASSUME NumbersAssumption ==
    \A l \in DOMAIN Workloads : \A f \in Accepted[l] :
        LET c == Configurations[l][f]
        IN  /\ c.plain["rate_limit_per_min"] \in Int /\ c.plain["rate_limit_burst"] \in Int
            /\ \A t \in DOMAIN c.tenants :
                   c.tenants[t].perMin \in Int /\ c.tenants[t].burst \in Int

(* The provider publishes something from the start.                        *)
ASSUME DocumentsAssumption ==
    \A l \in DOMAIN Workloads : Len(Workloads[l].documents) \in Nat \ {0}

Case == Workloads[load]
Config(f) == Configurations[load][f]
Credentials(r) == Case.asks[r].credentials
Endpoint(r) == Case.asks[r].endpoint
Keys(v) == KeySets[load][held[v]]

(* Routes: the least role an endpoint needs, and the endpoints that spend. *)
Need == [chat |-> "caller", embeddings |-> "caller", models |-> "caller",
         stats |-> "operator", rules |-> "operator", metrics |-> "operator",
         dashboard |-> "operator", debug |-> "admin"]
Spending == {"chat", "embeddings"}
(* The route table and the limiter are those of the start.                 *)
Mounted(endpoint) ==
    /\ endpoint = "dashboard" => Config(1).plain["dashboard"]
    /\ endpoint = "debug" => Config(1).plain["debug"]
Limited == AnyLimit(Config(1))
Budgeted == AnyBudget(Config(1))

Waiting == {"new", "lookup", "refresh", "fetch", "install", "relookup", "limit", "take", "enter"}
Ended == {"not_found", "unauthorized", "limited", "over_budget", "forbidden", "served"}

Nobody == <<>>
Start == [phase |-> "new", file |-> 0, gen |-> 0, doc |-> 0, tenant |-> Nobody,
          role |-> DefaultRole, limits |-> [perMin |-> 0, burst |-> 0]]

Init ==
    /\ load \in DOMAIN Workloads
    /\ 1 \in Accepted[load]
    /\ inForce = 1 /\ gen = 0
    /\ held = [v \in Verifiers |-> 0]
    /\ recent = [v \in Verifiers |-> FALSE]
    /\ published = 1
    /\ buckets = <<>> /\ used = <<>> /\ ticks = 0
    /\ req = [r \in Requests |-> Start]

Go(r, phase) == req' = [req EXCEPT ![r].phase = phase]
TurnAway(r) == req' = [req EXCEPT ![r].phase = "unauthorized", ![r].gen = 0, ![r].doc = 0]
Admit(r, file, tenant, role) ==
    req' = [req EXCEPT ![r].phase = "limit", ![r].gen = 0, ![r].file = file,
                       ![r].tenant = tenant, ![r].role = role]
Set(f, x, y) == [z \in DOMAIN f \cup {x} |-> IF z = x THEN y ELSE f[z]]
-----------------------------------------------------------------------------
(* authenticate: the keys first, in every place a client may put one, then *)
(* the first credential that looks like a token.                           *)
Open(c) == DOMAIN c.keys = {} /\ ~OIDCEnabled(c) /\ c.plain["allow_anonymous"]
KeyAt(c, credentials) ==
    SelectInSeq(credentials, LAMBDA x : x[1] = "key" /\ x[2] \in DOMAIN c.keys)
TokenIn(credentials) ==
    LET at == SelectInSeq(credentials, LooksLikeJWT)
    IN  IF at = 0 THEN Refused ELSE credentials[at][2]

Authenticate(r, c, credentials) ==
    LET at == KeyAt(c, credentials)
        token == TokenIn(credentials)
    IN  IF Open(c) THEN Admit(r, inForce, Anonymous, "admin")
        ELSE IF at # 0
        THEN Admit(r, inForce, c.keys[credentials[at][2]], RoleFor(c, credentials[at][2]))
        ELSE IF OIDCEnabled(c) /\ token # Refused /\ Readable(token)
        THEN req' = [req EXCEPT ![r].phase = "lookup", ![r].gen = gen, ![r].file = inForce]
        ELSE TurnAway(r)

Begin(r) ==
    /\ r \in DOMAIN Case.asks /\ req[r].phase = "new"
    /\ IF Mounted(Endpoint(r)) THEN Authenticate(r, Config(inForce), Credentials(r))
       ELSE Go(r, "not_found")
    /\ UNCHANGED <<load, inForce, gen, oidcVars, limitVars>>

(* The claims' tenant carries the role.                                    *)
Verdict(r, key) ==
    LET name == Judge(TokenIn(Credentials(r)), key, Config(req[r].file).oidc)
        split == SplitTenantRole(name)
    IN  IF name = Refused THEN TurnAway(r) ELSE Admit(r, req[r].file, <<split.tenant>>, split.role)

Kid(r) == TokenIn(Credentials(r)).kid

(* keySet.lookup: the key held, or a refresh.                              *)
Lookup(r) ==
    /\ req[r].phase = "lookup"
    /\ LET keys == Keys(req[r].gen)
       IN  IF Kid(r) \in DOMAIN keys THEN Verdict(r, keys[Kid(r)]) ELSE Go(r, "refresh")
    /\ UNCHANGED <<load, inForce, gen, oidcVars, limitVars>>

(* A mutant: the attempt is noted when its answer has come.                *)
RefreshUnnoted(r) ==
    /\ req[r].phase = "refresh"
    /\ IF recent[req[r].gen] THEN TurnAway(r) ELSE Go(r, "fetch")
    /\ UNCHANGED <<load, inForce, gen, held, recent, published, limitVars>>

(* refresh: one attempt per interval, noted before it is made.             *)
Refresh(r) ==
    /\ req[r].phase = "refresh"
    /\ LET v == req[r].gen
       IN  IF recent[v]
           THEN TurnAway(r) /\ UNCHANGED recent
           ELSE Go(r, "fetch") /\ recent' = [recent EXCEPT ![v] = TRUE]
    /\ UNCHANGED <<load, inForce, gen, held, published, limitVars>>

(* The provider answers with what it publishes, or the fetch fails: the    *)
(* provider is down, or the client that waits for it has gone.             *)
Answered(r) ==
    /\ req[r].phase = "fetch"
    /\ req' = [req EXCEPT ![r].phase = "install", ![r].doc = published]
    /\ UNCHANGED <<load, inForce, gen, oidcVars, limitVars>>

FetchFails(r) ==
    /\ req[r].phase = "fetch"
    /\ TurnAway(r)
    /\ UNCHANGED <<load, inForce, gen, oidcVars, limitVars>>

(* A mutant: only a key set that holds nothing is replaced.                *)
InstallFirst(r) ==
    /\ req[r].phase = "install"
    /\ held' = [held EXCEPT ![req[r].gen] = IF @ = 0 THEN req[r].doc ELSE @]
    /\ req' = [req EXCEPT ![r].phase = "relookup", ![r].doc = 0]
    /\ UNCHANGED <<load, inForce, gen, recent, published, limitVars>>

(* A document with no usable key is not installed.                         *)
Install(r) ==
    /\ req[r].phase = "install"
    /\ IF DOMAIN KeySets[load][req[r].doc] = {}
       THEN TurnAway(r) /\ UNCHANGED held
       ELSE /\ req' = [req EXCEPT ![r].phase = "relookup", ![r].doc = 0]
            /\ held' = [held EXCEPT ![req[r].gen] = req[r].doc]
    /\ UNCHANGED <<load, inForce, gen, recent, published, limitVars>>

(* After a refresh a token that names no key may use the only one held.    *)
Relookup(r) ==
    /\ req[r].phase = "relookup"
    /\ LET keys == Keys(req[r].gen)
       IN  IF Kid(r) \in DOMAIN keys THEN Verdict(r, keys[Kid(r)])
           ELSE IF Kid(r) = "" /\ Cardinality(DOMAIN keys) = 1
           THEN Verdict(r, keys[CHOOSE kid \in DOMAIN keys : TRUE])
           ELSE TurnAway(r)
    /\ UNCHANGED <<load, inForce, gen, oidcVars, limitVars>>
-----------------------------------------------------------------------------
(* Allow: the limits in force are read first, the bucket is taken after.   *)
Allowance(f, t) ==
    LET l == RateLimitFor(Config(f), t)
    IN  [l EXCEPT !.burst = IF @ <= 0 THEN l.perMin ELSE @]

ReadLimits(r) ==
    /\ req[r].phase = "limit"
    /\ LET l == Allowance(inForce, req[r].tenant)
       IN  IF Limited /\ l.perMin > 0
           THEN req' = [req EXCEPT ![r].phase = "take", ![r].gen = gen, ![r].limits = l]
           ELSE Go(r, "enter")
    /\ UNCHANGED <<load, inForce, gen, oidcVars, limitVars>>

Least(a, b) == IF a < b THEN a ELSE b

(* A mutant: a bucket keeps the limits it was made with.                   *)
RefilledAsMade(b, l) ==
    [b EXCEPT !.tokens = Least(b.burst, b.tokens + b.idle * b.perMin), !.idle = 0]

(* The bucket with what its last use left, clamped to limits that changed, *)
(* and the time since, refilled at the rate of now.                        *)
Refilled(b, l) ==
    LET kept == IF b.perMin # l.perMin \/ b.burst # l.burst THEN Least(b.tokens, l.burst)
                ELSE b.tokens
    IN  [tokens |-> Least(l.burst, kept + b.idle * l.perMin), idle |-> 0,
         perMin |-> l.perMin, burst |-> l.burst]

(* A mutant: the last token is spent twice.                                *)
GrantsOneMore(b) == b.tokens >= 0

Grants(b) == b.tokens >= 1

Take(r) ==
    /\ req[r].phase = "take"
    /\ LET t == req[r].tenant
           l == req[r].limits
           fresh == [tokens |-> l.burst, idle |-> 0, perMin |-> l.perMin, burst |-> l.burst]
           b == Refilled(Get(buckets, t, fresh), l)
       IN  IF Grants(b)
           THEN /\ req' = [req EXCEPT ![r].phase = "enter", ![r].gen = 0]
                /\ buckets' = Set(buckets, t, [b EXCEPT !.tokens = @ - 1])
                /\ used' = IF req[r].gen = gen THEN Set(used, t, Get(used, t, 0) + 1) ELSE used
           ELSE /\ req' = [req EXCEPT ![r].phase = "limited", ![r].gen = 0]
                /\ buckets' = Set(buckets, t, b)
                /\ UNCHANGED used
    /\ UNCHANGED <<load, inForce, gen, oidcVars, ticks>>

(* The budget, which is the ledger's to judge, and the role.               *)
Enter(r) ==
    /\ req[r].phase = "enter"
    /\ \/ /\ Endpoint(r) \in Spending /\ Budgeted
          /\ BudgetFor(Config(inForce), req[r].tenant) > 0
          /\ Go(r, "over_budget")
       \/ Go(r, IF Allows(req[r].role, Need[Endpoint(r)]) THEN "served" ELSE "forbidden")
    /\ UNCHANGED <<load, inForce, gen, oidcVars, limitVars>>

(* A client that was turned away and does not give up.                     *)
Again(r) ==
    /\ r \in Case.persistent /\ req[r].phase = "unauthorized"
    /\ req' = [req EXCEPT ![r] = Start]
    /\ UNCHANGED <<load, inForce, gen, oidcVars, limitVars>>
-----------------------------------------------------------------------------
(* SIGHUP: a configuration that loads and builds is published whole, with  *)
(* a verifier that holds no key yet.  Any other leaves all as it was.      *)
Reload(f) ==
    /\ gen < MaxReloads /\ f \in Accepted[load]
    /\ inForce' = f /\ gen' = gen + 1
    /\ used' = <<>> /\ ticks' = 0
    /\ UNCHANGED <<load, oidcVars, buckets, req>>

Rotate ==
    /\ published < Len(Case.documents)
    /\ published' = published + 1
    /\ UNCHANGED <<load, inForce, gen, held, recent, limitVars, req>>

Elapse(v) ==
    /\ recent[v]
    /\ \A r \in Requests : req[r].phase \in {"fetch", "install"} => req[r].gen # v
    /\ recent' = [recent EXCEPT ![v] = FALSE]
    /\ UNCHANGED <<load, inForce, gen, held, published, limitVars, req>>

Tick ==
    /\ Limited /\ ticks < MaxTicks
    /\ \A r \in Requests : req[r].phase # "take"
    /\ ticks' = ticks + 1
    /\ buckets' = [t \in DOMAIN buckets |-> [buckets[t] EXCEPT !.idle = @ + 1]]
    /\ UNCHANGED <<load, inForce, gen, oidcVars, req, used>>

Handle(r) ==
    \/ Begin(r) \/ Lookup(r) \/ Refresh(r) \/ Install(r) \/ Relookup(r)
    \/ ReadLimits(r) \/ Take(r) \/ Enter(r) \/ Again(r)

Next ==
    \/ \E r \in Requests : Handle(r) \/ Answered(r) \/ FetchFails(r)
    \/ \E f \in DOMAIN Case.files : Reload(f)
    \/ \E v \in Verifiers : Elapse(v)
    \/ Rotate \/ Tick

Spec == Init /\ [][Next]_vars

(* Handlers run, time passes, and a provider asked again and again answers *)
(* at last.                                                                *)
FairSpec ==
    /\ Spec
    /\ \A r \in Requests : WF_vars(Handle(r))
    /\ SF_vars(\E r \in Requests : Answered(r))
    /\ WF_vars(\E v \in Verifiers : Elapse(v))
-----------------------------------------------------------------------------
(* Whatever order the replies of concurrent lookups come in, a verifier's  *)
(* keys are never replaced by a document the provider published before:    *)
(* a rotated key is not forgotten once seen (jwks.go refresh).             *)
KeysNeverRegress == [][\A v \in Verifiers : held'[v] >= held[v]]_vars

(* From a reload on, the requests that read the limits it brought are let  *)
(* through no faster than those limits say, though the tenant's bucket was *)
(* filled under others and requests that read the others still draw on it  *)
(* (middleware.go Allow).                                                  *)
BurstHonoured ==
    \A t \in DOMAIN used :
        LET l == Allowance(inForce, t) IN used[t] <= l.burst + ticks * l.perMin

(* After the last rotation, a client with a token the provider's keys bear *)
(* out gets in if it keeps trying, whoever else makes the gateway refresh  *)
(* (jwks.go lookup, lastAttempt).                                          *)
Welcome(r) ==
    LET keys == KeySets[load][Len(Case.documents)]
    IN  /\ Kid(r) \in DOMAIN keys
        /\ Judge(TokenIn(Credentials(r)), keys[Kid(r)], Config(1).oidc) # Refused

RotationHeals ==
    published = Len(Case.documents) ~>
        \A r \in Case.persistent : Welcome(r) => req[r].phase = "served"

(* The state is of its types; no bucket is overdrawn or overfilled, and    *)
(* what a verifier holds has been published.                               *)
TypeOK ==
    /\ load \in DOMAIN Workloads /\ inForce \in Accepted[load] /\ gen \in Verifiers
    /\ held \in [Verifiers -> 0..published] /\ recent \in [Verifiers -> BOOLEAN]
    /\ published \in 1..Len(Case.documents) /\ ticks \in 0..MaxTicks
    /\ \A r \in Requests : /\ req[r].phase \in Waiting \cup Ended
                           /\ req[r].gen \in 0..gen /\ req[r].doc \in 0..published
                           /\ req[r].role \in Roles
    /\ \A t \in DOMAIN buckets : buckets[t].tokens \in 0..buckets[t].burst
=============================================================================
