--------------------------- MODULE AdmissionProofs ---------------------------
(***************************************************************************)
(* What Admission guarantees for any configurations, provider documents,   *)
(* requests and number of reloads.  That keys never regress rests on one   *)
(* fact the code keeps nowhere: a verifier has at most one fetch under way *)
(* (KeyInv).  That a tightened limit is honoured rests on a sum: what was  *)
(* let through, and what the bucket can still give by now (LimitInv).      *)
(***************************************************************************)
EXTENDS Admission, WellFoundedInduction, TLAPS

-----------------------------------------------------------------------------
(* No role survives in the token map: its labels are single names.         *)
LEMMA LabelsAreNames ==
    ASSUME NEW parts, NEW g \in DOMAIN ParseAPIKeys(parts)
    PROVE  SplitTenantRole(ParseAPIKeys(parts)[g]).role = DefaultRole
<1> DEFINE name == SplitTenantRole(Tail(LastFor(parts, g))).tenant
<1>1. ParseAPIKeys(parts)[g] = Unlabelled \/ ParseAPIKeys(parts)[g] = <<name>>
  BY DEF ParseAPIKeys
<1> HIDE DEF name
<1>2. Len(<<name>>) = 1 /\ Len(Unlabelled) = 1
  BY DEF Unlabelled
<1>3. Len(ParseAPIKeys(parts)[g]) # 2
  BY <1>1, <1>2
<1> QED
  BY <1>3 DEF SplitTenantRole

(* The token map in force is one the parser made, or empty.                *)
LEMMA TokenMapParsed ==
    ASSUME NEW f, NEW env
    PROVE  LET map == Effective(f, env).oidc.map
           IN  map = <<>> \/ \E parts : map = ParseAPIKeys(parts)
<1> DEFINE c == ApplyFile(Defaults, f)
<1>1. "oidc" \in DOMAIN c /\ c.oidc.map = <<>>
  BY DEF ApplyFile, Defaults
<1> HIDE DEF c
<1>2. ApplyEnv(c, env).oidc.map = IF Written(env, "oidc_tenant_map")
                                  THEN ParseAPIKeys(env.oidc_tenant_map) ELSE c.oidc.map
  BY <1>1 DEF ApplyEnv
<1> QED
  BY <1>1, <1>2 DEF Effective, c

(* The least of a set of numbers is one of them.                           *)
LEMMA LeastIsMember ==
    ASSUME NEW T, T \subseteq Nat, T # {}
    PROVE  Min(T) \in T
<1>1. PICK j \in T : \A k \in T : ~ (<<k, j>> \in OpToRel(<, Nat))
  BY WFMin, NatLessThanWellFounded, Zenon
<1>2. \A k \in T : ~ (k < j)
  BY <1>1 DEF OpToRel
<1>3. \A k \in T : j <= k
  BY <1>2
<1> QED
  BY <1>3 DEF Min

(* A tenant is found only at a value the map has.                          *)
LEMMA TenantIsMapped ==
    ASSUME NEW token, NEW map, TenantOf(token, map) # Refused
    PROVE  \E g \in DOMAIN map : TenantOf(token, map) = map[g]
<1> DEFINE at == SelectInSeq(token.groups, LAMBDA g : g \in DOMAIN map)
           I == {i \in 1..Len(token.groups) : token.groups[i] \in DOMAIN map}
<1>1. at = IF I # {} THEN Min(I) ELSE 0
  BY DEF SelectInSeq
<1>2. TenantOf(token, map) = IF at = 0 THEN Refused ELSE map[token.groups[at]]
  BY DEF TenantOf
<1> HIDE DEF at
<1>3. at # 0
  BY <1>2
<1>4. I \subseteq Nat /\ I # {}
  BY <1>1, <1>3
<1>5. at \in I
  BY <1>1, <1>4, LeastIsMember
<1> QED
  BY <1>2, <1>3, <1>5

(* Whatever the environment writes beside a tenant in its token map, a     *)
(* token's claims give the default role (config.go applyEnv, line 629).    *)
THEOREM TokenRoleIsDefault ==
    ASSUME NEW f, NEW env, NEW token,
           Claims(token, Effective(f, env).oidc) # Refused
    PROVE  SplitTenantRole(Claims(token, Effective(f, env).oidc)).role = DefaultRole
<1> DEFINE map == Effective(f, env).oidc.map
           name == TenantOf(token, map)
<1>1. Claims(token, Effective(f, env).oidc) = name /\ name # Refused
  BY DEF Claims
<1> HIDE DEF map
<1>2. PICK g \in DOMAIN map : name = map[g]
  BY <1>1, TenantIsMapped
<1> HIDE DEF name
<1>3. map # <<>>
  BY <1>2
<1>4. PICK parts : map = ParseAPIKeys(parts)
  BY <1>3, TokenMapParsed DEF map
<1> QED
  BY <1>1, <1>2, <1>4, LabelsAreNames

(* A reload that keeps the answer cache keeps what every tenant's text is  *)
(* masked by, so what an entry's key says of a masked text stays true      *)
(* (gateway.go Reload, rulesChanged, config.go RedactionFor).              *)
THEOREM KeptCacheKeepsRules ==
    ASSUME NEW a, NEW b, ~ RulesChanged(a, b), NEW t
    PROVE  RedactionFor(a, t) = RedactionFor(b, t)
<1>1. /\ \A n \in Detection : a.plain[n] = b.plain[n]
      /\ DOMAIN a.tenants = DOMAIN b.tenants
      /\ \A u \in DOMAIN a.tenants : a.tenants[u].detection = b.tenants[u].detection
  BY DEF RulesChanged
<1>2. Has(a.tenants, t) <=> Has(b.tenants, t)
  BY <1>1 DEF Has
<1>3. Has(a.tenants, t) => Tenant(a, t).detection = Tenant(b, t).detection
  BY <1>1 DEF Has, Tenant
<1> QED
  BY <1>1, <1>2, <1>3 DEF RedactionFor

(* Every threshold written in a document is one.                           *)
Legible(doc) ==
    Has(doc, "cloud_max_sensitivity") =>
        doc["cloud_max_sensitivity"] \in Sensitivity \cup {Empty, Malformed}

LEMMA CeilingIsRank ==
    ASSUME NEW doc, Legible(doc), ~ PolicyFails(doc), NEW base, base.cloudMax \in Sensitivity
    PROVE  ReadPolicy(doc, base).cloudMax \in Sensitivity
<1>1. Has(doc, "cloud_max_sensitivity") => doc["cloud_max_sensitivity"] # Malformed
  BY DEF PolicyFails, Thresholds
<1>2. DefaultPolicy.cloudMax \in Sensitivity
  BY DEF DefaultPolicy, Sensitivity, Low, Restricted
<1>3. ReadPolicy(doc, base).cloudMax
        = Threshold(doc, "cloud_max_sensitivity", base.cloudMax, DefaultPolicy.cloudMax)
  BY DEF ReadPolicy
<1> QED
  BY <1>1, <1>2, <1>3 DEF Threshold, Legible

(* What an accepted configuration lets out to the cloud for a tenant is no *)
(* more than for everyone, though the tenant's limit comes from the file   *)
(* and the common one may come from the environment after it (config.go    *)
(* Validate, policy.go Evaluate).                                          *)
THEOREM TenantsStayUnderTheCeiling ==
    ASSUME NEW f, NEW env, Loads(f, env), Legible(env),
           Has(f, "policy") => Legible(f.policy),
           Has(f, "tenants") => \A u \in DOMAIN f.tenants :
               Has(f.tenants[u], "policy") => Legible(f.tenants[u].policy),
           NEW t, NEW max \in Sensitivity,
           Evaluate(PolicyFor(Effective(f, env), t), max) = "allow"
    PROVE  max <= Effective(f, env).policy.cloudMax
<1>1. PICK c, e : c = ApplyFile(Defaults, f) /\ e = Effective(f, env) /\ e = ApplyEnv(c, env)
  BY DEF Effective
<1>2. ~ FileFails(f) /\ ~ EnvFails(env) /\ Validate(e)
  BY <1>1 DEF Loads
<1>3. PICK p : /\ p = (IF Has(f, "policy") THEN ReadPolicy(f.policy, DefaultPolicy) ELSE DefaultPolicy)
               /\ c.policy = p
               /\ c.tenants = IF Has(f, "tenants")
                              THEN [u \in DOMAIN f.tenants |-> FileTenant(f.tenants[u], p)]
                              ELSE <<>>
  BY <1>1 DEF ApplyFile, Defaults
<1>4. p.cloudMax \in Sensitivity
  <2>1. DefaultPolicy.cloudMax \in Sensitivity
    BY DEF DefaultPolicy, Sensitivity, Low, Restricted
  <2>2. ASSUME Has(f, "policy") PROVE ReadPolicy(f.policy, DefaultPolicy).cloudMax \in Sensitivity
    <3>1. ~ PolicyFails(f.policy)
      BY <1>2, <2>2 DEF FileFails
    <3> QED
      BY <2>1, <2>2, <3>1, CeilingIsRank
  <2> QED
    BY <1>3, <2>1, <2>2
<1>5. e.policy = ReadPolicy(env, p) /\ e.tenants = c.tenants
  <2>1. "policy" \in DOMAIN c /\ "tenants" \in DOMAIN c
    BY <1>1 DEF ApplyFile, Defaults
  <2> QED
    BY <1>1, <1>3, <2>1 DEF ApplyEnv
<1>6. e.policy.cloudMax \in Sensitivity
  <2>1. ~ PolicyFails(env)
    BY <1>2 DEF EnvFails
  <2> QED
    BY <1>4, <1>5, <2>1, CeilingIsRank
<1>7. PICK q : q = PolicyFor(e, t)
  OBVIOUS
<1>8. q.cloudMax \in Sensitivity /\ q.cloudMax <= e.policy.cloudMax
  <2>1. CASE Has(e.tenants, t) /\ Tenant(e, t).policy # Empty
    <3>1. q = e.tenants[t].policy /\ q # Empty /\ t \in DOMAIN e.tenants
      BY <1>7, <2>1 DEF PolicyFor, Tenant, Has
    <3>2. q.cloudMax <= e.policy.cloudMax
      BY <1>2, <3>1 DEF Validate
    <3>3. Has(f, "tenants") /\ t \in DOMAIN f.tenants
      BY <1>3, <1>5, <3>1
    <3>4. e.tenants[t] = FileTenant(f.tenants[t], p)
      BY <1>3, <1>5, <3>3
    <3>5. Has(f.tenants[t], "policy") /\ q = ReadPolicy(f.tenants[t].policy, p)
      BY <3>1, <3>4 DEF FileTenant
    <3>6. Legible(f.tenants[t].policy) /\ ~ PolicyFails(f.tenants[t].policy)
      BY <1>2, <3>3, <3>5 DEF FileFails
    <3>7. q.cloudMax \in Sensitivity
      BY <1>4, <3>5, <3>6, CeilingIsRank
    <3> QED
      BY <3>2, <3>7
  <2>2. CASE ~ (Has(e.tenants, t) /\ Tenant(e, t).policy # Empty)
    <3>1. q = e.policy
      BY <1>7, <2>2 DEF PolicyFor
    <3>2. q.cloudMax <= q.cloudMax
      BY <1>6, <3>1 DEF Sensitivity, Low, Restricted
    <3> QED
      BY <1>6, <3>1, <3>2
  <2> QED
    BY <2>1, <2>2
<1>9. ~ (max > q.cloudMax)
  BY <1>1, <1>7 DEF Evaluate
<1> QED
  BY <1>1, <1>6, <1>8, <1>9 DEF Sensitivity, Low, Restricted

-----------------------------------------------------------------------------
(***************************************************************************)
(* What a step does to the requests and to the key sets.                   *)
(***************************************************************************)
Fields == DOMAIN Start
Shaped == DOMAIN req = Requests /\ \A r \in Requests : DOMAIN req[r] = Fields

Fetching == {"fetch", "install"}
Looking == Fetching \cup {"lookup", "refresh", "relookup"}

(* A verifier exists, and holds a document that has been published.  One   *)
(* request at most fetches for it, and holds an answer that is no older    *)
(* than what the verifier holds.                                           *)
KeyInv ==
    /\ Shaped
    /\ gen \in Verifiers /\ published \in Nat
    /\ DOMAIN recent = Verifiers /\ held \in [Verifiers -> Nat]
    /\ \A v \in Verifiers : held[v] <= published
    /\ \A r \in Requests : req[r].phase \in Looking => req[r].gen \in Verifiers
    /\ \A r \in Requests : req[r].phase \in Fetching => recent[req[r].gen]
    /\ \A r, q \in Requests :
          req[r].phase \in Fetching /\ req[q].phase \in Fetching
              /\ req[r].gen = req[q].gen => r = q
    /\ \A r \in Requests : req[r].phase = "install" =>
          /\ req[r].doc \in Nat /\ req[r].doc <= published
          /\ held[req[r].gen] <= req[r].doc

(* One request moves on, to neither a fetch nor a bucket.                  *)
Moves(r) ==
    /\ Shaped'
    /\ \A q \in Requests \ {r} : req'[q] = req[q]
    /\ req'[r].phase \notin Fetching \cup {"take"}
    /\ req'[r].phase \in Looking => req'[r].gen \in Verifiers

LEMMA GoMoves ==
    ASSUME NEW r \in Requests, NEW phase, KeyInv, Go(r, phase),
           phase \notin Fetching \cup {"take"},
           phase \in Looking => req[r].phase \in Looking
    PROVE  Moves(r)
  BY DEF KeyInv, Shaped, Go, Moves

LEMMA TurnAwayMoves ==
    ASSUME NEW r \in Requests, KeyInv, TurnAway(r)
    PROVE  Moves(r)
<1>1. Shaped'
  BY DEF KeyInv, Shaped, TurnAway
<1>2. req'[r].phase = "unauthorized"
  BY DEF KeyInv, Shaped, TurnAway, Fields, Start
<1>3. \A q \in Requests \ {r} : req'[q] = req[q]
  BY DEF KeyInv, Shaped, TurnAway
<1> QED
  BY <1>1, <1>2, <1>3 DEF Moves, Fetching, Looking

LEMMA AdmitMoves ==
    ASSUME NEW r \in Requests, NEW file, NEW tenant, NEW role, KeyInv,
           Admit(r, file, tenant, role)
    PROVE  Moves(r)
<1>1. Shaped'
  BY DEF KeyInv, Shaped, Admit
<1>2. req'[r].phase = "limit"
  BY DEF KeyInv, Shaped, Admit, Fields, Start
<1>3. \A q \in Requests \ {r} : req'[q] = req[q]
  BY DEF KeyInv, Shaped, Admit
<1> QED
  BY <1>1, <1>2, <1>3 DEF Moves, Fetching, Looking

LEMMA VerdictMoves ==
    ASSUME NEW r \in Requests, NEW key, KeyInv, Verdict(r, key)
    PROVE  Moves(r)
  BY TurnAwayMoves, AdmitMoves DEF Verdict

LEMMA AuthenticateMoves ==
    ASSUME NEW r \in Requests, NEW c, NEW credentials, KeyInv, Authenticate(r, c, credentials)
    PROVE  Moves(r)
<1> DEFINE looks == [req EXCEPT ![r].phase = "lookup", ![r].gen = gen, ![r].file = inForce]
<1>1. ASSUME req' = looks
      PROVE  Moves(r)
  <2>1. Shaped'
    BY <1>1 DEF KeyInv, Shaped
  <2>2. req'[r].phase = "lookup" /\ req'[r].gen = gen
    BY <1>1 DEF KeyInv, Shaped, Fields, Start
  <2>3. \A q \in Requests \ {r} : req'[q] = req[q]
    BY <1>1 DEF KeyInv, Shaped
  <2> QED
    BY <2>1, <2>2, <2>3 DEF Moves, Fetching, Looking, KeyInv
<1>2. \/ \E file, tenant, role : Admit(r, file, tenant, role)
      \/ TurnAway(r)
      \/ req' = looks
  BY DEF Authenticate
<1> QED
  BY <1>1, <1>2, TurnAwayMoves, AdmitMoves

LEMMA BeginMoves ==
    ASSUME NEW r \in Requests, KeyInv, Begin(r)
    PROVE  Moves(r) /\ UNCHANGED <<gen, held, recent, published>>
<1>1. CASE Mounted(Endpoint(r))
  BY <1>1, AuthenticateMoves DEF Begin, oidcVars
<1>2. CASE ~Mounted(Endpoint(r))
  BY <1>2, GoMoves DEF Begin, oidcVars, Fetching, Looking
<1> QED
  BY <1>1, <1>2

LEMMA LookupMoves ==
    ASSUME NEW r \in Requests, KeyInv, Lookup(r)
    PROVE  Moves(r) /\ UNCHANGED <<gen, held, recent, published>>
<1>1. (\E key : Verdict(r, key)) \/ Go(r, "refresh")
  BY DEF Lookup
<1>2. req[r].phase \in Looking
  BY DEF Lookup, Looking
<1> QED
  BY <1>1, <1>2, VerdictMoves, GoMoves DEF Lookup, oidcVars, Fetching

LEMMA RelookupMoves ==
    ASSUME NEW r \in Requests, KeyInv, Relookup(r)
    PROVE  Moves(r) /\ UNCHANGED <<gen, held, recent, published>>
<1>1. (\E key : Verdict(r, key)) \/ TurnAway(r)
  BY DEF Relookup
<1> QED
  BY <1>1, VerdictMoves, TurnAwayMoves DEF Relookup, oidcVars

(* One request comes before its tenant's bucket with the limits in force.  *)
Readies(r) ==
    /\ Shaped'
    /\ \A q \in Requests \ {r} : req'[q] = req[q]
    /\ req'[r].phase = "take" /\ req'[r].gen = gen /\ req'[r].tenant = req[r].tenant
    /\ req'[r].limits = Allowance(inForce, req[r].tenant)
    /\ Allowance(inForce, req[r].tenant).perMin > 0

LEMMA ReadLimitsMoves ==
    ASSUME NEW r \in Requests, KeyInv, ReadLimits(r)
    PROVE  (Moves(r) \/ Readies(r)) /\ UNCHANGED <<gen, held, recent, published>>
<1> DEFINE l == Allowance(inForce, req[r].tenant)
<1>1. ASSUME req' = [req EXCEPT ![r].phase = "take", ![r].gen = gen, ![r].limits = l],
             l.perMin > 0
      PROVE  Readies(r)
  <2> HIDE DEF l
  <2>1. Shaped' /\ \A q \in Requests \ {r} : req'[q] = req[q]
    BY <1>1 DEF KeyInv, Shaped
  <2>2. /\ req'[r].phase = "take" /\ req'[r].gen = gen /\ req'[r].limits = l
        /\ req'[r].tenant = req[r].tenant
    BY <1>1 DEF KeyInv, Shaped, Fields, Start
  <2> QED
    BY <1>1, <2>1, <2>2 DEF Readies, l
<1> QED
  BY <1>1, GoMoves DEF ReadLimits, oidcVars, Fetching, Looking

LEMMA LimitMoves ==
    ASSUME NEW r \in Requests, KeyInv, Take(r) \/ Enter(r) \/ Again(r)
    PROVE  Moves(r) /\ UNCHANGED <<gen, held, recent, published>>
<1>1. CASE Take(r)
  <2> PICK phase \in {"enter", "limited"} :
          req' = [req EXCEPT ![r].phase = phase, ![r].gen = 0]
    BY <1>1 DEF Take
  <2>1. Shaped' /\ \A q \in Requests \ {r} : req'[q] = req[q]
    BY DEF KeyInv, Shaped
  <2>2. req'[r].phase = phase
    BY DEF KeyInv, Shaped, Fields, Start
  <2> QED
    BY <1>1, <2>1, <2>2 DEF Take, Moves, Fetching, Looking, oidcVars
<1>2. CASE Enter(r)
  BY <1>2, GoMoves DEF Enter, oidcVars, Fetching, Looking
<1>3. CASE Again(r)
  <2>1. Shaped' /\ \A q \in Requests \ {r} : req'[q] = req[q]
    BY <1>3 DEF KeyInv, Shaped, Again, Fields
  <2>2. req'[r].phase = "new"
    BY <1>3 DEF KeyInv, Shaped, Again, Start
  <2> QED
    BY <1>3, <2>1, <2>2 DEF Again, Moves, Fetching, Looking, oidcVars
<1> QED
  BY <1>1, <1>2, <1>3

(* A move that leaves the key sets alone keeps the invariant.              *)
LEMMA MovesKeep ==
    ASSUME NEW r \in Requests, KeyInv, Moves(r) \/ Readies(r),
           UNCHANGED <<gen, held, recent, published>>
    PROVE  KeyInv'
  BY DEF KeyInv, Moves, Readies, Fetching, Looking
-----------------------------------------------------------------------------
(***************************************************************************)
(* The steps of the key set.                                               *)
(***************************************************************************)
(* A refresh notes its attempt before it fetches, so no other begins.      *)
LEMMA RefreshKeeps ==
    ASSUME NEW r \in Requests, KeyInv, Refresh(r)
    PROVE  KeyInv' /\ held' = held
<1>1. CASE recent[req[r].gen]
  BY <1>1, TurnAwayMoves, MovesKeep DEF Refresh
<1>2. CASE ~recent[req[r].gen]
  <2> DEFINE v == req[r].gen
  <2>1. /\ v \in Verifiers /\ Go(r, "fetch") /\ recent' = [recent EXCEPT ![v] = TRUE]
        /\ UNCHANGED <<gen, held, published>>
    BY <1>2 DEF Refresh, KeyInv, Looking
  <2>2. Shaped' /\ \A q \in Requests \ {r} : req'[q] = req[q]
    BY <2>1 DEF KeyInv, Shaped, Go
  <2>3. req'[r].phase = "fetch" /\ req'[r].gen = v
    BY <2>1 DEF KeyInv, Shaped, Go, Fields, Start
  <2>4. \A q \in Requests : req[q].phase \in Fetching => req[q].gen # v
    BY <1>2 DEF KeyInv
  <2>5. DOMAIN recent' = Verifiers /\ recent'[v] /\ \A w \in Verifiers : recent[w] => recent'[w]
    BY <2>1 DEF KeyInv
  <2>6. \A q \in Requests : req'[q].phase \in Looking => req'[q].gen \in Verifiers
    BY <2>1, <2>2, <2>3 DEF KeyInv
  <2>7. \A q \in Requests : req'[q].phase \in Fetching => recent'[req'[q].gen]
    BY <2>2, <2>3, <2>5 DEF KeyInv, Fetching, Looking
  <2>8. \A p, q \in Requests :
           req'[p].phase \in Fetching /\ req'[q].phase \in Fetching
               /\ req'[p].gen = req'[q].gen => p = q
    BY <2>2, <2>3, <2>4 DEF KeyInv
  <2>9. \A q \in Requests : req'[q].phase = "install" =>
           req'[q].doc \in Nat /\ req'[q].doc <= published /\ held[req'[q].gen] <= req'[q].doc
    BY <2>2, <2>3 DEF KeyInv
  <2> QED
    BY <2>1, <2>2, <2>5, <2>6, <2>7, <2>8, <2>9 DEF KeyInv
<1> QED
  BY <1>1, <1>2

(* The answer is what the provider publishes at that moment.               *)
LEMMA AnsweredKeeps ==
    ASSUME NEW r \in Requests, KeyInv, Answered(r)
    PROVE  KeyInv' /\ held' = held
<1>1. req[r].phase \in Fetching /\ req[r].gen \in Verifiers
  BY DEF Answered, KeyInv, Fetching, Looking
<1>2. Shaped' /\ \A q \in Requests \ {r} : req'[q] = req[q]
  BY DEF KeyInv, Shaped, Answered
<1>3. req'[r].phase = "install" /\ req'[r].gen = req[r].gen /\ req'[r].doc = published
  BY DEF KeyInv, Shaped, Answered, Fields, Start
<1>4. UNCHANGED <<gen, held, recent, published>>
  BY DEF Answered, oidcVars
<1>5. \A q \in Requests : req'[q].phase \in Fetching =>
          req[q].phase \in Fetching /\ req'[q].gen = req[q].gen
  BY <1>1, <1>2, <1>3
<1>6. \A q \in Requests : req'[q].phase \in Looking => req'[q].gen \in Verifiers
  BY <1>1, <1>2, <1>3 DEF KeyInv
<1>7. \A q \in Requests : req'[q].phase = "install" =>
         req'[q].doc \in Nat /\ req'[q].doc <= published /\ held[req'[q].gen] <= req'[q].doc
  BY <1>1, <1>2, <1>3 DEF KeyInv
<1> QED
  BY <1>2, <1>4, <1>5, <1>6, <1>7 DEF KeyInv

(* What is installed is no older than what it replaces.                    *)
LEMMA InstallKeeps ==
    ASSUME NEW r \in Requests, KeyInv, Install(r)
    PROVE  KeyInv' /\ \A v \in Verifiers : held'[v] >= held[v]
<1>1. CASE TurnAway(r) /\ UNCHANGED held
  <2>1. KeyInv'
    BY <1>1, TurnAwayMoves, MovesKeep DEF Install
  <2> QED
    BY <1>1, <2>1 DEF KeyInv
<1>2. CASE /\ req' = [req EXCEPT ![r].phase = "relookup", ![r].doc = 0]
           /\ held' = [held EXCEPT ![req[r].gen] = req[r].doc]
  <2> DEFINE v == req[r].gen
  <2>1. /\ req[r].phase \in Fetching /\ v \in Verifiers /\ req[r].doc \in Nat
        /\ req[r].doc <= published /\ held[v] <= req[r].doc
        /\ UNCHANGED <<gen, recent, published>>
    BY DEF Install, KeyInv, Fetching, Looking
  <2>2. Shaped' /\ \A q \in Requests \ {r} : req'[q] = req[q]
    BY <1>2 DEF KeyInv, Shaped
  <2>3. req'[r].phase = "relookup" /\ req'[r].gen = v
    BY <1>2 DEF KeyInv, Shaped, Fields, Start
  <2>4. /\ held' \in [Verifiers -> Nat] /\ held'[v] = req[r].doc
        /\ \A w \in Verifiers \ {v} : held'[w] = held[w]
    BY <1>2, <2>1 DEF KeyInv
  <2>5. \A w \in Verifiers : held'[w] >= held[w] /\ held'[w] <= published
    BY <2>1, <2>4 DEF KeyInv
  <2>6. \A q \in Requests : req'[q].phase \in Fetching => q # r /\ req[q].gen # v
    BY <2>1, <2>2, <2>3 DEF KeyInv, Fetching
  <2>7. \A q \in Requests : req'[q].phase = "install" =>
           req'[q].doc \in Nat /\ req'[q].doc <= published /\ held'[req'[q].gen] <= req'[q].doc
    BY <2>2, <2>4, <2>6 DEF KeyInv, Fetching, Looking
  <2>8. \A q \in Requests : req'[q].phase \in Looking => req'[q].gen \in Verifiers
    BY <2>1, <2>2, <2>3 DEF KeyInv
  <2> QED
    BY <2>1, <2>2, <2>4, <2>5, <2>6, <2>7, <2>8 DEF KeyInv
<1> QED
  BY <1>1, <1>2 DEF Install

(* The steps that move no request.                                         *)
LEMMA ReloadKeeps ==
    ASSUME NEW f, KeyInv, Reload(f)
    PROVE  KeyInv' /\ held' = held
<1>1. gen' \in Verifiers
  BY BoundAssumption DEF Reload, KeyInv, Verifiers
<1> QED
  BY <1>1 DEF Reload, KeyInv, Shaped, oidcVars

LEMMA RotateKeeps ==
    ASSUME KeyInv, Rotate
    PROVE  KeyInv' /\ held' = held
<1>1. published' \in Nat /\ published' >= published /\ UNCHANGED <<gen, held, recent, req>>
  BY DEF Rotate, KeyInv
<1>2. \A v \in Verifiers : held[v] <= published'
  BY <1>1 DEF KeyInv
<1>3. \A r \in Requests : req[r].phase = "install" => req[r].doc <= published'
  BY <1>1 DEF KeyInv
<1> QED
  BY <1>1, <1>2, <1>3 DEF KeyInv, Shaped

LEMMA ElapseKeeps ==
    ASSUME NEW v, KeyInv, Elapse(v)
    PROVE  KeyInv' /\ held' = held
<1>1. \A r \in Requests : req[r].phase \in Fetching => recent'[req[r].gen]
  BY DEF Elapse, KeyInv, Fetching, Looking
<1> QED
  BY <1>1 DEF Elapse, KeyInv, Shaped

-----------------------------------------------------------------------------
LEMMA KeyInit == Init => KeyInv
<1> SUFFICES ASSUME Init PROVE KeyInv
  OBVIOUS
<1>1. Shaped /\ \A r \in Requests : req[r].phase = "new"
  BY DEF Init, Shaped, Fields, Start
<1> QED
  BY <1>1, BoundAssumption DEF Init, KeyInv, Fetching, Looking, Verifiers

LEMMA KeyStep ==
    ASSUME KeyInv, [Next]_vars
    PROVE  KeyInv' /\ \A v \in Verifiers : held'[v] >= held[v]
<1>0. \A v \in Verifiers : held[v] >= held[v]
  BY DEF KeyInv
<1>1. ASSUME NEW r \in Requests, Handle(r) PROVE KeyInv' /\ \A v \in Verifiers : held'[v] >= held[v]
  BY <1>0, <1>1, BeginMoves, LookupMoves, RelookupMoves, ReadLimitsMoves, LimitMoves, MovesKeep,
     RefreshKeeps, InstallKeeps DEF Handle
<1>2. ASSUME NEW r \in Requests, Answered(r) PROVE KeyInv' /\ held' = held
  BY <1>2, AnsweredKeeps
<1>3. ASSUME NEW r \in Requests, FetchFails(r) PROVE KeyInv' /\ held' = held
  BY <1>3, TurnAwayMoves, MovesKeep DEF FetchFails, oidcVars
<1>4. CASE Tick
  BY <1>4 DEF Tick, KeyInv, Shaped, oidcVars
<1>5. CASE UNCHANGED vars
  BY <1>5 DEF vars, KeyInv, Shaped
<1>6. CASE Next
  BY <1>0, <1>1, <1>2, <1>3, <1>4, <1>6, ReloadKeeps, ElapseKeeps, RotateKeeps DEF Next, Tick, oidcVars
<1> QED
  BY <1>0, <1>5, <1>6 DEF vars

LEMMA KeyInvariant == Spec => []KeyInv
<1>1. KeyInv /\ [Next]_vars => KeyInv'
  BY KeyStep
<1> QED
  BY <1>1, KeyInit, PTL DEF Spec

(* A verifier's keys never go back to a document published before, for any *)
(* number of requests, reloads and rotations (jwks.go refresh).            *)
THEOREM KeysOnlyAdvance == Spec => KeysNeverRegress
<1>1. KeyInv /\ [Next]_vars => [\A v \in Verifiers : held'[v] >= held[v]]_vars
  BY KeyStep
<1> QED
  BY <1>1, KeyInvariant, PTL DEF Spec, KeysNeverRegress
-----------------------------------------------------------------------------
(***************************************************************************)
(* The rate limit.                                                         *)
(***************************************************************************)
Bucket == [tokens : Nat, idle : Nat, perMin : Nat, burst : Nat]
Filled(b) == b \in Bucket /\ b.tokens <= b.burst
Sound(l) == l.perMin \in Nat \ {0} /\ l.burst \in Nat \ {0}

(* What a bucket would give by now under limits l.                         *)
Available(b, l) == Least(l.burst, Least(b.tokens, l.burst) + b.idle * l.perMin)

(* A request before its bucket holds limits it read; if a reload has       *)
(* replaced them since, no tick has passed since that reload.              *)
Holds(r) ==
    /\ req[r].gen \in Nat /\ req[r].gen <= gen /\ Sound(req[r].limits)
    /\ req[r].gen = gen => req[r].limits = Allowance(inForce, req[r].tenant)
    /\ req[r].gen # gen => ticks = 0

(* What was let through under the limits in force, and what the bucket can *)
(* still give under them, is no more than they allow.                      *)
Spent(t) ==
    /\ t \in DOMAIN buckets /\ buckets[t].idle <= ticks
    /\ used[t] \in Nat /\ Sound(Allowance(inForce, t))
    /\ LET l == Allowance(inForce, t)
       IN  used[t] + Available(buckets[t], l) <= l.burst + ticks * l.perMin

LimitInv ==
    /\ load \in DOMAIN Workloads /\ inForce \in Accepted[load] /\ ticks \in Nat
    /\ \A r \in Requests : req[r].phase = "take" => Holds(r)
    /\ \A t \in DOMAIN buckets : Filled(buckets[t])
    /\ \A t \in DOMAIN used : Spent(t)

(* Two facts of arithmetic, stated once for the solver.                    *)
LEMMA ProductIsNat == \A m, n \in Nat : m * n \in Nat
  OBVIOUS

LEMMA OneMore == \A m, n \in Nat : (m + 1) * n = m * n + n
  OBVIOUS

(* A tenant with a limit has a whole one.                                  *)
LEMMA AllowanceSound ==
    ASSUME load \in DOMAIN Workloads, inForce \in Accepted[load], NEW t,
           Allowance(inForce, t).perMin > 0
    PROVE  Sound(Allowance(inForce, t))
<1> DEFINE c == Config(inForce)
           l == RateLimitFor(c, t)
<1>1. /\ c.plain["rate_limit_per_min"] \in Int /\ c.plain["rate_limit_burst"] \in Int
      /\ \A s \in DOMAIN c.tenants : c.tenants[s].perMin \in Int /\ c.tenants[s].burst \in Int
  BY NumbersAssumption DEF Config
<1> HIDE DEF c
<1>2. l.perMin \in Int /\ l.burst \in Int /\ DOMAIN l = {"perMin", "burst"}
  BY <1>1 DEF RateLimitFor, Inherit, Has, Tenant
<1>3. Allowance(inForce, t) = [l EXCEPT !.burst = IF @ <= 0 THEN l.perMin ELSE @]
  BY DEF Allowance, c
<1> HIDE DEF l
<1>4. /\ Allowance(inForce, t).perMin = l.perMin
      /\ Allowance(inForce, t).burst = IF l.burst <= 0 THEN l.perMin ELSE l.burst
  BY <1>2, <1>3
<1> QED
  BY <1>2, <1>4 DEF Sound

(* A refilled bucket holds what was available in it.                       *)
LEMMA RefilledIs ==
    ASSUME NEW b, Filled(b), NEW l, Sound(l)
    PROVE  /\ Filled(Refilled(b, l))
           /\ Refilled(b, l).tokens = Available(b, l)
           /\ Refilled(b, l).idle = 0 /\ Refilled(b, l).burst = l.burst
<1>1. PICK k \in Nat : k = b.idle * l.perMin
  BY ProductIsNat DEF Filled, Bucket, Sound
<1>2. Refilled(b, l) = [tokens |-> Least(l.burst, Least(b.tokens, l.burst) + k), idle |-> 0,
                        perMin |-> l.perMin, burst |-> l.burst]
  BY <1>1 DEF Refilled, Least, Filled, Bucket
<1>3. Available(b, l) = Least(l.burst, Least(b.tokens, l.burst) + k)
  BY <1>1 DEF Available
<1>4. Least(b.tokens, l.burst) + k \in Nat
  BY <1>1 DEF Least, Filled, Bucket, Sound
<1>5. /\ Least(l.burst, Least(b.tokens, l.burst) + k) \in Nat
      /\ Least(l.burst, Least(b.tokens, l.burst) + k) <= l.burst
  BY <1>4 DEF Least, Sound
<1> QED
  BY <1>2, <1>3, <1>5 DEF Filled, Bucket, Sound

(* Once it is used, what is in it is what it can give.                     *)
LEMMA JustUsed ==
    ASSUME NEW b, Filled(b), b.idle = 0, NEW l, Sound(l)
    PROVE  /\ Available(b, l) = Least(b.tokens, l.burst)
           /\ Available(b, l) \in Nat /\ Available(b, l) <= l.burst
<1>1. b.idle * l.perMin = 0
  BY DEF Sound
<1> QED
  BY <1>1 DEF Available, Least, Sound, Filled, Bucket

(* A tick gives at most a tick's worth.                                    *)
LEMMA TickGives ==
    ASSUME NEW b, Filled(b), NEW l, Sound(l)
    PROVE  Available([b EXCEPT !.idle = @ + 1], l) <= Available(b, l) + l.perMin
<1>1. PICK k \in Nat : k = b.idle * l.perMin
  BY ProductIsNat DEF Filled, Bucket, Sound
<1>2. (b.idle + 1) * l.perMin = k + l.perMin
  BY <1>1, OneMore DEF Filled, Bucket, Sound
<1>3. /\ [b EXCEPT !.idle = @ + 1].tokens = b.tokens
      /\ [b EXCEPT !.idle = @ + 1].idle = b.idle + 1
  BY DEF Filled, Bucket
<1>4. /\ Available([b EXCEPT !.idle = @ + 1], l)
            = Least(l.burst, Least(b.tokens, l.burst) + (k + l.perMin))
      /\ Available(b, l) = Least(l.burst, Least(b.tokens, l.burst) + k)
  BY <1>1, <1>2, <1>3 DEF Available
<1> QED
  BY <1>1, <1>4 DEF Least, Filled, Bucket, Sound

(* A step that brings no request before its bucket.                        *)
Bystands ==
    /\ UNCHANGED <<load, inForce, gen, limitVars>>
    /\ \A q \in Requests : req'[q].phase = "take" => req'[q] = req[q]

LEMMA BystandersKeep ==
    ASSUME LimitInv, Bystands
    PROVE  LimitInv'
<1>1. \A q \in Requests : req'[q].phase = "take" => Holds(q)'
  BY DEF LimitInv, Bystands, Holds, limitVars, Allowance, Config
<1>2. \A t \in DOMAIN used : Spent(t)'
  BY DEF LimitInv, Bystands, Spent, limitVars, Allowance, Config
<1> QED
  BY <1>1, <1>2 DEF LimitInv, Bystands, limitVars

LEMMA MoversBystand ==
    ASSUME NEW r \in Requests, Moves(r), UNCHANGED <<load, inForce, gen, limitVars>>
    PROVE  Bystands
  BY DEF Moves, Bystands

LEMMA KeyStepsBystand ==
    ASSUME NEW r \in Requests, KeyInv, Refresh(r) \/ Answered(r) \/ FetchFails(r) \/ Install(r)
    PROVE  Bystands
<1>1. UNCHANGED <<load, inForce, gen, limitVars>>
  BY DEF Refresh, Answered, FetchFails, Install
<1>2. ASSUME NEW phase \in {"fetch", "install", "relookup"}, NEW doc,
             Go(r, phase) \/ req' = [req EXCEPT ![r].phase = phase, ![r].doc = doc]
      PROVE  \A q \in Requests : req'[q].phase = "take" => req'[q] = req[q]
  <2>1. \A q \in Requests \ {r} : req'[q] = req[q]
    BY <1>2 DEF KeyInv, Shaped, Go
  <2>2. req'[r].phase = phase
    BY <1>2 DEF KeyInv, Shaped, Go, Fields, Start
  <2> QED
    BY <2>1, <2>2
<1>3. \/ TurnAway(r) \/ Go(r, "fetch")
      \/ req' = [req EXCEPT ![r].phase = "install", ![r].doc = published]
      \/ req' = [req EXCEPT ![r].phase = "relookup", ![r].doc = 0]
  BY DEF Refresh, Answered, FetchFails, Install
<1>4. CASE TurnAway(r)
  BY <1>1, <1>4, TurnAwayMoves, MoversBystand
<1> QED
  BY <1>1, <1>2, <1>3, <1>4 DEF Bystands

LEMMA ReadLimitsKeeps ==
    ASSUME NEW r \in Requests, KeyInv, LimitInv, ReadLimits(r)
    PROVE  LimitInv'
<1>1. UNCHANGED <<load, inForce, gen, limitVars>> /\ (Moves(r) \/ Readies(r))
  BY ReadLimitsMoves DEF ReadLimits
<1>2. CASE Moves(r)
  BY <1>1, <1>2, MoversBystand, BystandersKeep
<1>3. CASE Readies(r)
  <2>1. gen \in Nat
    BY BoundAssumption DEF KeyInv, Verifiers
  <2>2. Sound(req'[r].limits)
    BY <1>3, AllowanceSound DEF Readies, LimitInv
  <2>3. Holds(r)'
    BY <1>1, <1>3, <2>1, <2>2 DEF Holds, Readies, Allowance, Config
  <2>4. \A q \in Requests \ {r} : req[q].phase = "take" => Holds(q)'
    BY <1>1, <1>3 DEF LimitInv, Readies, Holds, Allowance, Config, limitVars
  <2>5. \A t \in DOMAIN used : Spent(t)'
    BY <1>1 DEF LimitInv, Spent, limitVars, Allowance, Config
  <2> QED
    BY <1>1, <1>3, <2>3, <2>4, <2>5 DEF LimitInv, Readies, limitVars
<1> QED
  BY <1>1, <1>2, <1>3, Zenon

(* A request takes from its tenant's bucket, or is turned away by it.      *)
LEMMA TakeKeeps ==
    ASSUME NEW r \in Requests, KeyInv, LimitInv, Take(r)
    PROVE  LimitInv'
<1> DEFINE t == req[r].tenant
           l == req[r].limits
           fresh == [tokens |-> l.burst, idle |-> 0, perMin |-> l.perMin, burst |-> l.burst]
           old == Get(buckets, t, fresh)
           b == Refilled(old, l)
           a == IF Grants(b) THEN [b EXCEPT !.tokens = @ - 1] ELSE b
           now == Allowance(inForce, t)
<1>1. /\ Holds(r) /\ UNCHANGED <<load, inForce, gen, ticks>>
      /\ Moves(r) /\ buckets' = Set(buckets, t, a)
      /\ used' = IF Grants(b) /\ req[r].gen = gen THEN Set(used, t, Get(used, t, 0) + 1) ELSE used
  BY LimitMoves DEF LimitInv, Take
<1>2. Sound(l) /\ Filled(old) /\ (t \in DOMAIN buckets => old = buckets[t])
  BY <1>1 DEF Holds, LimitInv, Get, Has, Filled, Bucket, Sound
<1> HIDE DEF old
<1>3. Filled(b) /\ b.tokens = Available(old, l) /\ b.idle = 0 /\ b.burst = l.burst
  BY <1>2, RefilledIs
<1> HIDE DEF b, l, t
<1>4. /\ Filled(a) /\ a.idle = 0 /\ a.tokens <= b.tokens /\ a.burst = l.burst
      /\ Grants(b) => a.tokens = b.tokens - 1
      /\ ~Grants(b) => a.tokens = b.tokens
  BY <1>3 DEF Grants, Filled, Bucket
<1> HIDE DEF a
<1>5. /\ DOMAIN buckets' = DOMAIN buckets \cup {t} /\ buckets'[t] = a
      /\ \A s \in DOMAIN buckets \ {t} : buckets'[s] = buckets[s]
  BY <1>1 DEF Set
<1>6. \A s \in DOMAIN buckets' : Filled(buckets'[s])
  BY <1>4, <1>5 DEF LimitInv
<1>7. \A q \in Requests : req'[q].phase = "take" => Holds(q)'
  BY <1>1 DEF LimitInv, Moves, Holds, Allowance, Config
<1>8. ASSUME NEW s \in DOMAIN used', s # t
      PROVE  Spent(s)'
  <2>1. s \in DOMAIN used /\ used'[s] = used[s]
    BY <1>1, <1>8 DEF Set
  <2>2. Spent(s)
    BY <2>1 DEF LimitInv
  <2>3. s \in DOMAIN buckets' /\ buckets'[s] = buckets[s]
    BY <1>5, <1>8, <2>2 DEF Spent
  <2> QED
    BY <1>1, <2>1, <2>2, <2>3 DEF Spent, Allowance, Config
<1>9. ASSUME t \in DOMAIN used'
      PROVE  /\ used'[t] \in Nat /\ Sound(now)
             /\ used'[t] + Available(a, now) <= now.burst + ticks * now.perMin
  <2>0. ticks \in Nat /\ (t \in DOMAIN used => Spent(t))
    BY DEF LimitInv
  <2>1. CASE Grants(b) /\ req[r].gen = gen
    <3>1. l = now /\ DOMAIN used' = DOMAIN used \cup {t} /\ used'[t] = Get(used, t, 0) + 1
      BY <1>1, <2>1 DEF Holds, Set, l, t
    <3>2. Available(a, now) = Available(old, now) - 1
      BY <1>2, <1>3, <1>4, <2>1, <3>1, JustUsed DEF Least, Filled, Bucket, Sound
    <3>3. CASE t \in DOMAIN used
      <4>1. used'[t] = used[t] + 1 /\ old = buckets[t]
        BY <1>2, <2>0, <3>1, <3>3 DEF Spent, Get, Has
      <4>2. Available(old, now) \in Int /\ ticks * now.perMin \in Int
        BY <1>2, <1>3, <2>0, <3>1, ProductIsNat DEF Filled, Bucket, Sound
      <4> QED
        BY <1>2, <2>0, <3>1, <3>2, <3>3, <4>1, <4>2 DEF Spent, Sound
    <3>4. CASE t \notin DOMAIN used
      <4>1. used'[t] = 1
        BY <3>1, <3>4 DEF Get, Has
      <4>2. Available(a, now) \in Nat /\ Available(a, now) <= now.burst - 1
        BY <1>2, <1>3, <1>4, <2>1, <3>1, JustUsed DEF Least, Filled, Bucket, Sound, Grants
      <4>3. ticks * now.perMin \in Nat
        BY <1>2, <2>0, <3>1, ProductIsNat DEF Sound
      <4> QED
        BY <1>2, <3>1, <4>1, <4>2, <4>3 DEF Sound
    <3> QED
      BY <3>3, <3>4
  <2>2. CASE ~(Grants(b) /\ req[r].gen = gen)
    <3>1. used' = used /\ Spent(t) /\ old = buckets[t] /\ Sound(now) /\ used[t] \in Nat
      BY <1>1, <1>2, <1>9, <2>0, <2>2 DEF Spent
    <3>2. Available(a, now) = Least(a.tokens, now.burst) /\ Available(a, now) \in Nat
      BY <1>4, <3>1, JustUsed
    <3>3. ASSUME req[r].gen = gen
          PROVE  Available(a, now) = Available(old, now)
      BY <1>1, <1>2, <1>3, <1>4, <2>2, <3>2, <3>3 DEF Holds, Least, Filled, Bucket, Sound, l, t
    <3>4. ASSUME req[r].gen # gen
          PROVE  Available(a, now) <= Available(old, now) /\ Available(old, now) \in Nat
      <4>1. ticks = 0 /\ old.idle = 0
        BY <1>1, <1>2, <3>1, <3>4 DEF Holds, Spent, Filled, Bucket, l, t
      <4>2. /\ Available(old, now) = Least(old.tokens, now.burst)
            /\ Available(old, now) \in Nat /\ Available(old, l) = Least(old.tokens, l.burst)
        BY <1>2, <3>1, <4>1, JustUsed
      <4> QED
        BY <1>2, <1>3, <1>4, <3>1, <3>2, <4>2 DEF Least, Filled, Bucket, Sound
    <3>5. Available(old, now) \in Nat
      BY <3>2, <3>3, <3>4
    <3>6. ticks * now.perMin \in Nat
      BY <2>0, <3>1, ProductIsNat DEF Sound
    <3> QED
      BY <3>1, <3>2, <3>3, <3>4, <3>5, <3>6 DEF Spent, Sound
  <2> QED
    BY <2>1, <2>2
<1>10. ASSUME NEW s \in DOMAIN used', s = t
       PROVE  Spent(s)'
  BY <1>1, <1>4, <1>5, <1>9, <1>10 DEF Spent, Allowance, Config, LimitInv
<1> QED
  BY <1>1, <1>6, <1>7, <1>8, <1>10 DEF LimitInv

LEMMA TickKeeps ==
    ASSUME LimitInv, Tick
    PROVE  LimitInv'
<1>1. /\ ticks' = ticks + 1 /\ UNCHANGED <<load, inForce, gen, req, used>>
      /\ buckets' = [t \in DOMAIN buckets |-> [buckets[t] EXCEPT !.idle = @ + 1]]
      /\ \A r \in Requests : req[r].phase # "take"
  BY DEF Tick
<1>2. ASSUME NEW t \in DOMAIN buckets PROVE Filled(buckets'[t])
  BY <1>1, <1>2 DEF LimitInv, Filled, Bucket
<1>3. ASSUME NEW t \in DOMAIN used PROVE Spent(t)'
  <2> DEFINE l == Allowance(inForce, t)
             b == buckets[t]
  <2>1. /\ ticks \in Nat /\ used[t] \in Nat /\ Sound(l) /\ Filled(b)
        /\ used[t] + Available(b, l) <= l.burst + ticks * l.perMin
        /\ b.idle <= ticks /\ t \in DOMAIN buckets
    BY DEF LimitInv, Spent
  <2>2. buckets'[t] = [b EXCEPT !.idle = @ + 1]
    BY <1>1, <2>1
  <2> HIDE DEF l, b
  <2>3. Available(buckets'[t], l) <= Available(b, l) + l.perMin
    BY <2>1, <2>2, TickGives
  <2>4. buckets'[t].idle <= ticks'
    BY <1>1, <2>1, <2>2 DEF Filled, Bucket
  <2>5. PICK k \in Nat : k = ticks * l.perMin
    BY <2>1, ProductIsNat DEF Sound
  <2>6. ticks' * l.perMin = k + l.perMin
    BY <1>1, <2>1, <2>5, OneMore DEF Sound
  <2>7. Available(b, l) \in Int /\ Available(buckets'[t], l) \in Int
    <3>1. Filled(buckets'[t])
      BY <1>2, <2>1
    <3> QED
      BY <2>1, <3>1, RefilledIs DEF Filled, Bucket
  <2>8. used[t] + Available(buckets'[t], l) <= l.burst + ticks' * l.perMin
    BY <2>1, <2>3, <2>5, <2>6, <2>7 DEF Sound
  <2> QED
    BY <1>1, <2>1, <2>4, <2>8 DEF Spent, Allowance, Config, l
<1> QED
  BY <1>1, <1>2, <1>3 DEF LimitInv

(* A reload makes the limits every request holds the former ones.          *)
LEMMA ReloadKeepsLimits ==
    ASSUME NEW f, KeyInv, LimitInv, Reload(f)
    PROVE  LimitInv'
<1>1. /\ gen \in Nat /\ gen' = gen + 1 /\ ticks' = 0 /\ inForce' = f /\ f \in Accepted[load]
      /\ DOMAIN used' = {} /\ UNCHANGED <<load, buckets, req>>
  BY BoundAssumption DEF Reload, KeyInv, Verifiers
<1>2. \A r \in Requests : req[r].phase = "take" => Holds(r)'
  BY <1>1 DEF LimitInv, Holds
<1> QED
  BY <1>1, <1>2 DEF LimitInv

LEMMA LimitInit == Init => LimitInv
  BY DEF Init, LimitInv, Start

LEMMA LimitStep ==
    ASSUME KeyInv, LimitInv, [Next]_vars
    PROVE  LimitInv'
<1>1. ASSUME NEW r \in Requests, Begin(r) \/ Lookup(r) \/ Relookup(r) \/ Enter(r) \/ Again(r)
      PROVE  LimitInv'
  <2>1. UNCHANGED <<load, inForce, gen, limitVars>>
    BY <1>1 DEF Begin, Lookup, Relookup, Enter, Again
  <2>2. Moves(r)
    BY <1>1, BeginMoves, LookupMoves, RelookupMoves, LimitMoves
  <2> QED
    BY <2>1, <2>2, MoversBystand, BystandersKeep
<1>2. ASSUME NEW r \in Requests, Refresh(r) \/ Answered(r) \/ FetchFails(r) \/ Install(r)
      PROVE  LimitInv'
  BY <1>2, KeyStepsBystand, BystandersKeep
<1>3. ASSUME NEW r \in Requests, Handle(r) PROVE LimitInv'
  BY <1>1, <1>2, <1>3, ReadLimitsKeeps, TakeKeeps DEF Handle
<1>4. CASE Rotate \/ (\E v \in Verifiers : Elapse(v)) \/ UNCHANGED vars
  <2>1. Bystands
    BY <1>4 DEF Rotate, Elapse, vars, limitVars, Bystands
  <2> QED
    BY <2>1, BystandersKeep
<1> QED
  BY <1>2, <1>3, <1>4, TickKeeps, ReloadKeepsLimits DEF Next

LEMMA LimitInvariant == Spec => []LimitInv
<1>1. KeyInv /\ LimitInv /\ [Next]_vars => LimitInv'
  BY LimitStep
<1> QED
  BY <1>1, LimitInit, KeyInvariant, PTL DEF Spec

(* Since a reload a tenant is let through no more often than the limits it *)
(* brought allow, for any limits, requests, reloads and time (middleware.go*)
(* Allow).                                                                 *)
THEOREM BurstWithinLimits == Spec => []BurstHonoured
<1>1. ASSUME LimitInv PROVE BurstHonoured
  <2> SUFFICES ASSUME NEW t \in DOMAIN used
               PROVE  LET l == Allowance(inForce, t) IN used[t] <= l.burst + ticks * l.perMin
    BY DEF BurstHonoured
  <2> DEFINE l == Allowance(inForce, t)
  <2>1. /\ ticks \in Nat /\ used[t] \in Nat /\ Sound(l) /\ Filled(buckets[t])
        /\ used[t] + Available(buckets[t], l) <= l.burst + ticks * l.perMin
    BY <1>1 DEF LimitInv, Spent
  <2> HIDE DEF l
  <2>2. Available(buckets[t], l) \in Nat
    BY <2>1, RefilledIs DEF Filled, Bucket
  <2>3. ticks * l.perMin \in Nat
    BY <2>1, ProductIsNat DEF Sound
  <2> QED
    BY <2>1, <2>2, <2>3 DEF Sound, l
<1> QED
  BY <1>1, LimitInvariant, PTL

-----------------------------------------------------------------------------
(***************************************************************************)
(* Types.                                                                  *)
(***************************************************************************)
Phases == Waiting \cup Ended
Typed(x) == x.phase \in Phases /\ x.gen \in 0..gen /\ x.doc \in 0..published /\ x.role \in Roles

TypeInv ==
    /\ recent \in [Verifiers -> BOOLEAN]
    /\ published \in 1..Len(Case.documents) /\ ticks \in 0..MaxTicks
    /\ \A r \in Requests : Typed(req[r])

(* Every step but a reload and a rotation leaves the bounds of a request's *)
(* fields alone; it is of its types if the request that moves is.          *)
Retypes(r) ==
    /\ \A q \in Requests \ {r} : req'[q] = req[q]
    /\ Typed(req'[r])

LEMMA SplitRole == \A w : SplitTenantRole(w).role \in Roles
  BY DEF SplitTenantRole, DefaultRole, Roles, Rank

(* Whatever a key is given as a role, it acts in one of the three.         *)
LEMMA KeyRole ==
    ASSUME load \in DOMAIN Workloads, inForce \in Accepted[load], NEW key
    PROVE  RoleFor(Config(inForce), key) \in Roles
<1> DEFINE f == Workloads[load].files[inForce]
           env == Workloads[load].env
           c == ApplyFile(Defaults, f)
<1>1. Config(inForce) = ApplyEnv(c, env)
  BY DEF Config, Configurations, Accepted, Effective
<1>2. "roles" \in DOMAIN c /\ c.roles = <<>>
  BY DEF ApplyFile, Defaults
<1> HIDE DEF c, f, env
<1>3. ApplyEnv(c, env).roles = IF Written(env, "api_keys") THEN ParseAPIRoles(env.api_keys)
                               ELSE c.roles
  BY <1>2 DEF ApplyEnv
<1>4. \A parts : \A k \in DOMAIN ParseAPIRoles(parts) : ParseAPIRoles(parts)[k] \in Roles
  BY SplitRole DEF ParseAPIRoles
<1>5. DefaultRole \in Roles
  BY DEF DefaultRole, Roles, Rank
<1> QED
  BY <1>1, <1>2, <1>3, <1>4, <1>5 DEF RoleFor, Get, Has

LEMMA GoTyped ==
    ASSUME NEW r \in Requests, NEW phase \in Phases, KeyInv, TypeInv, Go(r, phase)
    PROVE  Retypes(r)
<1>1. /\ req'[r].phase = phase /\ req'[r].gen = req[r].gen
      /\ req'[r].doc = req[r].doc /\ req'[r].role = req[r].role
  BY DEF KeyInv, Shaped, Go, Fields, Start
<1> QED
  BY <1>1 DEF KeyInv, Shaped, Go, TypeInv, Typed, Retypes

LEMMA ZeroTyped ==
    ASSUME KeyInv, TypeInv
    PROVE  0 \in 0..gen /\ gen \in 0..gen /\ 0 \in 0..published /\ published \in 0..published
  BY BoundAssumption DEF KeyInv, Verifiers

LEMMA TurnAwayTyped ==
    ASSUME NEW r \in Requests, KeyInv, TypeInv, TurnAway(r)
    PROVE  Retypes(r)
<1>1. /\ req'[r].phase = "unauthorized" /\ req'[r].gen = 0
      /\ req'[r].doc = 0 /\ req'[r].role = req[r].role
  BY DEF KeyInv, Shaped, TurnAway, Fields, Start
<1>2. "unauthorized" \in Phases
  BY DEF Phases, Ended
<1>3. \A q \in Requests \ {r} : req'[q] = req[q]
  BY DEF KeyInv, Shaped, TurnAway
<1> QED
  BY <1>1, <1>2, <1>3, ZeroTyped DEF TypeInv, Typed, Retypes

LEMMA AdmitTyped ==
    ASSUME NEW r \in Requests, NEW file, NEW tenant, NEW role \in Roles, KeyInv, TypeInv,
           Admit(r, file, tenant, role)
    PROVE  Retypes(r)
<1>1. /\ req'[r].phase = "limit" /\ req'[r].gen = 0
      /\ req'[r].doc = req[r].doc /\ req'[r].role = role
  BY DEF KeyInv, Shaped, Admit, Fields, Start
<1>2. "limit" \in Phases
  BY DEF Phases, Waiting
<1>3. \A q \in Requests \ {r} : req'[q] = req[q]
  BY DEF KeyInv, Shaped, Admit
<1> QED
  BY <1>1, <1>2, <1>3, ZeroTyped DEF TypeInv, Typed, Retypes

LEMMA VerdictTyped ==
    ASSUME NEW r \in Requests, NEW key, KeyInv, TypeInv, Verdict(r, key)
    PROVE  Retypes(r)
<1>1. TurnAway(r) \/ \E file, tenant, w : Admit(r, file, tenant, SplitTenantRole(w).role)
  BY DEF Verdict
<1> QED
  BY <1>1, SplitRole, TurnAwayTyped, AdmitTyped

LEMMA BeginTyped ==
    ASSUME NEW r \in Requests, KeyInv, LimitInv, TypeInv, Begin(r)
    PROVE  Retypes(r)
<1> DEFINE c == Config(inForce)
           looks == [req EXCEPT ![r].phase = "lookup", ![r].gen = gen, ![r].file = inForce]
<1>1. \/ Go(r, "not_found") \/ TurnAway(r) \/ req' = looks
      \/ \E file, tenant : Admit(r, file, tenant, "admin")
      \/ \E file, tenant, key : Admit(r, file, tenant, RoleFor(c, key))
  BY DEF Begin, Authenticate
<1>2. "admin" \in Roles /\ "not_found" \in Phases /\ "lookup" \in Phases
  BY DEF Roles, Rank, Phases, Waiting, Ended
<1>3. ASSUME req' = looks PROVE Retypes(r)
  <2>1. /\ req'[r].phase = "lookup" /\ req'[r].gen = gen
        /\ req'[r].doc = req[r].doc /\ req'[r].role = req[r].role
    BY <1>3 DEF KeyInv, Shaped, Fields, Start
  <2>2. \A q \in Requests \ {r} : req'[q] = req[q]
    BY <1>3 DEF KeyInv, Shaped
  <2> QED
    BY <1>2, <2>1, <2>2, ZeroTyped DEF TypeInv, Typed, Retypes
<1>4. \A key : RoleFor(c, key) \in Roles
  BY KeyRole DEF LimitInv
<1> QED
  BY <1>1, <1>2, <1>3, <1>4, GoTyped, TurnAwayTyped, AdmitTyped

LEMMA KeyStepsTyped ==
    ASSUME NEW r \in Requests, KeyInv, TypeInv,
           Lookup(r) \/ Refresh(r) \/ Answered(r) \/ FetchFails(r) \/ Install(r) \/ Relookup(r)
    PROVE  Retypes(r)
<1>1. \/ TurnAway(r) \/ (\E key : Verdict(r, key)) \/ Go(r, "refresh") \/ Go(r, "fetch")
      \/ req' = [req EXCEPT ![r].phase = "install", ![r].doc = published]
      \/ req' = [req EXCEPT ![r].phase = "relookup", ![r].doc = 0]
  BY DEF Lookup, Refresh, Answered, FetchFails, Install, Relookup
<1>2. {"refresh", "fetch", "install", "relookup"} \subseteq Phases
  BY DEF Phases, Waiting
<1>3. ASSUME NEW phase \in Phases, NEW doc \in 0..published,
             req' = [req EXCEPT ![r].phase = phase, ![r].doc = doc]
      PROVE  Retypes(r)
  <2>1. /\ req'[r].phase = phase /\ req'[r].gen = req[r].gen
        /\ req'[r].doc = doc /\ req'[r].role = req[r].role
    BY <1>3 DEF KeyInv, Shaped, Fields, Start
  <2>2. \A q \in Requests \ {r} : req'[q] = req[q]
    BY <1>3 DEF KeyInv, Shaped
  <2> QED
    BY <2>1, <2>2 DEF TypeInv, Typed, Retypes
<1> QED
  BY <1>1, <1>2, <1>3, ZeroTyped, GoTyped, TurnAwayTyped, VerdictTyped

LEMMA LimitStepsTyped ==
    ASSUME NEW r \in Requests, KeyInv, TypeInv,
           ReadLimits(r) \/ Take(r) \/ Enter(r) \/ Again(r)
    PROVE  Retypes(r)
<1> DEFINE Passes(phase, g) == /\ req'[r].phase = phase /\ req'[r].gen = g
                               /\ req'[r].doc = req[r].doc /\ req'[r].role = req[r].role
                               /\ \A q \in Requests \ {r} : req'[q] = req[q]
<1>1. {"take", "enter", "limited", "over_budget", "served", "forbidden"} \subseteq Phases
  BY DEF Phases, Waiting, Ended
<1>2. CASE ReadLimits(r)
  <2>1. PICK l : \/ req' = [req EXCEPT ![r].phase = "take", ![r].gen = gen, ![r].limits = l]
                 \/ Go(r, "enter")
    BY <1>2 DEF ReadLimits
  <2>2. ASSUME req' = [req EXCEPT ![r].phase = "take", ![r].gen = gen, ![r].limits = l]
        PROVE  Passes("take", gen)
    BY <2>2 DEF KeyInv, Shaped, Fields, Start
  <2> QED
    BY <1>1, <2>1, <2>2, ZeroTyped, GoTyped DEF TypeInv, Typed, Retypes
<1>3. CASE Take(r)
  <2>1. PICK phase \in {"enter", "limited"} :
            req' = [req EXCEPT ![r].phase = phase, ![r].gen = 0]
    BY <1>3 DEF Take
  <2>2. Passes(phase, 0)
    BY <2>1 DEF KeyInv, Shaped, Fields, Start
  <2> QED
    BY <1>1, <2>2, ZeroTyped DEF TypeInv, Typed, Retypes
<1>4. CASE Enter(r)
  <2>1. \E phase \in {"over_budget", "served", "forbidden"} : Go(r, phase)
    BY <1>4 DEF Enter
  <2> QED
    BY <1>1, <2>1, GoTyped
<1>5. CASE Again(r)
  <2>1. req'[r] = Start /\ \A q \in Requests \ {r} : req'[q] = req[q]
    BY <1>5 DEF Again, KeyInv, Shaped
  <2>2. Start.phase \in Phases /\ Start.gen = 0 /\ Start.doc = 0 /\ Start.role \in Roles
    BY DEF Start, Phases, Waiting, DefaultRole, Roles, Rank
  <2> QED
    BY <2>1, <2>2, ZeroTyped DEF Retypes, Typed
<1> QED
  BY <1>2, <1>3, <1>4, <1>5

LEMMA RetypesKeep ==
    ASSUME NEW r \in Requests, TypeInv, Retypes(r), UNCHANGED <<load, gen, published, ticks>>,
           recent' \in [Verifiers -> BOOLEAN]
    PROVE  TypeInv'
  BY DEF TypeInv, Retypes, Typed, Case

LEMMA TypeInit == Init => TypeInv
<1> SUFFICES ASSUME Init PROVE TypeInv
  OBVIOUS
<1>1. Typed(Start)
  BY DEF Init, Typed, Start, Phases, Waiting, DefaultRole, Roles, Rank
<1>2. published \in 1..Len(Case.documents) /\ ticks \in 0..MaxTicks
  BY BoundAssumption, DocumentsAssumption DEF Init, Case
<1> QED
  BY <1>1, <1>2 DEF Init, TypeInv

LEMMA TypeStep ==
    ASSUME KeyInv, LimitInv, TypeInv, [Next]_vars
    PROVE  TypeInv'
<1>1. ASSUME NEW r \in Requests, Handle(r) \/ Answered(r) \/ FetchFails(r)
      PROVE  TypeInv'
  <2>1. Retypes(r)
    BY <1>1, BeginTyped, KeyStepsTyped, LimitStepsTyped DEF Handle
  <2>2. UNCHANGED <<load, gen, published, ticks>>
    <3>1. CASE Begin(r) \/ Lookup(r) \/ Refresh(r) \/ Install(r) \/ Relookup(r)
               \/ Answered(r) \/ FetchFails(r)
      BY <3>1 DEF Begin, Lookup, Refresh, Answered, FetchFails, Install, Relookup,
                  oidcVars, limitVars
    <3>2. CASE ReadLimits(r) \/ Take(r) \/ Enter(r) \/ Again(r)
      BY <3>2 DEF ReadLimits, Take, Enter, Again, oidcVars, limitVars
    <3> QED
      BY <1>1, <3>1, <3>2 DEF Handle
  <2>3. recent' \in [Verifiers -> BOOLEAN]
    <3>1. CASE Refresh(r)
      BY <3>1 DEF Refresh, TypeInv
    <3>2. CASE ~Refresh(r)
      BY <1>1, <3>2 DEF Handle, Begin, Lookup, Answered, FetchFails, Install, Relookup,
                  ReadLimits, Take, Enter, Again, oidcVars, TypeInv
    <3> QED
      BY <3>1, <3>2
  <2> QED
    BY <2>1, <2>2, <2>3, RetypesKeep
<1>2. ASSUME NEW f, Reload(f) PROVE TypeInv'
  <2>1. gen' = gen + 1 /\ gen \in Nat /\ ticks' = 0 /\ UNCHANGED <<load, recent, published, req>>
    BY <1>2, BoundAssumption DEF Reload, oidcVars, KeyInv, Verifiers
  <2>2. 0..gen \subseteq 0..gen' /\ ticks' \in 0..MaxTicks
    BY <2>1, BoundAssumption
  <2> QED
    BY <2>1, <2>2 DEF TypeInv, Typed, Case
<1>3. CASE Rotate
  <2>1. /\ published' = published + 1 /\ published < Len(Case.documents)
        /\ published \in 1..Len(Case.documents)
        /\ UNCHANGED <<load, gen, recent, ticks, req>>
    BY <1>3 DEF Rotate, limitVars, TypeInv
  <2>2. 0..published \subseteq 0..published' /\ published' \in 1..Len(Case.documents)
    BY <2>1, DocumentsAssumption DEF LimitInv, Case
  <2> QED
    BY <2>1, <2>2 DEF TypeInv, Typed, Case
<1>4. ASSUME NEW v, Elapse(v) PROVE TypeInv'
  BY <1>4 DEF Elapse, TypeInv, Typed, Case, limitVars
<1>5. CASE Tick
  <2>1. ticks' \in 0..MaxTicks
    BY <1>5, BoundAssumption DEF Tick, TypeInv
  <2> QED
    BY <1>5, <2>1 DEF Tick, TypeInv, Typed, Case, oidcVars
<1>6. CASE UNCHANGED vars
  BY <1>6 DEF vars, oidcVars, limitVars, TypeInv, Typed, Case
<1> QED
  BY <1>1, <1>2, <1>3, <1>4, <1>5, <1>6 DEF Next

(* Requests, key sets and buckets keep their types, and no bucket is       *)
(* overdrawn or overfilled, whatever the configurations, the requests and  *)
(* the bounds (middleware.go, jwks.go).                                    *)
THEOREM TypeCorrect == Spec => []TypeOK
<1>1. ASSUME KeyInv, LimitInv, TypeInv PROVE TypeOK
  <2>1. held \in [Verifiers -> 0..published]
    BY <1>1 DEF KeyInv
  <2>2. \A t \in DOMAIN buckets : buckets[t].tokens \in 0..buckets[t].burst
    BY <1>1 DEF LimitInv, Filled, Bucket
  <2> QED
    BY <1>1, <2>1, <2>2 DEF KeyInv, LimitInv, TypeInv, Typed, Phases, TypeOK
<1>2. KeyInv /\ LimitInv /\ TypeInv /\ [Next]_vars => TypeInv'
  BY TypeStep
<1> QED
  BY <1>1, <1>2, TypeInit, KeyInvariant, LimitInvariant, PTL DEF Spec

=============================================================================
