------------------------------- MODULE Gateway -------------------------------
(***************************************************************************)
(* The request path of internal/gateway: authentication and admission, the *)
(* plan (mask, classify, judge, route), the answer cache, the dispatch     *)
(* with its cloud fallback, the egress guard, and the accounting that      *)
(* closes a request; for blocking and streamed completions and for         *)
(* embeddings.  Requests run concurrently, share conversation sessions and *)
(* one answer cache, and Reload swaps the configuration under them.        *)
(*                                                                         *)
(* A session object is named by the request whose Get created it, so an    *)
(* evicted session that a request still holds and its replacement under    *)
(* the same id are two objects, as they are in the program.  A value's     *)
(* text is abstracted to what a rule set says of it (Class).               *)
(***************************************************************************)
EXTENDS EgressPolicy, Sequences, FiniteSets

CONSTANTS
    Requests,       \* one element per request handled
    SessionIds,     \* values of the session header
    Detached,       \* the empty header: a session no other request can reach
    Tenants,
    Values,         \* sensitive spans a payload may carry
    RuleSets,       \* detection configurations (packs, disabled rules, ...)
    Class,          \* Class[rules][value]: the rank its finding is noted with
    Configs,        \* the configurations a reload may install
    Arrivals,       \* the workloads: which input each request carries
    Embedders,      \* the backends with an embeddings endpoint
    NoSession,      \* an id with no live session
    SessionMax,     \* session.Store's capacity
    CacheMax        \* the answer cache's capacity

Modes == {"blocking", "stream", "embed"}

(* A tenantView: the detector and the policy in force for a tenant.        *)
View == [rules : RuleSets, policy : Policy]

(* What runtimeState decides: the credentials accepted (each names its     *)
(* tenant), the global view, the views of tenants with overrides, and      *)
(* whether the egress guard blocks a destructive operation or only warns.  *)
Config == [keys : SUBSET Tenants,
           global : View,
           tenants : UNION {[S -> View] : S \in SUBSET Tenants},
           blocks : BOOLEAN]

(* parts are the findings of the payload in the order they are noted:      *)
(* message contents and tool-call arguments, then the tool definitions.    *)
Input == [tenant : Tenants,
          sid : SessionIds \cup {Detached},
          parts : Seq(Values),
          mode : Modes]

ASSUME ClassAssumption == Class \in [RuleSets -> [Values -> Sensitivity]]
ASSUME ConfigAssumption == Configs \subseteq Config /\ Configs # {}
ASSUME ArrivalAssumption == Arrivals \subseteq [Requests -> Input]
ASSUME SessionAssumption ==
    Detached \notin SessionIds /\ NoSession \notin Requests

VARIABLES
    cfg,            \* Gateway.state: the runtimeState in force
    purging,        \* Reload has published a state and not yet purged
    store,          \* session.Store: id -> live session object
    level,          \* per session object: the highest class noted on it
    cache,          \* the answer cache: a set of entries, one per key
    req,            \* per request: its position and its requestPlan
    sent,           \* history: <<r, backend>> for every upstream call made
    ledger,         \* per request: the routes it was recorded under
    audit           \* per request: the events logged for it

vars == <<cfg, purging, store, level, cache, req, sent, ledger, audit>>
sharedVars == <<cfg, purging, store, level, cache>>
outVars == <<sent, ledger, audit>>

Kinds == {"plain", "destructive", "empty"}
Outcomes == {"ok", "unauthorized", "refused", "denied", "unavailable"}
Phases == {"auth", "begin", "mask", "event", "lookup", "wait", "put",
           "deliver", "keep", "done"}

(* A payload after masking and renumbering (cache.Shape): a detected value *)
(* is a token numbered by its first appearance, the rest is the text.      *)
FirstAt(parts, i) ==
    CHOOSE j \in DOMAIN parts :
        /\ parts[j] = parts[i]
        /\ \A k \in DOMAIN parts : parts[k] = parts[i] => j <= k

Shape(rules, parts) ==
    [i \in DOMAIN parts |->
        IF Class[rules][parts[i]] > Low
        THEN <<"token", FirstAt(parts, i)>>
        ELSE <<"text", parts[i]>>]

ViewFor(c, tenant) ==
    IF tenant \in DOMAIN c.tenants THEN c.tenants[tenant] ELSE c.global

ViewOf(r) == ViewFor(req[r].conf, req[r].input.tenant)
PartsOf(r) == req[r].input.parts
RankOf(r, i) == Class[ViewOf(r).rules][PartsOf(r)[i]]

(* Definitions that precede the one they resemble, and that no action uses,*)
(* are the faults the mutation checks put in its place.                    *)
KeyWithoutTools(r) ==
    <<req[r].target,
      SubSeq(Shape(ViewOf(r).rules, PartsOf(r)), 1, Len(PartsOf(r)) - 1)>>

(* cache.Key: the model the route was planned for, and the whole shape.    *)
Key(r) == <<req[r].target, Shape(ViewOf(r).rules, PartsOf(r))>>

-----------------------------------------------------------------------------
(* A request before its handler has run.                                   *)
Arriving(r, i, c) ==
    [pc |-> "auth", input |-> i, conf |-> c, obj |-> r, pos |-> 1,
     verdict |-> "none", target |-> "none", evMax |-> Low, via |-> "none",
     fell |-> FALSE, broken |-> FALSE, kind |-> "none", from |-> r,
     served |-> "none", outcome |-> "none"]

Init ==
    /\ cfg \in Configs
    /\ purging = FALSE
    /\ store = [id \in SessionIds |-> NoSession]
    /\ level = [r \in Requests |-> Low]
    /\ cache = {}
    /\ \E arrivals \in Arrivals :
           req = [r \in Requests |-> Arriving(r, arrivals[r], cfg)]
    /\ sent = {}
    /\ ledger = [r \in Requests |-> <<>>]
    /\ audit = [r \in Requests |-> <<>>]

(* A request that ends before it has a plan: nothing is accounted.         *)
Turn(r, outcome) ==
    /\ req' = [req EXCEPT ![r].pc = "done", ![r].outcome = outcome]
    /\ UNCHANGED outVars

(* authenticator.Wrap checks the credential against the configuration in   *)
(* force now; the rate limiter, the budget guard and the role check that   *)
(* follow may refuse, on traffic this module does not track.               *)
Authenticate(r) ==
    /\ req[r].pc = "auth"
    /\ \/ /\ req[r].input.tenant \in cfg.keys
          /\ req' = [req EXCEPT ![r].pc = "begin", ![r].conf = cfg]
          /\ UNCHANGED outVars
       \/ /\ req[r].input.tenant \notin cfg.keys
          /\ Turn(r, "unauthorized")
       \/ Turn(r, "refused")
    /\ UNCHANGED sharedVars

(* session.Store.Get for a header naming id: the live session, or a fresh  *)
(* one that may push another conversation out of a full store.             *)
Others(id) == {other \in SessionIds \ {id} : store[other] # NoSession}

OpenSession(r, id) ==
    \/ /\ store[id] # NoSession
       /\ UNCHANGED store
    \/ /\ store[id] = NoSession
       /\ Cardinality(Others(id)) < SessionMax
       /\ store' = [store EXCEPT ![id] = r]
    \/ /\ store[id] = NoSession
       /\ Cardinality(Others(id)) >= SessionMax
       /\ \E old \in Others(id) :
              store' = [store EXCEPT ![id] = r, ![old] = NoSession]

(* The handler pins the configuration it finds and opens the session.      *)
Begin(r) ==
    LET id == req[r].input.sid IN
    /\ req[r].pc = "begin"
    /\ \/ id = Detached /\ UNCHANGED store
       \/ id # Detached /\ OpenSession(r, id)
    /\ req' = [req EXCEPT
                 ![r].pc = "mask",
                 ![r].conf = cfg,
                 ![r].obj = IF id = Detached \/ store[id] = NoSession
                            THEN r ELSE store[id]]
    /\ UNCHANGED <<cfg, purging, level, cache>>
    /\ UNCHANGED outVars

NoteLast(r) ==
    level' = [level EXCEPT ![req[r].obj] = RankOf(r, req[r].pos)]

NoteSum(r) ==
    level' = [level EXCEPT ![req[r].obj] = @ + RankOf(r, req[r].pos)]

(* Session.Note, MaxSensitivity: the session keeps the highest class.      *)
NoteFinding(r) ==
    level' = [level EXCEPT ![req[r].obj] = Higher(@, RankOf(r, req[r].pos))]

(* One finding of the payload is masked and noted on the session.          *)
Mask(r) ==
    /\ req[r].pc = "mask"
    /\ req[r].pos <= Len(PartsOf(r))
    /\ NoteFinding(r)
    /\ req' = [req EXCEPT ![r].pos = @ + 1]
    /\ UNCHANGED <<cfg, purging, store, cache>>
    /\ UNCHANGED outVars

JudgeEarlyReady(r) == req[r].pc = "mask" /\ req[r].pos >= Len(PartsOf(r))

(* Every part has been through the masker.                                 *)
JudgeReady(r) == req[r].pc = "mask" /\ req[r].pos > Len(PartsOf(r))

(* Embeddings are not routed by cost: the policy alone decides.            *)
Routed(r, action) ==
    IF req[r].input.mode = "embed"
    THEN {IF action = "local_only" THEN "local" ELSE "cloud"}
    ELSE {Constrain(action, t) : t \in Targets}

(* policy.Evaluate on the session's classification, then the router, whose *)
(* answer (it depends on the text) the policy constrains.                  *)
Judge(r) ==
    LET max == level[req[r].obj]
        action == Evaluate(ViewOf(r).policy, max)
    IN  /\ JudgeReady(r)
        /\ \E t \in Routed(r, action) :
               req' = [req EXCEPT ![r].pc = "event", ![r].verdict = action,
                                  ![r].target = t]
        /\ UNCHANGED sharedVars
        /\ UNCHANGED outVars

Event(r, served) ==
    [action |-> req[r].verdict, max |-> req[r].evMax, backend |-> req[r].via,
     fellBack |-> req[r].fell, blocked |-> served = "withheld"]

CloseUnlogged(r, outcome, routes, served) ==
    /\ req' = [req EXCEPT ![r].pc = "done", ![r].outcome = outcome,
                          ![r].served = served]
    /\ ledger' = [ledger EXCEPT ![r] = @ \o routes]
    /\ audit' = IF outcome = "unavailable" THEN audit
                ELSE [audit EXCEPT ![r] = Append(@, Event(r, served))]
    /\ UNCHANGED sent

(* finish: one ledger record for an answer, one audit event in every case. *)
Close(r, outcome, routes, served) ==
    /\ req' = [req EXCEPT ![r].pc = "done", ![r].outcome = outcome,
                          ![r].served = served]
    /\ ledger' = [ledger EXCEPT ![r] = @ \o routes]
    /\ audit' = [audit EXCEPT ![r] = Append(@, Event(r, served))]
    /\ UNCHANGED sent

EventMaxOfPayload(r) ==
    IF PartsOf(r) = <<>> THEN Low ELSE RankOf(r, Len(PartsOf(r)))

(* The audit event is built after the verdict, and reads the session's     *)
(* classification again: a concurrent request may have raised it.          *)
EventMax(r) == level[req[r].obj]

BuildEvent(r) ==
    /\ req[r].pc = "event"
    /\ req' = [req EXCEPT ![r].pc = "lookup", ![r].evMax = EventMax(r)]
    /\ UNCHANGED sharedVars
    /\ UNCHANGED outVars

(* A payload the policy refuses never reaches any backend.                 *)
Refuse(r) ==
    /\ req[r].pc = "lookup"
    /\ req[r].verdict = "deny"
    /\ Close(r, "denied", <<>>, "none")
    /\ UNCHANGED sharedVars

Proceeds(r) == req[r].pc = "lookup" /\ req[r].verdict # "deny"

(* The cache answers: the entry is replayed through this request's guard.  *)
Hit(r) ==
    /\ Proceeds(r)
    /\ req[r].input.mode # "embed"
    /\ \E e \in cache :
          /\ e.key = Key(r)
          /\ req' = [req EXCEPT ![r].pc = "deliver", ![r].via = "cache",
                                ![r].kind = e.kind, ![r].from = e.from]
    /\ UNCHANGED sharedVars
    /\ UNCHANGED outVars

CallUnmarked(r, backend) ==
    /\ req' = [req EXCEPT ![r].pc = "wait", ![r].via = backend,
                          ![r].fell = req[r].pc = "wait"
                                      /\ req[r].input.mode = "stream"]
    /\ sent' \in {sent, sent \cup {<<r, backend>>}}
    /\ UNCHANGED <<ledger, audit>>
    /\ UNCHANGED sharedVars

(* client.Chat, ChatStream or Embed is called on a backend; an open        *)
(* circuit makes it fail with nothing sent.                                *)
Call(r, backend) ==
    /\ req' = [req EXCEPT ![r].pc = "wait", ![r].via = backend,
                          ![r].fell = (backend # req[r].target)]
    /\ sent' \in {sent, sent \cup {<<r, backend>>}}
    /\ UNCHANGED <<ledger, audit>>
    /\ UNCHANGED sharedVars

Embeddable(r) == req[r].input.mode = "embed" /\ req[r].target \in Embedders

(* The policy's backend has no embeddings endpoint: it is named and the    *)
(* request fails without a call.                                           *)
CannotEmbed(r) ==
    /\ Proceeds(r)
    /\ req[r].input.mode = "embed" /\ ~Embeddable(r)
    /\ req' = [req EXCEPT ![r].pc = "done", ![r].outcome = "unavailable",
                          ![r].served = "none"]
    /\ audit' = [audit EXCEPT ![r] =
                    Append(@, [Event(r, "none") EXCEPT !.backend = req[r].target])]
    /\ UNCHANGED <<sent, ledger>>
    /\ UNCHANGED sharedVars

Miss(r) ==
    /\ Proceeds(r)
    /\ \/ Embeddable(r)
       \/ /\ req[r].input.mode # "embed"
          /\ \A e \in cache : e.key # Key(r)
    /\ Call(r, req[r].target)

(* routeOf: the route a request is billed under is the one it was planned  *)
(* for, whichever backend answered.                                        *)
RouteOf(r) == IF req[r].via = "cache" THEN "cache" ELSE req[r].target

Answers(r) == req[r].pc = "wait" /\ <<r, req[r].via>> \in sent

(* The backend answers.  A blocking answer is stored before it is guarded, *)
(* a streamed one after; an embedding is neither.                          *)
Reply(r, kind) ==
    /\ Answers(r)
    /\ \/ /\ req[r].input.mode = "embed"
          /\ kind = "plain"
          /\ Close(r, "ok", <<RouteOf(r)>>, "answer")
       \/ /\ req[r].input.mode # "embed"
          /\ req' = [req EXCEPT
                       ![r].kind = kind,
                       ![r].pc = IF req[r].input.mode = "blocking"
                                    /\ kind # "empty"
                                 THEN "put" ELSE "deliver"]
          /\ UNCHANGED outVars
    /\ UNCHANGED sharedVars

(* Only a failed local call falls back, once, and only if the policy had   *)
(* cleared the payload for the cloud.                                      *)
MayFallBack(r) ==
    /\ req[r].input.mode # "embed"
    /\ req[r].target = "local"
    /\ ~req[r].fell
    /\ CloudFallbackAllowed(ViewOf(r).policy, req[r].verdict)

(* The call fails with nothing yet written to the client.                  *)
FailClean(r) ==
    /\ req[r].pc = "wait"
    /\ \/ MayFallBack(r) /\ Call(r, "cloud")
       \/ /\ ~MayFallBack(r)
          /\ Close(r, "unavailable", <<>>, "none")
          /\ UNCHANGED sharedVars

(* A stream breaks after its first byte: what was received is flushed      *)
(* through the guard and the request ends as an answered one.              *)
FailMidStream(r, kind) ==
    /\ Answers(r)
    /\ req[r].input.mode = "stream"
    /\ req' = [req EXCEPT ![r].pc = "deliver", ![r].kind = kind,
                          ![r].broken = TRUE]
    /\ UNCHANGED sharedVars
    /\ UNCHANGED outVars

(* Cache.Put: one entry per key; a full cache evicts another entry.        *)
Store(e) ==
    LET rest == {old \in cache : old.key # e.key} IN
    \/ /\ rest # cache \/ Cardinality(cache) < CacheMax
       /\ cache' = rest \cup {e}
    \/ /\ rest = cache /\ Cardinality(cache) >= CacheMax
       /\ \E old \in cache : cache' = (cache \ {old}) \cup {e}

(* The answer is stored under the key planned with, a fallback's too.      *)
Entry(r) == [key |-> Key(r), kind |-> req[r].kind, from |-> r]

(* The blocking path stores the answer before it is hydrated or guarded.   *)
Put(r) ==
    /\ req[r].pc = "put"
    /\ Store(Entry(r))
    /\ req' = [req EXCEPT ![r].pc = "deliver"]
    /\ UNCHANGED <<cfg, purging, store, level>>
    /\ UNCHANGED outVars

GuardLiveOnly(r) ==
    req[r].via # "cache" /\ req[r].kind = "destructive" /\ req[r].conf.blocks

(* The egress guard of the pinned configuration, on the hydrated answer.   *)
Withheld(r) == req[r].kind = "destructive" /\ req[r].conf.blocks

Storable(r) ==
    /\ req[r].input.mode = "stream"
    /\ req[r].via # "cache"
    /\ ~req[r].broken
    /\ ~Withheld(r)
    /\ req[r].kind # "empty"

Verdict(r) == IF Withheld(r) THEN "withheld" ELSE "answer"

(* finalize, or the stream scanner, and finish: the answer is hydrated,    *)
(* guarded, written and accounted.                                         *)
Deliver(r) ==
    /\ req[r].pc = "deliver"
    /\ ~Storable(r)
    /\ Close(r, "ok", <<RouteOf(r)>>, Verdict(r))
    /\ UNCHANGED sharedVars

(* A clean and complete stream is stored once it has been written ...      *)
StreamOut(r) ==
    /\ req[r].pc = "deliver"
    /\ Storable(r)
    /\ req' = [req EXCEPT ![r].pc = "keep", ![r].served = "answer"]
    /\ UNCHANGED sharedVars
    /\ UNCHANGED outVars

(* ... and then accounted.                                                 *)
Keep(r) ==
    /\ req[r].pc = "keep"
    /\ Store(Entry(r))
    /\ Close(r, "ok", <<RouteOf(r)>>, "answer")
    /\ UNCHANGED <<cfg, purging, store, level>>

-----------------------------------------------------------------------------
(* rulesChanged: the settings that decide what masked text looks like.     *)
RulesChanged(a, b) ==
    \/ a.global.rules # b.global.rules
    \/ DOMAIN a.tenants # DOMAIN b.tenants
    \/ \E t \in DOMAIN a.tenants : a.tenants[t].rules # b.tenants[t].rules

(* Reload publishes the new state, then purges.  Reloads are serialised.   *)
Reload(c) ==
    /\ ~purging
    /\ c # cfg
    /\ cfg' = c
    /\ purging' = RulesChanged(cfg, c)
    /\ UNCHANGED <<store, level, cache, req>>
    /\ UNCHANGED outVars

Purge ==
    /\ purging
    /\ purging' = FALSE
    /\ cache' = {}
    /\ UNCHANGED <<cfg, store, level, req>>
    /\ UNCHANGED outVars

(* The janitor, an expired Get or Drop: the id forgets its session, while  *)
(* a request that holds it keeps it.                                       *)
ExpireSession(id) ==
    /\ store[id] # NoSession
    /\ store' = [store EXCEPT ![id] = NoSession]
    /\ UNCHANGED <<cfg, purging, level, cache, req>>
    /\ UNCHANGED outVars

(* An entry outlives its TTL: the next Get drops it and misses.            *)
ExpireEntry(e) ==
    /\ cache' = cache \ {e}
    /\ UNCHANGED <<cfg, purging, store, level, req>>
    /\ UNCHANGED outVars

Step(r) ==
    \/ Authenticate(r)
    \/ Begin(r)
    \/ Mask(r)
    \/ Judge(r)
    \/ BuildEvent(r)
    \/ Refuse(r)
    \/ Hit(r)
    \/ CannotEmbed(r)
    \/ Miss(r)
    \/ \E kind \in Kinds : Reply(r, kind)
    \/ FailClean(r)
    \/ \E kind \in Kinds \ {"empty"} : FailMidStream(r, kind)
    \/ Put(r)
    \/ Deliver(r)
    \/ StreamOut(r)
    \/ Keep(r)

Environment ==
    \/ \E c \in Configs : Reload(c)
    \/ Purge
    \/ \E id \in SessionIds : ExpireSession(id)
    \/ \E e \in cache : ExpireEntry(e)

Next == Environment \/ \E r \in Requests : Step(r)

Spec == Init /\ [][Next]_vars

(* A handler's goroutine is scheduled, and every upstream call returns: it *)
(* runs under a client timeout.  Nothing obliges an operator to reload.    *)
FairSpec == Spec /\ \A r \in Requests : WF_vars(Step(r))
-----------------------------------------------------------------------------
Shapes == Seq(({"token"} \X Nat) \cup ({"text"} \X Values))

Entries == [key : Targets \X Shapes, kind : Kinds, from : Requests]

AuditEvent ==
    [action : Actions, max : Sensitivity,
     backend : Targets \cup {"none", "cache"},
     fellBack : BOOLEAN, blocked : BOOLEAN]

RequestState ==
    [pc : Phases, input : Input, conf : Configs, obj : Requests, pos : Nat,
     verdict : Actions \cup {"none"}, target : Targets \cup {"none"},
     evMax : Sensitivity, via : Targets \cup {"none", "cache"},
     fell : BOOLEAN, broken : BOOLEAN, kind : Kinds \cup {"none"},
     from : Requests, served : {"none", "answer", "withheld"},
     outcome : Outcomes \cup {"none"}]

(* The type invariant.                                                     *)
TypeOK ==
    /\ cfg \in Configs
    /\ purging \in BOOLEAN
    /\ store \in [SessionIds -> Requests \cup {NoSession}]
    /\ level \in [Requests -> Sensitivity]
    /\ cache \subseteq Entries
    /\ req \in [Requests -> RequestState]
    /\ sent \subseteq Requests \X Targets
    /\ ledger \in [Requests -> Seq({"local", "cloud", "cache"})]
    /\ audit \in [Requests -> Seq(AuditEvent)]

(* A payload reaches a cloud backend only if every finding in it, under    *)
(* the rules of the request's own tenant, is within that tenant's egress   *)
(* limit, and reaches no backend at all above the deny threshold: whatever *)
(* shares its session, falls back, is evicted or reloaded meanwhile        *)
(* (policy.go: a local-only payload never falls back).                     *)
NoConfinedEgress ==
    \A r \in Requests, t \in Targets :
        <<r, t>> \in sent =>
            \A i \in DOMAIN PartsOf(r) :
                /\ RankOf(r, i) <= ViewOf(r).policy.denyAbove
                /\ t = "cloud" => RankOf(r, i) <= ViewOf(r).policy.cloudMax

(* A conversation confines its later turns: when a request is cleared for  *)
(* the cloud, nothing any request noted before it on the same session is   *)
(* above the limit, its own payload included (session.go: MaxSensitivity   *)
(* is the highest classification seen in this session).                    *)
ConversationConfines ==
    [][\A r, q \in Requests :
         /\ req[r].verdict = "none"
         /\ req'[r].verdict = "allow"
         /\ req[q].obj = req[r].obj
         => \A i \in 1..(req[q].pos - 1) :
                RankOf(q, i) <= ViewOf(r).policy.cloudMax]_vars

(* The audit trail never understates: the classification an event records  *)
(* is at least every class of the payload, and alone justifies an action   *)
(* at least as strict as the one recorded, although the event reads the    *)
(* session after the verdict did.                                          *)
AuditNeverUnderstates ==
    \A r \in Requests : \A n \in DOMAIN audit[r] :
        /\ \A i \in DOMAIN PartsOf(r) : RankOf(r, i) <= audit[r][n].max
        /\ audit[r][n].action # "allow" =>
               Evaluate(ViewOf(r).policy, audit[r][n].max) # "allow"

(* The audit trail names every backend a payload reached: the one in the   *)
(* event, and the local one too when the event says the request fell back  *)
(* (audit.go: "who sent what class of data, where did it go").             *)
AuditNamesEveryBackend ==
    \A r \in Requests, t \in Targets : \A n \in DOMAIN audit[r] :
        <<r, t>> \in sent =>
            \/ audit[r][n].backend = t
            \/ audit[r][n].fellBack /\ t = "local"

(* A planned request is audited exactly once however it ends, an answered  *)
(* one is billed exactly once, and nothing else is audited or billed.      *)
AccountedOnce ==
    \A r \in Requests :
        /\ Len(audit[r]) =
               IF req[r].outcome \in {"ok", "denied", "unavailable"}
               THEN 1 ELSE 0
        /\ Len(ledger[r]) = IF req[r].outcome = "ok" THEN 1 ELSE 0

(* No destructive operation is handed over under a guard that blocks it,   *)
(* fresh, streamed, or replayed from an entry stored under a guard that    *)
(* did not, and the event says that it was withheld.                       *)
VettedDelivery ==
    \A r \in Requests :
        /\ req[r].served = "answer" =>
               ~(req[r].kind = "destructive" /\ req[r].conf.blocks)
        /\ \A n \in DOMAIN audit[r] :
               audit[r][n].blocked <=> req[r].served = "withheld"

(* A cache hit replays an answer given to the same question: a payload of  *)
(* the same shape, tools included, planned for the same model, even when   *)
(* a reload changed the rules between the two.                             *)
HitAnswersTheSameQuestion ==
    \A r \in Requests :
        req[r].via = "cache" =>
            /\ req[req[r].from].target = req[r].target
            /\ Shape(ViewOf(req[r].from).rules, PartsOf(req[r].from))
                 = Shape(ViewOf(r).rules, PartsOf(r))

(* gateway.go: "A request that begins under one configuration must finish  *)
(* under it".  The middleware and the handler each read the configuration  *)
(* in force, so a reload between the two judges a request by a             *)
(* configuration its credential was never checked against.                 *)
OneConfigurationPerRequest ==
    [][\A r \in Requests :
         req[r].pc = "begin" /\ req'[r].pc = "mask"
         => req'[r].conf = req[r].conf]_vars
=============================================================================
