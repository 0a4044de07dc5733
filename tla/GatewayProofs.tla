---------------------------- MODULE GatewayProofs ----------------------------
(***************************************************************************)
(* What the request path guarantees for any number of requests, sessions,  *)
(* tenants, configurations and payloads.                                   *)
(***************************************************************************)
EXTENDS Gateway, SequenceTheorems, WellFoundedInduction, TLAPS

-----------------------------------------------------------------------------
(* A set of positions has a least member.                                  *)
LEMMA LeastPosition ==
    ASSUME NEW T, T \subseteq Nat, T # {}
    PROVE  \E j \in T : \A k \in T : j <= k
<1>1. PICK j \in T : \A k \in T : ~ (<<k, j>> \in OpToRel(<, Nat))
  BY WFMin, NatLessThanWellFounded, Zenon
<1>2. \A k \in T : ~ (k < j)
  BY <1>1 DEF OpToRel
<1> QED
  BY <1>2

(* FirstAt points at an equal element, at or before the one asked for.     *)
LEMMA FirstAtPosition ==
    ASSUME NEW parts \in Seq(Values), NEW i \in DOMAIN parts
    PROVE  /\ FirstAt(parts, i) \in DOMAIN parts
           /\ parts[FirstAt(parts, i)] = parts[i]
<1> DEFINE Same == {k \in DOMAIN parts : parts[k] = parts[i]}
<1>1. Same \subseteq Nat /\ i \in Same
  OBVIOUS
<1>2. PICK j \in Same : \A k \in Same : j <= k
  BY <1>1, LeastPosition
<1>3. \E j2 \in DOMAIN parts :
         /\ parts[j2] = parts[i]
         /\ \A k \in DOMAIN parts : parts[k] = parts[i] => j2 <= k
  BY <1>2
<1> QED
  BY <1>3 DEF FirstAt

(* A shape is a sequence of tokens and texts as long as the payload.       *)
LEMMA ShapeType ==
    ASSUME NEW rules \in RuleSets, NEW parts \in Seq(Values)
    PROVE  Shape(rules, parts) \in Shapes
<1> DEFINE Item == ({"token"} \X Nat) \cup ({"text"} \X Values)
           Of(i) == IF Class[rules][parts[i]] > Low
                    THEN <<"token", FirstAt(parts, i)>>
                    ELSE <<"text", parts[i]>>
<1>1. \A i \in DOMAIN parts : FirstAt(parts, i) \in Nat /\ parts[i] \in Values
  BY FirstAtPosition
<1>2. \A i \in 1..Len(parts) : Of(i) \in Item
  BY <1>1
<1>3. Shape(rules, parts) = [i \in 1..Len(parts) |-> Of(i)]
  BY DEF Shape
<1>4. Len(parts) \in Nat
  OBVIOUS
<1> HIDE DEF Of, Item
<1>5. Shape(rules, parts) \in Seq(Item)
  BY <1>2, <1>3, <1>4, IsASeq
<1> QED
  BY <1>5 DEF Shapes, Item

(* The view a request is judged by names a rule set and a policy.          *)
LEMMA ViewType ==
    ASSUME TypeOK, NEW r \in Requests
    PROVE  /\ ViewOf(r) \in View
           /\ PartsOf(r) \in Seq(Values)
           /\ \A i \in DOMAIN PartsOf(r) : RankOf(r, i) \in Sensitivity
<1>1. req[r] \in RequestState
  BY DEF TypeOK
<1>2. req[r].conf \in Config /\ req[r].input \in Input
  BY <1>1, ConfigAssumption DEF RequestState
<1>3. \A t \in DOMAIN req[r].conf.tenants : req[r].conf.tenants[t] \in View
  BY <1>2 DEF Config
<1>4. ViewOf(r) \in View
  BY <1>2, <1>3 DEF ViewOf, ViewFor, Config
<1>5. PartsOf(r) \in Seq(Values)
  BY <1>2 DEF PartsOf, Input
<1>6. \A i \in DOMAIN PartsOf(r) : RankOf(r, i) \in Sensitivity
  BY <1>4, <1>5, ClassAssumption DEF RankOf, View
<1> QED
  BY <1>4, <1>5, <1>6

-----------------------------------------------------------------------------
(* Where a request stands says which parts of its plan exist.              *)
Planned == {"event", "lookup", "wait", "put", "deliver", "keep"}

Phased ==
    \A r \in Requests :
        /\ req[r].pos \in 1..(Len(PartsOf(r)) + 1)
        /\ req[r].pc \in {"auth", "begin"} => req[r].pos = 1
        /\ req[r].pc \in {"auth", "begin", "mask"} =>
               req[r].verdict = "none"
        /\ req[r].pc \in Planned =>
               req[r].verdict \in Actions /\ req[r].target \in Targets
        /\ req[r].pc \in {"put", "deliver", "keep"} => req[r].kind \in Kinds

LEMMA InitType == Init => TypeOK
<1> SUFFICES ASSUME Init PROVE TypeOK
  OBVIOUS
<1>1. PICK arrivals \in Arrivals :
         req = [r \in Requests |-> Arriving(r, arrivals[r], cfg)]
  BY DEF Init
<1>2. cfg \in Configs
  BY DEF Init
<1>3. \A r \in Requests : arrivals[r] \in Input
  BY ArrivalAssumption
<1>4. \A r \in Requests : Arriving(r, arrivals[r], cfg) \in RequestState
  BY <1>2, <1>3 DEF Arriving, RequestState, Phases, Sensitivity, Low, Restricted
<1>5. req \in [Requests -> RequestState]
  BY <1>1, <1>4
<1>6. level \in [Requests -> Sensitivity]
  BY DEF Init, Sensitivity, Low, Restricted
<1>7. /\ ledger \in [Requests -> Seq({"local", "cloud", "cache"})]
      /\ audit \in [Requests -> Seq(AuditEvent)]
  BY DEF Init
<1> QED
  BY <1>2, <1>5, <1>6, <1>7 DEF Init, TypeOK

(* The steps of the environment.                                           *)
LEMMA EnvironmentType == TypeOK /\ Environment => TypeOK'
<1> SUFFICES ASSUME TypeOK, Environment PROVE TypeOK'
  OBVIOUS
<1>1. ASSUME NEW c \in Configs, Reload(c) PROVE TypeOK'
  BY <1>1, Zenon DEF Reload, outVars, TypeOK, RulesChanged
<1>2. CASE Purge
  BY <1>2 DEF Purge, outVars, TypeOK
<1>3. ASSUME NEW id \in SessionIds, ExpireSession(id) PROVE TypeOK'
  BY <1>3 DEF ExpireSession, outVars, TypeOK
<1>4. ASSUME NEW e \in cache, ExpireEntry(e) PROVE TypeOK'
  BY <1>4 DEF ExpireEntry, outVars, TypeOK
<1> QED
  BY <1>1, <1>2, <1>3, <1>4 DEF Environment

(* What closing a request does, once its plan exists.                      *)
LEMMA CloseType ==
    ASSUME TypeOK, NEW r \in Requests,
           req[r].verdict \in Actions,
           NEW outcome \in Outcomes,
           NEW routes \in Seq({"local", "cloud", "cache"}),
           NEW served \in {"none", "answer", "withheld"},
           Close(r, outcome, routes, served)
    PROVE  /\ req' \in [Requests -> RequestState]
           /\ ledger' \in [Requests -> Seq({"local", "cloud", "cache"})]
           /\ audit' \in [Requests -> Seq(AuditEvent)]
           /\ sent' = sent
<1>1. req[r] \in RequestState
  BY DEF TypeOK
<1>2. [req[r] EXCEPT !.pc = "done", !.outcome = outcome, !.served = served]
         \in RequestState
  BY <1>1 DEF RequestState, Phases
<1>0. req' = [req EXCEPT ![r] = [@ EXCEPT !.pc = "done", !.outcome = outcome,
                                          !.served = served]]
  BY DEF Close, TypeOK
<1>3. req' \in [Requests -> RequestState]
  BY <1>0, <1>2 DEF TypeOK
<1>4. Event(r, served) \in AuditEvent
  BY <1>1 DEF Event, AuditEvent, RequestState
<1>5. Append(audit[r], Event(r, served)) \in Seq(AuditEvent)
  BY <1>4 DEF TypeOK
<1>6. audit' \in [Requests -> Seq(AuditEvent)]
  BY <1>5 DEF Close, TypeOK
<1>7. ledger[r] \o routes \in Seq({"local", "cloud", "cache"})
  BY DEF TypeOK
<1>8. ledger' \in [Requests -> Seq({"local", "cloud", "cache"})]
  BY <1>7 DEF Close, TypeOK
<1> QED
  BY <1>3, <1>6, <1>8 DEF Close

(* What an upstream call does.                                             *)
LEMMA CallType ==
    ASSUME TypeOK, NEW r \in Requests, NEW backend \in Targets,
           Call(r, backend)
    PROVE  TypeOK'
<1>1. req[r] \in RequestState
  BY DEF TypeOK
<1>2. PICK fell \in BOOLEAN : fell = (backend # req[r].target)
  OBVIOUS
<1>3. "wait" \in Phases
  BY DEF Phases
<1>4. [req[r] EXCEPT !.pc = "wait", !.via = backend, !.fell = fell] \in RequestState
  BY <1>1, <1>3 DEF RequestState
<1>5. req' = [req EXCEPT ![r] = [@ EXCEPT !.pc = "wait", !.via = backend, !.fell = fell]]
  BY <1>2 DEF Call, TypeOK
<1>6. req' \in [Requests -> RequestState]
  BY <1>4, <1>5 DEF TypeOK
<1>7. sent' \subseteq Requests \X Targets
  BY DEF Call, TypeOK
<1> QED
  BY <1>6, <1>7 DEF Call, sharedVars, TypeOK

(* What is stored is an entry.                                             *)
LEMMA StoreType ==
    ASSUME TypeOK, NEW r \in Requests, Store(Entry(r)),
           req[r].target \in Targets, req[r].kind \in Kinds
    PROVE  cache' \subseteq Entries
<1>1. Shape(ViewOf(r).rules, PartsOf(r)) \in Shapes
  BY ViewType, ShapeType DEF View
<1>2. Key(r) \in Targets \X Shapes
  BY <1>1 DEF Key
<1>3. Entry(r) \in Entries
  BY <1>2 DEF Entry, Entries
<1> QED
  BY <1>3 DEF Store, TypeOK

-----------------------------------------------------------------------------
(* The steps of a request up to its plan.                                  *)
LEMMA PlanningType ==
    ASSUME TypeOK, Phased, NEW r \in Requests,
           Authenticate(r) \/ Begin(r) \/ Mask(r) \/ Judge(r) \/ BuildEvent(r)
    PROVE  TypeOK'
<1>0. req[r] \in RequestState /\ level[req[r].obj] \in Sensitivity
  BY DEF TypeOK, RequestState
<1>1. CASE Authenticate(r)
  <2>1. [req[r] EXCEPT !.pc = "begin", !.conf = cfg] \in RequestState
    BY <1>0 DEF RequestState, Phases, TypeOK
  <2>2. \A outcome \in Outcomes :
           [req[r] EXCEPT !.pc = "done", !.outcome = outcome] \in RequestState
    BY <1>0 DEF RequestState, Phases
  <2>3. CASE req' = [req EXCEPT ![r].pc = "begin", ![r].conf = cfg]
    <3>1. req' = [req EXCEPT ![r] = [@ EXCEPT !.pc = "begin", !.conf = cfg]]
      BY <2>3 DEF TypeOK
    <3>2. req' \in [Requests -> RequestState]
      BY <2>1, <3>1 DEF TypeOK
    <3> QED
      BY <1>1, <3>2, Zenon DEF Authenticate, Turn, sharedVars, outVars, TypeOK
  <2>4. ASSUME NEW outcome \in Outcomes, Turn(r, outcome) PROVE TypeOK'
    <3>1. req' = [req EXCEPT ![r] =
                    [@ EXCEPT !.pc = "done", !.outcome = outcome]]
      BY <2>4 DEF Turn, TypeOK
    <3>2. req' \in [Requests -> RequestState]
      BY <2>2, <3>1 DEF TypeOK
    <3> QED
      BY <1>1, <2>4, <3>2 DEF Authenticate, Turn, sharedVars, outVars, TypeOK
  <2> QED
    BY <1>1, <2>3, <2>4 DEF Authenticate, Outcomes
<1>2. CASE Begin(r)
  <2> DEFINE id == req[r].input.sid
             obj == IF id = Detached \/ store[id] = NoSession
                    THEN r ELSE store[id]
  <2>1. id \in SessionIds \cup {Detached}
    BY <1>0 DEF RequestState, Input
  <2>2. obj \in Requests
    BY <2>1 DEF TypeOK
  <2>3. req' = [req EXCEPT ![r] =
                  [@ EXCEPT !.pc = "mask", !.conf = cfg, !.obj = obj]]
    BY <1>2 DEF Begin, TypeOK
  <2> HIDE DEF obj
  <2>4. [req[r] EXCEPT !.pc = "mask", !.conf = cfg, !.obj = obj]
           \in RequestState
    BY <1>0, <2>2 DEF RequestState, Phases, TypeOK
  <2>5. req' \in [Requests -> RequestState]
    BY <2>3, <2>4 DEF TypeOK
  <2>6. store' \in [SessionIds -> Requests \cup {NoSession}]
    BY <1>2, <2>1 DEF Begin, OpenSession, Others, TypeOK
  <2> QED
    BY <1>2, <2>5, <2>6 DEF Begin, outVars, TypeOK
<1>3. CASE Mask(r)
  <2>1. req[r].pos \in DOMAIN PartsOf(r)
    <3>1. req[r].pos >= 1
      BY DEF Phased
    <3> QED
      BY <1>0, <1>3, <3>1, ViewType DEF Mask, RequestState
  <2>2. RankOf(r, req[r].pos) \in Sensitivity
    BY <2>1, ViewType
  <2>3. Higher(level[req[r].obj], RankOf(r, req[r].pos)) \in Sensitivity
    BY <1>0, <2>2 DEF Higher
  <2>4. level' \in [Requests -> Sensitivity]
    BY <1>3, <2>3 DEF Mask, NoteFinding, TypeOK
  <2>5. [req[r] EXCEPT !.pos = @ + 1] \in RequestState
    BY <1>0 DEF RequestState
  <2>6. req' \in [Requests -> RequestState]
    BY <1>3, <2>5 DEF Mask, TypeOK
  <2> QED
    BY <1>3, <2>4, <2>6 DEF Mask, outVars, TypeOK
<1>4. CASE Judge(r)
  <2> DEFINE action == Evaluate(ViewOf(r).policy, level[req[r].obj])
  <2>1. action \in Actions
    BY DEF Evaluate, Actions
  <2>2. Routed(r, action) \subseteq Targets
    BY DEF Routed, Constrain, Targets
  <2>3. PICK t \in Routed(r, action) :
           req' = [req EXCEPT ![r].pc = "event", ![r].verdict = action,
                              ![r].target = t]
    BY <1>4 DEF Judge
  <2> HIDE DEF action
  <2>4. t \in Targets
    BY <2>2, <2>3
  <2>5. [req[r] EXCEPT !.pc = "event", !.verdict = action, !.target = t]
           \in RequestState
    BY <1>0, <2>1, <2>4 DEF RequestState, Phases
  <2>6. req' = [req EXCEPT ![r] =
                  [@ EXCEPT !.pc = "event", !.verdict = action, !.target = t]]
    BY <2>3 DEF TypeOK
  <2>7. req' \in [Requests -> RequestState]
    BY <2>5, <2>6 DEF TypeOK
  <2> QED
    BY <1>4, <2>7 DEF Judge, sharedVars, outVars, TypeOK
<1>5. CASE BuildEvent(r)
  <2>1. [req[r] EXCEPT !.pc = "lookup", !.evMax = EventMax(r)] \in RequestState
    BY <1>0 DEF RequestState, Phases, EventMax
  <2>2. req' = [req EXCEPT ![r] =
                  [@ EXCEPT !.pc = "lookup", !.evMax = EventMax(r)]]
    BY <1>5 DEF BuildEvent, TypeOK
  <2>3. req' \in [Requests -> RequestState]
    BY <2>1, <2>2 DEF TypeOK
  <2> QED
    BY <1>5, <2>3 DEF BuildEvent, sharedVars, outVars, TypeOK
<1> QED
  BY <1>1, <1>2, <1>3, <1>4, <1>5

(* The steps from the plan to an answer or a failure.                      *)
LEMMA DispatchType ==
    ASSUME TypeOK, Phased, NEW r \in Requests,
           \/ Refuse(r) \/ Hit(r) \/ CannotEmbed(r) \/ Miss(r) \/ FailClean(r)
           \/ \E kind \in Kinds : Reply(r, kind)
           \/ \E kind \in Kinds \ {"empty"} : FailMidStream(r, kind)
    PROVE  TypeOK'
<1>0. req[r] \in RequestState
  BY DEF TypeOK
<1>1. ASSUME NEW outcome \in Outcomes,
             NEW routes \in Seq({"local", "cloud", "cache"}),
             NEW served \in {"none", "answer", "withheld"},
             req[r].verdict \in Actions,
             Close(r, outcome, routes, served), UNCHANGED sharedVars
      PROVE  TypeOK'
  BY <1>1, CloseType DEF sharedVars, TypeOK
<1>2. CASE Refuse(r)
  <2>1. req[r].verdict \in Actions
    BY <1>2 DEF Refuse, Actions
  <2>2. <<>> \in Seq({"local", "cloud", "cache"}) /\ "denied" \in Outcomes
    BY DEF Outcomes
  <2> QED
    BY <1>1, <1>2, <2>1, <2>2 DEF Refuse
<1>3. CASE Hit(r)
  <2>1. PICK e \in cache :
           req' = [req EXCEPT ![r].pc = "deliver", ![r].via = "cache",
                              ![r].kind = e.kind, ![r].from = e.from]
    BY <1>3 DEF Hit
  <2>2. e.kind \in Kinds /\ e.from \in Requests
    BY DEF TypeOK, Entries
  <2>3. [req[r] EXCEPT !.pc = "deliver", !.via = "cache", !.kind = e.kind,
                       !.from = e.from] \in RequestState
    BY <1>0, <2>2 DEF RequestState, Phases
  <2>4. req' = [req EXCEPT ![r] = [@ EXCEPT !.pc = "deliver", !.via = "cache",
                                           !.kind = e.kind, !.from = e.from]]
    BY <2>1 DEF TypeOK
  <2>5. req' \in [Requests -> RequestState]
    BY <2>3, <2>4 DEF TypeOK
  <2> QED
    BY <1>3, <2>5 DEF Hit, sharedVars, outVars, TypeOK
<1>4. CASE CannotEmbed(r)
  <2>0. req[r].verdict \in Actions /\ req[r].target \in Targets
    BY <1>4 DEF CannotEmbed, Proceeds, Phased, Planned
  <2>1. "done" \in Phases /\ "unavailable" \in Outcomes
    BY DEF Phases, Outcomes
  <2>2. [req[r] EXCEPT !.pc = "done", !.outcome = "unavailable",
                       !.served = "none"] \in RequestState
    BY <1>0, <2>1 DEF RequestState
  <2>3. req' = [req EXCEPT ![r] = [@ EXCEPT !.pc = "done",
                  !.outcome = "unavailable", !.served = "none"]]
    BY <1>4 DEF CannotEmbed, TypeOK
  <2>4. req' \in [Requests -> RequestState]
    BY <2>2, <2>3 DEF TypeOK
  <2>5. [Event(r, "none") EXCEPT !.backend = req[r].target] \in AuditEvent
    BY <1>0, <2>0 DEF Event, AuditEvent, RequestState
  <2>6. audit' \in [Requests -> Seq(AuditEvent)]
    BY <1>4, <2>5 DEF CannotEmbed, TypeOK
  <2> QED
    BY <1>4, <2>4, <2>6 DEF CannotEmbed, sharedVars, TypeOK
<1>5. CASE Miss(r)
  <2>1. req[r].target \in Targets
    BY <1>5 DEF Miss, Proceeds, Phased, Planned
  <2> QED
    BY <1>5, <2>1, CallType DEF Miss
<1>6. CASE FailClean(r)
  <2>1. CASE Call(r, "cloud")
    BY <2>1, CallType DEF Targets
  <2>2. CASE Close(r, "unavailable", <<>>, "none") /\ UNCHANGED sharedVars
    <3>1. req[r].verdict \in Actions
      BY <1>6 DEF FailClean, Phased, Planned
    <3>2. /\ <<>> \in Seq({"local", "cloud", "cache"})
          /\ "unavailable" \in Outcomes
      BY DEF Outcomes
    <3> QED
      BY <1>1, <2>2, <3>1, <3>2
  <2> QED
    BY <1>6, <2>1, <2>2 DEF FailClean
<1>7. ASSUME NEW kind \in Kinds, Reply(r, kind) PROVE TypeOK'
  <2>0. req[r].verdict \in Actions /\ req[r].target \in Targets
    BY <1>7 DEF Reply, Answers, Phased, Planned
  <2>1. CASE Close(r, "ok", <<RouteOf(r)>>, "answer")
    <3>1. <<RouteOf(r)>> \in Seq({"local", "cloud", "cache"})
      BY <2>0 DEF RouteOf, Targets
    <3> QED
      BY <1>1, <1>7, <2>0, <2>1, <3>1 DEF Reply, Outcomes
  <2>2. CASE req[r].input.mode # "embed"
    <3> DEFINE next == IF req[r].input.mode = "blocking" /\ kind # "empty"
                       THEN "put" ELSE "deliver"
    <3>1. next \in Phases
      BY DEF Phases
    <3>2. req' = [req EXCEPT ![r] = [@ EXCEPT !.kind = kind, !.pc = next]]
      BY <1>7, <2>2 DEF Reply, TypeOK
    <3> HIDE DEF next
    <3>3. [req[r] EXCEPT !.kind = kind, !.pc = next] \in RequestState
      BY <1>0, <3>1 DEF RequestState
    <3>4. req' \in [Requests -> RequestState]
      BY <3>2, <3>3 DEF TypeOK
    <3> QED
      BY <1>7, <2>2, <3>4 DEF Reply, sharedVars, outVars, TypeOK
  <2> QED
    BY <1>7, <2>1, <2>2 DEF Reply
<1>8. ASSUME NEW kind \in Kinds, FailMidStream(r, kind) PROVE TypeOK'
  <2>1. [req[r] EXCEPT !.pc = "deliver", !.kind = kind, !.broken = TRUE]
           \in RequestState
    BY <1>0 DEF RequestState, Phases
  <2>2. req' = [req EXCEPT ![r] = [@ EXCEPT !.pc = "deliver", !.kind = kind,
                                           !.broken = TRUE]]
    BY <1>8 DEF FailMidStream, TypeOK
  <2>3. req' \in [Requests -> RequestState]
    BY <2>1, <2>2 DEF TypeOK
  <2> QED
    BY <1>8, <2>3 DEF FailMidStream, sharedVars, outVars, TypeOK
<1> QED
  BY <1>2, <1>3, <1>4, <1>5, <1>6, <1>7, <1>8

(* The steps that store and hand over an answer.                           *)
LEMMA DeliveryType ==
    ASSUME TypeOK, Phased, NEW r \in Requests,
           Put(r) \/ Deliver(r) \/ StreamOut(r) \/ Keep(r)
    PROVE  TypeOK'
<1>0. req[r] \in RequestState
  BY DEF TypeOK
<1>1. req[r].verdict \in Actions /\ req[r].target \in Targets
  BY DEF Phased, Planned, Put, Deliver, StreamOut, Keep
<1>2. <<RouteOf(r)>> \in Seq({"local", "cloud", "cache"})
  BY <1>1 DEF RouteOf, Targets
<1>3. req[r].kind \in Kinds
  BY DEF Phased, Put, Deliver, StreamOut, Keep
<1>4. CASE Put(r)
  <2>1. [req[r] EXCEPT !.pc = "deliver"] \in RequestState
    BY <1>0 DEF RequestState, Phases
  <2>2. req' \in [Requests -> RequestState]
    BY <1>4, <2>1 DEF Put, TypeOK
  <2>3. cache' \subseteq Entries
    BY <1>1, <1>3, <1>4, StoreType DEF Put
  <2> QED
    BY <1>4, <2>2, <2>3 DEF Put, outVars, TypeOK
<1>5. CASE Deliver(r)
  BY <1>1, <1>2, <1>5, CloseType DEF Deliver, Verdict, Outcomes, sharedVars, TypeOK
<1>6. CASE StreamOut(r)
  <2>1. [req[r] EXCEPT !.pc = "keep", !.served = "answer"] \in RequestState
    BY <1>0 DEF RequestState, Phases
  <2>2. req' = [req EXCEPT ![r] = [@ EXCEPT !.pc = "keep", !.served = "answer"]]
    BY <1>6 DEF StreamOut, TypeOK
  <2>3. req' \in [Requests -> RequestState]
    BY <2>1, <2>2 DEF TypeOK
  <2> QED
    BY <1>6, <2>3 DEF StreamOut, sharedVars, outVars, TypeOK
<1>7. CASE Keep(r)
  <2>1. cache' \subseteq Entries
    BY <1>1, <1>3, <1>7, StoreType DEF Keep
  <2> QED
    BY <1>1, <1>2, <1>7, <2>1, CloseType DEF Keep, Outcomes, TypeOK
<1> QED
  BY <1>4, <1>5, <1>6, <1>7

LEMMA NextType == TypeOK /\ Phased /\ [Next]_vars => TypeOK'
<1> SUFFICES ASSUME TypeOK, Phased, [Next]_vars PROVE TypeOK'
  OBVIOUS
<1>1. CASE UNCHANGED vars
  BY <1>1 DEF vars, TypeOK
<1>2. CASE Environment
  BY <1>2, EnvironmentType
<1>3. ASSUME NEW r \in Requests, Step(r) PROVE TypeOK'
  BY <1>3, PlanningType, DispatchType, DeliveryType DEF Step
<1> QED
  BY <1>1, <1>2, <1>3 DEF Next

-----------------------------------------------------------------------------
(* What was noted of a request's payload is in its session's class.        *)
Noted(r) ==
    \A i \in 1..(req[r].pos - 1) : RankOf(r, i) <= level[req[r].obj]

(* A verdict covers the whole payload, binds the route, and stays          *)
(* justified however far the session's class rises afterwards.             *)
Cleared(r) ==
    req[r].verdict # "none" =>
        /\ req[r].pos = Len(PartsOf(r)) + 1
        /\ req[r].verdict # "deny" =>
               \A i \in DOMAIN PartsOf(r) :
                   RankOf(r, i) <= ViewOf(r).policy.denyAbove
        /\ req[r].verdict = "allow" =>
               \A i \in DOMAIN PartsOf(r) :
                   RankOf(r, i) <= ViewOf(r).policy.cloudMax
        /\ req[r].verdict # "allow" =>
               Evaluate(ViewOf(r).policy, level[req[r].obj]) # "allow"
        /\ req[r].target = "cloud" => req[r].verdict # "local_only"

(* The class in the audit event covers the payload and justifies the       *)
(* verdict.                                                                *)
Graded(r) ==
    req[r].verdict # "none" /\ req[r].pc # "event" =>
        /\ \A i \in DOMAIN PartsOf(r) : RankOf(r, i) <= req[r].evMax
        /\ req[r].verdict # "allow" =>
               Evaluate(ViewOf(r).policy, req[r].evMax) # "allow"

(* What was sent had been cleared for the backend it was sent to.          *)
Dispatched(r) ==
    \A t \in Targets :
        <<r, t>> \in sent =>
            /\ req[r].verdict \in {"allow", "local_only"}
            /\ t = "cloud" => req[r].verdict = "allow"

(* The plan of a request is not touched.                                   *)
Kept(r) ==
    /\ req'[r].conf = req[r].conf /\ req'[r].input = req[r].input
    /\ req'[r].obj = req[r].obj /\ req'[r].pos = req[r].pos
    /\ req'[r].verdict = req[r].verdict /\ req'[r].target = req[r].target

LEMMA SameView ==
    ASSUME NEW r \in Requests,
           req'[r].conf = req[r].conf, req'[r].input = req[r].input
    PROVE  /\ ViewOf(r)' = ViewOf(r)
           /\ PartsOf(r)' = PartsOf(r)
           /\ \A i : RankOf(r, i)' = RankOf(r, i)
BY DEF ViewOf, PartsOf, RankOf

(* The stricter a class, the stricter the verdict.                         *)
LEMMA EvaluateMonotone ==
    ASSUME NEW policy \in Policy, NEW a \in Sensitivity, NEW b \in Sensitivity,
           a <= b, Evaluate(policy, a) # "allow"
    PROVE  Evaluate(policy, b) # "allow"
BY DEF Evaluate, Policy, Sensitivity, DenyDisabled, Low, Restricted

LEMMA SensitivityNat == Sensitivity \subseteq Nat
BY DEF Sensitivity, Low, Restricted

(* The numbers the invariants compare.                                     *)
LEMMA Numbers ==
    ASSUME TypeOK, NEW r \in Requests
    PROVE  /\ Len(PartsOf(r)) \in Nat
           /\ DOMAIN PartsOf(r) = 1..Len(PartsOf(r))
           /\ req[r].pos \in Nat
           /\ \A i \in 1..Len(PartsOf(r)) : RankOf(r, i) \in Nat
           /\ ViewOf(r).policy \in Policy
           /\ ViewOf(r).policy.denyAbove \in Nat
           /\ ViewOf(r).policy.cloudMax \in Nat
           /\ req[r].obj \in Requests
           /\ \A o \in Requests : level[o] \in Nat
<1>1. PartsOf(r) \in Seq(Values)
  BY ViewType
<1>2. \A i \in DOMAIN PartsOf(r) : RankOf(r, i) \in Nat
  BY ViewType, SensitivityNat
<1>3. /\ ViewOf(r).policy \in Policy
      /\ ViewOf(r).policy.denyAbove \in Low..DenyDisabled
      /\ ViewOf(r).policy.cloudMax \in Sensitivity
  BY ViewType DEF View, Policy
<1>4. Low..DenyDisabled \subseteq Nat
  BY DEF DenyDisabled, Low, Restricted
<1>5. req[r] \in RequestState
  BY DEF TypeOK
<1>6. \A o \in Requests : level[o] \in Nat
  BY SensitivityNat DEF TypeOK
<1>7. Len(PartsOf(r)) \in Nat /\ DOMAIN PartsOf(r) = 1..Len(PartsOf(r))
  BY <1>1
<1>8. /\ ViewOf(r).policy.denyAbove \in Nat
      /\ ViewOf(r).policy.cloudMax \in Nat
  BY <1>3, <1>4, SensitivityNat
<1>9. req[r].pos \in Nat /\ req[r].obj \in Requests
  BY <1>5 DEF RequestState
<1> QED
  BY <1>2, <1>3, <1>6, <1>7, <1>8, <1>9

(* Before its plan, a request is only given a configuration and a session. *)
LEMMA EntryKept ==
    ASSUME TypeOK, NEW r \in Requests, Authenticate(r) \/ Begin(r)
    PROVE  /\ req'[r].input = req[r].input
           /\ req'[r].pos = req[r].pos
           /\ req'[r].verdict = req[r].verdict
           /\ req'[r].kind = req[r].kind
           /\ req'[r].served = req[r].served
           /\ req[r].pc \in {"auth", "begin"}
           /\ req'[r].pc \in {"begin", "mask", "done"}
           /\ sent' = sent /\ ledger' = ledger /\ audit' = audit
           /\ IF req'[r].pc = "done"
              THEN req'[r].outcome \in {"unauthorized", "refused"}
              ELSE req'[r].outcome = req[r].outcome
<1>0. req[r] \in RequestState /\ req \in [Requests -> RequestState]
  BY DEF TypeOK
<1>1. CASE Begin(r)
  BY <1>0, <1>1 DEF Begin, outVars, RequestState
<1>2. CASE Authenticate(r)
  <2>1. req[r].pc = "auth" /\ sent' = sent /\ ledger' = ledger /\ audit' = audit
    BY <1>2 DEF Authenticate, Turn, outVars
  <2>2. CASE req' = [req EXCEPT ![r].pc = "begin", ![r].conf = cfg]
    BY <1>0, <2>1, <2>2 DEF RequestState
  <2>3. ASSUME NEW outcome \in {"unauthorized", "refused"},
               req' = [req EXCEPT ![r].pc = "done", ![r].outcome = outcome]
        PROVE  /\ req'[r] = [req[r] EXCEPT !.pc = "done", !.outcome = outcome]
    BY <1>0, <2>3 DEF RequestState
  <2>4. CASE \E outcome \in {"unauthorized", "refused"} : Turn(r, outcome)
    BY <1>0, <2>1, <2>3, <2>4 DEF Turn, RequestState
  <2> QED
    BY <1>2, <2>2, <2>4 DEF Authenticate
<1> QED
  BY <1>1, <1>2

(* A step is of one request: of the others nothing changes.                *)
LEMMA OnlyItself ==
    ASSUME TypeOK, NEW r \in Requests, Step(r), NEW q \in Requests, q # r
    PROVE  /\ req'[q] = req[q]
           /\ ledger'[q] = ledger[q]
           /\ audit'[q] = audit[q]
           /\ \A t : <<q, t>> \in sent' <=> <<q, t>> \in sent
<1> USE DEF TypeOK, sharedVars, outVars
<1>1. CASE Authenticate(r)
  BY <1>1 DEF Authenticate, Turn
<1>2. CASE Begin(r) \/ Mask(r)
  BY <1>2 DEF Begin, Mask
<1>3. CASE Judge(r) \/ BuildEvent(r)
  BY <1>3 DEF Judge, BuildEvent
<1>4. CASE Hit(r) \/ CannotEmbed(r)
  BY <1>4 DEF Hit, CannotEmbed
<1>5. ASSUME NEW backend, Call(r, backend)
      PROVE  /\ req'[q] = req[q] /\ ledger'[q] = ledger[q]
             /\ audit'[q] = audit[q]
             /\ \A t : <<q, t>> \in sent' <=> <<q, t>> \in sent
  BY <1>5 DEF Call
<1>6. ASSUME NEW outcome, NEW routes, NEW served,
             Close(r, outcome, routes, served)
      PROVE  /\ req'[q] = req[q] /\ ledger'[q] = ledger[q]
             /\ audit'[q] = audit[q]
             /\ \A t : <<q, t>> \in sent' <=> <<q, t>> \in sent
  BY <1>6 DEF Close
<1>7. ASSUME NEW kind, Reply(r, kind) \/ FailMidStream(r, kind)
      PROVE  /\ req'[q] = req[q] /\ ledger'[q] = ledger[q]
             /\ audit'[q] = audit[q]
             /\ \A t : <<q, t>> \in sent' <=> <<q, t>> \in sent
  BY <1>6, <1>7 DEF Reply, FailMidStream
<1>8. CASE Put(r) \/ StreamOut(r)
  BY <1>8 DEF Put, StreamOut
<1> QED
  BY <1>1, <1>2, <1>3, <1>4, <1>5, <1>6, <1>7, <1>8
  DEF Step, Refuse, Miss, FailClean, Deliver, Keep

(* A session's class never falls.                                          *)
LEMMA LevelRises ==
    ASSUME TypeOK, Phased, Next
    PROVE  \A o \in Requests : level[o] <= level'[o]
<1>01. level \in [Requests -> Sensitivity]
  BY DEF TypeOK
<1>02. Sensitivity \subseteq Nat
  BY DEF Sensitivity, Low, Restricted
<1>03. level = [o \in Requests |-> level[o]]
  BY <1>01
<1>0. /\ \A o \in Requests : level[o] \in Nat
      /\ level = [o \in Requests |-> level[o]]
  BY <1>01, <1>02, <1>03
<1>1. ASSUME NEW r \in Requests, Mask(r)
      PROVE  \A o \in Requests : level[o] <= level'[o]
  <2>1. req[r].pos \in DOMAIN PartsOf(r)
    BY <1>1, ViewType DEF Mask, Phased
  <2>2. RankOf(r, req[r].pos) \in Nat
    BY <2>1, ViewType DEF Sensitivity, Low, Restricted
  <2>3. \A a, b \in Nat : a <= Higher(a, b)
    BY DEF Higher
  <2>4. level' = [level EXCEPT ![req[r].obj] =
                    Higher(@, RankOf(r, req[r].pos))]
    BY <1>1 DEF Mask, NoteFinding
  <2> HIDE DEF Higher
  <2> QED
    BY <1>0, <2>2, <2>3, <2>4
<1>2. ASSUME UNCHANGED level
      PROVE  \A o \in Requests : level[o] <= level'[o]
  BY <1>0, <1>2
<1>3. Environment => UNCHANGED level
  BY DEF Environment, Reload, Purge, ExpireSession, ExpireEntry
<1>4. ASSUME NEW r \in Requests,
             \/ Authenticate(r) \/ Begin(r) \/ Judge(r) \/ BuildEvent(r) \/ Refuse(r) \/ Hit(r)
             \/ Put(r) \/ Deliver(r) \/ StreamOut(r) \/ Keep(r)
      PROVE  UNCHANGED level
  BY <1>4 DEF Authenticate, Begin, Judge, BuildEvent, Refuse, Hit, Put, Deliver, StreamOut,
              Keep, sharedVars
<1>5. ASSUME NEW r \in Requests,
             \/ CannotEmbed(r) \/ Miss(r) \/ FailClean(r)
             \/ \E kind \in Kinds : Reply(r, kind) \/ FailMidStream(r, kind)
      PROVE  UNCHANGED level
  BY <1>5 DEF CannotEmbed, Miss, Call, Reply, FailClean, FailMidStream, sharedVars
<1> QED
  BY <1>1, <1>2, <1>3, <1>4, <1>5 DEF Next, Step

(* What is planned stays planned: from the verdict on, no step changes the *)
(* plan, and only these steps end or send anything.                        *)
PlannedStep(r) ==
    \/ Refuse(r) \/ Hit(r) \/ CannotEmbed(r) \/ Miss(r) \/ FailClean(r)
    \/ \E kind \in Kinds : Reply(r, kind)
    \/ \E kind \in Kinds \ {"empty"} : FailMidStream(r, kind)
    \/ Put(r) \/ Deliver(r) \/ StreamOut(r) \/ Keep(r)

LEMMA PlanKept ==
    ASSUME TypeOK, NEW r \in Requests, PlannedStep(r)
    PROVE  /\ Kept(r)
           /\ req'[r].evMax = req[r].evMax
           /\ req[r].pc \in Planned \ {"event"}
           /\ req'[r].pc \in (Planned \ {"event"}) \cup {"done"}
<1>0. req[r] \in RequestState /\ req \in [Requests -> RequestState]
  BY DEF TypeOK
<1> USE DEF Planned
<1>1. ASSUME NEW outcome, NEW routes, NEW served,
             Close(r, outcome, routes, served)
      PROVE  Kept(r) /\ req'[r].evMax = req[r].evMax /\ req'[r].pc = "done"
  BY <1>0, <1>1 DEF Close, Kept, RequestState
<1>2. ASSUME NEW backend, Call(r, backend)
      PROVE  Kept(r) /\ req'[r].evMax = req[r].evMax /\ req'[r].pc = "wait"
  BY <1>0, <1>2 DEF Call, Kept, RequestState
<1>3. CASE Refuse(r) \/ Deliver(r) \/ Keep(r)
  BY <1>1, <1>3 DEF Refuse, Deliver, Keep
<1>4. CASE Miss(r) \/ FailClean(r)
  BY <1>1, <1>2, <1>4 DEF Miss, Proceeds, FailClean
<1>5. CASE Hit(r)
  BY <1>0, <1>5 DEF Hit, Proceeds, Kept, RequestState
<1>6. CASE CannotEmbed(r)
  BY <1>0, <1>6 DEF CannotEmbed, Proceeds, Kept, RequestState
<1>7. ASSUME NEW kind \in Kinds, Reply(r, kind)
      PROVE  /\ Kept(r)
             /\ req'[r].evMax = req[r].evMax
             /\ req[r].pc = "wait"
             /\ req'[r].pc \in {"put", "deliver", "done"}
  <2>1. CASE Close(r, "ok", <<RouteOf(r)>>, "answer")
    BY <1>1, <1>7, <2>1 DEF Reply, Answers
  <2>2. CASE req[r].input.mode # "embed"
    BY <1>0, <1>7, <2>2 DEF Reply, Answers, Kept, RequestState
  <2> QED
    BY <1>7, <2>1, <2>2 DEF Reply
<1>8. ASSUME NEW kind \in Kinds, FailMidStream(r, kind)
      PROVE  /\ Kept(r)
             /\ req'[r].evMax = req[r].evMax
             /\ req[r].pc = "wait" /\ req'[r].pc = "deliver"
  BY <1>0, <1>8 DEF FailMidStream, Answers, Kept, RequestState
<1>9. CASE Put(r) \/ StreamOut(r)
  BY <1>0, <1>9 DEF Put, StreamOut, Kept, RequestState
<1> QED
  BY <1>3, <1>4, <1>5, <1>6, <1>7, <1>8, <1>9 DEF PlannedStep

-----------------------------------------------------------------------------
(* Control is where the plan says.                                         *)
LEMMA InitPhased == Init => Phased
<1> SUFFICES ASSUME Init PROVE Phased
  OBVIOUS
<1>1. PICK arrivals \in Arrivals :
         req = [r \in Requests |-> Arriving(r, arrivals[r], cfg)]
  BY DEF Init
<1>2. \A r \in Requests : Len(PartsOf(r)) \in Nat
  BY InitType, ViewType
<1> QED
  BY <1>1, <1>2 DEF Arriving, Phased, Planned

LEMMA NextPhased == TypeOK /\ Phased /\ [Next]_vars => Phased'
<1> SUFFICES ASSUME TypeOK, Phased, [Next]_vars PROVE Phased'
  OBVIOUS
<1> DEFINE At(r) ==
      /\ req[r].pos \in 1..(Len(PartsOf(r)) + 1)
      /\ req[r].pc \in {"auth", "begin"} => req[r].pos = 1
      /\ req[r].pc \in {"auth", "begin", "mask"} => req[r].verdict = "none"
      /\ req[r].pc \in Planned =>
             req[r].verdict \in Actions /\ req[r].target \in Targets
      /\ req[r].pc \in {"put", "deliver", "keep"} => req[r].kind \in Kinds
<1>1. SUFFICES ASSUME NEW q \in Requests PROVE At(q)'
  BY Zenon DEF Phased
<1>2. At(q) /\ TypeOK'
  BY NextType, Zenon DEF Phased
<1>3. req \in [Requests -> RequestState] /\ Len(PartsOf(q)) \in Nat
  BY ViewType DEF TypeOK
<1>4. CASE req'[q] = req[q]
  BY <1>2, <1>4 DEF PartsOf
<1>5. CASE Authenticate(q) \/ Begin(q)
  <2>1. PartsOf(q)' = PartsOf(q)
    BY <1>5, EntryKept DEF PartsOf
  <2>2. /\ req'[q].pos = req[q].pos /\ req'[q].verdict = req[q].verdict
        /\ req[q].pc \in {"auth", "begin"}
        /\ req'[q].pc \in {"begin", "mask", "done"}
    BY <1>5, EntryKept
  <2> QED
    BY <1>2, <1>3, <2>1, <2>2 DEF Planned
<1>6. CASE Mask(q)
  <2>1. PartsOf(q)' = PartsOf(q)
    BY <1>3, <1>6 DEF Mask, PartsOf
  <2>2. /\ req'[q].pos = req[q].pos + 1 /\ req'[q].verdict = req[q].verdict
        /\ req[q].pc = "mask" /\ req'[q].pc = "mask"
        /\ req[q].pos <= Len(PartsOf(q))
    BY <1>3, <1>6 DEF Mask
  <2> QED
    BY <1>2, <1>3, <2>1, <2>2 DEF Planned
<1>7. CASE Judge(q)
  <2> DEFINE action == Evaluate(ViewOf(q).policy, level[req[q].obj])
  <2>1. PICK t \in Routed(q, action) :
           req' = [req EXCEPT ![q].pc = "event", ![q].verdict = action,
                              ![q].target = t]
    BY <1>7 DEF Judge
  <2>2. action \in Actions /\ t \in Targets
    BY <2>1 DEF Evaluate, Actions, Routed, Constrain, Targets
  <2> HIDE DEF action
  <2>3. /\ PartsOf(q)' = PartsOf(q) /\ req'[q].pos = req[q].pos
        /\ req'[q].pc = "event"
        /\ req'[q].verdict = action /\ req'[q].target = t
    BY <1>3, <2>1 DEF PartsOf
  <2> QED
    BY <1>2, <2>2, <2>3
<1>8. CASE BuildEvent(q)
  <2>1. /\ PartsOf(q)' = PartsOf(q) /\ req'[q].pos = req[q].pos
        /\ req[q].pc = "event" /\ req'[q].pc = "lookup"
        /\ req'[q].verdict = req[q].verdict /\ req'[q].target = req[q].target
    BY <1>3, <1>8 DEF BuildEvent, PartsOf
  <2> QED
    BY <1>2, <2>1 DEF Planned
<1>9. CASE PlannedStep(q)
  <2>1. /\ Kept(q) /\ req[q].pc \in Planned \ {"event"}
        /\ req'[q].pc \in (Planned \ {"event"}) \cup {"done"}
    BY <1>9, PlanKept
  <2>2. PartsOf(q)' = PartsOf(q)
    BY <2>1 DEF Kept, PartsOf
  <2>3. req'[q].pc \in {"put", "deliver", "keep"} => req'[q].kind \in Kinds
    <3>1. CASE Put(q) \/ StreamOut(q)
      <4>1. req[q].kind \in Kinds
        BY <3>1 DEF Put, StreamOut, Phased
      <4>2. req'[q].kind = req[q].kind
        BY <1>3, <3>1 DEF Put, StreamOut, RequestState
      <4> QED
        BY <4>1, <4>2
    <3>2. ASSUME NEW outcome, NEW routes, NEW served,
                 Close(q, outcome, routes, served)
          PROVE  req'[q].pc = "done"
      BY <1>3, <3>2 DEF Close
    <3>3. ASSUME NEW backend, Call(q, backend) PROVE req'[q].pc = "wait"
      BY <1>3, <3>3 DEF Call
    <3>4. CASE Hit(q)
      BY <1>3, <3>4 DEF Hit, TypeOK, Entries
    <3>5. CASE CannotEmbed(q)
      BY <1>3, <3>5 DEF CannotEmbed
    <3>6. ASSUME NEW kind \in Kinds, FailMidStream(q, kind)
          PROVE  req'[q].kind \in Kinds
      BY <1>3, <3>6 DEF FailMidStream, RequestState
    <3>7. ASSUME NEW kind \in Kinds, Reply(q, kind)
          PROVE  req'[q].pc = "done" \/ req'[q].kind \in Kinds
      <4>1. CASE Close(q, "ok", <<RouteOf(q)>>, "answer")
        BY <3>2, <4>1
      <4>2. CASE req[q].input.mode # "embed"
        BY <1>3, <3>7, <4>2 DEF Reply, RequestState
      <4> QED
        BY <3>7, <4>1, <4>2 DEF Reply
    <3>8. CASE \/ \E kind \in Kinds : Reply(q, kind)
               \/ \E kind \in Kinds \ {"empty"} : FailMidStream(q, kind)
      BY <3>6, <3>7, <3>8
    <3>9. CASE Refuse(q) \/ Deliver(q) \/ Keep(q)
      BY <3>2, <3>9 DEF Refuse, Deliver, Keep
    <3>10. CASE Miss(q) \/ FailClean(q)
      BY <3>2, <3>3, <3>10 DEF Miss, FailClean
    <3> QED
      BY <1>9, <3>1, <3>4, <3>5, <3>8, <3>9, <3>10 DEF PlannedStep
  <2> QED
    BY <1>2, <2>1, <2>2, <2>3 DEF Kept, Planned
<1>10. CASE Environment \/ UNCHANGED vars
  BY <1>4, <1>10
  DEF Environment, Reload, Purge, ExpireSession, ExpireEntry, vars
<1> QED
  BY <1>4, <1>5, <1>6, <1>7, <1>8, <1>9, <1>10, OnlyItself
  DEF Next, Step, PlannedStep

-----------------------------------------------------------------------------
Sound(r) == Noted(r) /\ Cleared(r) /\ Graded(r) /\ Dispatched(r)

(* While the plan stands, a rising class cannot unjustify it.              *)
LEMMA KeptSound ==
    ASSUME TypeOK, TypeOK', NEW q \in Requests, Kept(q),
           \A o \in Requests : level[o] <= level'[o]
    PROVE  /\ Phased /\ Noted(q) => Noted(q)'
           /\ Cleared(q) => Cleared(q)'
<1>0. /\ ViewOf(q)' = ViewOf(q) /\ PartsOf(q)' = PartsOf(q)
      /\ \A i : RankOf(q, i)' = RankOf(q, i)
  BY SameView DEF Kept
<1>1. /\ req[q].obj \in Requests
      /\ level[req[q].obj] \in Sensitivity /\ level'[req[q].obj] \in Sensitivity
      /\ level[req[q].obj] <= level'[req[q].obj]
  BY DEF TypeOK, RequestState
<1>3. ASSUME Phased, Noted(q) PROVE Noted(q)'
  <2> SUFFICES ASSUME NEW i \in 1..(req[q].pos - 1)
               PROVE  RankOf(q, i) <= level'[req[q].obj]
    BY <1>0 DEF Noted, Kept
  <2>1. RankOf(q, i) \in Nat
    BY <1>3, Numbers DEF Phased
  <2>2. RankOf(q, i) <= level[req[q].obj]
    BY <1>3 DEF Noted
  <2>3. level[req[q].obj] \in Nat /\ level'[req[q].obj] \in Nat
    BY <1>1, SensitivityNat
  <2> QED
    BY <1>1, <2>1, <2>2, <2>3
<1>4. ASSUME Cleared(q) PROVE Cleared(q)'
  <2>1. Evaluate(ViewOf(q).policy, level[req[q].obj]) # "allow"
        => Evaluate(ViewOf(q).policy, level'[req[q].obj]) # "allow"
    BY <1>1, ViewType, EvaluateMonotone DEF View
  <2>2. /\ req'[q].verdict = req[q].verdict /\ req'[q].target = req[q].target
        /\ req'[q].pos = req[q].pos /\ req'[q].obj = req[q].obj
    BY DEF Kept
  <2> QED
    BY <1>0, <1>4, <2>1, <2>2 DEF Cleared
<1> QED
  BY <1>3, <1>4

LEMMA KeptGraded ==
    ASSUME NEW q \in Requests, Kept(q), Graded(q),
           req'[q].evMax = req[q].evMax,
           req[q].pc = "event" => req'[q].pc = "event"
    PROVE  Graded(q)'
<1>0. /\ ViewOf(q)' = ViewOf(q) /\ PartsOf(q)' = PartsOf(q)
      /\ \A i : RankOf(q, i)' = RankOf(q, i)
  BY SameView DEF Kept
<1> QED
  BY <1>0 DEF Kept, Graded

LEMMA InitSound == Init => \A r \in Requests : Sound(r)
<1> SUFFICES ASSUME Init, NEW r \in Requests PROVE Sound(r)
  OBVIOUS
<1>1. /\ req[r].verdict = "none" /\ req[r].pos = 1
      /\ \A t : <<r, t>> \notin sent
  BY DEF Init, Arriving
<1> QED
  BY <1>1 DEF Sound, Noted, Cleared, Graded, Dispatched

(* The step that judges a payload: everything in it has been noted.        *)
LEMMA JudgeSound ==
    ASSUME TypeOK, TypeOK', Phased, NEW r \in Requests, Sound(r), Judge(r)
    PROVE  Sound(r)'
<1> DEFINE max == level[req[r].obj]
           action == Evaluate(ViewOf(r).policy, max)
<1>0. req \in [Requests -> RequestState] /\ level' = level
  BY DEF Judge, sharedVars, TypeOK
<1>1. PICK t \in Routed(r, action) :
         req' = [req EXCEPT ![r].pc = "event", ![r].verdict = action,
                            ![r].target = t]
  BY DEF Judge
<1>2. /\ req'[r].pc = "event" /\ req'[r].verdict = action
      /\ req'[r].target = t /\ req'[r].conf = req[r].conf
      /\ req'[r].input = req[r].input /\ req'[r].obj = req[r].obj
      /\ req'[r].pos = req[r].pos
  BY <1>0, <1>1
<1>3. /\ ViewOf(r)' = ViewOf(r) /\ PartsOf(r)' = PartsOf(r)
      /\ \A i : RankOf(r, i)' = RankOf(r, i)
  BY <1>2, SameView
<1>4. /\ req[r].pos = Len(PartsOf(r)) + 1
      /\ req[r].verdict = "none"
  BY ViewType DEF Judge, JudgeReady, Phased
<1>5. \A i \in DOMAIN PartsOf(r) : RankOf(r, i) <= max
  BY <1>4, ViewType DEF Sound, Noted
<1>6. /\ max \in Nat
      /\ \A i \in DOMAIN PartsOf(r) : RankOf(r, i) \in Nat
      /\ ViewOf(r).policy.denyAbove \in Nat
      /\ ViewOf(r).policy.cloudMax \in Nat
  BY Numbers
<1>7. action # "deny" => max <= ViewOf(r).policy.denyAbove
  BY <1>6 DEF Evaluate
<1>8. action = "allow" => max <= ViewOf(r).policy.cloudMax
  BY <1>6 DEF Evaluate
<1>9. t = "cloud" => action # "local_only"
  BY <1>1 DEF Routed, Constrain, Evaluate
<1>10. Noted(r)'
  BY <1>0, <1>2, <1>3 DEF Sound, Noted
<1>11. Cleared(r)'
  <2>1. action # "deny" =>
           \A i \in DOMAIN PartsOf(r) :
               RankOf(r, i) <= ViewOf(r).policy.denyAbove
    BY <1>5, <1>6, <1>7
  <2>2. action = "allow" =>
           \A i \in DOMAIN PartsOf(r) :
               RankOf(r, i) <= ViewOf(r).policy.cloudMax
    BY <1>5, <1>6, <1>8
  <2>3. Evaluate(ViewOf(r).policy, level[req[r].obj])' = action
    BY <1>0, <1>2, <1>3
  <2> HIDE DEF action
  <2> QED
    BY <1>2, <1>3, <1>4, <1>9, <2>1, <2>2, <2>3 DEF Cleared
<1>12. Graded(r)'
  BY <1>2 DEF Graded
<1>13. Dispatched(r)'
  BY <1>4 DEF Judge, outVars, Sound, Dispatched
<1> QED
  BY <1>10, <1>11, <1>12, <1>13 DEF Sound

(* A call is made on the backend planned for, or on the cloud after the    *)
(* policy allowed it: both were cleared.                                   *)
LEMMA CallSound ==
    ASSUME TypeOK, Phased, NEW r \in Requests, Sound(r), PlannedStep(r)
    PROVE  Dispatched(r)'
<1>1. Kept(r)
  BY PlanKept
<1>2. CASE UNCHANGED sent
  BY <1>1, <1>2 DEF Sound, Dispatched, Kept
<1>3. CASE Miss(r)
  <2>1. /\ req[r].verdict \in {"allow", "local_only"}
        /\ req[r].target = "cloud" => req[r].verdict = "allow"
    BY <1>3 DEF Miss, Proceeds, Phased, Planned, Actions, Sound, Cleared
  <2>2. sent' \subseteq sent \cup {<<r, req[r].target>>}
    BY <1>3 DEF Miss, Call
  <2> QED
    BY <1>1, <2>1, <2>2 DEF Sound, Dispatched, Kept
<1>4. CASE FailClean(r)
  <2>1. CASE MayFallBack(r) /\ Call(r, "cloud")
    <3>1. req[r].verdict = "allow"
      BY <2>1 DEF MayFallBack, CloudFallbackAllowed
    <3>2. sent' \subseteq sent \cup {<<r, "cloud">>}
      BY <2>1 DEF Call
    <3> QED
      BY <1>1, <3>1, <3>2 DEF Sound, Dispatched, Kept
  <2>2. CASE Close(r, "unavailable", <<>>, "none")
    BY <1>2, <2>2 DEF Close
  <2> QED
    BY <1>4, <2>1, <2>2 DEF FailClean
<1>5. ASSUME NEW kind, Reply(r, kind) \/ FailMidStream(r, kind)
      PROVE  UNCHANGED sent
  BY <1>5 DEF Reply, FailMidStream, Close, outVars
<1> QED
  BY <1>2, <1>3, <1>4, <1>5
  DEF PlannedStep, Refuse, Hit, CannotEmbed, Put, Deliver, StreamOut, Keep,
      Close, outVars

LEMMA NextSound ==
    ASSUME TypeOK, Phased, [Next]_vars, \A r \in Requests : Sound(r)
    PROVE  \A r \in Requests : Sound(r)'
<1> SUFFICES ASSUME NEW q \in Requests PROVE Sound(q)'
  OBVIOUS
<1>0. /\ TypeOK' /\ Sound(q)
      /\ req \in [Requests -> RequestState]
  BY NextType DEF TypeOK
<1>1. \A o \in Requests : level[o] <= level'[o]
  <2>1. CASE Next
    BY <2>1, LevelRises
  <2>2. CASE UNCHANGED vars
    <3>1. \A o \in Requests : level[o] \in Nat
      BY Numbers
    <3>2. level' = level
      BY <2>2 DEF vars
    <3> QED
      BY <3>1, <3>2
  <2> QED
    BY <2>1, <2>2
<1>2. ASSUME req'[q] = req[q],
             \A t : <<q, t>> \in sent' <=> <<q, t>> \in sent
      PROVE  Sound(q)'
  <2>1. Kept(q)
    BY <1>2 DEF Kept
  <2>2. Noted(q)' /\ Cleared(q)'
    BY <1>0, <1>1, <2>1, KeptSound DEF Sound
  <2>3. Graded(q)'
    BY <1>0, <1>2, <2>1, KeptGraded DEF Sound
  <2> QED
    BY <1>0, <1>2, <2>2, <2>3 DEF Sound, Dispatched
<1>3. CASE Authenticate(q) \/ Begin(q)
  <2>1. /\ req'[q].pos = req[q].pos /\ req'[q].verdict = req[q].verdict
        /\ req[q].pc \in {"auth", "begin"} /\ sent' = sent
    BY <1>3, EntryKept
  <2>2. req[q].pos = 1 /\ req[q].verdict = "none"
    BY <2>1 DEF Phased
  <2> QED
    BY <1>0, <2>1, <2>2 DEF Sound, Noted, Cleared, Graded, Dispatched
<1>4. CASE Mask(q)
  <2>1. /\ req'[q].pos = req[q].pos + 1 /\ req'[q].verdict = req[q].verdict
        /\ req'[q].conf = req[q].conf /\ req'[q].input = req[q].input
        /\ req'[q].obj = req[q].obj /\ req'[q].pc = "mask"
        /\ req[q].pc = "mask" /\ sent' = sent
        /\ req[q].pos \in DOMAIN PartsOf(q)
    BY <1>0, <1>4, ViewType DEF Mask, outVars, Phased
  <2>2. req[q].verdict = "none"
    BY <2>1 DEF Phased
  <2>3. \A i : RankOf(q, i)' = RankOf(q, i)
    BY <2>1, SameView
  <2>4. Sensitivity \subseteq Nat
    BY DEF Sensitivity, Low, Restricted
  <2>5. /\ level[req[q].obj] \in Nat /\ level'[req[q].obj] \in Nat
        /\ level[req[q].obj] <= level'[req[q].obj]
    BY <1>0, <1>1, <2>4 DEF TypeOK, RequestState
  <2>6. RankOf(q, req[q].pos) \in Nat
    BY <2>1, <2>4, ViewType
  <2>7. RankOf(q, req[q].pos) <= level'[req[q].obj]
    <3>1. level'[req[q].obj] =
             Higher(level[req[q].obj], RankOf(q, req[q].pos))
      BY <1>4 DEF Mask, NoteFinding, TypeOK, RequestState
    <3> QED
      BY <2>5, <2>6, <3>1 DEF Higher
  <2>8. \A i \in 1..(req[q].pos - 1) : RankOf(q, i) <= level'[req[q].obj]
    <3> SUFFICES ASSUME NEW i \in 1..(req[q].pos - 1)
                 PROVE  RankOf(q, i) <= level'[req[q].obj]
      OBVIOUS
    <3>1. RankOf(q, i) \in Nat
      BY <2>1, Numbers
    <3>2. RankOf(q, i) <= level[req[q].obj]
      BY <1>0 DEF Sound, Noted
    <3> QED
      BY <2>5, <3>1, <3>2
  <2>9. Noted(q)'
    <3>1. req[q].pos \in Nat
      BY <1>0 DEF RequestState
    <3> QED
      BY <2>1, <2>3, <2>7, <2>8, <3>1 DEF Noted
  <2> QED
    BY <1>0, <2>1, <2>2, <2>9 DEF Sound, Cleared, Graded, Dispatched
<1>5. CASE Judge(q)
  BY <1>0, <1>5, JudgeSound
<1>6. CASE BuildEvent(q)
  <2>1. /\ Kept(q) /\ sent' = sent
        /\ req[q].pc = "event" /\ req'[q].evMax = level[req[q].obj]
    BY <1>0, <1>6 DEF BuildEvent, EventMax, Kept, outVars, RequestState
  <2>2. Noted(q)' /\ Cleared(q)'
    BY <1>0, <1>1, <2>1, KeptSound DEF Sound
  <2>3. /\ ViewOf(q)' = ViewOf(q) /\ PartsOf(q)' = PartsOf(q)
        /\ \A i : RankOf(q, i)' = RankOf(q, i)
    BY <2>1, SameView DEF Kept
  <2>4. req[q].pos = Len(PartsOf(q)) + 1
    BY <1>0, <2>1 DEF Phased, Planned, Actions, Sound, Cleared
  <2>5. \A i \in DOMAIN PartsOf(q) : RankOf(q, i) <= level[req[q].obj]
    BY <1>0, <2>4, ViewType DEF Sound, Noted
  <2>6. Graded(q)'
    BY <1>0, <2>1, <2>3, <2>5 DEF Sound, Cleared, Graded, Kept
  <2> QED
    BY <1>0, <2>1, <2>2, <2>6 DEF Sound, Dispatched, Kept
<1>7. CASE PlannedStep(q)
  <2>1. /\ Kept(q) /\ req'[q].evMax = req[q].evMax /\ req[q].pc # "event"
    BY <1>7, PlanKept
  <2>2. Noted(q)' /\ Cleared(q)'
    BY <1>0, <1>1, <2>1, KeptSound DEF Sound
  <2>3. Graded(q)'
    BY <1>0, <2>1, KeptGraded DEF Sound
  <2>4. Dispatched(q)'
    BY <1>0, <1>7, CallSound
  <2> QED
    BY <2>2, <2>3, <2>4 DEF Sound
<1>8. CASE Environment \/ UNCHANGED vars
  BY <1>2, <1>8
  DEF Environment, Reload, Purge, ExpireSession, ExpireEntry, outVars, vars
<1> QED
  BY <1>2, <1>3, <1>4, <1>5, <1>6, <1>7, <1>8, OnlyItself
  DEF Next, Step, PlannedStep

-----------------------------------------------------------------------------
(* A request's accounts: empty until it ends, and then one of each kind    *)
(* that its outcome calls for, in agreement with its plan and its answer.  *)
Settled(r) ==
    /\ req[r].pc # "done" =>
           audit[r] = <<>> /\ ledger[r] = <<>> /\ req[r].outcome = "none"
    /\ req[r].pc \notin {"put", "deliver", "keep", "done"} =>
           req[r].kind = "none"
    /\ req[r].pc \notin {"keep", "done"} => req[r].served = "none"
    /\ req[r].pc = "keep" => req[r].served = "answer"
    /\ req[r].served = "answer" => ~Withheld(r)
    /\ Len(audit[r]) =
           IF req[r].outcome \in {"ok", "denied", "unavailable"} THEN 1 ELSE 0
    /\ Len(ledger[r]) = IF req[r].outcome = "ok" THEN 1 ELSE 0
    /\ \A n \in DOMAIN audit[r] :
           /\ req[r].verdict # "none"
           /\ audit[r][n].action = req[r].verdict
           /\ audit[r][n].max = req[r].evMax
           /\ audit[r][n].blocked <=> req[r].served = "withheld"

LEMMA InitSettled == Init => \A r \in Requests : Settled(r)
BY DEF Init, Arriving, Settled, Withheld

(* Closing a request that is open settles it.                              *)
LEMMA CloseSettles ==
    ASSUME TypeOK, NEW r \in Requests, Settled(r), req[r].pc # "done",
           req[r].verdict # "none",
           NEW outcome \in {"ok", "denied", "unavailable"},
           NEW routes \in Seq({"local", "cloud", "cache"}),
           Len(routes) = IF outcome = "ok" THEN 1 ELSE 0,
           NEW served \in {"none", "answer", "withheld"},
           served = "answer" => ~Withheld(r),
           Close(r, outcome, routes, served)
    PROVE  Settled(r)'
<1>0. req[r] \in RequestState /\ req \in [Requests -> RequestState]
  BY DEF TypeOK
<1>1. /\ req'[r].pc = "done" /\ req'[r].outcome = outcome
      /\ req'[r].served = served /\ req'[r].kind = req[r].kind
      /\ req'[r].conf = req[r].conf /\ req'[r].verdict = req[r].verdict
      /\ req'[r].evMax = req[r].evMax
  BY <1>0 DEF Close, RequestState
<1>2. audit[r] = <<>> /\ ledger[r] = <<>>
  BY DEF Settled
<1>3. audit'[r] = <<Event(r, served)>>
  BY <1>2 DEF Close, TypeOK
<1>4. ledger'[r] = routes
  <2>1. ledger'[r] = <<>> \o routes
    BY <1>2 DEF Close, TypeOK
  <2> QED
    BY <2>1
<1>5. Withheld(r)' = Withheld(r)
  BY <1>1 DEF Withheld
<1>6. /\ Event(r, served).action = req[r].verdict
      /\ Event(r, served).max = req[r].evMax
      /\ Event(r, served).blocked = (served = "withheld")
  BY DEF Event
<1>7. /\ Len(audit'[r]) = 1 /\ DOMAIN audit'[r] = {1}
      /\ audit'[r][1] = Event(r, served)
  BY <1>3
<1>8. \A n \in DOMAIN audit'[r] :
         /\ req'[r].verdict # "none"
         /\ audit'[r][n].action = req'[r].verdict
         /\ audit'[r][n].max = req'[r].evMax
         /\ audit'[r][n].blocked <=> req'[r].served = "withheld"
  <2> SUFFICES /\ req'[r].verdict # "none"
               /\ audit'[r][1].action = req'[r].verdict
               /\ audit'[r][1].max = req'[r].evMax
               /\ audit'[r][1].blocked <=> req'[r].served = "withheld"
    BY <1>7
  <2> QED
    BY <1>1, <1>6, <1>7, Zenon
<1>9. Len(audit'[r]) = 1 /\ Len(ledger'[r]) = IF outcome = "ok" THEN 1 ELSE 0
  BY <1>4, <1>7
<1>10. req'[r].served = "answer" => ~Withheld(r)'
  BY <1>1, <1>5
<1> QED
  BY <1>1, <1>8, <1>9, <1>10 DEF Settled

(* A step that closes nothing leaves the accounts of an open request as    *)
(* they are.                                                               *)
LEMMA OpenSettled ==
    ASSUME NEW r \in Requests, Settled(r), req[r].pc # "done",
           audit'[r] = audit[r], ledger'[r] = ledger[r],
           req'[r].pc # "done", req'[r].outcome = req[r].outcome,
           req'[r].pc \notin {"put", "deliver", "keep"} =>
               req'[r].kind = req[r].kind
               /\ req[r].pc \notin {"put", "deliver", "keep"},
           IF req'[r].pc = "keep"
           THEN req'[r].served = "answer" /\ ~Withheld(r)'
           ELSE req'[r].served = req[r].served /\ req[r].pc # "keep"
    PROVE  Settled(r)'
<1>1. /\ audit'[r] = <<>> /\ ledger'[r] = <<>> /\ req'[r].outcome = "none"
  BY DEF Settled
<1>2. /\ Len(audit'[r]) = 0 /\ DOMAIN audit'[r] = {} /\ Len(ledger'[r]) = 0
  BY <1>1
<1>3. /\ req'[r].pc # "keep" => req'[r].served = "none"
      /\ req'[r].pc \notin {"put", "deliver", "keep"} => req'[r].kind = "none"
  BY DEF Settled
<1> QED
  BY <1>1, <1>2, <1>3 DEF Settled

LEMMA NextSettled ==
    ASSUME TypeOK, Phased, [Next]_vars, NEW q \in Requests, Settled(q)
    PROVE  Settled(q)'
<1>0. req[q] \in RequestState /\ req \in [Requests -> RequestState]
  BY DEF TypeOK
<1>1. CASE req'[q] = req[q] /\ audit'[q] = audit[q] /\ ledger'[q] = ledger[q]
  BY <1>1 DEF Settled, Withheld
<1>2. CASE Authenticate(q) \/ Begin(q)
  <2>1. /\ audit'[q] = audit[q] /\ ledger'[q] = ledger[q]
        /\ req[q].pc \in {"auth", "begin"}
        /\ req'[q].pc \in {"begin", "mask", "done"}
        /\ req'[q].served = req[q].served /\ req'[q].kind = req[q].kind
        /\ IF req'[q].pc = "done"
           THEN req'[q].outcome \in {"unauthorized", "refused"}
           ELSE req'[q].outcome = req[q].outcome
    BY <1>2, EntryKept
  <2>2. CASE req'[q].pc = "done"
    <3>1. audit'[q] = <<>> /\ ledger'[q] = <<>> /\ req'[q].served = "none"
      BY <2>1 DEF Settled
    <3>2. Len(audit'[q]) = 0 /\ DOMAIN audit'[q] = {} /\ Len(ledger'[q]) = 0
      BY <3>1
    <3> QED
      BY <2>1, <2>2, <3>1, <3>2 DEF Settled
  <2> QED
    BY <2>1, <2>2, OpenSettled
<1>3. CASE Mask(q) \/ Judge(q) \/ BuildEvent(q)
  <2>1. /\ audit'[q] = audit[q] /\ ledger'[q] = ledger[q]
        /\ req[q].pc \in {"mask", "event"}
        /\ req'[q].pc \in {"mask", "event", "lookup"}
        /\ req'[q].served = req[q].served /\ req'[q].kind = req[q].kind
        /\ req'[q].outcome = req[q].outcome
    BY <1>0, <1>3 DEF Mask, Judge, JudgeReady, BuildEvent, outVars, RequestState
  <2> QED
    BY <2>1, OpenSettled
<1>4. ASSUME NEW served \in {"none", "answer", "withheld"},
             served = "answer" => ~Withheld(q),
             req[q].pc \in Planned, req[q].pc # "done",
             Close(q, "ok", <<RouteOf(q)>>, served)
      PROVE  Settled(q)'
  <2>1. req[q].verdict # "none" /\ req[q].target \in Targets
    BY <1>4 DEF Phased, Actions
  <2>2. /\ <<RouteOf(q)>> \in Seq({"local", "cloud", "cache"})
        /\ Len(<<RouteOf(q)>>) = 1
    BY <2>1 DEF RouteOf, Targets
  <2> DEFINE routes == <<RouteOf(q)>>
  <2> HIDE DEF routes
  <2>3. /\ routes \in Seq({"local", "cloud", "cache"}) /\ Len(routes) = 1
        /\ Close(q, "ok", routes, served)
    BY <1>4, <2>2 DEF routes
  <2> QED
    BY <1>4, <2>1, <2>3, CloseSettles
<1>5. ASSUME NEW outcome \in {"denied", "unavailable"},
             req[q].pc \in Planned, req[q].pc # "done",
             Close(q, outcome, <<>>, "none")
      PROVE  Settled(q)'
  <2>1. req[q].verdict # "none"
    BY <1>5 DEF Phased, Actions
  <2> DEFINE routes == <<>>
  <2>2. /\ routes \in Seq({"local", "cloud", "cache"}) /\ Len(routes) = 0
    OBVIOUS
  <2>3. Close(q, outcome, routes, "none")
    BY <1>5
  <2> HIDE DEF routes
  <2> QED
    BY <1>5, <2>1, <2>2, <2>3, CloseSettles
<1>6. CASE Refuse(q)
  <2>1. Close(q, "denied", <<>>, "none") /\ req[q].pc = "lookup"
    BY <1>6 DEF Refuse
  <2> QED
    BY <1>5, <2>1 DEF Planned
<1>7. CASE Deliver(q)
  <2>1. Verdict(q) \in {"answer", "withheld"}
        /\ (Verdict(q) = "answer" => ~Withheld(q))
    BY DEF Verdict
  <2>2. /\ Close(q, "ok", <<RouteOf(q)>>, Verdict(q))
        /\ req[q].pc \in Planned /\ req[q].pc # "done"
    BY <1>7 DEF Deliver, Planned
  <2> QED
    BY <1>4, <2>1, <2>2
<1>8. CASE Keep(q)
  <2>1. /\ Close(q, "ok", <<RouteOf(q)>>, "answer")
        /\ req[q].pc \in Planned /\ req[q].pc # "done"
    BY <1>8 DEF Keep, Planned
  <2>2. ~Withheld(q)
    BY <1>8 DEF Keep, Settled
  <2> QED
    BY <1>4, <2>1, <2>2
<1>9. ASSUME NEW backend, Call(q, backend),
             req[q].pc \in {"lookup", "wait"}
      PROVE  Settled(q)'
  <2>1. /\ audit'[q] = audit[q] /\ ledger'[q] = ledger[q]
        /\ req'[q].pc = "wait"
        /\ req'[q].served = req[q].served /\ req'[q].kind = req[q].kind
        /\ req'[q].outcome = req[q].outcome
    BY <1>0, <1>9 DEF Call, RequestState
  <2> QED
    BY <1>9, <2>1, OpenSettled
<1>10. CASE Miss(q)
  BY <1>9, <1>10 DEF Miss, Proceeds
<1>11. CASE FailClean(q)
  <2>1. CASE Call(q, "cloud")
    BY <1>9, <1>11, <2>1 DEF FailClean
  <2>2. CASE Close(q, "unavailable", <<>>, "none")
    <3>1. req[q].pc = "wait"
      BY <1>11 DEF FailClean
    <3> QED
      BY <1>5, <2>2, <3>1 DEF Planned
  <2> QED
    BY <1>11, <2>1, <2>2 DEF FailClean
<1>12. CASE Hit(q)
  <2>1. /\ audit'[q] = audit[q] /\ ledger'[q] = ledger[q]
        /\ req[q].pc = "lookup" /\ req'[q].pc = "deliver"
        /\ req'[q].served = req[q].served
        /\ req'[q].outcome = req[q].outcome
    BY <1>0, <1>12 DEF Hit, Proceeds, outVars, RequestState
  <2> QED
    BY <2>1, OpenSettled
<1>13. CASE CannotEmbed(q)
  <2> DEFINE event == [Event(q, "none") EXCEPT !.backend = req[q].target]
  <2>1. /\ req[q].pc = "lookup" /\ req[q].verdict # "none"
    BY <1>13 DEF CannotEmbed, Proceeds, Phased, Planned, Actions
  <2>2. audit[q] = <<>> /\ ledger[q] = <<>> /\ req[q].served = "none"
    BY <2>1 DEF Settled
  <2>3. /\ audit'[q] = <<event>> /\ ledger'[q] = <<>>
    <3>1. audit' = [audit EXCEPT ![q] = Append(@, event)] /\ ledger' = ledger
      BY <1>13 DEF CannotEmbed
    <3> HIDE DEF event
    <3>2. audit'[q] = Append(<<>>, event)
      BY <2>2, <3>1 DEF TypeOK
    <3> QED
      BY <2>2, <3>1, <3>2
  <2>4. /\ event.action = req[q].verdict /\ event.max = req[q].evMax
        /\ event.blocked = FALSE
    BY DEF Event
  <2> HIDE DEF event
  <2>5. /\ Len(audit'[q]) = 1 /\ DOMAIN audit'[q] = {1}
        /\ audit'[q][1] = event /\ Len(ledger'[q]) = 0
    BY <2>3
  <2>6. /\ req'[q].pc = "done" /\ req'[q].outcome = "unavailable"
        /\ req'[q].served = "none" /\ req'[q].verdict = req[q].verdict
        /\ req'[q].evMax = req[q].evMax
    BY <1>0, <1>13 DEF CannotEmbed, RequestState
  <2> QED
    BY <2>1, <2>4, <2>5, <2>6 DEF Settled
<1>14. ASSUME NEW kind \in Kinds, Reply(q, kind) PROVE Settled(q)'
  <2>1. req[q].pc = "wait"
    BY <1>14 DEF Reply, Answers
  <2>2. CASE Close(q, "ok", <<RouteOf(q)>>, "answer")
    <3>1. ~Withheld(q)
      BY <2>1 DEF Settled, Withheld
    <3> QED
      BY <1>4, <2>1, <2>2, <3>1 DEF Planned
  <2>3. CASE req[q].input.mode # "embed"
    <3>1. /\ audit'[q] = audit[q] /\ ledger'[q] = ledger[q]
          /\ req'[q].pc \in {"put", "deliver"}
          /\ req'[q].served = req[q].served
          /\ req'[q].outcome = req[q].outcome
      BY <1>0, <1>14, <2>3 DEF Reply, outVars, RequestState
    <3> QED
      BY <2>1, <3>1, OpenSettled
  <2> QED
    BY <1>14, <2>2, <2>3 DEF Reply
<1>15. ASSUME NEW kind \in Kinds, FailMidStream(q, kind) PROVE Settled(q)'
  <2>1. /\ audit'[q] = audit[q] /\ ledger'[q] = ledger[q]
        /\ req[q].pc = "wait" /\ req'[q].pc = "deliver"
        /\ req'[q].served = req[q].served
        /\ req'[q].outcome = req[q].outcome
    BY <1>0, <1>15 DEF FailMidStream, Answers, outVars, RequestState
  <2> QED
    BY <2>1, OpenSettled
<1>16. CASE Put(q)
  <2>1. /\ audit'[q] = audit[q] /\ ledger'[q] = ledger[q]
        /\ req[q].pc = "put" /\ req'[q].pc = "deliver"
        /\ req'[q].served = req[q].served
        /\ req'[q].outcome = req[q].outcome
    BY <1>0, <1>16 DEF Put, outVars, RequestState
  <2> QED
    BY <2>1, OpenSettled
<1>17. CASE StreamOut(q)
  <2>1. /\ audit'[q] = audit[q] /\ ledger'[q] = ledger[q]
        /\ req[q].pc = "deliver" /\ req'[q].pc = "keep"
        /\ req'[q].served = "answer"
        /\ req'[q].outcome = req[q].outcome
        /\ req'[q].kind = req[q].kind /\ req'[q].conf = req[q].conf
    BY <1>0, <1>17 DEF StreamOut, outVars, RequestState
  <2>2. ~Withheld(q)'
    BY <1>17, <2>1 DEF StreamOut, Storable, Withheld
  <2> QED
    BY <2>1, <2>2, OpenSettled
<1>18. CASE Environment \/ UNCHANGED vars
  BY <1>1, <1>18
  DEF Environment, Reload, Purge, ExpireSession, ExpireEntry, outVars, vars
<1>19. CASE \E r \in Requests \ {q} : Step(r)
  BY <1>1, <1>19, OnlyItself
<1>20. CASE \/ \E kind \in Kinds : Reply(q, kind)
            \/ \E kind \in Kinds \ {"empty"} : FailMidStream(q, kind)
  BY <1>14, <1>15, <1>20
<1> QED
  BY <1>2, <1>3, <1>6, <1>7, <1>8, <1>10, <1>11, <1>12, <1>13, <1>16, <1>17,
     <1>18, <1>19, <1>20
  DEF Next, Step

-----------------------------------------------------------------------------
(* What was sent for a request is the backend it stands at, or the local   *)
(* one it fell back from, and an event of its own says so.                 *)
Trailed(r) ==
    /\ \A t \in Targets :
           <<r, t>> \in sent =>
               /\ req[r].pc \in {"wait", "put", "deliver", "keep", "done"}
               /\ req[r].via = t \/ (req[r].fell /\ t = "local")
    /\ req[r].pc = "wait" /\ ~req[r].fell => req[r].via = req[r].target
    /\ \A t \in Targets : \A n \in DOMAIN audit[r] :
           <<r, t>> \in sent =>
               \/ audit[r][n].backend = t
               \/ audit[r][n].fellBack /\ t = "local"

LEMMA InitTrailed == Init => \A r \in Requests : Trailed(r)
  BY DEF Init, Arriving, Trailed

(* A step that sends and closes nothing leaves the trail as it is.         *)
LEMMA TrailKept ==
    ASSUME NEW r \in Requests, Trailed(r),
           audit'[r] = audit[r], \A t : <<r, t>> \in sent' <=> <<r, t>> \in sent,
           req'[r].via = req[r].via \/ req[r].pc \in {"auth", "begin", "mask", "event", "lookup"},
           req'[r].fell = req[r].fell, req'[r].target = req[r].target,
           req[r].pc \in {"wait", "put", "deliver", "keep", "done"}
              => req'[r].pc \in {"wait", "put", "deliver", "keep", "done"},
           req'[r].pc = "wait" => req[r].pc = "wait"
    PROVE  Trailed(r)'
  BY DEF Trailed

(* The event that closes a request names where it stands.                  *)
LEMMA CloseTrailed ==
    ASSUME TypeOK, NEW r \in Requests, Settled(r), Trailed(r), req[r].pc # "done",
           NEW outcome, NEW routes, NEW served, Close(r, outcome, routes, served)
    PROVE  Trailed(r)'
<1>0. req[r] \in RequestState /\ req \in [Requests -> RequestState]
  BY DEF TypeOK
<1>1. /\ req'[r].pc = "done" /\ req'[r].via = req[r].via
      /\ req'[r].fell = req[r].fell /\ sent' = sent
  BY <1>0 DEF Close, RequestState
<1>2. audit'[r] = <<Event(r, served)>>
  <2>1. audit[r] = <<>>
    BY DEF Settled
  <2> QED
    BY <2>1 DEF Close, TypeOK
<1>3. /\ DOMAIN audit'[r] = {1} /\ audit'[r][1] = Event(r, served)
  BY <1>2
<1>4. Event(r, served).backend = req[r].via /\ Event(r, served).fellBack = req[r].fell
  BY DEF Event
<1>5. \A t \in Targets : <<r, t>> \in sent =>
          req[r].via = t \/ (req[r].fell /\ t = "local")
  BY DEF Trailed
<1>6. \A t \in Targets : \A n \in DOMAIN audit'[r] :
          <<r, t>> \in sent' => \/ audit'[r][n].backend = t
                                \/ audit'[r][n].fellBack /\ t = "local"
  BY <1>1, <1>3, <1>4, <1>5
<1> QED
  BY <1>1, <1>5, <1>6 DEF Trailed

(* A call is made first where it was planned, and then only on the cloud   *)
(* in place of the local backend.                                          *)
LEMMA CallTrailed ==
    ASSUME TypeOK, NEW r \in Requests, Settled(r), Trailed(r),
           NEW backend \in Targets, Call(r, backend),
           \/ req[r].pc = "lookup" /\ backend = req[r].target
           \/ /\ req[r].pc = "wait" /\ ~req[r].fell
              /\ req[r].target = "local" /\ backend = "cloud"
    PROVE  Trailed(r)'
<1>0. req[r] \in RequestState /\ req \in [Requests -> RequestState]
  BY DEF TypeOK
<1>1. /\ req'[r].pc = "wait" /\ req'[r].via = backend
      /\ req'[r].fell <=> backend # req[r].target
      /\ req'[r].target = req[r].target
  BY <1>0 DEF Call, RequestState
<1>2. audit'[r] = <<>> /\ DOMAIN audit'[r] = {}
  BY DEF Call, Settled
<1>3. \A t : <<r, t>> \in sent' => <<r, t>> \in sent \/ t = backend
  BY DEF Call
<1>4. \A t \in Targets : <<r, t>> \in sent =>
          req[r].pc = "wait" /\ (t = req[r].target \/ req[r].fell)
  BY DEF Trailed
<1> QED
  BY <1>1, <1>2, <1>3, <1>4 DEF Trailed

LEMMA NextTrailed ==
    ASSUME TypeOK, Phased, [Next]_vars, NEW q \in Requests, Settled(q), Trailed(q)
    PROVE  Trailed(q)'
<1>0. req[q] \in RequestState /\ req \in [Requests -> RequestState]
  BY DEF TypeOK
<1>1. CASE req'[q] = req[q] /\ audit'[q] = audit[q]
           /\ \A t : <<q, t>> \in sent' <=> <<q, t>> \in sent
  BY <1>1 DEF Trailed
<1>2. ASSUME req[q].pc \in {"auth", "begin", "mask", "event"},
             req'[q].pc # "wait", audit' = audit, sent' = sent
      PROVE  Trailed(q)'
  BY <1>2 DEF Trailed
<1>3. CASE Authenticate(q) \/ Begin(q)
  BY <1>2, <1>3, EntryKept
<1>4. CASE Mask(q) \/ Judge(q) \/ BuildEvent(q)
  <2>1. /\ req[q].pc \in {"mask", "event"} /\ req'[q].pc \in {"mask", "event", "lookup"}
        /\ audit' = audit /\ sent' = sent
    BY <1>0, <1>4 DEF Mask, Judge, JudgeReady, BuildEvent, outVars, RequestState
  <2> QED
    BY <1>2, <2>1
<1>5. CASE Refuse(q) \/ Deliver(q) \/ Keep(q)
  BY <1>5, CloseTrailed DEF Refuse, Deliver, Keep
<1>6. CASE Hit(q)
  <2>1. /\ audit' = audit /\ sent' = sent
        /\ req[q].pc = "lookup" /\ req'[q].pc = "deliver"
    BY <1>0, <1>6 DEF Hit, Proceeds, outVars, RequestState
  <2> QED
    BY <2>1 DEF Trailed
<1>7. CASE CannotEmbed(q)
  <2>1. /\ sent' = sent /\ req[q].pc = "lookup" /\ req'[q].pc = "done"
    BY <1>0, <1>7 DEF CannotEmbed, Proceeds, RequestState
  <2>2. \A t \in Targets : <<q, t>> \notin sent'
    BY <2>1 DEF Trailed
  <2> QED
    BY <2>1, <2>2 DEF Trailed
<1>8. CASE Miss(q)
  <2>1. req[q].pc = "lookup" /\ req[q].target \in Targets /\ Call(q, req[q].target)
    BY <1>8 DEF Miss, Proceeds, Phased, Planned
  <2> QED
    BY <2>1, CallTrailed
<1>9. CASE FailClean(q)
  <2>1. CASE MayFallBack(q) /\ Call(q, "cloud")
    <3>1. /\ req[q].pc = "wait" /\ ~req[q].fell /\ req[q].target = "local"
          /\ "cloud" \in Targets
      BY <1>9, <2>1 DEF FailClean, MayFallBack, Targets
    <3> QED
      BY <2>1, <3>1, CallTrailed
  <2>2. CASE Close(q, "unavailable", <<>>, "none")
    BY <1>9, <2>2, CloseTrailed DEF FailClean
  <2> QED
    BY <1>9, <2>1, <2>2 DEF FailClean
<1>10. ASSUME NEW kind \in Kinds, Reply(q, kind) PROVE Trailed(q)'
  <2>1. CASE Close(q, "ok", <<RouteOf(q)>>, "answer")
    BY <1>10, <2>1, CloseTrailed DEF Reply, Answers
  <2>2. CASE req[q].input.mode # "embed"
    <3>1. /\ audit' = audit /\ sent' = sent
          /\ req[q].pc = "wait" /\ req'[q].pc \in {"put", "deliver"}
          /\ req'[q].via = req[q].via /\ req'[q].fell = req[q].fell
          /\ req'[q].target = req[q].target
      BY <1>0, <1>10, <2>2 DEF Reply, Answers, outVars, RequestState
    <3> QED
      BY <3>1, TrailKept
  <2> QED
    BY <1>10, <2>1, <2>2 DEF Reply
<1>11. ASSUME NEW kind \in Kinds, FailMidStream(q, kind) PROVE Trailed(q)'
  <2>1. /\ audit' = audit /\ sent' = sent
        /\ req[q].pc = "wait" /\ req'[q].pc = "deliver"
        /\ req'[q].via = req[q].via /\ req'[q].fell = req[q].fell
        /\ req'[q].target = req[q].target
    BY <1>0, <1>11 DEF FailMidStream, Answers, outVars, RequestState
  <2> QED
    BY <2>1, TrailKept
<1>12. CASE Put(q) \/ StreamOut(q)
  <2>1. /\ audit' = audit /\ sent' = sent
        /\ req[q].pc \in {"put", "deliver"} /\ req'[q].pc \in {"deliver", "keep"}
        /\ req'[q].via = req[q].via /\ req'[q].fell = req[q].fell
        /\ req'[q].target = req[q].target
    BY <1>0, <1>12 DEF Put, StreamOut, outVars, RequestState
  <2> QED
    BY <2>1, TrailKept
<1>13. CASE Environment \/ UNCHANGED vars
  BY <1>1, <1>13
  DEF Environment, Reload, Purge, ExpireSession, ExpireEntry, outVars, vars
<1>14. CASE \E r \in Requests \ {q} : Step(r)
  BY <1>1, <1>14, OnlyItself
<1>15. CASE \/ \E kind \in Kinds : Reply(q, kind)
            \/ \E kind \in Kinds \ {"empty"} : FailMidStream(q, kind)
  BY <1>10, <1>11, <1>15
<1> QED
  BY <1>3, <1>4, <1>5, <1>6, <1>7, <1>8, <1>9, <1>12, <1>13, <1>14, <1>15
  DEF Next, Step

-----------------------------------------------------------------------------
(* From its verdict on, what a request asks is fixed.                      *)
Fixed(r) == req[r].pc \in Planned \cup {"done"}

LEMMA QuestionKept ==
    ASSUME TypeOK, [Next]_vars, NEW q \in Requests, Fixed(q)
    PROVE  Fixed(q)' /\ Key(q)' = Key(q)
<1>0. req[q] \in RequestState /\ req \in [Requests -> RequestState]
  BY DEF TypeOK
<1>1. ASSUME req'[q].conf = req[q].conf, req'[q].input = req[q].input,
             req'[q].target = req[q].target
      PROVE  Key(q)' = Key(q)
  <2>1. ViewOf(q)' = ViewOf(q) /\ PartsOf(q)' = PartsOf(q)
    BY <1>1, SameView
  <2> QED
    BY <1>1, <2>1 DEF Key
<1>2. CASE req'[q] = req[q]
  BY <1>1, <1>2 DEF Fixed
<1>3. ~ (Authenticate(q) \/ Begin(q) \/ Mask(q) \/ Judge(q))
  BY DEF Fixed, Planned, Authenticate, Begin, Mask, Judge, JudgeReady
<1>4. CASE BuildEvent(q)
  <2>1. /\ req'[q].conf = req[q].conf /\ req'[q].input = req[q].input
        /\ req'[q].target = req[q].target /\ req'[q].pc = "lookup"
    BY <1>0, <1>4 DEF BuildEvent, RequestState
  <2> QED
    BY <1>1, <2>1 DEF Fixed, Planned
<1>5. CASE PlannedStep(q)
  BY <1>1, <1>5, PlanKept DEF Kept, Fixed
<1>6. CASE Environment \/ UNCHANGED vars
  BY <1>2, <1>6
  DEF Environment, Reload, Purge, ExpireSession, ExpireEntry, vars
<1> QED
  BY <1>2, <1>3, <1>4, <1>5, <1>6, OnlyItself DEF Next, Step, PlannedStep

(* Every entry is kept under the question of the request it came from, and *)
(* so is every answer taken from the cache.                                *)
Answering ==
    /\ \A e \in cache : Fixed(e.from) /\ e.key = Key(e.from)
    /\ \A r \in Requests :
           req[r].via = "cache" =>
               /\ Fixed(r) /\ Fixed(req[r].from)
               /\ Key(req[r].from) = Key(r)

LEMMA InitAnswering == Init => Answering
<1> SUFFICES ASSUME Init PROVE Answering
  OBVIOUS
<1>1. PICK arrivals \in Arrivals :
         req = [r \in Requests |-> Arriving(r, arrivals[r], cfg)]
  BY DEF Init
<1>2. \A r \in Requests : req[r].via = "none"
  BY <1>1 DEF Arriving
<1>3. cache = {}
  BY DEF Init
<1> QED
  BY <1>2, <1>3 DEF Answering

(* Only a request that is put away, itself, brings a new entry.            *)
LEMMA EntriesFrom ==
    ASSUME TypeOK, [Next]_vars, NEW e \in cache', e \notin cache
    PROVE  \E r \in Requests : req[r].pc \in {"put", "keep"} /\ e = Entry(r)
<1>1. ASSUME NEW r \in Requests, Put(r) \/ Keep(r)
      PROVE  req[r].pc \in {"put", "keep"} /\ e = Entry(r)
  BY <1>1 DEF Put, Keep, Store
<1>2. ASSUME NEW r \in Requests, cache' # cache, Step(r) PROVE Put(r) \/ Keep(r)
  <2>1. ~ (\/ Authenticate(r) \/ Begin(r) \/ Mask(r) \/ Judge(r) \/ BuildEvent(r)
           \/ Refuse(r) \/ Hit(r) \/ Deliver(r) \/ StreamOut(r))
    BY <1>2 DEF Authenticate, Begin, Mask, Judge, BuildEvent, Refuse, Hit, Deliver,
                StreamOut, sharedVars
  <2>2. ~ (\/ CannotEmbed(r) \/ Miss(r) \/ FailClean(r)
           \/ \E kind \in Kinds : Reply(r, kind) \/ FailMidStream(r, kind))
    BY <1>2 DEF CannotEmbed, Miss, Call, Reply, FailClean, FailMidStream, sharedVars
  <2> QED
    BY <1>2, <2>1, <2>2 DEF Step
<1>3. Environment => cache' \subseteq cache
  BY DEF Environment, Reload, Purge, ExpireSession, ExpireEntry
<1>4. UNCHANGED vars => cache' = cache
  BY DEF vars
<1> QED
  BY <1>1, <1>2, <1>3, <1>4 DEF Next

(* A request stands at the cache because it stood there, or was just       *)
(* answered by an entry under its own key.                                 *)
LEMMA ViaFrom ==
    ASSUME TypeOK, Phased, [Next]_vars, NEW q \in Requests, req'[q].via = "cache"
    PROVE  \/ req[q].via = "cache" /\ req'[q].from = req[q].from
           \/ /\ req[q].pc = "lookup"
              /\ \E e \in cache : e.key = Key(q) /\ req'[q].from = e.from
<1>0. req[q] \in RequestState /\ req \in [Requests -> RequestState]
  BY DEF TypeOK
<1> DEFINE Same == req'[q].via = req[q].via /\ req'[q].from = req[q].from
<1>1. CASE req'[q] = req[q]
  BY <1>1
<1>2. ASSUME NEW backend \in Targets, Call(q, backend) PROVE FALSE
  <2>1. req'[q].via = backend
    BY <1>0, <1>2 DEF Call, RequestState
  <2> QED
    BY <2>1 DEF Targets
<1>3. ASSUME NEW outcome, NEW routes, NEW served, Close(q, outcome, routes, served)
      PROVE  Same
  BY <1>0, <1>3 DEF Close, RequestState
<1>4. CASE Hit(q)
  BY <1>0, <1>4 DEF Hit, Proceeds, RequestState
<1>5. CASE Miss(q) \/ FailClean(q)
  <2>1. CASE Miss(q)
    BY <1>2, <2>1 DEF Miss, Proceeds, Phased, Planned
  <2>2. CASE FailClean(q)
    BY <1>2, <1>3, <2>2 DEF FailClean, Targets
  <2> QED
    BY <1>5, <2>1, <2>2
<1>6. CASE Refuse(q) \/ Deliver(q) \/ Keep(q)
  BY <1>3, <1>6 DEF Refuse, Deliver, Keep
<1>7. CASE Authenticate(q) \/ Begin(q)
  <2>1. CASE Begin(q)
    BY <1>0, <2>1 DEF Begin, RequestState
  <2>2. CASE Authenticate(q)
    BY <1>0, <2>2 DEF Authenticate, Turn, RequestState
  <2> QED
    BY <1>7, <2>1, <2>2
<1>8. CASE Mask(q) \/ Judge(q) \/ BuildEvent(q)
  BY <1>0, <1>8 DEF Mask, Judge, BuildEvent, RequestState
<1>9. CASE CannotEmbed(q)
  BY <1>0, <1>9 DEF CannotEmbed, RequestState
<1>10. ASSUME NEW kind \in Kinds, Reply(q, kind) \/ FailMidStream(q, kind) PROVE Same
  <2>1. CASE Close(q, "ok", <<RouteOf(q)>>, "answer")
    BY <1>3, <2>1
  <2>2. CASE Reply(q, kind) /\ req[q].input.mode # "embed"
    BY <1>0, <2>2 DEF Reply, RequestState
  <2>3. CASE FailMidStream(q, kind)
    BY <1>0, <2>3 DEF FailMidStream, RequestState
  <2> QED
    BY <1>10, <2>1, <2>2, <2>3 DEF Reply
<1>11. CASE Put(q) \/ StreamOut(q)
  BY <1>0, <1>11 DEF Put, StreamOut, RequestState
<1>12. CASE Environment \/ UNCHANGED vars
  BY <1>1, <1>12
  DEF Environment, Reload, Purge, ExpireSession, ExpireEntry, vars
<1>13. CASE \E r \in Requests \ {q} : Step(r)
  BY <1>1, <1>13, OnlyItself
<1> QED
  BY <1>4, <1>5, <1>6, <1>7, <1>8, <1>9, <1>10, <1>11, <1>12, <1>13 DEF Next, Step

LEMMA NextAnswering ==
    ASSUME TypeOK, Phased, [Next]_vars, Answering
    PROVE  Answering'
<1>1. \A q \in Requests : Fixed(q) => Fixed(q)' /\ Key(q)' = Key(q)
  BY QuestionKept
<1>2. \A e \in cache : e.from \in Requests
  BY DEF TypeOK, Entries
<1>3. ASSUME NEW e \in cache'
      PROVE  Fixed(e.from)' /\ e.key = Key(e.from)'
  <2>1. CASE e \in cache
    BY <1>1, <1>2, <2>1 DEF Answering
  <2>2. CASE e \notin cache
    <3>1. PICK r \in Requests : req[r].pc \in {"put", "keep"} /\ e = Entry(r)
      BY <2>2, EntriesFrom
    <3>2. e.from = r /\ e.key = Key(r) /\ Fixed(r)
      BY <3>1 DEF Entry, Fixed, Planned
    <3> QED
      BY <1>1, <3>2
  <2> QED
    BY <2>1, <2>2
<1>4. ASSUME NEW r \in Requests, NEW p, req'[r].via = "cache", req'[r].from = p
      PROVE  Fixed(r)' /\ Fixed(p)' /\ Key(p)' = Key(r)'
  <2>1. CASE req[r].via = "cache" /\ p = req[r].from
    <3>1. p \in Requests
      BY <2>1 DEF TypeOK, RequestState
    <3>2. Fixed(r) /\ Fixed(p) /\ Key(p) = Key(r)
      BY <2>1 DEF Answering
    <3> QED
      BY <1>1, <3>1, <3>2
  <2>2. ASSUME req[r].pc = "lookup", NEW e \in cache, e.key = Key(r), p = e.from
        PROVE  Fixed(r)' /\ Fixed(p)' /\ Key(p)' = Key(r)'
    <3>1. Fixed(r) /\ Fixed(p) /\ Key(p) = Key(r) /\ p \in Requests
      BY <1>2, <2>2 DEF Answering, Fixed, Planned
    <3> QED
      BY <1>1, <3>1
  <2> QED
    BY <1>4, <2>1, <2>2, ViaFrom
<1>5. ASSUME NEW r \in Requests
      PROVE  (req[r].via = "cache" => /\ Fixed(r) /\ Fixed(req[r].from)
                                      /\ Key(req[r].from) = Key(r))'
  <2>1. PICK p : p = req'[r].from
    OBVIOUS
  <2>2. req'[r].via = "cache" => Fixed(r)' /\ Fixed(p)' /\ Key(p)' = Key(r)'
    BY <1>4, <2>1
  <2> QED
    BY <2>1, <2>2 DEF Fixed, Key, ViewOf, PartsOf
<1> QED
  BY <1>3, <1>5 DEF Answering

-----------------------------------------------------------------------------
IInv == /\ TypeOK
        /\ Phased
        /\ \A r \in Requests : Sound(r)
        /\ \A r \in Requests : Settled(r)
        /\ \A r \in Requests : Trailed(r)
        /\ Answering

(* The inductive invariant holds throughout.                               *)
THEOREM Invariance == Spec => []IInv
<1>1. Init => IInv
  BY InitType, InitPhased, InitSound, InitSettled, InitTrailed, InitAnswering DEF IInv
<1>2. IInv /\ [Next]_vars => IInv'
  BY NextType, NextPhased, NextSound, NextSettled, NextTrailed, NextAnswering DEF IInv
<1> QED
  BY <1>1, <1>2, PTL DEF Spec

(* Every variable keeps its type.                                          *)
THEOREM TypeCorrect == Spec => []TypeOK
<1>1. IInv => TypeOK
  BY DEF IInv
<1> QED
  BY <1>1, Invariance, PTL

(* No payload reaches a backend that the policy of its tenant keeps it     *)
(* from, whatever shares its session, falls back, expires or is reloaded.  *)
THEOREM EgressConfined == Spec => []NoConfinedEgress
<1>1. IInv => NoConfinedEgress
  BY DEF IInv, Sound, Dispatched, Cleared, NoConfinedEgress
<1> QED
  BY <1>1, Invariance, PTL

(* A request is cleared for the cloud only when all that was noted on its  *)
(* session, by whichever request, is within the limit.                     *)
THEOREM ConversationsConfine == Spec => ConversationConfines
<1>1. IInv /\ [Next]_vars
      => [\A r, q \in Requests :
            /\ req[r].verdict = "none"
            /\ req'[r].verdict = "allow"
            /\ req[q].obj = req[r].obj
            => \A i \in 1..(req[q].pos - 1) :
                   RankOf(q, i) <= ViewOf(r).policy.cloudMax]_vars
  <2> SUFFICES ASSUME IInv, Next, NEW r \in Requests, NEW q \in Requests,
                      req[r].verdict = "none", req'[r].verdict = "allow",
                      req[q].obj = req[r].obj,
                      NEW i \in 1..(req[q].pos - 1)
               PROVE  RankOf(q, i) <= ViewOf(r).policy.cloudMax
    BY DEF vars
  <2>0. TypeOK /\ Phased /\ Noted(q)
    BY DEF IInv, Sound
  <2>1. Judge(r)
    <3>1. PICK s \in Requests : Step(s)
      BY DEF Next, Environment, Reload, Purge, ExpireSession, ExpireEntry
    <3>2. s = r
      BY <2>0, <3>1, OnlyItself
    <3>3. ~PlannedStep(r)
      BY <2>0, PlanKept DEF Kept
    <3>4. ~(Authenticate(r) \/ Begin(r))
      BY <2>0, EntryKept
    <3>5. req \in [Requests -> RequestState]
      BY <2>0 DEF TypeOK
    <3>6. Mask(r) \/ BuildEvent(r) => req'[r].verdict = req[r].verdict
      BY <3>5 DEF Mask, BuildEvent, RequestState
    <3> QED
      BY <3>1, <3>2, <3>3, <3>4, <3>6 DEF Step, PlannedStep
  <2>2. Evaluate(ViewOf(r).policy, level[req[r].obj]) = "allow"
    BY <2>0, <2>1 DEF Judge, TypeOK, RequestState
  <2>3. level[req[r].obj] <= ViewOf(r).policy.cloudMax
    BY <2>0, <2>2, Numbers DEF Evaluate
  <2>4. RankOf(q, i) <= level[req[r].obj]
    BY <2>0 DEF Noted
  <2>5. RankOf(q, i) \in Nat
    BY <2>0, Numbers DEF Phased
  <2> QED
    BY <2>0, <2>3, <2>4, <2>5, Numbers
<1> QED
  BY <1>1, Invariance, PTL DEF Spec, ConversationConfines

(* The class an event records covers the payload and justifies the action. *)
THEOREM AuditGraded == Spec => []AuditNeverUnderstates
<1>1. IInv => AuditNeverUnderstates
  <2> SUFFICES ASSUME IInv, NEW r \in Requests, NEW n \in DOMAIN audit[r]
               PROVE  /\ \A i \in DOMAIN PartsOf(r) :
                             RankOf(r, i) <= audit[r][n].max
                      /\ audit[r][n].action # "allow" =>
                             Evaluate(ViewOf(r).policy, audit[r][n].max) # "allow"
    BY DEF AuditNeverUnderstates
  <2>1. Settled(r) /\ Graded(r)
    BY DEF IInv, Sound
  <2>2. req[r].pc = "done"
    BY <2>1 DEF Settled
  <2> QED
    BY <2>1, <2>2 DEF Settled, Graded
<1> QED
  BY <1>1, Invariance, PTL

(* Every planned request is audited once and every answer billed once.     *)
THEOREM Accounted == Spec => []AccountedOnce
<1>1. IInv => AccountedOnce
  BY DEF IInv, Settled, AccountedOnce
<1> QED
  BY <1>1, Invariance, PTL

(* No destructive operation is handed over under a guard that blocks it.   *)
THEOREM DeliveryVetted == Spec => []VettedDelivery
<1>1. IInv => VettedDelivery
  BY DEF IInv, Settled, Withheld, VettedDelivery
<1> QED
  BY <1>1, Invariance, PTL

(* Every backend a payload was sent to is named by its audit event, or was *)
(* the local one the event says the request fell back from (audit.go).     *)
THEOREM AuditNames == Spec => []AuditNamesEveryBackend
<1>1. IInv => AuditNamesEveryBackend
  BY DEF IInv, Trailed, AuditNamesEveryBackend
<1> QED
  BY <1>1, Invariance, PTL

(* What the cache answers with was an answer to the same question, asked   *)
(* of the same model, however many reloads lie between (cache.go, Key).    *)
THEOREM HitsAnswerTheSameQuestion == Spec => []HitAnswersTheSameQuestion
<1>1. IInv => HitAnswersTheSameQuestion
  BY DEF IInv, Answering, Key, HitAnswersTheSameQuestion
<1> QED
  BY <1>1, Invariance, PTL
=============================================================================
