---------------------------- MODULE Conversations ----------------------------
(***************************************************************************)
(* A request from its raw messages to the hydrated answer, over the state  *)
(* that outlives it: the session store and its dictionaries, the local     *)
(* template cache of each replica and the tier the replicas share          *)
(* (ee/cache/shared).  Requests run concurrently and share sessions.       *)
(*                                                                         *)
(* Time is a Tick no shorter than a backend call, which the code cuts at   *)
(* opts.Timeout; ages stop counting where no guard tells them apart.       *)
(***************************************************************************)
EXTENDS Compression, TemplateCache, SessionStore

CONSTANTS Requests, Pods,
          Raw,           \* the items a client's texts are made of
          Jobs,          \* the workloads: what each request asks, and
                         \* whether time passes (a bound)
          SharedTTL,     \* ticks an entry lives in the shared tier; 0: no tier
          NoAnswer

ASSUME SharedAssumption == SharedTTL \in Nat
ASSUME JobsAssumption ==
    \A l \in DOMAIN Jobs : \A r \in DOMAIN Jobs[l].asks :
        LET job == Jobs[l].asks[r]
        IN  /\ r \in Requests /\ job.pod \in Pods
            /\ job.messages \in Seq(Seq(Raw)) /\ IsEngine(job.engine)

(* A client writes no placeholder of the gateway's: one it wrote itself    *)
(* would be read as the session's own.                                     *)
ASSUME RawAssumption == \A item \in Raw : ~IsToken(item)

VARIABLES load,      \* the workload, chosen once
          store,     \* pod -> session store
          due,       \* ticks since the janitors last ran
          idle,      \* session -> ticks since it was touched
          dict,      \* session -> its dictionary
          local,     \* pod -> template cache
          backend,   \* the shared tier: a set of entries
          req        \* request -> where it stands

vars == <<load, store, due, idle, dict, local, backend, req>>

(* A session is named after the request that created it.                   *)
Sessions == Requests

AgeCap == CacheTTL + 1
BornCap == CacheTTL + SharedTTL + 1
IdleCap == SessionTTL + Interval + 1
Older(n, cap) == IF n < cap THEN n + 1 ELSE n

Start == [phase |-> "new", session |-> NoAnswer, at |-> 1, todo |-> <<>>,
          tokens |-> <<>>, work |-> <<>>, raw |-> <<>>, own |-> <<>>,
          texts |-> <<>>, restore |-> <<>>, key |-> <<>>,
          got |-> NoAnswer, answer |-> NoAnswer, from |-> 0,
          age |-> 0, delivered |-> NoAnswer]

Init ==
    /\ load \in DOMAIN Jobs
    /\ store = [p \in Pods |-> <<>>]
    /\ due = 0
    /\ idle = [s \in Sessions |-> 0]
    /\ dict = [s \in Sessions |-> EmptyDictionary]
    /\ local = [p \in Pods |-> <<>>]
    /\ backend = {}
    /\ req = [r \in Requests |-> Start]

Step(r, changes) ==
    req' = [req EXCEPT ![r] = [f \in DOMAIN Start |->
                IF f \in DOMAIN changes THEN changes[f] ELSE @[f]]]
Active == DOMAIN Jobs[load].asks
Job(r) == Jobs[load].asks[r]
Pod(r) == Job(r).pod
-----------------------------------------------------------------------------
(* plan: the conversation's session.                                       *)
Open(r) ==
    /\ r \in Active /\ req[r].phase = "new"
    /\ \A q \in Job(r).after : req[q].phase = "done"
    /\ LET p == Pod(r)
           s == GetSession(store[p], idle, Job(r).conv, r)
       IN  /\ Step(r, [phase |-> "plan", session |-> s])
           /\ store' = [store EXCEPT ![p] = AfterGetSession(@, idle, Job(r).conv, r)]
           /\ idle' = [idle EXCEPT ![s] = 0]
    /\ UNCHANGED <<load, due, dict, local, backend>>

(* Masker, detection: what the recogniser answers is not the gateway's to  *)
(* choose.  The values found are masked one at a time.                     *)
Find(r) ==
    /\ req[r].phase = "plan" /\ req[r].at <= Len(Job(r).messages)
    /\ \E names \in Job(r).names :
           LET text == Job(r).messages[req[r].at]
               found == DetectWithNames(Job(r).engine, text, names)
           IN  Step(r, [phase |-> "masker", raw |-> text, work |-> found, tokens |-> <<>>,
                        todo |-> [k \in DOMAIN found |->
                            [value |-> found[k].text, kind |-> "V",
                             rank |-> SensitivityOf(found[k].category)]]])
    /\ UNCHANGED <<load, store, due, idle, dict, local, backend>>

(* A tool call's arguments and a tool's description are masked and left    *)
(* otherwise as they are.                                                  *)
MaskedOnly(r) == req[r].at \in Job(r).plain

(* One MaskAs call under the dictionary's lock, by whichever stage.        *)
MaskNext(r) ==
    /\ req[r].phase \in {"masker", "refdict", "astprune"}
    /\ Len(req[r].tokens) < Len(req[r].todo)
    /\ LET s == req[r].session
           next == req[r].todo[Len(req[r].tokens) + 1]
           after == MaskAs(dict[s], next.value, next.kind, next.rank)
       IN  /\ dict' = [dict EXCEPT ![s] = after]
           /\ Step(r, [tokens |-> Append(req[r].tokens, after.forward[next.value]),
                       own    |-> Extend(req[r].own, after.forward[next.value], next.value)])
    /\ UNCHANGED <<load, store, due, idle, local, backend>>

StageDone(r, stage) ==
    req[r].phase = stage /\ Len(req[r].tokens) = Len(req[r].todo)

Masked(r) == Rewrite(req[r].raw, req[r].work, req[r].tokens)

(* The items at the positions "at", in order, give way to the tokens.      *)
Substitute(text, at, tokens) ==
    [i \in DOMAIN text |-> IF i \in at THEN tokens[Cardinality({j \in at : j <= i})] ELSE text[i]]

Values(items, at, kind) ==
    LET order == Ascending(at)
    IN  [k \in DOMAIN order |-> [value |-> <<items[order[k]]>>, kind |-> kind, rank |-> 0]]

(* A stage with nothing to mask hands its text on at once.                 *)
Finished(r, text) ==
    [phase |-> "plan", at |-> req[r].at + 1, todo |-> <<>>, tokens |-> <<>>,
     work |-> <<>>, raw |-> <<>>, texts |-> Append(req[r].texts, text)]

ToPrune(r, text) ==
    IF PrunedAt(text) = {} THEN Finished(r, Prune(text))
    ELSE [phase |-> "astprune", work |-> text, tokens |-> <<>>,
          todo |-> Values([i \in DOMAIN text |-> LeafText(text[i])], PrunedAt(text), "V")]

ToFold(r, text) ==
    IF FoldedAt(text) = {} THEN ToPrune(r, text)
    ELSE [phase |-> "refdict", work |-> text, tokens |-> <<>>,
          todo |-> Values(text, FoldedAt(text), "REF")]

(* The masked text is clustered, and the session touched by each Note.     *)
Cluster(r) ==
    /\ StageDone(r, "masker")
    /\ Step(r, IF MaskedOnly(r) THEN Finished(r, Masked(r)) ELSE ToFold(r, Drain(Masked(r))))
    /\ idle' = IF req[r].work = <<>> THEN idle ELSE [idle EXCEPT ![req[r].session] = 0]
    /\ UNCHANGED <<load, store, due, dict, local, backend>>

Fold(r) ==
    /\ StageDone(r, "refdict")
    /\ Step(r, ToPrune(r, Substitute(req[r].work, FoldedAt(req[r].work), req[r].tokens)))
    /\ UNCHANGED <<load, store, due, idle, dict, local, backend>>

(* The last stage; the next message follows.                               *)
PruneCode(r) ==
    /\ StageDone(r, "astprune")
    /\ Step(r, Finished(r, Prune(req[r].work)))
    /\ UNCHANGED <<load, store, due, idle, dict, local, backend>>
-----------------------------------------------------------------------------
(* shared.Get, and Cache.Get without a shared tier: the local tier first.  *)
Look(r) ==
    /\ req[r].phase = "plan" /\ req[r].at > Len(Job(r).messages)
    /\ LET p == Pod(r)
           shape == Shape(req[r].texts)
           key == Key(Job(r).model, shape.texts, Job(r).settings)
       IN  /\ local' = [local EXCEPT ![p] = AfterGet(@, key)]
           /\ IF Hits(local[p], key)
              THEN LET e == Stored(local[p], key)
                   IN  Step(r, [phase |-> "deliver", age |-> e.born, from |-> e.from,
                                answer |-> Restore(e.content, shape.restore),
                                restore |-> shape.restore, key |-> key])
              ELSE Step(r, [phase |-> IF SharedTTL > 0 THEN "fetch" ELSE "ask",
                            restore |-> shape.restore, key |-> key])
    /\ UNCHANGED <<load, store, due, idle, dict, backend>>

(* The backend's answer: an entry, none, or an error that counts as none.  *)
Fetch(r) ==
    /\ req[r].phase = "fetch"
    /\ \/ \E e \in backend : /\ e.key = req[r].key
                             /\ Step(r, [phase |-> "promote", got |-> e])
       \/ Step(r, [phase |-> "ask"])
    /\ UNCHANGED <<load, store, due, idle, dict, local, backend>>

(* The entry is put into the local tier, as new, and served.               *)
Promote(r) ==
    /\ req[r].phase = "promote"
    /\ LET e == req[r].got
       IN  /\ local' = [local EXCEPT ![Pod(r)] = Put(@, e)]
           /\ Step(r, [phase |-> "deliver", age |-> e.born, from |-> e.from, got |-> NoAnswer,
                       answer |-> Restore(e.content, req[r].restore)])
    /\ UNCHANGED <<load, store, due, idle, dict, backend>>

(* The model answers with an item of the prompt it was given, or nothing;  *)
(* the answer is stored in the payload's canonical numbering.              *)
Prompt(r) == FlattenSeq(req[r].texts)
AnswersOf(r) == {0} \cup {i \in DOMAIN Prompt(r) : IsToken(Prompt(r)[i])}
Drawn(r, i) == IF i = 0 THEN <<>> ELSE <<Prompt(r)[i]>>

Answer(r) ==
    /\ req[r].phase = "ask"
    /\ \E i \in AnswersOf(r) :
           LET e == [key |-> req[r].key, age |-> 0, born |-> 0, from |-> i,
                     content |-> Canonicalise(Drawn(r, i), req[r].restore)]
           IN  /\ local' = [local EXCEPT ![Pod(r)] = Put(@, e)]
               /\ Step(r, [answer |-> Drawn(r, i), from |-> i,
                           phase |-> IF SharedTTL > 0 THEN "publish" ELSE "deliver",
                           got   |-> IF SharedTTL > 0 THEN e ELSE NoAnswer])
    /\ UNCHANGED <<load, store, due, idle, dict, backend>>

(* shared.Put's second half: the write may fail and nobody hears of it.    *)
Publish(r) ==
    /\ req[r].phase = "publish"
    /\ Step(r, [phase |-> "deliver", got |-> NoAnswer])
    /\ \/ backend' = {e \in backend : e.key # req[r].key} \cup {req[r].got}
       \/ UNCHANGED backend
    /\ UNCHANGED <<load, store, due, idle, dict, local>>

(* finalize: hydration with the session the request began with.            *)
Deliver(r) ==
    /\ req[r].phase = "deliver"
    /\ Step(r, [phase |-> "done", delivered |-> Hydrate(dict[req[r].session], req[r].answer)])
    /\ UNCHANGED <<load, store, due, idle, dict, local, backend>>
-----------------------------------------------------------------------------
(* Each replica's janitor wakes once per interval and sweeps.  The stores  *)
(* have nothing in common, so the replicas' janitors run in one step.      *)
Sweep ==
    /\ due = Interval
    /\ due' = 0
    /\ store' = [p \in Pods |-> Expire(store[p], idle)]
    /\ UNCHANGED <<load, idle, dict, local, backend, req>>

(* A reload that changes the rules drops the local entries only.           *)
Purge(p) ==
    /\ local[p] # <<>>
    /\ local' = [local EXCEPT ![p] = <<>>]
    /\ UNCHANGED <<load, store, due, idle, dict, backend, req>>

(* idle is counted for the sessions a store holds: no one reads another's. *)
Tick ==
    /\ Jobs[load].timed /\ due < Interval
    /\ \A r \in Requests : req[r].phase \notin {"promote", "publish"}
    /\ due' = due + 1
    /\ idle' = [s \in Sessions |-> IF \E p \in Pods : s \in Kept(store[p])
                                   THEN Older(idle[s], IdleCap) ELSE 0]
    /\ local' = [p \in Pods |-> [i \in DOMAIN local[p] |->
                    [local[p][i] EXCEPT !.age = Older(@, AgeCap), !.born = Older(@, BornCap)]]]
    /\ backend' = {[e EXCEPT !.age = @ + 1, !.born = Older(@, BornCap)] :
                       e \in {e \in backend : e.age < SharedTTL}}
    /\ UNCHANGED <<load, store, dict, req>>

Next ==
    \/ \E r \in Requests : \/ Open(r) \/ Find(r) \/ MaskNext(r) \/ Cluster(r) \/ Fold(r)
                           \/ PruneCode(r) \/ Look(r) \/ Fetch(r) \/ Promote(r)
                           \/ Answer(r) \/ Publish(r) \/ Deliver(r)
    \/ \E p \in Pods : Purge(p)
    \/ Sweep \/ Tick

Spec == Init /\ [][Next]_vars
-----------------------------------------------------------------------------
(* What each item stands for to the request that put it in its prompt.     *)
Meant(r, text) ==
    FlattenSeq([i \in DOMAIN text |->
        IF text[i] \in DOMAIN req[r].own THEN req[r].own[text[i]] ELSE <<text[i]>>])

(* Whatever the requests sharing a session do meanwhile, putting the       *)
(* values back into a masked message gives the message: no value is lost   *)
(* to another's token, none stands for two (dictionary.go MaskAs).         *)
MaskRoundTrip ==
    \A r \in Requests : StageDone(r, "masker") =>
        Hydrate(dict[req[r].session], Masked(r)) = req[r].raw

(* An answer names values of the request it answers, also when another     *)
(* request's session numbered them: what the client reads is what its own  *)
(* prompt had at the place the model spoke of (cache.go Shape, Restore).   *)
ServedIsOwn ==
    \A r \in Requests : req[r].phase = "done" =>
        req[r].delivered = Meant(r, Drawn(r, req[r].from))

(* No answer is served later than one stay in the shared tier and one in   *)
(* the local tier after it was produced, though promotion restarts the     *)
(* local clock (shared.go Get).                                            *)
AgeBounded == \A r \in Requests : req[r].age <= SharedTTL + CacheTTL

(* A dictionary no request has touched leaves memory within the TTL and    *)
(* one round of the janitor (store.go janitor).                            *)
IdleForgotten ==
    \A p \in Pods : \A s \in Kept(store[p]) : idle[s] <= SessionTTL + Interval

(* The state is what the code's types say, the dictionary maps are each    *)
(* other's inverse and the caches keep one entry per key within bounds.    *)
TypeOK ==
    /\ due \in 0..Interval
    /\ \A p \in Pods : /\ Len(local[p]) <= CacheMax /\ Len(store[p]) <= SessionMax
                       /\ \A i, j \in DOMAIN local[p] :
                              local[p][i].key = local[p][j].key => i = j
                       /\ Kept(store[p]) \subseteq Sessions
    /\ \A s \in Sessions :
           /\ idle[s] \in 0..IdleCap
           /\ Cardinality(Size(dict[s])) = dict[s].nVar + dict[s].nRef
           /\ \A v \in DOMAIN dict[s].forward : dict[s].reverse[dict[s].forward[v]] = v
           /\ \A t \in Size(dict[s]) : dict[s].forward[dict[s].reverse[t]] = t
=============================================================================
