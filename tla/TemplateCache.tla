---------------------------- MODULE TemplateCache ----------------------------
(***************************************************************************)
(* The template cache (internal/cache/cache.go) and the numbering the      *)
(* gateway stores answers in (internal/gateway/handler.go).  A cache is    *)
(* the sequence of its entries, most recently used first.  An entry's age  *)
(* counts from the moment this tier stored it.  born, the time since the   *)
(* answer was produced, and from, the item of the prompt the answer names, *)
(* are history the code does not keep: no guard reads them.                *)
(***************************************************************************)
EXTENDS Naturals, Sequences, SequencesExt, FiniteSets

CONSTANTS CacheMax,   \* entries the cache holds
          CacheTTL    \* ticks an entry is served for

ASSUME CacheAssumption == CacheMax \in Nat /\ CacheTTL \in Nat

Enabled == CacheMax > 0 /\ CacheTTL > 0
-----------------------------------------------------------------------------
IsToken(item) == item[1] \in {"V", "REF"}

TokensOf(text) == {text[i] : i \in {i \in DOMAIN text : IsToken(text[i])}}
FirstAt(text, t) == Min({i \in DOMAIN text : text[i] = t})

(* The name Shape gives a token: its number in the order of first          *)
(* appearance over the payload; both kinds share one count.                *)
Canonical(payload, t) ==
    <<t[1], Cardinality({u \in TokensOf(payload) : FirstAt(payload, u) <= FirstAt(payload, t)})>>

Renamed(payload, text) ==
    [i \in DOMAIN text |-> IF IsToken(text[i]) THEN Canonical(payload, text[i]) ELSE text[i]]

(* Shape: the payload renumbered, and the mapping back to its own tokens.  *)
Shape(texts) ==
    LET payload == FlattenSeq(texts)
        tokens == TokensOf(payload)
    IN  [texts   |-> [m \in DOMAIN texts |-> Renamed(payload, texts[m])],
         restore |-> [c \in {Canonical(payload, t) : t \in tokens} |->
                         CHOOSE t \in tokens : Canonical(payload, t) = c]]

(* Restore: a token the mapping does not hold is left alone.               *)
Restore(text, mapping) ==
    [i \in DOMAIN text |-> IF text[i] \in DOMAIN mapping THEN mapping[text[i]] ELSE text[i]]

(* A mutant: the answer is stored in its own session's numbering.          *)
CanonicaliseNot(text, restore) == text

Canonicalise(text, restore) ==
    LET inverse == [t \in {restore[c] : c \in DOMAIN restore} |->
                        CHOOSE c \in DOMAIN restore : restore[c] = t]
    IN  Restore(text, inverse)

(* The key digests every text the model is sent, the tool definitions'     *)
(* included.                                                               *)
Key(model, canonical, settings) == <<model, canonical, settings>>
-----------------------------------------------------------------------------
Holds(cache, key) == \E i \in DOMAIN cache : cache[i].key = key
Position(cache, key) == CHOOSE i \in DOMAIN cache : cache[i].key = key
Stored(cache, key) == cache[Position(cache, key)]

Others(cache, key) ==
    IF Holds(cache, key) THEN RemoveAt(cache, Position(cache, key)) ELSE cache

ToFront(cache, e) == <<e>> \o Others(cache, e.key)

(* A mutant: an entry leaves only by eviction.                             *)
FreshForEver(e) == TRUE

Fresh(e) == e.age <= CacheTTL

(* Get: whether it hits, and the cache it leaves: a hit moves to the       *)
(* front, an expired entry goes.                                           *)
Hits(cache, key) == Enabled /\ Holds(cache, key) /\ Fresh(Stored(cache, key))

AfterGet(cache, key) ==
    IF ~Enabled \/ ~Holds(cache, key) THEN cache
    ELSE IF Fresh(Stored(cache, key)) THEN ToFront(cache, Stored(cache, key))
    ELSE Others(cache, key)

(* Put: an answer with nothing in it is not stored; the least recently     *)
(* used entries make room.                                                 *)
Put(cache, e) ==
    LET all == ToFront(cache, [e EXCEPT !.age = 0])
    IN  IF ~Enabled \/ e.content = <<>> THEN cache
        ELSE SubSeq(all, 1, IF Len(all) > CacheMax THEN CacheMax ELSE Len(all))
=============================================================================
