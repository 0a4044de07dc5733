---------------------------- MODULE SessionStore ----------------------------
(***************************************************************************)
(* The store of conversation sessions (internal/session/store.go).  A      *)
(* store is the sequence of its <<key, session>> entries, the most         *)
(* recently opened first; idle[s] is how long ago session s was touched.   *)
(***************************************************************************)
EXTENDS Naturals, Sequences, SequencesExt

CONSTANTS SessionMax,   \* conversations the store keeps
          SessionTTL    \* ticks an untouched session lives

ASSUME SessionAssumption == SessionMax \in Nat \ {0} /\ SessionTTL \in Nat \ {0}

(* The janitor's period: a quarter of the TTL, at least one tick.          *)
Interval == IF SessionTTL \div 4 < 1 THEN 1 ELSE SessionTTL \div 4

NoKey == ""

InStore(store, key) == \E i \in DOMAIN store : store[i].key = key
EntryOf(store, key) == CHOOSE i \in DOMAIN store : store[i].key = key
SessionOf(store, key) == store[EntryOf(store, key)].session
Without(store, key) ==
    IF InStore(store, key) THEN RemoveAt(store, EntryOf(store, key)) ELSE store
Kept(store) == {store[i].session : i \in DOMAIN store}

Live(store, idle, key) ==
    key # NoKey /\ InStore(store, key) /\ idle[SessionOf(store, key)] <= SessionTTL

(* Get: the live session of the key, or a fresh one; without a key the     *)
(* session is detached.  The store evicts from the back.                   *)
GetSession(store, idle, key, fresh) ==
    IF Live(store, idle, key) THEN SessionOf(store, key) ELSE fresh

AfterGetSession(store, idle, key, fresh) ==
    LET opened == <<[key |-> key, session |-> GetSession(store, idle, key, fresh)]>>
                      \o Without(store, key)
    IN  IF key = NoKey THEN store
        ELSE SubSeq(opened, 1, IF Len(opened) > SessionMax THEN SessionMax ELSE Len(opened))

(* A mutant: the sweep stops at the first session it need not drop, as if  *)
(* the order were that of the last touch.                                  *)
ExpireFromBack(store, idle) ==
    LET alive == {i \in DOMAIN store : idle[store[i].session] <= SessionTTL}
    IN  SubSeq(store, 1, IF alive = {} THEN 0 ELSE CHOOSE i \in alive : \A j \in alive : j <= i)

(* expire: every entry is looked at, for the order is that of opening and  *)
(* a session is touched without moving.                                    *)
Expire(store, idle) ==
    LET kept[n \in 0..Len(store)] ==
            IF n = 0 THEN <<>>
            ELSE IF idle[store[n].session] > SessionTTL THEN kept[n - 1]
            ELSE Append(kept[n - 1], store[n])
    IN  kept[Len(store)]
=============================================================================
