------------------------- MODULE DurableLedgerProofs -------------------------
(***************************************************************************)
(* What DurableLedger guarantees for any tenants, requests, costs, budget  *)
(* and number of reports.  Everything rests on the books balancing: the    *)
(* database, the batches under way and what is pending add up to what was  *)
(* recorded, which holds only because a flusher that writes nothing holds  *)
(* no batch (Resting).                                                     *)
(***************************************************************************)
EXTENDS DurableLedger, SumsAndSequences

(* What the flushers hold of a key.                                        *)
Held(fl, k) == SumFunction([f \in Flushers |-> fl[f].batch[k]])

Flushes == [Flushers -> [writing : BOOLEAN, batch : Amounts]]

(* A flusher that is not writing holds nothing.                            *)
Resting == \A f \in Flushers : ~flush[f].writing => flush[f].batch = Nothing

(* A request between its readings knows no more than the database holds,   *)
(* and, unless the database was closed, no less than was settled when it   *)
(* asked.                                                                  *)
Knows(q) ==
    /\ q.pc = "disk" => q.answer = 0 /\ q.settled <= disk[q.key]
    /\ q.pc = "pending" => q.answer <= disk[q.key]
    /\ q.pc = "pending" /\ ~q.shut => q.settled <= q.answer
    /\ q.pc = "serving" /\ ~q.shut => q.settled < Budget

Informed == \A r \in Requests : Knows(req[r])

Asking ==
    [pc : {"new", "refused", "recorded", "failed"} \cup Live,
     key : Keys, answer : Nat, before : Nat, settled : Nat, shut : BOOLEAN]

Inv == TypeOK /\ Conserved /\ Resting /\ Informed
-----------------------------------------------------------------------------
LEMMA FlushersFinite == IsFiniteSet(Flushers)
  BY FlusherAssumption, FS_AddElement DEF Flushers

LEMMA NothingIsAmounts == Nothing \in Amounts /\ \A k \in Keys : Nothing[k] = 0
  BY DEF Nothing, Amounts

LEMMA PlusIsAmounts ==
    ASSUME NEW a \in Amounts, NEW b \in Amounts
    PROVE  Plus(a, b) \in Amounts /\ \A k \in Keys : Plus(a, b)[k] = a[k] + b[k]
  BY DEF Plus, Amounts

LEMMA AddIsAmounts ==
    ASSUME NEW a \in Amounts, NEW k \in Keys, NEW cost \in Nat
    PROVE  /\ Add(a, k, cost) \in Amounts
           /\ Add(a, k, cost)[k] = a[k] + cost
           /\ \A j \in Keys \ {k} : Add(a, k, cost)[j] = a[j]
  BY DEF Add, Amounts

LEMMA InMemoryIsHeld ==
    \A k : InMemory(k) = pending[k] + Held(flush, k)
  BY DEF InMemory, Held

LEMMA InMemoryIsHeldNext ==
    \A k : InMemory(k)' = pending'[k] + Held(flush', k)
  BY DEF InMemory, Held

LEMMA HeldIsNat ==
    ASSUME NEW fl \in Flushes, NEW k \in Keys
    PROVE  Held(fl, k) \in Nat
<1> DEFINE g == [f \in Flushers |-> fl[f].batch[k]]
<1>1. \A f \in Flushers : g[f] \in Nat
  BY DEF Flushes, Amounts
<1>2. Held(fl, k) = SumFunctionOnSet(g, Flushers)
  BY DEF Held, SumFunction
<1> HIDE DEF g
<1> QED
  BY <1>1, <1>2, FlushersFinite, SumIsNat

(* One flusher's batch replaced: what is held changes by the difference.   *)
LEMMA HeldChanges ==
    ASSUME NEW fl \in Flushes, NEW f \in Flushers, NEW w \in BOOLEAN,
           NEW b \in Amounts, NEW k \in Keys
    PROVE  LET after == [fl EXCEPT ![f] = [writing |-> w, batch |-> b]] IN
           /\ after \in Flushes
           /\ Held(after, k) + fl[f].batch[k] = Held(fl, k) + b[k]
<1> DEFINE after == [fl EXCEPT ![f] = [writing |-> w, batch |-> b]]
           g == [x \in Flushers |-> fl[x].batch[k]]
           h == [x \in Flushers |-> after[x].batch[k]]
<1>1. after \in Flushes
  BY DEF Flushes
<1>2. \A x \in Flushers : g[x] \in Nat /\ h[x] \in Nat
  BY <1>1 DEF Flushes, Amounts
<1>3. h[f] = b[k] /\ g[f] = fl[f].batch[k] /\ \A x \in Flushers \ {f} : h[x] = g[x]
  BY DEF Flushes
<1>4. /\ Held(fl, k) = SumFunctionOnSet(g, Flushers)
      /\ Held(after, k) = SumFunctionOnSet(h, Flushers)
  BY DEF Held, SumFunction
<1> HIDE DEF g, h, after
<1>5. SumFunctionOnSet(h, Flushers) + g[f] = SumFunctionOnSet(g, Flushers) + h[f]
  BY <1>2, <1>3, FlushersFinite, SumChangesOne
<1> QED
  BY <1>1, <1>3, <1>4, <1>5 DEF after

(* A flusher that ends its write gives up its batch.                       *)
LEMMA Released ==
    ASSUME NEW fl \in Flushes, NEW f \in Flushers
    PROVE  /\ [fl EXCEPT ![f] = Idle] \in Flushes
           /\ \A k \in Keys :
                  Held([fl EXCEPT ![f] = Idle], k) + fl[f].batch[k] = Held(fl, k)
<1> DEFINE after == [fl EXCEPT ![f] = Idle]
<1>1. after \in Flushes
  BY NothingIsAmounts DEF Flushes, Idle
<1>2. ASSUME NEW k \in Keys
      PROVE  Held(after, k) + fl[f].batch[k] = Held(fl, k)
  <2>1. Held(after, k) + fl[f].batch[k] = Held(fl, k) + Nothing[k]
    BY NothingIsAmounts, HeldChanges DEF Idle
  <2> QED
    BY <2>1, NothingIsAmounts, HeldIsNat
<1> QED
  BY <1>1, <1>2

LEMMA IdleHoldsNothing ==
    ASSUME NEW k \in Keys
    PROVE  /\ [f \in Flushers |-> Idle] \in Flushes
           /\ Held([f \in Flushers |-> Idle], k) = 0
<1> DEFINE fl == [f \in Flushers |-> Idle]
           g == [f \in Flushers |-> fl[f].batch[k]]
<1>1. \A f \in Flushers : g[f] = 0
  BY NothingIsAmounts DEF Idle
<1>2. Held(fl, k) = SumFunctionOnSet(g, Flushers)
  BY DEF Held, SumFunction
<1>3. fl \in Flushes
  BY NothingIsAmounts DEF Flushes, Idle
<1> HIDE DEF g
<1>4. SumFunctionOnSet(g, Flushers) = 0
  BY <1>1, FlushersFinite, SumOfNoughts
<1> QED
  BY <1>2, <1>3, <1>4

(* A request outside the ledger claims nothing.                            *)
LEMMA OutsideKnows ==
    ASSUME NEW r \in Requests, NEW pc \in {"new", "recorded", "failed"}
    PROVE  Outside(r, pc) \in Asking /\ Knows(Outside(r, pc))
<1>1. <<TenantOf[r], 0>> \in Keys
  BY TenantAssumption, NumberAssumption DEF Keys
<1> QED
  BY <1>1 DEF Outside, Asking, Knows

-----------------------------------------------------------------------------
LEMMA InitInv == Init => Inv
<1> SUFFICES ASSUME Init PROVE Inv
  OBVIOUS
<1>1. TypeOK
  <2>1. req \in [Requests -> Asking]
    BY OutsideKnows DEF Init
  <2>2. flush \in Flushes
    BY IdleHoldsNothing, NothingIsAmounts DEF Init, Idle, Flushes
  <2> QED
    BY <2>1, <2>2, NothingIsAmounts, NumberAssumption
       DEF Init, TypeOK, Flushes, Asking
<1>2. Conserved
  <2>1. \A k \in Keys : Held(flush, k) = 0
    BY IdleHoldsNothing DEF Init
  <2> QED
    BY <2>1, InMemoryIsHeld, NothingIsAmounts DEF Conserved, Init
<1>3. Resting
  BY DEF Resting, Init, Idle
<1>4. Informed
  BY OutsideKnows DEF Informed, Init
<1> QED
  BY <1>1, <1>2, <1>3, <1>4 DEF Inv

(* A step that moves no money keeps the books.                             *)
LEMMA BooksKept ==
    ASSUME Inv, UNCHANGED <<disk, pending, flush, spent>>
    PROVE  Conserved' /\ Resting'
<1>1. \A k \in Keys : InMemory(k)' = InMemory(k)
  BY InMemoryIsHeld, InMemoryIsHeldNext
<1> QED
  BY <1>1 DEF Inv, Conserved, Resting

(* The database only grows, so what a request has read of it stays true.   *)
LEMMA KnowledgeKept ==
    ASSUME Inv, disk' \in Amounts, \A k \in Keys : disk[k] <= disk'[k],
           NEW q \in Asking, Knows(q)
    PROVE  Knows(q)'
<1>1. q.key \in Keys /\ q.answer \in Nat /\ q.settled \in Nat
  BY DEF Asking
<1>2. disk[q.key] \in Nat /\ disk'[q.key] \in Nat /\ disk[q.key] <= disk'[q.key]
  BY <1>1 DEF Inv, TypeOK, Amounts
<1> QED
  BY <1>1, <1>2 DEF Knows

(* One request moves on and nothing else changes.                          *)
LEMMA OneMoves ==
    ASSUME Inv, NEW r \in Requests, NEW q \in Asking, Knows(q),
           req' = [req EXCEPT ![r] = q],
           UNCHANGED <<status, period, disk, pending, flush, spent>>
    PROVE  Inv'
<1>1. TypeOK'
  BY DEF Inv, TypeOK, Asking
<1>2. Informed'
  BY DEF Inv, TypeOK, Informed, Knows
<1> QED
  BY <1>1, <1>2, BooksKept DEF Inv

LEMMA CheckInv ==
    ASSUME Inv, NEW r \in Requests, Check(r)
    PROVE  Inv'
<1> DEFINE k == KeyNow(r)
           q == [pc |-> "disk", key |-> k, answer |-> 0,
                 before |-> spent[k], settled |-> Settled(k), shut |-> FALSE]
<1>1. k \in Keys
  BY TenantAssumption DEF Inv, TypeOK, KeyNow, Keys
<1> HIDE DEF k
<1>2. spent[k] \in Nat /\ disk[k] \in Nat /\ pending[k] \in Nat /\ Held(flush, k) \in Nat
  BY <1>1, HeldIsNat DEF Inv, TypeOK, Amounts, Flushes
<1>3. Settled(k) = disk[k]
  BY <1>1, <1>2, InMemoryIsHeld DEF Inv, Conserved, Settled
<1>4. q \in Asking
  BY <1>1, <1>2, <1>3 DEF Asking, Live
<1>5. Knows(q)
  BY <1>2, <1>3 DEF Knows
<1> QED
  BY <1>4, <1>5, OneMoves DEF Check, k

LEMMA ReadDiskInv ==
    ASSUME Inv, NEW r \in Requests, ReadDisk(r)
    PROVE  Inv'
<1> DEFINE read == req[r].answer + OnDisk(req[r].key)
           q == [req[r] EXCEPT !.pc = "pending", !.answer = read, !.shut = Shut]
<1>1. req[r] \in Asking /\ Knows(req[r]) /\ req[r].pc = "disk"
  BY DEF Inv, TypeOK, Asking, Informed, ReadDisk
<1>2. disk[req[r].key] \in Nat
  BY <1>1 DEF Inv, TypeOK, Amounts, Asking
<1>3. /\ read \in Nat /\ read <= disk[req[r].key]
      /\ ~Shut => read = disk[req[r].key]
  BY <1>1, <1>2 DEF Knows, OnDisk
<1>4. req' = [req EXCEPT ![r] = q]
  BY <1>1 DEF ReadDisk, Source, Inv, TypeOK
<1> HIDE DEF read
<1>5. /\ q.pc = "pending" /\ q.key = req[r].key /\ q.settled = req[r].settled
      /\ q.answer = read /\ q.shut = Shut
  BY <1>1 DEF Asking
<1>6. q \in Asking
  BY <1>1, <1>3 DEF Asking, Live, Shut
<1> HIDE DEF q
<1>7. Knows(q)
  BY <1>1, <1>2, <1>3, <1>5 DEF Knows
<1> QED
  BY <1>4, <1>6, <1>7, OneMoves DEF ReadDisk

LEMMA ReadPendingInv ==
    ASSUME Inv, NEW r \in Requests, ReadPending(r)
    PROVE  Inv'
<1> DEFINE answer == req[r].answer + pending[req[r].key]
           next == IF answer >= Budget THEN "refused" ELSE "serving"
           q == [req[r] EXCEPT !.answer = answer, !.pc = next]
<1>1. req[r] \in Asking /\ Knows(req[r]) /\ req[r].pc = "pending"
  BY DEF Inv, TypeOK, Asking, Informed, ReadPending
<1>2. pending[req[r].key] \in Nat /\ req[r].answer \in Nat /\ req[r].settled \in Nat
  BY <1>1 DEF Inv, TypeOK, Amounts, Asking
<1>3. answer \in Nat /\ (~req[r].shut => req[r].settled <= answer)
  BY <1>1, <1>2 DEF Knows
<1>4. next \in {"refused", "serving"}
      /\ (next = "serving" /\ ~req[r].shut => req[r].settled < Budget)
  BY <1>2, <1>3, NumberAssumption
<1>5. req' = [req EXCEPT ![r] = q]
  BY <1>1 DEF ReadPending, Source, Inv, TypeOK
<1> HIDE DEF answer, next
<1>6. q \in Asking
  BY <1>1, <1>3, <1>4 DEF Asking, Live
<1>7. q.pc = next /\ q.settled = req[r].settled /\ q.shut = req[r].shut
  BY <1>1 DEF Asking
<1>8. Knows(q)
  BY <1>4, <1>7 DEF Knows
<1> QED
  BY <1>5, <1>6, <1>8, OneMoves DEF ReadPending

LEMMA UnrecordedInv ==
    ASSUME Inv, NEW r \in Requests, Unrecorded(r)
    PROVE  Inv'
  BY OutsideKnows, OneMoves DEF Unrecorded

LEMMA RecordInv ==
    ASSUME Inv, NEW r \in Requests, NEW cost \in Costs, Record(r, cost)
    PROVE  Inv'
<1> DEFINE q == Outside(r, "recorded")
           k == KeyNow(r)
<1>1. k \in Keys /\ cost \in Nat
  BY TenantAssumption, CostAssumption DEF Inv, TypeOK, KeyNow, Keys
<1>2. /\ pending' = Add(pending, k, cost)
      /\ spent' = Add(spent, k, cost)
      /\ req' = [req EXCEPT ![r] = q]
      /\ UNCHANGED <<status, period, disk, flush>>
  BY DEF Record, Inv, TypeOK
<1>4. q \in Asking /\ Knows(q)
  BY OutsideKnows
<1> HIDE DEF q, k
<1>5. /\ pending' \in Amounts /\ spent' \in Amounts
      /\ pending'[k] = pending[k] + cost /\ spent'[k] = spent[k] + cost
      /\ \A j \in Keys \ {k} : pending'[j] = pending[j] /\ spent'[j] = spent[j]
  <2>1. pending \in Amounts /\ spent \in Amounts
    BY DEF Inv, TypeOK
  <2>2. /\ Add(pending, k, cost) \in Amounts
        /\ Add(pending, k, cost)[k] = pending[k] + cost
        /\ \A j \in Keys \ {k} : Add(pending, k, cost)[j] = pending[j]
    BY <1>1, <2>1, AddIsAmounts
  <2>3. /\ Add(spent, k, cost) \in Amounts
        /\ Add(spent, k, cost)[k] = spent[k] + cost
        /\ \A j \in Keys \ {k} : Add(spent, k, cost)[j] = spent[j]
    BY <1>1, <2>1, AddIsAmounts
  <2> QED
    BY <1>2, <2>2, <2>3
<1>6. TypeOK'
  BY <1>2, <1>4, <1>5 DEF Inv, TypeOK, Asking
<1>7. Conserved'
  <2> SUFFICES ASSUME NEW j \in Keys
               PROVE  disk'[j] + InMemory(j)' = spent'[j]
    BY DEF Conserved
  <2>1. Held(flush, j) \in Nat /\ disk[j] \in Nat /\ pending[j] \in Nat
    BY HeldIsNat DEF Inv, TypeOK, Flushes, Amounts
  <2>2. disk[j] + (pending[j] + Held(flush, j)) = spent[j]
    BY InMemoryIsHeld DEF Inv, Conserved
  <2>3. InMemory(j)' = pending'[j] + Held(flush, j) /\ disk'[j] = disk[j]
    BY <1>2, InMemoryIsHeldNext
  <2> QED
    BY <1>1, <1>5, <2>1, <2>2, <2>3
<1>8. Resting'
  BY <1>2 DEF Inv, Resting
<1>9. Informed'
  BY <1>2, <1>4 DEF Inv, TypeOK, Informed, Knows
<1> QED
  BY <1>6, <1>7, <1>8, <1>9 DEF Inv
-----------------------------------------------------------------------------
(* The requests look on while a flusher works.                             *)
LEMMA OthersLookOn ==
    ASSUME Inv, UNCHANGED req, disk' \in Amounts,
           \A k \in Keys : disk[k] <= disk'[k]
    PROVE  Informed'
<1>1. \A r \in Requests : req[r] \in Asking /\ Knows(req[r])
  BY DEF Inv, TypeOK, Asking, Informed
<1>2. \A q : q \in Asking /\ Knows(q) => Knows(q)'
  BY KnowledgeKept
<1>3. \A r \in Requests : Knows(req[r])'
  BY <1>1, <1>2 DEF Knows
<1> QED
  BY <1>3 DEF Informed

LEMMA TakeInv ==
    ASSUME Inv, NEW f \in Flushers, Take(f),
           status' \in {"up", "stopping", "closing", "closed", "down"}
    PROVE  Inv'
<1>1. /\ flush[f].batch = Nothing
      /\ flush' = [flush EXCEPT ![f] = [writing |-> TRUE, batch |-> pending]]
      /\ pending' = Nothing
      /\ UNCHANGED <<period, disk, req, spent>>
  BY DEF Inv, Resting, Take, Taken
<1>2. flush \in Flushes /\ pending \in Amounts
  BY DEF Inv, TypeOK, Flushes
<1>3. /\ flush' \in Flushes
      /\ \A k \in Keys : Held(flush', k) + flush[f].batch[k] = Held(flush, k) + pending[k]
  <2>1. [flush EXCEPT ![f] = [writing |-> TRUE, batch |-> pending]] \in Flushes
    BY <1>2 DEF Flushes
  <2> QED
    BY <1>1, <1>2, <2>1, HeldChanges
<1>4. TypeOK'
  BY <1>1, <1>3, NothingIsAmounts DEF Inv, TypeOK, Flushes
<1>5. Conserved'
  <2> SUFFICES ASSUME NEW j \in Keys
               PROVE  disk'[j] + InMemory(j)' = spent'[j]
    BY DEF Conserved
  <2>1. /\ Held(flush, j) \in Nat /\ Held(flush', j) \in Nat
        /\ disk[j] \in Nat /\ pending[j] \in Nat
    BY <1>2, <1>3, HeldIsNat DEF Inv, TypeOK, Amounts
  <2>2. disk[j] + (pending[j] + Held(flush, j)) = spent[j]
    BY InMemoryIsHeld DEF Inv, Conserved
  <2>3. flush[f].batch[j] = 0 /\ pending'[j] = 0
    BY <1>1, NothingIsAmounts
  <2>4. Held(flush', j) = Held(flush, j) + pending[j]
    BY <1>3, <2>1, <2>3
  <2>5. InMemory(j)' = pending'[j] + Held(flush', j)
    BY InMemoryIsHeldNext
  <2> QED
    BY <1>1, <2>1, <2>2, <2>3, <2>4, <2>5
<1>6. Resting'
  BY <1>1, <1>2 DEF Inv, Resting, Flushes
<1>7. Informed'
  BY <1>1, OthersLookOn DEF Inv, TypeOK, Amounts
<1> QED
  BY <1>4, <1>5, <1>6, <1>7 DEF Inv

LEMMA CommitInv ==
    ASSUME Inv, NEW f \in Flushers, Commit(f)
    PROVE  Inv'
<1> DEFINE b == flush[f].batch
<1>1. /\ disk' = Plus(disk, b)
      /\ flush' = [flush EXCEPT ![f] = Idle]
      /\ UNCHANGED <<status, period, pending, req, spent>>
  BY DEF Commit, Committed
<1>2. flush \in Flushes /\ b \in Amounts
  BY DEF Inv, TypeOK, Flushes
<1>3. /\ flush' \in Flushes
      /\ \A k \in Keys : Held(flush', k) + b[k] = Held(flush, k)
  BY <1>1, <1>2, Released
<1>4. disk' \in Amounts /\ \A k \in Keys : disk'[k] = disk[k] + b[k]
  BY <1>1, <1>2, PlusIsAmounts DEF Inv, TypeOK
<1>5. TypeOK'
  BY <1>1, <1>3, <1>4 DEF Inv, TypeOK, Flushes
<1> HIDE DEF b
<1>6. Conserved'
  <2> SUFFICES ASSUME NEW j \in Keys
               PROVE  disk'[j] + InMemory(j)' = spent'[j]
    BY DEF Conserved
  <2>1. /\ Held(flush, j) \in Nat /\ Held(flush', j) \in Nat
        /\ disk[j] \in Nat /\ pending[j] \in Nat /\ b[j] \in Nat
    BY <1>2, <1>3, HeldIsNat DEF Inv, TypeOK, Amounts
  <2>2. disk[j] + (pending[j] + Held(flush, j)) = spent[j]
    BY InMemoryIsHeld DEF Inv, Conserved
  <2>3. Held(flush', j) + b[j] = Held(flush, j)
    BY <1>3
  <2>4. InMemory(j)' = pending'[j] + Held(flush', j)
    BY InMemoryIsHeldNext
  <2> QED
    BY <1>1, <1>4, <2>1, <2>2, <2>3, <2>4
<1>7. Resting'
  BY <1>1, <1>2 DEF Inv, Resting, Flushes, Idle
<1>8. Informed'
  <2>1. \A k \in Keys : disk[k] <= disk'[k]
    BY <1>2, <1>4 DEF Inv, TypeOK, Amounts
  <2> QED
    BY <1>1, <1>4, <2>1, OthersLookOn
<1> QED
  BY <1>5, <1>6, <1>7, <1>8 DEF Inv

LEMMA FailWriteInv ==
    ASSUME Inv, NEW f \in Flushers, FailWrite(f)
    PROVE  Inv'
<1> DEFINE b == flush[f].batch
<1>1. /\ pending' = Plus(pending, b)
      /\ flush' = [flush EXCEPT ![f] = Idle]
      /\ UNCHANGED <<status, period, disk, req, spent>>
  BY DEF FailWrite, PutBack
<1>2. flush \in Flushes /\ b \in Amounts
  BY DEF Inv, TypeOK, Flushes
<1>3. /\ flush' \in Flushes
      /\ \A k \in Keys : Held(flush', k) + b[k] = Held(flush, k)
  BY <1>1, <1>2, Released
<1>4. pending' \in Amounts /\ \A k \in Keys : pending'[k] = pending[k] + b[k]
  BY <1>1, <1>2, PlusIsAmounts DEF Inv, TypeOK
<1>5. TypeOK'
  BY <1>1, <1>3, <1>4 DEF Inv, TypeOK, Flushes
<1> HIDE DEF b
<1>6. Conserved'
  <2> SUFFICES ASSUME NEW j \in Keys
               PROVE  disk'[j] + InMemory(j)' = spent'[j]
    BY DEF Conserved
  <2>1. /\ Held(flush, j) \in Nat /\ Held(flush', j) \in Nat
        /\ disk[j] \in Nat /\ pending[j] \in Nat /\ b[j] \in Nat
    BY <1>2, <1>3, HeldIsNat DEF Inv, TypeOK, Amounts
  <2>2. disk[j] + (pending[j] + Held(flush, j)) = spent[j]
    BY InMemoryIsHeld DEF Inv, Conserved
  <2>3. Held(flush', j) + b[j] = Held(flush, j)
    BY <1>3
  <2>4. InMemory(j)' = pending'[j] + Held(flush', j)
    BY InMemoryIsHeldNext
  <2> QED
    BY <1>1, <1>4, <2>1, <2>2, <2>3, <2>4
<1>7. Resting'
  BY <1>1, <1>2 DEF Inv, Resting, Flushes, Idle
<1>8. Informed'
  BY <1>1, OthersLookOn DEF Inv, TypeOK, Amounts
<1> QED
  BY <1>5, <1>6, <1>7, <1>8 DEF Inv

(* What a crash leaves of the history is what the database holds.          *)
LEMMA CrashLeavesDisk ==
    ASSUME Inv, Crash
    PROVE  spent' = disk
<1>1. ASSUME NEW k \in Keys PROVE Settled(k) = disk[k]
  <2>1. disk[k] \in Nat /\ pending[k] \in Nat /\ Held(flush, k) \in Nat
    BY HeldIsNat DEF Inv, TypeOK, Amounts, Flushes
  <2> QED
    BY <2>1, InMemoryIsHeld DEF Inv, Conserved, Settled
<1>2. spent' = [k \in Keys |-> Settled(k)]
  BY DEF Crash
<1>3. disk = [k \in Keys |-> disk[k]]
  BY DEF Inv, TypeOK, Amounts
<1> QED
  BY <1>1, <1>2, <1>3

LEMMA CrashInv ==
    ASSUME Inv, Crash
    PROVE  Inv'
<1>1. /\ status' = "down"
      /\ pending' = Nothing
      /\ flush' = [f \in Flushers |-> Idle]
      /\ UNCHANGED <<period, disk>>
  BY DEF Crash
<1>2. spent' = disk
  BY CrashLeavesDisk
<1>3. \A r \in Requests :
        /\ req'[r] \in Asking
        /\ Knows(req'[r])
  <2> SUFFICES ASSUME NEW r \in Requests
               PROVE  req'[r] \in Asking /\ Knows(req'[r])
    OBVIOUS
  <2>1. req[r] \in Asking /\ Knows(req[r])
    BY DEF Inv, TypeOK, Asking, Informed
  <2>2. req'[r] = IF req[r].pc \in Live THEN Outside(r, "failed") ELSE req[r]
    BY DEF Crash
  <2>3. CASE req[r].pc \in Live
    BY <2>2, <2>3, OutsideKnows
  <2>4. CASE req[r].pc \notin Live
    BY <2>1, <2>2, <2>4
  <2> QED
    BY <2>3, <2>4
<1>4. TypeOK'
  <2>1. flush' \in Flushes
    BY <1>1, NothingIsAmounts DEF Flushes, Idle
  <2>2. req' \in [Requests -> Asking]
    BY <1>3 DEF Crash
  <2> QED
    BY <1>1, <1>2, <2>1, <2>2, NothingIsAmounts DEF Inv, TypeOK, Flushes, Asking
<1>5. Conserved'
  <2> SUFFICES ASSUME NEW j \in Keys
               PROVE  disk'[j] + InMemory(j)' = spent'[j]
    BY DEF Conserved
  <2>1. Held(flush', j) = 0 /\ pending'[j] = 0
    BY <1>1, NothingIsAmounts, IdleHoldsNothing
  <2>2. InMemory(j)' = pending'[j] + Held(flush', j)
    BY InMemoryIsHeldNext
  <2> QED
    BY <1>1, <1>2, <2>1, <2>2 DEF Inv, TypeOK, Amounts
<1>6. Resting'
  BY <1>1 DEF Resting, Idle
<1>7. Informed'
  BY <1>1, <1>3 DEF Informed, Knows
<1> QED
  BY <1>4, <1>5, <1>6, <1>7 DEF Inv

(* The steps that change only the process's status or the calendar.        *)
LEMMA QuietInv ==
    ASSUME Inv, status' \in {"up", "stopping", "closing", "closed", "down"},
           period' \in 0..LastPeriod, UNCHANGED <<disk, pending, flush, req, spent>>
    PROVE  Inv'
<1>1. Informed'
  BY DEF Inv, Informed, Knows
<1> QED
  BY <1>1, BooksKept DEF Inv, TypeOK

LEMMA StepInv == Inv /\ [Next]_vars => Inv'
<1> SUFFICES ASSUME Inv, [Next]_vars PROVE Inv'
  OBVIOUS
<1>1. /\ status \in {"up", "stopping", "closing", "closed", "down"}
      /\ period \in 0..LastPeriod
      /\ Loop \in Flushers
  BY DEF Inv, TypeOK, Flushers
<1>2. ASSUME NEW r \in Requests, Ask(r) PROVE Inv'
  BY <1>2, CheckInv, ReadDiskInv, ReadPendingInv, RecordInv, UnrecordedInv DEF Ask
<1>3. CASE TakeAtTick \/ TakeToClose
  BY <1>1, <1>3, TakeInv DEF TakeAtTick, TakeToClose
<1>4. ASSUME NEW f \in Flushers, TakeForReport(f) \/ Write(f) PROVE Inv'
  BY <1>1, <1>4, TakeInv, CommitInv, FailWriteInv DEF TakeForReport, Write
<1>5. CASE Stop \/ Close \/ Open
  BY <1>1, <1>5, QuietInv DEF Stop, Close, Open, Reopened
<1>6. CASE Crash
  BY <1>6, CrashInv
<1>7. CASE Tick
  <2>1. period' \in 0..LastPeriod
    BY <1>1, <1>7, NumberAssumption DEF Tick
  <2> QED
    BY <1>1, <1>7, <2>1, QuietInv DEF Tick
<1>8. CASE UNCHANGED vars
  BY <1>1, <1>8, QuietInv DEF vars
<1> QED
  BY <1>2, <1>3, <1>4, <1>5, <1>6, <1>7, <1>8 DEF Next

LEMMA Invariance == Spec => []Inv
  BY InitInv, StepInv, PTL DEF Spec
-----------------------------------------------------------------------------
(* Amounts are natural numbers throughout: what a crash leaves of the      *)
(* history is never negative (durable.go, Flush; the bucket's counters).   *)
THEOREM TypeCorrect == Spec => []TypeOK
<1>1. Inv => TypeOK
  BY DEF Inv
<1> QED
  BY <1>1, Invariance, PTL

(* The database, the batches under way and what is pending add up to what  *)
(* was recorded, for any number of flushers, failures, crashes and         *)
(* restarts (durable.go, Flush and its merge back).                        *)
THEOREM Conservation == Spec => []Conserved
<1>1. Inv => Conserved
  BY DEF Inv
<1> QED
  BY <1>1, Invariance, PTL

(* A tenant whose allowance was spent and flushed when a request asked     *)
(* does not have that request admitted, crashes and concurrent flushes in  *)
(* between or not, unless its check finds the database closed already      *)
(* (budget.go, check; durable.go, Consumed and read).                      *)
THEOREM SettledSpendRefuses == Spec => []SettledIsRefused
<1>1. Inv => SettledIsRefused
  BY DEF Inv, Informed, Knows, SettledIsRefused
<1> QED
  BY <1>1, Invariance, PTL

(* Only its own second reading takes a request from "pending" to an answer.*)
LEMMA AnsweredByReading ==
    ASSUME Inv, [Next]_vars, NEW r \in Requests, req[r].pc = "pending",
           req'[r].pc \in {"serving", "refused"}
    PROVE  ReadPending(r)
<1>1. req \in [Requests -> Asking]
  BY DEF Inv, TypeOK, Asking
<1>2. ASSUME NEW s \in Requests, Ask(s) PROVE ReadPending(r)
  <2>1. CASE s = r
    <3>1. ~ ReadDisk(r) /\ ~ Check(r) /\ ~ Unrecorded(r)
          /\ \A cost \in Costs : ~ Record(r, cost)
      BY DEF ReadDisk, Check, Unrecorded, Record
    <3> QED
      BY <1>2, <2>1, <3>1 DEF Ask
  <2>2. CASE s # r
    <3>1. Check(s) => req'[r] = req[r]
      BY <1>1, <2>2 DEF Check
    <3>2. ReadDisk(s) => req'[r] = req[r]
      BY <1>1, <2>2 DEF ReadDisk
    <3>3. ReadPending(s) => req'[r] = req[r]
      BY <1>1, <2>2 DEF ReadPending
    <3>4. Unrecorded(s) => req'[r] = req[r]
      BY <1>1, <2>2 DEF Unrecorded
    <3>5. \A cost \in Costs : Record(s, cost) => req'[r] = req[r]
      BY <1>1, <2>2 DEF Record
    <3> QED
      BY <1>2, <3>1, <3>2, <3>3, <3>4, <3>5 DEF Ask
  <2> QED
    BY <2>1, <2>2
<1>3. CASE Crash
  <2>1. req'[r].pc = "failed"
    BY <1>1, <1>3 DEF Crash, Live, Asking, Outside
  <2> QED
    BY <2>1
<1>4. CASE UNCHANGED req
  BY <1>4
<1>5. TakeAtTick \/ TakeToClose \/ Stop \/ Close \/ Open \/ Tick => UNCHANGED req
  BY DEF TakeAtTick, TakeToClose, Take, Stop, Close, Open, Tick
<1>6. ASSUME NEW f \in Flushers, TakeForReport(f) \/ Write(f) PROVE UNCHANGED req
  BY <1>6 DEF TakeForReport, Take, Write, Commit, FailWrite
<1> QED
  BY <1>2, <1>3, <1>4, <1>5, <1>6 DEF Next, vars

(* What Consumed answers is never more than was recorded by then, although *)
(* it adds up a reading of the database and a later one of what is pending *)
(* (durable.go, Consumed): a batch that is committed in between is counted *)
(* once or not at all.                                                     *)
THEOREM ConsumedNeverOvercounts == Spec => NeverOvercounted
<1> DEFINE Answered(r) == req[r].pc = "pending" /\ req'[r].pc \in {"serving", "refused"}
                          => req'[r].answer <= spent[req[r].key]
<1>1. ASSUME Inv, [Next]_vars, NEW r \in Requests
      PROVE  Answered(r)
  <2> SUFFICES ASSUME req[r].pc = "pending", req'[r].pc \in {"serving", "refused"}
               PROVE  req'[r].answer <= spent[req[r].key]
    OBVIOUS
  <2> DEFINE k == req[r].key
  <2>1. req[r] \in Asking /\ Knows(req[r])
    BY <1>1 DEF Inv, TypeOK, Asking, Informed
  <2>2. req'[r].answer = req[r].answer + pending[k]
    <3>1. ReadPending(r)
      BY <1>1, AnsweredByReading
    <3> QED
      BY <1>1, <2>1, <3>1 DEF ReadPending, Source, Inv, TypeOK, Asking
  <2>3. k \in Keys /\ req[r].answer \in Nat /\ req[r].answer <= disk[k]
    BY <2>1 DEF Asking, Knows
  <2> HIDE DEF k
  <2>4. disk[k] \in Nat /\ pending[k] \in Nat /\ Held(flush, k) \in Nat
    BY <1>1, <2>3, HeldIsNat DEF Inv, TypeOK, Amounts, Flushes
  <2>5. disk[k] + (pending[k] + Held(flush, k)) = spent[k]
    BY <1>1, <2>3, InMemoryIsHeld DEF Inv, Conserved
  <2>6. req[r].answer + pending[k] <= spent[k]
    BY <2>3, <2>4, <2>5
  <2> QED
    BY <2>2, <2>6 DEF k
<1>2. Inv /\ [Next]_vars => [\A r \in Requests : Answered(r)]_vars
  BY <1>1
<1> QED
  BY <1>2, Invariance, PTL DEF Spec, NeverOvercounted

-----------------------------------------------------------------------------
(* The refinement: balanced books make the abstract account's spent the    *)
(* history of the detailed ledger, before and after every step.            *)
Anywhere == [k \in Keys |-> disk[k] + InMemory(k)]

LEMMA AnywhereIsSpent == Inv => Anywhere = spent
<1> SUFFICES ASSUME Inv PROVE Anywhere = spent
  OBVIOUS
<1>1. spent = [k \in Keys |-> spent[k]]
  BY DEF Inv, TypeOK, Amounts
<1> QED
  BY <1>1 DEF Anywhere, Inv, Conserved

LEMMA AccountInit == Init => Account!Init
<1> SUFFICES ASSUME Init PROVE Account!Init
  OBVIOUS
<1>1. Anywhere = spent
  BY InitInv, AnywhereIsSpent
<1> QED
  BY <1>1 DEF Account!Init, Anywhere, Init, Nothing

LEMMA AccountStep ==
    Inv /\ Inv' /\ [Next]_vars => [Account!Next]_<<Anywhere, disk>>
<1> SUFFICES ASSUME Inv, Inv', [Next]_vars
             PROVE  Account!Next \/ UNCHANGED <<Anywhere, disk>>
  OBVIOUS
<1>1. Anywhere = spent /\ Anywhere' = spent'
  <2>1. (Anywhere = spent)'
    BY AnywhereIsSpent, PTL
  <2> QED
    BY <2>1, AnywhereIsSpent
<1>2. ASSUME NEW r \in Requests, Ask(r)
      PROVE  Account!Next \/ UNCHANGED <<Anywhere, disk>>
  <2>1. ASSUME NEW cost \in Costs, Record(r, cost)
        PROVE  Account!Next
    <3>1. KeyNow(r) \in Keys
      BY TenantAssumption DEF Inv, TypeOK, KeyNow, Keys
    <3>2. Account!Spend(KeyNow(r), cost)
      BY <1>1, <2>1 DEF Account!Spend, Anywhere, Record, Add
    <3> QED
      BY <3>1, <3>2 DEF Account!Next
  <2>2. CASE Check(r) \/ ReadDisk(r) \/ ReadPending(r) \/ Unrecorded(r)
    BY <1>1, <2>2 DEF Check, ReadDisk, ReadPending, Unrecorded
  <2> QED
    BY <1>2, <2>1, <2>2 DEF Ask
<1>3. ASSUME NEW f \in Flushers, Commit(f)
      PROVE  Account!Next
  <2>1. disk' = Plus(disk, flush[f].batch) /\ spent' = spent
    BY <1>3 DEF Commit, Committed
  <2>2. ASSUME NEW k \in Keys
        PROVE  disk[k] <= disk'[k] /\ disk'[k] <= spent[k]
    <3>1. flush[f].batch \in Amounts /\ disk \in Amounts
      BY DEF Inv, TypeOK
    <3>2. disk'[k] = disk[k] + flush[f].batch[k]
      BY <2>1, <3>1, PlusIsAmounts
    <3>3. disk'[k] + InMemory(k)' = spent[k]
      BY <2>1 DEF Inv, Conserved
    <3>4. pending'[k] \in Nat /\ Held(flush', k) \in Nat /\ disk'[k] \in Nat
      BY HeldIsNat DEF Inv, TypeOK, Amounts, Flushes
    <3>5. disk[k] \in Nat /\ flush[f].batch[k] \in Nat
      BY <3>1 DEF Amounts
    <3> QED
      BY <3>2, <3>3, <3>4, <3>5, InMemoryIsHeldNext
  <2>3. Account!Secure
    BY <1>1, <2>1, <2>2 DEF Account!Secure, Anywhere
  <2> QED
    BY <2>3 DEF Account!Next
<1>4. ASSUME NEW f \in Flushers, TakeForReport(f) \/ FailWrite(f)
      PROVE  UNCHANGED <<Anywhere, disk>>
  BY <1>1, <1>4 DEF TakeForReport, Take, FailWrite
<1>5. CASE Crash
  <2>1. Account!Lose
    BY <1>1, <1>5, CrashLeavesDisk DEF Account!Lose, Anywhere, Crash
  <2> QED
    BY <2>1 DEF Account!Next
<1>6. CASE TakeAtTick \/ TakeToClose \/ Stop \/ Close \/ Open \/ Tick
  BY <1>1, <1>6 DEF TakeAtTick, TakeToClose, Take, Stop, Close, Open, Reopened, Tick
<1>7. CASE UNCHANGED vars
  BY <1>1, <1>7 DEF vars
<1> QED
  BY <1>2, <1>3, <1>4, <1>5, <1>6, <1>7 DEF Next, Write

(* The ledger implements the abstract account: spend is added up, more of  *)
(* it becomes safe and none ceases to be, and a crash takes back exactly   *)
(* what was not safe yet (package comment of ee/tokens/durable).           *)
THEOREM LedgerKeepsAccount == Spec => KeepsAccount
  BY AccountInit, AccountStep, Invariance, PTL
     DEF Spec, KeepsAccount, Account!Spec, Anywhere
=============================================================================
