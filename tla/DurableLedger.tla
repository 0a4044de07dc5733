---------------------------- MODULE DurableLedger ----------------------------
(***************************************************************************)
(* ee/tokens/durable with the budget guard of internal/gateway/budget.go   *)
(* that asks it: requests are admitted on what their tenant has consumed,  *)
(* record what they cost when they end, and the batches of what was        *)
(* recorded reach the database in the background, by the flush loop and by *)
(* reports, across write failures, crashes, restarts and a close.          *)
(*                                                                         *)
(* An amount is prompt plus completion tokens: the two move together.      *)
(***************************************************************************)
EXTENDS Naturals, FiniteSets, FiniteSetsExt

CONSTANTS
    Requests,       \* each asks once
    Tenants,
    TenantOf,       \* TenantOf[r]: the tenant a request belongs to
    Costs,          \* what a request may turn out to cost
    Budget,         \* a tenant's allowance for a period
    LastPeriod,     \* bound on the calendar
    Reports,        \* callers of Periods, which flush on their own account
    Loop            \* the flush loop, which also makes the flush of Close

ASSUME TenantAssumption == TenantOf \in [Requests -> Tenants]
ASSUME CostAssumption == Costs \subseteq Nat
ASSUME NumberAssumption == Budget \in Nat \ {0} /\ LastPeriod \in Nat
ASSUME FlusherAssumption == Loop \notin Reports /\ IsFiniteSet(Reports)

VARIABLES
    status,         \* of the process: up, stopping, closing, closed or down
    period,         \* periodStart(now())
    disk,           \* bucketSpend: what the database holds per key
    pending,        \* Ledger.pending: recorded, not taken by a flush
    flush,          \* per flusher: whether it writes, and its batch
    req,            \* per request: its position and what Consumed read
    spent           \* history: recorded per key, less what a crash took

vars == <<status, period, disk, pending, flush, req, spent>>

Flushers == Reports \cup {Loop}
Keys == Tenants \X (0..LastPeriod)
Nothing == [k \in Keys |-> 0]

Plus(a, b) == [k \in Keys |-> a[k] + b[k]]
Add(a, k, cost) == [a EXCEPT ![k] = @ + cost]

Idle == [writing |-> FALSE, batch |-> Nothing]

(* key: the tenant, and the period the ledger's clock is in.               *)
KeyNow(r) == <<TenantOf[r], period>>

(* A request that has not asked yet, or that is over.                      *)
Outside(r, pc) ==
    [pc |-> pc, key |-> <<TenantOf[r], 0>>, answer |-> 0,
     before |-> 0, settled |-> 0, shut |-> FALSE]

Init ==
    /\ status = "up"
    /\ period = 0
    /\ disk = Nothing
    /\ pending = Nothing
    /\ flush = [f \in Flushers |-> Idle]
    /\ req = [r \in Requests |-> Outside(r, "new")]
    /\ spent = Nothing

(* What of the history has been committed to the database.                 *)
InMemory(k) ==
    pending[k] + SumFunction([f \in Flushers |-> flush[f].batch[k]])

Settled(k) == spent[k] - InMemory(k)

(* budgetGuard.check asks for the period the clock is in, of a ledger that *)
(* may be closing or closed; before and settled remember, for the          *)
(* properties, what was true when it asked, and shut whether the database  *)
(* was closed when it was read.                                            *)
Check(r) ==
    /\ status # "down"
    /\ req[r].pc = "new"
    /\ req' = [req EXCEPT ![r] =
                 [pc |-> "disk", key |-> KeyNow(r), answer |-> 0,
                  before |-> spent[KeyNow(r)], settled |-> Settled(KeyNow(r)),
                  shut |-> FALSE]]
    /\ UNCHANGED <<status, period, disk, pending, flush, spent>>

(* Definitions that precede the one they resemble, and that no action uses,*)
(* are the faults the mutation checks put in its place.                    *)
SourceSwapped(pc, k) == IF pc = "disk" THEN pending[k] ELSE disk[k]

(* Ledger.read drops the error of View: a closed database reads as one     *)
(* that holds nothing.                                                     *)
Shut == status = "closed"
OnDisk(k) == IF Shut THEN 0 ELSE disk[k]

(* Ledger.Consumed reads the database, and then, in a second step and      *)
(* under the mutex, what is pending.                                       *)
Source(pc, k) == IF pc = "disk" THEN OnDisk(k) ELSE pending[k]

ReadDisk(r) ==
    /\ req[r].pc = "disk"
    /\ req' = [req EXCEPT ![r].pc = "pending",
                          ![r].answer = @ + Source("disk", req[r].key),
                          ![r].shut = Shut]
    /\ UNCHANGED <<status, period, disk, pending, flush, spent>>

ReadPending(r) ==
    /\ req[r].pc = "pending"
    /\ LET answer == req[r].answer + Source("pending", req[r].key) IN
           req' = [req EXCEPT ![r].answer = answer,
                              ![r].pc = IF answer >= Budget THEN "refused"
                                        ELSE "serving"]
    /\ UNCHANGED <<status, period, disk, pending, flush, spent>>

(* A request that ends is recorded under the period it ends in; one that   *)
(* failed upstream is not recorded at all.                                 *)
Record(r, cost) ==
    /\ req[r].pc = "serving"
    /\ req' = [req EXCEPT ![r] = Outside(r, "recorded")]
    /\ pending' = Add(pending, KeyNow(r), cost)
    /\ spent' = Add(spent, KeyNow(r), cost)
    /\ UNCHANGED <<status, period, disk, flush>>

Unrecorded(r) ==
    /\ req[r].pc = "serving"
    /\ req' = [req EXCEPT ![r] = Outside(r, "failed")]
    /\ UNCHANGED <<status, period, disk, pending, flush, spent>>

HasWorkNow == \E t \in Tenants : pending[<<t, period>>] > 0

HasWork == pending # Nothing

TakenNil == pending' = <<>>

Taken == pending' = Nothing

(* Ledger.Flush swaps the pending map for an empty one ...                 *)
Take(f) ==
    /\ ~flush[f].writing
    /\ HasWork
    /\ flush' = [flush EXCEPT ![f] = [writing |-> TRUE, batch |-> pending]]
    /\ Taken
    /\ UNCHANGED <<period, disk, req, spent>>

(* ... at a tick, for a report, even of a closed ledger, or to close ...   *)
TakeAtTick == status = "up" /\ Take(Loop) /\ UNCHANGED status

TakeForReport(f) ==
    /\ f \in Reports
    /\ status # "down"
    /\ Take(f)
    /\ UNCHANGED status

TakeToClose == status = "stopping" /\ Take(Loop) /\ status' = "closing"

(* ... adds the batch to the database in one transaction ...               *)
Committed(batch) == disk' = Plus(disk, batch)

Commit(f) ==
    /\ flush[f].writing
    /\ ~Shut
    /\ Committed(flush[f].batch)
    /\ flush' = [flush EXCEPT ![f] = Idle]
    /\ UNCHANGED <<status, period, pending, req, spent>>

PutBackOver(batch) ==
    pending' = [k \in Keys |-> IF batch[k] > 0 THEN batch[k] ELSE pending[k]]
PutBackNothing(batch) == UNCHANGED pending

(* ... or merges it back into what was recorded meanwhile.                 *)
PutBack(batch) == pending' = Plus(pending, batch)

FailWrite(f) ==
    /\ flush[f].writing
    /\ PutBack(flush[f].batch)
    /\ flush' = [flush EXCEPT ![f] = Idle]
    /\ UNCHANGED <<status, period, disk, req, spent>>

(* Ledger.Close stops the loop and waits for it, flushes once and closes   *)
(* the database, which ends the transactions that have begun: the batch a  *)
(* report has taken by then is committed before this step, or put back     *)
(* after it.                                                               *)
Stop ==
    /\ status = "up"
    /\ status' = "stopping"
    /\ UNCHANGED <<period, disk, pending, flush, req, spent>>

Close ==
    /\ \/ status = "closing"
       \/ status = "stopping" /\ ~HasWork
    /\ ~flush[Loop].writing
    /\ status' = "closed"
    /\ UNCHANGED <<period, disk, pending, flush, req, spent>>

Live == {"disk", "pending", "serving"}

(* Whatever is in memory is gone, a batch not committed included.          *)
Crash ==
    /\ status # "down"
    /\ status' = "down"
    /\ pending' = Nothing
    /\ flush' = [f \in Flushers |-> Idle]
    /\ req' = [r \in Requests |->
                 IF req[r].pc \in Live THEN Outside(r, "failed")
                 ELSE req[r]]
    /\ spent' = [k \in Keys |-> Settled(k)]
    /\ UNCHANGED <<period, disk>>

ReopenedEmpty == disk' = Nothing

(* durable.Open: the bucket is created only if it does not exist.          *)
Reopened == UNCHANGED disk

Open ==
    /\ status = "down"
    /\ status' = "up"
    /\ Reopened
    /\ UNCHANGED <<period, pending, flush, req, spent>>

Tick ==
    /\ period < LastPeriod
    /\ period' = period + 1
    /\ UNCHANGED <<status, disk, pending, flush, req, spent>>

Ask(r) ==
    \/ Check(r)
    \/ ReadDisk(r)
    \/ ReadPending(r)
    \/ \E cost \in Costs : Record(r, cost)
    \/ Unrecorded(r)

Write(f) == Commit(f) \/ FailWrite(f)

Next ==
    \/ \E r \in Requests : Ask(r)
    \/ TakeAtTick \/ TakeToClose
    \/ \E f \in Flushers : TakeForReport(f) \/ Write(f)
    \/ Stop \/ Close \/ Crash \/ Open \/ Tick

Spec == Init /\ [][Next]_vars

(* The ticker fires, a transaction ends, and a write that is tried again   *)
(* and again succeeds at last.  Nothing obliges the process to come back.  *)
FairSpec ==
    /\ Spec
    /\ WF_vars(TakeAtTick)
    /\ \A f \in Flushers : WF_vars(Write(f)) /\ SF_vars(Commit(f))
-----------------------------------------------------------------------------
Amounts == [Keys -> Nat]

TypeOK ==
    /\ status \in {"up", "stopping", "closing", "closed", "down"}
    /\ period \in 0..LastPeriod
    /\ disk \in Amounts
    /\ pending \in Amounts
    /\ flush \in [Flushers -> [writing : BOOLEAN, batch : Amounts]]
    /\ req \in [Requests ->
                 [pc : {"new", "refused", "recorded", "failed"} \cup Live,
                  key : Keys, answer : Nat, before : Nat, settled : Nat,
                  shut : BOOLEAN]]
    /\ spent \in Amounts

(* No token is lost or counted twice, whichever writes fail and whoever    *)
(* flushes or records meanwhile: disk, batches and pending add up to what  *)
(* was recorded and not lost in a crash (durable.go, Flush: a transient    *)
(* write failure must not silently hand every tenant its allowance again). *)
Conserved == \A k \in Keys : disk[k] + InMemory(k) = spent[k]

(* Consumption that a flush has settled counts from then on, across        *)
(* crashes, restarts and a close under way: a tenant whose allowance is    *)
(* spent on record is admitted again in that period only by a check that   *)
(* finds the database already closed, of which it reads nothing            *)
(* (durable.go, read and Close; budget.go, check).                         *)
SettledIsRefused ==
    \A r \in Requests :
        req[r].pc = "serving" /\ ~req[r].shut => req[r].settled < Budget

(* Consumed never reports more than was recorded by the time it answers,   *)
(* although it adds up two readings taken at different times.              *)
NeverOvercounted ==
    [][\A r \in Requests :
         req[r].pc = "pending" /\ req'[r].pc \in {"serving", "refused"}
         => req'[r].answer <= spent[req[r].key]]_vars

(* The ledger keeps the abstract promise, whatever is in flight: safe is   *)
(* the database, and spent is all that is anywhere.                        *)
Account == INSTANCE SpendAccount WITH
               spent <- [k \in Keys |-> disk[k] + InMemory(k)],
               safe <- disk
KeepsAccount == Account!Spec

(* What a running process has recorded reaches the database, or a crash or *)
(* a close comes first.                                                    *)
ReachesDisk ==
    \A k \in Keys :
        (status = "up" /\ InMemory(k) > 0)
            ~> (InMemory(k) = 0 \/ status # "up")

(* durable.go, Consumed: "Unflushed consumption is included."  A flush     *)
(* between its two readings, or under way when they are made, hides what   *)
(* it has taken.                                                           *)
UnflushedIncluded ==
    \A r \in Requests :
        req[r].pc \in {"serving", "refused"} => req[r].answer >= req[r].before
=============================================================================
