------------------------------- MODULE Breaker -------------------------------
(***************************************************************************)
(* internal/llm/resilience.go with the calls of openai.go and anthropic.go *)
(* around it: one circuit breaker guards a backend; concurrent calls ask   *)
(* it for leave, retry with a backoff between attempts, and report how     *)
(* they ended.  Leave is asked before a call and its outcome is reported   *)
(* after it, so outcomes arrive late, out of order, and in states other    *)
(* than the one the call was admitted in.                                  *)
(***************************************************************************)
EXTENDS Naturals, Integers, FiniteSets

CONSTANTS
    Callers,        \* handlers that may have a call in flight
    Threshold,      \* BreakerThreshold; 0 or less means no breaker at all
    Retries         \* further attempts a blocking call makes

ASSUME CallersAssumption == IsFiniteSet(Callers)
ASSUME ThresholdAssumption == Threshold \in Nat \ {0}
ASSUME RetriesAssumption == Retries \in Nat

VARIABLES
    failures,       \* breaker.failures
    cooled,         \* time.Since(openedAt) >= cooldown
    call,           \* per caller: where its call is, attempts made, last result
    calm,           \* environment: the backend answers and callers wait for it
    streak          \* history: calls failed since one succeeded, to Threshold

vars == <<failures, cooled, call, calm, streak>>

Idle == [pc |-> "idle", tries |-> 0, last |-> "none"]

Init ==
    /\ failures = 0
    /\ cooled = TRUE
    /\ call = [c \in Callers |-> Idle]
    /\ calm \in BOOLEAN
    /\ streak = 0

InFlight == {c \in Callers : call[c].pc # "idle"}

Admit(c) == call' = [call EXCEPT ![c].pc = "calling", ![c].tries = 1]

End(c, result) ==
    call' = [call EXCEPT ![c].pc = "idle", ![c].tries = 0, ![c].last = result]

(* breaker.allow below the threshold.  While a half-open probe is out the  *)
(* count is below the threshold too, so the next call passes as well.      *)
AllowClosed(c) ==
    /\ call[c].pc = "idle"
    /\ failures < Threshold
    /\ Admit(c)
    /\ UNCHANGED <<failures, cooled, calm, streak>>

HalfOpenFresh == 0
HalfOpenBelow == failures - (Threshold + 1)

(* The count a half-open breaker restarts from.                            *)
HalfOpenCount == Threshold - 1

ProbeNever == FALSE

MayProbe == cooled

AllowHalfOpen(c) ==
    /\ call[c].pc = "idle"
    /\ failures >= Threshold
    /\ MayProbe
    /\ failures' = HalfOpenCount
    /\ Admit(c)
    /\ UNCHANGED <<cooled, calm, streak>>

(* ErrCircuitOpen: no call is made, and nothing is counted.                *)
Reject(c) ==
    /\ call[c].pc = "idle"
    /\ failures >= Threshold
    /\ ~MayProbe
    /\ End(c, "rejected")
    /\ UNCHANGED <<failures, cooled, calm, streak>>

SuccessUncounted == UNCHANGED failures

(* breaker.success, whenever the call was admitted.                        *)
Success == failures' = 0

Succeed(c) ==
    /\ call[c].pc = "calling"
    /\ Success
    /\ End(c, "ok")
    /\ streak' = 0
    /\ UNCHANGED <<cooled, calm>>

(* breaker.failure: at or above the threshold the cooldown starts again.   *)
Failure ==
    /\ failures' = failures + 1
    /\ cooled' = IF failures + 1 >= Threshold THEN FALSE ELSE cooled

AttemptCounted == Failure

(* Only the call as a whole is counted, not its attempts.                  *)
AttemptUncounted == UNCHANGED <<failures, cooled>>

(* A retryable error with attempts left: the call backs off.  Streams and  *)
(* embeddings make one attempt: they take Fail below at once.              *)
BackOff(c) ==
    /\ ~calm
    /\ call[c].pc = "calling"
    /\ call[c].tries <= Retries
    /\ call' = [call EXCEPT ![c].pc = "backoff"]
    /\ AttemptUncounted
    /\ UNCHANGED <<calm, streak>>

Retry(c) ==
    /\ call[c].pc = "backoff"
    /\ call' = [call EXCEPT ![c].pc = "calling", ![c].tries = @ + 1]
    /\ UNCHANGED <<failures, cooled, calm, streak>>

(* The last attempt, a permanent error, a broken stream, or a caller that  *)
(* went away during an attempt or a backoff: each counts as one failure.   *)
Fail(c) ==
    /\ ~calm
    /\ call[c].pc \in {"calling", "backoff"}
    /\ Failure
    /\ End(c, "failed")
    /\ streak' = IF streak < Threshold THEN streak + 1 ELSE streak
    /\ UNCHANGED calm

Elapse ==
    /\ ~cooled
    /\ cooled' = TRUE
    /\ UNCHANGED <<failures, call, calm, streak>>

Weather ==
    /\ calm' = ~calm
    /\ UNCHANGED <<failures, cooled, call, streak>>

Ask(c) == AllowClosed(c) \/ AllowHalfOpen(c) \/ Reject(c)
Proceed(c) == Succeed(c) \/ BackOff(c) \/ Retry(c) \/ Fail(c)

Next == Elapse \/ Weather \/ \E c \in Callers : Ask(c) \/ Proceed(c)

Spec == Init /\ [][Next]_vars

(* Time passes, a call returns (the HTTP client has a timeout and attempts *)
(* are bounded), and clients keep asking.                                  *)
FairSpec ==
    /\ Spec
    /\ WF_vars(Elapse)
    /\ \A c \in Callers : WF_vars(Ask(c)) /\ WF_vars(Proceed(c))
-----------------------------------------------------------------------------
Calls == [pc : {"idle", "calling", "backoff"}, tries : 0..(Retries + 1),
          last : {"none", "ok", "failed", "rejected"}]

TypeOK ==
    /\ failures \in Nat
    /\ cooled \in BOOLEAN
    /\ call \in [Callers -> Calls]
    /\ calm \in BOOLEAN
    /\ streak \in 0..Threshold

(* Calls that were already out when the breaker opened may still raise its *)
(* count, but each only once: the count stays within the threshold and the *)
(* calls that can be in flight, however long the outage lasts.             *)
FailuresBounded == failures + Cardinality(InFlight) < Threshold + Cardinality(Callers)

(* A call is rejected only when Threshold calls in a row have failed with  *)
(* no success among them, in the order in which they ended.                *)
RejectedOnlyAfterStreak ==
    [][\A c \in Callers :
         call[c].last # "rejected" /\ call'[c].last = "rejected"
         => streak = Threshold]_vars

(* Half-open is no amnesty: until a call succeeds, a backend that failed   *)
(* Threshold times in a row is one failure away from being cut off again.  *)
NoAmnesty == streak = Threshold => failures + 1 >= Threshold

(* Once the backend answers and its callers wait, the breaker closes and   *)
(* stays closed: no order of late outcomes locks it out for good.          *)
ClosesAgain == (<>[]calm) => <>[](failures = 0)
=============================================================================
