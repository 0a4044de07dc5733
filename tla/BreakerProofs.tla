---------------------------- MODULE BreakerProofs ----------------------------
(***************************************************************************)
(* What Breaker guarantees for any number of callers, any threshold and    *)
(* any number of retries.  The count of failures alone does not explain    *)
(* why a call is rejected, since half-opening lowers it and late outcomes  *)
(* raise it again: StreakExplains relates it to the failures in a row.     *)
(***************************************************************************)
EXTENDS Breaker, FiniteSetTheorems, TLAPS


(* The count runs at most one behind the streak, and past it only when the *)
(* streak has reached the threshold.                                       *)
StreakExplains ==
    /\ streak <= failures + 1
    /\ failures <= streak \/ streak = Threshold

(* A call backs off only with an attempt left.                             *)
TriesLeft == \A c \in Callers : call[c].pc = "backoff" => call[c].tries <= Retries

IInv == TypeOK /\ TriesLeft /\ StreakExplains /\ FailuresBounded

-----------------------------------------------------------------------------
(* The calls in flight are finitely many, and at most one for each caller. *)
LEMMA InFlightFinite ==
    /\ IsFiniteSet(InFlight)
    /\ Cardinality(InFlight) \in Nat
    /\ Cardinality(Callers) \in Nat
    /\ Cardinality(InFlight) <= Cardinality(Callers)
<1>1. InFlight \subseteq Callers
  BY DEF InFlight
<1> QED
  BY <1>1, CallersAssumption, FS_Subset, FS_CardinalityType

(* The same of the next state.                                             *)
LEMMA InFlightFiniteNext ==
    /\ Cardinality(InFlight') \in Nat
    /\ Cardinality(Callers) \in Nat
    /\ Cardinality(InFlight') <= Cardinality(Callers)
<1>1. InFlight' \subseteq Callers
  BY DEF InFlight
<1> QED
  BY <1>1, CallersAssumption, FS_Subset, FS_CardinalityType

(* A call that ends leaves one call fewer in flight.                       *)
LEMMA EndLeavesOneLess ==
    ASSUME TypeOK, NEW c \in Callers, NEW result,
           call[c].pc # "idle", End(c, result)
    PROVE  Cardinality(InFlight') = Cardinality(InFlight) - 1
<1>1. InFlight' = InFlight \ {c}
  BY DEF InFlight, End, TypeOK
<1>2. c \in InFlight
  BY DEF InFlight
<1> QED
  BY <1>1, <1>2, InFlightFinite, FS_RemoveElement

-----------------------------------------------------------------------------
(* What starting and ending a call do to its record.                       *)
LEMMA AdmitType ==
    ASSUME TypeOK, NEW c \in Callers, Admit(c)
    PROVE  call' \in [Callers -> Calls]
<1>0. call[c] \in Calls /\ 1 \in 0..(Retries + 1)
  BY RetriesAssumption DEF TypeOK
<1>1. [call[c] EXCEPT !.pc = "calling", !.tries = 1] \in Calls
  BY <1>0 DEF Calls
<1>2. call' = [call EXCEPT ![c] = [@ EXCEPT !.pc = "calling", !.tries = 1]]
  BY DEF Admit, TypeOK
<1> QED
  BY <1>1, <1>2 DEF TypeOK

LEMMA EndType ==
    ASSUME TypeOK, NEW c \in Callers,
           NEW result \in {"ok", "failed", "rejected"}, End(c, result)
    PROVE  call' \in [Callers -> Calls]
<1>0. call[c] \in Calls /\ 0 \in 0..(Retries + 1)
  BY RetriesAssumption DEF TypeOK
<1>1. [call[c] EXCEPT !.pc = "idle", !.tries = 0, !.last = result] \in Calls
  BY <1>0 DEF Calls
<1>2. call' = [call EXCEPT ![c] =
                 [@ EXCEPT !.pc = "idle", !.tries = 0, !.last = result]]
  BY DEF End, TypeOK
<1> QED
  BY <1>1, <1>2 DEF TypeOK

(* Type correctness is inductive once a backoff is known to be allowed.    *)
LEMMA InitType == Init => TypeOK
<1> SUFFICES ASSUME Init PROVE TypeOK
  OBVIOUS
<1>1. Idle \in Calls
  BY RetriesAssumption DEF Idle, Calls
<1> QED
  BY <1>1, ThresholdAssumption DEF Init, TypeOK

LEMMA NextType == TypeOK /\ TriesLeft /\ [Next]_vars => TypeOK'
<1> SUFFICES ASSUME TypeOK, TriesLeft, [Next]_vars PROVE TypeOK'
  OBVIOUS
<1>1. CASE UNCHANGED vars
  BY <1>1 DEF vars, TypeOK
<1>2. CASE Elapse
  BY <1>2 DEF Elapse, TypeOK
<1>3. CASE Weather
  BY <1>3 DEF Weather, TypeOK
<1>4. ASSUME NEW c \in Callers, Ask(c) PROVE TypeOK'
  <2>1. CASE AllowClosed(c)
    BY <2>1, AdmitType DEF AllowClosed, TypeOK
  <2>2. CASE AllowHalfOpen(c)
    BY <2>2, AdmitType, ThresholdAssumption
    DEF AllowHalfOpen, HalfOpenCount, TypeOK
  <2>3. CASE Reject(c)
    BY <2>3, EndType DEF Reject, TypeOK
  <2> QED
    BY <1>4, <2>1, <2>2, <2>3 DEF Ask
<1>5. ASSUME NEW c \in Callers, Proceed(c) PROVE TypeOK'
  <2>1. CASE Succeed(c)
    BY <2>1, EndType, ThresholdAssumption DEF Succeed, Success, TypeOK
  <2>2. CASE BackOff(c)
    <3>1. [call[c] EXCEPT !.pc = "backoff"] \in Calls
      BY DEF TypeOK, Calls
    <3>2. call' \in [Callers -> Calls]
      BY <2>2, <3>1 DEF BackOff, TypeOK
    <3> QED
      BY <2>2, <3>2 DEF BackOff, AttemptUncounted, TypeOK
  <2>3. CASE Retry(c)
    <3>0. call[c] \in Calls
      BY DEF TypeOK
    <3>1. call[c].tries + 1 \in 0..(Retries + 1)
      BY <2>3, <3>0, RetriesAssumption DEF Retry, TriesLeft, Calls
    <3>2. [call[c] EXCEPT !.pc = "calling", !.tries = @ + 1] \in Calls
      BY <3>0, <3>1 DEF Calls
    <3>3. call' \in [Callers -> Calls]
      BY <2>3, <3>2 DEF Retry, TypeOK
    <3> QED
      BY <2>3, <3>3 DEF Retry, TypeOK
  <2>4. CASE Fail(c)
    <3>1. call' \in [Callers -> Calls]
      BY <2>4, EndType DEF Fail
    <3>2. failures' \in Nat
      BY <2>4 DEF Fail, Failure, TypeOK
    <3>4. cooled' \in BOOLEAN
      BY <2>4, Zenon DEF Fail, Failure, TypeOK
    <3>3. streak' \in 0..Threshold
      BY <2>4, ThresholdAssumption DEF Fail, TypeOK
    <3> QED
      BY <2>4, <3>1, <3>2, <3>3, <3>4 DEF Fail, TypeOK
  <2> QED
    BY <1>5, <2>1, <2>2, <2>3, <2>4 DEF Proceed
<1> QED
  BY <1>1, <1>2, <1>3, <1>4, <1>5 DEF Next

-----------------------------------------------------------------------------
(* A call is marked as backing off only by BackOff, which asks for a try.  *)
LEMMA NextTries == TypeOK /\ TriesLeft /\ [Next]_vars => TriesLeft'
<1> SUFFICES ASSUME TypeOK, TriesLeft, [Next]_vars,
                    NEW d \in Callers, call'[d].pc = "backoff"
             PROVE  call'[d].tries <= Retries
  BY DEF TriesLeft
<1>0. call \in [Callers -> Calls]
  BY DEF TypeOK
<1>1. CASE UNCHANGED call
  BY <1>1 DEF TriesLeft
<1>2. ASSUME NEW c \in Callers, Admit(c) PROVE call'[d].tries <= Retries
  BY <1>0, <1>2 DEF Admit, TriesLeft, Calls
<1>3. ASSUME NEW c \in Callers, NEW result, End(c, result)
      PROVE  call'[d].tries <= Retries
  BY <1>0, <1>3 DEF End, TriesLeft, Calls
<1>4. ASSUME NEW c \in Callers, BackOff(c) PROVE call'[d].tries <= Retries
  BY <1>0, <1>4 DEF BackOff, TriesLeft, Calls
<1>5. ASSUME NEW c \in Callers, Retry(c) PROVE call'[d].tries <= Retries
  BY <1>0, <1>5 DEF Retry, TriesLeft, Calls
<1> QED
  BY <1>1, <1>2, <1>3, <1>4, <1>5
  DEF Next, vars, Elapse, Weather, Ask, Proceed, AllowClosed, AllowHalfOpen,
      Reject, Succeed, Fail

(* A failure adds one to both counts, a success clears both, and           *)
(* half-opening leaves the count one short of the threshold.               *)
LEMMA NextStreak == TypeOK /\ StreakExplains /\ [Next]_vars => StreakExplains'
<1> SUFFICES ASSUME TypeOK, StreakExplains, [Next]_vars PROVE StreakExplains'
  OBVIOUS
<1>0. failures \in Nat /\ streak \in 0..Threshold /\ Threshold \in Nat \ {0}
  BY ThresholdAssumption DEF TypeOK
<1>1. CASE UNCHANGED <<failures, streak>>
  BY <1>1 DEF StreakExplains
<1>2. ASSUME NEW c \in Callers, AllowHalfOpen(c) PROVE StreakExplains'
  BY <1>0, <1>2 DEF AllowHalfOpen, HalfOpenCount, StreakExplains
<1>3. ASSUME NEW c \in Callers, Succeed(c) PROVE StreakExplains'
  BY <1>0, <1>3 DEF Succeed, Success, StreakExplains
<1>4. ASSUME NEW c \in Callers, Fail(c) PROVE StreakExplains'
  <2>1. failures' = failures + 1
    BY <1>4 DEF Fail, Failure
  <2>2. streak' = IF streak < Threshold THEN streak + 1 ELSE streak
    BY <1>4 DEF Fail
  <2> QED
    BY <1>0, <2>1, <2>2 DEF StreakExplains
<1> QED
  BY <1>1, <1>2, <1>3, <1>4
  DEF Next, vars, Elapse, Weather, Ask, Proceed, AllowClosed, Reject, BackOff,
      Retry, AttemptUncounted

(* Only a call that ends adds to the count, and it is then out of flight;  *)
(* a call is let in only while the count is below the threshold.           *)
LEMMA NextBounded ==
    TypeOK /\ FailuresBounded /\ [Next]_vars => FailuresBounded'
<1> SUFFICES ASSUME TypeOK, FailuresBounded, [Next]_vars PROVE FailuresBounded'
  OBVIOUS
<1>0. /\ failures \in Nat
      /\ Threshold \in Nat \ {0}
      /\ call \in [Callers -> Calls]
  BY ThresholdAssumption DEF TypeOK
<1>1. CASE UNCHANGED <<failures, call>>
  BY <1>1 DEF FailuresBounded, InFlight
<1>2. CASE failures' < Threshold /\ failures' \in Nat
  BY <1>0, <1>2, InFlightFiniteNext DEF FailuresBounded
<1>3. ASSUME NEW c \in Callers, Ask(c) PROVE FailuresBounded'
  <2>1. CASE AllowClosed(c)
    BY <1>0, <1>2, <2>1 DEF AllowClosed
  <2>2. CASE AllowHalfOpen(c)
    BY <1>0, <1>2, <2>2 DEF AllowHalfOpen, HalfOpenCount
  <2>3. CASE Reject(c)
    <3>1. InFlight' = InFlight
      BY <1>0, <2>3 DEF Reject, End, InFlight, Calls
    <3> QED
      BY <2>3, <3>1 DEF Reject, FailuresBounded
  <2> QED
    BY <1>3, <2>1, <2>2, <2>3 DEF Ask
<1>4. ASSUME NEW c \in Callers, Proceed(c) PROVE FailuresBounded'
  <2>1. CASE Succeed(c)
    BY <1>0, <1>2, <2>1 DEF Succeed, Success
  <2>2. CASE BackOff(c) \/ Retry(c)
    <3>1. InFlight' = InFlight
      BY <1>0, <2>2 DEF BackOff, Retry, InFlight, Calls
    <3> QED
      BY <2>2, <3>1 DEF BackOff, Retry, AttemptUncounted, FailuresBounded
  <2>3. CASE Fail(c)
    <3>1. Cardinality(InFlight') = Cardinality(InFlight) - 1
      BY <2>3, EndLeavesOneLess DEF Fail
    <3>2. failures' = failures + 1
      BY <2>3 DEF Fail, Failure
    <3> QED
      BY <1>0, <3>1, <3>2, InFlightFinite DEF FailuresBounded
  <2> QED
    BY <1>4, <2>1, <2>2, <2>3 DEF Proceed
<1> QED
  BY <1>1, <1>3, <1>4 DEF Next, vars, Elapse, Weather

LEMMA InitBounded == Init => TriesLeft /\ StreakExplains /\ FailuresBounded
<1> SUFFICES ASSUME Init PROVE TriesLeft /\ StreakExplains /\ FailuresBounded
  OBVIOUS
<1>1. InFlight = {}
  BY DEF Init, Idle, InFlight
<1>2. Cardinality(InFlight) = 0
  BY <1>1, FS_EmptySet
<1> QED
  BY <1>2, InFlightFinite, ThresholdAssumption
  DEF Init, Idle, TriesLeft, StreakExplains, FailuresBounded

-----------------------------------------------------------------------------
(* The inductive invariant holds throughout.                               *)
THEOREM Invariance == Spec => []IInv
<1>1. Init => IInv
  BY InitType, InitBounded DEF IInv
<1>2. IInv /\ [Next]_vars => IInv'
  BY NextType, NextTries, NextStreak, NextBounded DEF IInv
<1> QED
  BY <1>1, <1>2, PTL DEF Spec

(* Every variable keeps its type, and no call makes more attempts than     *)
(* Retries allows after the first.                                         *)
THEOREM TypeCorrect == Spec => []TypeOK
<1>1. IInv => TypeOK
  BY DEF IInv
<1> QED
  BY <1>1, Invariance, PTL

(* However long an outage lasts and however late calls end, the count of   *)
(* failures stays within the threshold and the number of callers.          *)
THEOREM CountBounded == Spec => []FailuresBounded
<1>1. IInv => FailuresBounded
  BY DEF IInv
<1> QED
  BY <1>1, Invariance, PTL

(* Until a call succeeds, a backend that failed Threshold times in a row   *)
(* is one failure away from being cut off.                                 *)
THEOREM NoAmnestyHolds == Spec => []NoAmnesty
<1>1. IInv => NoAmnesty
  BY ThresholdAssumption DEF IInv, TypeOK, StreakExplains, NoAmnesty
<1> QED
  BY <1>1, Invariance, PTL

(* No call is rejected before Threshold calls in a row have failed.        *)
THEOREM RejectionsExplained == Spec => RejectedOnlyAfterStreak
<1>1. IInv /\ [Next]_vars
      => [\A c \in Callers :
            call[c].last # "rejected" /\ call'[c].last = "rejected"
            => streak = Threshold]_vars
  <2> SUFFICES ASSUME IInv, Next, NEW d \in Callers,
                      call[d].last # "rejected", call'[d].last = "rejected"
               PROVE  streak = Threshold
    BY DEF vars
  <2>0. /\ call \in [Callers -> Calls]
        /\ failures \in Nat /\ streak \in 0..Threshold
        /\ Threshold \in Nat \ {0}
    BY ThresholdAssumption DEF IInv, TypeOK
  <2>1. PICK c \in Callers : Ask(c) \/ Proceed(c)
    BY DEF Next, Elapse, Weather
  <2>2. ~Admit(c)
    BY <2>0 DEF Admit, Calls
  <2>3. ~End(c, "ok") /\ ~End(c, "failed")
    BY <2>0 DEF End, Calls
  <2>4. ~BackOff(c) /\ ~Retry(c)
    BY <2>0 DEF BackOff, Retry, Calls
  <2>5. Reject(c)
    BY <2>1, <2>2, <2>3, <2>4
    DEF Ask, Proceed, AllowClosed, AllowHalfOpen, Succeed, Fail
  <2>6. failures >= Threshold
    BY <2>5 DEF Reject
  <2> QED
    BY <2>0, <2>6 DEF IInv, StreakExplains
<1> QED
  BY <1>1, Invariance, PTL DEF Spec, RejectedOnlyAfterStreak

=============================================================================
