---------------------------- MODULE SpendAccount ----------------------------
(***************************************************************************)
(* What a durable ledger promises for each tenant's period: spend is added *)
(* up; some of it is safe; only a crash takes any back, and then exactly   *)
(* what was not yet safe (ee/tokens/durable, package comment: a crash      *)
(* loses at most one flush interval of accounting, and under-counts).      *)
(***************************************************************************)
EXTENDS Naturals

CONSTANTS Keys, Costs

VARIABLES spent, safe

Init ==
    /\ spent = [k \in Keys |-> 0]
    /\ safe = spent

Spend(k, cost) ==
    /\ spent' = [spent EXCEPT ![k] = @ + cost]
    /\ UNCHANGED safe

(* More of what has been spent becomes safe, and nothing less.             *)
Secure ==
    /\ \A k \in Keys : safe[k] <= safe'[k] /\ safe'[k] <= spent[k]
    /\ UNCHANGED spent

Lose ==
    /\ spent' = safe
    /\ UNCHANGED safe

Next == Secure \/ Lose \/ \E k \in Keys, cost \in Costs : Spend(k, cost)

Spec == Init /\ [][Next]_<<spent, safe>>
=============================================================================
