-------------------------- MODULE MCDurableLedger --------------------------
(* Three requests of one tenant around the boundary of two periods, with   *)
(* the flush loop and one report flushing concurrently.                    *)
EXTENDS DurableLedger
CONSTANTS r1, r2, r3, acme, loop, report
MCRequests == {r1, r2, r3}
MCTenants == {acme}
MCTenantOf == [r \in MCRequests |-> acme]
MCCosts == {1, 2}
MCReports == {report}
=============================================================================
