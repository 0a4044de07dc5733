---------------------------- MODULE EgressPolicy ----------------------------
(***************************************************************************)
(* The pure decisions of the request path: the rank of a classification,   *)
(* the egress policy's verdict on it (internal/policy), and the constraint *)
(* the verdict puts on the router's choice (internal/gateway/handler.go).  *)
(***************************************************************************)
EXTENDS Naturals

(* SensitivityLow, Internal, Confidential, Restricted, by rank.            *)
Low == 0
Restricted == 3
Sensitivity == Low..Restricted

(* policy.go's denyDisabled: a threshold above every real classification.  *)
DenyDisabled == Restricted + 1

Policy == [cloudMax : Sensitivity,
           denyAbove : Low..DenyDisabled,
           fallback : BOOLEAN]

Actions == {"allow", "local_only", "deny"}
Targets == {"local", "cloud"}

Higher(a, b) == IF a > b THEN a ELSE b

(* Policy.Evaluate.  Deny is tested first, so it wins over confinement.    *)
Evaluate(p, max) ==
    IF max > p.denyAbove THEN "deny"
    ELSE IF max > p.cloudMax THEN "local_only"
    ELSE "allow"

(* Policy.CloudFallbackAllowed                                             *)
CloudFallbackAllowed(p, action) == p.fallback /\ action = "allow"

(* The override at the end of plan: the policy constrains the router.      *)
Constrain(action, routed) ==
    IF action = "local_only" /\ routed = "cloud" THEN "local" ELSE routed
=============================================================================
