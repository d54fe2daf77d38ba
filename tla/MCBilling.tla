------------------------------ MODULE MCBilling ------------------------------
(* The small instance of Billing: three plans and what they include, in units *)
(* of a thousand; the second session names no plan that is known.             *)
EXTENDS Billing, TLC

MCPlan     == {"free", "pro", "enterprise"}
MCPlanOf   == (1 :> "pro") @@ (2 :> NoPlan) @@ (3 :> "enterprise")
MCIncluded == [free |-> 1, pro |-> 2, enterprise |-> 3]
=============================================================================
