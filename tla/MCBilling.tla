----------------------------- MODULE MCBilling -----------------------------
(* Billing with the constants of the model-checking runs.                   *)
EXTENDS Billing, TLC

MCPlans == {Free, "Home", Business}
\* Everything an organization's money goes through, and the wipe.
PayOps == {"me", "checkout", "cancel", "confirm", "wipe"}
\* Whatever writes the copies of the plan.
CopyOps == {"me", "set_plan", "unlock", "join"}
\* ManualGateway, and a gateway that may settle or refuse in the call.
GatewayNow == {"processing"}
GatewayAny == PayStatus
SessionSymmetry == Permutations(Sessions)
Interchangeable == Permutations(Sessions) \cup Permutations(Payments)
=============================================================================
