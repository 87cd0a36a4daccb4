---------------------------- MODULE Entitlement ----------------------------
(***************************************************************************)
(* What billing promises of the plan an organization holds, with nothing    *)
(* said of requests, sessions or copies.  A plan above Free is held because *)
(* an order for it was settled, because an admin granted it, or because it  *)
(* is the trial's; placing an order changes nothing.                        *)
(***************************************************************************)
CONSTANTS Orders, Plans, Free, Business, NoPlan, NoOrder

VARIABLES
    plan,     \* the plan held, or NoPlan when there is no subscription
    granted,  \* the plans paid for or granted so far
    orders    \* the plan each order is for, or NoOrder

vars == <<plan, granted, orders>>

Init ==
    /\ plan = Business
    /\ granted = {}
    /\ orders = [o \in Orders |-> NoOrder]

Place(o) ==
    /\ orders[o] = NoOrder
    /\ \E p \in Plans \ {Free} : orders' = [orders EXCEPT ![o] = p]
    /\ UNCHANGED <<plan, granted>>

\* A settled order may find its plan held already, or held again since.
Settle(o) ==
    /\ orders[o] # NoOrder
    /\ granted' = granted \cup {orders[o]}
    /\ plan' \in {plan, orders[o]}
    /\ UNCHANGED orders

\* The gateway settles the order in the call that places it.
PlaceSettled(o) ==
    /\ orders[o] = NoOrder
    /\ \E p \in Plans \ {Free} :
          /\ orders' = [orders EXCEPT ![o] = p]
          /\ granted' = granted \cup {p}
          /\ plan' \in {plan, p}

Grant(p) ==
    /\ plan # NoPlan
    /\ granted' = granted \cup {p}
    /\ plan' \in {plan, p}
    /\ UNCHANGED orders

Lapse ==
    /\ plan # NoPlan
    /\ plan' = Free
    /\ UNCHANGED <<granted, orders>>

Wipe ==
    /\ plan' = NoPlan
    /\ orders' \in [Orders -> {NoOrder}]
    /\ UNCHANGED granted

StartTrial ==
    /\ plan = NoPlan
    /\ plan' = Business
    /\ UNCHANGED <<granted, orders>>

Next ==
    \/ \E o \in Orders : Place(o) \/ Settle(o) \/ PlaceSettled(o)
    \/ \E p \in Plans : Grant(p)
    \/ Lapse \/ Wipe \/ StartTrial

Spec == Init /\ [][Next]_vars
=============================================================================
