\* A trial, a checkout and its cancellation.
SPECIFICATION Spec
CONSTANTS
    Sessions = {s1}
    Payments = {p1, p2}
    Users = {owner}
    Owner = owner
    Plans <- MCPlans
    Ops <- PayOps
    GatewayResults <- GatewayNow
    TrialDays = 1
    MaxNow = 1
    MaxSubs = 1
INVARIANTS ActiveIsPaid
