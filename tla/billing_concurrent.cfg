\* Two requests at a time about two payments, a wipe under them, any gateway.
SPECIFICATION Spec
CONSTANTS
    Sessions = {s1, s2}
    Payments = {p1, p2}
    Users = {owner}
    Owner = owner
    Plans <- MCPlans
    Ops <- PayOps
    GatewayResults <- GatewayAny
    TrialDays = 1
    MaxNow = 1
    MaxSubs = 2
SYMMETRY Interchangeable
INVARIANTS TypeOK PendingIsBacked
PROPERTIES ImplementsPromise TrialIsGivenOnce OnlyTrialsExpire
