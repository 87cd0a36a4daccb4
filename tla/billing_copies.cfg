\* An invited user joins while the plan changes.
SPECIFICATION Spec
CONSTANTS
    Sessions = {s1, s2}
    Payments = {p1}
    Users = {owner, guest}
    Owner = owner
    Plans <- MCPlans
    Ops <- CopyOps
    GatewayResults <- GatewayNow
    TrialDays = 1
    MaxNow = 1
    MaxSubs = 1
SYMMETRY SessionSymmetry
INVARIANTS PlansAreDeserved
PROPERTIES CopiesFollow
