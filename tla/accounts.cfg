\* Two requests at a time in each part.
SPECIFICATION Spec
CONSTANTS
    Sessions = {r1, r2}
    Identities <- MCIdentities
    AdminEmail = "ann"
    Offered = {"owner"}
    Grantable = {"viewer", "owner"}
    Seats = 2
    MaxUsers = 2
    MaxInvites = 2
    Callers = {r1, r2}
    MaxAttempts = 2
    MaxCodes = 3
    Clients = {r1, r2}
    People = {p1}
    LastKey = 3
    MaxTries = 2
    Lifetime = 1
    MaxLive = 2
    MaxMade = 2
    MaxClock = 2
    Keys = {r1, r2}
    Limit = 2
    Window = 3
    PruneOver = 1
    MaxNow = 7
    Enrolments = {r1, r2}
    Machines <- MCMachines
    Tokens <- MCTokens
    MaxAgents = 2
SYMMETRY Interchangeable
INVARIANTS AccountsTypeOK Governed InviteAdmitsOne SeatsHeld CodeBudget WindowHeld ChallengeBudget Enrolled
PROPERTIES RacersAreServed OutageSpares
