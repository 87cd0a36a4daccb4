\* One organization, removed and provisioned again under the poller; every fault.
SPECIFICATION Spec
CONSTANTS
    Orgs = {a}
    Broken = {}
    Requests = {r1, r2}
    Ops <- AllOps
    Faults <- AllFaults
    Limit = 2
    Second = 2
    Backlog = 2
    PerSecond = 3
    MaxNow = 5
    MaxLog = 3
    MaxRemovals = 1
SYMMETRY RequestSymmetry
INVARIANTS TypeOK PassedIsStored
PROPERTY PassedIsFinal
