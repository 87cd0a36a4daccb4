\* Two organizations; NextDNS refuses now and then.
SPECIFICATION FairSpec
CONSTANTS
    Orgs = {a, b}
    Broken = {}
    Requests = {r1}
    Ops <- None
    Faults <- RefusedOnly
    Limit = 2
    Second = 1
    Backlog = 4
    PerSecond = 1
    MaxNow = 3
    MaxLog = 3
    MaxRemovals = 0
PROPERTY AllAreServed
