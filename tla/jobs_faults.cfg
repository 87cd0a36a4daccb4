\* Everything that may go wrong, in two requests that overlap.
SPECIFICATION Spec
CONSTANTS
    Requests = {r1, r2}
    MaxJobs = 2
    DashKinds <- Scan
    StreamKinds <- Capture
    Faults <- AllFaults
SYMMETRY RequestSymmetry
INVARIANTS TypeOK RunsOnce EndedWereRun RenewalsWithinRequests
PROPERTIES ImplementsWorkQueue ResultsStay
