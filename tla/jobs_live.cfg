\* Nothing goes wrong and the agent keeps polling.
SPECIFICATION FairSpec
CONSTANTS
    Requests = {r1}
    MaxJobs = 3
    DashKinds <- Scan
    StreamKinds <- CaptureAndLogs
    Faults <- NoFault
INVARIANT ScansWithinRequests
PROPERTIES JobsEnd StreamGoesOn
