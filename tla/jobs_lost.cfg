\* One answer is lost.
SPECIFICATION FairSpec
CONSTANTS
    Requests = {r1}
    MaxJobs = 2
    DashKinds <- Scan
    StreamKinds <- Capture
    Faults <- LostOnly
PROPERTY StreamGoesOn
