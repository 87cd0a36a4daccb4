\* Two requests, runs or schedules at a time in each part.
SPECIFICATION Spec
CONSTANTS
    Requests = {r1, r2}
    Threshold = 2
    Settable = {"snoozed", "resolved"}
    MaxBatch = 2
    MaxEvents = 4
    MaxAlerts = 2
    Analysts = {r1, r2}
    Filable = {"a1", "a2"}
    MaxIncidents = 2
    Feeders = {r1, r2}
    Macs = {"m1"}
    Ips = {"i1"}
    Sent = {"n1"}
    Names = {"n1", "n2"}
    MaxDevices = 2
    MaxSources = 2
    Schedules = {r1, r2}
    Period = 2
    MaxTime = 6
    Engines = {r1, r2}
    Hours = {"night"}
    DomainNames = {"tor"}
    Processes = {}
    Incidents = {}
    Suspicious = {"tor"}
    Severe = {}
    Mild = {}
    GraveScore = 2
    NewScore = 1
    Cap = 2
    MaxAnomalies = 2
    Packets <- MCPackets
    MaxLength = 3
    MaxPackets = 2
    MaxJumps = 2
    Outside <- MCOutside
    MaxNames = 1
    MaxIps = 1
    MaxAsking = 1
    MaxShown = 2
    MaxRows = 1
    Reported <- MCReported
    Allowed <- MCAllowed
    Terms <- MCTerms
    Arriving <- MCArriving
    Hosts <- MCHosts
    PageSize = 1
    MaxTerms = 2
    MaxStored = 2
SYMMETRY Interchangeable
INVARIANTS SiemTypeOK EveryHitCounted OneOpenAlert LinksAgree LoneBatchesStored TrendAgrees AnswersAreExact SearchFinds
PROPERTIES OncePerPeriod
