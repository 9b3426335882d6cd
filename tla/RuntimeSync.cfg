SPECIFICATION FairSpec
CONSTANTS
    MaxVersion = 2
    BatchLimit = 1
    Publishers = {p1}
    Gateways = {g1}
    MaxPolls = 1
    MaxFaults = 1
INVARIANTS TypeOK AppliedMeansShown SynchronizedIsTrue PublishedWasAnnounced ReloadsOnlyNewer
PROPERTIES ImplementsConfigViews ReportedNeverRegresses
PROPERTIES ChangesReachGateways OutboxDrains
