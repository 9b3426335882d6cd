SPECIFICATION FairSpec
CONSTANTS
    MaxVersion = 1
    BatchLimit = 1
    Publishers = {p1}
    Gateways = {g1}
    MaxPolls = 1
    MaxFaults = 1
PROPERTIES ErrorStateClears
