SPECIFICATION FairSpec
CONSTANTS
    MaxVersion = 2
    BatchLimit = 1
    Publishers = {p1}
    Gateways = {g1}
    MaxPolls = 1
    MaxFaults = 0
PROPERTIES EveryChangeReachesGateways
