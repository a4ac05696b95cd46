CONSTANTS
    Redundancy = 1
    NuMod = 3
    MaxPackets = 6
    MaxInFlight = 3
    MaxRestarts = 2
    Receptors <- MCReceptors
    Hearer <- MCHearer
    Commands <- MCCommands
    NetCounts = {1, 2}
    MaxQueue = 2
    MaxFound = 1

SPECIFICATION DiscoverySpec

INVARIANTS
    PlayedOnceInOrder
    OneCopyIsEnough
    AudioGoesToFound

PROPERTY SearchEnds

CHECK_DEADLOCK FALSE
