SPECIFICATION SyncSpec
CONSTANTS
    Files = {"skill.yaml", "SKILL.md"}
    Manifest = "skill.yaml"
    Versions = {1, 2}
    MaxSyncs = 3
    MaxEdits = 1
    MaxFaults = 2
INVARIANTS
    DestinationIsSafe
    InstallsOneVersion
    OneFailureKeepsDestination
CHECK_DEADLOCK FALSE
