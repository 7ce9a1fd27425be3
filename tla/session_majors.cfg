SPECIFICATION FairSpec
CONSTANTS
    None = None
    MaxAttempts = 5
    Nodes = {"node1", "node2"}
    Givens <- WithToken
    Upgrades <- OverMajor
PROPERTY
    MajorsNotSkipped
