SPECIFICATION FairSpec
CONSTANTS
    Snapshots = {1, 2, 3}
    Rows = 1
    Priority <- MCPriority
    Invalid <- MCInvalid
    Oversize = {1}
    MaxFaults = 1
INVARIANT CursorsAreAcknowledged
PROPERTY NothingIsDropped
PROPERTY OutboxDrains
