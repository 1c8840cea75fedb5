SPECIFICATION FairSpec
CONSTANTS
    Snapshots = {1}
    Rows = 2
    Priority <- RecentSecond
    Invalid = {}
    Oversize = {}
    MaxFaults = 1
INVARIANT CompletedIsAcknowledged
