SPECIFICATION FairSpec
CONSTANTS
    k1 = k1
    k2 = k2
    h1 = h1
    h2 = h2
    h3 = h3
    Keys <- MCKeys
    Handles <- MCHandles
    NoHandle = NoHandle
    Capacities <- MCCapacities
    Charges <- MCCharges
    MaxHeld = 2
INVARIANTS
    RefsExact
    ListsMatchRefs
    TableIsCache
    UsageIsCharge
    NothingLeaked
PROPERTIES
    CapacityRestored
    ImplementsContract
