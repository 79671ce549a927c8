SPECIFICATION Spec
CONSTANTS
    Addr <- MCAddr
    Key <- MCKey
    MisreadKey = MisreadKey
    BadTag = BadTag
    Rssi <- MCRssi
    UINT32_MAX = 2
    k_max_devices = 2
    Callbacks <- MCCallbacks
    Adverts <- MCAdverts
INVARIANTS
    TypeOK
    TableWellFormed
    LogMatchesTable
    NoReplay
    KeysAsTransmitted
PROPERTIES
    SlotsKept
    ConsumptionAuthentic
    ImplementsRegistry
