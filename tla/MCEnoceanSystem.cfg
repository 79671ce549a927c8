SPECIFICATION SystemSpec
CONSTANTS
    Addr <- MCAddr
    Key <- MCKey
    MisreadKey = MisreadKey
    BadTag = BadTag
    Rssi <- MCRssi
    UINT32_MAX = 2
    k_max_devices = 2
    Callbacks <- MCCallbacks
    Adverts <- MCAdverts
    MaxResets = 1
INVARIANTS
    EventsGenuine
    QuietUntilEnabled
PROPERTIES
    LearnsDevice
    FreshReceived
CHECK_DEADLOCK FALSE
