\* A tick is a second, and intervals of less than one are rounded up.  One
\* reading suffices here: five of it make the mean loud, and that the window
\* is right for every reading is proved.  connect_attempt has two bits, enough
\* to reach its largest back-off and to wrap around.
SPECIFICATION Spec
CONSTANTS
    Readings = {100}
    Nothing  = Nothing
    Off      = Off
    NET_CONNECT_PERIODIC     = 1
    STATE_MACHINE_PERIODIC   = 1
    RECONNECT_INTERVAL       = 2
    CONNECTION_STABLE_TIME   = 5
    DEFAULT_PUBLISH_INTERVAL = 10
    AttemptValues = 4
INVARIANTS
    TypeOK
    ConnectionAgreed
    NeverAsleep
    SumIsCurrent
PROPERTIES
    NoHammering
    ImplementsFeed
    KeepsPublishing
    ImplementsRecentNoise
