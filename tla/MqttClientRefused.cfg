\* As MqttClient.cfg, with shorter intervals.
SPECIFICATION Spec
CONSTANTS
    Readings = {100}
    Nothing  = Nothing
    Off      = Off
    NET_CONNECT_PERIODIC     = 1
    STATE_MACHINE_PERIODIC   = 1
    RECONNECT_INTERVAL       = 1
    CONNECTION_STABLE_TIME   = 1
    DEFAULT_PUBLISH_INTERVAL = 2
    AttemptValues = 4
PROPERTIES
    RetriesForever
