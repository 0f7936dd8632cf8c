SPECIFICATION FairSpec
CONSTANTS
    Outputs = {o1}
    Configured = {o1}
    MaxReconnectAttempts = 2
    MaxStarts = 2
    MaxStops = 2
    MaxFailures = 1
    MaxReconfigures = 1
    Disturbances = {}
CHECK_DEADLOCK FALSE
PROPERTY ReconnectsHappen
