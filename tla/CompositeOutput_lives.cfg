SPECIFICATION Spec
CONSTANTS
    Outputs = {o1, o2}
    Configured = {o1}
    MaxReconnectAttempts = 2
    MaxStarts = 2
    MaxStops = 2
    MaxFailures = 2
    MaxReconfigures = 1
    Disturbances = {"start_fails", "stop_unstarted", "writer_lingers",
                    "add_start_fails", "init_fails", "configure_fails"}
CHECK_DEADLOCK FALSE
INVARIANTS StoppedIsDown OneReconnector HealthyIsUp OneTaskPerOutput
