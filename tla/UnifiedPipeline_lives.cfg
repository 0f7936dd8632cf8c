SPECIFICATION FairSpec
CONSTANTS
    Starters = {s1}
    Stoppers = {p1}
    MaxStarts = 3
    Disturbances = {"init_fails", "init_times_out", "join_times_out",
                    "stop_times_out", "loop_fails", "stop_while_starting"}
CHECK_DEADLOCK FALSE
INVARIANTS RunningIsBacked OrderlyIdleIsReleased
PROPERTY RequestsReturn
