SPECIFICATION Spec
CONSTANTS
    Starters = {s1}
    Stoppers = {p1}
    MaxStarts = 2
    Disturbances = {"stop_while_starting"}
CHECK_DEADLOCK FALSE
PROPERTY StopAbortsStart
