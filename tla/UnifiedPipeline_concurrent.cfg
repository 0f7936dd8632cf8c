SPECIFICATION Spec
CONSTANTS
    Starters = {s1, s2}
    Stoppers = {p1, p2}
    MaxStarts = 2
    Disturbances = {"init_times_out", "stop_times_out", "stop_while_starting"}
CHECK_DEADLOCK FALSE
SYMMETRY ClientSymmetry
INVARIANTS OneStopAtATime
PROPERTY NoStartDuringStop
