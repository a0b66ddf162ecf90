\* Concurrent calls, no fault at all: the in-place rewrite of the information file.
CONSTANT Procs = {p1, p2, p3}
SPECIFICATION FaultFreeSpec
INVARIANT InfoNeverTorn
CHECK_DEADLOCK FALSE
