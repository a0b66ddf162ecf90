\* Builds, failures, kills and loads by three processes.
CONSTANT Procs = {p1, p2, p3}
SPECIFICATION Spec
INVARIANTS TypeOK MutualExclusion LibraryWhole InfoBesideLibrary
PROPERTY LockReleased
\* A lock left by a killed process really stops every caller that waits for it.
CHECK_DEADLOCK FALSE
