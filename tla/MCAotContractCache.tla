------------------------ MODULE MCAotContractCache ------------------------
(* Three processes that share one cache entry: one that builds, one that    *)
(* races it, one that loads.  With all faults, and without any.             *)
EXTENDS AotContractCache

\* Neither a kill nor a failing build: only the interleaving of the calls.
FaultFreeNext ==
  \E p \in Procs :
    \/ TakeLock(p) \/ LockTaken(p)
    \/ StartLink(p) \/ EndLink(p) \/ StartInfo(p) \/ EndInfo(p) \/ RenameLock(p)
    \/ CallFromPath(p) \/ LockReleasedRetry(p)
    \/ LoadLibrary(p) \/ ReadInfo(p) \/ CallAgain(p)

FaultFreeSpec == Init /\ [][FaultFreeNext]_vars /\ Fairness
=============================================================================
