-------------------------- MODULE AotContractCache --------------------------
(***************************************************************************)
(* The on-disk contract cache of executor/contract.rs.  Any number of      *)
(* processes call AotContractExecutor::new_into and ::from_path with the   *)
(* same program and the same output path.  Three files are shared:         *)
(*                                                                         *)
(*   lockFile  <stem>.lock, created exclusively by LockFile::new; the      *)
(*             linker writes the shared library INTO it                    *)
(*   libFile   the output path, filled only by renaming the lock file      *)
(*   jsonFile  <stem>.json, the NativeContractInfo, written in place       *)
(*                                                                         *)
(* A process is killed at any point of a call (Crash) and comes back       *)
(* (Restart); files survive it, its LockFile destructor does not run.      *)
(***************************************************************************)
CONSTANT Procs      \* the processes that share the cache directory

VARIABLES
  pc,               \* where each process is in its current call
  lockFile,         \* content of the lock file
  libFile,          \* content of the file at the output path
  jsonFile          \* content of the contract information file

vars == <<pc, lockFile, libFile, jsonFile>>

\* A call holds a LockFile value in these states of new_into.
HoldStates == {"locked", "linking", "linked", "writing", "written"}

\* Returned calls: Ok(Some), Ok(None), and the three ways to return Err.
EndStates == {"done", "none", "failed", "noLib", "badInfo"}

PcStates == HoldStates \cup EndStates \cup {"idle", "fromPath", "readInfo", "crashed"}

\* A shared library on disk: none, an empty file, half linked, complete.
LibContents == {"absent", "empty", "partial", "built"}

\* "torn": opened with truncation, not yet written.  "damaged": what a failed
\* or killed writer left behind.
JsonContents == {"absent", "torn", "damaged", "complete"}

Holding(p) == pc[p] \in HoldStates

Init ==
  /\ pc = [p \in Procs |-> "idle"]
  /\ lockFile = "absent"
  /\ libFile = "absent"
  /\ jsonFile = "absent"

Goto(p, s) == pc' = [pc EXCEPT ![p] = s]

-----------------------------------------------------------------------------
(* AotContractExecutor::new_into *)

\* A lock taken with a plain create: an existing lock file is taken over.
TakeLock_PlainCreate(p) ==
  /\ pc[p] = "idle"
  /\ lockFile' = "empty"
  /\ Goto(p, "locked")
  /\ UNCHANGED <<libFile, jsonFile>>

\* LockFile::new: create_new succeeds only when the lock file does not exist.
TakeLock(p) ==
  /\ pc[p] = "idle"
  /\ lockFile = "absent"
  /\ lockFile' = "empty"
  /\ Goto(p, "locked")
  /\ UNCHANGED <<libFile, jsonFile>>

\* AlreadyExists: new_into returns Ok(None).
LockTaken(p) ==
  /\ pc[p] = "idle"
  /\ lockFile # "absent"
  /\ Goto(p, "none")
  /\ UNCHANGED <<lockFile, libFile, jsonFile>>

\* The Sierra program is compiled to an object; the linker opens its output.
StartLink_IntoOutput(p) ==
  /\ pc[p] = "locked"
  /\ libFile' = "partial"
  /\ Goto(p, "linking")
  /\ UNCHANGED <<lockFile, jsonFile>>

StartLink(p) ==
  /\ pc[p] = "locked"
  /\ lockFile' = "partial"
  /\ Goto(p, "linking")
  /\ UNCHANGED <<libFile, jsonFile>>

EndLink(p) ==
  /\ pc[p] = "linking"
  /\ lockFile' = "built"
  /\ Goto(p, "linked")
  /\ UNCHANGED <<libFile, jsonFile>>

\* The information is left for later: the call goes on to the rename at once.
StartInfo_Skipped(p) ==
  /\ pc[p] = "linked"
  /\ Goto(p, "written")
  /\ UNCHANGED <<lockFile, libFile, jsonFile>>

\* fs::write of the contract information: truncate, then write.
StartInfo(p) ==
  /\ pc[p] = "linked"
  /\ jsonFile' = "torn"
  /\ Goto(p, "writing")
  /\ UNCHANGED <<lockFile, libFile>>

EndInfo(p) ==
  /\ pc[p] = "writing"
  /\ jsonFile' = "complete"
  /\ Goto(p, "written")
  /\ UNCHANGED <<lockFile, libFile>>

\* The built library is moved over the information file instead of the output path.
RenameLock_OverInfo(p) ==
  /\ pc[p] = "written"
  /\ jsonFile' = lockFile
  /\ lockFile' = "absent"
  /\ Goto(p, "fromPath")
  /\ UNCHANGED libFile

\* LockFile::rename: the lock file atomically becomes the library and its
\* destructor is forgotten; new_into continues with from_path.
RenameLock(p) ==
  /\ pc[p] = "written"
  /\ libFile' = lockFile
  /\ lockFile' = "absent"
  /\ Goto(p, "fromPath")
  /\ UNCHANGED jsonFile

\* An error return that has forgotten the lock before the fallible rename.
BuildFails_Forgotten(p) ==
  /\ Holding(p)
  /\ lockFile' = IF pc[p] = "written" THEN lockFile ELSE "absent"
  /\ jsonFile' = IF pc[p] = "writing" THEN "damaged" ELSE jsonFile
  /\ Goto(p, "failed")
  /\ UNCHANGED libFile

\* Every `?` of new_into after the lock is taken (compilation, linking, the
\* info file, the statistics assertion, the rename): LockFile::drop removes it.
BuildFails(p) ==
  /\ Holding(p)
  /\ lockFile' = "absent"
  /\ jsonFile' = IF pc[p] = "writing" THEN "damaged" ELSE jsonFile
  /\ Goto(p, "failed")
  /\ UNCHANGED libFile

-----------------------------------------------------------------------------
(* AotContractExecutor::from_path: the library first, then its information. *)

CallFromPath(p) ==
  /\ pc[p] = "idle"
  /\ Goto(p, "fromPath")
  /\ UNCHANGED <<lockFile, libFile, jsonFile>>

\* A caller that got Ok(None) polls until the lock is gone (new_into's doc).
LockReleasedRetry(p) ==
  /\ pc[p] = "none"
  /\ lockFile = "absent"
  /\ Goto(p, "fromPath")
  /\ UNCHANGED <<lockFile, libFile, jsonFile>>

LoadLibrary(p) ==
  /\ pc[p] = "fromPath"
  /\ Goto(p, IF libFile = "built" THEN "readInfo" ELSE "noLib")
  /\ UNCHANGED <<lockFile, libFile, jsonFile>>

ReadInfo(p) ==
  /\ pc[p] = "readInfo"
  /\ Goto(p, IF jsonFile = "complete" THEN "done" ELSE "badInfo")
  /\ UNCHANGED <<lockFile, libFile, jsonFile>>

\* The caller starts over: a new call of either function.
CallAgain(p) ==
  /\ pc[p] \in EndStates
  /\ Goto(p, "idle")
  /\ UNCHANGED <<lockFile, libFile, jsonFile>>

-----------------------------------------------------------------------------
(* The process is killed and started again. *)

Crash(p) ==
  /\ pc[p] # "crashed"
  /\ jsonFile' = IF pc[p] = "writing" THEN "damaged" ELSE jsonFile
  /\ Goto(p, "crashed")
  /\ UNCHANGED <<lockFile, libFile>>

Restart(p) ==
  /\ pc[p] = "crashed"
  /\ Goto(p, "idle")
  /\ UNCHANGED <<lockFile, libFile, jsonFile>>

-----------------------------------------------------------------------------

\* The steps of a call that runs to its end once it holds the lock.
BuildStep(p) ==
  StartLink(p) \/ EndLink(p) \/ StartInfo(p) \/ EndInfo(p) \/ RenameLock(p) \/ BuildFails(p)

LoadStep(p) == LoadLibrary(p) \/ ReadInfo(p)

Next ==
  \E p \in Procs :
    \/ TakeLock(p) \/ LockTaken(p)
    \/ BuildStep(p)
    \/ CallFromPath(p) \/ LockReleasedRetry(p)
    \/ LoadStep(p)
    \/ CallAgain(p) \/ Crash(p) \/ Restart(p)

\* A process that is not killed is scheduled until its call returns.
Fairness == \A p \in Procs : WF_vars(BuildStep(p)) /\ WF_vars(LoadStep(p))

Spec == Init /\ [][Next]_vars /\ Fairness

-----------------------------------------------------------------------------
(* Properties *)

TypeOK ==
  /\ pc \in [Procs -> PcStates]
  /\ lockFile \in LibContents
  /\ libFile \in LibContents
  /\ jsonFile \in JsonContents

\* Two processes never build into the shared files at once (LockFile::new), whatever
\* the order of failed calls, kills and renames.
MutualExclusion ==
  \A p, q \in Procs : Holding(p) /\ Holding(q) => p = q

\* The output path holds nothing or a complete library: linking happens in the lock
\* file and only the finished file is renamed (new_into, LockFile::rename).
LibraryWhole == libFile \in {"absent", "built"}

\* Wherever a library can be loaded, its information is complete, or some process is
\* rewriting it right now, or a write of it has failed: no order of builds leaves a
\* library without information (json written before the rename).
InfoBesideLibrary ==
  libFile = "built" =>
    \/ jsonFile \in {"complete", "damaged"}
    \/ jsonFile = "torn" /\ \E p \in Procs : pc[p] = "writing"

\* new_into's callers are told to wait for the lock to be released: every call that
\* takes the lock removes it, however it ends, unless its process is killed.
LockReleased ==
  \A p \in Procs : Holding(p) ~> (lockFile = "absent" \/ pc[p] = "crashed")

\* Comment at the rename: the atomic move "will avoid data races when loading
\* contracts": a call that loaded the library finds its information readable.
InfoNeverTorn == \A p \in Procs : pc[p] # "badInfo"
=============================================================================
