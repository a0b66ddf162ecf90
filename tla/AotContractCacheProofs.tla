----------------------- MODULE AotContractCacheProofs -----------------------
(***************************************************************************)
(* For any number of processes: the lock file serialises the builders, the *)
(* output path only ever holds a complete library, and a library is never  *)
(* without its information file.                                           *)
(***************************************************************************)
EXTENDS AotContractCache, TLAPS

\* What each state of a builder's call says of the files, and who may be writing.
\* Mutual exclusion alone is not inductive: a holder must keep the lock file in
\* existence, and the files must have the content its progress promises.
BuilderFiles ==
  \A p \in Procs :
    /\ Holding(p) => lockFile # "absent"
    /\ pc[p] \in {"linked", "writing", "written"} => lockFile = "built"
    /\ pc[p] = "written" => jsonFile = "complete"

TornIsBeingWritten ==
  jsonFile = "torn" => \E p \in Procs : pc[p] = "writing"

InfoExists == libFile = "built" => jsonFile # "absent"

\* The inductive invariant.
IInv ==
  /\ TypeOK
  /\ MutualExclusion
  /\ BuilderFiles
  /\ TornIsBeingWritten
  /\ LibraryWhole
  /\ InfoExists

LEMMA IInvInit == Init => IInv
  BY DEF Init, IInv, TypeOK, MutualExclusion, BuilderFiles, TornIsBeingWritten,
         LibraryWhole, InfoExists, Holding, HoldStates, EndStates, PcStates,
         LibContents, JsonContents

LEMMA IInvStep == IInv /\ [Next]_vars => IInv'
<1> SUFFICES ASSUME IInv, [Next]_vars
             PROVE  IInv'
  OBVIOUS
<1> USE DEF IInv, TypeOK, PcStates, HoldStates, EndStates, LibContents, JsonContents,
            Holding, Goto
<1>1. ASSUME NEW p \in Procs, TakeLock(p)
      PROVE  IInv'
  BY <1>1 DEF TakeLock, MutualExclusion, BuilderFiles, TornIsBeingWritten,
              LibraryWhole, InfoExists
<1>2. ASSUME NEW p \in Procs, LockTaken(p)
      PROVE  IInv'
  BY <1>2 DEF LockTaken, MutualExclusion, BuilderFiles, TornIsBeingWritten,
              LibraryWhole, InfoExists
<1>3. ASSUME NEW p \in Procs, StartLink(p)
      PROVE  IInv'
  BY <1>3 DEF StartLink, MutualExclusion, BuilderFiles, TornIsBeingWritten,
              LibraryWhole, InfoExists
<1>4. ASSUME NEW p \in Procs, EndLink(p)
      PROVE  IInv'
  BY <1>4 DEF EndLink, MutualExclusion, BuilderFiles, TornIsBeingWritten,
              LibraryWhole, InfoExists
<1>5. ASSUME NEW p \in Procs, StartInfo(p)
      PROVE  IInv'
  BY <1>5 DEF StartInfo, MutualExclusion, BuilderFiles, TornIsBeingWritten,
              LibraryWhole, InfoExists
<1>6. ASSUME NEW p \in Procs, EndInfo(p)
      PROVE  IInv'
  BY <1>6 DEF EndInfo, MutualExclusion, BuilderFiles, TornIsBeingWritten,
              LibraryWhole, InfoExists
<1>7. ASSUME NEW p \in Procs, RenameLock(p)
      PROVE  IInv'
  BY <1>7 DEF RenameLock, MutualExclusion, BuilderFiles, TornIsBeingWritten,
              LibraryWhole, InfoExists
<1>8. ASSUME NEW p \in Procs, BuildFails(p)
      PROVE  IInv'
  BY <1>8 DEF BuildFails, MutualExclusion, BuilderFiles, TornIsBeingWritten,
              LibraryWhole, InfoExists
<1>9. ASSUME NEW p \in Procs, CallFromPath(p) \/ LockReleasedRetry(p)
      PROVE  IInv'
  BY <1>9 DEF CallFromPath, LockReleasedRetry, MutualExclusion, BuilderFiles,
              TornIsBeingWritten, LibraryWhole, InfoExists
<1>10. ASSUME NEW p \in Procs, LoadStep(p)
       PROVE  IInv'
  BY <1>10 DEF LoadStep, LoadLibrary, ReadInfo, MutualExclusion, BuilderFiles,
               TornIsBeingWritten, LibraryWhole, InfoExists
<1>11. ASSUME NEW p \in Procs, CallAgain(p) \/ Restart(p)
       PROVE  IInv'
  BY <1>11 DEF CallAgain, Restart, MutualExclusion, BuilderFiles,
               TornIsBeingWritten, LibraryWhole, InfoExists
<1>12. ASSUME NEW p \in Procs, Crash(p)
       PROVE  IInv'
  BY <1>12 DEF Crash, MutualExclusion, BuilderFiles, TornIsBeingWritten,
               LibraryWhole, InfoExists
<1>13. CASE UNCHANGED vars
  BY <1>13 DEF vars, MutualExclusion, BuilderFiles, TornIsBeingWritten,
               LibraryWhole, InfoExists
<1>14. QED
  BY <1>1, <1>2, <1>3, <1>4, <1>5, <1>6, <1>7, <1>8, <1>9, <1>10, <1>11, <1>12,
     <1>13
  DEF Next, BuildStep

LEMMA Inductive == Spec => []IInv
  BY IInvInit, IInvStep, PTL DEF Spec

\* The variables of the cache always have their types (new_into, from_path, kills).
THEOREM TypeCorrect == Spec => []TypeOK
<1>1. IInv => TypeOK
  BY DEF IInv
<1>2. QED
  BY <1>1, Inductive, PTL

\* LockFile::new keeps any number of concurrent new_into calls apart: never do two
\* of them hold the lock, through failed builds, kills and renames.
THEOREM LockSerialisesBuilders == Spec => []MutualExclusion
<1>1. IInv => MutualExclusion
  BY DEF IInv
<1>2. QED
  BY <1>1, Inductive, PTL

\* The output path holds nothing or a complete library at every moment (LockFile::rename).
THEOREM OutputIsWhole == Spec => []LibraryWhole
<1>1. IInv => LibraryWhole
  BY DEF IInv
<1>2. QED
  BY <1>1, Inductive, PTL

\* A library at the output path has its information beside it: complete, or being
\* rewritten by a live builder, or damaged by a failed or killed writer (new_into).
THEOREM LibraryHasInfo == Spec => []InfoBesideLibrary
<1>1. IInv => InfoBesideLibrary
  BY DEF IInv, TypeOK, InfoBesideLibrary, InfoExists, TornIsBeingWritten, JsonContents
<1>2. QED
  BY <1>1, Inductive, PTL
=============================================================================
