-------------------------- MODULE InvocationProofs --------------------------
(***************************************************************************)
(* For any nesting depth, any number of invocations, dictionaries and cost *)
(* tables: faults jump to a live frame, nothing an invocation can reach is *)
(* freed, nothing leaks when no guard is jumped over, and the cheatcode    *)
(* pointer points to a live handler or nowhere.                            *)
(***************************************************************************)
EXTENDS Invocation, SequenceTheorems, TLAPS

(* The strengthenings.  Index i stands for the invocation at depth i, 0 for the   *)
(* bare thread.  What invocation i owns is in the thread-local variables when it  *)
(* is innermost, and otherwise saved by the guard above it.                       *)

Dropping == InPhase("dropping")

\* The innermost invocation whose dictionaries have not been dropped.
Innermost == IF Dropping THEN Depth - 1 ELSE Depth

ArenaOf(i) == IF i = Depth THEN tls.arena ELSE stack[i + 1].saved.arena
RegistryOf(i) == IF i = Innermost THEN tls.registry ELSE stack[i + 1].saved.registry

\* Only the innermost invocation is anywhere but inside its run_safely, and the saved
\* runner states form the chain of the invocations below.
RunnerInv ==
  /\ \A i \in 1..Depth :
       /\ i < Depth => stack[i].phase = "running"
       /\ stack[i].phase = "running" => stack[i].oldRunner = i - 1
  /\ tls.runner = IF InPhase("running") \/ Depth = 0 THEN Depth ELSE Depth - 1

\* A handler pointer that is null or belongs to one of the first n frames.
Below(st, h, n) == h = 0 \/ \E k \in 1..n : st[k].call = h

HandlerInv ==
  ~skipped =>
    /\ Below(stack, tls.handler, Depth)
    /\ \A i \in 1..Depth :
         /\ Below(stack, stack[i].oldHandler, i - 1)
         /\ ~stack[i].setsHandler =>
              stack[i].oldHandler = IF i = Depth THEN tls.handler
                                                 ELSE stack[i + 1].oldHandler

\* Every invocation has a live arena of its own, with the number of some call.
ArenaInv ==
  /\ live \subseteq 0..calls
  /\ ArenaOf(0) = 0
  /\ \A i \in 0..Depth : ArenaOf(i) \in live
  /\ \A i, k \in 0..Depth : ArenaOf(i) = ArenaOf(k) => i = k

\* dict_new has made a dictionary that it has not registered yet.
Pending == tls.cell \in {"made", "registry"}

\* A registered dictionary has its map, is in one registry and lies in a live arena, which
\* no other invocation has.  (It is not always the arena of the invocation that registered it: a
\* fault between the two halves of a guard's destructor leaves the caller with its own
\* registry and the arena of the guard.)  The dictionary that is about to be registered
\* lies in the innermost arena, is in no registry and its map is empty.
DictInv ==
  /\ \A i \in 0..Innermost : \A d \in RegistryOf(i) :
       /\ d \in DOMAIN dicts /\ dicts[d].home \in live /\ dicts[d].drops = 0
       /\ \A k \in 0..Depth : ArenaOf(k) = dicts[d].home => k = i
       /\ \A k \in 0..Innermost : d \in RegistryOf(k) => k = i
  /\ tls.cell # "free" => Depth > 0
  /\ tls.cell = "made" => Allocating
  /\ Pending =>
       /\ ~Dropping
       /\ Len(dicts) > 0
       /\ dicts[Len(dicts)].home = ArenaOf(Depth) /\ dicts[Len(dicts)].drops = 0
       /\ ~dicts[Len(dicts)].filled
       /\ \A i \in 0..Depth : Len(dicts) \notin RegistryOf(i)

\* While no guard has been jumped over: every live arena is some invocation's, and
\* every dictionary whose map holds memory has been dropped or is registered.
OwnedInv ==
  /\ RegistryOf(0) = {}
  /\ ~skipped =>
       /\ \A a \in live : \E i \in 0..Depth : ArenaOf(i) = a
       /\ \A d \in DOMAIN dicts :
            dicts[d].filled =>
              \/ dicts[d].drops = 1
              \/ \E i \in 0..Innermost : d \in RegistryOf(i)

IInv == TypeOK /\ RunnerInv /\ HandlerInv /\ ArenaInv /\ DictInv /\ OwnedInv

-----------------------------------------------------------------------------
(* What the actions do to the stack. *)

\* Changing some of the phase, the old runner state and the result of the innermost
\* invocation.
TopUpdated ==
  /\ Depth' = Depth
  /\ \A i \in 1..Depth :
       /\ i < Depth => stack'[i] = stack[i]
       /\ stack'[i].saved = stack[i].saved
       /\ stack'[i].call = stack[i].call
       /\ stack'[i].setsHandler = stack[i].setsHandler
       /\ stack'[i].oldHandler = stack[i].oldHandler

\* The frame that Install pushes.
NewFrame(h) == [call |-> calls', phase |-> "installed", saved |-> Context,
                setsHandler |-> h, oldHandler |-> tls.handler,
                oldRunner |-> 0, result |-> 0]

Pushed(h) ==
  /\ stack' \in Seq(Frame)
  /\ Depth' = Depth + 1
  /\ \A i \in 1..Depth : stack'[i] = stack[i]
  /\ stack'[Depth + 1] = NewFrame(h)

\* Replacing the innermost frame by one that differs in no other field.
LEMMA TopReplaced ==
  ASSUME TypeOK, Depth > 0, NEW new \in Frame, stack' = [stack EXCEPT ![Depth] = new],
         new.saved = Top.saved, new.call = Top.call,
         new.setsHandler = Top.setsHandler, new.oldHandler = Top.oldHandler
  PROVE  stack' \in Seq(Frame) /\ TopUpdated /\ stack'[Depth] = new
<1>1. stack \in Seq(Frame) /\ Depth \in 1..Len(stack)
  BY DEF TypeOK, Depth
<1>2. /\ stack' \in Seq(Frame)
      /\ Len(stack') = Len(stack)
      /\ \A j \in 1..Len(stack) : stack'[j] = IF j = Depth THEN new ELSE stack[j]
  BY <1>1, ExceptSeq
<1>3. stack' \in Seq(Frame) /\ stack'[Depth] = new
  BY <1>1, <1>2
<1>4. TopUpdated
  <2>1. Depth' = Depth
    BY <1>2 DEF Depth
  <2>2. \A i \in 1..Depth : stack'[i] = IF i = Depth THEN new ELSE stack[i]
    BY <1>2 DEF Depth
  <2>3. QED
    BY <1>1, <2>1, <2>2 DEF TopUpdated, Top
<1>5. QED
  BY <1>3, <1>4

LEMMA TopTyped == TypeOK /\ Depth > 0 => Top \in Frame
  BY DEF TypeOK, Depth, Top

\* GoTo changes the phase of the innermost invocation and nothing else.
LEMMA GoToUpdates ==
  ASSUME TypeOK, Depth > 0, NEW ph \in Phases, GoTo(ph)
  PROVE  /\ stack' \in Seq(Frame)
         /\ TopUpdated
         /\ stack'[Depth].phase = ph /\ stack'[Depth].oldRunner = Top.oldRunner
<1> DEFINE new == [Top EXCEPT !.phase = ph]
<1>1. /\ new \in Frame
      /\ new.saved = Top.saved /\ new.call = Top.call
      /\ new.setsHandler = Top.setsHandler /\ new.oldHandler = Top.oldHandler
      /\ new.phase = ph /\ new.oldRunner = Top.oldRunner
  BY TopTyped DEF Frame
<1>2. stack' = [stack EXCEPT ![Depth] = new]
  BY DEF GoTo, Top
<1> HIDE DEF new
<1>3. QED
  BY <1>1, <1>2, TopReplaced

\* run_safely is entered: the frame keeps the previous state of the runner.
LEMMA EnterSafelyUpdates ==
  ASSUME TypeOK, EnterSafely
  PROVE  /\ stack' \in Seq(Frame)
         /\ TopUpdated
         /\ stack'[Depth].phase = "running" /\ stack'[Depth].oldRunner = tls.runner
<1> DEFINE new == [Top EXCEPT !.phase = "running", !.oldRunner = tls.runner]
<1>1. Depth > 0 /\ tls.runner \in 0..MaxDepth
  BY DEF TypeOK, Tls, EnterSafely, InPhase
<1>2. /\ new \in Frame
      /\ new.saved = Top.saved /\ new.call = Top.call
      /\ new.setsHandler = Top.setsHandler /\ new.oldHandler = Top.oldHandler
      /\ new.phase = "running" /\ new.oldRunner = tls.runner
  BY <1>1, TopTyped DEF Frame, Phases
<1>3. stack' = [stack EXCEPT ![Depth] = new]
  BY <1>1 DEF EnterSafely, Top, Depth
<1> HIDE DEF new
<1>4. QED
  BY <1>1, <1>2, <1>3, TopReplaced

\* The results have been read: the frame keeps the number of blake calls.
LEMMA ReadResultsUpdates ==
  ASSUME TypeOK, ReadResults
  PROVE  stack' \in Seq(Frame) /\ TopUpdated /\ stack'[Depth].phase = "ended"
<1> DEFINE new == [Top EXCEPT !.phase = "ended", !.result = tls.blake]
<1>1. Depth > 0 /\ tls.blake \in 0..MaxBlake
  BY DEF TypeOK, Tls, ReadResults, InPhase
<1>2. /\ new \in Frame
      /\ new.saved = Top.saved /\ new.call = Top.call
      /\ new.setsHandler = Top.setsHandler /\ new.oldHandler = Top.oldHandler
      /\ new.phase = "ended"
  BY <1>1, TopTyped DEF Frame, Phases
<1>3. stack' = [stack EXCEPT ![Depth] = new]
  BY <1>1 DEF ReadResults, Top, Depth
<1> HIDE DEF new
<1>4. QED
  BY <1>1, <1>2, <1>3, TopReplaced

\* InvocationGuard::install pushes one frame.
LEMMA InstallPushes ==
  ASSUME TypeOK, NEW c \in Costs, NEW h \in BOOLEAN, Install(c, h)
  PROVE  Pushed(h) /\ NewFrame(h) \in Frame /\ NewFrame(h).saved = Context
<1>1. stack \in Seq(Frame)
  BY DEF TypeOK
<1>2. Context \in Saved
  BY DEF TypeOK, Tls, Context, Saved
<1>3. calls' \in 1..MaxCalls /\ tls.handler \in Arenas /\ 0 \in 0..MaxBlake
      /\ 0 \in 0..MaxDepth
  BY BoundsAssumption DEF TypeOK, Tls, Install
<1>4. NewFrame(h) \in Frame /\ NewFrame(h).saved = Context
  BY <1>2, <1>3 DEF NewFrame, Frame, Phases
<1>5. stack' = Append(stack, NewFrame(h))
  BY DEF Install, NewFrame
<1>6. Pushed(h)
  <2> HIDE DEF NewFrame
  <2>1. QED
    BY <1>1, <1>4, <1>5, AppendProperties DEF Pushed, Depth
<1>7. QED
  BY <1>4, <1>6

\* A jump cuts the stack after the frame it goes to.
CutTo(j) ==
  /\ stack' \in Seq(Frame)
  /\ Depth' = j
  /\ \A i \in 1..(j - 1) : stack'[i] = stack[i]
  /\ stack'[j].phase = "unwinding"
  /\ stack'[j].saved = stack[j].saved /\ stack'[j].call = stack[j].call
  /\ stack'[j].setsHandler = stack[j].setsHandler
  /\ stack'[j].oldHandler = stack[j].oldHandler

LEMMA SegfaultCuts ==
  ASSUME TypeOK, RunnerInv, Segfault
  PROVE  tls.runner \in 1..Depth /\ CutTo(tls.runner)
<1> DEFINE j == tls.runner
           cut == SubSeq(stack, 1, j)
           new == [stack[j] EXCEPT !.phase = "unwinding"]
<1>1. stack \in Seq(Frame) /\ Depth \in Nat
  BY DEF TypeOK, Depth
<1>2. j \in 1..Depth
  BY <1>1 DEF TypeOK, Tls, RunnerInv, Segfault
<1>3. cut \in Seq(Frame) /\ Len(cut) = j /\ \A i \in 1..j : cut[i] = stack[i]
  <2>1. \A i \in 1..j : stack[i] \in Frame
    BY <1>1, <1>2 DEF Depth
  <2>2. QED
    BY <1>1, <1>2, <2>1, SubSeqProperties
<1>4. /\ new \in Frame
      /\ new.saved = stack[j].saved /\ new.call = stack[j].call
      /\ new.setsHandler = stack[j].setsHandler
      /\ new.oldHandler = stack[j].oldHandler /\ new.phase = "unwinding"
  <2>1. stack[j] \in Frame
    BY <1>1, <1>2 DEF Depth
  <2>2. QED
    BY <2>1 DEF Frame, Phases
<1>5. stack' = [cut EXCEPT ![j] = new]
  <2>1. stack' = [cut EXCEPT ![j] = [cut[j] EXCEPT !.phase = "unwinding"]]
    BY DEF Segfault
  <2>2. cut[j] = stack[j]
    BY <1>2, <1>3
  <2> HIDE DEF cut
  <2>3. QED
    BY <2>1, <2>2
<1> HIDE DEF new, cut
<1>6. /\ stack' \in Seq(Frame) /\ Len(stack') = j
      /\ \A i \in 1..j : stack'[i] = IF i = j THEN new ELSE stack[i]
  BY <1>2, <1>3, <1>4, <1>5, ExceptSeq
<1>7. QED
  BY <1>2, <1>4, <1>6 DEF CutTo, Depth

\* The guard is gone: its frame is popped.
LEMMA DropArenaPops ==
  ASSUME TypeOK, DropArena
  PROVE  /\ stack' \in Seq(Frame)
         /\ Depth > 0 /\ Depth' = Depth - 1
         /\ \A i \in 1..(Depth - 1) : stack'[i] = stack[i]
<1>1. stack \in Seq(Frame) /\ Depth \in Nat /\ Depth > 0
  BY DEF TypeOK, Depth, DropArena, InPhase
<1>2. \A i \in 1..(Depth - 1) : stack[i] \in Frame
  BY <1>1 DEF Depth
<1>3. stack' = SubSeq(stack, 1, Depth - 1)
  BY DEF DropArena
<1>4. /\ SubSeq(stack, 1, Depth - 1) \in Seq(Frame)
      /\ Len(SubSeq(stack, 1, Depth - 1)) = Depth - 1
      /\ \A i \in 1..(Depth - 1) : SubSeq(stack, 1, Depth - 1)[i] = stack[i]
  <2> DEFINE n == Depth - 1
  <2>1. n \in Nat
    BY <1>1
  <2> HIDE DEF n
  <2>2. \A i \in 1..n : stack[i] \in Frame
    BY <1>2 DEF n
  <2>3. /\ SubSeq(stack, 1, n) \in Seq(Frame)
        /\ Len(SubSeq(stack, 1, n)) = n
        /\ \A i \in 1..n : SubSeq(stack, 1, n)[i] = stack[i]
    BY <2>1, <2>2, SubSeqProperties
  <2>4. QED
    BY <2>3 DEF n
<1>5. QED
  BY <1>1, <1>3, <1>4 DEF Depth

-----------------------------------------------------------------------------
(* Types *)

\* A map takes memory of the system heap.
Filling == \E d \in DictIds : FillMap(d)

LEMMA FillingFills ==
  ASSUME TypeOK, Filling
  PROVE  /\ dicts' \in Seq(FeltDict) /\ Len(dicts') = Len(dicts)
         /\ DOMAIN dicts' = DOMAIN dicts
         /\ \A d \in DOMAIN dicts :
              /\ dicts'[d].home = dicts[d].home /\ dicts'[d].drops = dicts[d].drops
              /\ dicts'[d] = dicts[d] \/ d \in tls.registry
         /\ tls' = tls /\ stack' = stack /\ calls' = calls /\ live' = live
         /\ outcome' = outcome /\ status' = status /\ skipped' = skipped
<1>1. PICK x : FillMap(x)
  BY DEF Filling
<1>2. dicts \in Seq(FeltDict)
  BY DEF TypeOK
<1>3. dicts' = [dicts EXCEPT ![x] = [dicts[x] EXCEPT !.filled = TRUE]]
  BY <1>1 DEF FillMap
<1>4. DOMAIN dicts' = DOMAIN dicts
  BY <1>3
<1>5. ASSUME NEW d \in DOMAIN dicts
      PROVE  /\ dicts'[d] \in FeltDict
             /\ dicts'[d].home = dicts[d].home /\ dicts'[d].drops = dicts[d].drops
             /\ dicts'[d] = dicts[d] \/ d \in tls.registry
  <2>1. dicts[d] \in FeltDict
    BY <1>2, ElementOfSeq
  <2>2. CASE d = x
    <3>1. dicts'[d] = [dicts[d] EXCEPT !.filled = TRUE]
      BY <1>3, <2>2
    <3> QED
      BY <1>1, <2>1, <2>2, <3>1 DEF FeltDict, FillMap
  <2>3. CASE d # x
    BY <1>3, <2>1, <2>3
  <2> QED
    BY <2>2, <2>3
<1>6. dicts' \in Seq(FeltDict) /\ Len(dicts') = Len(dicts)
  <2>1. DOMAIN dicts = 1..Len(dicts) /\ Len(dicts) \in Nat
    BY <1>2
  <2>2. dicts' = [d \in 1..Len(dicts) |-> dicts'[d]]
    BY <1>3, <2>1
  <2>3. \A d \in 1..Len(dicts) : dicts'[d] \in FeltDict
    BY <1>5, <2>1
  <2> QED
    BY <2>1, <2>2, <2>3
<1> QED
  BY <1>1, <1>4, <1>5, <1>6 DEF FillMap

\* The steps that leave the stack alone.
Quiet == BlakeCompress \/ BorrowArena \/ EndAlloc \/ DictInArena \/ BorrowRegistry
         \/ RegisterDict \/ Filling \/ SegfaultOutside \/ DropPanics

LEMMA NextCases ==
  ASSUME [Next]_vars
  PROVE  \/ \E c \in Costs, h \in BOOLEAN : Install(c, h)
         \/ EnterSafely \/ HostError \/ ReturnFromCode \/ ReadResults
         \/ Segfault \/ DropDicts \/ DropArena \/ Quiet \/ UNCHANGED vars
<1>1. CASE \E c \in Costs : RunContract(c)
  BY <1>1 DEF RunContract
<1>2. CASE \E h \in BOOLEAN : InvokeDynamic(h)
  BY <1>2, CostsAssumption DEF InvokeDynamic
<1>3. QED
  BY <1>1, <1>2 DEF Next, Quiet, Filling

\* The stack has the right type after every step, and tls.runner with it.
LEMMA TypeInit == Init => TypeOK
<1> SUFFICES ASSUME Init PROVE TypeOK
  OBVIOUS
<1>1. 0 \in Arenas /\ 0 \in 0..MaxDepth /\ 0 \in 0..MaxBlake /\ {} \in SUBSET DictIds
  BY BoundsAssumption DEF Arenas
<1>2. tls \in Tls
  BY <1>1, CostsAssumption DEF Init, Tls
<1>3. stack \in Seq(Frame) /\ Depth = 0
  BY DEF Init, Depth
<1>4. dicts \in Seq(FeltDict) /\ Len(dicts) = 0
  BY DEF Init
<1>5. outcome \in [ok : BOOLEAN, blake : 0..MaxBlake]
  BY <1>1 DEF Init, Err
<1>6. QED
  <2>1. calls \in 0..MaxCalls /\ live \subseteq Arenas
    BY <1>1 DEF Init, Arenas
  <2>2. status \in {"ok", "aborted", "panicked"} /\ skipped \in BOOLEAN
    BY DEF Init
  <2>3. QED
    BY <1>2, <1>3, <1>4, <1>5, <2>1, <2>2, BoundsAssumption DEF TypeOK

\* DropDicts keeps the sequence of dictionaries and counts a drop of the registered.
LEMMA DictsDropped ==
  ASSUME NEW D, dicts \in Seq(D), DropDicts,
         \A d \in DOMAIN dicts :
           (IF d \in tls.registry THEN [dicts[d] EXCEPT !.drops = @ + 1] ELSE dicts[d]) \in D
  PROVE  /\ dicts' \in Seq(D)
         /\ Len(dicts') = Len(dicts)
         /\ \A d \in DOMAIN dicts :
              dicts'[d] = IF d \in tls.registry THEN [dicts[d] EXCEPT !.drops = @ + 1]
                                                ELSE dicts[d]
<1> DEFINE e(d) == IF d \in tls.registry THEN [dicts[d] EXCEPT !.drops = @ + 1]
                                         ELSE dicts[d]
<1>1. DOMAIN dicts = 1..Len(dicts) /\ Len(dicts) \in Nat
  OBVIOUS
<1>2. dicts' = [d \in 1..Len(dicts) |-> e(d)]
  BY <1>1 DEF DropDicts
<1>3. \A d \in 1..Len(dicts) : e(d) \in D
  BY <1>1
<1> HIDE DEF e
<1>4. dicts' \in Seq(D) /\ Len(dicts') = Len(dicts)
  BY <1>1, <1>2, <1>3
<1>5. \A d \in DOMAIN dicts : dicts'[d] = e(d)
  BY <1>1, <1>2
<1>6. QED
  BY <1>4, <1>5 DEF e

LEMMA TypeStep == TypeOK /\ RunnerInv /\ DictInv /\ [Next]_vars => TypeOK'
<1> SUFFICES ASSUME TypeOK, RunnerInv, DictInv, [Next]_vars
             PROVE  TypeOK'
  OBVIOUS
<1> USE BoundsAssumption
<1>0. /\ tls \in Tls /\ stack \in Seq(Frame) /\ Depth \in 0..MaxDepth
      /\ dicts \in Seq(FeltDict)
  BY DEF TypeOK, Depth
<1>1. ASSUME NEW c \in Costs, NEW h \in BOOLEAN, Install(c, h)
      PROVE  TypeOK'
  <2>1. calls' \in Arenas /\ live' \subseteq Arenas
    BY <1>1 DEF Install, TypeOK, Arenas
  <2>2. Depth' <= MaxDepth /\ stack' \in Seq(Frame)
    <3>1. Pushed(h)
      BY <1>1, InstallPushes
    <3>2. Depth < MaxDepth
      BY <1>1 DEF Install
    <3>3. QED
      BY <1>0, <3>1, <3>2 DEF Pushed
  <2>3. tls' \in Tls
    <3>1. (IF h THEN calls' ELSE tls.handler) \in Arenas /\ 0 \in 0..MaxBlake
          /\ {} \in SUBSET DictIds
      BY <1>0, <2>1 DEF Tls
    <3>2. tls' = [tls EXCEPT !.costs = c, !.blake = 0, !.arena = calls', !.registry = {},
                             !.handler = IF h THEN calls' ELSE tls.handler]
      BY <1>1 DEF Install
    <3>3. QED
      BY <1>0, <2>1, <3>1, <3>2 DEF Tls
  <2>4. QED
    BY <1>1, <2>1, <2>2, <2>3 DEF Install, TypeOK, Arenas
<1>2. CASE EnterSafely
  <2>1. stack' \in Seq(Frame) /\ Depth' = Depth
    BY <1>2, EnterSafelyUpdates DEF TopUpdated
  <2>2. tls' \in Tls
    BY <1>0, <1>2 DEF EnterSafely, Tls
  <2>3. QED
    BY <1>2, <2>1, <2>2 DEF EnterSafely, TypeOK
<1>3. CASE HostError
  <2>1. stack' \in Seq(Frame) /\ Depth' = Depth
    BY <1>3, GoToUpdates DEF HostError, InPhase, Phases, TopUpdated
  <2>2. QED
    BY <1>3, <2>1 DEF HostError, TypeOK
<1>4. CASE ReturnFromCode
  <2>1. stack' \in Seq(Frame) /\ Depth' = Depth
    BY <1>4, GoToUpdates DEF ReturnFromCode, InPhase, Phases, TopUpdated
  <2>2. tls' \in Tls
    BY <1>0, <1>4, TopTyped DEF ReturnFromCode, InPhase, Tls, Frame
  <2>3. QED
    BY <1>4, <2>1, <2>2 DEF ReturnFromCode, TypeOK
<1>5. CASE ReadResults
  <2>1. stack' \in Seq(Frame) /\ Depth' = Depth
    BY <1>5, ReadResultsUpdates DEF TopUpdated
  <2>2. QED
    BY <1>5, <2>1 DEF ReadResults, TypeOK
<1>6. CASE Segfault
  <2>1. tls.runner \in 1..Depth /\ stack' \in Seq(Frame) /\ Depth' = tls.runner
    BY <1>6, SegfaultCuts DEF CutTo
  <2>2. stack[tls.runner] \in Frame
    BY <1>0, <2>1 DEF Depth
  <2>3. tls' \in Tls
    BY <1>0, <1>6, <2>2 DEF Segfault, Tls, Frame
  <2>4. Depth' <= MaxDepth
    BY <1>0, <2>1
  <2>5. skipped' \in BOOLEAN
    BY <1>0, <1>6 DEF Segfault, TypeOK
  <2>6. QED
    BY <1>6, <2>1, <2>3, <2>4, <2>5 DEF Segfault, TypeOK
<1>7. CASE DropDicts
  <2>1. Depth > 0 /\ stack' \in Seq(Frame) /\ Depth' = Depth /\ Top \in Frame
    BY <1>7, GoToUpdates, TopTyped DEF DropDicts, DroppingGuard, InPhase, Phases,
       TopUpdated
  <2>2. tls' \in Tls
    BY <1>0, <1>7, <2>1 DEF DropDicts, Tls, Frame, Saved
  <2>3. outcome' \in [ok : BOOLEAN, blake : 0..MaxBlake]
    BY <1>7, <2>1 DEF DropDicts, Ok, Err, Frame
  <2>4. dicts' \in Seq(FeltDict) /\ Len(dicts') <= MaxDicts
    <3>1. ~Dropping
      BY <1>7 DEF DropDicts, DroppingGuard, InPhase, Dropping
    <3>2. \A d \in tls.registry : d \in DOMAIN dicts /\ dicts[d].drops = 0
      <4>1. Innermost \in 0..Innermost /\ RegistryOf(Innermost) = tls.registry
        BY <1>0, <3>1 DEF Innermost, RegistryOf
      <4>2. QED
        BY <4>1 DEF DictInv
    <3>3. ASSUME NEW d \in DOMAIN dicts
          PROVE  (IF d \in tls.registry THEN [dicts[d] EXCEPT !.drops = @ + 1]
                                        ELSE dicts[d])
                   \in FeltDict
      <4>1. dicts[d] \in FeltDict
        <5>1. DOMAIN dicts = 1..Len(dicts)
          BY <1>0
        <5>2. QED
          BY <1>0, <5>1, ElementOfSeq
      <4>2. CASE d \in tls.registry
        BY <3>2, <4>1, <4>2 DEF FeltDict
      <4>3. CASE d \notin tls.registry
        BY <4>1, <4>3
      <4>4. QED
        BY <4>2, <4>3
    <3>4. QED
      BY <1>0, <1>7, <3>3, DictsDropped DEF TypeOK
  <2>5. QED
    BY <1>7, <2>1, <2>2, <2>3, <2>4 DEF DropDicts, TypeOK
<1>8. CASE DropArena
  <2>1. Depth > 0 /\ stack' \in Seq(Frame) /\ Depth' = Depth - 1 /\ Top \in Frame
    BY <1>8, DropArenaPops, TopTyped
  <2>2. tls' \in Tls
    BY <1>0, <1>8, <2>1 DEF DropArena, Tls, Frame, Saved
  <2>3. QED
    BY <1>0, <1>8, <2>1, <2>2 DEF DropArena, TypeOK
<1>9. CASE Quiet
  <2>1. tls' \in Tls
    <3>1. RegisterDict => Len(dicts) \in DictIds
      BY <1>0 DEF RegisterDict, DictInv, Pending, DictIds, TypeOK
    <3>2. CASE RegisterDict
      <4>1. (tls.registry \cup {Len(dicts)}) \in SUBSET DictIds
        BY <1>0, <3>1, <3>2 DEF Tls
      <4>2. QED
        BY <1>0, <3>2, <4>1 DEF RegisterDict, Tls
    <3>3. CASE BlakeCompress
      <4>1. (tls.blake + 1) \in 0..MaxBlake
        BY <1>0, <3>3 DEF Tls, BlakeCompress
      <4>2. QED
        BY <1>0, <3>3, <4>1 DEF BlakeCompress, Tls
    <3>4. QED
      BY <1>0, <1>9, <3>2, <3>3
      DEF Quiet, BorrowArena, EndAlloc, DictInArena, BorrowRegistry, Filling, FillMap,
          SegfaultOutside, DropPanics, Tls
  <2>2. dicts' \in Seq(FeltDict) /\ Len(dicts') <= MaxDicts
    <3>1. CASE DictInArena
      <4>1. [home |-> tls.arena, filled |-> FALSE, drops |-> 0] \in FeltDict
        BY <1>0 DEF Tls, FeltDict
      <4>2. QED
        BY <1>0, <3>1, <4>1, AppendProperties DEF DictInArena
    <3>2. CASE Filling
      BY <1>0, <3>2, FillingFills DEF TypeOK
    <3>3. QED
      BY <1>9, <3>1, <3>2
      DEF Quiet, BlakeCompress, BorrowArena, EndAlloc, BorrowRegistry, RegisterDict,
          SegfaultOutside, DropPanics, TypeOK
  <2>3. QED
    BY <1>9, <2>1, <2>2
    DEF Quiet, BlakeCompress, BorrowArena, EndAlloc, DictInArena, BorrowRegistry, RegisterDict,
        Filling, FillMap, SegfaultOutside, DropPanics, TypeOK, Depth
<1>10. CASE UNCHANGED vars
  BY <1>10 DEF vars, TypeOK, Depth
<1>11. QED
  BY <1>1, <1>2, <1>3, <1>4, <1>5, <1>6, <1>7, <1>8, <1>9, <1>10, NextCases

-----------------------------------------------------------------------------
(* Jumps: the runner's state and the frames it may jump to. *)

\* Quiet steps and stuttering leave stack, runner and handler alone.
LEMMA QuietKeeps ==
  ASSUME TypeOK, Quiet \/ UNCHANGED vars
  PROVE  /\ stack' = stack /\ Depth' = Depth /\ live' = live /\ calls' = calls
         /\ skipped' = skipped
         /\ tls'.runner = tls.runner /\ tls'.handler = tls.handler
         /\ tls'.arena = tls.arena
<1>1. tls \in Tls
  BY DEF TypeOK
<1>2. CASE Quiet
  BY <1>1, <1>2
  DEF Quiet, BlakeCompress, BorrowArena, EndAlloc, DictInArena, BorrowRegistry, RegisterDict,
      Filling, FillMap, SegfaultOutside, DropPanics, Tls, Depth
<1>3. CASE UNCHANGED vars
  BY <1>3 DEF vars, Depth
<1>4. QED
  BY <1>2, <1>3

\* A step that changes the innermost frame only, and leaves the chain correct there.
LEMMA RunnerKept ==
  ASSUME Depth \in Nat, Depth > 0, RunnerInv, TopUpdated,
         stack'[Depth].phase = "running" => stack'[Depth].oldRunner = Depth - 1,
         tls'.runner = IF stack'[Depth].phase = "running" THEN Depth ELSE Depth - 1
  PROVE  RunnerInv'
<1>1. Depth' = Depth /\ \A i \in 1..Depth : i < Depth => stack'[i] = stack[i]
  BY DEF TopUpdated
<1>2. \A i \in 1..Depth :
        /\ i < Depth => stack[i].phase = "running"
        /\ stack[i].phase = "running" => stack[i].oldRunner = i - 1
  BY DEF RunnerInv
<1>3. ASSUME NEW i \in 1..Depth
      PROVE  /\ i < Depth => stack'[i].phase = "running"
             /\ stack'[i].phase = "running" => stack'[i].oldRunner = i - 1
  <2>1. CASE i < Depth
    BY <1>1, <1>2, <2>1
  <2>2. CASE i = Depth
    BY <2>2
  <2>3. QED
    BY <2>1, <2>2
<1>4. InPhase("running")' <=> stack'[Depth].phase = "running"
  BY <1>1 DEF InPhase, Top
<1>5. QED
  BY <1>1, <1>3, <1>4 DEF RunnerInv

LEMMA RunnerStep == TypeOK /\ RunnerInv /\ [Next]_vars => RunnerInv'
<1> SUFFICES ASSUME TypeOK, RunnerInv, [Next]_vars
             PROVE  RunnerInv'
  OBVIOUS
<1>0. tls \in Tls /\ stack \in Seq(Frame) /\ Depth \in Nat
  BY DEF TypeOK, Depth
<1>1. ASSUME NEW c \in Costs, NEW h \in BOOLEAN, Install(c, h)
      PROVE  RunnerInv'
  <2>1. Pushed(h) /\ stack'[Depth + 1].phase = "installed"
    BY <1>1, InstallPushes DEF Pushed, NewFrame
  <2>2. tls'.runner = tls.runner
    BY <1>0, <1>1 DEF Install, Tls
  <2>3. Depth = 0 \/ Top.phase = "running"
    BY <1>1 DEF Install, InPhase
  <2>4. \A i \in 1..Depth : stack[i].phase = "running" /\ stack[i].oldRunner = i - 1
    BY <1>0, <2>3 DEF RunnerInv, Top
  <2>5. \A i \in 1..(Depth + 1) :
           /\ i < Depth + 1 => stack'[i].phase = "running"
           /\ stack'[i].phase = "running" => stack'[i].oldRunner = i - 1
    BY <1>0, <2>1, <2>4 DEF Pushed
  <2>6. tls.runner = Depth
    BY <1>0, <2>3 DEF RunnerInv, InPhase
  <2>7. ~InPhase("running")'
    BY <1>0, <2>1 DEF Pushed, InPhase, Top
  <2>8. QED
    BY <1>0, <2>1, <2>2, <2>5, <2>6, <2>7 DEF Pushed, RunnerInv
<1>2. CASE EnterSafely
  <2>1. TopUpdated /\ stack'[Depth].phase = "running"
        /\ stack'[Depth].oldRunner = tls.runner
    BY <1>2, EnterSafelyUpdates
  <2>2. tls'.runner = Depth
    BY <1>0, <1>2 DEF EnterSafely, Tls
  <2>3. Depth > 0 /\ Top.phase = "installed"
    BY <1>2 DEF EnterSafely, InPhase
  <2>4. tls.runner = Depth - 1
    BY <2>3 DEF RunnerInv, InPhase, Top
  <2>5. QED
    BY <1>0, <2>1, <2>2, <2>3, <2>4, RunnerKept
<1>3. CASE HostError \/ DropDicts
  <2>1. TopUpdated /\ stack'[Depth].phase \in {"unwinding", "dropping"} /\ Depth > 0
    BY <1>3, GoToUpdates DEF HostError, DropDicts, DroppingGuard, InPhase, Phases
  <2>2. tls'.runner = tls.runner
    BY <1>0, <1>3 DEF HostError, DropDicts, Tls
  <2>3. Top.phase # "running"
    BY <1>3 DEF HostError, DropDicts, DroppingGuard, InPhase
  <2>4. tls.runner = Depth - 1
    BY <2>1, <2>3 DEF RunnerInv, InPhase, Top
  <2>5. QED
    BY <1>0, <2>1, <2>2, <2>4, RunnerKept
<1>4. CASE ReturnFromCode
  <2>1. TopUpdated /\ stack'[Depth].phase = "returned"
    BY <1>4, GoToUpdates DEF ReturnFromCode, InPhase, Phases
  <2>2. Depth > 0 /\ Top.phase = "running" /\ tls'.runner = Depth - 1
    BY <1>0, <1>4 DEF ReturnFromCode, InPhase, Tls, RunnerInv, Top
  <2>3. QED
    BY <1>0, <2>1, <2>2, RunnerKept
<1>5. CASE ReadResults
  <2>1. TopUpdated /\ stack'[Depth].phase = "ended"
    BY <1>5, ReadResultsUpdates
  <2>2. Depth > 0 /\ Top.phase = "returned" /\ tls'.runner = tls.runner
    BY <1>5 DEF ReadResults, InPhase
  <2>3. tls.runner = Depth - 1
    BY <2>2 DEF RunnerInv, InPhase, Top
  <2>4. QED
    BY <1>0, <2>1, <2>2, <2>3, RunnerKept
<1>6. CASE Segfault
  <2>1. tls.runner \in 1..Depth /\ CutTo(tls.runner)
    BY <1>6, SegfaultCuts
  <2>2. stack[tls.runner].phase = "running"
    BY <1>0, <2>1 DEF RunnerInv, InPhase, Top
  <2>3. tls'.runner = tls.runner - 1
    BY <1>0, <1>6, <2>1, <2>2 DEF Segfault, Tls, RunnerInv
  <2>4. /\ Depth' = tls.runner
        /\ \A i \in 1..tls.runner : i < tls.runner => stack'[i] = stack[i]
        /\ stack'[tls.runner].phase = "unwinding"
    BY <1>0, <2>1 DEF CutTo
  <2>5. ~InPhase("running")' /\ Depth' > 0
    BY <2>1, <2>4 DEF InPhase, Top
  <2>6. \A i \in 1..tls.runner :
          /\ i < tls.runner => stack'[i].phase = "running"
          /\ stack'[i].phase = "running" => stack'[i].oldRunner = i - 1
    BY <1>0, <2>1, <2>4 DEF RunnerInv
  <2>7. QED
    BY <2>3, <2>4, <2>5, <2>6 DEF RunnerInv
<1>7. CASE DropArena
  <2>1. Depth > 0 /\ Depth' = Depth - 1 /\ \A i \in 1..(Depth - 1) : stack'[i] = stack[i]
    BY <1>7, DropArenaPops
  <2>2. tls'.runner = tls.runner /\ Top.phase = "dropping"
    BY <1>0, <1>7 DEF DropArena, InPhase, Tls
  <2>3. tls.runner = Depth - 1
    BY <2>1, <2>2 DEF RunnerInv, InPhase, Top
  <2>4. \A i \in 1..(Depth - 1) :
          stack'[i].phase = "running" /\ stack'[i].oldRunner = i - 1
    BY <1>0, <2>1 DEF RunnerInv
  <2>5. InPhase("running")' \/ Depth' = 0
    BY <1>0, <2>1, <2>4 DEF InPhase, Top
  <2>6. QED
    BY <1>0, <2>1, <2>2, <2>3, <2>4, <2>5 DEF RunnerInv
<1>8. CASE Quiet \/ UNCHANGED vars
  BY <1>8, QuietKeeps DEF RunnerInv, InPhase, Top
<1>9. QED
  BY <1>1, <1>2, <1>3, <1>4, <1>5, <1>6, <1>7, <1>8, NextCases

-----------------------------------------------------------------------------
(* The cheatcode handler. *)

LEMMA HandlerStep == TypeOK /\ RunnerInv /\ HandlerInv /\ [Next]_vars => HandlerInv'
<1> SUFFICES ASSUME TypeOK, RunnerInv, HandlerInv, [Next]_vars, ~skipped'
             PROVE  HandlerInv'
  BY DEF HandlerInv
<1>0. tls \in Tls /\ stack \in Seq(Frame) /\ Depth \in Nat /\ skipped \in BOOLEAN
  BY DEF TypeOK, Depth
<1>1. ASSUME NEW c \in Costs, NEW h \in BOOLEAN, Install(c, h)
      PROVE  HandlerInv'
  <2>1. Pushed(h) /\ NewFrame(h).call = calls' /\ NewFrame(h).setsHandler = h
        /\ NewFrame(h).oldHandler = tls.handler
    BY <1>1, InstallPushes DEF NewFrame
  <2> HIDE DEF NewFrame
  <2>2. tls'.handler = IF h THEN calls' ELSE tls.handler
    BY <1>0, <1>1 DEF Install, Tls
  <2>3. ~skipped
    BY <1>1 DEF Install
  <2>4. Below(stack', tls'.handler, Depth + 1)
    BY <1>0, <2>1, <2>2, <2>3 DEF Pushed, HandlerInv, Below
  <2>5. ASSUME NEW i \in 1..(Depth + 1)
        PROVE  /\ Below(stack', stack'[i].oldHandler, i - 1)
               /\ ~stack'[i].setsHandler =>
                    stack'[i].oldHandler = IF i = Depth + 1 THEN tls'.handler
                                                           ELSE stack'[i + 1].oldHandler
    <3>1. CASE i = Depth + 1
      <4>1. stack'[i] = NewFrame(h) /\ i - 1 = Depth
        BY <1>0, <2>1, <3>1 DEF Pushed
      <4>2. Below(stack', tls.handler, Depth)
        BY <1>0, <2>1, <2>3 DEF Pushed, HandlerInv, Below
      <4>3. QED
        BY <2>1, <2>2, <3>1, <4>1, <4>2
    <3>2. CASE i \in 1..Depth
      <4>1. stack'[i] = stack[i] /\ i # Depth + 1
        BY <1>0, <2>1, <3>2 DEF Pushed
      <4>2. Below(stack', stack'[i].oldHandler, i - 1)
        BY <1>0, <2>1, <2>3, <3>2 DEF Pushed, HandlerInv, Below
      <4>3. stack'[i + 1].oldHandler = IF i = Depth THEN tls.handler
                                                   ELSE stack[i + 1].oldHandler
        BY <1>0, <2>1, <3>2 DEF Pushed
      <4>4. ~stack[i].setsHandler =>
              stack[i].oldHandler = IF i = Depth THEN tls.handler
                                                 ELSE stack[i + 1].oldHandler
        BY <2>3, <3>2 DEF HandlerInv
      <4>5. QED
        BY <4>1, <4>2, <4>3, <4>4
    <3>3. QED
      BY <1>0, <3>1, <3>2
  <2>6. QED
    BY <1>0, <2>1, <2>4, <2>5 DEF Pushed, HandlerInv
<1>2. ASSUME TopUpdated, tls'.handler = tls.handler, skipped' = skipped
      PROVE  HandlerInv'
  <2>1. ~skipped
    BY <1>2
  <2>2. \A h, n : n \in 0..Depth /\ Below(stack, h, n) => Below(stack', h, n)
    BY <1>0, <1>2 DEF TopUpdated, Below
  <2>3. \A i \in 1..Depth :
           /\ stack'[i].oldHandler = stack[i].oldHandler
           /\ stack'[i].setsHandler = stack[i].setsHandler
    BY <1>0, <1>2 DEF TopUpdated
  <2>4. Depth' = Depth
    BY <1>2 DEF TopUpdated
  <2>5. Below(stack', tls.handler, Depth)
    BY <1>0, <2>1, <2>2 DEF HandlerInv
  <2>6. ASSUME NEW i \in 1..Depth
        PROVE  /\ Below(stack', stack'[i].oldHandler, i - 1)
               /\ ~stack'[i].setsHandler =>
                    stack'[i].oldHandler = IF i = Depth THEN tls.handler
                                                       ELSE stack'[i + 1].oldHandler
    <3>1. Below(stack, stack[i].oldHandler, i - 1) /\ i - 1 \in 0..Depth
      BY <1>0, <2>1 DEF HandlerInv
    <3>2. ~stack[i].setsHandler =>
            stack[i].oldHandler = IF i = Depth THEN tls.handler ELSE stack[i + 1].oldHandler
      BY <2>1 DEF HandlerInv
    <3>3. i # Depth => i + 1 \in 1..Depth
      BY <1>0
    <3>4. QED
      BY <2>2, <2>3, <3>1, <3>2, <3>3
  <2>7. QED
    BY <1>2, <2>4, <2>5, <2>6 DEF HandlerInv
<1>3. CASE EnterSafely
  BY <1>0, <1>2, <1>3, EnterSafelyUpdates DEF EnterSafely, Tls
<1>4. CASE HostError \/ DropDicts \/ ReturnFromCode
  <2>1. TopUpdated
    BY <1>4, GoToUpdates
    DEF HostError, DropDicts, ReturnFromCode, DroppingGuard, InPhase, Phases
  <2>2. tls'.handler = tls.handler /\ skipped' = skipped
    BY <1>0, <1>4 DEF HostError, DropDicts, ReturnFromCode, Tls
  <2>3. QED
    BY <1>2, <2>1, <2>2
<1>5. CASE ReadResults
  BY <1>2, <1>5, ReadResultsUpdates DEF ReadResults
<1>6. CASE Segfault
  <2>0. tls.runner \in 1..Depth /\ CutTo(tls.runner)
    BY <1>6, SegfaultCuts
  <2>1. tls.runner \in 1..Depth /\ CutTo(tls.runner) /\ tls.runner = Depth /\ ~skipped
    <3>1. ~(skipped \/ tls.runner < Depth)
      BY <1>6 DEF Segfault
    <3>2. QED
      BY <1>0, <2>0, <3>1
  <2>2. TopUpdated
    BY <1>0, <2>1 DEF CutTo, TopUpdated
  <2>3. tls'.handler = tls.handler /\ skipped' = skipped
    BY <1>0, <1>6, <2>1 DEF Segfault, Tls
  <2>4. QED
    BY <1>2, <2>2, <2>3
<1>7. CASE DropArena
  <2>1. Depth > 0 /\ Depth' = Depth - 1 /\ \A i \in 1..(Depth - 1) : stack'[i] = stack[i]
    BY <1>7, DropArenaPops
  <2>2. tls'.handler = stack[Depth].oldHandler /\ ~skipped
    <3>1. Top \in Frame /\ ~skipped
      BY <1>7, <2>1, TopTyped DEF DropArena
    <3>2. ~Top.setsHandler => Top.oldHandler = tls.handler
      BY <1>0, <2>1, <3>1 DEF HandlerInv, Top
    <3>3. tls'.handler = Top.oldHandler
      BY <1>0, <1>7, <3>1, <3>2 DEF DropArena, Tls
    <3>4. QED
      BY <3>1, <3>3 DEF Top
  <2>3. \A h, n : n \in 0..(Depth - 1) /\ Below(stack, h, n) => Below(stack', h, n)
    BY <1>0, <2>1 DEF Below
  <2>4. Below(stack', tls'.handler, Depth - 1)
    <3>1. Below(stack, stack[Depth].oldHandler, Depth - 1) /\ Depth - 1 \in 0..(Depth - 1)
      BY <1>0, <2>1, <2>2 DEF HandlerInv
    <3>2. QED
      BY <2>2, <2>3, <3>1
  <2>5. ASSUME NEW i \in 1..(Depth - 1)
        PROVE  /\ Below(stack', stack'[i].oldHandler, i - 1)
               /\ ~stack'[i].setsHandler =>
                    stack'[i].oldHandler = IF i = Depth - 1 THEN tls'.handler
                                                           ELSE stack'[i + 1].oldHandler
    <3>1. stack'[i] = stack[i] /\ i \in 1..Depth /\ i # Depth
      BY <1>0, <2>1
    <3>2. i # Depth - 1 => stack'[i + 1] = stack[i + 1]
      BY <1>0, <2>1
    <3>3. Below(stack, stack[i].oldHandler, i - 1) /\ i - 1 \in 0..(Depth - 1)
      BY <1>0, <2>2, <3>1 DEF HandlerInv
    <3>4. ~stack[i].setsHandler => stack[i].oldHandler = stack[i + 1].oldHandler
      BY <2>2, <3>1 DEF HandlerInv
    <3>5. i = Depth - 1 => i + 1 = Depth
      BY <1>0
    <3>6. QED
      BY <2>2, <2>3, <3>1, <3>2, <3>3, <3>4, <3>5
  <2>6. QED
    BY <2>1, <2>4, <2>5 DEF HandlerInv
<1>8. CASE Quiet \/ UNCHANGED vars
  BY <1>8, QuietKeeps DEF HandlerInv
<1>9. QED
  BY <1>1, <1>3, <1>4, <1>5, <1>6, <1>7, <1>8, NextCases

-----------------------------------------------------------------------------
(* How arenas and registries move between the thread-local variables and the guards. *)

LEMMA InstallMoves ==
  ASSUME TypeOK, NEW c \in Costs, NEW h \in BOOLEAN, Install(c, h)
  PROVE  /\ Depth' = Depth + 1 /\ ~Dropping /\ Innermost = Depth
         /\ ~Dropping' /\ Innermost' = Depth + 1
         /\ \A i \in 0..Depth : ArenaOf(i)' = ArenaOf(i) /\ RegistryOf(i)' = RegistryOf(i)
         /\ \A k \in Nat : k = Depth + 1 => ArenaOf(k)' = calls' /\ RegistryOf(k)' = {}
<1>0. tls \in Tls /\ Depth \in Nat
  BY DEF TypeOK, Depth
<1>1. /\ Pushed(h) /\ NewFrame(h).saved.arena = tls.arena
      /\ NewFrame(h).saved.registry = tls.registry /\ NewFrame(h).phase = "installed"
  BY InstallPushes DEF NewFrame, Context
<1> HIDE DEF NewFrame
<1>2. ~Dropping /\ Innermost = Depth
  BY DEF Install, InPhase, Dropping, Innermost
<1>3. ~Dropping' /\ Innermost' = Depth + 1
  BY <1>0, <1>1 DEF Pushed, InPhase, Dropping, Innermost, Top
<1>4. tls'.arena = calls' /\ tls'.registry = {}
  BY <1>0 DEF Install, Tls
<1>5. ASSUME NEW i \in 0..Depth
      PROVE  ArenaOf(i)' = ArenaOf(i) /\ RegistryOf(i)' = RegistryOf(i)
  <2>1. i # Depth + 1
    BY <1>0
  <2>2. i # Depth => stack'[i + 1] = stack[i + 1]
    BY <1>0, <1>1 DEF Pushed
  <2>3. stack'[Depth + 1] = NewFrame(h) /\ Depth' = Depth + 1
    BY <1>1 DEF Pushed
  <2>4. QED
    BY <1>1, <1>2, <1>3, <2>1, <2>2, <2>3 DEF ArenaOf, RegistryOf
<1>6. ASSUME NEW k \in Nat, k = Depth + 1
      PROVE  ArenaOf(k)' = calls' /\ RegistryOf(k)' = {}
  BY <1>1, <1>3, <1>4, <1>6 DEF Pushed, ArenaOf, RegistryOf
<1>7. QED
  BY <1>0, <1>1, <1>2, <1>3, <1>5, <1>6 DEF Pushed

\* Steps that change neither the stack's depth, nor what a guard saved, nor the arena.
LEMMA UpdateMoves ==
  ASSUME TypeOK, TopUpdated, tls'.arena = tls.arena
  PROVE  /\ \A i \in 0..Depth : ArenaOf(i)' = ArenaOf(i)
         /\ Innermost' = Innermost =>
              \A i \in 0..Innermost : i # Innermost => RegistryOf(i)' = RegistryOf(i)
         /\ tls'.registry = tls.registry /\ Innermost' = Innermost =>
              \A i \in 0..Innermost : RegistryOf(i)' = RegistryOf(i)
<1>0. Depth \in Nat /\ Depth' = Depth /\ Innermost <= Depth
  BY DEF TypeOK, Depth, TopUpdated, Innermost
<1>1. \A i \in 0..Depth : i # Depth => stack'[i + 1].saved = stack[i + 1].saved
  BY <1>0 DEF TopUpdated
<1>2. \A i \in 0..Depth : ArenaOf(i)' = ArenaOf(i)
  BY <1>0, <1>1 DEF ArenaOf
<1>3. \A i \in 0..Innermost : i # Innermost => i \in 0..Depth /\ i # Depth
  BY <1>0 DEF Innermost
<1>4. QED
  BY <1>0, <1>1, <1>2, <1>3 DEF RegistryOf

LEMMA SegfaultMoves ==
  ASSUME TypeOK, RunnerInv, Segfault
  PROVE  /\ tls.runner \in 1..Innermost /\ Innermost \in 1..Depth /\ Depth' = tls.runner
         /\ ~Dropping' /\ Innermost' = Depth'
         /\ \A i \in 0..(tls.runner - 1) :
              ArenaOf(i)' = ArenaOf(i) /\ RegistryOf(i)' = RegistryOf(i)
         /\ \A k \in Nat : k = tls.runner =>
              ArenaOf(k)' = ArenaOf(Depth) /\ RegistryOf(k)' = RegistryOf(Innermost)
<1> DEFINE j == tls.runner
<1>0. tls \in Tls /\ Depth \in Nat /\ j \in 1..Depth /\ CutTo(j)
  BY SegfaultCuts DEF TypeOK, Depth
<1>1. j \in 1..Innermost /\ Innermost \in 1..Depth
  <2>1. Dropping => j = Depth - 1
    BY <1>0 DEF RunnerInv, Dropping, InPhase
  <2>2. QED
    BY <1>0, <2>1 DEF Innermost
<1>2. ~Dropping' /\ Innermost' = j /\ Depth' = j
  BY <1>0 DEF CutTo, InPhase, Dropping, Innermost, Top
<1>3. tls'.arena = tls.arena /\ tls'.registry = tls.registry
  BY <1>0 DEF Segfault, Tls
<1> HIDE DEF j
<1>4. ASSUME NEW i \in 0..(j - 1)
      PROVE  ArenaOf(i)' = ArenaOf(i) /\ RegistryOf(i)' = RegistryOf(i)
  <2>1. i # j /\ i # Depth /\ i # Innermost
    BY <1>0, <1>1
  <2>2. stack'[i + 1].saved = stack[i + 1].saved
    <3>1. CASE i + 1 = j
      BY <1>0, <3>1 DEF CutTo
    <3>2. CASE i + 1 \in 1..(j - 1)
      BY <1>0, <3>2 DEF CutTo
    <3>3. QED
      BY <1>0, <3>1, <3>2
  <2>3. QED
    BY <1>1, <1>2, <2>1, <2>2 DEF ArenaOf, RegistryOf
<1>5. ASSUME NEW k \in Nat, k = j
      PROVE  ArenaOf(k)' = ArenaOf(Depth) /\ RegistryOf(k)' = RegistryOf(Innermost)
  BY <1>1, <1>2, <1>3, <1>5 DEF ArenaOf, RegistryOf
<1>6. QED
  BY <1>0, <1>1, <1>2, <1>4, <1>5 DEF j

LEMMA DropDictsMoves ==
  ASSUME TypeOK, DropDicts
  PROVE  /\ Depth > 0 /\ Depth' = Depth /\ ~Dropping /\ Innermost = Depth
         /\ Dropping' /\ Innermost' = Depth - 1
         /\ \A i \in 0..Depth : ArenaOf(i)' = ArenaOf(i)
         /\ \A i \in 0..(Depth - 1) : RegistryOf(i)' = RegistryOf(i)
<1>0. tls \in Tls /\ Depth \in Nat /\ Depth > 0
  BY DEF TypeOK, Depth, DropDicts, DroppingGuard, InPhase
<1>1. TopUpdated /\ stack'[Depth].phase = "dropping" /\ Depth' = Depth
  BY GoToUpdates DEF DropDicts, DroppingGuard, InPhase, Phases, TopUpdated
<1>2. ~Dropping /\ Innermost = Depth
  BY DEF DropDicts, DroppingGuard, InPhase, Dropping, Innermost
<1>3. Dropping' /\ Innermost' = Depth - 1
  BY <1>0, <1>1 DEF InPhase, Dropping, Innermost, Top
<1>4. tls'.arena = tls.arena /\ tls'.registry = stack[Depth].saved.registry
  BY <1>0 DEF DropDicts, Tls, Top
<1>5. \A i \in 0..Depth : ArenaOf(i)' = ArenaOf(i)
  BY <1>1, <1>4, UpdateMoves
<1>6. ASSUME NEW i \in 0..(Depth - 1)
      PROVE  RegistryOf(i)' = RegistryOf(i)
  <2>1. i # Depth /\ i + 1 \in 1..Depth /\ (i = Depth - 1 => i + 1 = Depth)
    BY <1>0
  <2>2. stack'[i + 1].saved = stack[i + 1].saved
    BY <1>1, <2>1 DEF TopUpdated
  <2>3. QED
    BY <1>2, <1>3, <1>4, <2>1, <2>2 DEF RegistryOf
<1>7. QED
  BY <1>0, <1>1, <1>2, <1>3, <1>5, <1>6

LEMMA DropArenaMoves ==
  ASSUME TypeOK, RunnerInv, DropArena
  PROVE  /\ Depth > 0 /\ Depth' = Depth - 1 /\ Dropping /\ Innermost = Depth - 1
         /\ ~Dropping' /\ Innermost' = Depth - 1
         /\ \A i \in 0..(Depth - 1) :
              ArenaOf(i)' = ArenaOf(i) /\ RegistryOf(i)' = RegistryOf(i)
         /\ live' = live \ {ArenaOf(Depth)}
<1>0. tls \in Tls /\ Depth \in Nat /\ Depth > 0 /\ Depth' = Depth - 1
      /\ \A i \in 1..(Depth - 1) : stack'[i] = stack[i]
  BY DropArenaPops DEF TypeOK, Depth
<1>1. Dropping /\ Innermost = Depth - 1
  BY DEF DropArena, InPhase, Dropping, Innermost
<1>2. ~Dropping' /\ Innermost' = Depth - 1
  <2>1. Depth - 1 > 0 => stack'[Depth - 1].phase = "running"
    BY <1>0 DEF RunnerInv
  <2>2. QED
    BY <1>0, <2>1 DEF InPhase, Dropping, Innermost, Top
<1>3. tls'.arena = stack[Depth].saved.arena /\ tls'.registry = tls.registry
  BY <1>0 DEF DropArena, Tls, Top
<1>4. ASSUME NEW i \in 0..(Depth - 1)
      PROVE  ArenaOf(i)' = ArenaOf(i) /\ RegistryOf(i)' = RegistryOf(i)
  <2>1. i # Depth /\ (i = Depth - 1 => i + 1 = Depth)
    BY <1>0
  <2>2. i # Depth - 1 => stack'[i + 1] = stack[i + 1]
    BY <1>0
  <2>3. QED
    BY <1>0, <1>1, <1>2, <1>3, <2>1, <2>2 DEF ArenaOf, RegistryOf
<1>5. live' = live \ {ArenaOf(Depth)}
  BY DEF DropArena, ArenaOf
<1>6. QED
  BY <1>0, <1>1, <1>2, <1>4, <1>5

-----------------------------------------------------------------------------
(* Arenas *)

\* The steps that keep the depth of the stack and every arena.
LEMMA CalmKeepsArenas ==
  ASSUME TypeOK,
         EnterSafely \/ HostError \/ ReturnFromCode \/ ReadResults \/ DropDicts
           \/ Quiet \/ UNCHANGED vars
  PROVE  /\ Depth' = Depth /\ live' = live /\ calls' = calls /\ skipped' = skipped
         /\ \A i \in 0..Depth : ArenaOf(i)' = ArenaOf(i)
<1>0. tls \in Tls
  BY DEF TypeOK
<1>1. CASE EnterSafely
  BY <1>0, <1>1, EnterSafelyUpdates, UpdateMoves DEF EnterSafely, Tls, TopUpdated
<1>2. CASE HostError \/ ReturnFromCode \/ DropDicts
  <2>1. TopUpdated
    BY <1>2, GoToUpdates
    DEF HostError, DropDicts, ReturnFromCode, DroppingGuard, InPhase, Phases
  <2>2. tls'.arena = tls.arena /\ live' = live /\ calls' = calls /\ skipped' = skipped
    BY <1>0, <1>2 DEF HostError, ReturnFromCode, DropDicts, Tls
  <2>3. QED
    BY <2>1, <2>2, UpdateMoves DEF TopUpdated
<1>3. CASE ReadResults
  BY <1>3, ReadResultsUpdates, UpdateMoves DEF ReadResults, TopUpdated
<1>4. CASE Quiet \/ UNCHANGED vars
  BY <1>4, QuietKeeps DEF ArenaOf
<1>5. QED
  BY <1>1, <1>2, <1>3, <1>4

LEMMA ArenaStep == TypeOK /\ RunnerInv /\ ArenaInv /\ [Next]_vars => ArenaInv'
<1> SUFFICES ASSUME TypeOK, RunnerInv, ArenaInv, [Next]_vars
             PROVE  ArenaInv'
  OBVIOUS
<1>0. Depth \in Nat /\ calls \in Nat
  BY DEF TypeOK, Depth
<1>1. ASSUME NEW c \in Costs, NEW h \in BOOLEAN, Install(c, h)
      PROVE  ArenaInv'
  <2>1. /\ Depth' = Depth + 1
        /\ \A i \in 0..Depth : ArenaOf(i)' = ArenaOf(i)
        /\ \A k \in Nat : k = Depth + 1 => ArenaOf(k)' = calls'
    BY <1>1, InstallMoves
  <2>2. calls' = calls + 1 /\ live' = live \cup {calls'}
    BY <1>1 DEF Install
  <2>3. calls' \notin live /\ live' \subseteq 0..calls'
    BY <1>0, <2>2 DEF ArenaInv
  <2>4. ASSUME NEW i \in 0..(Depth + 1)
        PROVE  ArenaOf(i)' = IF i = Depth + 1 THEN calls' ELSE ArenaOf(i)
    BY <1>0, <2>1
  <2>5. \A i \in 0..(Depth + 1) : i # Depth + 1 => i \in 0..Depth
    BY <1>0
  <2>6. ASSUME NEW i \in 0..(Depth + 1), NEW k \in 0..(Depth + 1), ArenaOf(i)' = ArenaOf(k)'
        PROVE  i = k
    BY <2>3, <2>4, <2>5, <2>6 DEF ArenaInv
  <2>7. \A i \in 0..(Depth + 1) : ArenaOf(i)' \in live'
    BY <2>2, <2>4, <2>5 DEF ArenaInv
  <2>8. ArenaOf(0)' = 0
    BY <1>0, <2>1 DEF ArenaInv
  <2>9. QED
    BY <2>1, <2>3, <2>6, <2>7, <2>8 DEF ArenaInv
<1>2. CASE Segfault
  <2>1. /\ tls.runner \in 1..Depth /\ Depth' = tls.runner
        /\ \A i \in 0..(tls.runner - 1) : ArenaOf(i)' = ArenaOf(i)
        /\ \A k \in Nat : k = tls.runner => ArenaOf(k)' = ArenaOf(Depth)
    BY <1>0, <1>2, SegfaultMoves
  <2>2. live' = live /\ calls' = calls
    BY <1>2 DEF Segfault
  <2>3. \A i \in 0..tls.runner :
          ArenaOf(i)' = ArenaOf(IF i = tls.runner THEN Depth ELSE i)
    BY <1>0, <2>1
  <2>4. \A i \in 0..tls.runner :
          i \in 0..Depth /\ (i # tls.runner => i # Depth) /\ Depth \in 0..Depth
    BY <1>0, <2>1
  <2>5. ArenaOf(0)' = 0
    BY <1>0, <2>1 DEF ArenaInv
  <2>6. ASSUME NEW i \in 0..tls.runner, NEW k \in 0..tls.runner, ArenaOf(i)' = ArenaOf(k)'
        PROVE  i = k
    BY <2>3, <2>4, <2>6 DEF ArenaInv
  <2>7. \A i \in 0..tls.runner : ArenaOf(i)' \in live
    BY <2>3, <2>4 DEF ArenaInv
  <2>8. QED
    BY <2>1, <2>2, <2>5, <2>6, <2>7 DEF ArenaInv
<1>3. CASE DropArena
  <2>1. /\ Depth > 0 /\ Depth' = Depth - 1 /\ live' = live \ {ArenaOf(Depth)}
        /\ \A i \in 0..(Depth - 1) : ArenaOf(i)' = ArenaOf(i)
        /\ calls' = calls
    BY <1>3, DropArenaMoves DEF DropArena
  <2>2. \A i \in 0..(Depth - 1) : i \in 0..Depth /\ i # Depth /\ Depth \in 0..Depth
    BY <1>0, <2>1
  <2>3. \A i \in 0..(Depth - 1) : ArenaOf(i) \in live'
    BY <2>1, <2>2 DEF ArenaInv
  <2>4. ArenaOf(0)' = 0
    BY <1>0, <2>1 DEF ArenaInv
  <2>5. \A i, k \in 0..(Depth - 1) : ArenaOf(i)' = ArenaOf(k)' => i = k
    BY <2>1, <2>2 DEF ArenaInv
  <2>6. \A i \in 0..(Depth - 1) : ArenaOf(i)' \in live'
    BY <2>1, <2>3
  <2>7. live' \subseteq 0..calls'
    BY <2>1 DEF ArenaInv
  <2>8. QED
    BY <2>1, <2>4, <2>5, <2>6, <2>7 DEF ArenaInv
<1>4. CASE EnterSafely \/ HostError \/ ReturnFromCode \/ ReadResults \/ DropDicts
             \/ Quiet \/ UNCHANGED vars
  <2>1. /\ Depth' = Depth /\ live' = live /\ calls' = calls
        /\ \A i \in 0..Depth : ArenaOf(i)' = ArenaOf(i)
    BY <1>4, CalmKeepsArenas
  <2>2. ArenaOf(0)' = 0
    BY <1>0, <2>1 DEF ArenaInv
  <2>3. QED
    BY <2>1, <2>2 DEF ArenaInv
<1>5. QED
  BY <1>1, <1>2, <1>3, <1>4, NextCases

-----------------------------------------------------------------------------
(* Dictionaries *)

\* The three parts of DictInv.
RegisteredInv ==
  \A i \in 0..Innermost : \A d \in RegistryOf(i) :
    /\ d \in DOMAIN dicts /\ dicts[d].home \in live /\ dicts[d].drops = 0
    /\ \A k \in 0..Depth : ArenaOf(k) = dicts[d].home => k = i
    /\ \A k \in 0..Innermost : d \in RegistryOf(k) => k = i

PendingInv ==
  /\ tls.cell = "made" => Allocating
  /\ Pending =>
       /\ ~Dropping
       /\ Len(dicts) > 0
       /\ dicts[Len(dicts)].home = ArenaOf(Depth) /\ dicts[Len(dicts)].drops = 0
       /\ ~dicts[Len(dicts)].filled
       /\ \A i \in 0..Depth : Len(dicts) \notin RegistryOf(i)

LEMMA DictInvParts ==
  DictInv <=> RegisteredInv /\ (tls.cell # "free" => Depth > 0) /\ PendingInv
  BY DEF DictInv, RegisteredInv, PendingInv

\* The steps that touch neither dictionaries nor registries, and not the cell.
LEMMA CalmKeepsRegistries ==
  ASSUME TypeOK, EnterSafely \/ HostError \/ ReturnFromCode \/ ReadResults
                   \/ SegfaultOutside \/ DropPanics \/ UNCHANGED vars
  PROVE  /\ Depth' = Depth /\ (Dropping' <=> Dropping) /\ Innermost' = Innermost
         /\ dicts' = dicts /\ tls'.cell = tls.cell
         /\ \A i \in 0..Depth : ArenaOf(i)' = ArenaOf(i)
         /\ \A i \in 0..Innermost : RegistryOf(i)' = RegistryOf(i)
<1>0. tls \in Tls
  BY DEF TypeOK
<1>1. CASE EnterSafely \/ HostError \/ ReturnFromCode \/ ReadResults
  <2>1. TopUpdated /\ stack'[Depth].phase # "dropping"
    <3>1. CASE EnterSafely
      BY <3>1, EnterSafelyUpdates
    <3>2. CASE HostError \/ ReturnFromCode
      BY <3>2, GoToUpdates DEF HostError, ReturnFromCode, InPhase, Phases
    <3>3. CASE ReadResults
      BY <3>3, ReadResultsUpdates
    <3>4. QED
      BY <1>1, <3>1, <3>2, <3>3
  <2>2. /\ tls'.arena = tls.arena /\ tls'.registry = tls.registry /\ tls'.cell = tls.cell
        /\ dicts' = dicts
    BY <1>0, <1>1 DEF EnterSafely, HostError, ReturnFromCode, ReadResults, Tls
  <2>3. Depth' = Depth /\ ~Dropping /\ ~Dropping' /\ Innermost' = Innermost
    BY <1>1, <2>1
    DEF EnterSafely, HostError, ReturnFromCode, ReadResults, TopUpdated, InPhase,
        Dropping, Innermost, Top
  <2>4. QED
    BY <2>1, <2>2, <2>3, UpdateMoves
<1>2. CASE SegfaultOutside \/ DropPanics \/ UNCHANGED vars
  BY <1>2 DEF SegfaultOutside, DropPanics, vars, Depth, InPhase, Dropping, Innermost,
              ArenaOf, RegistryOf, Top
<1>3. QED
  BY <1>1, <1>2

\* The steps of the runtime that change the cell, the counter or the dictionaries.
Runtime == BlakeCompress \/ BorrowArena \/ EndAlloc \/ DictInArena \/ BorrowRegistry
           \/ RegisterDict \/ Filling

LEMMA RuntimeKeeps ==
  ASSUME TypeOK, Runtime
  PROVE  /\ Depth > 0 /\ Depth' = Depth /\ ~Dropping /\ ~Dropping'
         /\ Innermost = Depth /\ Innermost' = Depth
         /\ \A i \in 0..Depth : ArenaOf(i)' = ArenaOf(i)
         /\ ~RegisterDict => \A i \in 0..Depth : RegistryOf(i)' = RegistryOf(i)
         /\ RegisterDict => \A i \in 0..Depth :
              RegistryOf(i)' = RegistryOf(i) \cup (IF i = Depth THEN {Len(dicts)} ELSE {})
<1>0. tls \in Tls
  BY DEF TypeOK
<1>1. stack' = stack /\ tls'.arena = tls.arena
  BY <1>0 DEF Runtime, BlakeCompress, BorrowArena, EndAlloc, DictInArena, BorrowRegistry,
             RegisterDict, Filling, FillMap, Tls
<1>2. Depth > 0 /\ ~Dropping
  BY DEF Runtime, BlakeCompress, BorrowArena, EndAlloc, DictInArena, BorrowRegistry, RegisterDict,
         Filling, FillMap, Allocating, InPhase, Dropping
<1>3. /\ Depth' = Depth /\ ~Dropping' /\ Innermost = Depth /\ Innermost' = Depth
      /\ \A i \in 0..Depth : ArenaOf(i)' = ArenaOf(i)
  BY <1>1, <1>2 DEF Depth, InPhase, Dropping, Innermost, Top, ArenaOf
<1>4. IF RegisterDict THEN tls'.registry = tls.registry \cup {Len(dicts)}
                      ELSE tls'.registry = tls.registry
  <2>1. CASE RegisterDict
    BY <1>0, <2>1 DEF RegisterDict, Tls
  <2>2. CASE ~RegisterDict
    BY <1>0, <2>2 DEF Runtime, BlakeCompress, BorrowArena, EndAlloc, DictInArena,
                      BorrowRegistry, Filling, FillMap, Tls
  <2>3. QED
    BY <2>1, <2>2
<1>5. QED
  BY <1>1, <1>2, <1>3, <1>4 DEF RegistryOf

LEMMA DictStep ==
  TypeOK /\ RunnerInv /\ ArenaInv /\ DictInv /\ [Next]_vars => DictInv'
<1> SUFFICES ASSUME TypeOK, RunnerInv, ArenaInv, DictInv, [Next]_vars
             PROVE  DictInv'
  OBVIOUS
<1>0. /\ tls \in Tls /\ Depth \in Nat /\ Innermost \in 0..Depth
      /\ dicts \in Seq(FeltDict) /\ DOMAIN dicts = 1..Len(dicts)
      /\ Len(dicts) \in Nat
      /\ RegisteredInv /\ (tls.cell # "free" => Depth > 0) /\ PendingInv
  BY DictInvParts DEF TypeOK, Depth, Innermost, Dropping, InPhase
<1>1. ASSUME NEW c \in Costs, NEW h \in BOOLEAN, Install(c, h)
      PROVE  DictInv'
  <2>1. dicts' = dicts /\ tls'.cell = "free"
    BY <1>0, <1>1 DEF Install, Sane, Tls
  <2>2. /\ Innermost = Depth /\ Innermost' = Depth + 1 /\ Depth' = Depth + 1
        /\ \A i \in 0..Depth : ArenaOf(i)' = ArenaOf(i) /\ RegistryOf(i)' = RegistryOf(i)
        /\ \A k \in Nat : k = Depth + 1 => ArenaOf(k)' = calls' /\ RegistryOf(k)' = {}
    BY <1>1, InstallMoves
  <2>3. \A i \in 0..(Depth + 1) : i = Depth + 1 \/ i \in 0..Depth
    BY <1>0
  <2>4. live' = live \cup {calls'} /\ calls' \notin live
    BY <1>1 DEF Install, ArenaInv, TypeOK
  <2>5. ASSUME NEW i \in 0..(Depth + 1), NEW d \in RegistryOf(i)'
        PROVE  /\ d \in DOMAIN dicts' /\ dicts'[d].home \in live' /\ dicts'[d].drops = 0
               /\ \A k \in 0..(Depth + 1) : ArenaOf(k)' = dicts'[d].home => k = i
               /\ \A k \in 0..(Depth + 1) : d \in RegistryOf(k)' => k = i
    <3>1. i \in 0..Depth /\ d \in RegistryOf(i)
      BY <1>0, <2>2, <2>3
    <3>2. /\ d \in DOMAIN dicts /\ dicts[d].home \in live /\ dicts[d].drops = 0
          /\ \A k \in 0..Depth : ArenaOf(k) = dicts[d].home => k = i
          /\ \A k \in 0..Depth : d \in RegistryOf(k) => k = i
      BY <1>0, <2>2, <3>1 DEF RegisteredInv
    <3>3. \A k \in 0..(Depth + 1) : ArenaOf(k)' = IF k \in 0..Depth THEN ArenaOf(k) ELSE calls'
      BY <1>0, <2>2, <2>3
    <3>4. \A k \in 0..(Depth + 1) : d \in RegistryOf(k)' => k = i
      BY <1>0, <2>2, <2>3, <3>2
    <3>5. QED
      BY <2>1, <2>4, <3>2, <3>3, <3>4
  <2>6. RegisteredInv'
    BY <2>2, <2>5 DEF RegisteredInv
  <2>7. PendingInv' /\ (tls'.cell # "free" => Depth' > 0)
    BY <2>1 DEF PendingInv, Pending
  <2>8. QED
    BY <2>6, <2>7 DEF DictInv, RegisteredInv, PendingInv
<1>2. CASE Segfault
  <2>1. dicts' = dicts /\ live' = live /\ (Pending' => tls.cell = "registry")
        /\ tls'.cell # "made"
    BY <1>0, <1>2 DEF Segfault, Tls, Pending
  <2>2. /\ tls.runner \in 1..Innermost /\ Innermost \in 1..Depth /\ Depth' = tls.runner
        /\ ~Dropping' /\ Innermost' = Depth'
        /\ \A i \in 0..(tls.runner - 1) :
             ArenaOf(i)' = ArenaOf(i) /\ RegistryOf(i)' = RegistryOf(i)
        /\ \A k \in Nat : k = tls.runner =>
             ArenaOf(k)' = ArenaOf(Depth) /\ RegistryOf(k)' = RegistryOf(Innermost)
    BY <1>2, SegfaultMoves
  <2>3. \A i \in 0..tls.runner :
          /\ i = tls.runner \/ i \in 0..(tls.runner - 1)
          /\ i \in Nat /\ i \in 0..Innermost /\ i \in 0..Depth
          /\ i \in 0..(tls.runner - 1) => i # Innermost /\ i # Depth /\ i # tls.runner
    BY <1>0, <2>2
  <2>4. Innermost \in 0..Innermost /\ Depth \in 0..Depth
    BY <1>0
  <2>5. ASSUME NEW i \in 0..tls.runner, NEW d \in RegistryOf(i)'
        PROVE  /\ d \in DOMAIN dicts /\ dicts[d].home \in live /\ dicts[d].drops = 0
               /\ \A k \in 0..tls.runner : ArenaOf(k)' = dicts[d].home => k = i
               /\ \A k \in 0..tls.runner : d \in RegistryOf(k)' => k = i
    <3>1. CASE i = tls.runner
      <4>1. d \in RegistryOf(Innermost)
        BY <2>2, <2>3, <3>1
      <4>2. /\ d \in DOMAIN dicts /\ dicts[d].home \in live /\ dicts[d].drops = 0
            /\ \A k \in 0..Depth : ArenaOf(k) = dicts[d].home => k = Innermost
            /\ \A k \in 0..Innermost : d \in RegistryOf(k) => k = Innermost
        BY <1>0, <2>4, <4>1 DEF RegisteredInv
      <4>3. ASSUME NEW k \in 0..tls.runner, k # i
            PROVE  ArenaOf(k)' # dicts[d].home /\ d \notin RegistryOf(k)'
        BY <2>2, <2>3, <3>1, <4>2, <4>3
      <4>4. QED
        BY <4>2, <4>3
    <3>2. CASE i \in 0..(tls.runner - 1)
      <4>1. d \in RegistryOf(i) /\ i \in 0..Innermost /\ i # Depth /\ i # tls.runner
        BY <2>2, <2>3, <3>2
      <4>2. /\ d \in DOMAIN dicts /\ dicts[d].home \in live /\ dicts[d].drops = 0
            /\ \A k \in 0..Depth : ArenaOf(k) = dicts[d].home => k = i
            /\ \A k \in 0..Innermost : d \in RegistryOf(k) => k = i
        BY <1>0, <4>1 DEF RegisteredInv
      <4>3. ASSUME NEW k \in 0..tls.runner, k # i
            PROVE  ArenaOf(k)' # dicts[d].home /\ d \notin RegistryOf(k)'
        BY <2>2, <2>3, <2>4, <4>1, <4>2, <4>3
      <4>4. QED
        BY <4>2, <4>3
    <3>3. QED
      BY <2>3, <3>1, <3>2
  <2>6. RegisteredInv'
    BY <2>1, <2>2, <2>5 DEF RegisteredInv
  <2>7. PendingInv'
    <3>1. SUFFICES ASSUME Pending'
                   PROVE  /\ Len(dicts) > 0
                          /\ dicts[Len(dicts)].home = ArenaOf(Depth)'
                          /\ dicts[Len(dicts)].drops = 0 /\ ~dicts[Len(dicts)].filled
                          /\ \A i \in 0..tls.runner : Len(dicts) \notin RegistryOf(i)'
      BY <2>1, <2>2 DEF PendingInv
    <3>2. Pending /\ ~Dropping /\ Innermost = Depth
      BY <1>0, <2>1, <3>1 DEF Pending, PendingInv, Innermost
    <3>3. ArenaOf(Depth)' = ArenaOf(Depth)
      BY <2>2, <2>3
    <3>4. \A i \in 0..tls.runner : Len(dicts) \notin RegistryOf(i)'
      BY <1>0, <2>2, <2>3, <2>4, <3>2 DEF PendingInv
    <3>5. QED
      BY <1>0, <3>2, <3>3, <3>4 DEF PendingInv
  <2>8. Depth' > 0
    BY <2>2
  <2>9. QED
    BY <2>6, <2>7, <2>8 DEF DictInv, RegisteredInv, PendingInv
<1>3. CASE DropDicts
  <2>1. tls'.cell = tls.cell /\ ~Pending /\ live' = live
    <3>1. tls.cell # "made"
      BY <1>0, <1>3 DEF DropDicts, DroppingGuard, PendingInv, Allocating, InPhase
    <3>2. QED
      BY <1>0, <1>3, <3>1 DEF DropDicts, Tls, Pending
  <2>2. /\ Depth > 0 /\ Depth' = Depth /\ ~Dropping /\ Innermost = Depth
        /\ Innermost' = Depth - 1
        /\ \A i \in 0..Depth : ArenaOf(i)' = ArenaOf(i)
        /\ \A i \in 0..(Depth - 1) : RegistryOf(i)' = RegistryOf(i)
    BY <1>3, DropDictsMoves
  <2>3. RegistryOf(Depth) = tls.registry
    BY <2>2 DEF RegistryOf
  <2>4. ASSUME NEW i \in 0..(Depth - 1), NEW d \in RegistryOf(i)
        PROVE  /\ d \in DOMAIN dicts' /\ dicts'[d].home \in live /\ dicts'[d].drops = 0
               /\ \A k \in 0..Depth : ArenaOf(k) = dicts'[d].home => k = i
               /\ \A k \in 0..Depth : d \in RegistryOf(k) => k = i
    <3>1. i \in 0..Depth /\ i # Depth /\ Depth \in 0..Depth
      BY <1>0, <2>2
    <3>2. /\ d \in DOMAIN dicts /\ dicts[d].home \in live /\ dicts[d].drops = 0
          /\ \A k \in 0..Depth : ArenaOf(k) = dicts[d].home => k = i
          /\ \A k \in 0..Depth : d \in RegistryOf(k) => k = i
      BY <1>0, <2>2, <3>1 DEF RegisteredInv
    <3>3. d \notin tls.registry
      BY <2>3, <3>1, <3>2
    <3>4. dicts'[d] = dicts[d] /\ DOMAIN dicts' = DOMAIN dicts
      BY <1>3, <3>2, <3>3 DEF DropDicts
    <3>5. QED
      BY <3>2, <3>4
  <2>5. \A i \in 0..(Depth - 1) : i \in 0..Depth
    BY <1>0
  <2>6. RegisteredInv'
    BY <1>0, <2>1, <2>2, <2>4, <2>5 DEF RegisteredInv
  <2>7. PendingInv' /\ (tls'.cell # "free" => Depth' > 0)
    BY <2>1, <2>2 DEF PendingInv, Pending
  <2>8. QED
    BY <2>6, <2>7 DEF DictInv, RegisteredInv, PendingInv
<1>4. CASE DropArena
  <2>1. dicts' = dicts /\ tls'.cell = "free"
    BY <1>0, <1>4 DEF DropArena, Tls
  <2>2. /\ Depth > 0 /\ Depth' = Depth - 1
        /\ Innermost = Depth - 1 /\ Innermost' = Depth - 1
        /\ \A i \in 0..(Depth - 1) :
             ArenaOf(i)' = ArenaOf(i) /\ RegistryOf(i)' = RegistryOf(i)
        /\ live' = live \ {ArenaOf(Depth)}
    BY <1>4, DropArenaMoves
  <2>3. \A i \in 0..(Depth - 1) : i \in 0..Depth /\ i # Depth /\ Depth \in 0..Depth
    BY <1>0, <2>2
  <2>4. ASSUME NEW i \in 0..(Depth - 1), NEW d \in RegistryOf(i)
        PROVE  /\ d \in DOMAIN dicts /\ dicts[d].home \in live' /\ dicts[d].drops = 0
               /\ \A k \in 0..(Depth - 1) : ArenaOf(k) = dicts[d].home => k = i
               /\ \A k \in 0..(Depth - 1) : d \in RegistryOf(k) => k = i
    <3>1. /\ d \in DOMAIN dicts /\ dicts[d].home \in live /\ dicts[d].drops = 0
          /\ \A k \in 0..Depth : ArenaOf(k) = dicts[d].home => k = i
          /\ \A k \in 0..(Depth - 1) : d \in RegistryOf(k) => k = i
      BY <1>0, <2>2 DEF RegisteredInv
    <3>2. QED
      BY <2>2, <2>3, <3>1
  <2>5. RegisteredInv'
    BY <2>1, <2>2, <2>4 DEF RegisteredInv
  <2>6. PendingInv' /\ (tls'.cell # "free" => Depth' > 0)
    BY <2>1 DEF PendingInv, Pending
  <2>7. QED
    BY <2>5, <2>6 DEF DictInv, RegisteredInv, PendingInv
<1>5. CASE Runtime
  <2>1. /\ Depth > 0 /\ Depth' = Depth /\ ~Dropping /\ ~Dropping'
        /\ Innermost = Depth /\ Innermost' = Depth
        /\ \A i \in 0..Depth : ArenaOf(i)' = ArenaOf(i)
        /\ ~RegisterDict => \A i \in 0..Depth : RegistryOf(i)' = RegistryOf(i)
    BY <1>5, RuntimeKeeps
  <2>2. live' = live
    BY <1>5 DEF Runtime, BlakeCompress, BorrowArena, EndAlloc, DictInArena, BorrowRegistry,
                RegisterDict, Filling, FillMap
  <2>3. Depth \in 0..Depth
    BY <1>0
  <2>4. CASE BlakeCompress \/ BorrowArena \/ EndAlloc
    <3>1. dicts' = dicts /\ ~Pending' /\ tls'.cell \in {"free", "arena"} /\ ~RegisterDict
      BY <1>0, <2>4
      DEF BlakeCompress, BorrowArena, EndAlloc, RegisterDict, Sane, Pending, Tls
    <3>2. RegisteredInv'
      BY <1>0, <2>1, <2>2, <3>1 DEF RegisteredInv
    <3>3. PendingInv'
      BY <3>1 DEF PendingInv, Pending
    <3>4. QED
      BY <2>1, <3>2, <3>3 DEF DictInv, RegisteredInv, PendingInv
  <2>5. CASE DictInArena
    <3>1. \A i \in 0..Depth : RegistryOf(i)' = RegistryOf(i)
      <4>1. ~RegisterDict
        BY <2>5 DEF DictInArena, RegisterDict
      <4>2. QED
        BY <2>1, <4>1
    <3>2. [home |-> tls.arena, filled |-> FALSE, drops |-> 0] \in FeltDict
      BY <1>0 DEF Tls, FeltDict
    <3>3. /\ Len(dicts') = Len(dicts) + 1 /\ DOMAIN dicts' = 1..(Len(dicts) + 1)
          /\ \A d \in 1..Len(dicts) : dicts'[d] = dicts[d]
          /\ dicts'[Len(dicts) + 1] = [home |-> tls.arena, filled |-> FALSE, drops |-> 0]
      BY <1>0, <2>5, <3>2, AppendProperties DEF DictInArena
    <3>4. ArenaOf(Depth)' = tls.arena
      <4>1. ArenaOf(Depth) = tls.arena
        BY DEF ArenaOf
      <4>2. QED
        BY <2>1, <2>3, <4>1
    <3>5. \A i \in 0..Depth, d \in Nat : d \in RegistryOf(i) => d \in 1..Len(dicts)
      BY <1>0, <2>1 DEF RegisteredInv
    <3>6. RegisteredInv'
      <4>1. ASSUME NEW i \in 0..Depth, NEW d \in RegistryOf(i)
            PROVE  /\ d \in DOMAIN dicts' /\ dicts'[d] = dicts[d]
                   /\ dicts[d].home \in live /\ dicts[d].drops = 0
                   /\ \A k \in 0..Depth : ArenaOf(k) = dicts[d].home => k = i
                   /\ \A k \in 0..Depth : d \in RegistryOf(k) => k = i
        <5>1. /\ d \in DOMAIN dicts /\ dicts[d].home \in live /\ dicts[d].drops = 0
              /\ \A k \in 0..Depth : ArenaOf(k) = dicts[d].home => k = i
              /\ \A k \in 0..Depth : d \in RegistryOf(k) => k = i
          BY <1>0, <2>1 DEF RegisteredInv
        <5>2. QED
          BY <1>0, <3>3, <5>1
      <4>2. QED
        BY <2>1, <2>2, <3>1, <4>1 DEF RegisteredInv
    <3>7. PendingInv'
      <4>1. \A i \in 0..Depth : Len(dicts) + 1 \notin RegistryOf(i)'
        BY <1>0, <3>1, <3>5
      <4>2. Allocating'
        BY <2>5 DEF DictInArena, Allocating, InPhase, Top, Depth
      <4>3. QED
        BY <1>0, <2>1, <3>3, <3>4, <4>1, <4>2 DEF PendingInv
    <3>8. QED
      BY <2>1, <3>6, <3>7 DEF DictInv, RegisteredInv, PendingInv
  <2>6. CASE BorrowRegistry
    <3>1. dicts' = dicts /\ Pending /\ tls'.cell = "registry" /\ ~RegisterDict
      BY <1>0, <2>6 DEF BorrowRegistry, RegisterDict, Pending, Tls
    <3>2. RegisteredInv'
      BY <1>0, <2>1, <2>2, <3>1 DEF RegisteredInv
    <3>3. PendingInv'
      BY <1>0, <2>1, <2>3, <3>1 DEF PendingInv
    <3>4. QED
      BY <2>1, <3>2, <3>3 DEF DictInv, RegisteredInv, PendingInv
  <2>7. CASE RegisterDict
    <3>1. dicts' = dicts /\ tls'.cell = "free" /\ Pending
      BY <1>0, <2>7 DEF RegisterDict, Pending, Tls
    <3>2. \A i \in 0..Depth :
            RegistryOf(i)' = RegistryOf(i) \cup (IF i = Depth THEN {Len(dicts)} ELSE {})
      BY <1>5, <2>7, RuntimeKeeps
    <3>3. /\ Len(dicts) \in DOMAIN dicts
          /\ dicts[Len(dicts)].home = ArenaOf(Depth) /\ dicts[Len(dicts)].drops = 0
          /\ \A i \in 0..Depth : Len(dicts) \notin RegistryOf(i)
      BY <1>0, <3>1 DEF PendingInv
    <3>4. ASSUME NEW i \in 0..Depth, NEW d \in RegistryOf(i)'
          PROVE  /\ d \in DOMAIN dicts /\ dicts[d].home \in live /\ dicts[d].drops = 0
                 /\ \A k \in 0..Depth : ArenaOf(k) = dicts[d].home => k = i
                 /\ \A k \in 0..Depth : d \in RegistryOf(k)' => k = i
      <4>1. CASE d = Len(dicts)
        <5>1. i = Depth
          BY <3>2, <3>3, <4>1
        <5>2. QED
          BY <2>3, <3>2, <3>3, <4>1, <5>1 DEF ArenaInv
      <4>2. CASE d # Len(dicts)
        <5>1. d \in RegistryOf(i)
          BY <3>2, <4>2
        <5>2. /\ d \in DOMAIN dicts /\ dicts[d].home \in live /\ dicts[d].drops = 0
              /\ \A k \in 0..Depth : ArenaOf(k) = dicts[d].home => k = i
              /\ \A k \in 0..Depth : d \in RegistryOf(k) => k = i
          BY <1>0, <2>1, <5>1 DEF RegisteredInv
        <5>3. QED
          BY <3>2, <4>2, <5>2
      <4>3. QED
        BY <4>1, <4>2
    <3>5. RegisteredInv'
      BY <2>1, <2>2, <3>1, <3>4 DEF RegisteredInv
    <3>6. PendingInv'
      BY <3>1 DEF PendingInv, Pending
    <3>7. QED
      BY <3>1, <3>5, <3>6 DEF DictInv, RegisteredInv, PendingInv
  <2>8. CASE Filling
    <3>1. tls.cell = "free" /\ tls' = tls /\ ~RegisterDict
      BY <2>8, FillingFills DEF Filling, FillMap, Sane, RegisterDict
    <3>2. /\ DOMAIN dicts' = DOMAIN dicts
          /\ \A d \in DOMAIN dicts :
               dicts'[d].home = dicts[d].home /\ dicts'[d].drops = dicts[d].drops
      BY <2>8, FillingFills
    <3>3. RegisteredInv'
      BY <1>0, <2>1, <2>2, <3>1, <3>2 DEF RegisteredInv
    <3>4. PendingInv'
      BY <3>1 DEF PendingInv, Pending
    <3>5. QED
      BY <3>1, <3>3, <3>4 DEF DictInv, RegisteredInv, PendingInv
  <2>9. QED
    BY <1>5, <2>4, <2>5, <2>6, <2>7, <2>8 DEF Runtime
<1>6. CASE EnterSafely \/ HostError \/ ReturnFromCode \/ ReadResults
             \/ SegfaultOutside \/ DropPanics \/ UNCHANGED vars
  <2>1. /\ Depth' = Depth /\ (Dropping' <=> Dropping) /\ Innermost' = Innermost
        /\ dicts' = dicts /\ tls'.cell = tls.cell
        /\ \A i \in 0..Depth : ArenaOf(i)' = ArenaOf(i)
        /\ \A i \in 0..Innermost : RegistryOf(i)' = RegistryOf(i)
    BY <1>6, CalmKeepsRegistries
  <2>2. Innermost \in {Depth, Depth - 1} /\ (~Dropping => Innermost = Depth)
    BY DEF Innermost
  <2>3. live' = live /\ (tls.cell = "made" => stack' = stack)
    BY <1>6 DEF EnterSafely, HostError, ReturnFromCode, ReadResults, Sane, SegfaultOutside,
                DropPanics, vars
  <2>4. RegisteredInv'
    BY <1>0, <2>1, <2>3 DEF RegisteredInv
  <2>5. PendingInv'
    <3>1. tls'.cell = "made" => Allocating'
      BY <1>0, <2>1, <2>3 DEF PendingInv, Allocating, InPhase, Top, Depth
    <3>2. ArenaOf(Depth)' = ArenaOf(Depth) /\ (Pending' <=> Pending)
      BY <1>0, <2>1 DEF Pending
    <3>3. QED
      BY <1>0, <2>1, <2>2, <3>1, <3>2 DEF PendingInv
  <2>6. QED
    BY <1>0, <2>1, <2>4, <2>5 DEF DictInv, RegisteredInv, PendingInv
<1>7. QED
  BY <1>1, <1>2, <1>3, <1>4, <1>5, <1>6, NextCases DEF Quiet, Runtime

-----------------------------------------------------------------------------
(* Ownership *)

\* What OwnedInv says of the dictionaries.
DictsOwned ==
  \A d \in DOMAIN dicts :
    dicts[d].filled =>
      \/ dicts[d].drops = 1
      \/ \E i \in 0..Innermost : d \in RegistryOf(i)

ArenasOwned == \A a \in live : \E i \in 0..Depth : ArenaOf(i) = a

LEMMA OwnedInvParts ==
  OwnedInv <=> RegistryOf(0) = {} /\ (~skipped => ArenasOwned /\ DictsOwned)
  BY DEF OwnedInv, ArenasOwned, DictsOwned

LEMMA OwnedStep ==
  TypeOK /\ RunnerInv /\ DictInv /\ OwnedInv /\ [Next]_vars => OwnedInv'
<1> SUFFICES ASSUME TypeOK, RunnerInv, DictInv, OwnedInv, [Next]_vars
             PROVE  OwnedInv'
  OBVIOUS
<1>0. /\ tls \in Tls /\ Depth \in Nat /\ skipped \in BOOLEAN
      /\ dicts \in Seq(FeltDict) /\ DOMAIN dicts = 1..Len(dicts)
      /\ Len(dicts) \in Nat
      /\ RegisteredInv /\ PendingInv
      /\ RegistryOf(0) = {} /\ (~skipped => ArenasOwned /\ DictsOwned)
  BY DictInvParts, OwnedInvParts DEF TypeOK, Depth
<1>1. ASSUME NEW c \in Costs, NEW h \in BOOLEAN, Install(c, h)
      PROVE  OwnedInv'
  <2>1. /\ dicts' = dicts /\ tls.cell = "free" /\ skipped' = skipped
        /\ live' = live \cup {calls'}
    BY <1>0, <1>1 DEF Install, Sane
  <2>2. /\ Depth' = Depth + 1 /\ Innermost = Depth /\ Innermost' = Depth + 1
        /\ \A i \in 0..Depth : ArenaOf(i)' = ArenaOf(i) /\ RegistryOf(i)' = RegistryOf(i)
        /\ \A k \in Nat : k = Depth + 1 => ArenaOf(k)' = calls'
    BY <1>1, InstallMoves
  <2>3. \A i \in 0..Depth : i \in 0..(Depth + 1)
    BY <1>0
  <2>4. RegistryOf(0)' = {}
    BY <1>0, <2>2
  <2>5. ~skipped => ArenasOwned'
    BY <1>0, <2>1, <2>2, <2>3 DEF ArenasOwned
  <2>6. ~skipped => DictsOwned'
    BY <1>0, <2>1, <2>2, <2>3 DEF DictsOwned
  <2>7. QED
    BY <2>1, <2>4, <2>5, <2>6 DEF OwnedInv, ArenasOwned, DictsOwned
<1>2. CASE Segfault
  <2>1. dicts' = dicts /\ live' = live
    BY <1>2 DEF Segfault
  <2>2. /\ tls.runner \in 1..Innermost /\ Innermost \in 1..Depth /\ Depth' = tls.runner
        /\ Innermost' = Depth'
        /\ \A i \in 0..(tls.runner - 1) :
             ArenaOf(i)' = ArenaOf(i) /\ RegistryOf(i)' = RegistryOf(i)
        /\ \A k \in Nat : k = tls.runner =>
             ArenaOf(k)' = ArenaOf(Depth) /\ RegistryOf(k)' = RegistryOf(Innermost)
    BY <1>2, SegfaultMoves
  <2>3. ~skipped' => tls.runner = Depth /\ Innermost = Depth /\ ~skipped
    <3>1. ~skipped' => ~(skipped \/ tls.runner < Depth)
      BY <1>2 DEF Segfault
    <3>2. QED
      BY <1>0, <2>2, <3>1
  <2>4. RegistryOf(0)' = {}
    BY <1>0, <2>2
  <2>5. tls.runner = Depth /\ Innermost = Depth =>
          \A i \in 0..Depth : ArenaOf(i)' = ArenaOf(i) /\ RegistryOf(i)' = RegistryOf(i)
    BY <1>0, <2>2
  <2>6. ~skipped' => ArenasOwned'
    BY <1>0, <2>1, <2>2, <2>3, <2>5 DEF ArenasOwned
  <2>7. ~skipped' => DictsOwned'
    BY <1>0, <2>1, <2>2, <2>3, <2>5 DEF DictsOwned
  <2>8. QED
    BY <2>4, <2>6, <2>7 DEF OwnedInv, ArenasOwned, DictsOwned
<1>3. CASE DropDicts
  <2>1. skipped' = skipped /\ live' = live
    BY <1>3 DEF DropDicts
  <2>2. /\ Depth > 0 /\ Depth' = Depth /\ ~Dropping /\ Innermost = Depth
        /\ Innermost' = Depth - 1
        /\ \A i \in 0..Depth : ArenaOf(i)' = ArenaOf(i)
        /\ \A i \in 0..(Depth - 1) : RegistryOf(i)' = RegistryOf(i)
    BY <1>3, DropDictsMoves
  <2>3. RegistryOf(Depth) = tls.registry
    BY <2>2 DEF RegistryOf
  <2>4. RegistryOf(0)' = {}
    BY <1>0, <2>2
  <2>5. ~skipped => ArenasOwned'
    BY <1>0, <2>1, <2>2 DEF ArenasOwned
  <2>6. ASSUME ~skipped, NEW d \in DOMAIN dicts'
        PROVE  dicts'[d].filled =>
                 dicts'[d].drops = 1 \/ \E i \in 0..(Depth - 1) : d \in RegistryOf(i)'
    <3>1. /\ d \in DOMAIN dicts
          /\ dicts'[d] = IF d \in tls.registry THEN [dicts[d] EXCEPT !.drops = @ + 1]
                                               ELSE dicts[d]
      BY <1>3, <2>6 DEF DropDicts
    <3>2. dicts[d] \in FeltDict
      BY <1>0, <3>1, ElementOfSeq
    <3>3. CASE d \in tls.registry
      <4>1. dicts[d].drops = 0
        BY <1>0, <2>2, <2>3, <3>3 DEF RegisteredInv
      <4>2. QED
        BY <3>1, <3>2, <3>3, <4>1 DEF FeltDict
    <3>4. CASE d \notin tls.registry
      <4>1. dicts[d].filled => dicts[d].drops = 1 \/ \E i \in 0..Depth : d \in RegistryOf(i)
        BY <1>0, <2>1, <2>2, <2>6, <3>1 DEF DictsOwned
      <4>2. \A i \in 0..Depth : d \in RegistryOf(i) => i \in 0..(Depth - 1)
        BY <1>0, <2>3, <3>4
      <4>3. QED
        BY <2>2, <3>1, <3>4, <4>1, <4>2
    <3>5. QED
      BY <3>3, <3>4
  <2>7. ~skipped => DictsOwned'
    BY <2>2, <2>6 DEF DictsOwned
  <2>8. QED
    BY <2>1, <2>4, <2>5, <2>7 DEF OwnedInv, ArenasOwned, DictsOwned
<1>4. CASE DropArena
  <2>1. dicts' = dicts /\ tls.cell = "free" /\ skipped' = skipped
    BY <1>4 DEF DropArena
  <2>2. /\ Depth > 0 /\ Depth' = Depth - 1
        /\ Innermost = Depth - 1 /\ Innermost' = Depth - 1
        /\ \A i \in 0..(Depth - 1) :
             ArenaOf(i)' = ArenaOf(i) /\ RegistryOf(i)' = RegistryOf(i)
        /\ live' = live \ {ArenaOf(Depth)}
    BY <1>4, DropArenaMoves
  <2>3. \A i \in 0..Depth : i = Depth \/ i \in 0..(Depth - 1)
    BY <1>0
  <2>4. RegistryOf(0)' = {}
    BY <1>0, <2>2
  <2>5. ~skipped => ArenasOwned'
    BY <1>0, <2>2, <2>3 DEF ArenasOwned
  <2>6. ~skipped => DictsOwned'
    BY <1>0, <2>1, <2>2 DEF DictsOwned
  <2>7. QED
    BY <2>1, <2>4, <2>5, <2>6 DEF OwnedInv, ArenasOwned, DictsOwned
<1>5. CASE Runtime
  <2>1. /\ Depth > 0 /\ Depth' = Depth /\ Innermost = Depth /\ Innermost' = Depth
        /\ \A i \in 0..Depth : ArenaOf(i)' = ArenaOf(i)
        /\ \A i \in 0..Depth : RegistryOf(i) \subseteq RegistryOf(i)'
        /\ RegistryOf(0)' = {}
    <3>1. /\ Depth > 0 /\ Depth' = Depth /\ Innermost = Depth /\ Innermost' = Depth
          /\ \A i \in 0..Depth : ArenaOf(i)' = ArenaOf(i)
          /\ ~RegisterDict => \A i \in 0..Depth : RegistryOf(i)' = RegistryOf(i)
          /\ RegisterDict => \A i \in 0..Depth :
               RegistryOf(i)' = RegistryOf(i) \cup (IF i = Depth THEN {Len(dicts)} ELSE {})
      BY <1>5, RuntimeKeeps
    <3>2. 0 \in 0..Depth /\ 0 # Depth /\ Depth \in 0..Depth
      BY <1>0, <3>1
    <3>3. QED
      BY <1>0, <3>1, <3>2
  <2>2. live' = live /\ skipped' = skipped
    BY <1>5 DEF Runtime, BlakeCompress, BorrowArena, EndAlloc, DictInArena, BorrowRegistry,
                RegisterDict, Filling, FillMap
  <2>3. ~skipped => ArenasOwned'
    BY <1>0, <2>1, <2>2 DEF ArenasOwned
  <2>4. CASE DictInArena
    <3>1. [home |-> tls.arena, filled |-> FALSE, drops |-> 0] \in FeltDict
      BY <1>0 DEF Tls, FeltDict
    <3>2. /\ Len(dicts') = Len(dicts) + 1 /\ DOMAIN dicts' = 1..(Len(dicts) + 1)
          /\ \A d \in 1..Len(dicts) : dicts'[d] = dicts[d]
          /\ ~dicts'[Len(dicts) + 1].filled
      BY <1>0, <2>4, <3>1, AppendProperties DEF DictInArena
    <3>3. \A d \in DOMAIN dicts' : d = Len(dicts) + 1 \/ d \in DOMAIN dicts
      BY <1>0, <3>2
    <3>4. ~skipped => DictsOwned'
      BY <1>0, <2>1, <3>2, <3>3 DEF DictsOwned
    <3>5. QED
      BY <2>1, <2>2, <2>3, <3>4 DEF OwnedInv, ArenasOwned, DictsOwned
  <2>5. CASE Filling
    <3>1. /\ DOMAIN dicts' = DOMAIN dicts
          /\ \A d \in DOMAIN dicts : /\ dicts'[d].drops = dicts[d].drops
                                     /\ (dicts'[d] = dicts[d] \/ d \in tls.registry)
      BY <2>5, FillingFills
    <3>2. RegistryOf(Innermost) = tls.registry /\ Innermost \in 0..Innermost
      BY <1>0, <2>1 DEF RegistryOf
    <3>3. ~skipped => DictsOwned'
      BY <1>0, <2>1, <3>1, <3>2 DEF DictsOwned
    <3>4. QED
      BY <2>1, <2>2, <2>3, <3>3 DEF OwnedInv, ArenasOwned, DictsOwned
  <2>6. CASE BlakeCompress \/ BorrowArena \/ EndAlloc \/ BorrowRegistry \/ RegisterDict
    <3>1. dicts' = dicts
      BY <2>6 DEF BlakeCompress, BorrowArena, EndAlloc, BorrowRegistry, RegisterDict
    <3>2. ~skipped => DictsOwned'
      BY <1>0, <2>1, <3>1 DEF DictsOwned
    <3>3. QED
      BY <2>1, <2>2, <2>3, <3>2 DEF OwnedInv, ArenasOwned, DictsOwned
  <2>7. QED
    BY <1>5, <2>4, <2>5, <2>6 DEF Runtime
<1>6. CASE EnterSafely \/ HostError \/ ReturnFromCode \/ ReadResults
             \/ SegfaultOutside \/ DropPanics \/ UNCHANGED vars
  <2>1. /\ Depth' = Depth /\ Innermost' = Innermost
        /\ dicts' = dicts
        /\ \A i \in 0..Depth : ArenaOf(i)' = ArenaOf(i)
        /\ \A i \in 0..Innermost : RegistryOf(i)' = RegistryOf(i)
    BY <1>6, CalmKeepsRegistries
  <2>2. live' = live /\ skipped' = skipped
    BY <1>6 DEF EnterSafely, HostError, ReturnFromCode, ReadResults, SegfaultOutside,
                DropPanics, vars
  <2>3. 0 \in 0..Innermost
    BY <1>0 DEF Innermost, Dropping, InPhase
  <2>4. ~skipped => ArenasOwned'
    BY <1>0, <2>1, <2>2 DEF ArenasOwned
  <2>5. ~skipped => DictsOwned'
    BY <1>0, <2>1 DEF DictsOwned
  <2>6. QED
    BY <1>0, <2>1, <2>2, <2>3, <2>4, <2>5 DEF OwnedInv, ArenasOwned, DictsOwned
<1>7. QED
  BY <1>1, <1>2, <1>3, <1>4, <1>5, <1>6, NextCases DEF Quiet, Runtime

-----------------------------------------------------------------------------
(* The theorems *)

LEMMA IInvInit == Init => IInv
<1> SUFFICES ASSUME Init PROVE IInv
  OBVIOUS
<1>1. TypeOK
  BY TypeInit
<1>2. /\ Depth = 0 /\ tls.arena = 0 /\ tls.registry = {} /\ tls.handler = 0
      /\ tls.runner = 0 /\ tls.cell = "free" /\ live = {0} /\ dicts = <<>> /\ calls = 0
  BY DEF Init, Depth
<1>3. ~Dropping /\ Innermost = 0
  BY <1>2 DEF Dropping, InPhase, Innermost
<1>4. \A i \in 0..0 : i = 0 /\ ArenaOf(i) = 0 /\ RegistryOf(i) = {}
  BY <1>2, <1>3 DEF ArenaOf, RegistryOf
<1>5. RunnerInv
  BY <1>2 DEF RunnerInv, InPhase
<1>6. HandlerInv
  BY <1>2 DEF HandlerInv, Below
<1>7. ArenaInv
  BY <1>2, <1>4 DEF ArenaInv
<1>8. DictInv
  BY <1>2, <1>3, <1>4 DEF DictInv, Pending
<1>9. OwnedInv
  BY <1>2, <1>3, <1>4 DEF OwnedInv
<1>10. QED
  BY <1>1, <1>5, <1>6, <1>7, <1>8, <1>9 DEF IInv

LEMMA IInvStep == IInv /\ [Next]_vars => IInv'
  BY TypeStep, RunnerStep, HandlerStep, ArenaStep, DictStep, OwnedStep DEF IInv

LEMMA Inductive == Spec => []IInv
  BY IInvInit, IInvStep, PTL DEF Spec

\* Every variable keeps its type: in particular no dictionary's map is dropped twice.
THEOREM TypeCorrect == Spec => []TypeOK
<1>1. IInv => TypeOK
  BY DEF IInv
<1>2. QED
  BY <1>1, Inductive, PTL

\* At any nesting depth, with faults at every step, the safe runner's state is the
\* innermost invocation inside run_safely, or Inactive when there is none.
THEOREM JumpsGoToALiveFrame == Spec => []JumpTargetLive
<1>1. IInv => JumpTargetLive
  <2> SUFFICES ASSUME TypeOK, RunnerInv
               PROVE  JumpTargetLive
    BY DEF IInv
  <2> DEFINE inside == {i \in 1..Depth : stack[i].phase = "running"}
  <2>0. Depth \in Nat
    BY DEF TypeOK, Depth
  <2>1. CASE InPhase("running")
    <3>1. tls.runner = Depth /\ Depth \in inside
      BY <2>0, <2>1 DEF RunnerInv, InPhase, Top
    <3>2. QED
      BY <2>0, <3>1 DEF JumpTargetLive
  <2>2. CASE Depth = 0
    BY <2>2 DEF RunnerInv, JumpTargetLive
  <2>3. CASE Depth > 0 /\ ~InPhase("running")
    <3>1. tls.runner = Depth - 1 /\ Depth \notin inside
      BY <2>0, <2>3 DEF RunnerInv, InPhase, Top
    <3>2. inside = 1..(Depth - 1)
      BY <2>0, <3>1 DEF RunnerInv
    <3>3. IF inside = {} THEN tls.runner = 0
          ELSE tls.runner \in inside /\ \A i \in inside : i <= tls.runner
      <4> HIDE DEF inside
      <4>1. CASE Depth = 1
        BY <3>1, <3>2, <4>1
      <4>2. CASE Depth > 1
        BY <2>0, <3>1, <3>2, <4>2
      <4>3. QED
        BY <2>0, <2>3, <4>1, <4>2
    <3>4. QED
      BY <3>3 DEF JumpTargetLive
  <2>4. QED
    BY <2>0, <2>1, <2>2, <2>3
<1>2. QED
  BY <1>1, Inductive, PTL

\* While no guard has been jumped over, the cheatcode pointer is null or belongs to an
\* invocation in progress (InvocationGuard::install and drop).
THEOREM HandlerPointerAlive == Spec => []HandlerAlive
<1>1. IInv => HandlerAlive
  BY DEF IInv, HandlerInv, HandlerAlive, Below
<1>2. QED
  BY <1>1, Inductive, PTL

\* No invocation in progress can reach a freed arena, a dictionary in one, or a dropped
\* map, whatever mixture of errors and jumps over guards came before.
THEOREM NothingDangles == Spec => []NoDangling
<1>1. IInv => NoDangling
  <2> SUFFICES ASSUME IInv, NEW i \in 0..Depth
               PROVE  /\ ContextOf(i).arena \in live
                      /\ \A d \in ContextOf(i).registry :
                           dicts[d].home \in live /\ dicts[d].drops = 0
    BY DEF NoDangling
  <2>0. tls \in Tls /\ Depth \in Nat /\ RegisteredInv
        /\ \A k \in 0..Depth : ArenaOf(k) \in live
    BY DictInvParts DEF IInv, TypeOK, Depth, ArenaInv
  <2>1. \A k \in 0..Innermost : k \in 0..Depth
    BY <2>0 DEF Innermost
  <2>2. \A k \in 0..Innermost : \A d \in RegistryOf(k) :
          dicts[d].home \in live /\ dicts[d].drops = 0
    BY <2>0, <2>1 DEF RegisteredInv
  <2>3. Innermost \in 0..Innermost /\ RegistryOf(Innermost) = tls.registry
    BY <2>0 DEF Innermost, Dropping, InPhase, RegistryOf
  <2>4. CASE i = Depth
    <3>1. ContextOf(i).arena = ArenaOf(i) /\ ContextOf(i).registry = tls.registry
      BY <2>4 DEF ContextOf, Context, ArenaOf
    <3>2. QED
      BY <2>0, <2>2, <2>3, <3>1
  <2>5. CASE i # Depth /\ i = Depth - 1 /\ Top.phase = "dropping"
    <3>1. ContextOf(i).arena = ArenaOf(i) /\ ContextOf(i).registry = tls.registry
      BY <2>0, <2>5 DEF ContextOf, Context, ArenaOf, Top
    <3>2. QED
      BY <2>0, <2>2, <2>3, <3>1
  <2>6. CASE i # Depth /\ ~(i = Depth - 1 /\ Top.phase = "dropping")
    <3>1. i \in 0..Innermost /\ i # Innermost
      BY <2>0, <2>6 DEF Innermost, Dropping, InPhase
    <3>2. ContextOf(i) = stack[i + 1].saved
      BY <2>6 DEF ContextOf
    <3>3. ContextOf(i).arena = ArenaOf(i) /\ ContextOf(i).registry = RegistryOf(i)
      BY <2>6, <3>1, <3>2 DEF ArenaOf, RegistryOf
    <3>4. QED
      BY <2>0, <2>2, <3>1, <3>3
  <2>7. QED
    BY <2>4, <2>5, <2>6
<1>2. QED
  BY <1>1, Inductive, PTL

\* When the last invocation has ended and no guard was ever jumped over, the thread has
\* its own arena back, every other arena is freed, and every map that held memory of the
\* system heap has been dropped, at whatever step of dict_new or of a guard a fault came.
THEOREM NothingLeaks == Spec => []NoLeak
<1>1. IInv => NoLeak
  <2> SUFFICES ASSUME IInv, Depth = 0, ~skipped
               PROVE  /\ live = {0}
                      /\ \A d \in DOMAIN dicts : dicts[d].filled => dicts[d].drops = 1
    BY DEF NoLeak
  <2>1. Innermost = 0 /\ RegistryOf(0) = {}
    BY DEF IInv, Innermost, Dropping, InPhase, OwnedInv
  <2>2. ArenaOf(0) = 0 /\ ArenaOf(0) \in live
    BY DEF IInv, ArenaInv
  <2>3. \A a \in live : a = 0
    BY <2>2 DEF IInv, OwnedInv
  <2>4. \A d \in DOMAIN dicts : dicts[d].filled => dicts[d].drops = 1
    BY <2>1 DEF IInv, OwnedInv
  <2>5. QED
    BY <2>2, <2>3, <2>4
<1>2. QED
  BY <1>1, Inductive, PTL

-----------------------------------------------------------------------------
(***************************************************************************)
(* Invocation implements InvocationSpec: for any nesting depth, however    *)
(* many invocations are made and wherever faults jump, the thread-local    *)
(* variables and what the guards save are one private context per          *)
(* invocation, and an invocation reports its own number of blake calls.    *)
(* The invariant above says who owns which arena and which registry; costs *)
(* and blake counters are followed in the same way.                        *)
(***************************************************************************)
(* Functions on 1..n as sequences. *)

LEMMA FnSeq ==
  ASSUME NEW n \in Nat, NEW f, f = [i \in 1..n |-> f[i]], NEW S, \A i \in 1..n : f[i] \in S
  PROVE  f \in Seq(S) /\ Len(f) = n
<1> DEFINE g == [i \in 1..n |-> f[i]]
<1>1. g \in Seq(S) /\ Len(g) = n
  OBVIOUS
<1>2. f = g
  OBVIOUS
<1> HIDE DEF g
<1> QED
  BY <1>1, <1>2

LEMMA FnAppend ==
  ASSUME NEW n \in Nat, NEW f, f = [i \in 1..n |-> f[i]], NEW v,
         NEW g, g = [i \in 1..(n + 1) |-> g[i]],
         \A i \in 1..n : g[i] = f[i], g[n + 1] = v
  PROVE  g = Append(f, v)
<1> DEFINE S == {f[i] : i \in 1..n} \cup {v}
           u == Append(f, v)
<1>1. f \in Seq(S) /\ Len(f) = n /\ v \in S
  <2>1. \A i \in 1..n : f[i] \in S
    OBVIOUS
  <2>2. v \in S
    OBVIOUS
  <2> HIDE DEF S
  <2> QED
    BY <2>1, <2>2, FnSeq
<1>2. g \in Seq(S) /\ Len(g) = n + 1
  <2>1. \A i \in 1..(n + 1) : g[i] \in S
    <3> SUFFICES ASSUME NEW i \in 1..(n + 1) PROVE g[i] \in S
      OBVIOUS
    <3>1. i \in 1..n \/ i = n + 1
      OBVIOUS
    <3> QED
      BY <3>1
  <2>2. n + 1 \in Nat
    OBVIOUS
  <2> HIDE DEF S
  <2> QED
    BY <2>1, <2>2, FnSeq
<1> HIDE DEF S
<1>3. u \in Seq(S) /\ Len(u) = n + 1 /\ u[n + 1] = v /\ \A i \in 1..n : u[i] = f[i]
  BY <1>1, AppendProperties
<1> HIDE DEF u
<1>4. \A i \in 1..(n + 1) : u[i] = g[i]
  <2> SUFFICES ASSUME NEW i \in 1..(n + 1) PROVE u[i] = g[i]
    OBVIOUS
  <2>1. i \in 1..n \/ i = n + 1
    OBVIOUS
  <2> QED
    BY <1>3, <2>1
<1>5. u = g
  BY ONLY <1>2, <1>3, <1>4, SeqEqual
<1> QED
  BY <1>5 DEF u

LEMMA FnPrefix ==
  ASSUME NEW n \in Nat, NEW f, f = [i \in 1..n |-> f[i]],
         NEW m \in Nat, m <= n, NEW g, g = [i \in 1..m |-> g[i]],
         \A i \in 1..m : g[i] = f[i]
  PROVE  g = SubSeq(f, 1, m)
<1> DEFINE S == {f[i] : i \in 1..n}
           u == SubSeq(f, 1, m)
<1>1. \A i \in 1..n : f[i] \in S
  OBVIOUS
<1>2. \A i \in 1..m : i \in 1..n
  OBVIOUS
<1> HIDE DEF S
<1>3. f \in Seq(S) /\ Len(f) = n
  BY <1>1, FnSeq
<1>4. g \in Seq(S) /\ Len(g) = m
  BY <1>1, <1>2, FnSeq
<1>5. u \in Seq(S) /\ Len(u) = m /\ \A i \in 1..m : u[i] = f[i]
  <2>1. \A i \in 1..m : f[i] \in S
    BY <1>1, <1>2
  <2>2. m \in Nat
    OBVIOUS
  <2>3. /\ u \in Seq(S) /\ Len(u) = IF 1 <= m THEN m - 1 + 1 ELSE 0
        /\ \A i \in 1..(m - 1 + 1) : u[i] = f[1 + i - 1]
    BY ONLY <2>1, <2>2, SubSeqProperties
  <2>4. m - 1 + 1 = m /\ (~(1 <= m) => m = 0) /\ \A i \in 1..m : 1 + i - 1 = i
    BY ONLY <2>2
  <2> QED
    BY ONLY <2>3, <2>4
<1> HIDE DEF u
<1>6. \A i \in 1..m : u[i] = g[i]
  BY <1>5
<1>7. u = g
  BY ONLY <1>4, <1>5, <1>6, SeqEqual
<1> QED
  BY <1>7 DEF u

-----------------------------------------------------------------------------
(* The contexts of the invocations that are not over. *)

CostsOf(i) == IF i = Innermost THEN tls.costs ELSE stack[i + 1].saved.costs
BlakeOf(i) == IF i = Innermost THEN tls.blake ELSE stack[i + 1].saved.blake

Own(i) == [failed |-> FALSE, costs |-> CostsOf(i), blake |-> BlakeOf(i),
           arena |-> ArenaOf(i), dicts |-> RegistryOf(i)]

Abandoned(i) == i > 0 /\ stack[i].phase = "unwinding"

FrameOf(i) == IF Abandoned(i) THEN Abstract!Failed ELSE Own(i)

Frames == [i \in 1..(Innermost + 1) |-> FrameOf(i - 1)]

LEMMA Depths == TypeOK => /\ Depth \in Nat /\ Innermost \in Nat /\ Innermost <= Depth
                          /\ (Dropping => Innermost = Depth - 1)
                          /\ (~Dropping => Innermost = Depth)
BY DEF TypeOK, Depth, Innermost, Dropping, InPhase

LEMMA Now ==
  TypeOK => [i \in 1..(AbstractDepth + 1) |-> AbstractFrame(i - 1)] = Frames
<1> SUFFICES ASSUME TypeOK
             PROVE  [i \in 1..(AbstractDepth + 1) |-> AbstractFrame(i - 1)] = Frames
  OBVIOUS
<1>1. AbstractDepth = Innermost
  BY DEF AbstractDepth, Innermost, Dropping
<1>2. ASSUME NEW k \in 0..Innermost PROVE AbstractFrame(k) = FrameOf(k)
  <2>1. CASE k = Depth
    <3>1. ~Dropping /\ k = Innermost
      BY <2>1, Depths
    <3>2. ContextOf(k) = Context
      BY <2>1 DEF ContextOf
    <3> QED
      BY <2>1, <3>1, <3>2
      DEF AbstractFrame, FrameOf, Abandoned, Abstract!Failed, Own, Context, CostsOf, BlakeOf,
          ArenaOf, RegistryOf
  <2>2. CASE k # Depth /\ Dropping /\ k = Depth - 1
    <3>1. k = Innermost /\ k + 1 = Depth
      BY <2>2, Depths
    <3>2. ContextOf(k) = [Context EXCEPT !.arena = Top.saved.arena]
      BY <2>2 DEF ContextOf, Dropping, InPhase
    <3> QED
      BY <2>2, <3>1, <3>2
      DEF AbstractFrame, FrameOf, Abandoned, Abstract!Failed, Own, Context, CostsOf, BlakeOf,
          ArenaOf, RegistryOf, Top
  <2>3. CASE k # Depth /\ ~(Dropping /\ k = Depth - 1)
    <3>1. k # Innermost
      BY <2>3, Depths
    <3>2. ContextOf(k) = stack[k + 1].saved
      BY <2>3, Depths DEF ContextOf, Dropping, InPhase
    <3> QED
      BY <2>3, <3>1, <3>2
      DEF AbstractFrame, FrameOf, Abandoned, Abstract!Failed, Own, CostsOf, BlakeOf,
          ArenaOf, RegistryOf
  <2> QED
    BY <2>1, <2>2, <2>3
<1>3. \A i \in 1..(Innermost + 1) : i - 1 \in 0..Innermost
  BY Depths
<1> QED
  BY <1>1, <1>2, <1>3 DEF Frames

\* The refinement mapping, in this state and in the next.
LEMMA Mapping ==
  ASSUME TypeOK, TypeOK'
  PROVE  /\ [i \in 1..(AbstractDepth + 1) |-> AbstractFrame(i - 1)] = Frames
         /\ [i \in 1..(AbstractDepth + 1) |-> AbstractFrame(i - 1)]' = Frames'
<1>1. (TypeOK => [i \in 1..(AbstractDepth + 1) |-> AbstractFrame(i - 1)] = Frames)'
  BY Now, PTL
<1> QED
  BY <1>1, Now

LEMMA FramesFn ==
  TypeOK => /\ Frames = [i \in 1..(Innermost + 1) |-> Frames[i]]
            /\ Innermost + 1 \in Nat /\ Len(Frames) = Innermost + 1
            /\ \A i \in 0..Innermost : i + 1 \in 1..(Innermost + 1) /\ Frames[i + 1] = FrameOf(i)
<1> SUFFICES ASSUME TypeOK
             PROVE  /\ Frames = [i \in 1..(Innermost + 1) |-> Frames[i]]
                    /\ Innermost + 1 \in Nat /\ Len(Frames) = Innermost + 1
                    /\ \A i \in 0..Innermost :
                         i + 1 \in 1..(Innermost + 1) /\ Frames[i + 1] = FrameOf(i)
  OBVIOUS
<1>1. Innermost + 1 \in Nat
  BY Depths
<1>2. Frames = [i \in 1..(Innermost + 1) |-> Frames[i]]
  BY DEF Frames
<1>3. ASSUME NEW i \in 0..Innermost
      PROVE  i + 1 \in 1..(Innermost + 1) /\ Frames[i + 1] = FrameOf(i)
  <2>1. i + 1 \in 1..(Innermost + 1) /\ (i + 1) - 1 = i
    BY Depths
  <2> QED
    BY <2>1 DEF Frames
<1>4. Len(Frames) = Innermost + 1
  <2> DEFINE S == {Frames[i] : i \in 1..(Innermost + 1)}
  <2>1. \A i \in 1..(Innermost + 1) : Frames[i] \in S
    OBVIOUS
  <2> HIDE DEF S
  <2> QED
    BY <1>1, <1>2, <2>1, FnSeq
<1> QED
  BY <1>1, <1>2, <1>3, <1>4

LEMMA NextFramesFn ==
  ASSUME TypeOK'
  PROVE  /\ Frames' = [i \in 1..(Innermost' + 1) |-> Frames'[i]]
         /\ Innermost' + 1 \in Nat /\ Len(Frames') = Innermost' + 1
         /\ \A i \in 0..Innermost' : i + 1 \in 1..(Innermost' + 1) /\ Frames'[i + 1] = FrameOf(i)'
<1>1. (TypeOK => /\ Frames = [i \in 1..(Innermost + 1) |-> Frames[i]]
                 /\ Innermost + 1 \in Nat /\ Len(Frames) = Innermost + 1
                 /\ \A i \in 0..Innermost :
                      i + 1 \in 1..(Innermost + 1) /\ Frames[i + 1] = FrameOf(i))'
  BY FramesFn, PTL
<1> QED
  BY <1>1

-----------------------------------------------------------------------------
(* The steps the abstraction does not see. *)

LEMMA FramesKept ==
  ASSUME TypeOK, Innermost' = Innermost, \A i \in 0..Innermost : FrameOf(i)' = FrameOf(i)
  PROVE  Frames' = Frames
<1>1. \A i \in 1..(Innermost + 1) : i - 1 \in 0..Innermost
  BY Depths
<1>2. \A i \in 1..(Innermost + 1) : FrameOf(i - 1)' = FrameOf(i - 1)
  BY <1>1
<1> QED
  BY <1>2 DEF Frames

\* Steps that change neither what a guard saved nor costs and counter.
LEMMA CountersKept ==
  ASSUME TypeOK, TopUpdated, Innermost' = Innermost,
         tls'.costs = tls.costs, tls'.blake = tls.blake
  PROVE  \A i \in 0..Innermost : CostsOf(i)' = CostsOf(i) /\ BlakeOf(i)' = BlakeOf(i)
<1>1. \A i \in 0..Innermost : i # Innermost => i + 1 \in 1..Depth
  BY Depths
<1>2. \A i \in 0..Innermost : i # Innermost => stack'[i + 1].saved = stack[i + 1].saved
  BY <1>1 DEF TopUpdated
<1> QED
  BY <1>2 DEF CostsOf, BlakeOf

LEMMA SameStack ==
  ASSUME TypeOK, stack' = stack
  PROVE  TopUpdated /\ \A i \in 0..Depth : Abandoned(i)' = Abandoned(i)
BY DEF TopUpdated, Abandoned, Depth

\* The innermost frame changes, but is not abandoned by that.
LEMMA StillCalled ==
  ASSUME TypeOK, TopUpdated, Top.phase # "unwinding", stack'[Depth].phase # "unwinding"
  PROVE  \A i \in 0..Depth : Abandoned(i)' = Abandoned(i)
<1>1. \A i \in 0..Depth : i = Depth \/ i = 0 \/ (i \in 1..Depth /\ i < Depth)
  BY Depths
<1> QED
  BY <1>1 DEF TopUpdated, Abandoned, Top

LEMMA CalmAbstract ==
  ASSUME TypeOK, EnterSafely \/ ReturnFromCode \/ ReadResults
                   \/ SegfaultOutside \/ DropPanics \/ UNCHANGED vars
  PROVE  Frames' = Frames /\ outcome' = outcome
<1>0. tls \in Tls
  BY DEF TypeOK
<1>1. /\ Depth' = Depth /\ Innermost' = Innermost
      /\ \A i \in 0..Depth : ArenaOf(i)' = ArenaOf(i)
      /\ \A i \in 0..Innermost : RegistryOf(i)' = RegistryOf(i)
  BY CalmKeepsRegistries
<1>2. tls'.costs = tls.costs /\ tls'.blake = tls.blake /\ outcome' = outcome
  BY <1>0 DEF EnterSafely, ReturnFromCode, ReadResults, SegfaultOutside, DropPanics, vars, Tls
<1>3. TopUpdated /\ \A i \in 0..Depth : Abandoned(i)' = Abandoned(i)
  <2>1. CASE EnterSafely
    BY <2>1, EnterSafelyUpdates, StillCalled DEF EnterSafely, InPhase
  <2>2. CASE ReturnFromCode
    <3>1. TopUpdated /\ stack'[Depth].phase = "returned" /\ Top.phase = "running"
      BY <2>2, GoToUpdates DEF ReturnFromCode, InPhase, Phases
    <3> QED
      BY <3>1, StillCalled
  <2>3. CASE ReadResults
    BY <2>3, ReadResultsUpdates, StillCalled DEF ReadResults, InPhase
  <2>4. CASE SegfaultOutside \/ DropPanics \/ UNCHANGED vars
    BY <2>4, SameStack DEF SegfaultOutside, DropPanics, vars
  <2> QED
    BY <2>1, <2>2, <2>3, <2>4
<1>4. \A i \in 0..Innermost : CostsOf(i)' = CostsOf(i) /\ BlakeOf(i)' = BlakeOf(i)
  BY <1>1, <1>2, <1>3, CountersKept
<1>5. \A i \in 0..Innermost : FrameOf(i)' = FrameOf(i)
  <2>1. \A i \in 0..Innermost : i \in 0..Depth
    BY Depths
  <2> QED
    BY <1>1, <1>3, <1>4, <2>1 DEF FrameOf, Own, Abstract!Failed
<1> QED
  BY <1>1, <1>2, <1>5, FramesKept

LEMMA AllocAbstract ==
  ASSUME TypeOK, BorrowArena \/ EndAlloc \/ DictInArena \/ BorrowRegistry \/ Filling
  PROVE  Frames' = Frames /\ outcome' = outcome
<1>0. tls \in Tls
  BY DEF TypeOK
<1>1. /\ Innermost = Depth /\ Innermost' = Depth
      /\ \A i \in 0..Depth : ArenaOf(i)' = ArenaOf(i)
      /\ \A i \in 0..Depth : RegistryOf(i)' = RegistryOf(i)
  <2>1. Runtime /\ ~RegisterDict
    BY <1>0 DEF Runtime, BorrowArena, EndAlloc, DictInArena, BorrowRegistry, RegisterDict,
               Filling, FillMap, Sane, Tls
  <2> QED
    BY <2>1, RuntimeKeeps
<1>2. /\ tls'.costs = tls.costs /\ tls'.blake = tls.blake /\ outcome' = outcome
      /\ stack' = stack
  BY <1>0 DEF BorrowArena, EndAlloc, DictInArena, BorrowRegistry, Filling, FillMap, Tls
<1>3. \A i \in 0..Innermost : CostsOf(i)' = CostsOf(i) /\ BlakeOf(i)' = BlakeOf(i)
  BY <1>1, <1>2, SameStack, CountersKept
<1>4. \A i \in 0..Innermost : FrameOf(i)' = FrameOf(i)
  BY <1>1, <1>2, <1>3, SameStack DEF FrameOf, Own, Abstract!Failed
<1> QED
  BY <1>1, <1>2, <1>4, FramesKept

\* The guard of an invocation that is over gives the arena back.
LEMMA DropArenaAbstract ==
  ASSUME TypeOK, RunnerInv, DropArena
  PROVE  Frames' = Frames /\ outcome' = outcome
<1>0. tls \in Tls
  BY DEF TypeOK
<1>1. /\ Depth > 0 /\ Depth' = Depth - 1 /\ Innermost = Depth - 1 /\ Innermost' = Depth - 1
      /\ \A i \in 0..(Depth - 1) : ArenaOf(i)' = ArenaOf(i) /\ RegistryOf(i)' = RegistryOf(i)
  BY DropArenaMoves
<1>2. \A i \in 1..(Depth - 1) : stack'[i] = stack[i]
  BY DropArenaPops
<1>3. tls'.costs = tls.costs /\ tls'.blake = tls.blake /\ outcome' = outcome
  BY <1>0 DEF DropArena, Tls
<1>4. \A i \in 0..(Depth - 1) : i # Depth - 1 => i + 1 \in 1..(Depth - 1)
  BY Depths
<1>5. \A i \in 0..Innermost : CostsOf(i)' = CostsOf(i) /\ BlakeOf(i)' = BlakeOf(i)
  BY <1>1, <1>2, <1>3, <1>4 DEF CostsOf, BlakeOf
<1>6. \A i \in 0..Innermost : Abandoned(i)' = Abandoned(i)
  <2>1. \A i \in 0..(Depth - 1) : i > 0 => i \in 1..(Depth - 1)
    BY Depths
  <2> QED
    BY <1>1, <1>2, <2>1 DEF Abandoned
<1>7. \A i \in 0..Innermost : FrameOf(i)' = FrameOf(i)
  BY <1>1, <1>5, <1>6 DEF FrameOf, Own, Abstract!Failed
<1> QED
  BY <1>1, <1>3, <1>7, FramesKept

-----------------------------------------------------------------------------
(* The steps it sees. *)

\* The invocations that are running own what their frames say.
LEMMA RunningFrames ==
  ASSUME TypeOK
  PROVE  /\ \A i \in 1..Len(Frames) : ~Frames[i].failed =>
              \E k \in 0..Innermost : Frames[i] = Own(k)
         /\ \A k \in 0..Innermost : ~Abandoned(k) => Frames[k + 1] = Own(k)
         /\ \A k \in 0..Innermost : Abandoned(k) => Frames[k + 1] = Abstract!Failed
<1>1. /\ Len(Frames) = Innermost + 1
      /\ \A k \in 0..Innermost : Frames[k + 1] = FrameOf(k)
  BY FramesFn
<1>2. \A i \in 1..(Innermost + 1) : i - 1 \in 0..Innermost /\ (i - 1) + 1 = i
  BY Depths
<1>3. \A i \in 1..(Innermost + 1) : Frames[i] = FrameOf(i - 1)
  BY <1>1, <1>2
<1>4. Abstract!Failed.failed
  BY DEF Abstract!Failed
<1> QED
  BY <1>1, <1>2, <1>3, <1>4 DEF FrameOf

LEMMA ContextsAre ==
  ASSUME TypeOK
  PROVE  /\ Abstract!Top = Len(Frames)
         /\ Abstract!Contexts = {Frames[i] : i \in {j \in 1..Len(Frames) : ~Frames[j].failed}}
<1> DEFINE F == [i \in 1..(AbstractDepth + 1) |-> AbstractFrame(i - 1)]
<1>1. F = Frames
  BY Now
<1>2. /\ Abstract!Top = Len(F)
      /\ Abstract!Contexts = {F[i] : i \in {j \in 1..Len(F) : ~F[j].failed}}
  BY DEF Abstract!Top, Abstract!Contexts
<1> HIDE DEF F
<1> QED
  BY <1>1, <1>2

LEMMA InstallAbstract ==
  ASSUME TypeOK, TypeOK', ArenaInv, NEW c \in Costs, NEW h \in BOOLEAN, Install(c, h)
  PROVE  Abstract!Call
<1>0. tls \in Tls /\ calls \in Nat
  BY DEF TypeOK
<1>1. /\ Depth \in Nat /\ Depth' = Depth + 1 /\ Innermost = Depth /\ Innermost' = Depth + 1
      /\ \A i \in 0..Depth : ArenaOf(i)' = ArenaOf(i) /\ RegistryOf(i)' = RegistryOf(i)
      /\ \A k \in Nat : k = Depth + 1 => ArenaOf(k)' = calls' /\ RegistryOf(k)' = {}
  BY InstallMoves, Depths
<1>2. /\ \A i \in 1..Depth : stack'[i] = stack[i]
      /\ stack'[Depth + 1].saved = Context /\ stack'[Depth + 1].phase = "installed"
  <2>1. Pushed(h) /\ NewFrame(h).saved = Context /\ NewFrame(h).phase = "installed"
    BY InstallPushes DEF NewFrame
  <2> QED
    BY <2>1 DEF Pushed
<1>3. tls'.costs = c /\ tls'.blake = 0 /\ calls' = calls + 1 /\ outcome' = outcome
  BY <1>0 DEF Install, Tls
<1>4. \A i \in 0..Depth : /\ i # Depth + 1
                          /\ i # Depth => i + 1 \in 1..Depth
                          /\ i > 0 => i \in 1..Depth
  BY <1>1
<1>5. \A i \in 0..Depth : CostsOf(i)' = CostsOf(i) /\ BlakeOf(i)' = BlakeOf(i)
  BY <1>1, <1>2, <1>4 DEF CostsOf, BlakeOf, Context
<1>6. \A i \in 0..Depth : Abandoned(i)' = Abandoned(i)
  BY <1>2, <1>4 DEF Abandoned
<1>7. \A i \in 0..Depth : FrameOf(i)' = FrameOf(i)
  BY <1>1, <1>5, <1>6 DEF FrameOf, Own, Abstract!Failed
<1> DEFINE new == Abstract!Fresh(c, calls')
<1>8. PICK n \in Nat : n = Depth + 1
  BY <1>1
<1>9. FrameOf(n)' = new
  <2>1. CostsOf(n)' = c /\ BlakeOf(n)' = 0
    BY <1>1, <1>3, <1>8 DEF CostsOf, BlakeOf
  <2>2. ArenaOf(n)' = calls' /\ RegistryOf(n)' = {}
    BY <1>1, <1>8
  <2>3. ~Abandoned(n)'
    BY <1>2, <1>8 DEF Abandoned
  <2> QED
    BY <2>1, <2>2, <2>3 DEF FrameOf, Own, Abstract!Fresh
<1>10. Frames' = Append(Frames, new)
  <2>1. /\ Frames = [i \in 1..n |-> Frames[i]] /\ \A i \in 0..Depth : Frames[i + 1] = FrameOf(i)
    BY <1>1, <1>8, FramesFn
  <2>2. /\ Frames' = [i \in 1..(n + 1) |-> Frames'[i]]
        /\ \A i \in 0..n : Frames'[i + 1] = FrameOf(i)'
    BY <1>1, <1>8, NextFramesFn
  <2>3. \A i \in 1..n : i - 1 \in 0..Depth /\ i - 1 \in 0..n /\ (i - 1) + 1 = i
    BY <1>1, <1>8
  <2>4. \A i \in 1..n : Frames'[i] = Frames[i]
    <3> SUFFICES ASSUME NEW i \in 1..n PROVE Frames'[i] = Frames[i]
      OBVIOUS
    <3> DEFINE k == i - 1
    <3>1. k \in 0..Depth /\ k \in 0..n /\ k + 1 = i
      BY <2>3
    <3> HIDE DEF k
    <3>2. Frames'[k + 1] = FrameOf(k)' /\ Frames[k + 1] = FrameOf(k) /\ FrameOf(k)' = FrameOf(k)
      BY <1>7, <2>1, <2>2, <3>1
    <3> QED
      BY <3>1, <3>2
  <2>5. Frames'[n + 1] = new
    <3>1. n \in 0..n
      OBVIOUS
    <3> QED
      BY <1>9, <2>2, <3>1
  <2> HIDE DEF new
  <2> QED
    BY <1>8, <2>1, <2>2, <2>4, <2>5, FnAppend
<1>11. calls' \in Arenas
  BY <1>0, <1>3 DEF TypeOK, Arenas
<1>12. \A i \in 1..Len(Frames) : ~Frames[i].failed => Frames[i].arena # calls'
  <2>1. \A k \in 0..Innermost : Own(k).arena # calls'
    BY <1>0, <1>1, <1>3 DEF Own, ArenaInv
  <2> QED
    BY <2>1, RunningFrames
<1> HIDE DEF new
<1>13. /\ \E cc \in Costs, a \in Arenas \ {f.arena : f \in
             {Frames[i] : i \in {j \in 1..Len(Frames) : ~Frames[j].failed}}} :
           Frames' = Append(Frames, Abstract!Fresh(cc, a))
       /\ UNCHANGED outcome
  BY <1>3, <1>10, <1>11, <1>12 DEF new
<1> QED
  BY <1>13, Mapping, ContextsAre DEF Abstract!Call

\* The frames below stay, the innermost one changes to v.
LEMMA TopReplacedAbstract ==
  ASSUME TypeOK, TypeOK', Innermost' = Innermost, NEW v,
         \A i \in 0..(Innermost - 1) : FrameOf(i)' = FrameOf(i),
         \A i \in 0..Innermost : i = Innermost => FrameOf(i)' = v
  PROVE  Frames' = [Frames EXCEPT ![Len(Frames)] = v]
<1> DEFINE n == Innermost + 1
<1>1. /\ Frames = [i \in 1..n |-> Frames[i]] /\ Len(Frames) = n
      /\ \A i \in 0..Innermost : Frames[i + 1] = FrameOf(i)
  BY FramesFn
<1>2. /\ Frames' = [i \in 1..n |-> Frames'[i]]
      /\ \A i \in 0..Innermost : Frames'[i + 1] = FrameOf(i)'
  BY NextFramesFn
<1>3. \A i \in 1..n : /\ i - 1 \in 0..Innermost /\ (i - 1) + 1 = i
                      /\ (i = n <=> i - 1 = Innermost)
                      /\ (i # n => i - 1 \in 0..(Innermost - 1))
  BY Depths
<1>4. \A i \in 1..n : Frames'[i] = IF i = n THEN v ELSE Frames[i]
  <2> SUFFICES ASSUME NEW i \in 1..n PROVE Frames'[i] = IF i = n THEN v ELSE Frames[i]
    OBVIOUS
  <2> DEFINE k == i - 1
  <2>1. /\ k \in 0..Innermost /\ k + 1 = i /\ (i = n <=> k = Innermost)
        /\ (i # n => k \in 0..(Innermost - 1))
    BY <1>3
  <2> HIDE DEF k, n
  <2> QED
    BY <1>1, <1>2, <2>1
<1> HIDE DEF n
<1>5. Frames' = [i \in 1..n |-> IF i = n THEN v ELSE Frames[i]]
  BY <1>2, <1>4
<1> QED
  BY <1>1, <1>5

LEMMA BlakeAbstract ==
  ASSUME TypeOK, TypeOK', BlakeCompress
  PROVE  Abstract!Blake
<1>0. tls \in Tls /\ Depth \in Nat
  BY Depths DEF TypeOK
<1>1. /\ Depth > 0 /\ Innermost = Depth /\ Innermost' = Depth
      /\ \A i \in 0..Depth : ArenaOf(i)' = ArenaOf(i) /\ RegistryOf(i)' = RegistryOf(i)
  <2>1. Runtime /\ ~RegisterDict
    BY <1>0 DEF Runtime, BlakeCompress, RegisterDict, Sane, Tls
  <2> QED
    BY <2>1, RuntimeKeeps
<1>2. /\ tls'.costs = tls.costs /\ tls'.blake = tls.blake + 1 /\ outcome' = outcome
      /\ stack' = stack /\ Top.phase = "running"
  BY <1>0 DEF BlakeCompress, InPhase, Tls
<1>3. \A i \in 0..Depth : Abandoned(i)' = Abandoned(i)
  BY <1>2, SameStack
<1>4. \A i \in 0..(Depth - 1) : i # Depth /\ i \in 0..Depth
  BY <1>0
<1>5. \A i \in 0..(Depth - 1) : FrameOf(i)' = FrameOf(i)
  BY <1>1, <1>2, <1>3, <1>4 DEF FrameOf, Own, Abstract!Failed, CostsOf, BlakeOf
<1>6. PICK n \in 0..Depth : n = Depth
  BY <1>0
<1>7. ~Abandoned(n) /\ ~Abandoned(n)'
  BY <1>2, <1>3, <1>6 DEF Abandoned, Top
<1> DEFINE v == [Own(n) EXCEPT !.blake = @ + 1]
<1>8. FrameOf(n)' = v
  <2>1. CostsOf(n)' = CostsOf(n) /\ BlakeOf(n)' = BlakeOf(n) + 1
    BY <1>1, <1>2, <1>6 DEF CostsOf, BlakeOf
  <2>2. ArenaOf(n)' = ArenaOf(n) /\ RegistryOf(n)' = RegistryOf(n)
    BY <1>1
  <2>3. FrameOf(n)' = Own(n)'
    BY <1>7 DEF FrameOf
  <2>4. Own(n)' = [failed |-> FALSE, costs |-> CostsOf(n), blake |-> BlakeOf(n) + 1,
                     arena |-> ArenaOf(n), dicts |-> RegistryOf(n)]
    BY <2>1, <2>2 DEF Own
  <2>5. v = [failed |-> FALSE, costs |-> CostsOf(n), blake |-> BlakeOf(n) + 1, arena |-> ArenaOf(n),
                 dicts |-> RegistryOf(n)]
    <3>1. PICK x : x = FALSE
      OBVIOUS
    <3>2. [[failed |-> x, costs |-> CostsOf(n), blake |-> BlakeOf(n), arena |-> ArenaOf(n),
            dicts |-> RegistryOf(n)] EXCEPT !.blake = @ + 1]
            = [failed |-> x, costs |-> CostsOf(n), blake |-> BlakeOf(n) + 1,
               arena |-> ArenaOf(n), dicts |-> RegistryOf(n)]
      OBVIOUS
    <3> QED
      BY <3>1, <3>2 DEF Own
  <2> QED
    BY <2>3, <2>4, <2>5
<1>9. Len(Frames) = Depth + 1 /\ Frames[Len(Frames)] = Own(n)
  BY <1>1, <1>6, <1>7, FramesFn, RunningFrames
<1> HIDE DEF v
<1>10. Frames' = [Frames EXCEPT ![Len(Frames)] = v]
  BY <1>1, <1>5, <1>6, <1>8, TopReplacedAbstract
<1>11. Frames' = [Frames EXCEPT ![Len(Frames)].blake = @ + 1]
  BY <1>9, <1>10 DEF v
<1>12. Len(Frames) > 1 /\ ~Frames[Len(Frames)].failed
  BY <1>0, <1>1, <1>9 DEF Own
<1> QED
  BY <1>2, <1>11, <1>12, Mapping, ContextsAre DEF Abstract!Blake, Abstract!Running

LEMMA RegisterDictAbstract ==
  ASSUME TypeOK, TypeOK', DictInv, RegisterDict
  PROVE  Abstract!NewDict
<1>0. tls \in Tls /\ Depth \in Nat
  BY Depths DEF TypeOK
<1>1. /\ Depth > 0 /\ Innermost = Depth /\ Innermost' = Depth
      /\ \A i \in 0..Depth : ArenaOf(i)' = ArenaOf(i)
      /\ \A i \in 0..Depth :
           RegistryOf(i)' = RegistryOf(i) \cup (IF i = Depth THEN {Len(dicts)} ELSE {})
  BY RuntimeKeeps DEF Runtime
<1>2. /\ tls'.costs = tls.costs /\ tls'.blake = tls.blake /\ outcome' = outcome
      /\ stack' = stack /\ Top.phase # "unwinding" /\ tls.cell = "registry"
  BY <1>0 DEF RegisterDict, Allocating, InPhase, Tls
<1>3. \A i \in 0..Depth : Abandoned(i)' = Abandoned(i)
  BY <1>2, SameStack
<1>4. \A i \in 0..(Depth - 1) : i # Depth /\ i \in 0..Depth
  BY <1>0
<1>5. \A i \in 0..(Depth - 1) : FrameOf(i)' = FrameOf(i)
  <2>1. \A i \in 0..(Depth - 1) : RegistryOf(i)' = RegistryOf(i)
    BY <1>1, <1>4
  <2> QED
    BY <1>1, <1>2, <1>3, <1>4, <2>1 DEF FrameOf, Own, Abstract!Failed, CostsOf, BlakeOf
<1>6. PICK n \in 0..Depth : n = Depth
  BY <1>0
<1>7. ~Abandoned(n) /\ ~Abandoned(n)'
  BY <1>2, <1>3, <1>6 DEF Abandoned, Top
<1>8. PICK d : d = Len(dicts)
  OBVIOUS
<1> DEFINE v == [Own(n) EXCEPT !.dicts = @ \cup {d}]
<1>9. FrameOf(n)' = v
  <2>1. CostsOf(n)' = CostsOf(n) /\ BlakeOf(n)' = BlakeOf(n)
    BY <1>1, <1>2, <1>6 DEF CostsOf, BlakeOf
  <2>2. ArenaOf(n)' = ArenaOf(n) /\ RegistryOf(n)' = RegistryOf(n) \cup {d}
    BY <1>1, <1>6, <1>8
  <2>3. FrameOf(n)' = Own(n)'
    BY <1>7 DEF FrameOf
  <2>4. Own(n)' = [failed |-> FALSE, costs |-> CostsOf(n), blake |-> BlakeOf(n),
                     arena |-> ArenaOf(n), dicts |-> RegistryOf(n) \cup {d}]
    BY <2>1, <2>2 DEF Own
  <2>5. v = [failed |-> FALSE, costs |-> CostsOf(n), blake |-> BlakeOf(n), arena |-> ArenaOf(n),
                 dicts |-> RegistryOf(n) \cup {d}]
    <3>1. PICK x : x = FALSE
      OBVIOUS
    <3>2. [[failed |-> x, costs |-> CostsOf(n), blake |-> BlakeOf(n), arena |-> ArenaOf(n),
            dicts |-> RegistryOf(n)] EXCEPT !.dicts = @ \cup {d}]
            = [failed |-> x, costs |-> CostsOf(n), blake |-> BlakeOf(n),
               arena |-> ArenaOf(n), dicts |-> RegistryOf(n) \cup {d}]
      OBVIOUS
    <3> QED
      BY <3>1, <3>2 DEF Own
  <2> QED
    BY <2>3, <2>4, <2>5
<1>10. Len(Frames) = Depth + 1 /\ Frames[Len(Frames)] = Own(n)
  BY <1>1, <1>6, <1>7, FramesFn, RunningFrames
<1>11. d \in DictIds
  <2>1. Len(dicts) \in Nat /\ Len(dicts) <= MaxDicts /\ Len(dicts) > 0
    BY <1>2 DEF TypeOK, DictInv, Pending
  <2> QED
    BY <1>8, <2>1, BoundsAssumption DEF DictIds
<1>12. \A i \in 1..Len(Frames) : ~Frames[i].failed => d \notin Frames[i].dicts
  <2>1. \A k \in 0..Innermost : d \notin RegistryOf(k)
    BY <1>1, <1>2, <1>8 DEF DictInv, Pending
  <2>2. \A k \in 0..Innermost : d \notin Own(k).dicts
    BY <2>1 DEF Own
  <2> QED
    BY <2>2, RunningFrames
<1> HIDE DEF v
<1>13. Frames' = [Frames EXCEPT ![Len(Frames)] = v]
  BY <1>1, <1>5, <1>6, <1>9, TopReplacedAbstract
<1>14. Frames' = [Frames EXCEPT ![Len(Frames)].dicts = @ \cup {d}]
  BY <1>10, <1>13 DEF v
<1>15. Len(Frames) > 1 /\ ~Frames[Len(Frames)].failed
  BY <1>0, <1>1, <1>10 DEF Own
<1>16. d \notin UNION {f.dicts : f \in
             {Frames[i] : i \in {j \in 1..Len(Frames) : ~Frames[j].failed}}}
  BY <1>12
<1>17. d \in DictIds \ UNION {f.dicts : f \in Abstract!Contexts}
  BY <1>11, <1>16, ContextsAre
<1> QED
  BY <1>2, <1>14, <1>15, <1>17, Mapping, ContextsAre DEF Abstract!NewDict, Abstract!Running

\* The invocation at j is abandoned, those above it are gone.
LEMMA CutAbstract ==
  ASSUME TypeOK, TypeOK', NEW j \in 1..Innermost, Innermost' = j,
         \A i \in 0..(j - 1) : FrameOf(i)' = FrameOf(i),
         FrameOf(j)' = Abstract!Failed, outcome' = outcome
  PROVE  Abstract!Fail
<1> DEFINE low == [i \in 1..j |-> Frames[i]]
           failed == Abstract!Failed
<1>0. Innermost \in Nat /\ j \in Nat /\ j <= Innermost + 1
  BY Depths
<1>1. /\ Frames = [i \in 1..(Innermost + 1) |-> Frames[i]] /\ Len(Frames) = Innermost + 1
      /\ \A i \in 0..Innermost : Frames[i + 1] = FrameOf(i)
  BY FramesFn
<1>2. /\ Frames' = [i \in 1..(j + 1) |-> Frames'[i]]
      /\ \A i \in 0..j : Frames'[i + 1] = FrameOf(i)'
  BY NextFramesFn
<1>3. /\ low = [i \in 1..j |-> low[i]] /\ \A i \in 1..j : low[i] = Frames[i]
  OBVIOUS
<1> HIDE DEF low
<1>4. low = SubSeq(Frames, 1, j)
  <2> DEFINE n == Innermost + 1
             f == Frames
  <2>1. n \in Nat /\ j \in Nat /\ j <= n /\ f = [i \in 1..n |-> f[i]]
    BY <1>0, <1>1
  <2>2. low = [i \in 1..j |-> low[i]] /\ \A i \in 1..j : low[i] = f[i]
    BY <1>3
  <2> HIDE DEF n, f
  <2>3. low = SubSeq(f, 1, j)
    BY ONLY <2>1, <2>2, FnPrefix, ZenonT(60)
  <2> QED
    BY <2>3 DEF f
<1>5. \A i \in 1..j : Frames'[i] = low[i]
  <2> SUFFICES ASSUME NEW i \in 1..j PROVE Frames'[i] = low[i]
    OBVIOUS
  <2> DEFINE k == i - 1
  <2>1. k \in 0..(j - 1) /\ k \in 0..j /\ k \in 0..Innermost /\ k + 1 = i
    BY <1>0
  <2> HIDE DEF k
  <2>2. Frames'[k + 1] = Frames[k + 1]
    BY <1>1, <1>2, <2>1
  <2> QED
    BY <1>3, <2>1, <2>2
<1>6. Frames'[j + 1] = failed
  <2>1. j \in 0..j
    BY <1>0
  <2> QED
    BY <1>2, <2>1
<1> HIDE DEF failed
<1>7. Frames' = Append(low, failed)
  BY <1>0, <1>2, <1>3, <1>5, <1>6, FnAppend
<1>8. j + 1 \in 2..Len(Frames) /\ (j + 1) - 1 = j
  BY <1>0, <1>1
<1>9. \E i \in 2..Len(Frames) : Frames' = Append(SubSeq(Frames, 1, i - 1), Abstract!Failed)
  BY <1>4, <1>7, <1>8 DEF failed
<1> QED
  BY <1>9, Mapping, ContextsAre DEF Abstract!Fail

LEMMA HostErrorAbstract ==
  ASSUME TypeOK, TypeOK', HostError
  PROVE  Abstract!Fail
<1>0. Depth \in Nat /\ Depth > 0 /\ ~Dropping /\ Innermost = Depth
  BY Depths DEF HostError, InPhase, Dropping
<1>1. TopUpdated /\ stack'[Depth].phase = "unwinding"
  BY GoToUpdates DEF HostError, InPhase, Phases
<1>2. /\ Innermost' = Innermost /\ \A i \in 0..Depth : ArenaOf(i)' = ArenaOf(i)
      /\ \A i \in 0..Innermost : RegistryOf(i)' = RegistryOf(i)
  BY CalmKeepsRegistries
<1>3. outcome' = outcome /\ tls' = tls
  BY DEF HostError
<1>4. \A i \in 0..Depth : CostsOf(i)' = CostsOf(i) /\ BlakeOf(i)' = BlakeOf(i)
  BY <1>0, <1>1, <1>2, <1>3, CountersKept
<1>5. \A i \in 0..(Depth - 1) : i \in 0..Depth /\ (i > 0 => i \in 1..Depth /\ i < Depth)
  BY <1>0
<1>6. \A i \in 0..(Depth - 1) : Abandoned(i)' = Abandoned(i)
  BY <1>1, <1>5 DEF TopUpdated, Abandoned
<1>7. \A i \in 0..(Depth - 1) : FrameOf(i)' = FrameOf(i)
  BY <1>0, <1>2, <1>4, <1>5, <1>6 DEF FrameOf, Own, Abstract!Failed
<1>8. PICK j \in 1..Depth : j = Depth
  BY <1>0
<1>9. FrameOf(j)' = Abstract!Failed
  BY <1>1, <1>8 DEF FrameOf, Abandoned, Abstract!Failed
<1> QED
  BY <1>0, <1>2, <1>3, <1>7, <1>8, <1>9, CutAbstract

LEMMA SegfaultAbstract ==
  ASSUME TypeOK, TypeOK', RunnerInv, Segfault
  PROVE  Abstract!Fail
<1>0. tls \in Tls /\ Depth \in Nat
  BY Depths DEF TypeOK
<1>1. PICK j \in 1..Innermost : j = tls.runner
  BY SegfaultMoves
<1>2. /\ CutTo(j) /\ Innermost \in 1..Depth /\ Innermost' = j
      /\ \A i \in 0..(j - 1) : ArenaOf(i)' = ArenaOf(i) /\ RegistryOf(i)' = RegistryOf(i)
  BY <1>1, SegfaultMoves, SegfaultCuts
<1>3. outcome' = outcome
  BY DEF Segfault
<1>4. \A i \in 0..(j - 1) : /\ i # Depth /\ i # Innermost /\ i # j
                            /\ i + 1 \in 1..j /\ i + 1 <= Depth
                            /\ (i + 1 # j => i + 1 \in 1..(j - 1))
                            /\ (i > 0 => i \in 1..(j - 1))
  BY <1>0, <1>1, <1>2
<1>5. \A i \in 0..(j - 1) : stack'[i + 1].saved = stack[i + 1].saved
  BY <1>2, <1>4 DEF CutTo
<1>6. \A i \in 0..(j - 1) : CostsOf(i)' = CostsOf(i) /\ BlakeOf(i)' = BlakeOf(i)
  BY <1>2, <1>4, <1>5 DEF CostsOf, BlakeOf
<1>7. \A i \in 0..(j - 1) : Abandoned(i)' = Abandoned(i)
  BY <1>2, <1>4 DEF Abandoned, CutTo
<1>8. \A i \in 0..(j - 1) : FrameOf(i)' = FrameOf(i)
  BY <1>2, <1>6, <1>7 DEF FrameOf, Own, Abstract!Failed
<1>9. FrameOf(j)' = Abstract!Failed
  BY <1>1, <1>2 DEF CutTo, FrameOf, Abandoned, Abstract!Failed
<1> QED
  BY <1>0, <1>1, <1>2, <1>3, <1>8, <1>9, CutAbstract

\* What the guard of an ended invocation will report is its own counter.
ResultInv == InPhase("ended") => Top.result = tls.blake

LEMMA ResultStep ==
  ASSUME TypeOK, RunnerInv, ResultInv, [Next]_vars
  PROVE  ResultInv'
<1> SUFFICES ASSUME InPhase("ended")' PROVE Top'.result = tls'.blake
  BY DEF ResultInv
<1>0. tls \in Tls /\ Depth \in Nat /\ Top' = stack'[Depth']
      /\ Depth' > 0 /\ stack'[Depth'].phase = "ended"
  BY Depths DEF TypeOK, Top, InPhase
<1>1. ASSUME NEW c \in Costs, NEW h \in BOOLEAN, Install(c, h) PROVE FALSE
  <2>1. Pushed(h) /\ NewFrame(h).phase = "installed"
    BY <1>1, InstallPushes DEF NewFrame
  <2> QED
    BY <1>0, <2>1 DEF Pushed
<1>2. CASE EnterSafely
  BY <1>0, <1>2, EnterSafelyUpdates DEF TopUpdated
<1>3. CASE HostError
  BY <1>0, <1>3, GoToUpdates DEF HostError, InPhase, Phases, TopUpdated
<1>4. CASE ReturnFromCode
  BY <1>0, <1>4, GoToUpdates DEF ReturnFromCode, InPhase, Phases, TopUpdated
<1>5. CASE DropDicts
  BY <1>0, <1>5, GoToUpdates DEF DropDicts, DroppingGuard, InPhase, Phases, TopUpdated
<1>6. CASE Segfault
  BY <1>0, <1>6, SegfaultCuts DEF CutTo
<1>7. CASE DropArena
  <2>1. Depth' = Depth - 1 /\ \A i \in 1..(Depth - 1) : stack'[i] = stack[i]
    BY <1>7, DropArenaPops
  <2>2. Depth' \in 1..(Depth - 1) /\ Depth' \in 1..Depth /\ Depth' < Depth
    BY <1>0, <2>1
  <2>3. stack'[Depth'].phase = "running"
    BY <2>1, <2>2 DEF RunnerInv
  <2> QED
    BY <1>0, <2>3
<1>8. CASE ReadResults
  <2>1. Depth' = Depth /\ Depth > 0
    BY <1>8, ReadResultsUpdates DEF TopUpdated, ReadResults, InPhase
  <2>2. stack' = [stack EXCEPT ![Depth].phase = "ended", ![Depth].result = tls.blake]
        /\ tls' = tls
    BY <1>8 DEF ReadResults
  <2>3. stack'[Depth].result = tls.blake
    <3>1. Top \in Frame /\ Depth \in DOMAIN stack
      BY <2>1, TopTyped DEF TypeOK, Depth
    <3> QED
      BY <2>2, <3>1 DEF Frame, Top
  <2> QED
    BY <1>0, <2>1, <2>2, <2>3
<1>9. CASE Quiet
  <2>1. stack' = stack /\ Depth' = Depth
    BY <1>9, QuietKeeps
  <2>2. InPhase("ended") /\ Top' = Top
    BY <1>0, <2>1 DEF InPhase, Top
  <2>3. tls'.blake = tls.blake
    BY <1>0, <1>9, <2>2
    DEF Quiet, BlakeCompress, BorrowArena, EndAlloc, DictInArena, BorrowRegistry, RegisterDict,
        Filling, FillMap, SegfaultOutside, DropPanics, Tls, InPhase
  <2> QED
    BY <2>2, <2>3 DEF ResultInv
<1>10. CASE UNCHANGED vars
  BY <1>10 DEF ResultInv, vars, InPhase, Top, Depth
<1> QED
  BY <1>1, <1>2, <1>3, <1>4, <1>5, <1>6, <1>7, <1>8, <1>9, <1>10, NextCases

\* Its dictionaries dropped, the invocation is over.
LEMMA DropDictsAbstract ==
  ASSUME TypeOK, TypeOK', RunnerInv, ResultInv, DropDicts
  PROVE  Abstract!Return \/ Abstract!ReturnError
<1>0. tls \in Tls /\ Depth \in Nat
  BY Depths DEF TypeOK
<1>1. /\ Depth > 0 /\ Depth' = Depth /\ Innermost = Depth /\ Innermost' = Depth - 1
      /\ \A i \in 0..Depth : ArenaOf(i)' = ArenaOf(i)
      /\ \A i \in 0..(Depth - 1) : RegistryOf(i)' = RegistryOf(i)
  BY DropDictsMoves
<1>2. TopUpdated
  BY GoToUpdates DEF DropDicts, DroppingGuard, InPhase, Phases
<1>3. /\ tls'.costs = stack[Depth].saved.costs /\ tls'.blake = stack[Depth].saved.blake
  BY <1>0 DEF DropDicts, Tls, Top
<1>4. \A i \in 0..(Depth - 1) : /\ i \in 0..Depth /\ i # Depth /\ i + 1 \in 1..Depth
                                /\ (i = Depth - 1 => i + 1 = Depth)
                                /\ (i > 0 => i \in 1..Depth /\ i < Depth)
  BY <1>0
<1>5. \A i \in 0..(Depth - 1) : CostsOf(i)' = CostsOf(i) /\ BlakeOf(i)' = BlakeOf(i)
  <2>1. \A i \in 0..(Depth - 1) : stack'[i + 1].saved = stack[i + 1].saved
    BY <1>2, <1>4 DEF TopUpdated
  <2> QED
    BY <1>1, <1>3, <1>4, <2>1 DEF CostsOf, BlakeOf
<1>6. \A i \in 0..(Depth - 1) : Abandoned(i)' = Abandoned(i)
  BY <1>2, <1>4 DEF Abandoned, TopUpdated
<1>7. \A i \in 0..(Depth - 1) : FrameOf(i)' = FrameOf(i)
  BY <1>1, <1>4, <1>5, <1>6 DEF FrameOf, Own, Abstract!Failed
<1>8. Len(Frames) = Depth + 1 /\ Len(Frames) - 1 = Depth /\ Len(Frames) > 1
  BY <1>0, <1>1, FramesFn
<1>9. Frames' = SubSeq(Frames, 1, Len(Frames) - 1)
  <2> DEFINE n == Depth + 1
             f == Frames
             g == Frames'
  <2>1. n \in Nat /\ Depth \in Nat /\ Depth <= n /\ f = [i \in 1..n |-> f[i]]
    BY <1>0, <1>1, FramesFn
  <2>2. g = [i \in 1..Depth |-> g[i]]
    <3>1. (Depth - 1) + 1 = Depth
      BY <1>0
    <3> QED
      BY <1>1, <3>1, NextFramesFn
  <2>3. \A i \in 1..Depth : g[i] = f[i]
    <3> SUFFICES ASSUME NEW i \in 1..Depth PROVE g[i] = f[i]
      OBVIOUS
    <3> DEFINE k == i - 1
    <3>1. k \in 0..(Depth - 1) /\ k \in 0..Depth /\ k + 1 = i
      BY <1>0
    <3> HIDE DEF k
    <3>2. Frames'[k + 1] = FrameOf(k)' /\ Frames[k + 1] = FrameOf(k)
      BY <1>1, <3>1, FramesFn, NextFramesFn
    <3> QED
      BY <1>7, <3>1, <3>2
  <2> HIDE DEF n, f, g
  <2>4. g = SubSeq(f, 1, Depth)
    BY ONLY <2>1, <2>2, <2>3, FnPrefix, ZenonT(60)
  <2> QED
    BY <1>8, <2>4 DEF f, g
<1>10. PICK n \in 0..Depth : n = Depth
  BY <1>0
<1>11. CASE Top.phase = "ended"
  <2>1. ~Abandoned(n)
    BY <1>10, <1>11 DEF Abandoned, Top
  <2>2. Frames[Len(Frames)] = Own(n)
    BY <1>1, <1>8, <1>10, <2>1, RunningFrames
  <2>3. Own(n).blake = tls.blake /\ ~Own(n).failed
    BY <1>1, <1>10 DEF Own, BlakeOf
  <2>4. Top.result = tls.blake
    BY <1>1, <1>11 DEF ResultInv, InPhase
  <2>5. outcome' = Abstract!Success(Frames[Len(Frames)].blake)
    BY <1>11, <2>2, <2>3, <2>4 DEF DropDicts, Ok, Abstract!Success
  <2>6. Abstract!Return
    BY <1>8, <1>9, <2>2, <2>3, <2>5, Mapping, ContextsAre DEF Abstract!Return, Abstract!Running
  <2> QED
    BY <2>6
<1>12. CASE Top.phase = "unwinding"
  <2>1. Abandoned(n)
    BY <1>1, <1>10, <1>12 DEF Abandoned, Top
  <2>2. Frames[Len(Frames)] = Abstract!Failed
    BY <1>1, <1>8, <1>10, <2>1, RunningFrames
  <2>3. Frames[Len(Frames)].failed
    BY <2>2 DEF Abstract!Failed
  <2>4. outcome' = Abstract!Error
    BY <1>12 DEF DropDicts, Err, Abstract!Error
  <2>5. Abstract!ReturnError
    BY <1>8, <1>9, <2>3, <2>4, Mapping, ContextsAre DEF Abstract!ReturnError
  <2> QED
    BY <2>5
<1> QED
  BY <1>11, <1>12 DEF DropDicts, DroppingGuard, InPhase

-----------------------------------------------------------------------------
(* The refinement. *)

LEMMA InitAbstract == ASSUME Init PROVE Abstract!Init
<1>1. /\ tls = [costs |-> DefaultCosts, blake |-> 0, arena |-> 0, registry |-> {},
                handler |-> 0, runner |-> 0, cell |-> "free"]
      /\ Depth = 0 /\ outcome = Err
  BY DEF Init, Depth
<1>2. TypeOK
  BY TypeInit
<1>3. Innermost = 0 /\ ~Dropping
  BY <1>1 DEF Innermost, Dropping, InPhase
<1>4. FrameOf(0) = Abstract!Fresh(DefaultCosts, 0)
  BY <1>1, <1>3
  DEF FrameOf, Abandoned, Own, CostsOf, BlakeOf, ArenaOf, RegistryOf, Abstract!Fresh
<1> DEFINE new == Abstract!Fresh(DefaultCosts, 0)
<1>5. Frames = [i \in 1..1 |-> new]
  <2>1. \A i \in 1..1 : i - 1 = 0
    OBVIOUS
  <2> QED
    BY <1>3, <1>4, <2>1 DEF Frames
<1> HIDE DEF new
<1>6. Frames = <<new>>
  BY <1>5
<1>7. \E c \in Costs, a \in Arenas : Frames = <<Abstract!Fresh(c, a)>>
  <2>1. DefaultCosts \in Costs /\ 0 \in Arenas
    BY CostsAssumption, BoundsAssumption DEF Arenas
  <2> QED
    BY <1>6, <2>1 DEF new
<1> QED
  BY <1>1, <1>2, <1>7, Now DEF Abstract!Init, Abstract!Error, Err

\* Every step of the code is a step of the abstraction or invisible to it.
LEMMA StepAbstract ==
  ASSUME IInv, ResultInv, [Next]_vars
  PROVE  [Abstract!Next]_(Abstract!vars)
<1>0. TypeOK /\ TypeOK' /\ RunnerInv /\ ArenaInv /\ DictInv
  BY IInvStep DEF IInv
<1>1. ASSUME NEW c \in Costs, NEW h \in BOOLEAN, Install(c, h) PROVE Abstract!Next
  BY <1>0, <1>1, InstallAbstract DEF Abstract!Next
<1>2. CASE BlakeCompress
  BY <1>0, <1>2, BlakeAbstract DEF Abstract!Next
<1>3. CASE RegisterDict
  BY <1>0, <1>3, RegisterDictAbstract DEF Abstract!Next
<1>4. CASE HostError \/ Segfault
  BY <1>0, <1>4, HostErrorAbstract, SegfaultAbstract DEF Abstract!Next
<1>5. CASE DropDicts
  BY <1>0, <1>5, DropDictsAbstract DEF Abstract!Next
<1>6. CASE \/ EnterSafely \/ ReturnFromCode \/ ReadResults \/ SegfaultOutside \/ DropPanics
           \/ UNCHANGED vars \/ BorrowArena \/ EndAlloc \/ DictInArena \/ BorrowRegistry
           \/ Filling \/ DropArena
  <2>1. Frames' = Frames /\ outcome' = outcome
    BY <1>0, <1>6, CalmAbstract, AllocAbstract, DropArenaAbstract
  <2> QED
    BY <1>0, <2>1, Mapping DEF Abstract!vars
<1> QED
  BY <1>1, <1>2, <1>3, <1>4, <1>5, <1>6, NextCases DEF Quiet

\* Nested invocations are isolated (InvocationGuard): whatever an invocation's callees do,
\* and however they end, it continues with its own costs, counter, arena and dictionaries.
THEOREM InvocationsIsolated == Spec => Isolated
<1>1. Init => ResultInv
  BY DEF Init, ResultInv, InPhase, Depth
<1>2. IInv /\ ResultInv /\ [Next]_vars => ResultInv'
  BY ResultStep DEF IInv
<1>3. Spec => []ResultInv
  BY <1>1, <1>2, Inductive, PTL DEF Spec
<1>4. Init => Abstract!Init
  BY InitAbstract
<1>5. IInv /\ ResultInv /\ [Next]_vars => [Abstract!Next]_(Abstract!vars)
  BY StepAbstract
<1> QED
  BY <1>3, <1>4, <1>5, Inductive, PTL DEF Spec, Isolated, Abstract!Spec
=============================================================================
