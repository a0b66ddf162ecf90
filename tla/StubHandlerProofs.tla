------------------------- MODULE StubHandlerProofs -------------------------
(***************************************************************************)
(* For any contracts, classes, gas and depth of calls: the execution       *)
(* context is always that of the innermost contract that opened one, so    *)
(* that contracts write their own storage only; calls never create gas;    *)
(* and only declared classes are registered.                               *)
(***************************************************************************)
EXTENDS StubHandler, SequenceTheorems, TLAPS

Contexts == [contract : Addresses, caller : Addresses]

Frames == [kind : {"host", "call", "deploy", "library"},
           self : Addresses \cup {None}, caller : Addresses \cup {None},
           gas : Nat, before : Nat,
           old : Contexts \cup {None}, address : Addresses \cup {None}]

\* Frame j owns the context when frame n is the innermost one.
OwnsAt(fs, n, j) ==
  /\ j \in 1..n
  /\ fs[j].kind # "library"
  /\ \A m \in 1..n : m > j => fs[m].kind = "library"

\* Context c is what frame n, as the innermost one, should find.
ContextAt(fs, n, c) ==
  \E j \in 1..n : OwnsAt(fs, n, j) /\ c = [contract |-> fs[j].self, caller |-> fs[j].caller]

\* The stack carries in old, frame by frame, the context that is to come back.
ContextsChain(fs, c) ==
  /\ Len(fs) > 0 => ContextAt(fs, Len(fs), c)
  /\ \A i \in 2..Len(fs) : fs[i].kind # "library" => ContextAt(fs, i - 1, fs[i].old)

OwnersNamed(fs) ==
  \A i \in 1..Len(fs) : fs[i].kind # "library" => fs[i].self \in Addresses /\ fs[i].caller \in Addresses

GasShrinks(fs) ==
  \A i \in 1..Len(fs) : /\ fs[i].gas <= fs[i].before
                        /\ i > 1 => fs[i].before <= fs[i - 1].before

FramesInv(fs, c) ==
  /\ fs \in Seq(Frames)
  /\ c \in Contexts
  /\ OwnersNamed(fs)
  /\ ContextsChain(fs, c)
  /\ GasShrinks(fs)

WorldInv ==
  /\ storage \in [Addresses -> [Keys -> Values \cup {0}]]
  /\ deployed \in [Addresses -> DOMAIN Declared \cup {None}]
  /\ logs \in [Addresses -> [events : Seq(Values), messages : Seq(Values)]]
  /\ blockHash \in BOOLEAN /\ executor \in BOOLEAN

\* What holds until an expect fails.
Live ==
  /\ FramesInv(frames, context)
  /\ WorldInv
  /\ made \in Nat
  /\ aborted = FALSE

\* An expect failed: the stack stays as it was, with the callee's context open or not.
Gone ==
  /\ aborted = TRUE
  /\ frames \in Seq(Frames) /\ frames # <<>>
  /\ GasShrinks(frames)
  /\ context \in Contexts
  /\ WorldInv
  /\ made \in Nat

\* The inductive invariant.
IInv == Live \/ Gone

-----------------------------------------------------------------------------
(* The frames, whatever the handler does to them.                          *)

\* The owner is determined: Owner's CHOOSE has one value to choose.
LEMMA OwnerIsOwner ==
  ASSUME NEW fs \in Seq(Frames), NEW j, OwnsAt(fs, Len(fs), j)
  PROVE  Owner(fs) = j
<1> DEFINE P(i) == /\ fs[i].kind # "library"
                   /\ \A m \in DOMAIN fs : m > i => fs[m].kind = "library"
<1>1. j \in DOMAIN fs /\ P(j)
  BY DEF OwnsAt
<1>2. ASSUME NEW i \in DOMAIN fs, P(i)
      PROVE  i = j
  <2>1. i \in 1..Len(fs) /\ j \in 1..Len(fs) /\ Len(fs) \in Nat
    BY <1>1
  <2>2. ~(i > j) /\ ~(j > i)
    BY <1>1, <1>2, <2>1
  <2> QED
    BY <2>1, <2>2
<1>3. Owner(fs) \in DOMAIN fs /\ P(Owner(fs))
  BY <1>1 DEF Owner
<1> QED
  BY <1>2, <1>3

LEMMA OwnsContext ==
  ASSUME NEW fs, NEW c, FramesInv(fs, c), Len(fs) > 0
  PROVE  /\ Owner(fs) \in 1..Len(fs)
         /\ OwnsAt(fs, Len(fs), Owner(fs))
         /\ c = [contract |-> fs[Owner(fs)].self, caller |-> fs[Owner(fs)].caller]
<1>1. PICK j \in 1..Len(fs) : /\ OwnsAt(fs, Len(fs), j)
                              /\ c = [contract |-> fs[j].self, caller |-> fs[j].caller]
  BY DEF FramesInv, ContextsChain, ContextAt
<1>2. Owner(fs) = j
  BY <1>1, OwnerIsOwner DEF FramesInv
<1> QED
  BY <1>1, <1>2

\* Only the kind and the names of the frames up to n matter.
LEMMA ContextAtSame ==
  ASSUME NEW fs, NEW gs, NEW n \in Nat, NEW c,
         \A i \in 1..n : gs[i].kind = fs[i].kind /\ gs[i].self = fs[i].self /\ gs[i].caller = fs[i].caller,
         ContextAt(fs, n, c)
  PROVE  ContextAt(gs, n, c)
<1>1. PICK j \in 1..n : /\ OwnsAt(fs, n, j)
                        /\ c = [contract |-> fs[j].self, caller |-> fs[j].caller]
  BY DEF ContextAt
<1>2. OwnsAt(gs, n, j)
  BY <1>1 DEF OwnsAt
<1>3. c = [contract |-> gs[j].self, caller |-> gs[j].caller]
  BY <1>1
<1> QED
  BY <1>2, <1>3 DEF ContextAt

\* Gas used by the innermost frame.
LEMMA GasUsed ==
  ASSUME NEW fs, NEW c, FramesInv(fs, c), Len(fs) > 0,
         NEW g \in Nat, g <= fs[Len(fs)].before
  PROVE  LET gs == [fs EXCEPT ![Len(fs)].gas = g]
         IN  FramesInv(gs, c) /\ Len(gs) = Len(fs) /\ gs \in Seq(Frames)
<1> DEFINE gs == [fs EXCEPT ![Len(fs)].gas = g]
<1>1. fs \in Seq(Frames) /\ Len(fs) \in Nat /\ Len(fs) \in 1..Len(fs)
  BY DEF FramesInv
<1>2. gs \in Seq(Frames) /\ Len(gs) = Len(fs)
  <2>1. \A f \in Frames : [f EXCEPT !.gas = g] \in Frames
    BY DEF Frames
  <2>2. [fs[Len(fs)] EXCEPT !.gas = g] \in Frames
    BY <1>1, <2>1
  <2> QED
    BY <1>1, <2>2
<1>3. \A i \in 1..Len(fs) : /\ gs[i].kind = fs[i].kind /\ gs[i].self = fs[i].self
                            /\ gs[i].caller = fs[i].caller /\ gs[i].old = fs[i].old
                            /\ gs[i].before = fs[i].before
                            /\ gs[i].gas = IF i = Len(fs) THEN g ELSE fs[i].gas
  <2>1. \A i \in 1..Len(fs) : fs[i] \in Frames
    BY <1>1
  <2> QED
    BY <1>1, <2>1 DEF Frames
<1>4. OwnersNamed(gs)
  BY <1>2, <1>3 DEF OwnersNamed, FramesInv
<1> HIDE DEF gs
<1>5. ContextAt(gs, Len(gs), c)
  <2>1. ContextAt(fs, Len(fs), c)
    BY DEF FramesInv, ContextsChain
  <2> QED
    BY <1>1, <1>2, <1>3, <2>1, ContextAtSame
<1>6. ASSUME NEW i \in 2..Len(gs), gs[i].kind # "library"
      PROVE  ContextAt(gs, i - 1, gs[i].old)
  <2>1. ContextAt(fs, i - 1, fs[i].old) /\ i - 1 \in Nat /\ \A k \in 1..(i - 1) : k \in 1..Len(fs)
    BY <1>1, <1>2, <1>3, <1>6 DEF FramesInv, ContextsChain
  <2>2. i \in 1..Len(fs) /\ gs[i].old = fs[i].old
    BY <1>1, <1>2, <1>3
  <2> QED
    BY <1>3, <2>1, <2>2, ContextAtSame
<1>7. GasShrinks(gs)
  BY <1>1, <1>2, <1>3 DEF GasShrinks, FramesInv
<1> QED
  BY <1>2, <1>4, <1>5, <1>6, <1>7 DEF FramesInv, ContextsChain, gs

\* A contract called, with a context opened for it.
LEMMA FramePushed ==
  ASSUME NEW fs, NEW c, FramesInv(fs, c), Len(fs) > 0,
         NEW f \in Frames, f.kind # "library", f.self \in Addresses, f.caller \in Addresses,
         f.old = c, f.gas <= f.before, f.before <= fs[Len(fs)].before
  PROVE  FramesInv(Append(fs, f), [contract |-> f.self, caller |-> f.caller])
<1> DEFINE gs == Append(fs, f)
<1>1. fs \in Seq(Frames) /\ Len(fs) \in Nat
  BY DEF FramesInv
<1>2. /\ gs \in Seq(Frames) /\ Len(gs) = Len(fs) + 1 /\ gs[Len(fs) + 1] = f
      /\ \A i \in 1..Len(fs) : gs[i] = fs[i]
  BY <1>1
<1> HIDE DEF gs
<1>3. OwnersNamed(gs)
  BY <1>1, <1>2 DEF OwnersNamed, FramesInv
<1>4. ContextAt(gs, Len(gs), [contract |-> f.self, caller |-> f.caller])
  <2>1. OwnsAt(gs, Len(gs), Len(gs))
    BY <1>1, <1>2 DEF OwnsAt
  <2> QED
    BY <1>1, <1>2, <2>1 DEF ContextAt
<1>5. ASSUME NEW i \in 2..Len(gs), gs[i].kind # "library"
      PROVE  ContextAt(gs, i - 1, gs[i].old)
  <2>1. ContextAt(fs, i - 1, gs[i].old)
    BY <1>1, <1>2, <1>5 DEF FramesInv, ContextsChain
  <2>2. i - 1 \in Nat /\ \A k \in 1..(i - 1) : gs[k] = fs[k]
    BY <1>1, <1>2
  <2> QED
    BY <2>1, <2>2, ContextAtSame
<1>6. GasShrinks(gs)
  BY <1>1, <1>2 DEF GasShrinks, FramesInv
<1>7. [contract |-> f.self, caller |-> f.caller] \in Contexts
  BY DEF Contexts
<1> QED
  BY <1>2, <1>3, <1>4, <1>5, <1>6, <1>7 DEF FramesInv, ContextsChain, gs

\* A library call leaves the context to the frame that owns it.
LEMMA LibraryPushed ==
  ASSUME NEW fs, NEW c, FramesInv(fs, c), Len(fs) > 0,
         NEW f \in Frames, f.kind = "library", f.gas <= f.before, f.before <= fs[Len(fs)].before
  PROVE  FramesInv(Append(fs, f), c)
<1> DEFINE gs == Append(fs, f)
<1>1. fs \in Seq(Frames) /\ Len(fs) \in Nat /\ c \in Contexts
  BY DEF FramesInv
<1>2. /\ gs \in Seq(Frames) /\ Len(gs) = Len(fs) + 1 /\ gs[Len(fs) + 1] = f
      /\ \A i \in 1..Len(fs) : gs[i] = fs[i]
  BY <1>1
<1> HIDE DEF gs
<1>3. OwnersNamed(gs)
  BY <1>1, <1>2 DEF OwnersNamed, FramesInv
<1>4. ContextAt(gs, Len(gs), c)
  <2>1. PICK j \in 1..Len(fs) : /\ OwnsAt(fs, Len(fs), j)
                                /\ c = [contract |-> fs[j].self, caller |-> fs[j].caller]
    BY DEF FramesInv, ContextsChain, ContextAt
  <2>2. OwnsAt(gs, Len(gs), j)
    BY <1>1, <1>2, <2>1 DEF OwnsAt
  <2> QED
    BY <1>1, <1>2, <2>1, <2>2 DEF ContextAt
<1>5. ASSUME NEW i \in 2..Len(gs), gs[i].kind # "library"
      PROVE  ContextAt(gs, i - 1, gs[i].old)
  <2>1. i \in 2..Len(fs)
    BY <1>1, <1>2, <1>5
  <2>2. ContextAt(fs, i - 1, gs[i].old)
    BY <1>1, <1>2, <1>5, <2>1 DEF FramesInv, ContextsChain
  <2>3. i - 1 \in Nat /\ \A k \in 1..(i - 1) : gs[k] = fs[k]
    BY <1>1, <1>2, <2>1
  <2> QED
    BY <2>2, <2>3, ContextAtSame
<1>6. GasShrinks(gs)
  BY <1>1, <1>2 DEF GasShrinks, FramesInv
<1> QED
  BY <1>1, <1>2, <1>3, <1>4, <1>5, <1>6 DEF FramesInv, ContextsChain, gs

\* The innermost frame ends: the context it saved, or left alone, is its caller's.
LEMMA FramePopped ==
  ASSUME NEW fs, NEW c, FramesInv(fs, c), Len(fs) > 1, NEW d,
         d = IF fs[Len(fs)].kind = "library" THEN c ELSE fs[Len(fs)].old
  PROVE  LET gs == SubSeq(fs, 1, Len(fs) - 1)
         IN  /\ FramesInv(gs, d) /\ gs \in Seq(Frames)
             /\ Len(gs) = Len(fs) - 1 /\ \A i \in 1..Len(gs) : gs[i] = fs[i]
<1> DEFINE gs == SubSeq(fs, 1, Len(fs) - 1)
<1>1. fs \in Seq(Frames) /\ Len(fs) \in Nat /\ c \in Contexts
  BY DEF FramesInv
<1>2. /\ gs \in Seq(Frames) /\ Len(gs) = Len(fs) - 1
      /\ \A i \in 1..(Len(fs) - 1) : gs[i] = fs[i]
  BY <1>1
<1> HIDE DEF gs
<1>3. OwnersNamed(gs)
  BY <1>1, <1>2 DEF OwnersNamed, FramesInv
<1>4. ContextAt(fs, Len(gs), d)
  <2>1. CASE fs[Len(fs)].kind = "library"
    <3>1. PICK j \in 1..Len(fs) : /\ OwnsAt(fs, Len(fs), j)
                                  /\ c = [contract |-> fs[j].self, caller |-> fs[j].caller]
      BY DEF FramesInv, ContextsChain, ContextAt
    <3>2. OwnsAt(fs, Len(gs), j) /\ j \in 1..Len(gs)
      BY <1>1, <1>2, <2>1, <3>1 DEF OwnsAt
    <3> QED
      BY <2>1, <3>1, <3>2 DEF ContextAt
  <2>2. CASE fs[Len(fs)].kind # "library"
    BY <1>1, <1>2, <2>2 DEF FramesInv, ContextsChain
  <2> QED
    BY <2>1, <2>2
<1>5. ContextAt(gs, Len(gs), d)
  BY <1>1, <1>2, <1>4, ContextAtSame, SMTT(60)
<1>6. ASSUME NEW i \in 2..Len(gs), gs[i].kind # "library"
      PROVE  ContextAt(gs, i - 1, gs[i].old)
  <2>1. i \in 2..Len(fs) /\ gs[i] = fs[i]
    BY <1>1, <1>2
  <2>2. ContextAt(fs, i - 1, gs[i].old)
    BY <1>6, <2>1 DEF FramesInv, ContextsChain
  <2>3. i - 1 \in Nat /\ \A k \in 1..(i - 1) : gs[k] = fs[k]
    BY <1>1, <1>2
  <2> QED
    BY <2>2, <2>3, ContextAtSame
<1>7. GasShrinks(gs)
  BY <1>1, <1>2 DEF GasShrinks, FramesInv
<1>8. d \in Contexts
  <2>1. PICK j \in 1..Len(gs) : /\ OwnsAt(fs, Len(gs), j)
                                /\ d = [contract |-> fs[j].self, caller |-> fs[j].caller]
    BY <1>4 DEF ContextAt
  <2>2. fs[j].self \in Addresses /\ fs[j].caller \in Addresses
    BY <1>1, <1>2, <2>1 DEF OwnsAt, OwnersNamed, FramesInv
  <2> QED
    BY <2>1, <2>2 DEF Contexts
<1> QED
  BY <1>2, <1>3, <1>5, <1>6, <1>7, <1>8 DEF FramesInv, ContextsChain, gs

\* A cheatcode renames the owner of the context, in the context and in its frame.
LEMMA OwnerRenamed ==
  ASSUME NEW fs, NEW c, FramesInv(fs, c), Len(fs) > 0, NEW gs \in Seq(Frames), NEW d \in Contexts,
         Len(gs) = Len(fs),
         \A i \in 1..Len(fs) :
           /\ gs[i].kind = fs[i].kind /\ gs[i].gas = fs[i].gas
           /\ gs[i].before = fs[i].before /\ gs[i].old = fs[i].old
           /\ i # Owner(fs) => gs[i] = fs[i],
         d = [contract |-> gs[Owner(fs)].self, caller |-> gs[Owner(fs)].caller]
  PROVE  FramesInv(gs, d)
<1>1. fs \in Seq(Frames) /\ Len(fs) \in Nat
  BY DEF FramesInv
<1>2. Owner(fs) \in 1..Len(fs) /\ OwnsAt(fs, Len(fs), Owner(fs))
  BY OwnsContext
<1>3. OwnersNamed(gs)
  BY <1>1 DEF OwnersNamed, FramesInv, Contexts
<1>4. ContextAt(gs, Len(gs), d)
  <2>1. OwnsAt(gs, Len(gs), Owner(fs))
    BY <1>1, <1>2 DEF OwnsAt
  <2> QED
    BY <1>2, <2>1 DEF ContextAt
<1>5. ASSUME NEW i \in 2..Len(gs), gs[i].kind # "library"
      PROVE  ContextAt(gs, i - 1, gs[i].old)
  <2>1. i \in 2..Len(fs) /\ i \in 1..Len(fs) /\ i <= Owner(fs) /\ i - 1 \in Nat
    BY <1>1, <1>2, <1>5 DEF OwnsAt
  <2>2. ContextAt(fs, i - 1, gs[i].old)
    BY <1>5, <2>1 DEF FramesInv, ContextsChain
  <2>3. \A k \in 1..(i - 1) : gs[k] = fs[k]
    BY <1>1, <1>2, <2>1
  <2> QED
    BY <2>1, <2>2, <2>3, ContextAtSame, SMTT(60)
<1>6. GasShrinks(gs)
  <2>1. GasShrinks(fs)
    BY DEF FramesInv
  <2>2. \A i \in 1..Len(fs) : gs[i].gas = fs[i].gas /\ gs[i].before = fs[i].before
    OBVIOUS
  <2>3. Len(gs) = Len(fs) /\ Len(fs) \in Nat /\ \A i \in 1..Len(fs) : i > 1 => i - 1 \in 1..Len(fs)
    BY <1>1
  <2> QED
    BY ONLY <2>1, <2>2, <2>3 DEF GasShrinks
<1> QED
  BY <1>3, <1>4, <1>5, <1>6 DEF FramesInv, ContextsChain

-----------------------------------------------------------------------------
(* Gas and the system calls that take it.                                  *)

LEMMA CostsNat == \A m \in DOMAIN Cost : Cost[m] \in Nat
BY GasAssumption DEF Cost, ENTRY_POINT, STEP, RANGE_CHECK, BITWISE

\* A call that runs an entry point costs at least what the callee is refunded.
LEMMA CallCosts ==
  \A cost \in {Cost.CALL_CONTRACT, Cost.DEPLOY, Cost.LIBRARY_CALL} :
    cost \in Nat /\ cost >= EntryPointCost
BY GasAssumption DEF Cost, ENTRY_POINT, STEP, RANGE_CHECK, BITWISE

\* The gas of the running frame.
LEMMA GasOfTop ==
  ASSUME Live, Top > 0
  PROVE  /\ Top \in Nat /\ Gas \in Nat /\ Gas = frames[Top].gas
         /\ frames[Top] \in Frames /\ Gas <= frames[Top].before
<1>1. frames \in Seq(Frames) /\ Len(frames) \in Nat /\ Len(frames) \in 1..Len(frames)
  BY DEF Live, FramesInv, Top
<1>2. frames[Top] \in Frames
  BY <1>1 DEF Top
<1> QED
  BY <1>1, <1>2 DEF Live, FramesInv, GasShrinks, Frames, Gas, Top

LEMMA ChargedFrames ==
  ASSUME Live, NEW cost \in Nat, Syscall(cost)
  PROVE  /\ FramesInv(Charged(cost), context)
         /\ Len(Charged(cost)) = Top /\ Charged(cost) \in Seq(Frames)
         /\ Charged(cost)[Top].before = frames[Top].before
         /\ Charged(cost)[Top].gas = Gas - cost
         /\ made' \in Nat
<1>1. Top > 0 /\ Gas >= cost /\ made' \in Nat
  BY DEF Syscall, Running, Live
<1>2. Top \in Nat /\ Gas \in Nat /\ Gas = frames[Top].gas /\ frames[Top] \in Frames
      /\ Gas <= frames[Top].before
  BY <1>1, GasOfTop
<1>3. frames[Top].before \in Nat
  BY <1>2 DEF Frames
<1>4. Gas - cost \in Nat /\ Gas - cost <= frames[Top].before
  BY <1>1, <1>2, <1>3
<1>5. Charged(cost) = [frames EXCEPT ![Len(frames)].gas = Gas - cost]
  BY <1>2 DEF Charged, Top
<1>6. FramesInv(frames, context) /\ Len(frames) = Top
  BY DEF Live, Top
<1>7. FramesInv(Charged(cost), context) /\ Len(Charged(cost)) = Top /\ Charged(cost) \in Seq(Frames)
  <2> DEFINE g == Gas - cost
  <2>1. g \in Nat /\ g <= frames[Len(frames)].before /\ Len(frames) > 0
    BY <1>1, <1>4, <1>6
  <2> HIDE DEF g
  <2>2. LET gs == [frames EXCEPT ![Len(frames)].gas = g]
        IN  FramesInv(gs, context) /\ Len(gs) = Len(frames) /\ gs \in Seq(Frames)
    BY <1>6, <2>1, GasUsed
  <2> QED
    BY <1>5, <1>6, <2>2 DEF g
<1>8. Charged(cost)[Top] = [frames[Top] EXCEPT !.gas = Gas - cost]
  <2>1. frames \in Seq(Frames) /\ Top \in 1..Len(frames)
    BY <1>1, <1>2, <1>6 DEF FramesInv
  <2>2. DOMAIN frames = 1..Len(frames)
    BY <2>1
  <2> QED
    BY <2>1, <2>2, <1>2, <1>5, <1>6
<1> QED
  BY <1>1, <1>2, <1>7, <1>8 DEF Frames

LEMMA Answered ==
  ASSUME Live, NEW cost \in Nat, NEW r, Answers(cost, r)
  PROVE  FramesInv(frames', context') /\ made' \in Nat /\ aborted' = FALSE
BY ChargedFrames DEF Answers, Live

LEMMA Deducted ==
  ASSUME Live, NEW cost \in Nat, deduct_gas(cost)
  PROVE  Live'
<1>1. /\ storage' = storage /\ deployed' = deployed /\ logs' = logs /\ blockHash' = blockHash
      /\ executor' = executor /\ frames' = frames /\ context' = context
      /\ aborted' = aborted /\ made' = made + 1
  BY DEF deduct_gas, world
<1> QED
  BY <1>1 DEF Live, WorldInv

\* A callee that runs starts with no more gas than its caller had.
LEMMA CalleeGas ==
  ASSUME Live, NEW cost \in Nat, cost >= EntryPointCost, Syscall(cost),
         Gas - cost + EntryPointCost >= EntryRequired
  PROVE  /\ InnerGas(cost) \in Nat /\ Gas \in Nat
         /\ InnerGas(cost) <= Gas /\ Gas <= Charged(cost)[Top].before
<1>1. Top > 0 /\ Gas >= cost
  BY DEF Syscall, Running
<1>2. Gas \in Nat /\ Gas <= frames[Top].before
  BY <1>1, GasOfTop
<1>3. EntryPointCost \in Nat /\ EntryRequired \in Nat
  BY GasAssumption
<1>4. Charged(cost)[Top].before = frames[Top].before
  BY ChargedFrames
<1> QED
  BY <1>1, <1>2, <1>3, <1>4 DEF InnerGas

\* What a call into a contract ends in: the callee runs, or an expect has failed.
Entered ==
  \/ aborted' = FALSE /\ FramesInv(frames', context')
  \/ aborted' = TRUE /\ frames' = frames /\ context' \in Contexts

LEMMA EnteredKeeps ==
  ASSUME Live, Top > 0, Entered, made' \in Nat, WorldInv'
  PROVE  IInv'
<1>1. frames \in Seq(Frames) /\ frames # <<>> /\ GasShrinks(frames)
  BY DEF Live, FramesInv, Top
<1> QED
  BY <1>1 DEF Entered, IInv, Live, Gone

\* A contract entered with a context of its own.
LEMMA ContractEntered ==
  ASSUME Live, NEW cost \in Nat, cost >= EntryPointCost, Syscall(cost),
         NEW kind \in {"call", "deploy"}, NEW self \in Addresses, NEW caller \in Addresses,
         NEW address \in Addresses \cup {None},
         call_entry_point(cost, Frame(kind, self, caller, InnerGas(cost), Gas, context, address)),
         open_caller_context(self, caller)
  PROVE  Entered /\ made' \in Nat
<1> DEFINE fs == Charged(cost)
           f == Frame(kind, self, caller, InnerGas(cost), Gas, context, address)
           runs == executor /\ Gas - cost + EntryPointCost >= EntryRequired
<1>1. FramesInv(fs, context) /\ Len(fs) = Top /\ made' \in Nat
  BY ChargedFrames
<1>2. CASE ~runs
  BY <1>1, <1>2 DEF call_entry_point, open_caller_context, Contexts, Entered
<1>3. CASE runs
  <2>1. /\ InnerGas(cost) \in Nat /\ Gas \in Nat
        /\ InnerGas(cost) <= Gas /\ Gas <= fs[Len(fs)].before
    BY <1>1, <1>3, CalleeGas
  <2>2. frames' = Append(fs, f) /\ aborted' = FALSE
    BY <1>3 DEF call_entry_point, Live
  <2>3. f \in Frames /\ f.kind # "library" /\ f.self = self /\ f.caller = caller /\ f.old = context
        /\ f.gas = InnerGas(cost) /\ f.before = Gas
    BY <2>1 DEF Frame, Frames, Live, FramesInv
  <2>4. Len(fs) > 0
    BY <1>1 DEF Syscall, Running
  <2> HIDE DEF fs, f
  <2>5. FramesInv(Append(fs, f), [contract |-> f.self, caller |-> f.caller])
    BY <1>1, <2>1, <2>3, <2>4, FramePushed
  <2> QED
    BY <1>1, <2>2, <2>3, <2>5 DEF open_caller_context, Entered
<1> QED
  BY <1>2, <1>3

\* A class entered with the context of its caller.
LEMMA LibraryEntered ==
  ASSUME Live, NEW cost \in Nat, cost >= EntryPointCost, Syscall(cost), context' = context,
         call_entry_point(cost, Frame("library", None, None, InnerGas(cost), Gas, None, None))
  PROVE  Entered /\ made' \in Nat
<1> DEFINE fs == Charged(cost)
           f == Frame("library", None, None, InnerGas(cost), Gas, None, None)
           runs == executor /\ Gas - cost + EntryPointCost >= EntryRequired
<1>1. FramesInv(fs, context) /\ Len(fs) = Top /\ made' \in Nat
  BY ChargedFrames
<1>2. CASE ~runs
  BY <1>1, <1>2 DEF call_entry_point, FramesInv, Entered
<1>3. CASE runs
  <2>1. /\ InnerGas(cost) \in Nat /\ Gas \in Nat
        /\ InnerGas(cost) <= Gas /\ Gas <= fs[Len(fs)].before
    BY <1>1, <1>3, CalleeGas
  <2>2. frames' = Append(fs, f) /\ aborted' = FALSE
    BY <1>3 DEF call_entry_point, Live
  <2>3. f \in Frames /\ f.kind = "library" /\ f.gas = InnerGas(cost) /\ f.before = Gas
    BY <2>1 DEF Frame, Frames
  <2>4. Len(fs) > 0
    BY <1>1 DEF Syscall, Running
  <2> HIDE DEF fs, f
  <2>5. FramesInv(Append(fs, f), context)
    BY <1>1, <2>1, <2>3, <2>4, LibraryPushed
  <2> QED
    BY <1>1, <2>2, <2>5 DEF Entered
<1> QED
  BY <1>2, <1>3

-----------------------------------------------------------------------------
(* Calls into other contracts.                                             *)

\* Answers that leave the contracts alone.
LEMMA AnsweredOnly ==
  ASSUME Live, NEW cost \in Nat, NEW r, Answers(cost, r), UNCHANGED world
  PROVE  Live'
<1>1. FramesInv(frames', context') /\ made' \in Nat /\ aborted' = FALSE
  BY Answered
<1> QED
  BY <1>1 DEF Live, WorldInv, world

LEMMA DeployStep ==
  ASSUME Live, NEW class \in Classes, NEW salt \in Salts, NEW calldata \in {"empty", "some"},
         NEW from_zero \in BOOLEAN, deploy(class, salt, calldata, from_zero)
  PROVE  IInv'
<1> DEFINE deployer == IF from_zero THEN Zero ELSE context.contract
           address == AddressOf(deployer, salt, class)
           cost == Cost.DEPLOY
<1>1. cost \in Nat /\ cost >= EntryPointCost
  BY CallCosts
<1>2. storage' = storage /\ logs' = logs /\ blockHash' = blockHash /\ executor' = executor
  BY DEF deploy
<1>3. deployer \in Addresses
  BY AddressAssumption DEF Live, FramesInv, Contexts
<1> HIDE DEF cost
<1>4. CASE class \notin DOMAIN Declared
  <2>1. Answers(cost, Err("CLASS_HASH_NOT_FOUND")) /\ deployed' = deployed
    BY <1>4 DEF deploy, cost
  <2> QED
    BY <1>1, <1>2, <2>1, AnsweredOnly DEF world, IInv
<1>5. CASE class \in DOMAIN Declared
  <2>1. address \in Addresses
    BY <1>3, <1>5, AddressAssumption
  <2>2. deployed \in [Addresses -> DOMAIN Declared \cup {None}]
    BY DEF Live, WorldInv
  <2> HIDE DEF address
  <2>3. CASE AlreadyDeployed(address)
    <3>1. /\ Answers(cost, Err("CONTRACT_ALREADY_DEPLOYED"))
          /\ deployed' = [deployed EXCEPT ![address] = class]
      BY <1>5, <2>3 DEF deploy, address, cost
    <3> QED
      BY <1>1, <1>2, <1>5, <2>2, <3>1, Answered DEF IInv, Live, WorldInv
  <2>4. CASE ~AlreadyDeployed(address) /\ Declared[class].constructor
    <3> DEFINE caller == IF from_zero THEN Zero ELSE Self
    <3>1. /\ Syscall(cost)
          /\ deployed' = [deployed EXCEPT ![address] = class]
          /\ open_caller_context(address, deployer)
          /\ call_entry_point(cost, Frame("deploy", address, caller, InnerGas(cost), Gas,
                                          context, address))
      BY <1>5, <2>4 DEF deploy, address, cost
    <3>2. caller = deployer
      <4>1. Len(frames) > 0
        BY <3>1 DEF Syscall, Running, Top
      <4>2. context = [contract |-> frames[Owner(frames)].self, caller |-> frames[Owner(frames)].caller]
        BY <4>1, OwnsContext DEF Live
      <4> QED
        BY <4>2 DEF Self
    <3>3. Entered /\ made' \in Nat
      <4> HIDE DEF caller, deployer
      <4> QED
        BY <1>1, <1>3, <2>1, <3>1, <3>2, ContractEntered
    <3>4. WorldInv' /\ Top > 0
      BY <1>2, <1>5, <2>2, <3>1 DEF Live, WorldInv, Syscall, Running
    <3> QED
      BY <3>3, <3>4, EnteredKeeps
  <2>5. CASE ~AlreadyDeployed(address) /\ ~Declared[class].constructor /\ calldata = "empty"
    <3>1. Answers(cost, Ok(address)) /\ deployed' = [deployed EXCEPT ![address] = class]
      BY <1>5, <2>5 DEF deploy, address, cost
    <3> QED
      BY <1>1, <1>2, <1>5, <2>2, <3>1, Answered DEF IInv, Live, WorldInv
  <2>6. CASE ~AlreadyDeployed(address) /\ ~Declared[class].constructor /\ calldata # "empty"
    <3>1. /\ Answers(cost, Err("INVALID_CALLDATA_LEN"))
          /\ deployed' = [deployed EXCEPT ![address] = None]
      BY <1>5, <2>6 DEF deploy, address, cost
    <3> QED
      BY <1>1, <1>2, <2>2, <3>1, Answered DEF IInv, Live, WorldInv
  <2> QED
    BY <2>3, <2>4, <2>5, <2>6
<1> QED
  BY <1>4, <1>5

LEMMA LibraryCallStep ==
  ASSUME Live, NEW class \in Classes, NEW selector \in Selectors, library_call(class, selector)
  PROVE  IInv'
<1> DEFINE cost == Cost.LIBRARY_CALL
<1>1. cost \in Nat /\ cost >= EntryPointCost
  BY CallCosts
<1> HIDE DEF cost
<1>2. UNCHANGED world
  BY DEF library_call
<1>3. CASE class \notin DOMAIN Declared
  BY <1>1, <1>2, <1>3, AnsweredOnly DEF library_call, cost, IInv
<1>4. CASE class \in DOMAIN Declared /\ selector \notin Declared[class].externals
  BY <1>1, <1>2, <1>4, AnsweredOnly DEF library_call, cost, IInv
<1>5. CASE class \in DOMAIN Declared /\ selector \in Declared[class].externals
  <2>1. /\ Syscall(cost) /\ context' = context
        /\ call_entry_point(cost, Frame("library", None, None, InnerGas(cost), Gas, None, None))
    BY <1>5 DEF library_call, cost
  <2>2. Entered /\ made' \in Nat
    BY <1>1, <2>1, LibraryEntered
  <2>3. WorldInv' /\ Top > 0
    BY <1>2, <2>1 DEF Live, WorldInv, world, Syscall, Running
  <2> QED
    BY <2>2, <2>3, EnteredKeeps
<1> QED
  BY <1>3, <1>4, <1>5

LEMMA CallContractStep ==
  ASSUME Live, NEW address \in Addresses, NEW selector \in Selectors, call_contract(address, selector)
  PROVE  IInv'
<1> DEFINE cost == Cost.CALL_CONTRACT
<1>1. cost \in Nat /\ cost >= EntryPointCost
  BY CallCosts
<1> HIDE DEF cost
<1>2. UNCHANGED world
  BY DEF call_contract
<1>3. deployed[address] \in DOMAIN Declared \cup {None}
  BY DEF Live, WorldInv
<1>4. CASE deployed[address] = None
  BY <1>1, <1>2, <1>4, AnsweredOnly DEF call_contract, cost, IInv
<1>5. CASE deployed[address] # None /\ selector \notin Declared[deployed[address]].externals
  BY <1>1, <1>2, <1>3, <1>5, AnsweredOnly DEF call_contract, cost, IInv
<1>6. CASE deployed[address] # None /\ selector \in Declared[deployed[address]].externals
  <2>1. /\ Syscall(cost)
        /\ open_caller_context(address, context.contract)
        /\ call_entry_point(cost, Frame("call", address, Self, InnerGas(cost), Gas, context, None))
    BY <1>3, <1>6 DEF call_contract, cost
  <2>2. context.contract = Self /\ Self \in Addresses
    <3>1. Len(frames) > 0
      BY <2>1 DEF Syscall, Running, Top
    <3>2. context = [contract |-> frames[Owner(frames)].self, caller |-> frames[Owner(frames)].caller]
      BY <3>1, OwnsContext DEF Live
    <3> QED
      BY <3>2 DEF Self, Live, FramesInv, Contexts
  <2>3. Entered /\ made' \in Nat
    BY <1>1, <2>1, <2>2, ContractEntered
  <2>4. WorldInv' /\ Top > 0
    BY <1>2, <2>1 DEF Live, WorldInv, world, Syscall, Running
  <2> QED
    BY <2>3, <2>4, EnteredKeeps
<1> QED
  BY <1>4, <1>5, <1>6

LEMMA ReturnsStep ==
  ASSUME Live, NEW panics \in BOOLEAN, EntryPointReturns(panics)
  PROVE  Live'
<1> DEFINE n == Len(frames)
           callee == frames[n]
           gs == SubSeq(frames, 1, n - 1)
           d == IF callee.kind = "library" THEN context ELSE callee.old
<1>1. n > 1 /\ UNCHANGED world /\ made' = made /\ aborted' = aborted
      /\ frames' = [gs EXCEPT ![n - 1].gas = callee.gas]
  BY DEF EntryPointReturns, Top
<1>2. context' = d
  BY DEF EntryPointReturns, Top, close_caller_context
<1>3. FramesInv(frames, context)
  BY DEF Live
<1>4. FramesInv(gs, d) /\ Len(gs) = n - 1 /\ \A i \in 1..Len(gs) : gs[i] = frames[i]
  BY <1>1, <1>3, FramePopped
<1>5. callee.gas \in Nat /\ callee.gas <= gs[Len(gs)].before /\ Len(gs) > 0 /\ Len(gs) \in Nat
  <2>1. frames \in Seq(Frames) /\ n \in Nat /\ n \in 1..n /\ n - 1 \in 1..n /\ n - 1 \in 1..(n - 1)
    BY <1>1, <1>3 DEF FramesInv
  <2>2. callee \in Frames /\ frames[n - 1] \in Frames /\ gs[n - 1] = frames[n - 1]
    BY <1>4, <2>1
  <2>3. callee.gas <= callee.before /\ callee.before <= frames[n - 1].before
    BY <1>1, <1>3, <2>1 DEF FramesInv, GasShrinks
  <2>4. callee.gas \in Nat /\ callee.before \in Nat /\ frames[n - 1].before \in Nat
    BY <2>2 DEF Frames
  <2> QED
    BY <1>1, <1>4, <2>1, <2>2, <2>3, <2>4
<1> HIDE DEF gs, d, callee
<1>6. FramesInv([gs EXCEPT ![Len(gs)].gas = callee.gas], d)
  BY <1>4, <1>5, GasUsed
<1>7. FramesInv(frames', context')
  BY <1>1, <1>2, <1>4, <1>6
<1> QED
  BY <1>1, <1>7 DEF Live, WorldInv, world

-----------------------------------------------------------------------------
(* System calls answered by the handler itself, cheatcodes and the host.   *)

LEMMA KeccakStep ==
  ASSUME Live, NEW rounds \in 0..2, NEW remainder \in BOOLEAN, keccak(rounds, remainder)
  PROVE  Live'
<1> DEFINE affordable == Gas \div Cost.KECCAK_ROUND_COST
<1>1. Cost.KECCAK = 0 /\ Cost.KECCAK_ROUND_COST = 180000
  BY DEF Cost
<1>2. Top > 0
  BY DEF keccak, Answers, Syscall, Running
<1>3. Gas \in Nat
  BY <1>2, GasOfTop
<1>4. affordable \in Nat
  BY <1>1, <1>3
<1>5. UNCHANGED world /\ \E cost \in Nat : \E r : Answers(cost, r)
  <2> HIDE DEF affordable
  <2>1. /\ Cost.KECCAK \in Nat
        /\ Cost.KECCAK + rounds * Cost.KECCAK_ROUND_COST \in Nat
        /\ Cost.KECCAK + affordable * Cost.KECCAK_ROUND_COST \in Nat
    BY <1>1, <1>4
  <2> QED
    BY <2>1 DEF keccak, affordable
<1> QED
  BY <1>5, AnsweredOnly

LEMMA QueriesStep ==
  ASSUME Live, Queries
  PROVE  Live'
<1> DEFINE Answered1 == UNCHANGED world /\ \E m \in DOMAIN Cost : \E r : Answers(Cost[m], r)
<1>1. ASSUME Answered1
      PROVE  Live'
  BY <1>1, CostsNat, AnsweredOnly
<1>2. /\ "GET_BLOCK_HASH" \in DOMAIN Cost /\ "GET_EXECUTION_INFO" \in DOMAIN Cost
      /\ "GET_CLASS_HASH_AT" \in DOMAIN Cost /\ "STORAGE_READ" \in DOMAIN Cost
      /\ "SHA256_PROCESS_BLOCK" \in DOMAIN Cost /\ "SHA512_PROCESS_BLOCK" \in DOMAIN Cost
      /\ "SECP256_ADD" \in DOMAIN Cost /\ "SECP256_MUL" \in DOMAIN Cost
      /\ "SECP256_GET_POINT_FROM_X" \in DOMAIN Cost /\ "SECP256_GET_XY" \in DOMAIN Cost
      /\ "SECP256_NEW" \in DOMAIN Cost
  BY DEF Cost
<1>3. get_execution_info \/ get_execution_info_v2 \/ get_execution_info_v3 \/ get_block_hash
        => Answered1
  BY <1>2 DEF get_execution_info, get_execution_info_v2, get_execution_info_v3, get_block_hash
<1>4. secp256k1_new \/ secp256k1_add \/ secp256k1_mul \/ secp256k1_get_point_from_x
        \/ secp256k1_get_xy => Answered1
  BY <1>2 DEF secp256k1_new, secp256k1_add, secp256k1_mul, secp256k1_get_point_from_x,
              secp256k1_get_xy, Computes
<1>5. secp256r1_new \/ secp256r1_add \/ secp256r1_mul \/ secp256r1_get_point_from_x
        \/ secp256r1_get_xy => Answered1
  BY <1>2 DEF secp256r1_new, secp256r1_add, secp256r1_mul, secp256r1_get_point_from_x,
              secp256r1_get_xy, Computes
<1>6. sha256_process_block \/ sha512_process_block => Answered1
  BY <1>2 DEF sha256_process_block, sha512_process_block
<1>7. ASSUME NEW a \in Addresses, get_class_hash_at(a)
      PROVE  Answered1
  BY <1>2, <1>7 DEF get_class_hash_at
<1>8. ASSUME NEW e \in {0, 1}, NEW k \in Keys, storage_read(e, k)
      PROVE  Answered1
  BY <1>2, <1>8 DEF storage_read
<1> HIDE DEF Answered1
<1> QED
  BY <1>1, <1>3, <1>4, <1>5, <1>6, <1>7, <1>8, KeccakStep, CostsNat, Deducted DEF Queries

\* storage_write, emit_event, send_message_to_l1 and replace_class.
LEMMA UpdatesStep ==
  ASSUME Live, Updates
  PROVE  Live'
<1>1. /\ Cost.REPLACE_CLASS \in Nat /\ Cost.STORAGE_WRITE \in Nat
      /\ Cost.EMIT_EVENT \in Nat /\ Cost.SEND_MESSAGE_TO_L1 \in Nat
  BY DEF Cost, STEP
<1>2. context.contract \in Addresses /\ WorldInv
  BY DEF Live, FramesInv, Contexts
<1>3. ASSUME NEW c \in Classes, replace_class(c)
      PROVE  Live'
  <2>1. storage' = storage /\ logs' = logs /\ blockHash' = blockHash /\ executor' = executor
    BY <1>3 DEF replace_class
  <2>2. FramesInv(frames', context') /\ made' \in Nat /\ aborted' = FALSE
    BY <1>1, <1>3, Answered DEF replace_class
  <2>3. deployed' \in [Addresses -> DOMAIN Declared \cup {None}]
    BY <1>2, <1>3 DEF replace_class, WorldInv
  <2> QED
    BY <1>2, <2>1, <2>2, <2>3 DEF Live, WorldInv
<1>4. ASSUME NEW e \in {0, 1}, NEW k \in Keys, NEW v \in Values, storage_write(e, k, v)
      PROVE  Live'
  <2>1. deployed' = deployed /\ logs' = logs /\ blockHash' = blockHash /\ executor' = executor
    BY <1>4 DEF storage_write
  <2>2. FramesInv(frames', context') /\ made' \in Nat /\ aborted' = FALSE
    BY <1>1, <1>4, Answered DEF storage_write
  <2>3. storage' \in [Addresses -> [Keys -> Values \cup {0}]]
    <3> DEFINE cells == storage[context.contract]
    <3>1. \/ storage' = storage
          \/ storage' = [storage EXCEPT ![context.contract] = [cells EXCEPT ![k] = v]]
      BY <1>4 DEF storage_write
    <3>2. cells \in [Keys -> Values \cup {0}]
      BY <1>2 DEF WorldInv
    <3> HIDE DEF cells
    <3>3. [cells EXCEPT ![k] = v] \in [Keys -> Values \cup {0}]
      BY <3>2
    <3> QED
      BY <1>2, <3>1, <3>3 DEF WorldInv
  <2> QED
    BY <1>2, <2>1, <2>2, <2>3 DEF Live, WorldInv
<1>5. ASSUME NEW v \in Values, emit_event(v) \/ send_message_to_l1(v)
      PROVE  Live'
  <2>1. storage' = storage /\ deployed' = deployed /\ blockHash' = blockHash /\ executor' = executor
    BY <1>5 DEF emit_event, send_message_to_l1
  <2>2. FramesInv(frames', context') /\ made' \in Nat /\ aborted' = FALSE
    BY <1>1, <1>5, Answered DEF emit_event, send_message_to_l1
  <2>3. logs' \in [Addresses -> [events : Seq(Values), messages : Seq(Values)]]
    <3> DEFINE log == logs[context.contract]
    <3>1. log \in [events : Seq(Values), messages : Seq(Values)]
      BY <1>2 DEF WorldInv
    <3>2. Append(log.events, v) \in Seq(Values) /\ Append(log.messages, v) \in Seq(Values)
      BY <3>1
    <3>3. \/ logs' = [logs EXCEPT ![context.contract] = [log EXCEPT !.events = Append(log.events, v)]]
          \/ logs' = [logs EXCEPT ![context.contract] = [log EXCEPT !.messages = Append(log.messages, v)]]
      <4>1. CASE emit_event(v)
        BY <4>1 DEF emit_event
      <4>2. CASE send_message_to_l1(v)
        BY <4>2 DEF send_message_to_l1
      <4> QED
        BY <1>5, <4>1, <4>2
    <3> HIDE DEF log
    <3>4. /\ [log EXCEPT !.events = Append(log.events, v)] \in [events : Seq(Values), messages : Seq(Values)]
          /\ [log EXCEPT !.messages = Append(log.messages, v)] \in [events : Seq(Values), messages : Seq(Values)]
      BY <3>1, <3>2
    <3> QED
      BY <1>2, <3>3, <3>4 DEF WorldInv
  <2> QED
    BY <1>2, <2>1, <2>2, <2>3 DEF Live, WorldInv
<1> QED
  BY <1>3, <1>4, <1>5 DEF Updates

\* The cheatcodes that set the context set it for the contract that runs.
LEMMA RenameStep ==
  ASSUME Live, NEW a \in Addresses, set_caller_address(a) \/ set_contract_address(a)
  PROVE  Live'
<1> DEFINE o == Owner(frames)
<1>1. Len(frames) > 0 /\ made' = made + 1 /\ aborted' = aborted /\ UNCHANGED world
  BY DEF set_caller_address, set_contract_address, Cheat, Syscall, Running, Top
<1>2. /\ FramesInv(frames, context) /\ frames \in Seq(Frames) /\ context \in Contexts
  BY DEF Live, FramesInv
<1>3. /\ o \in 1..Len(frames)
      /\ context = [contract |-> frames[o].self, caller |-> frames[o].caller]
  BY <1>1, <1>2, OwnsContext
<1>4. frames[o] \in Frames
  BY <1>2, <1>3
<1>5. ASSUME NEW f \in Frames, NEW d \in Contexts,
             f.kind = frames[o].kind, f.gas = frames[o].gas,
             f.before = frames[o].before, f.old = frames[o].old,
             d = [contract |-> f.self, caller |-> f.caller],
             frames' = [frames EXCEPT ![o] = f], context' = d
      PROVE  FramesInv(frames', context')
  <2> HIDE DEF o
  <2>1. frames' \in Seq(Frames) /\ Len(frames') = Len(frames) /\ frames'[o] = f
        /\ \A i \in 1..Len(frames) : i # o => frames'[i] = frames[i]
    BY <1>2, <1>3, <1>5
  <2> DEFINE gs == frames'
  <2>2. \A i \in 1..Len(frames) :
          /\ gs[i].kind = frames[i].kind /\ gs[i].gas = frames[i].gas
          /\ gs[i].before = frames[i].before /\ gs[i].old = frames[i].old
          /\ i # o => gs[i] = frames[i]
    BY <1>5, <2>1
  <2>3. d = [contract |-> gs[o].self, caller |-> gs[o].caller]
    BY <1>5, <2>1
  <2>4. gs \in Seq(Frames) /\ Len(gs) = Len(frames)
    BY <2>1
  <2> HIDE DEF gs
  <2>5. FramesInv(gs, d)
    BY <1>1, <1>2, <2>2, <2>3, <2>4, OwnerRenamed DEF o
  <2> QED
    BY <1>5, <2>5 DEF gs
<1>6. CASE set_caller_address(a)
  <2> DEFINE f == [frames[o] EXCEPT !.caller = a]
             d == [context EXCEPT !.caller = a]
  <2>1. frames' = [frames EXCEPT ![o] = f] /\ context' = d
    BY <1>6 DEF set_caller_address
  <2>2. /\ f \in Frames /\ d \in Contexts
        /\ f.kind = frames[o].kind /\ f.gas = frames[o].gas
        /\ f.before = frames[o].before /\ f.old = frames[o].old
        /\ d = [contract |-> f.self, caller |-> f.caller]
    <3> DEFINE h == frames[o]
    <3>1. h \in Frames /\ context = [contract |-> h.self, caller |-> h.caller]
      BY <1>3, <1>4
    <3> HIDE DEF h, o
    <3>2. /\ [h EXCEPT !.caller = a] \in Frames
          /\ [h EXCEPT !.caller = a].kind = h.kind /\ [h EXCEPT !.caller = a].gas = h.gas
          /\ [h EXCEPT !.caller = a].before = h.before /\ [h EXCEPT !.caller = a].old = h.old
      BY <3>1 DEF Frames
    <3>3. /\ [context EXCEPT !.caller = a] \in Contexts
          /\ [context EXCEPT !.caller = a]
               = [contract |-> [h EXCEPT !.caller = a].self, caller |-> [h EXCEPT !.caller = a].caller]
      BY <1>2, <3>1 DEF Frames, Contexts
    <3> QED
      BY <3>2, <3>3 DEF h
  <2> HIDE DEF f, d
  <2>3. FramesInv(frames', context')
    BY <1>5, <2>1, <2>2
  <2> QED
    BY <1>1, <2>3 DEF Live, WorldInv, world
<1>7. CASE set_contract_address(a)
  <2> DEFINE f == [frames[o] EXCEPT !.self = a]
             d == [context EXCEPT !.contract = a]
  <2>1. frames' = [frames EXCEPT ![o] = f] /\ context' = d
    BY <1>7 DEF set_contract_address
  <2>2. /\ f \in Frames /\ d \in Contexts
        /\ f.kind = frames[o].kind /\ f.gas = frames[o].gas
        /\ f.before = frames[o].before /\ f.old = frames[o].old
        /\ d = [contract |-> f.self, caller |-> f.caller]
    <3> DEFINE h == frames[o]
    <3>1. h \in Frames /\ context = [contract |-> h.self, caller |-> h.caller]
      BY <1>3, <1>4
    <3> HIDE DEF h, o
    <3>2. /\ [h EXCEPT !.self = a] \in Frames
          /\ [h EXCEPT !.self = a].kind = h.kind /\ [h EXCEPT !.self = a].gas = h.gas
          /\ [h EXCEPT !.self = a].before = h.before /\ [h EXCEPT !.self = a].old = h.old
      BY <3>1 DEF Frames
    <3>3. /\ [context EXCEPT !.contract = a] \in Contexts
          /\ [context EXCEPT !.contract = a]
               = [contract |-> [h EXCEPT !.self = a].self, caller |-> [h EXCEPT !.self = a].caller]
      BY <1>2, <3>1 DEF Frames, Contexts
    <3> QED
      BY <3>2, <3>3 DEF h
  <2> HIDE DEF f, d
  <2>3. FramesInv(frames', context')
    BY <1>5, <2>1, <2>2
  <2> QED
    BY <1>1, <2>3 DEF Live, WorldInv, world
<1> QED
  BY <1>6, <1>7

\* A queue read from its head keeps its type.
LEMMA PopStep ==
  ASSUME Live, NEW a \in Addresses, pop_log(a) \/ pop_l2_to_l1_message(a)
  PROVE  Live'
<1> DEFINE log == logs[a]
           Logs == [events : Seq(Values), messages : Seq(Values)]
<1>1. /\ storage' = storage /\ deployed' = deployed /\ blockHash' = blockHash /\ executor' = executor
      /\ context' = context /\ frames' = frames /\ made' = made + 1 /\ aborted' = aborted
  BY DEF pop_log, pop_l2_to_l1_message, Cheat, Syscall
<1>2. logs \in [Addresses -> Logs]
  BY DEF Live, WorldInv
<1>3. \/ logs' = logs
      \/ /\ log.events # <<>>
         /\ logs' = [logs EXCEPT ![a] = [log EXCEPT !.events = Tail(log.events)]]
      \/ /\ log.messages # <<>>
         /\ logs' = [logs EXCEPT ![a] = [log EXCEPT !.messages = Tail(log.messages)]]
  <2>1. CASE pop_log(a)
    BY <2>1 DEF pop_log
  <2>2. CASE pop_l2_to_l1_message(a)
    BY <2>2 DEF pop_l2_to_l1_message
  <2> QED
    BY <2>1, <2>2
<1>4. log \in Logs
  BY <1>2
<1> HIDE DEF log
<1>5. /\ log.events # <<>> => [log EXCEPT !.events = Tail(log.events)] \in Logs
      /\ log.messages # <<>> => [log EXCEPT !.messages = Tail(log.messages)] \in Logs
  <2>1. log.events \in Seq(Values) /\ log.messages \in Seq(Values)
    BY <1>4
  <2>2. /\ log.events # <<>> => Tail(log.events) \in Seq(Values)
        /\ log.messages # <<>> => Tail(log.messages) \in Seq(Values)
    BY <2>1
  <2>3. \A q \in Seq(Values) : /\ [log EXCEPT !.events = q] \in Logs
                             /\ [log EXCEPT !.messages = q] \in Logs
    BY <1>4
  <2> QED
    BY <2>2, <2>3
<1>6. logs' \in [Addresses -> Logs]
  <2> HIDE DEF Logs
  <2> QED
    BY <1>2, <1>3, <1>5
<1> QED
  BY <1>1, <1>6 DEF Live, WorldInv

LEMMA CheatsStep ==
  ASSUME Live, Cheats
  PROVE  Live'
<1>1. CASE set_block_hash
  BY <1>1 DEF set_block_hash, Cheat, Syscall, Live, WorldInv
<1>2. CASE set_other_info
  BY <1>2 DEF set_other_info, Cheat, Syscall, Live, WorldInv, world
<1> QED
  BY <1>1, <1>2, RenameStep, PopStep DEF Cheats

\* The host's contract is alone on the stack.
LEMMA HostCallStep ==
  ASSUME Live, NEW a \in Addresses, NEW b \in Addresses, NEW g \in Budgets, HostCall(a, b, g)
  PROVE  Live'
<1> DEFINE f == Frame("host", a, b, g, g, None, None)
<1>1. /\ UNCHANGED world /\ made' = made /\ aborted' = aborted
      /\ frames' = <<f>> /\ context' = [contract |-> a, caller |-> b]
  BY DEF HostCall, open_caller_context
<1>2. g \in Nat
  BY GasAssumption
<1>3. /\ f \in Frames /\ f.kind # "library" /\ f.self = a /\ f.caller = b
      /\ f.gas = g /\ f.before = g
  BY <1>2 DEF Frame, Frames
<1> HIDE DEF f
<1>4. <<f>> \in Seq(Frames) /\ Len(<<f>>) = 1 /\ <<f>>[1] = f
  BY <1>3
<1>5. OwnersNamed(<<f>>) /\ GasShrinks(<<f>>)
  BY <1>2, <1>3, <1>4 DEF OwnersNamed, GasShrinks
<1>6. ContextsChain(<<f>>, [contract |-> a, caller |-> b])
  <2>1. OwnsAt(<<f>>, 1, 1)
    BY <1>3, <1>4 DEF OwnsAt
  <2>2. ContextAt(<<f>>, 1, [contract |-> a, caller |-> b])
    BY <1>3, <1>4, <2>1 DEF ContextAt
  <2> QED
    BY <1>4, <2>2 DEF ContextsChain
<1>7. FramesInv(<<f>>, [contract |-> a, caller |-> b])
  BY <1>4, <1>5, <1>6 DEF FramesInv, Contexts
<1> QED
  BY <1>1, <1>7 DEF Live, WorldInv, world

\* No contract runs: there is no context to be had.
LEMMA Idle ==
  ASSUME NEW c \in Contexts
  PROVE  FramesInv(<<>>, c)
BY DEF FramesInv, OwnersNamed, ContextsChain, GasShrinks

LEMMA HostReturnStep ==
  ASSUME Live, HostReturn
  PROVE  Live'
<1>1. FramesInv(<<>>, context)
  BY Idle DEF Live, FramesInv
<1> QED
  BY <1>1 DEF HostReturn, Live, WorldInv, world

LEMMA ComputeStep ==
  ASSUME Live, Compute
  PROVE  Live'
<1>1. PICK left \in Leftovers : left < Gas /\ frames' = [frames EXCEPT ![Top].gas = left]
  BY DEF Compute
<1>2. Top > 0 /\ context' = context /\ made' = made /\ aborted' = aborted /\ UNCHANGED world
  BY DEF Compute, Running
<1>3. left \in Nat /\ Gas \in Nat /\ Gas <= frames[Top].before /\ frames[Top] \in Frames
  BY <1>2, GasOfTop, GasAssumption
<1>4. left <= frames[Len(frames)].before
  BY <1>1, <1>3 DEF Top, Frames
<1>5. FramesInv([frames EXCEPT ![Len(frames)].gas = left], context)
  BY <1>2, <1>3, <1>4, GasUsed DEF Live, Top
<1>6. FramesInv(frames', context')
  BY <1>1, <1>2, <1>5 DEF Top
<1> QED
  BY <1>2, <1>6 DEF Live, WorldInv, world

-----------------------------------------------------------------------------
(* The theorems.                                                           *)

LEMMA IInvInit == Init => IInv
<1> SUFFICES ASSUME Init PROVE IInv
  OBVIOUS
<1>1. context \in Contexts /\ frames = <<>> /\ made = 0 /\ aborted = FALSE
  BY AddressAssumption DEF Init, Contexts
<1>2. FramesInv(frames, context)
  BY <1>1, Idle
<1>3. WorldInv
  <2>1. <<>> \in Seq(Values)
    OBVIOUS
  <2>2. [events |-> <<>>, messages |-> <<>>] \in [events : Seq(Values), messages : Seq(Values)]
    BY <2>1
  <2>3. logs \in [Addresses -> [events : Seq(Values), messages : Seq(Values)]]
    BY <2>2 DEF Init
  <2>4. [k \in Keys |-> 0] \in [Keys -> Values \cup {0}]
    OBVIOUS
  <2>5. storage \in [Addresses -> [Keys -> Values \cup {0}]]
    BY <2>4 DEF Init
  <2>6. deployed \in [Addresses -> DOMAIN Declared \cup {None}] /\ blockHash \in BOOLEAN
        /\ executor \in BOOLEAN
    BY DEF Init
  <2> QED
    BY <2>3, <2>5, <2>6 DEF WorldInv
<1> QED
  BY <1>1, <1>2, <1>3 DEF IInv, Live

\* After an expect has failed nothing happens any more.
LEMMA GoneForGood ==
  ASSUME Gone
  PROVE  ~Next
<1>1. ~Running /\ frames # <<>>
  BY DEF Gone, Running
<1>2. \A cost : \A r : ~Syscall(cost) /\ ~Answers(cost, r) /\ ~deduct_gas(cost) /\ ~Cheat(r)
  BY <1>1 DEF Syscall, Answers, deduct_gas, Cheat
<1>3. ~Calls
  BY <1>1, <1>2 DEF Calls, deploy, library_call, call_contract, EntryPointReturns, EntryPointFails
<1>4. ~Queries
  <2>1. \A cost : ~Computes(cost)
    BY <1>2 DEF Computes
  <2>2. \A n \in 0..2, r \in BOOLEAN : ~keccak(n, r)
    BY <1>2 DEF keccak
  <2>3. /\ ~get_block_hash /\ ~get_execution_info /\ ~get_execution_info_v2
        /\ ~get_execution_info_v3 /\ ~sha256_process_block /\ ~sha512_process_block
        /\ \A a \in Addresses : ~get_class_hash_at(a)
        /\ \A d \in {0, 1}, k \in Keys : ~storage_read(d, k)
    BY <1>2 DEF get_block_hash, get_execution_info, get_execution_info_v2, get_execution_info_v3,
                sha256_process_block, sha512_process_block, get_class_hash_at, storage_read
  <2>4. /\ ~secp256k1_new /\ ~secp256k1_add /\ ~secp256k1_mul /\ ~secp256k1_get_point_from_x
        /\ ~secp256k1_get_xy /\ ~secp256r1_new /\ ~secp256r1_add /\ ~secp256r1_mul
        /\ ~secp256r1_get_point_from_x /\ ~secp256r1_get_xy
    BY <1>2, <2>1 DEF secp256k1_new, secp256k1_add, secp256k1_mul, secp256k1_get_point_from_x,
                      secp256k1_get_xy, secp256r1_new, secp256r1_add, secp256r1_mul,
                      secp256r1_get_point_from_x, secp256r1_get_xy
  <2> QED
    BY <1>2, <2>2, <2>3, <2>4 DEF Queries
<1>5. ~Updates
  BY <1>2 DEF Updates, replace_class, storage_write, emit_event, send_message_to_l1
<1>6. ~Cheats
  BY <1>2 DEF Cheats, set_caller_address, set_contract_address, pop_log, pop_l2_to_l1_message,
              set_block_hash, set_other_info
<1>7. ~HostReturn /\ ~Compute /\ \A a, b \in Addresses, g \in Budgets : ~HostCall(a, b, g)
  BY <1>1 DEF HostReturn, Compute, HostCall
<1> QED
  BY <1>3, <1>4, <1>5, <1>6, <1>7 DEF Next

LEMMA FailsStep ==
  ASSUME Live, EntryPointFails
  PROVE  IInv'
<1>1. frames \in Seq(Frames) /\ frames # <<>> /\ GasShrinks(frames) /\ context \in Contexts
  BY DEF Live, FramesInv, EntryPointFails, Top
<1> QED
  BY <1>1 DEF EntryPointFails, Live, IInv, Gone, WorldInv, world

LEMMA IInvStep == IInv /\ [Next]_vars => IInv'
<1> SUFFICES ASSUME IInv, [Next]_vars PROVE IInv'
  OBVIOUS
<1>1. CASE Live /\ Calls
  BY <1>1, DeployStep, LibraryCallStep, CallContractStep, ReturnsStep, FailsStep DEF Calls, IInv
<1>2. CASE UNCHANGED vars
  BY <1>2 DEF vars, IInv, Live, Gone, WorldInv
<1>3. CASE Live /\ Next /\ ~Calls
  <2>1. Live'
    BY <1>3, HostCallStep, HostReturnStep, ComputeStep, QueriesStep, UpdatesStep, CheatsStep DEF Next
  <2> QED
    BY <2>1 DEF IInv
<1> QED
  BY <1>1, <1>2, <1>3, GoneForGood DEF IInv

LEMMA Inductive == Spec => []IInv
BY IInvInit, IInvStep, PTL DEF Spec

LEMMA GasHolds == IInv => GasNeverCreated
BY DEF IInv, Live, Gone, FramesInv, GasShrinks, GasNeverCreated, Top

\* The variables have their types: storage, classes, queues, the context and the gas of
\* every frame, whatever calls are nested in whatever others.
THEOREM TypeCorrect == Spec => []TypeOK
<1>1. IInv => TypeOK
  <2> SUFFICES ASSUME IInv PROVE TypeOK
    OBVIOUS
  <2>1. \A i \in 1..Top : frames[i].gas \in Nat
    <3>1. frames \in Seq(Frames) /\ Top = Len(frames)
      BY DEF IInv, Live, Gone, FramesInv, Top
    <3>2. \A i \in 1..Top : frames[i] \in Frames
      BY <3>1
    <3> QED
      BY <3>2 DEF Frames
  <2>2. deployed \in [Addresses -> Classes \cup {None}]
    BY DEF IInv, Live, Gone, WorldInv, Classes
  <2> QED
    BY <2>1, <2>2 DEF IInv, Live, Gone, FramesInv, WorldInv, Contexts, TypeOK
<1> QED
  BY <1>1, Inductive, PTL

\* execution_info names the innermost contract that was called or deployed, and its caller.
THEOREM ContextCorrect == Spec => []ContextIsInnermost
<1>1. IInv => ContextIsInnermost
  <2> SUFFICES ASSUME IInv, Running PROVE context = [contract |-> Self, caller |-> frames[Owner(frames)].caller]
    BY DEF ContextIsInnermost
  <2> QED
    BY OwnsContext DEF IInv, Live, Gone, Running, Top, Self
<1> QED
  BY <1>1, Inductive, PTL

\* Only declared classes are registered.
THEOREM ClassesDeclared == Spec => []RegisteredIsDeclared
<1>1. IInv => RegisteredIsDeclared
  BY DEF IInv, Live, Gone, WorldInv, RegisteredIsDeclared
<1> QED
  BY <1>1, Inductive, PTL

\* A callee's gas, with the entry point cost it is refunded, is its caller's at most.
THEOREM GasOnlyUsed == Spec => []GasNeverCreated
BY GasHolds, Inductive, PTL

\* A contract's storage is written, and its queues are extended, by that contract only.
THEOREM OnlyOwnStateWritten == Spec => OnlyOwnState
<1> DEFINE Step == \A a \in Addresses :
       (storage'[a] # storage[a] \/ Len(logs'[a].events) > Len(logs[a].events)
          \/ Len(logs'[a].messages) > Len(logs[a].messages)) => a = Self
<1>1. IInv /\ [Next]_vars => [Step]_vars
  <2> SUFFICES ASSUME Live, Next, NEW a \in Addresses, a # Self
               PROVE  /\ storage'[a] = storage[a]
                      /\ ~(Len(logs'[a].events) > Len(logs[a].events))
                      /\ ~(Len(logs'[a].messages) > Len(logs[a].messages))
    BY GoneForGood DEF IInv
  <2>1. /\ storage \in [Addresses -> [Keys -> Values \cup {0}]]
        /\ logs \in [Addresses -> [events : Seq(Values), messages : Seq(Values)]]
    BY DEF Live, WorldInv
  <2>2. logs[a].events \in Seq(Values) /\ logs[a].messages \in Seq(Values)
    BY <2>1
  <2>3. Len(logs[a].events) \in Nat /\ Len(logs[a].messages) \in Nat
    BY <2>2
  <2>4. Len(frames) > 0 => context.contract = Self
    BY OwnsContext DEF Live, Self
  <2>5. CASE storage' = storage /\ logs' = logs
    BY <2>3, <2>5
  <2>6. CASE Calls
    BY <2>5, <2>6 DEF Calls, deploy, library_call, call_contract, EntryPointReturns,
                     EntryPointFails, world
  <2>7. CASE Queries
    <3> DEFINE Kept == storage' = storage /\ logs' = logs
    <3>1. get_execution_info \/ get_execution_info_v2 \/ get_execution_info_v3 \/ get_block_hash
            => Kept
      BY DEF get_execution_info, get_execution_info_v2, get_execution_info_v3, get_block_hash, world
    <3>2. secp256k1_new \/ secp256k1_add \/ secp256k1_mul \/ secp256k1_get_point_from_x
            \/ secp256k1_get_xy => Kept
      BY DEF secp256k1_new, secp256k1_add, secp256k1_mul, secp256k1_get_point_from_x,
             secp256k1_get_xy, Computes, world
    <3>3. secp256r1_new \/ secp256r1_add \/ secp256r1_mul \/ secp256r1_get_point_from_x
            \/ secp256r1_get_xy => Kept
      BY DEF secp256r1_new, secp256r1_add, secp256r1_mul, secp256r1_get_point_from_x,
             secp256r1_get_xy, Computes, world
    <3>4. sha256_process_block \/ sha512_process_block => Kept
      BY DEF sha256_process_block, sha512_process_block, world
    <3>5. \A n \in 0..2, r \in BOOLEAN : keccak(n, r) => Kept
      BY DEF keccak, world
    <3>6. /\ \A b \in Addresses : get_class_hash_at(b) => Kept
          /\ \A e \in {0, 1}, k \in Keys : storage_read(e, k) => Kept
      BY DEF get_class_hash_at, storage_read, world
    <3>7. \A m \in DOMAIN Cost : deduct_gas(Cost[m]) => Kept
      BY DEF deduct_gas, world
    <3>8. Kept
      <4> HIDE DEF Kept
      <4> QED
        BY <2>7, <3>1, <3>2, <3>3, <3>4, <3>5, <3>6, <3>7 DEF Queries
    <3> QED
      BY <2>5, <3>8
  <2>8. CASE Updates
    <3>1. \A c \in Classes : replace_class(c) => storage' = storage /\ logs' = logs
      BY DEF replace_class
    <3>2. ASSUME NEW e \in {0, 1}, NEW k \in Keys, NEW v \in Values, storage_write(e, k, v)
          PROVE  storage'[a] = storage[a] /\ logs' = logs
      <4>1. /\ logs' = logs
            /\ \/ storage' = storage
               \/ storage' = [storage EXCEPT ![context.contract][k] = v]
        BY <3>2 DEF storage_write
      <4>2. Len(frames) > 0
        BY <3>2 DEF storage_write, Answers, Syscall, Running, Top
      <4> QED
        BY <2>1, <2>4, <4>1, <4>2
    <3>3. ASSUME NEW v \in Values, emit_event(v) \/ send_message_to_l1(v)
          PROVE  storage' = storage /\ logs'[a] = logs[a]
      <4>1. Len(frames) > 0
        BY <3>3 DEF emit_event, send_message_to_l1, Answers, Syscall, Running, Top
      <4>2. a # context.contract
        BY <2>4, <4>1
      <4>3. CASE emit_event(v)
        BY <2>1, <4>2, <4>3 DEF emit_event
      <4>4. CASE send_message_to_l1(v)
        BY <2>1, <4>2, <4>4 DEF send_message_to_l1
      <4> QED
        BY <3>3, <4>3, <4>4
    <3> QED
      BY <2>3, <2>5, <2>8, <3>1, <3>2, <3>3 DEF Updates
  <2>9. CASE Cheats
    <3>1. ASSUME NEW b \in Addresses, pop_log(b) \/ pop_l2_to_l1_message(b)
          PROVE  /\ storage' = storage
                 /\ ~(Len(logs'[a].events) > Len(logs[a].events))
                 /\ ~(Len(logs'[a].messages) > Len(logs[a].messages))
      <4>1. storage' = storage
        BY <3>1 DEF pop_log, pop_l2_to_l1_message
      <4>2. CASE logs'[a] = logs[a]
        BY <2>3, <4>1, <4>2
      <4>3. CASE logs'[a] # logs[a]
        <5>1. \/ /\ logs[a].events # <<>>
                 /\ logs'[a] = [logs[a] EXCEPT !.events = Tail(logs[a].events)]
              \/ /\ logs[a].messages # <<>>
                 /\ logs'[a] = [logs[a] EXCEPT !.messages = Tail(logs[a].messages)]
          <6>1. CASE pop_log(b)
            BY <2>1, <4>3, <6>1 DEF pop_log
          <6>2. CASE pop_l2_to_l1_message(b)
            BY <2>1, <4>3, <6>2 DEF pop_l2_to_l1_message
          <6> QED
            BY <3>1, <6>1, <6>2
        <5>2. /\ logs[a].events # <<>> => Len(Tail(logs[a].events)) = Len(logs[a].events) - 1
              /\ logs[a].messages # <<>> => Len(Tail(logs[a].messages)) = Len(logs[a].messages) - 1
          BY <2>2
        <5>3. logs[a] \in [events : Seq(Values), messages : Seq(Values)]
          BY <2>1
        <5>4. \/ /\ Len(logs'[a].events) = Len(logs[a].events) - 1
                 /\ Len(logs'[a].messages) = Len(logs[a].messages)
              \/ /\ Len(logs'[a].messages) = Len(logs[a].messages) - 1
                 /\ Len(logs'[a].events) = Len(logs[a].events)
          BY <5>1, <5>2, <5>3
        <5> QED
          BY <2>3, <4>1, <5>4
      <4> QED
        BY <4>2, <4>3
    <3> QED
      BY <2>5, <2>9, <3>1
      DEF Cheats, set_caller_address, set_contract_address, set_block_hash, set_other_info, world
  <2>10. (\E b \in Addresses, c \in Addresses, g \in Budgets : HostCall(b, c, g))
           \/ HostReturn \/ Compute => storage' = storage /\ logs' = logs
    BY DEF HostCall, HostReturn, Compute, world
  <2> QED
    BY <2>5, <2>6, <2>7, <2>8, <2>9, <2>10 DEF Next
<1>2. Spec => [][Step]_vars
  BY <1>1, Inductive, PTL DEF Spec
<1> QED
  BY <1>2 DEF OnlyOwnState
=============================================================================
