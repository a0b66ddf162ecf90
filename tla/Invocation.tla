----------------------------- MODULE Invocation -----------------------------
(***************************************************************************)
(* One thread that invokes compiled code: executor.rs (invoke_dynamic,     *)
(* InvocationGuard), executor/contract.rs (AotContractExecutor::run),      *)
(* utils/safe_runner.rs and the thread-local state of runtime.rs, built    *)
(* with the features with-segfault-catcher and with-cheatcode.             *)
(*                                                                         *)
(* Compiled code calls back into the host through syscalls, and the host   *)
(* invokes another contract from there: invocations nest.  Each one        *)
(* replaces the thread-local variables (install) and puts them back when   *)
(* its guard is dropped.  A segmentation fault in compiled code, in the    *)
(* runtime functions it calls, or in host code of a nested invocation (a   *)
(* stack overflow) jumps to the innermost run_safely without running any   *)
(* destructor on the way.                                                  *)
(***************************************************************************)
EXTENDS Naturals, Sequences, FiniteSets

CONSTANTS
  Costs,            \* builtin cost tables a caller of run() may pass
  DefaultCosts,     \* BuiltinCosts::default()
  MaxDepth,         \* bound: invocations nested at once
  MaxCalls,         \* bound: invocations in all (names the arenas)
  MaxDicts,         \* bound: dictionaries in all
  MaxBlake          \* bound: blake calls one invocation makes

ASSUME CostsAssumption == DefaultCosts \in Costs
ASSUME BoundsAssumption ==
  MaxDepth \in Nat /\ MaxCalls \in Nat /\ MaxDicts \in Nat /\ MaxBlake \in Nat

VARIABLES
  tls,              \* the thread-local variables
  stack,            \* the invocations in progress, innermost last
  calls,            \* number of invocations started
  live,             \* arenas that have not been freed; 0 is the thread's own
  dicts,            \* every FeltDict made: its arena, whether its map has entries (and
                    \* with them memory of the system heap), drops of its map
  outcome,          \* what the last finished invocation returned (at first: Err)
  status,           \* "ok", or how the process died
  skipped           \* history: a jump has gone over a guard without dropping it

vars == <<tls, stack, calls, live, dicts, outcome, status, skipped>>

Arenas == 0..MaxCalls
DictIds == 1..MaxDicts

\* BUILTIN_COSTS, BLAKE_CALL_COUNT, EXECUTION_ARENA, DICT_REGISTRY: what a guard saves.
Saved == [costs : Costs, blake : 0..MaxBlake, arena : Arenas, registry : SUBSET DictIds]

Phases == {"installed", "running", "returned", "ended", "unwinding", "dropping"}

\* handler: SYSCALL_HANDLER_VTABLE (the call whose handler it points to, 0 is null);
\* runner: the safe runner's STATE (the invocation whose jump buffer is active, 0 is
\* Inactive); cell: which RefCell the runtime has borrowed, or "made": it has borrowed
\* none, and dict_new has written a FeltDict that is in no registry yet.
Tls == [costs : Costs, blake : 0..MaxBlake, arena : Arenas, registry : SUBSET DictIds,
        handler : Arenas, runner : 0..MaxDepth, cell : {"free", "arena", "made", "registry"}]

Frame == [call : 1..MaxCalls, phase : Phases, saved : Saved,
          setsHandler : BOOLEAN, oldHandler : Arenas, oldRunner : 0..MaxDepth,
          result : 0..MaxBlake]

FeltDict == [home : Arenas, filled : BOOLEAN, drops : 0..1]

\* The part of the returned result that thread-local state contributes to.
Ok(n) == [ok |-> TRUE, blake |-> n]
Err == [ok |-> FALSE, blake |-> 0]

Depth == Len(stack)
Top == stack[Depth]
InPhase(ph) == Depth > 0 /\ Top.phase = ph
GoTo(ph) == stack' = [stack EXCEPT ![Depth].phase = ph]

Context == [costs |-> tls.costs, blake |-> tls.blake, arena |-> tls.arena,
            registry |-> tls.registry]

Init ==
  /\ tls = [costs |-> DefaultCosts, blake |-> 0, arena |-> 0, registry |-> {},
            handler |-> 0, runner |-> 0, cell |-> "free"]
  /\ stack = <<>>
  /\ calls = 0
  /\ live = {0}
  /\ dicts = <<>>
  /\ outcome = Err
  /\ status = "ok"
  /\ skipped = FALSE

Sane == status = "ok" /\ tls.cell = "free"

-----------------------------------------------------------------------------
(* Invocations start and enter the compiled code. *)

\* The guard that forgets to start the blake counter again.
Install_BlakeKept(c, h) ==
  /\ Sane
  /\ Depth = 0 \/ InPhase("running")
  /\ Depth < MaxDepth /\ calls < MaxCalls
  /\ calls' = calls + 1
  /\ live' = live \cup {calls'}
  /\ stack' = Append(stack, [call |-> calls', phase |-> "installed", saved |-> Context,
                             setsHandler |-> h, oldHandler |-> tls.handler,
                             oldRunner |-> 0, result |-> 0])
  /\ tls' = [tls EXCEPT !.costs = c, !.arena = calls', !.registry = {},
                        !.handler = IF h THEN calls' ELSE @]
  /\ UNCHANGED <<dicts, outcome, status, skipped>>

\* InvocationGuard::install.  The caller is the application, or a syscall handler of
\* the innermost running invocation.  Errors before this point change nothing.
Install(c, h) ==
  /\ Sane
  /\ Depth = 0 \/ InPhase("running")
  /\ Depth < MaxDepth /\ calls < MaxCalls
  /\ calls' = calls + 1
  /\ live' = live \cup {calls'}
  /\ stack' = Append(stack, [call |-> calls', phase |-> "installed", saved |-> Context,
                             setsHandler |-> h, oldHandler |-> tls.handler,
                             oldRunner |-> 0, result |-> 0])
  /\ tls' = [tls EXCEPT !.costs = c, !.blake = 0, !.arena = calls', !.registry = {},
                        !.handler = IF h THEN calls' ELSE @]
  /\ UNCHANGED <<dicts, outcome, status, skipped>>

\* AotContractExecutor::run: the caller's costs or the default, no handler pointer.
RunContract(c) == Install(c, FALSE)

\* invoke_dynamic: default costs; the handler pointer when there is a handler.
InvokeDynamic(h) == Install(DefaultCosts, h)

\* run_safely: the previous state is saved, this invocation becomes the jump target.
EnterSafely ==
  /\ Sane /\ InPhase("installed")
  /\ stack' = [stack EXCEPT ![Depth].phase = "running", ![Depth].oldRunner = tls.runner]
  /\ tls' = [tls EXCEPT !.runner = Depth]
  /\ UNCHANGED <<calls, live, dicts, outcome, status, skipped>>

\* A `?` while arguments are marshalled or results are parsed: the guard is dropped.
HostError ==
  /\ Sane /\ (InPhase("installed") \/ InPhase("returned"))
  /\ GoTo("unwinding")
  /\ UNCHANGED <<tls, calls, live, dicts, outcome, status, skipped>>

-----------------------------------------------------------------------------
(* Runtime functions, called by compiled code and by argument marshalling. *)

Allocating == InPhase("installed") \/ InPhase("running")

\* cairo_native__libfunc__blake_compress counts the call.
BlakeCompress ==
  /\ Sane /\ InPhase("running")
  /\ tls.blake < MaxBlake
  /\ tls' = [tls EXCEPT !.blake = @ + 1]
  /\ UNCHANGED <<stack, calls, live, dicts, outcome, status, skipped>>

\* cairo_native__arena_alloc, and the first half of dict_new: EXECUTION_ARENA is
\* borrowed while the bump allocator runs.
BorrowArena ==
  /\ Sane /\ Allocating
  /\ tls' = [tls EXCEPT !.cell = "arena"]
  /\ UNCHANGED <<stack, calls, live, dicts, outcome, status, skipped>>

EndAlloc ==
  /\ status = "ok" /\ Allocating /\ tls.cell = "arena"
  /\ tls' = [tls EXCEPT !.cell = "free"]
  /\ UNCHANGED <<stack, calls, live, dicts, outcome, status, skipped>>

\* cairo_native__dict_new: the borrow ends, and a struct with an empty map is written
\* into the current arena with nothing borrowed ...
DictInArena ==
  /\ status = "ok" /\ Allocating /\ tls.cell = "arena"
  /\ Len(dicts) < MaxDicts
  /\ dicts' = Append(dicts, [home |-> tls.arena, filled |-> FALSE, drops |-> 0])
  /\ tls' = [tls EXCEPT !.cell = "made"]
  /\ UNCHANGED <<stack, calls, live, outcome, status, skipped>>

\* ... DICT_REGISTRY is borrowed ...
BorrowRegistry ==
  /\ status = "ok" /\ Allocating /\ tls.cell = "made"
  /\ tls' = [tls EXCEPT !.cell = "registry"]
  /\ UNCHANGED <<stack, calls, live, dicts, outcome, status, skipped>>

\* ... and the pointer pushed.
RegisterDict ==
  /\ status = "ok" /\ Allocating /\ tls.cell = "registry"
  /\ tls' = [tls EXCEPT !.cell = "free", !.registry = @ \cup {Len(dicts)}]
  /\ UNCHANGED <<stack, calls, live, dicts, outcome, status, skipped>>

\* cairo_native__dict_get inserts a key, or to_ptr reserves room for a host's entries:
\* from here the map has memory of the system heap, which no arena gives back.
FillMap(d) ==
  /\ Sane /\ Allocating
  /\ d \in tls.registry
  /\ dicts' = [dicts EXCEPT ![d].filled = TRUE]
  /\ UNCHANGED <<tls, stack, calls, live, outcome, status, skipped>>

-----------------------------------------------------------------------------
(* Leaving the compiled code. *)

\* run_safely that leaves its own jump buffer active.
ReturnFromCode_RunnerKept ==
  /\ Sane /\ InPhase("running")
  /\ GoTo("returned")
  /\ UNCHANGED <<tls, calls, live, dicts, outcome, status, skipped>>

\* The trampoline returns and run_safely restores the previous state.
ReturnFromCode ==
  /\ Sane /\ InPhase("running")
  /\ GoTo("returned")
  /\ tls' = [tls EXCEPT !.runner = Top.oldRunner]
  /\ UNCHANGED <<calls, live, dicts, outcome, status, skipped>>

\* Values are copied out of the arena, the blake counter is read, drop(guard) follows.
ReadResults ==
  /\ Sane /\ InPhase("returned")
  /\ stack' = [stack EXCEPT ![Depth].phase = "ended", ![Depth].result = tls.blake]
  /\ UNCHANGED <<tls, calls, live, dicts, outcome, status, skipped>>

\* segfault_handler / abort_safe_runner: longjmp to the active buffer.  That run_safely
\* restores the state before it and returns Err; guards above it are never dropped, not
\* even the rest of one that was being dropped.
Segfault ==
  /\ status = "ok" /\ Depth > 0
  /\ tls.runner # 0
  /\ LET j == tls.runner
     IN  /\ stack' = [SubSeq(stack, 1, j) EXCEPT ![j].phase = "unwinding"]
         /\ tls' = [tls EXCEPT !.runner = stack[j].oldRunner,
                               !.cell = IF @ = "made" THEN "free" ELSE @]
         /\ skipped' = (skipped \/ j < Depth)
  /\ UNCHANGED <<calls, live, dicts, outcome, status>>

\* Inactive: the handler aborts the process.
SegfaultOutside ==
  /\ status = "ok" /\ Depth > 0
  /\ tls.runner = 0
  /\ status' = "aborted"
  /\ UNCHANGED <<tls, stack, calls, live, dicts, outcome, skipped>>

-----------------------------------------------------------------------------
(* InvocationGuard::drop, in the order of its statements. *)

DroppingGuard == InPhase("ended") \/ InPhase("unwinding")

\* A guard that drops the maps but leaves the registry in place for its caller.
DropDicts_NoSwap ==
  /\ status = "ok" /\ DroppingGuard
  /\ tls.cell # "registry"
  /\ tls' = [tls EXCEPT !.costs = Top.saved.costs, !.blake = Top.saved.blake]
  /\ dicts' = [d \in DOMAIN dicts |->
                 IF d \in tls.registry
                 THEN [dicts[d] EXCEPT !.drops = @ + 1] ELSE dicts[d]]
  /\ outcome' = IF Top.phase = "ended" THEN Ok(Top.result) ELSE Err
  /\ GoTo("dropping")
  /\ UNCHANGED <<calls, live, status, skipped>>

\* A guard that swaps the registry and leaves the maps on the heap.
DropDicts_NoDrain ==
  /\ status = "ok" /\ DroppingGuard
  /\ tls.cell # "registry"
  /\ tls' = [tls EXCEPT !.costs = Top.saved.costs, !.blake = Top.saved.blake,
                        !.registry = Top.saved.registry]
  /\ outcome' = IF Top.phase = "ended" THEN Ok(Top.result) ELSE Err
  /\ GoTo("dropping")
  /\ UNCHANGED <<calls, live, dicts, status, skipped>>

\* Costs and blake count go back; the registry is swapped and the maps of the
\* dictionaries it held are dropped in place.
DropDicts ==
  /\ status = "ok" /\ DroppingGuard
  /\ tls.cell # "registry"
  /\ tls' = [tls EXCEPT !.costs = Top.saved.costs, !.blake = Top.saved.blake,
                        !.registry = Top.saved.registry]
  /\ dicts' = [d \in DOMAIN dicts |->
                 IF d \in tls.registry
                 THEN [dicts[d] EXCEPT !.drops = @ + 1] ELSE dicts[d]]
  /\ outcome' = IF Top.phase = "ended" THEN Ok(Top.result) ELSE Err
  /\ GoTo("dropping")
  /\ UNCHANGED <<calls, live, status, skipped>>

\* A guard that never puts the handler pointer back.
DropArena_HandlerKept ==
  /\ status = "ok" /\ InPhase("dropping")
  /\ tls.cell = "free"
  /\ live' = live \ {tls.arena}
  /\ tls' = [tls EXCEPT !.arena = Top.saved.arena]
  /\ stack' = SubSeq(stack, 1, Depth - 1)
  /\ UNCHANGED <<calls, dicts, outcome, status, skipped>>

\* The arena is swapped back and the one in place is freed with the guard; the
\* handler pointer is put back when this guard had replaced it.
DropArena ==
  /\ status = "ok" /\ InPhase("dropping")
  /\ tls.cell = "free"
  /\ live' = live \ {tls.arena}
  /\ tls' = [tls EXCEPT !.arena = Top.saved.arena,
                        !.handler = IF Top.setsHandler THEN Top.oldHandler ELSE @]
  /\ stack' = SubSeq(stack, 1, Depth - 1)
  /\ UNCHANGED <<calls, dicts, outcome, status, skipped>>

\* borrow_mut of a RefCell that a jump left borrowed panics inside the destructor.
DropPanics ==
  /\ status = "ok"
  /\ \/ DroppingGuard /\ tls.cell = "registry"
     \/ InPhase("dropping") /\ tls.cell = "arena"
  /\ status' = "panicked"
  /\ UNCHANGED <<tls, stack, calls, live, dicts, outcome, skipped>>

-----------------------------------------------------------------------------

Next ==
  \/ \E c \in Costs : RunContract(c)
  \/ \E h \in BOOLEAN : InvokeDynamic(h)
  \/ EnterSafely \/ HostError
  \/ BlakeCompress \/ BorrowArena \/ EndAlloc \/ DictInArena \/ BorrowRegistry
  \/ RegisterDict \/ \E d \in DictIds : FillMap(d)
  \/ ReturnFromCode \/ ReadResults
  \/ Segfault \/ SegfaultOutside
  \/ DropDicts \/ DropArena \/ DropPanics

Spec == Init /\ [][Next]_vars

-----------------------------------------------------------------------------
(* Properties *)

TypeOK ==
  /\ tls \in Tls
  /\ stack \in Seq(Frame) /\ Depth <= MaxDepth
  /\ calls \in 0..MaxCalls
  /\ live \subseteq Arenas
  /\ dicts \in Seq(FeltDict) /\ Len(dicts) <= MaxDicts
  /\ outcome \in [ok : BOOLEAN, blake : 0..MaxBlake]
  /\ status \in {"ok", "aborted", "panicked"}
  /\ skipped \in BOOLEAN

\* The context invocation i will continue with (0 is the bare thread): the thread-local
\* variables when it is innermost, else what the guard above it saved.
ContextOf(i) ==
  IF i = Depth THEN Context
  ELSE IF i = Depth - 1 /\ Top.phase = "dropping"
       THEN [Context EXCEPT !.arena = Top.saved.arena]
       ELSE stack[i + 1].saved

\* Nothing an invocation can still reach has been freed: its arena, the arenas of its
\* registered dictionaries, their maps; also after a jump over a guard, and between
\* the statements of InvocationGuard::drop.
NoDangling ==
  \A i \in 0..Depth :
    LET c == ContextOf(i)
    IN  /\ c.arena \in live
        /\ \A d \in c.registry : dicts[d].home \in live /\ dicts[d].drops = 0

\* When no guard was jumped over, nothing leaks: the thread is left with its own arena,
\* and every map that took memory of the system heap has been dropped, wherever a fault
\* came.  (A dictionary that dict_new could not register any more is in no registry and
\* its map is never dropped, but it is empty and went with the arena.)
NoLeak ==
  status = "ok" /\ Depth = 0 /\ ~skipped =>
    /\ live = {0}
    /\ \A d \in DOMAIN dicts : dicts[d].filled => dicts[d].drops = 1

\* A jump goes to the innermost invocation that is inside run_safely, whose stack
\* frame still exists, and nowhere when there is none (SafeRunnerState).
JumpTargetLive ==
  LET inside == {i \in 1..Depth : stack[i].phase = "running"}
  IN  IF inside = {} THEN tls.runner = 0
      ELSE tls.runner \in inside /\ \A i \in inside : i <= tls.runner

\* The cheatcode handler pointer is null or points to a handler of an invocation in
\* progress, as long as no guard was jumped over (InvocationGuard::install's note).
HandlerAlive ==
  ~skipped => \/ tls.handler = 0
              \/ \E i \in 1..Depth : stack[i].call = tls.handler

\* safe_runner.rs: contracts run "without any risk of crashing due to invalid memory
\* accesses, including stack overflows": a fault inside run_safely ends in an error.
FaultBecomesError == status # "panicked"

-----------------------------------------------------------------------------
(* The thread-local variables implement a context per invocation. *)

AbstractFrame(i) ==
  IF i > 0 /\ stack[i].phase = "unwinding" THEN [failed |-> TRUE]
  ELSE LET c == ContextOf(i)
       IN  [failed |-> FALSE, costs |-> c.costs, blake |-> c.blake, arena |-> c.arena,
            dicts |-> c.registry]

\* An invocation whose dictionaries have been dropped is over.
AbstractDepth == IF InPhase("dropping") THEN Depth - 1 ELSE Depth

Abstract == INSTANCE InvocationSpec
  WITH Dicts <- DictIds,
       frames <- [i \in 1..(AbstractDepth + 1) |-> AbstractFrame(i - 1)]

\* Nested invocations are isolated from one another (InvocationGuard).
Isolated == Abstract!Spec
=============================================================================
