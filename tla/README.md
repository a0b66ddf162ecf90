# Cairo Native in TLA+

Cairo Native compiles Sierra, the intermediate representation of Cairo, to machine code through
MLIR, and runs it inside the sequencer's process. This directory holds a formal model of it: what
several processes do to the contract cache on disk, what nested invocations do to the runtime's
thread-local state, how arrays and dictionaries share and move memory, how a function becomes
blocks, how values and system calls cross the boundary between host and compiled code, what each
libfunc computes, and how gas moves. Wherever the repository's reference interpreter, sierra-emu,
says what the result should be, the compiled operation is compared with it.
TLC checks the models on small instances; TLAPS proves the safety properties of the eight stateful
components (cache, invocation, arrays, dictionaries, system calls, stub handler, gas, compiler), the refinements
of their abstract specifications included, for instances of any size. `PROJECT.json` lists every component, run, mutant,
hazard and theorem, and the source lines each definition stands for. Paths below are relative to
the library crate, `src/src/`, unless they start with `debug_utils`.

Contents: [inventory](#1-inventory), [modules](#2-modules), [runs](#3-runs),
[proofs](#4-proofs), [findings](#5-what-the-models-found), [not modelled](#6-what-is-not-modelled),
[plan](#7-plan).

## 1. Inventory

| Component | State it keeps | Operations | What is hard, and what makes it correct |
|---|---|---|---|
| Contract cache on disk (`executor/contract.rs`, `ffi.rs`) | the lock file, the library, the `.json` beside it | `new_into`, `from_path`, `LockFile::{new, rename, drop}` | several processes, failing steps, kills. One builder at a time; the library appears whole and after its information; the lock goes away |
| Invocation (`executor.rs`, `executor/contract.rs`, `utils/safe_runner.rs`, `runtime.rs`) | `BUILTIN_COSTS`, `BLAKE_CALL_COUNT`, `EXECUTION_ARENA`, `DICT_REGISTRY`, the cheatcode pointer, the safe runner's jump buffer | `InvocationGuard::{install, drop}`, `run_safely`, the signal handler, arena and dictionary allocation | invocations nest through syscalls; a fault jumps over destructors. Contexts do not mix, nothing dangles, nothing is dropped twice or never |
| Arrays (`libfuncs/array.rs`, `libfuncs/dup.rs`, `types/array.rs`) | the arena's buffers; four-word handles; boxes that point into buffers | new, append, pops, get, slice, len, conversions, snapshot, dup | buffers are shared without reference counts, offsets are 32 bits. Sharing is invisible, reads stay in written memory |
| Dictionaries (`runtime.rs`, `libfuncs/felt252_dict*.rs`, `squashed_dict.rs`) | key map, element buffer, access count | new, entry get/finalize, squash, into entries | the element buffer moves when it grows; the refund is `count - len`. Implements a map; accounting never wraps |
| Gas (`metadata/gas.rs`, `libfuncs/gas.rs`, `gas_reserve.rs`, `coupon.rs`) | the 64-bit counter, reserves, per-statement costs | withdraw, redeposit, get unspent, reserve create/utilize, initial gas | saturating and wrapping arithmetic side by side. Gas is conserved |
| Values and calling convention (`values.rs`, `arch/`, `types.rs`, `executor.rs`) | argument words, return memory | `Value::to_ptr`, `from_ptr`, `ArgBuffer`, `parse_result` | layouts, padding, register/stack split. What is written is read back |
| Starknet syscalls (`starknet.rs`, `libfuncs/starknet.rs`) | the vtable, the remaining gas | one wrapper per syscall | gas is written back on both branches; answers live in the arena |
| Stub handler (`starknet_stub.rs`) | storage, events, logs, block info | the `StarknetSyscallHandler` trait | the state machine the test suite runs contracts against |
| Compiler control flow (`compiler.rs`, `metadata/tail_recursion.rs`, `utils/walk_ir.rs`) | blocks, the state of variables, the depth counter | statement traversal, landing blocks, tail calls, returns | a recursive function with a single tail call becomes a loop that returns as often as it recursed |
| Integers, casts, bounded ints (`libfuncs/int.rs`, `cast.rs`, `bounded_int.rs`, `uint256.rs`, ...) | none | arithmetic and range-checked branches | widths, signs, boundaries |
| Felts, curves, hashes (`libfuncs/felt252.rs`, `ec.rs`, `runtime.rs`, ...) | none | field arithmetic; calls into external crates | reduction modulo the prime |
| Enums, structs, boxes, nullables, constants (`libfuncs/{enum,struct,box,nullable,const}.rs`, `types/`) | none | construct, match, box, unbox | tags and padding |
| Circuits (`libfuncs/circuit.rs`) | gate values, the index of the first failing inverse | evaluation, output lookup | partial evaluation when an inverse does not exist |
| Program executors and caches (`executor/{aot,jit}.rs`, `cache/`) | a map of compiled programs | compile and insert, get | exclusive access; they end in `invoke_dynamic` |
| Reference interpreter (`debug_utils/sierra-emu`) | one value per variable | one `eval` per libfunc | it is the meaning the compiled code must have |
| Context, bindings, debugging, statistics, tools | - | MLIR/LLVM calls, formatting, drivers | out of reach or no behaviour of their own |

How they interact. A caller obtains an `AotContractExecutor` through the cache and calls `run`.
`run` installs an `InvocationGuard`, which replaces the thread-local variables, marshals the
arguments into the new arena and enters the machine code inside `run_safely`. The code calls
back: into the runtime (arena, dictionaries, blake), which works on the thread-local variables,
and through the vtable into the syscall handler, which may call `run` of another contract on the
same thread. The results are copied out of the arena and the guard is dropped. Arrays and
dictionaries are what compiled code keeps in the arena meanwhile.

## 2. Modules

| Module | What it is |
|---|---|
| `AotContractCache`, `AotContractCacheProofs` | the cache: processes, three files, failures, kills; its theorems |
| `InvocationSpec` | what an invocation promises: a context of its own |
| `Invocation`, `InvocationProofs` | the thread-local variables and their save/restore discipline, implements `InvocationSpec`; its theorems |
| `ArraySpec` | arrays as values, from the reference interpreter |
| `ArrayArena`, `ArrayArenaProofs` | arrays as four words and shared buffers, implements `ArraySpec`; its theorems |
| `DictSpec` | dictionaries as partial functions, from the reference interpreter |
| `FeltDict`, `FeltDictProofs` | dictionaries as index map, element buffer and entry pointer, implements `DictSpec`; its theorems |
| `SyscallSpec` | what a system call promises: the handler is asked what the contract passed |
| `SyscallAbi`, `SyscallEmulator` | system calls through slots, registers, callback table and answer union, implements `SyscallSpec`; the interpreter's, next to it |
| `SyscallProofs` | the theorems of both |
| `StubHandler`, `StubHandlerProofs` | the in-memory Starknet: contexts, storage, deployments, nested calls, gas; its theorems |
| `SierraMachine` | the interpreter's machine: frames, statements, variables |
| `FunctionCompiler` | `compile_func`: two traversals, landing blocks, tail calls, deferred returns |
| `CompiledProgram` | the compiled blocks, run; implements `SierraMachine` |
| `CompilerProofs` | the theorems about the regions that are compiled, and that they run the Sierra program |
| `GasLibfuncs`, `Gas`, `GasProofs` | gas libfuncs on both sides; the gas of one invocation; its theorems |
| `MachineIntegers` | integer types and words at small widths |
| `IntegerLibfuncs`, `WideLibfuncs` | integers, bounded integers, casts, felts; u256, u512, inverses, storage addresses: compiled |
| `IntegerEmulator` | all of these, interpreted |
| `CircuitLibfuncs`, `CircuitEmulator`, `CircuitCalls` | circuits: compiled, interpreted, and their calls |
| `TypeLayouts` | sizes, alignments and ways of passing, by the host and by LLVM |
| `ValueMemory` | bytes in memory; `Value::{to_ptr, from_ptr}`; loads and stores |
| `CallingConvention` | argument words, registers and stack, return pointer, results |
| `CompositeLibfuncs` | enums, structs, boxes, nullables, constants: compiled and interpreted |
| `ValueJourneys` | a composite value through the host, a compiled function, and back |
| `LibfuncCall`, `Libfuncs` | one call of any libfunc on any operands, on both sides |
| `MC...` | instances for TLC (the two runs of `Invocation` need none: their constants are model values and numbers) |

Names ending in `_Something` beside a mapped definition (`TakeLock_PlainCreate`,
`PopFront_Rewind`) are faulty versions of it: a slip somebody could make in that code. They take
part in no specification; `PROJECT.json` says which property each one breaks.

### AotContractCache

`pc[p]` is where process `p` is in its call; `lockFile`, `libFile` and `jsonFile` are the contents
of the three files. The linker writes into the lock file (`new_into` passes `lock_file.0` as its
output) and `LockFile::rename` turns it into the library, so the lock is at once a lock and
the new library.

| Action | Code |
|---|---|
| `TakeLock`, `LockTaken` | `LockFile::new` with `create_new`; `AlreadyExists` makes `new_into` return `Ok(None)` |
| `StartLink`, `EndLink` | compilation, then `object_to_shared_lib` into the lock file |
| `StartInfo`, `EndInfo` | `fs::write` of the `.json`: truncated, then written, in place |
| `RenameLock` | `LockFile::rename`; `new_into` continues in `from_path` |
| `BuildFails` | any `?` while the lock is held; `LockFile::drop` removes the file |
| `CallFromPath`, `LoadLibrary`, `ReadInfo` | `from_path`: first the library, then its information |
| `LockReleasedRetry` | the caller that waits for the lock, as `new_into`'s documentation tells it to |
| `Crash`, `Restart` | the process is killed: no destructor runs, the files stay |

One output path is modelled; the file contents are kinds (`partial`, `torn`, `damaged`), not bytes.

### Invocation

`tls` is the record of thread-local variables, `stack` the invocations in progress with what their
guards saved, `live` the arenas that exist, `dicts` every dictionary ever made: the arena it
lies in, whether its map holds memory of the system heap, and how often it was dropped. `skipped` is a history variable: some jump has gone
over a guard. The features `with-segfault-catcher` and `with-cheatcode` are on.

| Action | Code |
|---|---|
| `Install` (`RunContract`, `InvokeDynamic`) | `InvocationGuard::install`, from `AotContractExecutor::run` or `invoke_dynamic` |
| `EnterSafely`, `ReturnFromCode` | `run_safely`: saves the state of the runner, restores it |
| `HostError` | an early return between them and the end: the guard is dropped |
| `BlakeCompress` | `cairo_native__libfunc__blake_compress` |
| `BorrowArena`, `EndAlloc` | `cairo_native__arena_alloc`, which holds a `RefCell` borrow |
| `BorrowArena`, `DictInArena`, `BorrowRegistry`, `RegisterDict` | `cairo_native__dict_new`: the arena borrowed, the struct written with nothing borrowed, the registry borrowed, the pointer pushed |
| `FillMap` | the first insertion of `cairo_native__dict_get`, or the room that `Value::to_ptr` reserves |
| `ReadResults` | results and blake count are read, `drop(guard)` |
| `Segfault`, `SegfaultOutside` | `segfault_handler`: jump to the active buffer, or abort |
| `DropDicts`, `DropArena`, `DropPanics` | `InvocationGuard::drop`, statement by statement |

A fault may happen between any two of these, in host code and in the destructor of a nested guard too: the stack
guard page does not ask whose frame overflows. One that comes while a dictionary lies in the arena and is not
registered yet leaves it in no registry for good. Its map is empty then and owns nothing, so `NoLeak` speaks of the maps that hold memory.

### ArrayArena

`heap` is the arena: buffers that are only ever added. `owner`, `snaps` and `boxes` are the
variables of a program: one array it owns, snapshots (and spans) of it, boxed elements and tuples. Each
libfunc of `libfuncs/array.rs` is one action; `Receive` is the host that hands in calldata or the
answer of a syscall. `reply` records the branch taken, the range checks charged and the length
returned, so that the refinement compares those too. Offsets wrap at `Modulus` (2^32 in the code)
in `AddW` and `SubW`; `array_slice` computes its bound in 64 bits, which `SliceFits` keeps.

`ArraySpec` has the same actions over sequences and is taken from
`debug_utils/sierra-emu/src/vm/array.rs`. `ArrayArena!Elements` reads a handle as the sequence it stands for.

### FeltDict

`mappings`, `capacity`, `elements` and `count` are the fields of `runtime::FeltDict` (the capacity is the
hash map's); `heap` holds the element buffers in the arena, `entry` is the value pointer of the open
`Felt252DictEntry`, `form` says what the program holds. `touched`, `repeats` and `hostMade` are history.

| Action | Code |
|---|---|
| `New` | `felt252_dict_new`, `cairo_native__dict_new` |
| `FromHost` | `Value::to_ptr` of a dictionary: reserve, buffer of the resulting capacity, copies in the host map's order |
| `Get` (`MapCapacity`, `IndexOf`, `Grow`, `Moved`) | `felt252_dict_entry_get`, `cairo_native__dict_get` |
| `Finalize` | `felt252_dict_entry_finalize`: a store through the pointer |
| `Squash` (`Repeated`, `RangeChecks`) | `felt252_dict_squash`, `cairo_native__dict_squash` |
| `IntoEntries` | `squashed_felt252_dict_entries`, `create_dict_entries_array` |
| `ReadBack` | `Value::from_ptr` of a dictionary the program returns |

The hash map is external: `MapCapacity` says that it keeps its capacity while it has room and may choose any
larger one otherwise. The code decides to move the elements by comparing length and capacity before
the insertion, the hash map decides by itself; that the two never disagree is part of `Placed`. The
refund is counted in accesses (the code multiplies by a constant), the squash's range checks one by one.
`DictSpec` has the interpreter's semantics (`debug_utils/sierra-emu/src/vm/felt252_dict.rs`,
`felt252_dict_entry.rs`); the interpreter counts no range checks, so they come from the per-key numbers
that `cairo_native__dict_squash` derives from the CASM implementation.

### SyscallSpec, SyscallAbi, SyscallEmulator

`SyscallSpec` is the contract's view: `Ask` a method of the `StarknetSyscallHandler` trait with values
and the gas left, `Answer` in the branch of `Ok` or `Err`. `SyscallAbi` makes the same call the way the
code does:

| Action | Code |
|---|---|
| `Call` (`Compiled`, `InSlot`, `InRegister`, `Fields`, `Index`) | the libfunc in `libfuncs/starknet.rs` or `starknet/secp256.rs`: arguments into slots or registers, the function at a constant index of the table |
| `Wrap` (`Wrapper`, `Read`, `Asked`, `WrapOk`, `UnionOffset`) | `wrap_*` in `starknet.rs`: slots read by the types of the C signature, the handler asked, the tagged union and the gas written |
| `Return` (`Load`, `VariantOffset`) | the libfunc again: tag and variant loaded at the offsets the compiler computed |

A slot read as another type, or at another offset, than it was written is `Junk`, so that a swapped
argument, a shifted table index, a wrong variant offset or a missing copy shows. Arrays are slices of blocks, the
contract holds more of them than it passes, and hash states are blocks the wrapper must copy.
`SyscallEmulator` says for each method what the interpreter asks and how it continues: the branch, and the kinds of the
values it makes of the answer. `SameContinuation` compares them with what the libfunc loads from the union the wrapper wrote
(`execute_syscall`), where a wrong offset or type gives `Junk`.
Where the interpreter is known to differ (`ErrorShapeGaps`, `ArgumentGaps`) is listed there: secp `add` and
`mul` return their error as a structure, `get_xy` its error in branch 0, the spans of `meta_tx_v0`, and
`get_execution_info_v3` and `cheatcode`, which it does not evaluate. Only the errors of the three curve operations and the calls of
`meta_tx_v0` are left out of the comparison.

### StubHandler

`storage`, `deployed`, `logs` and `blockHash` are the handler's fields, `context` its execution context;
`frames` are the contracts in progress, each with its gas, `made` bounds their system calls, `aborted`
records an `expect` or `unwrap` that fails. Every method of the trait and every cheatcode is an action;
`call_contract`, `library_call` and `deploy` push a frame, and `HostReturn` and the return of a frame close
what they opened, on success and on failure. Gas uses the costs of the source. `call_entry_point` has three `expect`s,
and each can fail: a handler without an executor and an executor that refuses the function for lack of gas end the process
before the callee runs (`call_entry_point`), an invocation that ends with an error or with a value that is no panic result ends it
afterwards (`EntryPointFails`). So no property says that the handler never aborts; `ContextIsInnermost` is claimed while it has not.

### SierraMachine, FunctionCompiler, CompiledProgram

`SierraMachine` is `sierra-emu`'s `VirtualMachine::step`: `Invoke`, `Call`, `Return` on frames of variables.
`FunctionCompiler` is a state machine too, for the order of the traversals is what matters: `pass` is the
traversal, `queue` its stack of statements, `preds` the predecessors counted, `tails` the tail calls found, `code` the blocks.

| Action | Code |
|---|---|
| `VisitStructure`, `FinishStructure` | `generate_function_structure`: predecessors, tail calls, states that must match |
| `SkipVisited` | `foreach_statement_in_function`: a statement met again |
| `BuildInvocation` | a libfunc, its landing blocks, `generate_branching_targets` |
| `BuildTailCall` | `function_call::build` with `TailRecursionMeta`: counter raised, jump to the entry |
| `DeferReturn`, `BuildReturn` | `StatementCompileResult::Deferred`; the return, the lowered counter, the jump behind the call |
| `FinishBody`, `Verify` | the end of `compile_func`, and what MLIR's verifier demands |

`CompiledProgram` runs these blocks on native frames: `Begin` is the entry point's wrapper, `Call` and `Leave` the
calling sequence with values in memory, `GoDeeper` and `GoShallower` the two ends of a loop. Its refinement mapping
reads a native frame with a depth counter as that many Sierra frames. The counter wraps at `DepthModulus` (2^64 in the code).

### Gas

`gas` is the gas builtin, `wallet` the tokens withdrawn for statements that are still to run, `reserves`, `coupons` and `spent`
where gas can otherwise be. `Start` is `get_initial_available_gas`; the actions are the libfuncs, statements that
take tokens, and the accesses and squash of a dictionary. Gas equations and wallets are computed by cairo-lang crates:
here they are the rule `Covers`, that a wallet never goes below zero. Coupons are worth what was paid for them, and no-ops at run time.
`get_unspent_gas` is compared with what was given and spent (`UnspentIsWhatRemains`), not with the interpreter, which does not implement it (`debug_utils/sierra-emu/src/vm/gas.rs:39`).

### Libfuncs

Pure operators. `build_x` is the code a libfunc expands to, on words, with the extensions, truncations, signs
and comparisons of the source; `eval_x` is the interpreter on unbounded integers. Widths are parameters: words of 4 bits stand for 128
(`WIDE`), 2 for a byte, a prime of 7 bits for the field's (`PrimeAssumption` keeps the order of the real sizes).
`call` is the one variable: the last call, its branch and results on both sides. Circuits are evaluated as the compiler
unrolls them: gates in the order their operands become known, a failing inverse ends in the branch of failure with a nullifier.

The interpreter has slips of its own, listed in `Slips`, each with what both sides still share: it returns the xor and or of
`bitwise` in another order, takes the overflow of a signed sum for an underflow, refuses a range of equal ends,
never reads a felt as negative in a downcast, does not reduce a storage base address, hands on no circuit nullifier,
returns zeros for the failure guarantee and for single limbs, keeps too many limbs in
`limbs_less_than`, and makes `u96` guarantees of one type only. One entry is a slip of compiled code: downcasts to a range apart, which it lets through (section 5). Everything else must agree.

### TypeLayouts, ValueMemory, CallingConvention, CompositeLibfuncs, ValueJourneys

A type is laid out twice. The host computes `layout(ty)` in `types.rs`; LLVM lays out the type that `build_type` gives it, by
rules of its own (external: `LLayout`, `FieldOffsets`). An enum is an opaque block to LLVM, reinterpreted through
memory as a structure of tag and payload; `types/enum.rs` explains why. The byte of a memory object is a byte of some scalar, or junk;
a scalar stored by compiled code leaves the spare bits of its last byte dirty (`CompiledBytes`), a read at another width
or offset is `Lost`, a load at a misaligned address undefined.

| Operator | Code |
|---|---|
| `to_ptr`, `from_ptr` | `Value::to_ptr`, `Value::from_ptr` (`values.rs`) |
| `to_bytes`, `invoke_data` | `AbiArgument` (`arch.rs`, `arch/x86_64.rs`) and `invoke_dynamic`: return pointer, arguments, padding |
| `Arrive`, `entry_args` | the System V convention as LLVM applies it (external), and the parameters of `compile_func` |
| `build_*`, `into_box`, `unbox` | the libfuncs, on registers and memory |
| `function_return`, `parse_results` | what comes back, and `parse_result` |

A journey takes a type, a value of it, a short program (hand it through, call with it, take it apart and put it together, box, unbox,
match, make a constant of it, wrap it in an option or a pair, ...) and a shape: which arguments come before it and how many builtin counters
are returned with it. The value that comes out must be the one the interpreter's program has. The target is x86_64; the order of types
in registers is LLVM's, as `arch/x86_64.rs`'s tests describe it.

## 3. Runs

| Run | Instance | Checks | Shows |
|---|---|---|---|
| `aot_cache` | 3 processes, all faults | `TypeOK`, `MutualExclusion`, `LibraryWhole`, `InfoBesideLibrary`, `LockReleased` | builders exclude each other through failures and kills; a library is whole and has its information; the lock is released |
| `aot_torn_info` | 3 processes, no fault | `InfoNeverTorn` | violated: finding 1 |
| `invocation` | 3 invocations up to 3 deep, 2 dictionaries, 2 cost tables | `TypeOK`, `NoDangling`, `NoLeak`, `JumpTargetLive`, `HandlerAlive`, `Isolated` | nested invocations are isolated and clean up after returns, errors and faults at every point |
| `invocation_panic` | the same | `FaultBecomesError` | violated: finding 2 |
| `array` | words of 3 bits, 2 buffers, 1 snapshot, 1 box, 2 values | `TypeOK`, `InBounds`, `TailUnshared`, `WriteOnce`, `ValueSemantics` | shared buffers implement values |
| `dict` | 3 keys (1 big), 2 values, 4 accesses, 3 buffers, capacities 1 to 3 | `TypeOK`, `Placed`, `RefundEarned`, `MapSemantics` | buffers that move implement partial functions; the accounting is exact |
| `syscall_abi` | every method, 2 values of each kind, slices, 2 results kept | `SyscallIsHandlerCall`, `SameQuestion`, `SameContinuation` | each of the hand-written agreements between libfunc, table and wrapper holds; the interpreter asks the same |
| `stub_handler` | 3 addresses, 2 classes, 3 nested frames, 3 system calls, with and without an executor, a function that requires more gas than is refunded | `TypeOK`, `ContextIsInnermost`, `RegisteredIsDeclared`, `GasNeverCreated`, `OnlyOwnState` | contexts, storage and gas stay with their contract through nested and failing calls |
| `libfuncs` | every libfunc, words of 2 and 4 bits, a prime of 7 bits; 31 composite types, 14 programs, 9 shapes | `Canonical`, `AsInterpreted`, `ValueSurvives`, `CircuitSolved` | results are canonical words and what the interpreter computes; composite values survive the boundary |
| `circuit_unreduced` | the same, inputs above the modulus | `CircuitSolvedUnreduced` | violated: finding 3 |
| `compiler` | loops, branches in both orders, landing blocks, calls in memory, refused programs | `ModuleVerifies`, `RunsTheProgram`, `CompilesAndAnswers` | the compiled blocks run the program |
| `gas` | 2 tokens, a builtin of 4 bits, reserves of 8 | `TypeOK`, `Conserved`, `UnspentIsWhatRemains`, `GasAsInterpreted` | gas is neither made nor lost |

The properties worth reading first:

* `InfoBesideLibrary`: a library that can be loaded has complete information, or a
  process is rewriting it this moment, or a write of it failed. It relates two files and every
  process, and holds only because the `.json` is written before the rename.
* `LockReleased` (liveness): the lock is released unless its owner was killed. The failing paths
  of `new_into`, the rename included, are what it is about.
* `Isolated` (refinement): nested invocations behave as if each had its own costs, blake count,
  arena and dictionaries, wherever a fault cuts them off.
* `NoDangling`, `NoLeak`: after any return, error, or jump over guards, and between the statements
  of a destructor, what an invocation can reach is alive; if no guard was jumped over, nothing
  is left behind. With a jump, the arenas and maps of the skipped invocations do leak, and the model says so:
  that is why `NoLeak` has `~skipped` in its hypothesis.
* `HandlerAlive` excludes the same case: after a jump over a guard the cheatcode pointer still points to the
  handler of an abandoned invocation.
* `TailUnshared`, `WriteOnce`: why `array_append` may write in place into a buffer that
  snapshots share. `ValueSemantics` (refinement) is the promise this serves.
* `Placed`: index map, element buffer and entry pointer agree across every growth, and only the cell of an open
  entry may be uninitialized. `MapSemantics` (refinement) is what it is for.
* `RefundEarned`: a squash refunds the accesses that repeated a key. For a dictionary from the host, whose keys
  nobody accessed, `count - len` could be negative: the subtraction saturates, and the refund never exceeds the repeats.
* `SyscallIsHandlerCall` (refinement): method, arguments, branch, results and gas survive the slots, the table and the union, and nothing
  the contract holds changes under it.
* `ContextIsInnermost`, `GasNeverCreated`: what nested calls, library calls and deployments must put back, on every way out. The entry
  point's cost is refunded to a callee, which must not make gas out of a chain of calls.
* `RunsTheProgram` (refinement): compiled blocks hold the interpreter's variables at every statement, and a loop returns as often as it
  called itself. `CompilesAndAnswers` (liveness): a return put off until the tail call is built is not put off for ever.
  `ModuleVerifies` has one exception, `RefusedLoop`: a loop with a shared, deferred return gets a second terminator in a landing block, so that MLIR refuses the module; nothing wrong runs.
* `Conserved`: gas given is gas held plus gas spent, with saturating, truncating and wrapping operations side by side.
  A reserve is wider than the builtin, so the run has reserves that the builtin could not hold.
* `Canonical`: every result is a word of a value of its type, never bits left from the width it was computed at. `AsInterpreted`
  relates branch and values to unbounded integers. `CircuitSolved`: values solve the gate equations, or the named gate has none.
* `ValueSurvives`: layouts, tags, offsets, alignment, registers, stack and return pointer agree between host and compiled code. It fails if an enum is given
  the type of its largest variant, if a wide argument is not aligned on the stack, if the members of a constant are packed, or if the tag's spare bits are not masked.

**Bounds.** Three processes are a builder, one that races it and one that loads; a fourth
adds no pair of roles. Three invocations are enough for an invocation with one above and one
below it, or two that follow each other; two dictionaries are enough for one per invocation and for two in one.
Arrays of up to three elements and two buffers reach growth with and without snapshots into the old
buffer, growth after pops, pops of an empty array, and slices whose sums wrap in three bits.
Three keys make a dictionary's buffer move up to three times, before and after host dictionaries with spare
capacity and without; four accesses repeat a key at every size. A system call is one step of a contract that
collects two results, enough for a result to be the next call's argument. Three frames of the stub handler are a caller, one in the middle and a
callee, with a library call at any of these places. The libfuncs' results depend on one call each: `Canonical` makes a sequence of calls well defined. All words of the small
types are enumerated. Downcasts and upcasts are taken between all ranges of fewer than 16 values with ends on both sides of the powers of two
up to 16 (-9 to 16), the integers, the felt and the ranges of the field's size, so that the bounds of source and target meet in every order, within and apart, at common widths of up to 8 bits. Wide integers are made of the limbs 0, 1, 6 and 15. Circuits have two gates of every kind, or the chain of four in which an inverse
feeds others, and all inputs are combined. Composite types nest twice, and the shapes begin the value at
each of the six registers and on the stack. The programs of `compiler` are listed in its instance: every combination of the two places of a tail call and of a return that
the traversal distinguishes. Symmetry is used for array elements only, which are
copied and never inspected. The theorems of section 4 hold without these bounds.

**Fairness.** `LockReleased` needs weak fairness of `BuildStep(p)` and `LoadStep(p)`: a process that is not killed is scheduled
until its call returns. Nothing obliges a process to
start a call, to retry, or to come back after a kill. The call contains no wait of its own: `new_into` returns at once
when the lock is taken. `CompilesAndAnswers` needs weak fairness of the compiler's and of the program's steps: both are sequential code
of one thread that does not stop by itself. All other properties are safety properties.

**Deadlock** is off where the system may really stop: a lock left by a killed process stops everyone that waits for it
(`aot_cache`), an aborted process or a bound of the number of invocations ends `invocation`, a compiled program answers or is refused, a
contract collects its results, frames and gas end, and a libfunc is called once. The array and dictionary runs check it.

## 4. Proofs

All proofs are checked by TLAPS with Z3, Zenon and LS4, with no omitted step. Each follows
the same pattern: an inductive invariant, `Init => IInv`, `IInv /\ [Next]_vars => IInv'` by one lemma per
action, and theorems that weaken it.

| Theorem | Property |
|---|---|
| `AotContractCacheProofs!TypeCorrect` | `TypeOK` |
| `AotContractCacheProofs!LockSerialisesBuilders` | `MutualExclusion` |
| `AotContractCacheProofs!OutputIsWhole` | `LibraryWhole` |
| `AotContractCacheProofs!LibraryHasInfo` | `InfoBesideLibrary` |
| `InvocationProofs!TypeCorrect` | `TypeOK` |
| `InvocationProofs!JumpsGoToALiveFrame` | `JumpTargetLive` |
| `InvocationProofs!HandlerPointerAlive` | `HandlerAlive` |
| `InvocationProofs!NothingDangles` | `NoDangling` |
| `InvocationProofs!NothingLeaks` | `NoLeak` |
| `InvocationProofs!InvocationsIsolated` | `Isolated` |
| `ArrayArenaProofs!TypeCorrect` | `TypeOK` |
| `ArrayArenaProofs!ReadsStayInBounds` | `InBounds` |
| `ArrayArenaProofs!AppendCellUnshared` | `TailUnshared` |
| `ArrayArenaProofs!WrittenOnce` | `WriteOnce` |
| `ArrayArenaProofs!ImplementsValues` | `ValueSemantics` |
| `FeltDictProofs!TypeCorrect` | `TypeOK` |
| `FeltDictProofs!PointersPlaced` | `Placed` |
| `FeltDictProofs!RefundsEarned` | `RefundEarned` |
| `FeltDictProofs!ImplementsMap` | `MapSemantics` |
| `SyscallProofs!SyscallsReachHandler` | `SyscallIsHandlerCall` |
| `SyscallProofs!AsksTheSame` | `SameQuestion` |
| `SyscallProofs!ContinuesTheSame` | `SameContinuation` |
| `StubHandlerProofs!TypeCorrect` | `TypeOK` |
| `StubHandlerProofs!ContextCorrect` | `ContextIsInnermost` |
| `StubHandlerProofs!ClassesDeclared` | `RegisteredIsDeclared` |
| `StubHandlerProofs!GasOnlyUsed` | `GasNeverCreated` |
| `StubHandlerProofs!OnlyOwnStateWritten` | `OnlyOwnState` |
| `GasProofs!TypeCorrect` | `TypeOK` |
| `GasProofs!GasConserved` | `Conserved` |
| `GasProofs!UnspentExact` | `UnspentIsWhatRemains` |
| `GasProofs!AsInterpreter` | `GasAsInterpreted` |
| `CompilerProofs!ModulesVerify` | `ModuleVerifies` |
| `CompilerProofs!BlocksMeanStatements` | |
| `CompilerProofs!CompiledRunsTheProgram` | `RunsTheProgram` |

* **Cache.** Mutual exclusion alone is not inductive: the invariant says what each of the three
  files contains for every place a builder can be in. Since a builder implies an existing lock
  file, nobody else can create it; since the lock file is complete in `written`, the rename publishes a
  whole library. No assumption on the number of processes.
* **Invocation.** `RunnerInv`: only the innermost invocation is outside its `run_safely`, and the
  saved runner states form the chain down to the thread. `ArenaInv`: the invocations' arenas are
  pairwise distinct and alive, so freeing the one in place harms nobody. `DictInv`: a registered
  dictionary lies in a live arena that no other invocation has, so that dropping its map before the
  arena is freed is in time, and dropping it once is enough; the one that is about to be registered lies in the innermost arena, in no registry, and its map is empty.
  `OwnedInv`: while no guard was jumped over, every live
  arena and every undropped map that holds memory has an owner. `HandlerInv`: each guard's saved pointer is null or
  belongs to a frame below it. No assumption but that the bounds are natural numbers.
  The refinement reads the context of an invocation off the thread while it is the innermost one, and off
  the guard installed above it otherwise. A step then changes the context of one invocation at most, because the
  guards carry the others; an invocation that a jump has gone over is a failed one from then on. It needs `ResultInv`
  besides: an invocation whose guard is about to be dropped has read its own blake counter, not its caller's.
* **Arrays.** The invariant attaches to every handle and box a region of cells that are written and, in the
  owner's buffer, end where the owner ends; the owner's buffer is unwritten from there on. An append writes
  beyond every region; growth adds a buffer and leaves the regions of the old one alone.
  The theorems assume `HalfRange`, `2 * MaxEnd <= Modulus`: no array
  exceeds 2^31 elements. It is needed: past it the doubled capacity wraps (section 5).
  For the refinement, the sequence a handle stands for is a span of its region's cells. Regions keep their
  cells whatever the owner appends, so snapshots and boxes keep their sequences, and one lemma per libfunc
  shows that the variable it assigns gets the sequence `ArraySpec` says, in the branch it says. Offsets do not wrap, by `HalfRange`.
* **Dictionaries.** `Placed` is inductive together with `TypeOK`; the refund needs `Accounted`: the count is the
  number of keys touched plus the repeats, and the program's own dictionaries hold just the touched keys. The
  refinement needs `Fresh` besides: cells no key has been given are unwritten, so that the cell of a fresh entry
  stands for the zero the interpreter stores there. Any keys, values, host dictionaries, and any growth policy of
  the hash map are covered; the assumptions are that keys and capacities are numbers, that the zero
  is a value and that a host dictionary is finite.

* **System calls.** The hand-written agreements are finite: for each of the 28 methods, `Agreement` compares the
  libfunc's slots and registers, the index of the table, the types and offsets the wrapper reads, and
  what it stores with what the libfunc loads. The rest holds for any memory: a wrapper only adds blocks, so every word that is
  `Usable` keeps its value (`Extends`), and at most one value of an answer takes memory, so that the block it gets is
  the one its word points to. The invariant says, for each place of a call, that the operands are the arguments as the libfunc
  passes them, and that the frame holds the handler's answer. Assumed: a contract starts with
  usable words (`InputsAssumption`), a handler answers with values of the kind it is asked for (`AnswersAssumption`, which its
  Rust type guarantees), bounds are numbers.
* **Stub handler.** `Owner(n)` is the frame whose context is in force when frame `n` is innermost: `n` itself,
  or for a library call the owner of the frame below. The invariant says that the context names the contract of its owner, and
  that each frame that opened a context saved the one its caller must find again; gas decreases along the frames,
  since a call that refunds a callee the entry point's cost has charged it before. Returns, failing
  constructors and the cheatcodes that rename the running contract keep it. A failing `expect` leaves the other half of the invariant (`Gone`): the
  stack as it was, with gas still decreasing along it, and no further step. Any contracts, classes, keys and
  depths; the costs are those of the source.
* **Gas.** Costs and reserves are sums, which the provers have no induction for: the first half of the module derives what
  is needed (a sum is determined by its recursion, may be taken in any order, adds up, and moves with a single
  summand) from the sets over which a recursive function is defined. `GasInv` adds to `Conserved` that each amount set aside is part of what was
  given, hence below the width of the builtin: no sum wraps and no truncation loses a bit. That is also why the reserves, which the interpreter adds with a check,
  never make it panic (`AsInterpreter`). Withdrawals and redeposits agree with the interpreter for any tokens (`AnyCosts`); only where a cost overflows, and the interpreter panics, is nothing compared. The accesses of the
  dictionary alive are part of what was spent, so a squash gives back no more. Assumed: a statement's cost fits 64 bits
  (`CostsAssumption`: the compiler adds it up in `u64` and does not look for an overflow), amounts have the widths of their
  types (`AmountsAssumption`).
* **Compiler.** `CompilerInv` says, for the function being compiled, that the first traversal has counted exactly
  what it has reached, which is the least set with the entry and closed under branches (`Least`); the second traversal stays in that set
  and, being closed, fills it. So every libfunc block, and every landing block, gets a terminator, and it gets one only:
  a second one needs a return of a loop, deferred behind a landing block. Jumps fit since `Sorted` enumerates
  as many variables as a set has (by induction on finite sets), and blocks keep what they declare. `RefusedLoop` is
  needed where the return block is known (`returnTo`), nowhere else. Assumed: `ProgramsAssumption`, what the registry
  and the validation of a Sierra program guarantee. No bound on programs, and branches may lead backward.
* **Compiled code.** `CompilerInv` counts blocks and operands and does not say what is in them. `MeaningInv` does. The first traversal
  leaves at each statement the variables alive there, the same along every path (`GraphInv`). The second one's state at a statement is the landing
  block's arguments where several branches meet, and elsewhere what the only branch to it leaves (`Origin`). What is written to a
  libfunc block ends as its statement does (`Ends`): along a branch go the registers of the variables that the target
  wants, a recursive tail call goes to the entry block with the counter raised, a return to the block behind that call (`BlocksMeanStatements`).
  `RunInv` relates the run to it: each native frame but the innermost waits at a call of the function above
  it, the innermost one stands at a block whose registers are arguments or operands of its statement, and a positive depth needs a loop.
  `SierraFrames` reads a native frame of depth `d` as `d + 1` Sierra frames, the lower ones all waiting at the tail
  call with no variable left. The simulation takes the steps one by one: entering, a branch to a landing or entry block and the jump to a return's
  continuation leave the Sierra frames alone; `Evaluate` is an invocation; `Call` and `GoDeeper` push a frame, by a native call or by the counter; `Return` and
  `GoShallower` pop one; the last return is the program's answer. Besides `ProgramsAssumption`, assumed are `ForwardAssumption` (branches lead
  forward, calls bind and returns give as many values as the function has, as in every Sierra program that a Cairo compiler emits) and, as the
  hypothesis `[]WithinBounds` of the theorem, that a libfunc answers with a branch and results that its signature declares and
  that the depth counter does not wrap: the counter is an index of the machine, so that a wrap takes 2^64 nested calls. Both hold of every state of the
  run `compiler`, on which `MeaningInv` and `RunInv` were checked as well before they were proved.

**Model-checked only.** Liveness (`LockReleased`, `CompilesAndAnswers`), which is beyond TLAPS. All of `libfuncs`: `Canonical`,
`AsInterpreted`, `ValueSurvives` and `CircuitSolved` are about layouts, limbs and circuits defined by recursion over data and about bitwise
operators, which the provers do not take; what they compute is enumerated. The violations of section 5 are counterexamples.

## 5. What the models found

1. `aot_torn_info` (`executor/contract.rs:362`). `new_into` rewrites the `.json` in place while the library of an earlier
   build is already at the output path. A concurrent `from_path` that has loaded the library
   may then read an empty or partial file and return an error. The comment at the rename promises that it
   "will avoid data races when loading contracts".
2. `invocation_panic` (`executor.rs:416`). A fault while the arena or the dictionary registry is
   borrowed jumps past the release of the borrow. `InvocationGuard::drop` then calls
   `borrow_mut` and panics, instead of the error that the safe runner promises.
3. `circuit_unreduced` (`metadata/runtime_bindings.rs:1340`). Circuit inputs are not reduced, so the right operand of a subtraction may
   exceed the left one plus the modulus: the difference wraps at 385 bits before the remainder is taken, and the gate is wrong. The comment says the operands
   are extended "to avoid overflows while operating".

Other divergences met while reading, without a run of their own:

* `from_path` says that it checks for a lock file and returns `Ok(None)` (`executor/contract.rs:383-385`); it never looks (line 391).
* An array's capacity doubles in 32 bits and wraps at 2^31 (`libfuncs/array.rs:337-338`), against "Always double the capacity". Such an array needs
  at least 8 GiB; `HalfRange` excludes it.
* A snapshot of a dictionary is its pointer (`types/felt252_dict.rs:26`). A program that takes one, writes the dictionary and returns the
  snapshot hands the host the later contents.
* A `deploy` whose constructor panics leaves the contract registered (`starknet_stub.rs:549`, against the comment at 558-559).
* A downcast whose target lies apart from the source may succeed on a value outside the target (`libfuncs/cast.rs:193-211, 223-235`), against "If the value is
  also not in bounds then return an error" (184-186): the bound is a word of the common width, and has another sign there than as a number. Without a sign, that is
  a negative upper bound (`u8` to `BoundedInt<-5, -2>`: `x < -1` holds of 0 to 254); with one, a lower bound that takes all the bits (`i8` to
  `BoundedInt<200, 255>`: `x >= -56`). `Apart` names these pairs. Their calls (`downcast_apart`) are compared with the interpreter, which refuses
  every value; the only difference that `AsInterpreted` allows is that compiled code succeeds. The results it then hands on need not be words of the target, so `Canonical` leaves them out.
* The documentation of compilation speaks of a breadth-first traversal; it takes the last entry of the queue. `metadata/tail_recursion.rs:36-38` speaks of
  several counters; a function with two tail calls is not compiled as a loop.
* Tail-recursive functions that return one value, a unit or a value in memory are refused (`compiler.rs:853`), as are those whose deferred return is shared.
* The comment in `executor.rs` that all builtins but gas and Starknet have no size is out of date: the counters are 64-bit words. The doc of `types/bounded_int.rs` gives
  `BoundedInt<1, 1>` a width of 0; `repr_bit_width` returns at least 1.

## 6. What is not modelled

MLIR and LLVM, the linker, the crates for curves, hashes, gas equations and wallets: external, modelled by what the code relies on. Elliptic curve and QM31 arithmetic and hash
rounds: computed by external crates. Formatting, logging, statistics, traces, debug information, command line tools, benches: no behaviour of their own. The contexts
that drive MLIR and the in-memory caches of programs (a map with exclusive access) hold no logic to speak of.

In the cache, two output paths that differ only in
their extension (they share one lock and one `.json`). In invocations, other threads: all the state is thread-local.
In arrays, several owned arrays at once:
buffers are never shared between owned arrays, and each owner sees the others' buffers as a snapshot's.
In dictionaries, several at once (each has its own map and buffer). In the libfuncs, the range check, bitwise and modular builtin counters, and `get_builtin_costs`. In the compiler, `coupon_call`, arguments without size, and
loops that jump backward (Sierra programs branch forward). In the stub handler, `meta_tx_v0` (unimplemented in the source), curve arithmetic and hash rounds.
In values, aarch64, `EcState`, secp points, integer ranges, and bounded integers as direct arguments, which the host refuses; integers of 129 to 192 bits as the only result, for which
the registers LLVM chooses are not known from the source.

## 7. Plan

1. `Canonical` for the integer libfuncs at every width, as lemmas about truncation and extension, in a module apart from the
   recursive operators.
2. `AotContractCache` with two paths of one stem; `coupon_call` in the compiler; aarch64 in the calling convention.
