----------------------------- MODULE SyscallAbi -----------------------------
(***************************************************************************)
(* System calls as compiled code makes them.  The code that a syscall's    *)
(* libfunc becomes (libfuncs/starknet.rs, libfuncs/starknet/secp256.rs)    *)
(* stores the gas and the arguments in stack slots, takes a function       *)
(* pointer out of the callback table at a constant index and calls it.     *)
(* The wrapper behind the pointer (starknet.rs) reads the slots by the     *)
(* types its C signature declares, asks the handler, and writes a tagged   *)
(* union whose layout the compiled code computes for itself.  Nothing but  *)
(* agreement between these hand-written parts makes a contract's call      *)
(* reach the right method with the right arguments.  A slot read as        *)
(* another type, or at another offset, than it was written is Junk.        *)
(***************************************************************************)
EXTENDS Integers, Sequences, FiniteSets, FiniteSetsExt

CONSTANTS
  InputWords,       \* the registers the contract holds at first
  InputBlocks,      \* the memory they point to
  Answers(_), InitialGas, MaxResults

VARIABLES
  gas,              \* the register with the gas
  held,             \* the other registers: words
  blocks,           \* memory behind pointers; an address is an index, 0 is null
  call,             \* the call in progress and the registers it passes
  frame,            \* the stack slots of the call in progress
  outcome           \* what the handler was asked and what the contract got

vars == <<gas, held, blocks, call, frame, outcome>>

-----------------------------------------------------------------------------
(* Words: <<kind, representation>>.  Arrays are [ptr, since, until], hash  *)
(* states, message blocks and execution infos are pointers, the rest is    *)
(* held directly.                                                          *)

ArrayKinds == {"felts", "u64s"}
PointerKinds == {"sha256", "sha512", "block256", "block512", "info"}

Junk == <<"junk", 0>>

\* The slice since..until of the buffer; the pointer of an empty one is not followed.
Slice(a, mem) == IF a.since = a.until THEN <<>> ELSE SubSeq(mem[a.ptr], a.since + 1, a.until)

ValueOf(w, mem) ==
  IF w[1] \in ArrayKinds THEN <<w[1], Slice(w[2], mem)>>
  ELSE IF w[1] \in PointerKinds THEN <<w[1], mem[w[2]]>>
  ELSE w

Values(ws, mem) == [i \in DOMAIN ws |-> ValueOf(ws[i], mem)]

\* A word's pointer leads to memory.
Usable(w, mem) ==
  /\ w[1] \in ArrayKinds => w[2].since = w[2].until \/ w[2].ptr \in DOMAIN mem
  /\ w[1] \in PointerKinds => w[2] \in DOMAIN mem

IsSequence(s) == Len(s) \in Nat /\ s = [i \in 1..Len(s) |-> s[i]]

\* The contract starts with usable words.
InputsAssumption ==
  /\ IsSequence(InputWords) /\ IsSequence(InputBlocks)
  /\ \A i \in DOMAIN InputWords : Usable(InputWords[i], InputBlocks)
ASSUME InputsAssumption

\* A handler's answer is of the kind asked for; an array is a sequence.
AnswersAssumption ==
  \A kind \in ArrayKinds \cup PointerKinds \cup {"felt", "u256", "k1", "r1", "option_k1", "option_r1"} :
    \A v \in Answers(kind) : v = <<kind, v[2]>> /\ (kind \in ArrayKinds => IsSequence(v[2]))
ASSUME AnswersAssumption

BoundsAssumption == InitialGas \in Nat /\ MaxResults \in Nat
ASSUME BoundsAssumption

S == INSTANCE SyscallSpec WITH
  Inputs <- Values(InputWords, InputBlocks),
  held <- Values(held, blocks),
  call <- [call EXCEPT !.args = Values(call.args, blocks)],
  outcome <- [outcome EXCEPT !.results = Values(outcome.results, blocks)]

-----------------------------------------------------------------------------
(* Layouts.  The tag takes one byte; the payload follows at the first      *)
(* offset its alignment allows, which is the alignment itself.             *)

IntegerAlign(width) ==
  IF width <= 8 THEN 1 ELSE IF width <= 16 THEN 2 ELSE IF width <= 32 THEN 4
  ELSE IF width <= 64 THEN 8 ELSE 16

PointerAlign == 8

\* As the compiler lays out the types of a libfunc's branches.
CompiledAlign(kind) ==
  CASE kind = "felt" -> IntegerAlign(252)
    [] kind \in {"u256", "k1", "r1", "option_k1", "option_r1"} -> IntegerAlign(128)
    [] kind \in ArrayKinds \cup PointerKinds -> PointerAlign

\* As the #[repr(C)] types of the wrappers' signatures are laid out.
AbiAlign_U128In8(kind) ==   \* (mutant) rustc before 1.77
  IF kind \in {"u256", "k1", "r1", "option_k1", "option_r1"} THEN 8 ELSE CompiledAlign(kind)
AbiAlign(kind) ==
  CASE kind = "felt" -> 16                                     \* Felt252Abi
    [] kind \in {"u256", "k1", "r1"} -> 16                     \* U256, Secp256*Point
    [] kind \in {"option_k1", "option_r1"} -> 16               \* (u8, MaybeUninit<Point>)
    [] kind \in ArrayKinds \cup PointerKinds -> 8              \* ArrayAbi, *mut, NonNull

\* The payload's offset in get_type_for_variants' layout and in SyscallResultAbi.
VariantOffset(kinds) == Max({1} \cup {CompiledAlign(kinds[i]) : i \in DOMAIN kinds})
UnionOffset(kinds) == Max({1} \cup {AbiAlign(kinds[i]) : i \in DOMAIN kinds})

-----------------------------------------------------------------------------
(* The compiled side: per libfunc, the table entry it calls, how each      *)
(* operand is passed, and the kinds its branch 0 loads.                    *)

\* Operands by the number of the libfunc's argument; 0 is the gas, 1 the table.
InRegister(i) == [in |-> "register", arg |-> i]
InSlot(i) == [in |-> "slot", arg |-> i]

Compiled(field, operands, loads) == [field |-> field, operands |-> operands, loads |-> loads]

build_get_block_hash == Compiled("get_block_hash", <<InRegister(2)>>, <<"felt">>)
build_get_execution_info == Compiled("get_execution_info", <<>>, <<"info">>)
build_get_execution_info_v2 == Compiled("get_execution_info_v2", <<>>, <<"info">>)
build_get_execution_info_v3 == Compiled("get_execution_info_v3", <<>>, <<"info">>)
build_deploy ==
  Compiled("deploy", <<InSlot(2), InSlot(3), InSlot(4), InRegister(5)>>, <<"felt", "felts">>)
build_replace_class == Compiled("replace_class", <<InSlot(2)>>, <<>>)
build_library_call == Compiled("library_call", <<InSlot(2), InSlot(3), InSlot(4)>>, <<"felts">>)
build_call_contract == Compiled("call_contract", <<InSlot(2), InSlot(3), InSlot(4)>>, <<"felts">>)
build_storage_read == Compiled("storage_read", <<InRegister(2), InSlot(3)>>, <<"felt">>)
build_storage_write_Swapped ==   \* (mutant)
  Compiled("storage_write", <<InRegister(2), InSlot(4), InSlot(3)>>, <<>>)
build_storage_write == Compiled("storage_write", <<InRegister(2), InSlot(3), InSlot(4)>>, <<>>)
build_emit_event == Compiled("emit_event", <<InSlot(2), InSlot(3)>>, <<>>)
build_send_message_to_l1 == Compiled("send_message_to_l1", <<InSlot(2), InSlot(3)>>, <<>>)
build_keccak == Compiled("keccak", <<InSlot(2)>>, <<"u256">>)
build_k1_new == Compiled("secp256k1_new", <<InSlot(2), InSlot(3)>>, <<"option_k1">>)
build_k1_add == Compiled("secp256k1_add", <<InSlot(2), InSlot(3)>>, <<"k1">>)
build_k1_mul == Compiled("secp256k1_mul", <<InSlot(2), InSlot(3)>>, <<"k1">>)
build_k1_get_point_from_x ==
  Compiled("secp256k1_get_point_from_x", <<InSlot(2), InSlot(3)>>, <<"option_k1">>)
build_k1_get_xy == Compiled("secp256k1_get_xy", <<InSlot(2)>>, <<"u256", "u256">>)
build_r1_new == Compiled("secp256r1_new", <<InSlot(2), InSlot(3)>>, <<"option_r1">>)
build_r1_add == Compiled("secp256r1_add", <<InSlot(2), InSlot(3)>>, <<"r1">>)
build_r1_mul == Compiled("secp256r1_mul", <<InSlot(2), InSlot(3)>>, <<"r1">>)
build_r1_get_point_from_x ==
  Compiled("secp256r1_get_point_from_x", <<InSlot(2), InSlot(3)>>, <<"option_r1">>)
build_r1_get_xy == Compiled("secp256r1_get_xy", <<InSlot(2)>>, <<"u256", "u256">>)
build_sha256_process_block_syscall ==
  Compiled("sha256_process_block", <<InRegister(2), InRegister(3)>>, <<"sha256">>)
build_sha512_process_block_syscall ==
  Compiled("sha512_process_block", <<InRegister(2), InRegister(3)>>, <<"sha512">>)
build_get_class_hash_at == Compiled("get_class_hash_at", <<InSlot(2)>>, <<"felt">>)
build_meta_tx_v0 ==
  Compiled("meta_tx_v0", <<InSlot(2), InSlot(3), InSlot(4), InSlot(5)>>, <<"felts">>)
\* The selector is part of the libfunc; it and the input are numbered as the others.
build_cheatcode == Compiled("cheatcode", <<InSlot(2), InSlot(3)>>, <<"felts">>)

-----------------------------------------------------------------------------
(* The callback table, a #[repr(C)] struct of pointers after self_ptr.     *)

Fields == <<
  "get_block_hash", "get_execution_info", "get_execution_info_v2", "get_execution_info_v3",
  "deploy", "replace_class", "library_call", "call_contract", "storage_read",
  "storage_write", "emit_event", "send_message_to_l1", "keccak", "secp256k1_new",
  "secp256k1_add", "secp256k1_mul", "secp256k1_get_point_from_x", "secp256k1_get_xy",
  "secp256r1_new", "secp256r1_add", "secp256r1_mul", "secp256r1_get_point_from_x",
  "secp256r1_get_xy", "sha256_process_block", "sha512_process_block",
  "get_class_hash_at", "meta_tx_v0", "cheatcode">>

\* The index compiled into a libfunc: the offset of the field in words.
Index(field) == CHOOSE i \in DOMAIN Fields : Fields[i] = field

(* The wrappers: how each reads its parameters, numbered after the gas,    *)
(* and in which order it passes them to the handler's method.              *)

Plain(i, kind) == [param |-> i, kind |-> kind, from |-> "register"]
Ref(i, kind) == [param |-> i, kind |-> kind, from |-> "slot"]
Pointee(i, kind) == [param |-> i, kind |-> kind, from |-> "pointer"]

Wrapper(method, reads) == [method |-> method, reads |-> reads]

wrap_get_block_hash == Wrapper("get_block_hash", <<Plain(1, "u64")>>)
wrap_get_execution_info == Wrapper("get_execution_info", <<>>)
wrap_get_execution_info_v2 == Wrapper("get_execution_info_v2", <<>>)
wrap_get_execution_info_v3 == Wrapper("get_execution_info_v3", <<>>)
wrap_deploy ==
  Wrapper("deploy", <<Ref(1, "felt"), Ref(2, "felt"), Ref(3, "felts"), Plain(4, "bool")>>)
wrap_replace_class == Wrapper("replace_class", <<Ref(1, "felt")>>)
wrap_library_call == Wrapper("library_call", <<Ref(1, "felt"), Ref(2, "felt"), Ref(3, "felts")>>)
wrap_call_contract == Wrapper("call_contract", <<Ref(1, "felt"), Ref(2, "felt"), Ref(3, "felts")>>)
wrap_storage_read == Wrapper("storage_read", <<Plain(1, "u32"), Ref(2, "felt")>>)
wrap_storage_write == Wrapper("storage_write", <<Plain(1, "u32"), Ref(2, "felt"), Ref(3, "felt")>>)
wrap_emit_event == Wrapper("emit_event", <<Ref(1, "felts"), Ref(2, "felts")>>)
wrap_send_message_to_l1 == Wrapper("send_message_to_l1", <<Ref(1, "felt"), Ref(2, "felts")>>)
wrap_keccak == Wrapper("keccak", <<Ref(1, "u64s")>>)
wrap_secp256k1_new == Wrapper("secp256k1_new", <<Ref(1, "u256"), Ref(2, "u256")>>)
wrap_secp256k1_add == Wrapper("secp256k1_add", <<Ref(1, "k1"), Ref(2, "k1")>>)
wrap_secp256k1_mul == Wrapper("secp256k1_mul", <<Ref(1, "k1"), Ref(2, "u256")>>)
wrap_secp256k1_get_point_from_x ==
  Wrapper("secp256k1_get_point_from_x", <<Ref(1, "u256"), Ref(2, "bool")>>)
wrap_secp256k1_get_xy == Wrapper("secp256k1_get_xy", <<Ref(1, "k1")>>)
wrap_secp256r1_new == Wrapper("secp256r1_new", <<Ref(1, "u256"), Ref(2, "u256")>>)
wrap_secp256r1_add == Wrapper("secp256r1_add", <<Ref(1, "r1"), Ref(2, "r1")>>)
wrap_secp256r1_mul == Wrapper("secp256r1_mul", <<Ref(1, "r1"), Ref(2, "u256")>>)
wrap_secp256r1_get_point_from_x ==
  Wrapper("secp256r1_get_point_from_x", <<Ref(1, "u256"), Ref(2, "bool")>>)
wrap_secp256r1_get_xy == Wrapper("secp256r1_get_xy", <<Ref(1, "r1")>>)
wrap_sha256_process_block ==
  Wrapper("sha256_process_block", <<Pointee(1, "sha256"), Pointee(2, "block256")>>)
wrap_sha512_process_block ==
  Wrapper("sha512_process_block", <<Pointee(1, "sha512"), Pointee(2, "block512")>>)
wrap_get_class_hash_at == Wrapper("get_class_hash_at", <<Ref(1, "felt")>>)
wrap_meta_tx_v0 ==
  Wrapper("meta_tx_v0", <<Ref(1, "felt"), Ref(2, "felt"), Ref(3, "felts"), Ref(4, "felts")>>)
wrap_cheatcode == Wrapper("cheatcode", <<Ref(1, "felt"), Ref(2, "felts")>>)

\* The fields are filled in the order they are declared.
Callbacks == <<
  wrap_get_block_hash, wrap_get_execution_info, wrap_get_execution_info_v2,
  wrap_get_execution_info_v3, wrap_deploy, wrap_replace_class, wrap_library_call,
  wrap_call_contract, wrap_storage_read, wrap_storage_write, wrap_emit_event,
  wrap_send_message_to_l1, wrap_keccak, wrap_secp256k1_new, wrap_secp256k1_add,
  wrap_secp256k1_mul, wrap_secp256k1_get_point_from_x, wrap_secp256k1_get_xy,
  wrap_secp256r1_new, wrap_secp256r1_add, wrap_secp256r1_mul,
  wrap_secp256r1_get_point_from_x, wrap_secp256r1_get_xy, wrap_sha256_process_block,
  wrap_sha512_process_block, wrap_get_class_hash_at, wrap_meta_tx_v0, wrap_cheatcode>>

\* What each libfunc compiles to: the dispatch over the concrete libfuncs.
build == [
  get_block_hash |-> build_get_block_hash,
  get_execution_info |-> build_get_execution_info,
  get_execution_info_v2 |-> build_get_execution_info_v2,
  get_execution_info_v3 |-> build_get_execution_info_v3,
  deploy |-> build_deploy, replace_class |-> build_replace_class,
  library_call |-> build_library_call, call_contract |-> build_call_contract,
  storage_read |-> build_storage_read, storage_write |-> build_storage_write,
  emit_event |-> build_emit_event, send_message_to_l1 |-> build_send_message_to_l1,
  keccak |-> build_keccak, get_class_hash_at |-> build_get_class_hash_at,
  sha256_process_block |-> build_sha256_process_block_syscall,
  sha512_process_block |-> build_sha512_process_block_syscall,
  meta_tx_v0 |-> build_meta_tx_v0, cheatcode |-> build_cheatcode,
  secp256k1_new |-> build_k1_new, secp256k1_add |-> build_k1_add,
  secp256k1_mul |-> build_k1_mul, secp256k1_get_xy |-> build_k1_get_xy,
  secp256k1_get_point_from_x |-> build_k1_get_point_from_x,
  secp256r1_new |-> build_r1_new, secp256r1_add |-> build_r1_add,
  secp256r1_mul |-> build_r1_mul, secp256r1_get_xy |-> build_r1_get_xy,
  secp256r1_get_point_from_x |-> build_r1_get_point_from_x]

-----------------------------------------------------------------------------
(* The three steps of a call.                                              *)

NoResult == [tag |-> 0, at |-> 0, words |-> <<>>]
NoFrame == [at |-> "contract", gas |-> 0, entry |-> 0, operands |-> <<>>,
            asked |-> S!Idle, result |-> NoResult]

Init ==
  /\ gas = InitialGas
  /\ held = InputWords
  /\ blocks = InputBlocks
  /\ call = S!Idle
  /\ frame = NoFrame
  /\ outcome = S!Nothing

\* The compiled code fills its stack slots and calls the table's entry.
Call(m, p) ==
  /\ frame.at = "contract"
  /\ Len(held) < Len(InputWords) + MaxResults
  /\ LET words == [i \in DOMAIN p |-> held[p[i]]]
         pass(o) == [in |-> o.in, word |-> words[o.arg - 1]]
         code == build[m]
     IN /\ call' = [method |-> m, args |-> words]
        /\ frame' = [frame EXCEPT
             !.at = "wrapper", !.gas = gas, !.entry = Index(code.field),
             !.operands = [i \in DOMAIN code.operands |-> pass(code.operands[i])]]
  /\ outcome' = S!Nothing
  /\ UNCHANGED <<gas, held, blocks>>

\* What a wrapper makes of an operand: Junk unless it was passed as it is read.  An
\* array's slot holds the array's words; a pointer is passed in a register.
Read(r, operands) ==
  LET o == operands[r.param]
      passed == IF r.from = "slot" THEN "slot" ELSE "register"
      pointer == o.word[1] \in PointerKinds
  IN IF o.in = passed /\ o.word[1] = r.kind /\ (r.from = "pointer") = pointer
     THEN ValueOf(o.word, blocks)
     ELSE Junk

Asked(w, operands) ==
  [method |-> w.method, args |-> [i \in DOMAIN w.reads |-> Read(w.reads[i], operands)]]

\* Memory allocated for a value an answer carries, and the word that refers to it.
Contents(v) ==
  IF v[1] \in ArrayKinds THEN (IF v[2] = <<>> THEN <<>> ELSE <<v[2]>>)
  ELSE IF v[1] \in PointerKinds THEN <<v[2]>> ELSE <<>>

alloc_mlir_array(v, ptr) ==
  IF v[2] = <<>> THEN <<v[1], [ptr |-> 0, since |-> 0, until |-> 0]>>
  ELSE <<v[1], [ptr |-> ptr, since |-> 0, until |-> Len(v[2])]>>

Word(v, ptr) ==
  IF v[1] \in ArrayKinds THEN alloc_mlir_array(v, ptr)
  ELSE IF v[1] \in PointerKinds THEN <<v[1], ptr>> ELSE v

\* At most one value of an answer takes memory.
Allocated(vs) == {Contents(vs[i]) : i \in DOMAIN vs} \ {<<>>}
NewBlocks(vs) == IF Allocated(vs) = {} THEN <<>> ELSE CHOOSE b \in Allocated(vs) : TRUE
Words(vs, ptr) == [i \in DOMAIN vs |-> Word(vs[i], ptr)]

\* The hash functions work in a copy of the state, made before the handler is asked and
\* left as the handler left it whatever it answers; on success the copy is the result.
HashKinds == {"sha256", "sha512"}
Scratch(m) ==
  LET gives == S!StarknetSyscallHandler[m].gives
  IN IF gives # <<>> /\ gives[1] \in HashKinds
     THEN {<<v[2]>> : v \in Answers(gives[1])} ELSE {<<>>}

\* The wrapper asks the handler and writes its answer; the gas slot is the handler's.
WrapOk(w, r, remaining) ==
  /\ blocks' = blocks \o NewBlocks(r)
  /\ frame' = [frame EXCEPT
       !.at = "return", !.gas = remaining, !.asked = Asked(w, frame.operands),
       !.result = [tag |-> 0, words |-> Words(r, Len(blocks) + 1),
                   at |-> UnionOffset(S!StarknetSyscallHandler[w.method].gives)]]

wrap_error(w, e, remaining) ==
  \E scratch \in Scratch(w.method) :
    LET mem == blocks \o scratch
    IN /\ blocks' = mem \o NewBlocks(e)
       /\ frame' = [frame EXCEPT
            !.at = "return", !.gas = remaining, !.asked = Asked(w, frame.operands),
            !.result = [tag |-> 1, words |-> Words(e, Len(mem) + 1),
                        at |-> UnionOffset(<<"felts">>)]]

Wrap ==
  /\ frame.at = "wrapper"
  /\ LET w == Callbacks[frame.entry]
     IN \E remaining \in IF S!Metered(w.method) THEN 0..frame.gas ELSE {frame.gas} :
          \/ \E r \in S!Successes(w.method) : WrapOk(w, r, remaining)
          \/ \E e \in S!Errors(w.method) : wrap_error(w, e, remaining)
  /\ UNCHANGED <<gas, held, call, outcome>>

\* The compiled code loads both payloads and branches on the tag.
Load(kinds) ==
  LET r == frame.result
      written == [i \in DOMAIN r.words |-> r.words[i][1]]
  IN IF r.at = VariantOffset(kinds) /\ written = kinds
     THEN r.words ELSE [i \in DOMAIN kinds |-> Junk]

execute_syscall_Swapped(code) ==   \* (mutant) the payloads of the branches
  IF frame.result.tag = 0 THEN Load(<<"felts">>)
  ELSE IF code.loads = <<>> THEN <<>> ELSE Load(code.loads)
execute_syscall(code) ==
  IF frame.result.tag = 1 THEN Load(<<"felts">>)
  ELSE IF code.loads = <<>> THEN <<>> ELSE Load(code.loads)

Return ==
  /\ frame.at = "return"
  /\ LET loaded == execute_syscall(build[call.method])
     IN /\ held' = held \o loaded
        /\ outcome' = [asked |-> frame.asked, given |-> gas,
                       branch |-> frame.result.tag, results |-> loaded]
  /\ gas' = frame.gas
  /\ call' = S!Idle
  /\ frame' = NoFrame
  /\ UNCHANGED blocks

Next ==
  \/ \E m \in S!Methods : \E p \in S!Arguments(m, held) : Call(m, p)
  \/ Wrap
  \/ Return

Spec == Init /\ [][Next]_vars

-----------------------------------------------------------------------------
\* Compiled syscalls implement SyscallSpec: the method, every argument, the branch, every
\* result and the gas survive the calling convention, and what the contract held before
\* keeps its value (hash states too: wrap_sha256_process_block copies them).
SyscallIsHandlerCall == S!Spec
=============================================================================
