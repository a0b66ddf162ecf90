---------------------------- MODULE StubHandler ----------------------------
(***************************************************************************)
(* StubSyscallHandler (starknet_stub.rs), the in-memory Starknet that      *)
(* contracts run against in the repository's tests and tools.  It keeps    *)
(* the storage and logs of every contract, the class of every deployed     *)
(* one, and one execution context.  call_contract, library_call and deploy *)
(* run another contract in the middle of a call, which makes system calls  *)
(* of its own on the same handler: what belongs to whom depends on the     *)
(* context being opened and closed around every such run.                  *)
(***************************************************************************)
EXTENDS Integers, Sequences

CONSTANTS
  Addresses,        \* contract addresses
  Zero,             \* the address felt 0 stands for
  Declared,         \* class hash -> [constructor : BOOLEAN, externals : a set of selectors]
  Unknown,          \* a class hash that is not declared
  Selectors, Keys, Values, Salts,
  AddressOf(_, _, _),   \* the address hashed from deployer, salt and class
  EntryPointCost,   \* ENTRY_POINT_COST of the Cairo compiler
  EntryRequired,    \* initial gas an entry point's function requires
  Budgets,          \* the gas the host may give to the outermost call
  Leftovers,        \* the gas a contract's own code may leave
  MaxDepth,         \* bound on the nesting of calls
  MaxSyscalls,      \* bound on the system calls of a behaviour
  None              \* stands for an absent value

ASSUME AddressAssumption ==
  /\ Zero \in Addresses
  /\ \A d \in Addresses, s \in Salts, c \in DOMAIN Declared : AddressOf(d, s, c) \in Addresses

ASSUME ClassAssumption ==
  /\ Unknown \notin DOMAIN Declared
  /\ None \notin DOMAIN Declared \cup {Unknown}
  /\ None \notin Addresses
  /\ \A c \in DOMAIN Declared : Declared[c].constructor \in BOOLEAN

ASSUME GasAssumption ==
  {EntryPointCost, EntryRequired} \cup Budgets \cup Leftovers \subseteq Nat

VARIABLES
  storage,          \* contract -> key -> value, 0 where nothing is written
  deployed,         \* contract -> class, None where nothing is deployed
  logs,             \* contract -> events and messages not yet read
  context,          \* contract_address and caller_address of execution_info
  blockHash,        \* the mock history: whether a block's hash is set
  executor,         \* whether the handler was given one to run other contracts with
  frames,           \* running contracts, outermost first
  reply,            \* the last answer of the handler
  made,             \* system calls made
  aborted           \* an expect of the handler failed: the process is gone

world == <<storage, deployed, logs, blockHash, executor>>
vars == <<storage, deployed, logs, context, blockHash, executor, frames, reply, made, aborted>>

Top == Len(frames)
Gas == IF Top = 0 THEN 0 ELSE frames[Top].gas

-----------------------------------------------------------------------------
\* mod gas_costs, in the units of the source.
STEP == 100
RANGE_CHECK == 70
BITWISE == 594
ENTRY_POINT == EntryPointCost + 500 * STEP

Cost == [
  CALL_CONTRACT |-> 10 * STEP + ENTRY_POINT,
  DEPLOY |-> 200 * STEP + ENTRY_POINT,
  EMIT_EVENT |-> 10 * STEP,
  GET_BLOCK_HASH |-> 50 * STEP,
  GET_EXECUTION_INFO |-> 10 * STEP,
  GET_CLASS_HASH_AT |-> 50 * STEP,
  KECCAK |-> 0,
  KECCAK_ROUND_COST |-> 180000,
  SHA256_PROCESS_BLOCK |-> 1852 * STEP + 65 * RANGE_CHECK + 1115 * BITWISE,
  SHA512_PROCESS_BLOCK |-> 4733 * STEP + 65 * RANGE_CHECK + 3320 * BITWISE,
  LIBRARY_CALL |-> 10 * STEP + ENTRY_POINT,
  REPLACE_CLASS |-> 50 * STEP,
  SECP256_ADD |-> 254 * STEP + 29 * RANGE_CHECK,
  SECP256_GET_POINT_FROM_X |-> 260 * STEP + 29 * RANGE_CHECK,
  SECP256_GET_XY |-> 24 * STEP + 9 * RANGE_CHECK,
  SECP256_MUL |-> 121810 * STEP + 10739 * RANGE_CHECK,
  SECP256_NEW |-> 340 * STEP + 36 * RANGE_CHECK,
  SEND_MESSAGE_TO_L1 |-> 50 * STEP,
  STORAGE_READ |-> 50 * STEP,
  STORAGE_WRITE |-> 50 * STEP]

-----------------------------------------------------------------------------
(* Frames.  self and caller name the contract a frame runs as and the one  *)
(* that called it, as the calls themselves determine them; the handler     *)
(* does not have them: it has the context, and old, the addresses it saved *)
(* when it opened the frame's context (None where it opens none).  before  *)
(* is what the caller had before the call, for the properties.             *)

Frame(kind, self, caller, gas, before, old, address) ==
  [kind |-> kind, self |-> self, caller |-> caller, gas |-> gas, before |-> before,
   old |-> old, address |-> address]

\* A library call runs as the frame that made it.
Owner(fs) == CHOOSE i \in DOMAIN fs :
  /\ fs[i].kind # "library"
  /\ \A j \in DOMAIN fs : j > i => fs[j].kind = "library"

Self == frames[Owner(frames)].self

Ok(v) == [ok |-> TRUE, value |-> v]
Err(e) == [ok |-> FALSE, value |-> e]

Running == Top > 0 /\ ~aborted

\* A system call that the gas allows: counted, and charged before anything else.
Syscall(cost) ==
  /\ Running
  /\ made < MaxSyscalls
  /\ Gas >= cost
  /\ made' = made + 1
Charged(cost) == [frames EXCEPT ![Top].gas = @ - cost]

\* A system call that ends in the handler, with the answer r.
Answers(cost, r) ==
  /\ Syscall(cost)
  /\ frames' = Charged(cost)
  /\ reply' = r
  /\ UNCHANGED <<context, aborted>>

\* deduct_gas: too little gas fails the call and takes nothing.
deduct_gas(cost) ==
  /\ Running
  /\ made < MaxSyscalls
  /\ made' = made + 1
  /\ Gas < cost
  /\ reply' = Err("Syscall out of gas")
  /\ UNCHANGED <<world, context, frames, aborted>>

-----------------------------------------------------------------------------
(* Calls into other contracts.                                             *)

open_caller_context_Swapped(contract, caller) ==   \* (mutant)
  context' = [contract |-> caller, caller |-> contract]
open_caller_context(contract, caller) ==
  context' = [contract |-> contract, caller |-> caller]

close_caller_context_CallerKept(old) ==   \* (mutant)
  context' = [old EXCEPT !.caller = context.caller]
close_caller_context(old) == context' = old

\* The callee's gas: the refunded entry point cost, less what its function requires.
InnerGas_NotRefunded(cost) == Gas - cost - EntryRequired   \* (mutant)
InnerGas_NothingTaken(cost) == Gas + EntryPointCost        \* (mutant)
InnerGas(cost) == Gas - cost + EntryPointCost - EntryRequired

\* The expects before the callee runs: a handler without an executor, and an executor that
\* refuses the function for lack of gas, end the process with the callee's context open.
call_entry_point(cost, frame) ==
  IF executor /\ Gas - cost + EntryPointCost >= EntryRequired
  THEN /\ frames' = Append(Charged(cost), frame)
       /\ UNCHANGED aborted
  ELSE /\ aborted' = TRUE
       /\ UNCHANGED frames

AlreadyDeployed(address) == deployed[address] # None

\* The class is registered before anything is checked but its declaration, also over that
\* of a contract already deployed, and removed again when there is calldata and no
\* constructor for it.
deploy(class, salt, calldata, from_zero) ==
  LET deployer == IF from_zero THEN Zero ELSE context.contract
      address == AddressOf(deployer, salt, class)
      cost == Cost.DEPLOY
  IN /\ Top < MaxDepth
     /\ UNCHANGED <<storage, logs, blockHash, executor>>
     /\ IF class \notin DOMAIN Declared
        THEN Answers(cost, Err("CLASS_HASH_NOT_FOUND")) /\ UNCHANGED deployed
        ELSE IF AlreadyDeployed(address)
        THEN /\ Answers(cost, Err("CONTRACT_ALREADY_DEPLOYED"))
             /\ deployed' = [deployed EXCEPT ![address] = class]
        ELSE IF Declared[class].constructor
        THEN /\ Syscall(cost)
             /\ deployed' = [deployed EXCEPT ![address] = class]
             /\ open_caller_context(address, deployer)
             /\ call_entry_point(cost, Frame("deploy", address,
                  IF from_zero THEN Zero ELSE Self, InnerGas(cost), Gas, context, address))
             /\ UNCHANGED reply
        ELSE IF calldata = "empty"
        THEN /\ Answers(cost, Ok(address))
             /\ deployed' = [deployed EXCEPT ![address] = class]
        ELSE /\ Answers(cost, Err("INVALID_CALLDATA_LEN"))
             /\ deployed' = [deployed EXCEPT ![address] = None]

library_call(class, selector) ==
  LET cost == Cost.LIBRARY_CALL
  IN /\ Top < MaxDepth
     /\ UNCHANGED world
     /\ IF class \notin DOMAIN Declared
        THEN Answers(cost, Err("CLASS_HASH_NOT_DECLARED"))
        ELSE IF selector \notin Declared[class].externals
        THEN Answers(cost, Err("ENTRYPOINT_NOT_FOUND"))
        ELSE /\ Syscall(cost)
             /\ call_entry_point(cost, Frame("library", None, None, InnerGas(cost), Gas,
                                             None, None))
             /\ UNCHANGED <<context, reply>>

call_contract(address, selector) ==
  LET cost == Cost.CALL_CONTRACT
  IN /\ Top < MaxDepth
     /\ UNCHANGED world
     /\ IF deployed[address] = None
        THEN Answers(cost, Err("CONTRACT_NOT_DEPLOYED"))
        ELSE IF deployed[address] \notin DOMAIN Declared
        THEN Syscall(cost) /\ aborted' = TRUE /\ UNCHANGED <<context, frames, reply>>
        ELSE IF selector \notin Declared[deployed[address]].externals
        THEN Answers(cost, Err("ENTRYPOINT_NOT_FOUND"))
        ELSE /\ Syscall(cost)
             /\ open_caller_context(address, context.contract)
             /\ call_entry_point(cost, Frame("call", address, Self, InnerGas(cost), Gas,
                                             context, None))
             /\ UNCHANGED reply

\* The innermost contract ends, with its felts or with a panic (read_contract_result);
\* the caller goes on with the gas that is left.
EntryPointReturns(panics) ==
  LET callee == frames[Top]
  IN /\ Running
     /\ Top > 1
     /\ frames' = [SubSeq(frames, 1, Top - 1) EXCEPT ![Top - 1].gas = callee.gas]
     /\ reply' = IF panics
                 THEN Err(IF callee.kind = "deploy" THEN "CONSTRUCTOR_FAILED"
                          ELSE "ENTRYPOINT_FAILED")
                 ELSE Ok(callee.address)
     /\ IF callee.kind = "library" THEN UNCHANGED context ELSE close_caller_context(callee.old)
     /\ UNCHANGED <<world, made, aborted>>

\* The expects after it: an invocation that ends with an error (a fault that was caught,
\* arguments or a result that cannot be converted) or with a value that is no panic result.
EntryPointFails ==
  /\ Running
  /\ Top > 1
  /\ aborted' = TRUE
  /\ UNCHANGED <<world, context, frames, reply, made>>

-----------------------------------------------------------------------------
(* System calls answered by the handler itself.                            *)

\* Those that read the context or compute; what they return is left out.
Computes(cost) ==
  /\ UNCHANGED world
  /\ \/ Answers(cost, Ok(None))
     \/ Answers(cost, Err("refused"))

get_execution_info == UNCHANGED world /\ Answers(Cost.GET_EXECUTION_INFO, Ok(context))
get_execution_info_v2 == UNCHANGED world /\ Answers(Cost.GET_EXECUTION_INFO, Ok(context))
get_execution_info_v3 == UNCHANGED world /\ Answers(Cost.GET_EXECUTION_INFO, Ok(context))

secp256k1_new == Computes(Cost.SECP256_NEW)
secp256k1_add == UNCHANGED world /\ Answers(Cost.SECP256_ADD, Ok(None))
secp256k1_mul == UNCHANGED world /\ Answers(Cost.SECP256_MUL, Ok(None))
secp256k1_get_point_from_x == Computes(Cost.SECP256_GET_POINT_FROM_X)
secp256k1_get_xy == UNCHANGED world /\ Answers(Cost.SECP256_GET_XY, Ok(None))
secp256r1_new == Computes(Cost.SECP256_NEW)
secp256r1_add == UNCHANGED world /\ Answers(Cost.SECP256_ADD, Ok(None))
secp256r1_mul == UNCHANGED world /\ Answers(Cost.SECP256_MUL, Ok(None))
secp256r1_get_point_from_x == Computes(Cost.SECP256_GET_POINT_FROM_X)
secp256r1_get_xy == UNCHANGED world /\ Answers(Cost.SECP256_GET_XY, Ok(None))
sha256_process_block == UNCHANGED world /\ Answers(Cost.SHA256_PROCESS_BLOCK, Ok(None))
sha512_process_block == UNCHANGED world /\ Answers(Cost.SHA512_PROCESS_BLOCK, Ok(None))

\* Input in rounds of 17 words, or of another length.  Every round is charged on its own:
\* a call that runs out half way has paid for the rounds before.
keccak(rounds, remainder) ==
  LET affordable == Gas \div Cost.KECCAK_ROUND_COST
  IN /\ UNCHANGED world
     /\ IF remainder THEN Answers(Cost.KECCAK, Err("Invalid input length"))
        ELSE IF rounds <= affordable
        THEN Answers(Cost.KECCAK + rounds * Cost.KECCAK_ROUND_COST, Ok(None))
        ELSE Answers(Cost.KECCAK + affordable * Cost.KECCAK_ROUND_COST,
                     Err("Syscall out of gas"))

get_block_hash ==
  /\ UNCHANGED world
  /\ Answers(Cost.GET_BLOCK_HASH,
             IF blockHash THEN Ok(None) ELSE Err("GET_BLOCK_HASH_NOT_SET"))

get_class_hash_at(address) ==
  /\ UNCHANGED world
  /\ Answers(Cost.GET_CLASS_HASH_AT, Ok(deployed[address]))

replace_class_Unchecked(class) ==   \* (mutant)
  /\ UNCHANGED <<storage, logs, blockHash, executor>>
  /\ Answers(Cost.REPLACE_CLASS, Ok(None))
  /\ deployed' = [deployed EXCEPT ![context.contract] = class]
replace_class(class) ==
  /\ UNCHANGED <<storage, logs, blockHash, executor>>
  /\ IF class \notin DOMAIN Declared
     THEN Answers(Cost.REPLACE_CLASS, Err("CLASS_HASH_NOT_FOUND")) /\ UNCHANGED deployed
     ELSE /\ Answers(Cost.REPLACE_CLASS, Ok(None))
          /\ deployed' = [deployed EXCEPT ![context.contract] = class]

storage_read(domain, key) ==
  /\ UNCHANGED world
  /\ Answers(Cost.STORAGE_READ,
             IF domain # 0 THEN Err("Unsupported address domain")
             ELSE Ok(storage[context.contract][key]))

storage_write(domain, key, v) ==
  /\ UNCHANGED <<deployed, logs, blockHash, executor>>
  /\ IF domain # 0
     THEN /\ Answers(Cost.STORAGE_WRITE, Err("Unsupported address domain"))
          /\ UNCHANGED storage
     ELSE /\ Answers(Cost.STORAGE_WRITE, Ok(None))
          /\ storage' = [storage EXCEPT ![context.contract][key] = v]

\* Events and messages are two queues per contract; their contents are the values.
emit_event(v) ==
  /\ UNCHANGED <<storage, deployed, blockHash, executor>>
  /\ Answers(Cost.EMIT_EVENT, Ok(None))
  /\ logs' = [logs EXCEPT ![context.contract].events = Append(@, v)]

send_message_to_l1(v) ==
  /\ UNCHANGED <<storage, deployed, blockHash, executor>>
  /\ Answers(Cost.SEND_MESSAGE_TO_L1, Ok(None))
  /\ logs' = [logs EXCEPT ![context.contract].messages = Append(@, v)]

-----------------------------------------------------------------------------
(* Cheatcodes: free, and allowed to set the context itself.                *)

Cheat(r) == Syscall(0) /\ reply' = r /\ UNCHANGED <<aborted>>

set_caller_address(a) ==
  /\ Cheat(Ok(None))
  /\ context' = [context EXCEPT !.caller = a]
  /\ frames' = [frames EXCEPT ![Owner(frames)].caller = a]
  /\ UNCHANGED world

set_contract_address(a) ==
  /\ Cheat(Ok(None))
  /\ context' = [context EXCEPT !.contract = a]
  /\ frames' = [frames EXCEPT ![Owner(frames)].self = a]
  /\ UNCHANGED world

\* The block, the transaction and its signature are not part of the context kept here.
set_other_info == Cheat(Ok(None)) /\ UNCHANGED <<world, context, frames>>

set_block_hash ==
  /\ Cheat(Ok(None))
  /\ blockHash' = TRUE
  /\ UNCHANGED <<storage, deployed, logs, executor, context, frames>>

pop_log(a) ==
  /\ UNCHANGED <<storage, deployed, blockHash, executor, context, frames>>
  /\ IF logs[a].events = <<>> THEN Cheat(Ok(None)) /\ UNCHANGED logs
     ELSE /\ Cheat(Ok(Head(logs[a].events)))
          /\ logs' = [logs EXCEPT ![a].events = Tail(@)]

pop_l2_to_l1_message(a) ==
  /\ UNCHANGED <<storage, deployed, blockHash, executor, context, frames>>
  /\ IF logs[a].messages = <<>> THEN Cheat(Ok(None)) /\ UNCHANGED logs
     ELSE /\ Cheat(Ok(Head(logs[a].messages)))
          /\ logs' = [logs EXCEPT ![a].messages = Tail(@)]

-----------------------------------------------------------------------------
Init ==
  /\ storage = [a \in Addresses |-> [k \in Keys |-> 0]]
  /\ deployed = [a \in Addresses |-> None]
  /\ logs = [a \in Addresses |-> [events |-> <<>>, messages |-> <<>>]]
  /\ context = [contract |-> Zero, caller |-> Zero]
  /\ blockHash = FALSE
  /\ executor \in BOOLEAN
  /\ frames = <<>>
  /\ reply = Ok(None)
  /\ made = 0
  /\ aborted = FALSE

\* The host sets the context and runs a contract, and reads what it returned.
HostCall(contract, caller, gas) ==
  /\ frames = <<>>
  /\ made < MaxSyscalls
  /\ open_caller_context(contract, caller)
  /\ frames' = <<Frame("host", contract, caller, gas, gas, None, None)>>
  /\ UNCHANGED <<world, reply, made, aborted>>

HostReturn ==
  /\ Running
  /\ Top = 1
  /\ frames' = <<>>
  /\ UNCHANGED <<world, context, reply, made, aborted>>

\* The contract's own code uses gas.
Compute ==
  /\ Running
  /\ \E left \in Leftovers :
       /\ left < Gas
       /\ frames' = [frames EXCEPT ![Top].gas = left]
  /\ UNCHANGED <<world, context, reply, made, aborted>>

Classes == DOMAIN Declared \cup {Unknown}

Calls ==
  \/ \E c \in Classes, s \in Salts, d \in {"empty", "some"}, z \in BOOLEAN : deploy(c, s, d, z)
  \/ \E c \in Classes, e \in Selectors : library_call(c, e)
  \/ \E a \in Addresses, e \in Selectors : call_contract(a, e)
  \/ \E p \in BOOLEAN : EntryPointReturns(p)
  \/ EntryPointFails

Queries ==
  \/ get_block_hash \/ get_execution_info \/ get_execution_info_v2 \/ get_execution_info_v3
  \/ secp256k1_new \/ secp256k1_add \/ secp256k1_mul \/ secp256k1_get_point_from_x
  \/ secp256k1_get_xy \/ secp256r1_new \/ secp256r1_add \/ secp256r1_mul
  \/ secp256r1_get_point_from_x \/ secp256r1_get_xy
  \/ sha256_process_block \/ sha512_process_block
  \/ \E n \in 0..2, r \in BOOLEAN : keccak(n, r)
  \/ \E a \in Addresses : get_class_hash_at(a)
  \/ \E d \in {0, 1}, k \in Keys : storage_read(d, k)
  \/ \E m \in DOMAIN Cost \ {"KECCAK_ROUND_COST"} : deduct_gas(Cost[m])

Updates ==
  \/ \E c \in Classes : replace_class(c)
  \/ \E d \in {0, 1}, k \in Keys, v \in Values : storage_write(d, k, v)
  \/ \E v \in Values : emit_event(v) \/ send_message_to_l1(v)

Cheats ==
  \/ \E a \in Addresses : set_caller_address(a) \/ set_contract_address(a)
  \/ \E a \in Addresses : pop_log(a) \/ pop_l2_to_l1_message(a)
  \/ set_block_hash \/ set_other_info

Next ==
  \/ \E a \in Addresses, b \in Addresses, g \in Budgets : HostCall(a, b, g)
  \/ HostReturn
  \/ Compute
  \/ Calls
  \/ Queries
  \/ Updates
  \/ Cheats

Spec == Init /\ [][Next]_vars

-----------------------------------------------------------------------------
\* The types of the variables.
TypeOK ==
  /\ storage \in [Addresses -> [Keys -> Values \cup {0}]]
  /\ deployed \in [Addresses -> Classes \cup {None}]
  /\ logs \in [Addresses -> [events : Seq(Values), messages : Seq(Values)]]
  /\ context \in [contract : Addresses, caller : Addresses]
  /\ {blockHash, executor} \subseteq BOOLEAN
  /\ \A i \in 1..Top : frames[i].gas \in Nat
  /\ made \in Nat
  /\ aborted \in BOOLEAN

\* The context is that of the innermost contract that opened one: opened and closed
\* around every call, left alone by library calls, whatever the calls in between did,
\* cheatcodes that set the addresses included.
ContextIsInnermost ==
  Running => context = [contract |-> Self, caller |-> frames[Owner(frames)].caller]

\* call_contract looks a deployed contract's class up with expect: every class that is
\* ever registered is declared, so that this one of the handler's expects never fails.
RegisteredIsDeclared == \A a \in Addresses : deployed[a] # None => deployed[a] \in DOMAIN Declared

\* No chain of calls creates gas: a callee, refunded entry point cost included, has never
\* more than its caller had before the call, so the caller goes on with less than it had.
GasNeverCreated ==
  \A i \in 1..Top : /\ frames[i].gas <= frames[i].before
                    /\ i > 1 => frames[i].before <= frames[i - 1].before

\* A contract's storage and logs are changed by the contract itself only, popped logs and
\* messages apart.
OnlyOwnState ==
  [][\A a \in Addresses :
       (storage'[a] # storage[a] \/ Len(logs'[a].events) > Len(logs[a].events)
          \/ Len(logs'[a].messages) > Len(logs[a].messages)) => a = Self]_vars
=============================================================================
