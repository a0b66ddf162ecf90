---------------------------- MODULE SyscallSpec ----------------------------
(***************************************************************************)
(* What a system call of a Starknet contract promises, whatever runs the   *)
(* contract: the handler is asked exactly what the contract passed, with   *)
(* the gas it had left, and the contract goes on with the gas the handler  *)
(* left, in the branch of Ok with its result or in the branch of Err with  *)
(* the felts of the error.  Nothing the contract held before changes.  One *)
(* handler serves the compiled code (module SyscallAbi) and the reference  *)
(* interpreter (module SyscallEmulator).                                   *)
(***************************************************************************)
EXTENDS Integers, Sequences

CONSTANTS
  Inputs,           \* what the contract holds at first, a sequence of values
  Answers(_),       \* the values of a kind a handler may answer with
  InitialGas,
  MaxResults        \* bound on the results the contract collects

VARIABLES
  gas,              \* gas left, as the contract knows it
  held,             \* the values the contract holds, oldest first
  call,             \* the call in progress
  outcome           \* what the handler was asked and what the contract got

vars == <<gas, held, call, outcome>>

\* A value is tagged with its kind.
Is(v, kind) == v[1] = kind

Signature(takes, gives) == [takes |-> takes, gives |-> gives]

\* The kinds of the parameters and of the values in the Ok of every method of a handler.
StarknetSyscallHandler == [
  get_block_hash             |-> Signature(<<"u64">>, <<"felt">>),
  get_execution_info         |-> Signature(<<>>, <<"info">>),
  get_execution_info_v2      |-> Signature(<<>>, <<"info">>),
  get_execution_info_v3      |-> Signature(<<>>, <<"info">>),
  deploy                     |-> Signature(<<"felt", "felt", "felts", "bool">>, <<"felt", "felts">>),
  replace_class              |-> Signature(<<"felt">>, <<>>),
  library_call               |-> Signature(<<"felt", "felt", "felts">>, <<"felts">>),
  call_contract              |-> Signature(<<"felt", "felt", "felts">>, <<"felts">>),
  storage_read               |-> Signature(<<"u32", "felt">>, <<"felt">>),
  storage_write              |-> Signature(<<"u32", "felt", "felt">>, <<>>),
  emit_event                 |-> Signature(<<"felts", "felts">>, <<>>),
  send_message_to_l1         |-> Signature(<<"felt", "felts">>, <<>>),
  keccak                     |-> Signature(<<"u64s">>, <<"u256">>),
  secp256k1_new              |-> Signature(<<"u256", "u256">>, <<"option_k1">>),
  secp256k1_add              |-> Signature(<<"k1", "k1">>, <<"k1">>),
  secp256k1_mul              |-> Signature(<<"k1", "u256">>, <<"k1">>),
  secp256k1_get_point_from_x |-> Signature(<<"u256", "bool">>, <<"option_k1">>),
  secp256k1_get_xy           |-> Signature(<<"k1">>, <<"u256", "u256">>),
  secp256r1_new              |-> Signature(<<"u256", "u256">>, <<"option_r1">>),
  secp256r1_add              |-> Signature(<<"r1", "r1">>, <<"r1">>),
  secp256r1_mul              |-> Signature(<<"r1", "u256">>, <<"r1">>),
  secp256r1_get_point_from_x |-> Signature(<<"u256", "bool">>, <<"option_r1">>),
  secp256r1_get_xy           |-> Signature(<<"r1">>, <<"u256", "u256">>),
  sha256_process_block       |-> Signature(<<"sha256", "block256">>, <<"sha256">>),
  sha512_process_block       |-> Signature(<<"sha512", "block512">>, <<"sha512">>),
  get_class_hash_at          |-> Signature(<<"felt">>, <<"felt">>),
  meta_tx_v0                 |-> Signature(<<"felt", "felt", "felts", "felts">>, <<"felts">>),
  cheatcode                  |-> Signature(<<"felt", "felts">>, <<"felts">>)]

Methods == DOMAIN StarknetSyscallHandler

\* A cheatcode costs no gas and cannot fail.
Metered(m) == m # "cheatcode"

Idle == [method |-> "none", args |-> <<>>]
Nothing == [asked |-> Idle, given |-> 0, branch |-> 0, results |-> <<>>]

\* The ways a contract can pass what it holds to a method, by position.  No method takes
\* more than four parameters.
Arguments(m, values) ==
  LET takes == StarknetSyscallHandler[m].takes
      n == Len(takes)
      At(i) == {j \in DOMAIN values : Is(values[j], takes[i])}
  IN CASE n = 0 -> {<<>>}
       [] n = 1 -> {<<a>> : a \in At(1)}
       [] n = 2 -> {<<a, b>> : a \in At(1), b \in At(2)}
       [] n = 3 -> {<<a, b, c>> : a \in At(1), b \in At(2), c \in At(3)}
       [] n = 4 -> {<<a, b, c, d>> : a \in At(1), b \in At(2), c \in At(3), d \in At(4)}

Init ==
  /\ gas = InitialGas
  /\ held = Inputs
  /\ call = Idle
  /\ outcome = Nothing

Ask(m, p) ==
  /\ call = Idle
  /\ Len(held) < Len(Inputs) + MaxResults
  /\ call' = [method |-> m, args |-> [i \in DOMAIN p |-> held[p[i]]]]
  /\ outcome' = Nothing
  /\ UNCHANGED <<gas, held>>

\* What a handler may return in an Ok, and in an Err.
Successes(m) ==
  LET gives == StarknetSyscallHandler[m].gives
  IN {r \in [1..Len(gives) -> UNION {Answers(gives[i]) : i \in 1..Len(gives)}] :
        \A i \in 1..Len(gives) : Is(r[i], gives[i])}
Errors(m) == IF Metered(m) THEN {<<e>> : e \in Answers("felts")} ELSE {}

\* The contract goes on in branch 0 after an Ok, in branch 1 after an Err.
Reply(branch, results, remaining) ==
  /\ gas' = remaining
  /\ held' = held \o results
  /\ outcome' = [asked |-> call, given |-> gas, branch |-> branch, results |-> results]
  /\ call' = Idle

Answer ==
  /\ call # Idle
  /\ \E remaining \in IF Metered(call.method) THEN 0..gas ELSE {gas} :
       \/ \E r \in Successes(call.method) : Reply(0, r, remaining)
       \/ \E e \in Errors(call.method) : Reply(1, e, remaining)

Next ==
  \/ \E m \in Methods : \E p \in Arguments(m, held) : Ask(m, p)
  \/ Answer

Spec == Init /\ [][Next]_vars
=============================================================================
