-------------------------- MODULE SyscallEmulator --------------------------
(***************************************************************************)
(* System calls as the reference interpreter evaluates them                *)
(* (debug_utils/sierra-emu/src/vm/starknet.rs), next to the compiled ones: *)
(* the same contract, making the same call with the same values and given  *)
(* the same answer by the handler, must continue in the same way.          *)
(***************************************************************************)
EXTENDS SyscallAbi

\* An evaluation asks the handler's method with the libfunc's arguments in the given
\* order (2 is the first after the gas and the system), and continues after an Ok and
\* after an Err in the given branches with values of the given kinds.
Eval(method, asks, ok, err) == [method |-> method, asks |-> asks, ok |-> ok, err |-> err]

Branch(b, kinds) == [branch |-> b, kinds |-> kinds]
Returns(kinds) == Branch(0, kinds)
Fails == Branch(1, <<"felts">>)

eval_get_block_hash == Eval("get_block_hash", <<2>>, Returns(<<"felt">>), Fails)
eval_get_execution_info == Eval("get_execution_info", <<>>, Returns(<<"info">>), Fails)
eval_get_execution_info_v2 == Eval("get_execution_info_v2", <<>>, Returns(<<"info">>), Fails)
eval_deploy == Eval("deploy", <<2, 3, 4, 5>>, Returns(<<"felt", "felts">>), Fails)
eval_replace_class == Eval("replace_class", <<2>>, Returns(<<>>), Fails)
eval_library_call == Eval("library_call", <<2, 3, 4>>, Returns(<<"felts">>), Fails)
eval_call_contract == Eval("call_contract", <<2, 3, 4>>, Returns(<<"felts">>), Fails)
eval_storage_read == Eval("storage_read", <<2, 3>>, Returns(<<"felt">>), Fails)
eval_storage_write == Eval("storage_write", <<2, 3, 4>>, Returns(<<>>), Fails)
eval_emit_event == Eval("emit_event", <<2, 3>>, Returns(<<>>), Fails)
eval_send_message_to_l1 == Eval("send_message_to_l1", <<2, 3>>, Returns(<<>>), Fails)
eval_keccak == Eval("keccak", <<2>>, Returns(<<"u256">>), Fails)
eval_sha256_process_block == Eval("sha256_process_block", <<2, 3>>, Returns(<<"sha256">>), Fails)
eval_sha512_process_block == Eval("sha512_process_block", <<2, 3>>, Returns(<<"sha512">>), Fails)
eval_get_class_hash_at == Eval("get_class_hash_at", <<2>>, Returns(<<"felt">>), Fails)
\* It destructures the two spans as arrays, which they are not: it panics on every call.
eval_meta_tx_v0 == Eval("meta_tx_v0", <<2, 3, 4, 5>>, Returns(<<"felts">>), Fails)

\* The five curve operations, for both curves.
SecpMethod == [
  k1 |-> [new |-> "secp256k1_new", add |-> "secp256k1_add", mul |-> "secp256k1_mul",
          get_point_from_x |-> "secp256k1_get_point_from_x", get_xy |-> "secp256k1_get_xy"],
  r1 |-> [new |-> "secp256r1_new", add |-> "secp256r1_add", mul |-> "secp256r1_mul",
          get_point_from_x |-> "secp256r1_get_point_from_x", get_xy |-> "secp256r1_get_xy"]]
SecpOption == [k1 |-> "option_k1", r1 |-> "option_r1"]
eval_secp256_new(curve) ==
  Eval(SecpMethod[curve].new, <<2, 3>>, Returns(<<SecpOption[curve]>>), Fails)
eval_secp256_add(curve) ==
  Eval(SecpMethod[curve].add, <<2, 3>>, Returns(<<curve>>), Branch(1, <<"struct">>))
eval_secp256_mul(curve) ==
  Eval(SecpMethod[curve].mul, <<2, 3>>, Returns(<<curve>>), Branch(1, <<"struct">>))
eval_secp256_get_point_from_x(curve) ==
  Eval(SecpMethod[curve].get_point_from_x, <<2, 3>>, Returns(<<SecpOption[curve]>>), Fails)
eval_secp256_get_xy(curve) ==
  Eval(SecpMethod[curve].get_xy, <<2>>, Returns(<<"u256", "u256">>), Branch(0, <<"felts">>))

\* The dispatch over the concrete libfuncs.  get_execution_info_v3 answers an error
\* without asking; cheatcode is not evaluated at all.
Curves == {"k1", "r1"}
Evals ==
  {eval_get_block_hash, eval_get_execution_info, eval_get_execution_info_v2, eval_deploy,
   eval_replace_class, eval_library_call, eval_call_contract, eval_storage_read,
   eval_storage_write, eval_emit_event, eval_send_message_to_l1, eval_keccak,
   eval_sha256_process_block, eval_sha512_process_block, eval_get_class_hash_at,
   eval_meta_tx_v0}
  \cup {eval_secp256_new(c) : c \in Curves} \cup {eval_secp256_add(c) : c \in Curves}
  \cup {eval_secp256_mul(c) : c \in Curves} \cup {eval_secp256_get_xy(c) : c \in Curves}
  \cup {eval_secp256_get_point_from_x(c) : c \in Curves}

Interpreted(m) == \E e \in Evals : e.method = m
EvalOf(m) == CHOOSE e \in Evals : e.method = m

-----------------------------------------------------------------------------
\* Where the interpreter parts from compiled code: a struct of an error's felts instead of
\* their array, the error of get_xy in the branch of success, and meta_tx_v0's spans, which it
\* expects as arrays and so panics.
ErrorShapeGaps == {SecpMethod[c][op] : c \in Curves, op \in {"add", "mul", "get_xy"}}
ArgumentGaps == {"meta_tx_v0"}

\* The call in progress: the wrapper is about to ask, or has just asked, the handler.
Asking == frame.at = "return"

\* What the interpreter would ask for the call in progress.
InterpreterAsks ==
  LET e == EvalOf(call.method)
  IN [method |-> e.method,
      args |-> [i \in DOMAIN e.asks |-> ValueOf(call.args[e.asks[i] - 1], blocks)]]

\* For every method the interpreter evaluates, the handler of the compiled code is asked
\* what the interpreter's would be: one handler implementation can serve both.
SameQuestion ==
  Asking /\ Interpreted(call.method) /\ call.method \notin ArgumentGaps
    => frame.asked = InterpreterAsks

\* Where the interpreter goes on after the answer just given, and with what.
InterpreterContinues ==
  LET e == EvalOf(call.method) IN IF frame.result.tag = 0 THEN e.ok ELSE e.err

\* Where the compiled code goes on: what it loads from the union the wrapper has written.
CompiledContinues ==
  LET loaded == execute_syscall(build[call.method])
  IN Branch(frame.result.tag, [i \in DOMAIN loaded |-> loaded[i][1]])

\* Outside the known gaps, compiled code loads the values the interpreter makes of the
\* same answer, none of them Junk, in the same branch: the types it loads by, the union
\* the wrapper writes and the interpreter's values are three hand-written lists.
SameContinuation ==
  Asking /\ Interpreted(call.method) /\ call.method \notin ArgumentGaps
    /\ (frame.result.tag = 1 => call.method \notin ErrorShapeGaps)
    => InterpreterContinues = CompiledContinues
=============================================================================
