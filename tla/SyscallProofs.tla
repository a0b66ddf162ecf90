--------------------------- MODULE SyscallProofs ---------------------------
(***************************************************************************)
(* Compiled system calls implement SyscallSpec, and the interpreter asks   *)
(* and continues as they do: for any memory, any words a contract holds,   *)
(* any answers of the handler, any gas and any number of calls.            *)
(*                                                                         *)
(* The tables are compared method by method.  What remains is memory: an   *)
(* answer is stored behind what is there, so that words keep their values. *)
(***************************************************************************)
EXTENDS SyscallEmulator, SequenceTheorems, TLAPS

-----------------------------------------------------------------------------
(* The hand-written tables agree.                                          *)

Heavy == ArrayKinds \cup PointerKinds
AnswerKinds == Heavy \cup {"felt", "u256", "k1", "r1", "option_k1", "option_r1"}

\* At most one value of an answer takes memory.
Storable(kinds) ==
  /\ IsSequence(kinds)
  /\ \A i \in DOMAIN kinds : kinds[i] \in AnswerKinds
  /\ \A i, j \in DOMAIN kinds : kinds[i] \in Heavy /\ kinds[j] \in Heavy => i = j

\* The wrapper finds its parameter the way the libfunc passed its i-th argument.
ReadsOperand(r, operands, i, kind) ==
  LET o == operands[r.param]
  IN /\ r.param \in DOMAIN operands
     /\ o.arg = i + 1
     /\ o.in = IF r.from = "slot" THEN "slot" ELSE "register"
     /\ r.kind = kind
     /\ (r.from = "pointer") = (kind \in PointerKinds)

\* A libfunc's code and a wrapper serve the handler's method m.
Serve(m, code, w, sig) ==
  /\ w.method = m
  /\ DOMAIN w.reads = DOMAIN sig.takes
  /\ \A i \in DOMAIN w.reads : ReadsOperand(w.reads[i], code.operands, i, sig.takes[i])
  /\ code.loads = sig.gives
  /\ Len(sig.takes) \in 0..4 /\ IsSequence(sig.takes)

Handler(m) == S!StarknetSyscallHandler[m]
Takes(m) == Handler(m).takes
Gives(m) == Handler(m).gives
Entry(m) == Callbacks[Index(build[m].field)]

Agreed(m) == Serve(m, build[m], Entry(m), Handler(m)) /\ Storable(Gives(m))

LEMMA IndexIs ==
  ASSUME NEW i \in 1..28
  PROVE  Index(Fields[i]) = i
<1>1. i \in DOMAIN Fields /\ DOMAIN Fields = 1..28
  BY SMTT(60) DEF Fields
<1>2. \A j \in DOMAIN Fields : Fields[j] = Fields[i] => j = i
  BY <1>1, SMTT(60) DEF Fields
<1> QED
  BY <1>1, <1>2 DEF Index

LEMMA Agreement == \A m \in S!Methods : Agreed(m)
<1>1. Agreed("get_block_hash")
  <2>1. /\ Index("get_block_hash") = 1 /\ Callbacks[1] = wrap_get_block_hash
        /\ build["get_block_hash"] = build_get_block_hash
        /\ build_get_block_hash.field = "get_block_hash"
    BY IndexIs, SMTT(30) DEF Fields, build, Callbacks, build_get_block_hash, Compiled
  <2>2. Handler("get_block_hash") = S!Signature(<<"u64">>, <<"felt">>)
    BY SMTT(30) DEF Handler, S!StarknetSyscallHandler
  <2>3. Serve("get_block_hash", build_get_block_hash, wrap_get_block_hash,
              Handler("get_block_hash"))
    BY <2>2, SMTT(30)
    DEF Serve, ReadsOperand, PointerKinds, IsSequence, S!Signature,
        Compiled, Wrapper, InRegister, Plain, build_get_block_hash, wrap_get_block_hash
  <2>4. Storable(Gives("get_block_hash"))
    BY <2>2, SMTT(30)
    DEF Gives, Storable, Heavy, AnswerKinds, ArrayKinds, PointerKinds, IsSequence, S!Signature
  <2> QED
    BY <2>1, <2>3, <2>4 DEF Agreed, Entry
<1>2. Agreed("get_execution_info")
  <2>1. /\ Index("get_execution_info") = 2 /\ Callbacks[2] = wrap_get_execution_info
        /\ build["get_execution_info"] = build_get_execution_info
        /\ build_get_execution_info.field = "get_execution_info"
    BY IndexIs, SMTT(30) DEF Fields, build, Callbacks, build_get_execution_info, Compiled
  <2>2. Handler("get_execution_info") = S!Signature(<<>>, <<"info">>)
    BY SMTT(30) DEF Handler, S!StarknetSyscallHandler
  <2>3. Serve("get_execution_info", build_get_execution_info, wrap_get_execution_info,
              Handler("get_execution_info"))
    BY <2>2, SMTT(30)
    DEF Serve, ReadsOperand, PointerKinds, IsSequence, S!Signature,
        Compiled, Wrapper, build_get_execution_info, wrap_get_execution_info
  <2>4. Storable(Gives("get_execution_info"))
    BY <2>2, SMTT(30)
    DEF Gives, Storable, Heavy, AnswerKinds, ArrayKinds, PointerKinds, IsSequence, S!Signature
  <2> QED
    BY <2>1, <2>3, <2>4 DEF Agreed, Entry
<1>3. Agreed("get_execution_info_v2")
  <2>1. /\ Index("get_execution_info_v2") = 3 /\ Callbacks[3] = wrap_get_execution_info_v2
        /\ build["get_execution_info_v2"] = build_get_execution_info_v2
        /\ build_get_execution_info_v2.field = "get_execution_info_v2"
    BY IndexIs, SMTT(30) DEF Fields, build, Callbacks, build_get_execution_info_v2, Compiled
  <2>2. Handler("get_execution_info_v2") = S!Signature(<<>>, <<"info">>)
    BY SMTT(30) DEF Handler, S!StarknetSyscallHandler
  <2>3. Serve("get_execution_info_v2", build_get_execution_info_v2, wrap_get_execution_info_v2,
              Handler("get_execution_info_v2"))
    BY <2>2, SMTT(30)
    DEF Serve, ReadsOperand, PointerKinds, IsSequence, S!Signature,
        Compiled, Wrapper, build_get_execution_info_v2, wrap_get_execution_info_v2
  <2>4. Storable(Gives("get_execution_info_v2"))
    BY <2>2, SMTT(30)
    DEF Gives, Storable, Heavy, AnswerKinds, ArrayKinds, PointerKinds, IsSequence, S!Signature
  <2> QED
    BY <2>1, <2>3, <2>4 DEF Agreed, Entry
<1>4. Agreed("get_execution_info_v3")
  <2>1. /\ Index("get_execution_info_v3") = 4 /\ Callbacks[4] = wrap_get_execution_info_v3
        /\ build["get_execution_info_v3"] = build_get_execution_info_v3
        /\ build_get_execution_info_v3.field = "get_execution_info_v3"
    BY IndexIs, SMTT(30) DEF Fields, build, Callbacks, build_get_execution_info_v3, Compiled
  <2>2. Handler("get_execution_info_v3") = S!Signature(<<>>, <<"info">>)
    BY SMTT(30) DEF Handler, S!StarknetSyscallHandler
  <2>3. Serve("get_execution_info_v3", build_get_execution_info_v3, wrap_get_execution_info_v3,
              Handler("get_execution_info_v3"))
    BY <2>2, SMTT(30)
    DEF Serve, ReadsOperand, PointerKinds, IsSequence, S!Signature,
        Compiled, Wrapper, build_get_execution_info_v3, wrap_get_execution_info_v3
  <2>4. Storable(Gives("get_execution_info_v3"))
    BY <2>2, SMTT(30)
    DEF Gives, Storable, Heavy, AnswerKinds, ArrayKinds, PointerKinds, IsSequence, S!Signature
  <2> QED
    BY <2>1, <2>3, <2>4 DEF Agreed, Entry
<1>5. Agreed("deploy")
  <2>1. /\ Index("deploy") = 5 /\ Callbacks[5] = wrap_deploy
        /\ build["deploy"] = build_deploy
        /\ build_deploy.field = "deploy"
    BY IndexIs, SMTT(30) DEF Fields, build, Callbacks, build_deploy, Compiled
  <2>2. Handler("deploy") = S!Signature(<<"felt", "felt", "felts", "bool">>, <<"felt", "felts">>)
    BY SMTT(30) DEF Handler, S!StarknetSyscallHandler
  <2>3. Serve("deploy", build_deploy, wrap_deploy,
              Handler("deploy"))
    BY <2>2, SMTT(30)
    DEF Serve, ReadsOperand, PointerKinds, IsSequence, S!Signature,
        Compiled, Wrapper, InSlot, InRegister, Ref, Plain, build_deploy, wrap_deploy
  <2>4. Storable(Gives("deploy"))
    BY <2>2, SMTT(30)
    DEF Gives, Storable, Heavy, AnswerKinds, ArrayKinds, PointerKinds, IsSequence, S!Signature
  <2> QED
    BY <2>1, <2>3, <2>4 DEF Agreed, Entry
<1>6. Agreed("replace_class")
  <2>1. /\ Index("replace_class") = 6 /\ Callbacks[6] = wrap_replace_class
        /\ build["replace_class"] = build_replace_class
        /\ build_replace_class.field = "replace_class"
    BY IndexIs, SMTT(30) DEF Fields, build, Callbacks, build_replace_class, Compiled
  <2>2. Handler("replace_class") = S!Signature(<<"felt">>, <<>>)
    BY SMTT(30) DEF Handler, S!StarknetSyscallHandler
  <2>3. Serve("replace_class", build_replace_class, wrap_replace_class,
              Handler("replace_class"))
    BY <2>2, SMTT(30)
    DEF Serve, ReadsOperand, PointerKinds, IsSequence, S!Signature,
        Compiled, Wrapper, InSlot, Ref, build_replace_class, wrap_replace_class
  <2>4. Storable(Gives("replace_class"))
    BY <2>2, SMTT(30)
    DEF Gives, Storable, Heavy, AnswerKinds, ArrayKinds, PointerKinds, IsSequence, S!Signature
  <2> QED
    BY <2>1, <2>3, <2>4 DEF Agreed, Entry
<1>7. Agreed("library_call")
  <2>1. /\ Index("library_call") = 7 /\ Callbacks[7] = wrap_library_call
        /\ build["library_call"] = build_library_call
        /\ build_library_call.field = "library_call"
    BY IndexIs, SMTT(30) DEF Fields, build, Callbacks, build_library_call, Compiled
  <2>2. Handler("library_call") = S!Signature(<<"felt", "felt", "felts">>, <<"felts">>)
    BY SMTT(30) DEF Handler, S!StarknetSyscallHandler
  <2>3. Serve("library_call", build_library_call, wrap_library_call,
              Handler("library_call"))
    BY <2>2, SMTT(30)
    DEF Serve, ReadsOperand, PointerKinds, IsSequence, S!Signature,
        Compiled, Wrapper, InSlot, Ref, build_library_call, wrap_library_call
  <2>4. Storable(Gives("library_call"))
    BY <2>2, SMTT(30)
    DEF Gives, Storable, Heavy, AnswerKinds, ArrayKinds, PointerKinds, IsSequence, S!Signature
  <2> QED
    BY <2>1, <2>3, <2>4 DEF Agreed, Entry
<1>8. Agreed("call_contract")
  <2>1. /\ Index("call_contract") = 8 /\ Callbacks[8] = wrap_call_contract
        /\ build["call_contract"] = build_call_contract
        /\ build_call_contract.field = "call_contract"
    BY IndexIs, SMTT(30) DEF Fields, build, Callbacks, build_call_contract, Compiled
  <2>2. Handler("call_contract") = S!Signature(<<"felt", "felt", "felts">>, <<"felts">>)
    BY SMTT(30) DEF Handler, S!StarknetSyscallHandler
  <2>3. Serve("call_contract", build_call_contract, wrap_call_contract,
              Handler("call_contract"))
    BY <2>2, SMTT(30)
    DEF Serve, ReadsOperand, PointerKinds, IsSequence, S!Signature,
        Compiled, Wrapper, InSlot, Ref, build_call_contract, wrap_call_contract
  <2>4. Storable(Gives("call_contract"))
    BY <2>2, SMTT(30)
    DEF Gives, Storable, Heavy, AnswerKinds, ArrayKinds, PointerKinds, IsSequence, S!Signature
  <2> QED
    BY <2>1, <2>3, <2>4 DEF Agreed, Entry
<1>9. Agreed("storage_read")
  <2>1. /\ Index("storage_read") = 9 /\ Callbacks[9] = wrap_storage_read
        /\ build["storage_read"] = build_storage_read
        /\ build_storage_read.field = "storage_read"
    BY IndexIs, SMTT(30) DEF Fields, build, Callbacks, build_storage_read, Compiled
  <2>2. Handler("storage_read") = S!Signature(<<"u32", "felt">>, <<"felt">>)
    BY SMTT(30) DEF Handler, S!StarknetSyscallHandler
  <2>3. Serve("storage_read", build_storage_read, wrap_storage_read,
              Handler("storage_read"))
    BY <2>2, SMTT(30)
    DEF Serve, ReadsOperand, PointerKinds, IsSequence, S!Signature,
        Compiled, Wrapper, InSlot, InRegister, Ref, Plain, build_storage_read, wrap_storage_read
  <2>4. Storable(Gives("storage_read"))
    BY <2>2, SMTT(30)
    DEF Gives, Storable, Heavy, AnswerKinds, ArrayKinds, PointerKinds, IsSequence, S!Signature
  <2> QED
    BY <2>1, <2>3, <2>4 DEF Agreed, Entry
<1>10. Agreed("storage_write")
  <2>1. /\ Index("storage_write") = 10 /\ Callbacks[10] = wrap_storage_write
        /\ build["storage_write"] = build_storage_write
        /\ build_storage_write.field = "storage_write"
    BY IndexIs, SMTT(30) DEF Fields, build, Callbacks, build_storage_write, Compiled
  <2>2. Handler("storage_write") = S!Signature(<<"u32", "felt", "felt">>, <<>>)
    BY SMTT(30) DEF Handler, S!StarknetSyscallHandler
  <2>3. Serve("storage_write", build_storage_write, wrap_storage_write,
              Handler("storage_write"))
    BY <2>2, SMTT(30)
    DEF Serve, ReadsOperand, PointerKinds, IsSequence, S!Signature,
        Compiled, Wrapper, InSlot, InRegister, Ref, Plain, build_storage_write, wrap_storage_write
  <2>4. Storable(Gives("storage_write"))
    BY <2>2, SMTT(30)
    DEF Gives, Storable, Heavy, AnswerKinds, ArrayKinds, PointerKinds, IsSequence, S!Signature
  <2> QED
    BY <2>1, <2>3, <2>4 DEF Agreed, Entry
<1>11. Agreed("emit_event")
  <2>1. /\ Index("emit_event") = 11 /\ Callbacks[11] = wrap_emit_event
        /\ build["emit_event"] = build_emit_event
        /\ build_emit_event.field = "emit_event"
    BY IndexIs, SMTT(30) DEF Fields, build, Callbacks, build_emit_event, Compiled
  <2>2. Handler("emit_event") = S!Signature(<<"felts", "felts">>, <<>>)
    BY SMTT(30) DEF Handler, S!StarknetSyscallHandler
  <2>3. Serve("emit_event", build_emit_event, wrap_emit_event,
              Handler("emit_event"))
    BY <2>2, SMTT(30)
    DEF Serve, ReadsOperand, PointerKinds, IsSequence, S!Signature,
        Compiled, Wrapper, InSlot, Ref, build_emit_event, wrap_emit_event
  <2>4. Storable(Gives("emit_event"))
    BY <2>2, SMTT(30)
    DEF Gives, Storable, Heavy, AnswerKinds, ArrayKinds, PointerKinds, IsSequence, S!Signature
  <2> QED
    BY <2>1, <2>3, <2>4 DEF Agreed, Entry
<1>12. Agreed("send_message_to_l1")
  <2>1. /\ Index("send_message_to_l1") = 12 /\ Callbacks[12] = wrap_send_message_to_l1
        /\ build["send_message_to_l1"] = build_send_message_to_l1
        /\ build_send_message_to_l1.field = "send_message_to_l1"
    BY IndexIs, SMTT(30) DEF Fields, build, Callbacks, build_send_message_to_l1, Compiled
  <2>2. Handler("send_message_to_l1") = S!Signature(<<"felt", "felts">>, <<>>)
    BY SMTT(30) DEF Handler, S!StarknetSyscallHandler
  <2>3. Serve("send_message_to_l1", build_send_message_to_l1, wrap_send_message_to_l1,
              Handler("send_message_to_l1"))
    BY <2>2, SMTT(30)
    DEF Serve, ReadsOperand, PointerKinds, IsSequence, S!Signature,
        Compiled, Wrapper, InSlot, Ref, build_send_message_to_l1, wrap_send_message_to_l1
  <2>4. Storable(Gives("send_message_to_l1"))
    BY <2>2, SMTT(30)
    DEF Gives, Storable, Heavy, AnswerKinds, ArrayKinds, PointerKinds, IsSequence, S!Signature
  <2> QED
    BY <2>1, <2>3, <2>4 DEF Agreed, Entry
<1>13. Agreed("keccak")
  <2>1. /\ Index("keccak") = 13 /\ Callbacks[13] = wrap_keccak
        /\ build["keccak"] = build_keccak
        /\ build_keccak.field = "keccak"
    BY IndexIs, SMTT(30) DEF Fields, build, Callbacks, build_keccak, Compiled
  <2>2. Handler("keccak") = S!Signature(<<"u64s">>, <<"u256">>)
    BY SMTT(30) DEF Handler, S!StarknetSyscallHandler
  <2>3. Serve("keccak", build_keccak, wrap_keccak,
              Handler("keccak"))
    BY <2>2, SMTT(30)
    DEF Serve, ReadsOperand, PointerKinds, IsSequence, S!Signature,
        Compiled, Wrapper, InSlot, Ref, build_keccak, wrap_keccak
  <2>4. Storable(Gives("keccak"))
    BY <2>2, SMTT(30)
    DEF Gives, Storable, Heavy, AnswerKinds, ArrayKinds, PointerKinds, IsSequence, S!Signature
  <2> QED
    BY <2>1, <2>3, <2>4 DEF Agreed, Entry
<1>14. Agreed("secp256k1_new")
  <2>1. /\ Index("secp256k1_new") = 14 /\ Callbacks[14] = wrap_secp256k1_new
        /\ build["secp256k1_new"] = build_k1_new
        /\ build_k1_new.field = "secp256k1_new"
    BY IndexIs, SMTT(30) DEF Fields, build, Callbacks, build_k1_new, Compiled
  <2>2. Handler("secp256k1_new") = S!Signature(<<"u256", "u256">>, <<"option_k1">>)
    BY SMTT(30) DEF Handler, S!StarknetSyscallHandler
  <2>3. Serve("secp256k1_new", build_k1_new, wrap_secp256k1_new,
              Handler("secp256k1_new"))
    BY <2>2, SMTT(30)
    DEF Serve, ReadsOperand, PointerKinds, IsSequence, S!Signature,
        Compiled, Wrapper, InSlot, Ref, build_k1_new, wrap_secp256k1_new
  <2>4. Storable(Gives("secp256k1_new"))
    BY <2>2, SMTT(30)
    DEF Gives, Storable, Heavy, AnswerKinds, ArrayKinds, PointerKinds, IsSequence, S!Signature
  <2> QED
    BY <2>1, <2>3, <2>4 DEF Agreed, Entry
<1>15. Agreed("secp256k1_add")
  <2>1. /\ Index("secp256k1_add") = 15 /\ Callbacks[15] = wrap_secp256k1_add
        /\ build["secp256k1_add"] = build_k1_add
        /\ build_k1_add.field = "secp256k1_add"
    BY IndexIs, SMTT(30) DEF Fields, build, Callbacks, build_k1_add, Compiled
  <2>2. Handler("secp256k1_add") = S!Signature(<<"k1", "k1">>, <<"k1">>)
    BY SMTT(30) DEF Handler, S!StarknetSyscallHandler
  <2>3. Serve("secp256k1_add", build_k1_add, wrap_secp256k1_add,
              Handler("secp256k1_add"))
    BY <2>2, SMTT(30)
    DEF Serve, ReadsOperand, PointerKinds, IsSequence, S!Signature,
        Compiled, Wrapper, InSlot, Ref, build_k1_add, wrap_secp256k1_add
  <2>4. Storable(Gives("secp256k1_add"))
    BY <2>2, SMTT(30)
    DEF Gives, Storable, Heavy, AnswerKinds, ArrayKinds, PointerKinds, IsSequence, S!Signature
  <2> QED
    BY <2>1, <2>3, <2>4 DEF Agreed, Entry
<1>16. Agreed("secp256k1_mul")
  <2>1. /\ Index("secp256k1_mul") = 16 /\ Callbacks[16] = wrap_secp256k1_mul
        /\ build["secp256k1_mul"] = build_k1_mul
        /\ build_k1_mul.field = "secp256k1_mul"
    BY IndexIs, SMTT(30) DEF Fields, build, Callbacks, build_k1_mul, Compiled
  <2>2. Handler("secp256k1_mul") = S!Signature(<<"k1", "u256">>, <<"k1">>)
    BY SMTT(30) DEF Handler, S!StarknetSyscallHandler
  <2>3. Serve("secp256k1_mul", build_k1_mul, wrap_secp256k1_mul,
              Handler("secp256k1_mul"))
    BY <2>2, SMTT(30)
    DEF Serve, ReadsOperand, PointerKinds, IsSequence, S!Signature,
        Compiled, Wrapper, InSlot, Ref, build_k1_mul, wrap_secp256k1_mul
  <2>4. Storable(Gives("secp256k1_mul"))
    BY <2>2, SMTT(30)
    DEF Gives, Storable, Heavy, AnswerKinds, ArrayKinds, PointerKinds, IsSequence, S!Signature
  <2> QED
    BY <2>1, <2>3, <2>4 DEF Agreed, Entry
<1>17. Agreed("secp256k1_get_point_from_x")
  <2>1. /\ Index("secp256k1_get_point_from_x") = 17 /\ Callbacks[17] = wrap_secp256k1_get_point_from_x
        /\ build["secp256k1_get_point_from_x"] = build_k1_get_point_from_x
        /\ build_k1_get_point_from_x.field = "secp256k1_get_point_from_x"
    BY IndexIs, SMTT(30) DEF Fields, build, Callbacks, build_k1_get_point_from_x, Compiled
  <2>2. Handler("secp256k1_get_point_from_x") = S!Signature(<<"u256", "bool">>, <<"option_k1">>)
    BY SMTT(30) DEF Handler, S!StarknetSyscallHandler
  <2>3. Serve("secp256k1_get_point_from_x", build_k1_get_point_from_x, wrap_secp256k1_get_point_from_x,
              Handler("secp256k1_get_point_from_x"))
    BY <2>2, SMTT(30)
    DEF Serve, ReadsOperand, PointerKinds, IsSequence, S!Signature,
        Compiled, Wrapper, InSlot, Ref, build_k1_get_point_from_x, wrap_secp256k1_get_point_from_x
  <2>4. Storable(Gives("secp256k1_get_point_from_x"))
    BY <2>2, SMTT(30)
    DEF Gives, Storable, Heavy, AnswerKinds, ArrayKinds, PointerKinds, IsSequence, S!Signature
  <2> QED
    BY <2>1, <2>3, <2>4 DEF Agreed, Entry
<1>18. Agreed("secp256k1_get_xy")
  <2>1. /\ Index("secp256k1_get_xy") = 18 /\ Callbacks[18] = wrap_secp256k1_get_xy
        /\ build["secp256k1_get_xy"] = build_k1_get_xy
        /\ build_k1_get_xy.field = "secp256k1_get_xy"
    BY IndexIs, SMTT(30) DEF Fields, build, Callbacks, build_k1_get_xy, Compiled
  <2>2. Handler("secp256k1_get_xy") = S!Signature(<<"k1">>, <<"u256", "u256">>)
    BY SMTT(30) DEF Handler, S!StarknetSyscallHandler
  <2>3. Serve("secp256k1_get_xy", build_k1_get_xy, wrap_secp256k1_get_xy,
              Handler("secp256k1_get_xy"))
    BY <2>2, SMTT(30)
    DEF Serve, ReadsOperand, PointerKinds, IsSequence, S!Signature,
        Compiled, Wrapper, InSlot, Ref, build_k1_get_xy, wrap_secp256k1_get_xy
  <2>4. Storable(Gives("secp256k1_get_xy"))
    BY <2>2, SMTT(30)
    DEF Gives, Storable, Heavy, AnswerKinds, ArrayKinds, PointerKinds, IsSequence, S!Signature
  <2> QED
    BY <2>1, <2>3, <2>4 DEF Agreed, Entry
<1>19. Agreed("secp256r1_new")
  <2>1. /\ Index("secp256r1_new") = 19 /\ Callbacks[19] = wrap_secp256r1_new
        /\ build["secp256r1_new"] = build_r1_new
        /\ build_r1_new.field = "secp256r1_new"
    BY IndexIs, SMTT(30) DEF Fields, build, Callbacks, build_r1_new, Compiled
  <2>2. Handler("secp256r1_new") = S!Signature(<<"u256", "u256">>, <<"option_r1">>)
    BY SMTT(30) DEF Handler, S!StarknetSyscallHandler
  <2>3. Serve("secp256r1_new", build_r1_new, wrap_secp256r1_new,
              Handler("secp256r1_new"))
    BY <2>2, SMTT(30)
    DEF Serve, ReadsOperand, PointerKinds, IsSequence, S!Signature,
        Compiled, Wrapper, InSlot, Ref, build_r1_new, wrap_secp256r1_new
  <2>4. Storable(Gives("secp256r1_new"))
    BY <2>2, SMTT(30)
    DEF Gives, Storable, Heavy, AnswerKinds, ArrayKinds, PointerKinds, IsSequence, S!Signature
  <2> QED
    BY <2>1, <2>3, <2>4 DEF Agreed, Entry
<1>20. Agreed("secp256r1_add")
  <2>1. /\ Index("secp256r1_add") = 20 /\ Callbacks[20] = wrap_secp256r1_add
        /\ build["secp256r1_add"] = build_r1_add
        /\ build_r1_add.field = "secp256r1_add"
    BY IndexIs, SMTT(30) DEF Fields, build, Callbacks, build_r1_add, Compiled
  <2>2. Handler("secp256r1_add") = S!Signature(<<"r1", "r1">>, <<"r1">>)
    BY SMTT(30) DEF Handler, S!StarknetSyscallHandler
  <2>3. Serve("secp256r1_add", build_r1_add, wrap_secp256r1_add,
              Handler("secp256r1_add"))
    BY <2>2, SMTT(30)
    DEF Serve, ReadsOperand, PointerKinds, IsSequence, S!Signature,
        Compiled, Wrapper, InSlot, Ref, build_r1_add, wrap_secp256r1_add
  <2>4. Storable(Gives("secp256r1_add"))
    BY <2>2, SMTT(30)
    DEF Gives, Storable, Heavy, AnswerKinds, ArrayKinds, PointerKinds, IsSequence, S!Signature
  <2> QED
    BY <2>1, <2>3, <2>4 DEF Agreed, Entry
<1>21. Agreed("secp256r1_mul")
  <2>1. /\ Index("secp256r1_mul") = 21 /\ Callbacks[21] = wrap_secp256r1_mul
        /\ build["secp256r1_mul"] = build_r1_mul
        /\ build_r1_mul.field = "secp256r1_mul"
    BY IndexIs, SMTT(30) DEF Fields, build, Callbacks, build_r1_mul, Compiled
  <2>2. Handler("secp256r1_mul") = S!Signature(<<"r1", "u256">>, <<"r1">>)
    BY SMTT(30) DEF Handler, S!StarknetSyscallHandler
  <2>3. Serve("secp256r1_mul", build_r1_mul, wrap_secp256r1_mul,
              Handler("secp256r1_mul"))
    BY <2>2, SMTT(30)
    DEF Serve, ReadsOperand, PointerKinds, IsSequence, S!Signature,
        Compiled, Wrapper, InSlot, Ref, build_r1_mul, wrap_secp256r1_mul
  <2>4. Storable(Gives("secp256r1_mul"))
    BY <2>2, SMTT(30)
    DEF Gives, Storable, Heavy, AnswerKinds, ArrayKinds, PointerKinds, IsSequence, S!Signature
  <2> QED
    BY <2>1, <2>3, <2>4 DEF Agreed, Entry
<1>22. Agreed("secp256r1_get_point_from_x")
  <2>1. /\ Index("secp256r1_get_point_from_x") = 22 /\ Callbacks[22] = wrap_secp256r1_get_point_from_x
        /\ build["secp256r1_get_point_from_x"] = build_r1_get_point_from_x
        /\ build_r1_get_point_from_x.field = "secp256r1_get_point_from_x"
    BY IndexIs, SMTT(30) DEF Fields, build, Callbacks, build_r1_get_point_from_x, Compiled
  <2>2. Handler("secp256r1_get_point_from_x") = S!Signature(<<"u256", "bool">>, <<"option_r1">>)
    BY SMTT(30) DEF Handler, S!StarknetSyscallHandler
  <2>3. Serve("secp256r1_get_point_from_x", build_r1_get_point_from_x, wrap_secp256r1_get_point_from_x,
              Handler("secp256r1_get_point_from_x"))
    BY <2>2, SMTT(30)
    DEF Serve, ReadsOperand, PointerKinds, IsSequence, S!Signature,
        Compiled, Wrapper, InSlot, Ref, build_r1_get_point_from_x, wrap_secp256r1_get_point_from_x
  <2>4. Storable(Gives("secp256r1_get_point_from_x"))
    BY <2>2, SMTT(30)
    DEF Gives, Storable, Heavy, AnswerKinds, ArrayKinds, PointerKinds, IsSequence, S!Signature
  <2> QED
    BY <2>1, <2>3, <2>4 DEF Agreed, Entry
<1>23. Agreed("secp256r1_get_xy")
  <2>1. /\ Index("secp256r1_get_xy") = 23 /\ Callbacks[23] = wrap_secp256r1_get_xy
        /\ build["secp256r1_get_xy"] = build_r1_get_xy
        /\ build_r1_get_xy.field = "secp256r1_get_xy"
    BY IndexIs, SMTT(30) DEF Fields, build, Callbacks, build_r1_get_xy, Compiled
  <2>2. Handler("secp256r1_get_xy") = S!Signature(<<"r1">>, <<"u256", "u256">>)
    BY SMTT(30) DEF Handler, S!StarknetSyscallHandler
  <2>3. Serve("secp256r1_get_xy", build_r1_get_xy, wrap_secp256r1_get_xy,
              Handler("secp256r1_get_xy"))
    BY <2>2, SMTT(30)
    DEF Serve, ReadsOperand, PointerKinds, IsSequence, S!Signature,
        Compiled, Wrapper, InSlot, Ref, build_r1_get_xy, wrap_secp256r1_get_xy
  <2>4. Storable(Gives("secp256r1_get_xy"))
    BY <2>2, SMTT(30)
    DEF Gives, Storable, Heavy, AnswerKinds, ArrayKinds, PointerKinds, IsSequence, S!Signature
  <2> QED
    BY <2>1, <2>3, <2>4 DEF Agreed, Entry
<1>24. Agreed("sha256_process_block")
  <2>1. /\ Index("sha256_process_block") = 24 /\ Callbacks[24] = wrap_sha256_process_block
        /\ build["sha256_process_block"] = build_sha256_process_block_syscall
        /\ build_sha256_process_block_syscall.field = "sha256_process_block"
    BY IndexIs, SMTT(30) DEF Fields, build, Callbacks, build_sha256_process_block_syscall, Compiled
  <2>2. Handler("sha256_process_block") = S!Signature(<<"sha256", "block256">>, <<"sha256">>)
    BY SMTT(30) DEF Handler, S!StarknetSyscallHandler
  <2>3. Serve("sha256_process_block", build_sha256_process_block_syscall, wrap_sha256_process_block,
              Handler("sha256_process_block"))
    BY <2>2, SMTT(30)
    DEF Serve, ReadsOperand, PointerKinds, IsSequence, S!Signature,
        Compiled, Wrapper, InRegister, Pointee, build_sha256_process_block_syscall, wrap_sha256_process_block
  <2>4. Storable(Gives("sha256_process_block"))
    BY <2>2, SMTT(30)
    DEF Gives, Storable, Heavy, AnswerKinds, ArrayKinds, PointerKinds, IsSequence, S!Signature
  <2> QED
    BY <2>1, <2>3, <2>4 DEF Agreed, Entry
<1>25. Agreed("sha512_process_block")
  <2>1. /\ Index("sha512_process_block") = 25 /\ Callbacks[25] = wrap_sha512_process_block
        /\ build["sha512_process_block"] = build_sha512_process_block_syscall
        /\ build_sha512_process_block_syscall.field = "sha512_process_block"
    BY IndexIs, SMTT(30) DEF Fields, build, Callbacks, build_sha512_process_block_syscall, Compiled
  <2>2. Handler("sha512_process_block") = S!Signature(<<"sha512", "block512">>, <<"sha512">>)
    BY SMTT(30) DEF Handler, S!StarknetSyscallHandler
  <2>3. Serve("sha512_process_block", build_sha512_process_block_syscall, wrap_sha512_process_block,
              Handler("sha512_process_block"))
    BY <2>2, SMTT(30)
    DEF Serve, ReadsOperand, PointerKinds, IsSequence, S!Signature,
        Compiled, Wrapper, InRegister, Pointee, build_sha512_process_block_syscall, wrap_sha512_process_block
  <2>4. Storable(Gives("sha512_process_block"))
    BY <2>2, SMTT(30)
    DEF Gives, Storable, Heavy, AnswerKinds, ArrayKinds, PointerKinds, IsSequence, S!Signature
  <2> QED
    BY <2>1, <2>3, <2>4 DEF Agreed, Entry
<1>26. Agreed("get_class_hash_at")
  <2>1. /\ Index("get_class_hash_at") = 26 /\ Callbacks[26] = wrap_get_class_hash_at
        /\ build["get_class_hash_at"] = build_get_class_hash_at
        /\ build_get_class_hash_at.field = "get_class_hash_at"
    BY IndexIs, SMTT(30) DEF Fields, build, Callbacks, build_get_class_hash_at, Compiled
  <2>2. Handler("get_class_hash_at") = S!Signature(<<"felt">>, <<"felt">>)
    BY SMTT(30) DEF Handler, S!StarknetSyscallHandler
  <2>3. Serve("get_class_hash_at", build_get_class_hash_at, wrap_get_class_hash_at,
              Handler("get_class_hash_at"))
    BY <2>2, SMTT(30)
    DEF Serve, ReadsOperand, PointerKinds, IsSequence, S!Signature,
        Compiled, Wrapper, InSlot, Ref, build_get_class_hash_at, wrap_get_class_hash_at
  <2>4. Storable(Gives("get_class_hash_at"))
    BY <2>2, SMTT(30)
    DEF Gives, Storable, Heavy, AnswerKinds, ArrayKinds, PointerKinds, IsSequence, S!Signature
  <2> QED
    BY <2>1, <2>3, <2>4 DEF Agreed, Entry
<1>27. Agreed("meta_tx_v0")
  <2>1. /\ Index("meta_tx_v0") = 27 /\ Callbacks[27] = wrap_meta_tx_v0
        /\ build["meta_tx_v0"] = build_meta_tx_v0
        /\ build_meta_tx_v0.field = "meta_tx_v0"
    BY IndexIs, SMTT(30) DEF Fields, build, Callbacks, build_meta_tx_v0, Compiled
  <2>2. Handler("meta_tx_v0") = S!Signature(<<"felt", "felt", "felts", "felts">>, <<"felts">>)
    BY SMTT(30) DEF Handler, S!StarknetSyscallHandler
  <2>3. Serve("meta_tx_v0", build_meta_tx_v0, wrap_meta_tx_v0,
              Handler("meta_tx_v0"))
    BY <2>2, SMTT(30)
    DEF Serve, ReadsOperand, PointerKinds, IsSequence, S!Signature,
        Compiled, Wrapper, InSlot, Ref, build_meta_tx_v0, wrap_meta_tx_v0
  <2>4. Storable(Gives("meta_tx_v0"))
    BY <2>2, SMTT(30)
    DEF Gives, Storable, Heavy, AnswerKinds, ArrayKinds, PointerKinds, IsSequence, S!Signature
  <2> QED
    BY <2>1, <2>3, <2>4 DEF Agreed, Entry
<1>28. Agreed("cheatcode")
  <2>1. /\ Index("cheatcode") = 28 /\ Callbacks[28] = wrap_cheatcode
        /\ build["cheatcode"] = build_cheatcode
        /\ build_cheatcode.field = "cheatcode"
    BY IndexIs, SMTT(30) DEF Fields, build, Callbacks, build_cheatcode, Compiled
  <2>2. Handler("cheatcode") = S!Signature(<<"felt", "felts">>, <<"felts">>)
    BY SMTT(30) DEF Handler, S!StarknetSyscallHandler
  <2>3. Serve("cheatcode", build_cheatcode, wrap_cheatcode,
              Handler("cheatcode"))
    BY <2>2, SMTT(30)
    DEF Serve, ReadsOperand, PointerKinds, IsSequence, S!Signature,
        Compiled, Wrapper, InSlot, Ref, build_cheatcode, wrap_cheatcode
  <2>4. Storable(Gives("cheatcode"))
    BY <2>2, SMTT(30)
    DEF Gives, Storable, Heavy, AnswerKinds, ArrayKinds, PointerKinds, IsSequence, S!Signature
  <2> QED
    BY <2>1, <2>3, <2>4 DEF Agreed, Entry
<1> QED
  BY <1>1, <1>2, <1>3, <1>4, <1>5, <1>6, <1>7, <1>8, <1>9, <1>10, <1>11, <1>12,
     <1>13, <1>14, <1>15, <1>16, <1>17, <1>18, <1>19, <1>20, <1>21, <1>22, <1>23,
     <1>24, <1>25, <1>26, <1>27, <1>28,
     SMTT(60)
  DEF S!Methods, S!StarknetSyscallHandler

-----------------------------------------------------------------------------
(* The interpreter's table agrees with them, outside the gaps.             *)

EvalAgreed(e) ==
  /\ DOMAIN e.asks = DOMAIN Takes(e.method)
  /\ \A i \in DOMAIN e.asks : e.asks[i] = i + 1
  /\ e.ok = Returns(Gives(e.method))
  /\ e.method \notin ErrorShapeGaps => e.err = Fails

LEMMA EvalAgreement == \A e \in Evals : EvalAgreed(e)
<1>1. EvalAgreed(eval_get_block_hash)
  <2>1. Handler("get_block_hash") = S!Signature(<<"u64">>, <<"felt">>)
    BY SMTT(30) DEF Handler, S!StarknetSyscallHandler
  <2> QED
    BY <2>1, SMTT(30)
    DEF EvalAgreed, Takes, Gives, Returns, Fails, Branch, eval_get_block_hash, Eval, S!Signature
<1>2. EvalAgreed(eval_get_execution_info)
  <2>1. Handler("get_execution_info") = S!Signature(<<>>, <<"info">>)
    BY SMTT(30) DEF Handler, S!StarknetSyscallHandler
  <2> QED
    BY <2>1, SMTT(30)
    DEF EvalAgreed, Takes, Gives, Returns, Fails, Branch, eval_get_execution_info, Eval, S!Signature
<1>3. EvalAgreed(eval_get_execution_info_v2)
  <2>1. Handler("get_execution_info_v2") = S!Signature(<<>>, <<"info">>)
    BY SMTT(30) DEF Handler, S!StarknetSyscallHandler
  <2> QED
    BY <2>1, SMTT(30)
    DEF EvalAgreed, Takes, Gives, Returns, Fails, Branch, eval_get_execution_info_v2, Eval, S!Signature
<1>4. EvalAgreed(eval_deploy)
  <2>1. Handler("deploy") = S!Signature(<<"felt", "felt", "felts", "bool">>, <<"felt", "felts">>)
    BY SMTT(30) DEF Handler, S!StarknetSyscallHandler
  <2> QED
    BY <2>1, SMTT(30)
    DEF EvalAgreed, Takes, Gives, Returns, Fails, Branch, eval_deploy, Eval, S!Signature
<1>5. EvalAgreed(eval_replace_class)
  <2>1. Handler("replace_class") = S!Signature(<<"felt">>, <<>>)
    BY SMTT(30) DEF Handler, S!StarknetSyscallHandler
  <2> QED
    BY <2>1, SMTT(30)
    DEF EvalAgreed, Takes, Gives, Returns, Fails, Branch, eval_replace_class, Eval, S!Signature
<1>6. EvalAgreed(eval_library_call)
  <2>1. Handler("library_call") = S!Signature(<<"felt", "felt", "felts">>, <<"felts">>)
    BY SMTT(30) DEF Handler, S!StarknetSyscallHandler
  <2> QED
    BY <2>1, SMTT(30)
    DEF EvalAgreed, Takes, Gives, Returns, Fails, Branch, eval_library_call, Eval, S!Signature
<1>7. EvalAgreed(eval_call_contract)
  <2>1. Handler("call_contract") = S!Signature(<<"felt", "felt", "felts">>, <<"felts">>)
    BY SMTT(30) DEF Handler, S!StarknetSyscallHandler
  <2> QED
    BY <2>1, SMTT(30)
    DEF EvalAgreed, Takes, Gives, Returns, Fails, Branch, eval_call_contract, Eval, S!Signature
<1>8. EvalAgreed(eval_storage_read)
  <2>1. Handler("storage_read") = S!Signature(<<"u32", "felt">>, <<"felt">>)
    BY SMTT(30) DEF Handler, S!StarknetSyscallHandler
  <2> QED
    BY <2>1, SMTT(30)
    DEF EvalAgreed, Takes, Gives, Returns, Fails, Branch, eval_storage_read, Eval, S!Signature
<1>9. EvalAgreed(eval_storage_write)
  <2>1. Handler("storage_write") = S!Signature(<<"u32", "felt", "felt">>, <<>>)
    BY SMTT(30) DEF Handler, S!StarknetSyscallHandler
  <2> QED
    BY <2>1, SMTT(30)
    DEF EvalAgreed, Takes, Gives, Returns, Fails, Branch, eval_storage_write, Eval, S!Signature
<1>10. EvalAgreed(eval_emit_event)
  <2>1. Handler("emit_event") = S!Signature(<<"felts", "felts">>, <<>>)
    BY SMTT(30) DEF Handler, S!StarknetSyscallHandler
  <2> QED
    BY <2>1, SMTT(30)
    DEF EvalAgreed, Takes, Gives, Returns, Fails, Branch, eval_emit_event, Eval, S!Signature
<1>11. EvalAgreed(eval_send_message_to_l1)
  <2>1. Handler("send_message_to_l1") = S!Signature(<<"felt", "felts">>, <<>>)
    BY SMTT(30) DEF Handler, S!StarknetSyscallHandler
  <2> QED
    BY <2>1, SMTT(30)
    DEF EvalAgreed, Takes, Gives, Returns, Fails, Branch, eval_send_message_to_l1, Eval, S!Signature
<1>12. EvalAgreed(eval_keccak)
  <2>1. Handler("keccak") = S!Signature(<<"u64s">>, <<"u256">>)
    BY SMTT(30) DEF Handler, S!StarknetSyscallHandler
  <2> QED
    BY <2>1, SMTT(30)
    DEF EvalAgreed, Takes, Gives, Returns, Fails, Branch, eval_keccak, Eval, S!Signature
<1>13. EvalAgreed(eval_sha256_process_block)
  <2>1. Handler("sha256_process_block") = S!Signature(<<"sha256", "block256">>, <<"sha256">>)
    BY SMTT(30) DEF Handler, S!StarknetSyscallHandler
  <2> QED
    BY <2>1, SMTT(30)
    DEF EvalAgreed, Takes, Gives, Returns, Fails, Branch, eval_sha256_process_block, Eval, S!Signature
<1>14. EvalAgreed(eval_sha512_process_block)
  <2>1. Handler("sha512_process_block") = S!Signature(<<"sha512", "block512">>, <<"sha512">>)
    BY SMTT(30) DEF Handler, S!StarknetSyscallHandler
  <2> QED
    BY <2>1, SMTT(30)
    DEF EvalAgreed, Takes, Gives, Returns, Fails, Branch, eval_sha512_process_block, Eval, S!Signature
<1>15. EvalAgreed(eval_get_class_hash_at)
  <2>1. Handler("get_class_hash_at") = S!Signature(<<"felt">>, <<"felt">>)
    BY SMTT(30) DEF Handler, S!StarknetSyscallHandler
  <2> QED
    BY <2>1, SMTT(30)
    DEF EvalAgreed, Takes, Gives, Returns, Fails, Branch, eval_get_class_hash_at, Eval, S!Signature
<1>16. EvalAgreed(eval_meta_tx_v0)
  <2>1. Handler("meta_tx_v0") = S!Signature(<<"felt", "felt", "felts", "felts">>, <<"felts">>)
    BY SMTT(30) DEF Handler, S!StarknetSyscallHandler
  <2> QED
    BY <2>1, SMTT(30)
    DEF EvalAgreed, Takes, Gives, Returns, Fails, Branch, eval_meta_tx_v0, Eval, S!Signature
<1>17. \A c \in Curves : EvalAgreed(eval_secp256_new(c))
  <2>1. /\ Handler("secp256k1_new") = S!Signature(<<"u256", "u256">>, <<"option_k1">>)
        /\ Handler("secp256r1_new") = S!Signature(<<"u256", "u256">>, <<"option_r1">>)
    BY SMTT(30) DEF Handler, S!StarknetSyscallHandler
  <2>2. /\ SecpMethod["k1"].new = "secp256k1_new"
        /\ SecpMethod["r1"].new = "secp256r1_new"
    BY DEF SecpMethod
  <2> QED
    BY <2>1, <2>2, SMTT(30)
    DEF EvalAgreed, Takes, Gives, Returns, Fails, Branch, eval_secp256_new, SecpOption, Eval, S!Signature, Curves
<1>18. \A c \in Curves : EvalAgreed(eval_secp256_add(c))
  <2>1. /\ Handler("secp256k1_add") = S!Signature(<<"k1", "k1">>, <<"k1">>)
        /\ Handler("secp256r1_add") = S!Signature(<<"r1", "r1">>, <<"r1">>)
    BY SMTT(30) DEF Handler, S!StarknetSyscallHandler
  <2>2. /\ SecpMethod["k1"].add = "secp256k1_add"
        /\ SecpMethod["r1"].add = "secp256r1_add"
    BY DEF SecpMethod
  <2>3. \A c \in Curves : SecpMethod[c].add \in ErrorShapeGaps
    BY DEF ErrorShapeGaps
  <2> QED
    BY <2>1, <2>2, <2>3, SMTT(30)
    DEF EvalAgreed, Takes, Gives, Returns, Fails, Branch, eval_secp256_add, Eval, S!Signature, Curves
<1>19. \A c \in Curves : EvalAgreed(eval_secp256_mul(c))
  <2>1. /\ Handler("secp256k1_mul") = S!Signature(<<"k1", "u256">>, <<"k1">>)
        /\ Handler("secp256r1_mul") = S!Signature(<<"r1", "u256">>, <<"r1">>)
    BY SMTT(30) DEF Handler, S!StarknetSyscallHandler
  <2>2. /\ SecpMethod["k1"].mul = "secp256k1_mul"
        /\ SecpMethod["r1"].mul = "secp256r1_mul"
    BY DEF SecpMethod
  <2>3. \A c \in Curves : SecpMethod[c].mul \in ErrorShapeGaps
    BY DEF ErrorShapeGaps
  <2> QED
    BY <2>1, <2>2, <2>3, SMTT(30)
    DEF EvalAgreed, Takes, Gives, Returns, Fails, Branch, eval_secp256_mul, Eval, S!Signature, Curves
<1>20. \A c \in Curves : EvalAgreed(eval_secp256_get_point_from_x(c))
  <2>1. /\ Handler("secp256k1_get_point_from_x") = S!Signature(<<"u256", "bool">>, <<"option_k1">>)
        /\ Handler("secp256r1_get_point_from_x") = S!Signature(<<"u256", "bool">>, <<"option_r1">>)
    BY SMTT(30) DEF Handler, S!StarknetSyscallHandler
  <2>2. /\ SecpMethod["k1"].get_point_from_x = "secp256k1_get_point_from_x"
        /\ SecpMethod["r1"].get_point_from_x = "secp256r1_get_point_from_x"
    BY DEF SecpMethod
  <2> QED
    BY <2>1, <2>2, SMTT(30)
    DEF EvalAgreed, Takes, Gives, Returns, Fails, Branch, eval_secp256_get_point_from_x, SecpOption, Eval, S!Signature, Curves
<1>21. \A c \in Curves : EvalAgreed(eval_secp256_get_xy(c))
  <2>1. /\ Handler("secp256k1_get_xy") = S!Signature(<<"k1">>, <<"u256", "u256">>)
        /\ Handler("secp256r1_get_xy") = S!Signature(<<"r1">>, <<"u256", "u256">>)
    BY SMTT(30) DEF Handler, S!StarknetSyscallHandler
  <2>2. /\ SecpMethod["k1"].get_xy = "secp256k1_get_xy"
        /\ SecpMethod["r1"].get_xy = "secp256r1_get_xy"
    BY DEF SecpMethod
  <2>3. \A c \in Curves : SecpMethod[c].get_xy \in ErrorShapeGaps
    BY DEF ErrorShapeGaps
  <2> QED
    BY <2>1, <2>2, <2>3, SMTT(30)
    DEF EvalAgreed, Takes, Gives, Returns, Fails, Branch, eval_secp256_get_xy, Eval, S!Signature, Curves
<1> QED
  BY <1>1, <1>2, <1>3, <1>4, <1>5, <1>6, <1>7, <1>8, <1>9, <1>10, <1>11, <1>12,
     <1>13, <1>14, <1>15, <1>16, <1>17, <1>18, <1>19, <1>20, <1>21 DEF Evals

\* The evaluation of a method the interpreter knows.
LEMMA EvalIs ==
  ASSUME NEW m, Interpreted(m)
  PROVE  EvalOf(m) \in Evals /\ EvalOf(m).method = m
BY DEF Interpreted, EvalOf

-----------------------------------------------------------------------------
(* Sequences.                                                              *)

LEMMA SequenceIn ==
  ASSUME NEW s, IsSequence(s), NEW T, \A i \in 1..Len(s) : s[i] \in T
  PROVE  s \in Seq(T)
<1> DEFINE n == Len(s)
           g == [i \in 1..n |-> s[i]]
<1>1. n \in Nat /\ s = g
  BY DEF IsSequence
<1>2. g \in Seq(T)
  BY <1>1
<1> HIDE DEF g, n
<1> QED
  BY <1>1, <1>2

LEMMA SequenceDomain ==
  ASSUME NEW s, IsSequence(s)
  PROVE  Len(s) \in Nat /\ DOMAIN s = 1..Len(s)
BY DEF IsSequence

LEMMA FunctionIsSequence ==
  ASSUME NEW n \in Nat, NEW f, f = [i \in 1..n |-> f[i]]
  PROVE  IsSequence(f) /\ Len(f) = n
<1> DEFINE T == {f[i] : i \in 1..n}
           g == [i \in 1..n |-> f[i]]
<1>1. g \in Seq(T) /\ Len(g) = n
  OBVIOUS
<1>2. f = g
  OBVIOUS
<1> HIDE DEF g
<1>3. Len(f) = n
  BY <1>1, <1>2
<1> QED
  BY <1>3 DEF IsSequence

LEMMA SameSequence ==
  ASSUME NEW s, NEW t, IsSequence(s), IsSequence(t), Len(s) = Len(t),
         \A i \in 1..Len(s) : s[i] = t[i]
  PROVE  s = t
BY DEF IsSequence

LEMMA Concatenation ==
  ASSUME NEW s, NEW t, IsSequence(s), IsSequence(t)
  PROVE  /\ IsSequence(s \o t) /\ Len(s \o t) = Len(s) + Len(t)
         /\ \A i \in 1..Len(s) : (s \o t)[i] = s[i]
         /\ \A i \in 1..Len(t) : (s \o t)[Len(s) + i] = t[i]
<1> DEFINE T == {s[i] : i \in 1..Len(s)} \cup {t[i] : i \in 1..Len(t)}
           u == s \o t
<1>1. s \in Seq(T) /\ t \in Seq(T)
  <2>1. (\A i \in 1..Len(s) : s[i] \in T) /\ (\A i \in 1..Len(t) : t[i] \in T)
    OBVIOUS
  <2> HIDE DEF T
  <2> QED
    BY <2>1, SequenceIn
<1> HIDE DEF T
<1>2. /\ u \in Seq(T) /\ Len(u) = Len(s) + Len(t)
      /\ \A i \in 1..Len(u) : u[i] = IF i <= Len(s) THEN s[i] ELSE t[i - Len(s)]
  BY <1>1, ConcatProperties
<1> HIDE DEF u
<1>3. Len(s) \in Nat /\ Len(t) \in Nat
  BY DEF IsSequence
<1>4. IsSequence(u)
  <2>1. Len(u) \in Nat /\ DOMAIN u = 1..Len(u)
    BY <1>2
  <2>2. u = [i \in 1..Len(u) |-> u[i]]
    BY <1>2
  <2> QED
    BY <2>1, <2>2 DEF IsSequence
<1>5. \A i \in 1..Len(s) : u[i] = s[i]
  BY <1>2, <1>3
<1>6. \A i \in 1..Len(t) : u[Len(s) + i] = t[i]
  BY <1>2, <1>3
<1> QED
  BY <1>2, <1>4, <1>5, <1>6 DEF u

LEMMA One ==
  ASSUME NEW x
  PROVE  IsSequence(<<x>>) /\ Len(<<x>>) = 1 /\ <<x>>[1] = x /\ DOMAIN <<x>> = 1..1
BY DEF IsSequence

LEMMA Empty == IsSequence(<<>>) /\ Len(<<>>) = 0 /\ DOMAIN <<>> = 1..0
BY DEF IsSequence

LEMMA EmptyIs ==
  ASSUME NEW s, IsSequence(s), Len(s) = 0
  PROVE  s = <<>>
BY Empty, SameSequence

-----------------------------------------------------------------------------
(* Words keep their values, and answers get theirs.                        *)

WordsIn(ws, mem) == IsSequence(ws) /\ \A i \in DOMAIN ws : Usable(ws[i], mem)

\* Memory that only has more in it.
Extends(all, mem) ==
  IsSequence(all) /\ DOMAIN mem \subseteq DOMAIN all /\ \A i \in DOMAIN mem : all[i] = mem[i]

LEMMA ConcatExtends ==
  ASSUME NEW mem, NEW more, IsSequence(mem), IsSequence(more)
  PROVE  Extends(mem \o more, mem)
<1> DEFINE all == mem \o more
<1>1. /\ DOMAIN mem = 1..Len(mem) /\ IsSequence(all) /\ DOMAIN all = 1..Len(all)
      /\ Len(mem) \in Nat /\ Len(more) \in Nat /\ Len(all) = Len(mem) + Len(more)
      /\ \A i \in 1..Len(mem) : all[i] = mem[i]
  BY Concatenation, SequenceDomain
<1> HIDE DEF all
<1>2. Extends(all, mem)
  BY <1>1 DEF Extends
<1> QED
  BY <1>2 DEF all

LEMMA ValueKept ==
  ASSUME NEW mem, NEW all, Extends(all, mem), NEW w, Usable(w, mem)
  PROVE  ValueOf(w, all) = ValueOf(w, mem) /\ Usable(w, all)
BY DEF Extends, ValueOf, Usable, Slice

LEMMA ValuesAreSequence ==
  ASSUME NEW ws, IsSequence(ws), NEW mem
  PROVE  /\ IsSequence(Values(ws, mem)) /\ Len(Values(ws, mem)) = Len(ws)
         /\ DOMAIN Values(ws, mem) = DOMAIN ws
         /\ \A i \in DOMAIN ws : Values(ws, mem)[i] = ValueOf(ws[i], mem)
<1> DEFINE vs == Values(ws, mem)
           n == Len(ws)
<1>1. n \in Nat /\ DOMAIN ws = 1..n
  BY DEF IsSequence
<1>2. vs = [i \in 1..n |-> ValueOf(ws[i], mem)]
  BY <1>1 DEF Values
<1> HIDE DEF n
<1>3. vs = [i \in 1..n |-> vs[i]] /\ DOMAIN vs = 1..n /\ \A i \in 1..n : vs[i] = ValueOf(ws[i], mem)
  BY <1>2
<1> HIDE DEF vs
<1>4. IsSequence(vs) /\ Len(vs) = n
  BY <1>1, <1>3, FunctionIsSequence
<1> QED
  BY <1>1, <1>3, <1>4 DEF vs, n

LEMMA ValuesKept ==
  ASSUME NEW mem, NEW all, Extends(all, mem), NEW ws, WordsIn(ws, mem)
  PROVE  Values(ws, all) = Values(ws, mem) /\ WordsIn(ws, all)
<1>1. \A i \in DOMAIN ws : ValueOf(ws[i], all) = ValueOf(ws[i], mem) /\ Usable(ws[i], all)
  BY ValueKept DEF WordsIn
<1> QED
  BY <1>1 DEF WordsIn, Values

LEMMA ValuesConcat ==
  ASSUME NEW ws, NEW us, NEW mem, WordsIn(ws, mem), WordsIn(us, mem)
  PROVE  /\ Values(ws \o us, mem) = Values(ws, mem) \o Values(us, mem)
         /\ WordsIn(ws \o us, mem)
<1> DEFINE all == ws \o us
           vs == Values(ws, mem)
           rs == Values(us, mem)
<1>1. /\ IsSequence(ws) /\ IsSequence(us)
      /\ Len(ws) \in Nat /\ Len(us) \in Nat /\ DOMAIN ws = 1..Len(ws) /\ DOMAIN us = 1..Len(us)
  BY SequenceDomain DEF WordsIn
<1>2. /\ IsSequence(all) /\ Len(all) = Len(ws) + Len(us) /\ DOMAIN all = 1..Len(all)
      /\ \A i \in 1..Len(ws) : all[i] = ws[i]
      /\ \A i \in 1..Len(us) : all[Len(ws) + i] = us[i]
  BY <1>1, Concatenation, SequenceDomain
<1>3. /\ IsSequence(vs) /\ IsSequence(rs) /\ Len(vs) = Len(ws) /\ Len(rs) = Len(us)
      /\ \A i \in 1..Len(ws) : vs[i] = ValueOf(ws[i], mem)
      /\ \A i \in 1..Len(us) : rs[i] = ValueOf(us[i], mem)
  BY <1>1, ValuesAreSequence
<1> HIDE DEF all
<1>4. /\ IsSequence(Values(all, mem)) /\ Len(Values(all, mem)) = Len(all)
      /\ \A i \in 1..Len(all) : Values(all, mem)[i] = ValueOf(all[i], mem)
  BY <1>2, ValuesAreSequence
<1>5. /\ IsSequence(vs \o rs) /\ Len(vs \o rs) = Len(vs) + Len(rs)
      /\ \A i \in 1..Len(vs) : (vs \o rs)[i] = vs[i]
      /\ \A i \in 1..Len(rs) : (vs \o rs)[Len(vs) + i] = rs[i]
  BY <1>3, Concatenation
<1> HIDE DEF vs, rs
<1>6. \A i \in 1..Len(all) : i \in 1..Len(ws) \/ \E j \in 1..Len(us) : i = Len(ws) + j
  <2> SUFFICES ASSUME NEW i \in 1..Len(all), i \notin 1..Len(ws)
               PROVE  \E j \in 1..Len(us) : i = Len(ws) + j
    OBVIOUS
  <2>1. i - Len(ws) \in 1..Len(us) /\ i = Len(ws) + (i - Len(ws))
    BY <1>1, <1>2
  <2> QED
    BY <2>1
<1>7. \A i \in 1..Len(all) : Values(all, mem)[i] = (vs \o rs)[i] /\ Usable(all[i], mem)
  <2> SUFFICES ASSUME NEW i \in 1..Len(all)
               PROVE  Values(all, mem)[i] = (vs \o rs)[i] /\ Usable(all[i], mem)
    OBVIOUS
  <2>1. CASE i \in 1..Len(ws)
    BY <1>1, <1>2, <1>3, <1>4, <1>5, <2>1 DEF WordsIn
  <2>2. ASSUME NEW j \in 1..Len(us), i = Len(ws) + j
        PROVE  Values(all, mem)[i] = (vs \o rs)[i] /\ Usable(all[i], mem)
    <3>1. all[i] = us[j] /\ rs[j] = ValueOf(us[j], mem) /\ (vs \o rs)[i] = rs[j]
      BY <1>2, <1>3, <1>5, <2>2
    <3>2. Usable(us[j], mem)
      BY <1>1, <2>2 DEF WordsIn
    <3>3. Values(all, mem)[i] = ValueOf(all[i], mem)
      BY <1>4
    <3> QED
      BY <3>1, <3>2, <3>3
  <2> QED
    BY <1>6, <2>1, <2>2
<1>8. Values(all, mem) = vs \o rs
  BY <1>2, <1>3, <1>4, <1>5, <1>7, SameSequence, ZenonT(60)
<1> QED
  BY <1>2, <1>7, <1>8 DEF WordsIn, all, vs, rs

\* What an answer's value becomes, behind the memory there is.
LEMMA AnswerStored ==
  ASSUME NEW kind \in AnswerKinds, NEW v \in Answers(kind),
         NEW mem, NEW more, IsSequence(mem), IsSequence(more), Contents(v) \in {<<>>, more}
  PROVE  LET w == Word(v, Len(mem) + 1)
         IN w[1] = kind /\ ValueOf(w, mem \o more) = v /\ Usable(w, mem \o more)
<1> DEFINE p == Len(mem) + 1
           w == Word(v, p)
           all == mem \o more
<1>1. v = <<kind, v[2]>> /\ v[1] = kind /\ (kind \in ArrayKinds => IsSequence(v[2]))
  BY AnswersAssumption DEF AnswersAssumption, AnswerKinds, Heavy
<1>2. /\ Len(mem) \in Nat /\ DOMAIN all = 1..Len(all) /\ Len(all) = Len(mem) + Len(more)
      /\ \A i \in 1..Len(more) : all[Len(mem) + i] = more[i]
  BY Concatenation, SequenceDomain
<1>3. ASSUME NEW b, Contents(v) = <<b>>
      PROVE  p \in DOMAIN all /\ all[p] = b
  <2>1. more = <<b>>
    <3>1. <<b>> # <<>>
      BY One, Empty
    <3> QED
      BY <1>3, <3>1
  <2>2. Len(more) = 1 /\ more[1] = b
    BY <2>1, One
  <2> QED
    BY <1>2, <2>2
<1>4. CASE kind \notin Heavy
  BY <1>1, <1>4 DEF Word, ValueOf, Usable, Heavy
<1>5. CASE kind \in PointerKinds
  <2>1. kind \notin ArrayKinds
    BY <1>5 DEF ArrayKinds, PointerKinds
  <2>2. w = <<kind, p>> /\ Contents(v) = <<v[2]>>
    BY <1>1, <1>5, <2>1 DEF Word, Contents
  <2>3. p \in DOMAIN all /\ all[p] = v[2]
    BY <2>2, <1>3
  <2> HIDE DEF p, all
  <2>4. w[1] = kind /\ w[2] = p
    BY <2>2
  <2> HIDE DEF w
  <2>5. ValueOf(w, all) = <<kind, all[p]>>
    BY <1>5, <2>1, <2>4 DEF ValueOf
  <2>6. Usable(w, all)
    BY <2>1, <2>3, <2>4 DEF Usable
  <2> QED
    BY <1>1, <2>3, <2>4, <2>5, <2>6 DEF w, p, all
<1>6. CASE kind \in ArrayKinds
  <2>0. kind \notin PointerKinds
    BY <1>6 DEF ArrayKinds, PointerKinds
  <2>1. CASE v[2] = <<>>
    <3>1. w = <<kind, [ptr |-> 0, since |-> 0, until |-> 0]>>
      BY <1>1, <1>6, <2>1 DEF Word, alloc_mlir_array
    <3>2. w[1] = kind /\ w[2].since = 0 /\ w[2].until = 0
      BY <3>1
    <3> HIDE DEF w, all
    <3>3. ValueOf(w, all) = <<kind, <<>>>>
      BY <1>6, <3>2 DEF ValueOf, Slice
    <3>4. Usable(w, all)
      BY <2>0, <3>2 DEF Usable
    <3> QED
      BY <1>1, <2>1, <3>2, <3>3, <3>4 DEF w, p, all
  <2>2. CASE v[2] # <<>>
    <3> DEFINE s == v[2]
               n == Len(s)
    <3>1. w = <<kind, [ptr |-> p, since |-> 0, until |-> n]>> /\ Contents(v) = <<s>>
      BY <1>1, <1>6, <2>2 DEF Word, alloc_mlir_array, Contents
    <3>2. p \in DOMAIN all /\ all[p] = s
      BY <1>3, <3>1
    <3> HIDE DEF p, all
    <3>3. w[1] = kind /\ w[2].ptr = p /\ w[2].since = 0 /\ w[2].until = n
      BY <3>1
    <3>4. n \in Nat /\ n # 0
      BY <1>1, <1>6, <2>2, EmptyIs DEF IsSequence
    <3>5. SubSeq(s, 1, n) = s
      <4> DEFINE T == {s[i] : i \in 1..Len(s)}
      <4>1. s \in Seq(T)
        <5>1. \A i \in 1..Len(s) : s[i] \in T
          OBVIOUS
        <5> HIDE DEF T, s, n
        <5>2. IsSequence(s)
          BY <1>1, <1>6 DEF s
        <5> QED
          BY <5>1, <5>2, SequenceIn
      <4> HIDE DEF T, s
      <4> QED
        BY <4>1, SMT
    <3> HIDE DEF w, n, s
    <3>6. ValueOf(w, all) = <<kind, s>>
      <4>1. Slice(w[2], all) = SubSeq(all[p], 1, n)
        BY <3>3, <3>4 DEF Slice
      <4> QED
        BY <1>6, <3>2, <3>3, <3>5, <4>1 DEF ValueOf
    <3>7. Usable(w, all)
      BY <2>0, <3>2, <3>3 DEF Usable
    <3> QED
      BY <1>1, <3>3, <3>6, <3>7 DEF w, p, all, s
  <2> QED
    BY <2>1, <2>2
<1> QED
  BY <1>4, <1>5, <1>6 DEF Heavy

LEMMA OffsetsAgree ==
  ASSUME NEW kinds, \A i \in DOMAIN kinds : kinds[i] \in AnswerKinds
  PROVE  UnionOffset(kinds) = VariantOffset(kinds)
<1>1. \A k \in AnswerKinds : AbiAlign(k) = CompiledAlign(k)
  BY DEF AnswerKinds, Heavy, AbiAlign, CompiledAlign, IntegerAlign, PointerAlign,
         ArrayKinds, PointerKinds
<1>2. {AbiAlign(kinds[i]) : i \in DOMAIN kinds} = {CompiledAlign(kinds[i]) : i \in DOMAIN kinds}
  BY <1>1
<1> QED
  BY <1>2 DEF UnionOffset, VariantOffset

\* The values of an answer that fits kinds.
Fits(vs, kinds) ==
  IsSequence(vs) /\ DOMAIN vs = DOMAIN kinds /\ \A i \in DOMAIN vs : vs[i] \in Answers(kinds[i])

LEMMA OneAllocation ==
  ASSUME NEW kinds, Storable(kinds), NEW vs, Fits(vs, kinds)
  PROVE  /\ IsSequence(NewBlocks(vs))
         /\ \A i \in DOMAIN vs : Contents(vs[i]) \in {<<>>, NewBlocks(vs)}
<1>1. \A i \in DOMAIN vs : vs[i][1] = kinds[i] /\ kinds[i] \in AnswerKinds
  <2> SUFFICES ASSUME NEW i \in DOMAIN vs PROVE vs[i][1] = kinds[i] /\ kinds[i] \in AnswerKinds
    OBVIOUS
  <2>1. kinds[i] \in AnswerKinds /\ vs[i] \in Answers(kinds[i])
    BY DEF Storable, Fits
  <2>2. vs[i] = <<kinds[i], vs[i][2]>>
    BY <2>1, AnswersAssumption DEF AnswersAssumption, AnswerKinds, Heavy
  <2> QED
    BY <2>1, <2>2
<1>2. \A i \in DOMAIN vs : Contents(vs[i]) # <<>> => kinds[i] \in Heavy
  BY <1>1 DEF Contents, Heavy
<1>3. \A i \in DOMAIN vs : IsSequence(Contents(vs[i]))
  BY One, Empty DEF Contents
<1>4. CASE Allocated(vs) = {}
  <2>1. \A i \in DOMAIN vs : Contents(vs[i]) = <<>>
    BY <1>4 DEF Allocated
  <2> QED
    BY <1>4, <2>1, Empty DEF NewBlocks
<1>5. CASE Allocated(vs) # {}
  <2>1. NewBlocks(vs) \in Allocated(vs)
    BY <1>5 DEF NewBlocks
  <2>2. PICK j \in DOMAIN vs : NewBlocks(vs) = Contents(vs[j]) /\ Contents(vs[j]) # <<>>
    BY <2>1 DEF Allocated
  <2>3. \A i \in DOMAIN vs : Contents(vs[i]) # <<>> => i = j
    BY <1>2, <2>2 DEF Storable, Fits
  <2> QED
    BY <1>3, <2>2, <2>3
<1> QED
  BY <1>4, <1>5

\* A wrapper's answer, as words in the memory it leaves.
LEMMA AnswersStored ==
  ASSUME NEW kinds, Storable(kinds), NEW vs, Fits(vs, kinds), NEW mem, IsSequence(mem)
  PROVE  LET ws == Words(vs, Len(mem) + 1)
             all == mem \o NewBlocks(vs)
         IN /\ WordsIn(ws, all) /\ Values(ws, all) = vs
            /\ [i \in DOMAIN ws |-> ws[i][1]] = kinds
<1> DEFINE more == NewBlocks(vs)
           p == Len(mem) + 1
           ws == Words(vs, p)
           all == mem \o more
<1>1. DOMAIN ws = DOMAIN vs /\ \A i \in DOMAIN vs : ws[i] = Word(vs[i], p)
  BY DEF Words
<1>2. IsSequence(ws)
  <2>1. Len(vs) \in Nat /\ DOMAIN vs = 1..Len(vs)
    BY SequenceDomain DEF Fits
  <2>2. ws = [i \in 1..Len(vs) |-> ws[i]]
    BY <2>1 DEF Words
  <2> HIDE DEF ws
  <2> QED
    BY <2>1, <2>2, FunctionIsSequence
<1>3. \A i \in DOMAIN vs : /\ Word(vs[i], p)[1] = kinds[i]
                           /\ ValueOf(Word(vs[i], p), all) = vs[i] /\ Usable(Word(vs[i], p), all)
  <2> SUFFICES ASSUME NEW i \in DOMAIN vs
               PROVE  /\ Word(vs[i], p)[1] = kinds[i]
                      /\ ValueOf(Word(vs[i], p), all) = vs[i] /\ Usable(Word(vs[i], p), all)
    OBVIOUS
  <2>1. kinds[i] \in AnswerKinds /\ vs[i] \in Answers(kinds[i])
    BY DEF Storable, Fits
  <2>2. IsSequence(more) /\ Contents(vs[i]) \in {<<>>, more}
    BY OneAllocation
  <2> HIDE DEF more
  <2> DEFINE k == kinds[i]
             v == vs[i]
  <2> HIDE DEF k, v
  <2>3. k \in AnswerKinds /\ v \in Answers(k) /\ Contents(v) \in {<<>>, more}
    BY <2>1, <2>2 DEF k, v
  <2>4. Word(v, p)[1] = k /\ ValueOf(Word(v, p), all) = v /\ Usable(Word(v, p), all)
    BY <2>2, <2>3, AnswerStored
  <2> QED
    BY <2>4 DEF k, v
<1> HIDE DEF ws, all, p
<1>4. WordsIn(ws, all)
  BY <1>1, <1>2, <1>3 DEF WordsIn
<1>5. Values(ws, all) = vs
  <2>1. Values(ws, all) = [i \in DOMAIN vs |-> vs[i]]
    BY <1>1, <1>3 DEF Values
  <2>2. vs = [i \in DOMAIN vs |-> vs[i]]
    BY SequenceDomain DEF Fits, IsSequence
  <2> QED
    BY <2>1, <2>2
<1>6. [i \in DOMAIN ws |-> ws[i][1]] = kinds
  <2>1. [i \in DOMAIN ws |-> ws[i][1]] = [i \in DOMAIN kinds |-> kinds[i]]
    BY <1>1, <1>3 DEF Fits
  <2>2. kinds = [i \in DOMAIN kinds |-> kinds[i]]
    BY SequenceDomain DEF Storable, IsSequence
  <2> QED
    BY <2>1, <2>2
<1> QED
  BY <1>4, <1>5, <1>6 DEF ws, all, p

-----------------------------------------------------------------------------
(* The invariant.                                                          *)

MemoryOK == gas \in Nat /\ IsSequence(blocks) /\ WordsIn(held, blocks)

OutcomeOK ==
  /\ WordsIn(outcome.results, blocks)
  /\ outcome = [asked |-> outcome.asked, given |-> outcome.given, branch |-> outcome.branch,
                results |-> outcome.results]

FrameOK ==
  frame = [at |-> frame.at, gas |-> frame.gas, entry |-> frame.entry, operands |-> frame.operands,
           asked |-> frame.asked, result |-> frame.result]

\* The contract passes what a method takes.
Calling ==
  LET m == call.method
  IN /\ m \in S!Methods
     /\ call = [method |-> m, args |-> call.args]
     /\ WordsIn(call.args, blocks)
     /\ DOMAIN call.args = DOMAIN Takes(m)
     /\ \A i \in DOMAIN call.args : call.args[i][1] = Takes(m)[i]

\* The operands of a call: each argument, passed the way the libfunc passes it.
Passed(code, words) ==
  [i \in DOMAIN code.operands |->
    [in |-> code.operands[i].in, word |-> words[code.operands[i].arg - 1]]]

Passing ==
  LET code == build[call.method]
  IN /\ frame.gas = gas
     /\ frame.entry = Index(code.field)
     /\ frame.operands = Passed(code, call.args)

\* What was asked, and what was answered.
Question == [method |-> call.method, args |-> Values(call.args, blocks)]

Stored(kinds, answers) ==
  /\ WordsIn(frame.result.words, blocks)
  /\ Values(frame.result.words, blocks) \in answers
  /\ [i \in DOMAIN frame.result.words |-> frame.result.words[i][1]] = kinds
  /\ frame.result.at = UnionOffset(kinds)

Answered ==
  LET m == call.method
  IN /\ frame.asked = Question
     /\ frame.gas \in IF S!Metered(m) THEN 0..gas ELSE {gas}
     /\ \/ frame.result.tag = 0 /\ Stored(Gives(m), S!Successes(m))
        \/ frame.result.tag = 1 /\ Stored(<<"felts">>, S!Errors(m))

IInv ==
  /\ MemoryOK /\ OutcomeOK /\ FrameOK
  /\ \/ frame.at = "contract" /\ call = S!Idle
     \/ frame.at = "wrapper" /\ Calling /\ Passing
     \/ frame.at = "return" /\ Calling /\ Answered

LEMMA InitInv == Init => IInv
<1> SUFFICES ASSUME Init PROVE IInv
  OBVIOUS
<1>1. MemoryOK
  BY InputsAssumption, BoundsAssumption
  DEF Init, MemoryOK, WordsIn, InputsAssumption, BoundsAssumption
<1>2. OutcomeOK
  BY Empty DEF Init, OutcomeOK, WordsIn, S!Nothing, S!Idle
<1>3. FrameOK /\ frame.at = "contract" /\ call = S!Idle
  BY DEF Init, FrameOK, NoFrame
<1> QED
  BY <1>1, <1>2, <1>3 DEF IInv

-----------------------------------------------------------------------------
(* The contract calls.                                                     *)

\* Arguments have the kinds the method takes, and depend on kinds only.
LEMMA ArgumentsFit ==
  ASSUME NEW m \in S!Methods, NEW values, NEW p \in S!Arguments(m, values)
  PROVE  /\ IsSequence(p) /\ DOMAIN p = DOMAIN Takes(m)
         /\ \A i \in DOMAIN p : p[i] \in DOMAIN values /\ values[p[i]][1] = Takes(m)[i]
<1>1. Len(Takes(m)) \in 0..4 /\ IsSequence(Takes(m))
  BY Agreement DEF Agreed, Serve, Takes
<1>2. DOMAIN Takes(m) = 1..Len(Takes(m))
  BY <1>1, SequenceDomain
<1> DEFINE n == Len(Takes(m))
           At(i) == {j \in DOMAIN values : values[j][1] = Takes(m)[i]}
<1>3. /\ n = 0 => p = <<>>
      /\ n = 1 => \E a \in At(1) : p = <<a>>
      /\ n = 2 => \E a \in At(1), b \in At(2) : p = <<a, b>>
      /\ n = 3 => \E a \in At(1), b \in At(2), c \in At(3) : p = <<a, b, c>>
      /\ n = 4 => \E a \in At(1), b \in At(2), c \in At(3), d \in At(4) : p = <<a, b, c, d>>
  BY <1>1 DEF S!Arguments, S!Is, Takes, Handler
<1>4. n = 0 \/ n = 1 \/ n = 2 \/ n = 3 \/ n = 4
  BY <1>1
<1>5. /\ IsSequence(p) /\ Len(p) = n /\ DOMAIN p = 1..n
      /\ \A i \in 1..n : p[i] \in At(i)
  <2> HIDE DEF n, At
  <2>1. CASE n = 0
    BY <1>3, <2>1, Empty
  <2>2. CASE n = 1
    BY <1>3, <2>2 DEF IsSequence
  <2>3. CASE n = 2
    BY <1>3, <2>3 DEF IsSequence
  <2>4. CASE n = 3
    BY <1>3, <2>4 DEF IsSequence
  <2>5. CASE n = 4
    BY <1>3, <2>5 DEF IsSequence
  <2> QED
    BY <1>4, <2>1, <2>2, <2>3, <2>4, <2>5
<1> QED
  BY <1>2, <1>5

LEMMA ArgumentsByKind ==
  ASSUME NEW m \in S!Methods, NEW values, NEW others, DOMAIN values = DOMAIN others,
         \A j \in DOMAIN values : values[j][1] = others[j][1]
  PROVE  S!Arguments(m, values) = S!Arguments(m, others)
<1> DEFINE At(i) == {j \in DOMAIN values : S!Is(values[j], S!StarknetSyscallHandler[m].takes[i])}
           Bt(i) == {j \in DOMAIN others : S!Is(others[j], S!StarknetSyscallHandler[m].takes[i])}
<1>1. At(1) = Bt(1) /\ At(2) = Bt(2) /\ At(3) = Bt(3) /\ At(4) = Bt(4)
  BY DEF S!Is
<1> QED
  BY <1>1 DEF S!Arguments

LEMMA KindOfValue ==
  ASSUME NEW w, NEW mem
  PROVE  ValueOf(w, mem)[1] = w[1]
BY DEF ValueOf

LEMMA CallStep ==
  ASSUME IInv, NEW m \in S!Methods, NEW p \in S!Arguments(m, held), Call(m, p)
  PROVE  IInv' /\ S!Ask(m, p) /\ p \in S!Arguments(m, Values(held, blocks))
<1> DEFINE words == [i \in DOMAIN p |-> held[p[i]]]
           values == Values(held, blocks)
<1>1. /\ IsSequence(held) /\ \A i \in DOMAIN held : Usable(held[i], blocks)
      /\ IsSequence(values) /\ Len(values) = Len(held) /\ DOMAIN values = DOMAIN held
      /\ \A i \in DOMAIN held : values[i] = ValueOf(held[i], blocks)
  BY ValuesAreSequence DEF IInv, MemoryOK, WordsIn
<1>2. /\ IsSequence(p) /\ DOMAIN p = DOMAIN Takes(m)
      /\ \A i \in DOMAIN p : p[i] \in DOMAIN held /\ held[p[i]][1] = Takes(m)[i]
  BY ArgumentsFit
<1>3. frame.at = "contract" /\ call = S!Idle
  BY DEF Call, IInv
<1>4. call' = [method |-> m, args |-> words] /\ UNCHANGED <<gas, held, blocks>>
  BY DEF Call
<1>5. WordsIn(words, blocks) /\ DOMAIN words = DOMAIN p
  <2>1. Len(p) \in Nat /\ DOMAIN p = 1..Len(p)
    BY <1>2, SequenceDomain
  <2>2. words = [i \in 1..Len(p) |-> words[i]] /\ DOMAIN words = DOMAIN p
    BY <2>1
  <2>3. \A i \in DOMAIN words : words[i] = held[p[i]]
    OBVIOUS
  <2> HIDE DEF words
  <2>4. IsSequence(words)
    BY <2>1, <2>2, FunctionIsSequence
  <2> QED
    BY <1>1, <1>2, <2>2, <2>3, <2>4 DEF WordsIn
<1>6. p \in S!Arguments(m, values)
  <2>1. \A j \in DOMAIN held : held[j][1] = values[j][1]
    BY <1>1, KindOfValue
  <2> HIDE DEF values
  <2> QED
    BY <1>1, <2>1, ArgumentsByKind
<1>7. Calling'
  <2>1. /\ call'.method = m /\ call'.args = words
        /\ call' = [method |-> call'.method, args |-> call'.args]
    BY <1>4
  <2>2. \A i \in DOMAIN words : words[i][1] = Takes(m)[i]
    BY <1>2
  <2> HIDE DEF words
  <2> QED
    BY <1>2, <1>4, <1>5, <2>1, <2>2 DEF Calling
<1>8. Passing' /\ FrameOK' /\ frame'.at = "wrapper"
  <2>1. call'.method = m /\ call'.args = words /\ gas' = gas
    BY <1>4
  <2>2. frame = [at |-> frame.at, gas |-> frame.gas, entry |-> frame.entry,
                 operands |-> frame.operands, asked |-> frame.asked, result |-> frame.result]
    BY DEF IInv, FrameOK
  <2>3. frame' = [frame EXCEPT !.at = "wrapper", !.gas = gas, !.entry = Index(build[m].field),
                               !.operands = Passed(build[m], words)]
    BY DEF Call, Passed
  <2> HIDE DEF words
  <2>4. frame' = [at |-> "wrapper", gas |-> gas, entry |-> Index(build[m].field),
                  operands |-> Passed(build[m], words), asked |-> frame.asked,
                  result |-> frame.result]
    BY <2>2, <2>3
  <2> QED
    BY <2>1, <2>4 DEF Passing, FrameOK
<1>9. MemoryOK' /\ OutcomeOK'
  <2>1. outcome' = S!Nothing
    BY DEF Call
  <2>2. OutcomeOK'
    BY <2>1, Empty DEF OutcomeOK, WordsIn, S!Nothing, S!Idle
  <2> QED
    BY <1>4, <2>2 DEF IInv, MemoryOK
<1>10. S!Ask(m, p)
  <2>1. [call EXCEPT !.args = Values(call.args, blocks)] = S!Idle
    <3>1. Values(<<>>, blocks) = <<>>
      BY Empty, ValuesAreSequence, EmptyIs
    <3> QED
      BY <1>3, <3>1 DEF S!Idle
  <2>2. Len(values) < Len(Values(InputWords, InputBlocks)) + MaxResults
    <3>1. Len(Values(InputWords, InputBlocks)) = Len(InputWords)
      BY InputsAssumption, ValuesAreSequence DEF InputsAssumption
    <3> QED
      BY <1>1, <3>1 DEF Call
  <2>3. [call EXCEPT !.args = Values(call.args, blocks)]'
          = [method |-> m, args |-> [i \in DOMAIN p |-> values[p[i]]]]
    <3>1. call'.args = words /\ blocks' = blocks
      BY <1>4
    <3>2. Values(words, blocks) = [i \in DOMAIN p |-> values[p[i]]]
      BY <1>1, <1>2, <1>5 DEF Values
    <3> HIDE DEF words, values
    <3> QED
      BY <1>4, <3>1, <3>2
  <2>4. [outcome EXCEPT !.results = Values(outcome.results, blocks)]' = S!Nothing
    <3>1. outcome' = S!Nothing
      BY DEF Call
    <3>2. Values(<<>>, blocks') = <<>>
      BY Empty, ValuesAreSequence, EmptyIs
    <3> QED
      BY <3>1, <3>2 DEF S!Nothing
  <2>5. gas' = gas /\ Values(held, blocks)' = Values(held, blocks)
    BY <1>4
  <2> QED
    BY <2>1, <2>2, <2>3, <2>4, <2>5 DEF S!Ask
<1> QED
  BY <1>6, <1>7, <1>8, <1>9, <1>10 DEF IInv

-----------------------------------------------------------------------------
(* The wrapper asks and writes the answer.                                 *)

\* The handler is asked what the contract passed.
LEMMA AskedIsQuestion ==
  ASSUME Calling, Passing
  PROVE  LET w == Callbacks[frame.entry]
         IN w.method = call.method /\ Asked(w, frame.operands) = Question
<1> DEFINE m == call.method
           code == build[m]
           w == Entry(m)
<1>1. /\ w.method = m /\ DOMAIN w.reads = DOMAIN Takes(m)
      /\ \A i \in DOMAIN w.reads : ReadsOperand(w.reads[i], code.operands, i, Takes(m)[i])
      /\ IsSequence(Takes(m))
  BY Agreement DEF Calling, Agreed, Serve, Takes
<1>2. Callbacks[frame.entry] = w /\ frame.operands = Passed(code, call.args)
  BY DEF Passing, Entry
<1>3. /\ call.args = [i \in DOMAIN call.args |-> call.args[i]]
      /\ DOMAIN call.args = DOMAIN Takes(m)
      /\ \A i \in DOMAIN call.args : call.args[i][1] = Takes(m)[i]
  BY SequenceDomain DEF Calling, WordsIn, IsSequence
<1>4. DOMAIN Takes(m) = 1..Len(Takes(m)) /\ Len(Takes(m)) \in Nat
  BY <1>1, SequenceDomain
<1> HIDE DEF w, code
<1>5. ASSUME NEW i \in DOMAIN w.reads
      PROVE  Read(w.reads[i], frame.operands) = ValueOf(call.args[i], blocks)
  <2> DEFINE r == w.reads[i]
             o == frame.operands[r.param]
  <2>1. ReadsOperand(r, code.operands, i, Takes(m)[i])
    BY <1>1
  <2>2. o = [in |-> code.operands[r.param].in, word |-> call.args[code.operands[r.param].arg - 1]]
    BY <1>2, <2>1 DEF Passed, ReadsOperand
  <2>3. code.operands[r.param].arg - 1 = i
    BY <1>1, <1>4, <2>1 DEF ReadsOperand
  <2>4. /\ o.in = IF r.from = "slot" THEN "slot" ELSE "register"
        /\ o.word = call.args[i]
    BY <2>1, <2>2, <2>3 DEF ReadsOperand
  <2>5. o.word[1] = r.kind /\ (r.from = "pointer") = (o.word[1] \in PointerKinds)
    BY <1>1, <1>3, <2>1, <2>4, ZenonT(60) DEF ReadsOperand
  <2> QED
    BY <2>4, <2>5 DEF Read
<1>6. Asked(w, frame.operands)
        = [method |-> m, args |-> [i \in DOMAIN w.reads |-> ValueOf(call.args[i], blocks)]]
  BY <1>1, <1>5 DEF Asked
<1> QED
  BY <1>1, <1>2, <1>3, <1>6 DEF Question, Values

\* Memory grows: nothing the contract can see changes.
LEMMA MemoryGrows ==
  ASSUME IInv, Calling, Extends(blocks', blocks), UNCHANGED <<gas, held, call, outcome>>
  PROVE  MemoryOK' /\ OutcomeOK' /\ Calling' /\ Question' = Question /\ UNCHANGED S!vars
<1>1. WordsIn(held, blocks) /\ WordsIn(outcome.results, blocks) /\ WordsIn(call.args, blocks)
  BY DEF IInv, MemoryOK, OutcomeOK, Calling
<1>2. /\ Values(held, blocks') = Values(held, blocks) /\ WordsIn(held, blocks')
      /\ Values(outcome.results, blocks') = Values(outcome.results, blocks)
      /\ WordsIn(outcome.results, blocks')
      /\ Values(call.args, blocks') = Values(call.args, blocks) /\ WordsIn(call.args, blocks')
  BY <1>1, ValuesKept
<1>3. MemoryOK' /\ OutcomeOK'
  BY <1>2 DEF IInv, MemoryOK, OutcomeOK, Extends
<1>4. Calling' /\ Question' = Question
  BY <1>2 DEF Calling, Question
<1>5. UNCHANGED S!vars
  BY <1>2 DEF S!vars
<1> QED
  BY <1>3, <1>4, <1>5

\* The answer in the frame is the handler's.
LEMMA AnswerWritten ==
  ASSUME NEW kinds, Storable(kinds), NEW vs, Fits(vs, kinds), NEW mem, Extends(mem, blocks),
         blocks' = mem \o NewBlocks(vs), IsSequence(blocks),
         frame'.result.words = Words(vs, Len(mem) + 1), frame'.result.at = UnionOffset(kinds),
         NEW answers, vs \in answers
  PROVE  Extends(blocks', blocks) /\ Stored(kinds, answers)'
<1>1. /\ WordsIn(frame'.result.words, blocks') /\ Values(frame'.result.words, blocks') = vs
      /\ [i \in DOMAIN frame'.result.words |-> frame'.result.words[i][1]] = kinds
  BY AnswersStored DEF Extends
<1>2. Extends(blocks', mem)
  BY OneAllocation, ConcatExtends DEF Extends
<1>3. Extends(blocks', blocks)
  BY <1>2 DEF Extends
<1> QED
  BY <1>1, <1>3 DEF Stored

LEMMA SuccessFits ==
  ASSUME NEW m \in S!Methods, NEW r \in S!Successes(m)
  PROVE  Storable(Gives(m)) /\ Fits(r, Gives(m))
<1> DEFINE gives == Gives(m)
<1>1. Storable(gives)
  BY Agreement DEF Agreed
<1>2. IsSequence(gives) /\ Len(gives) \in Nat /\ DOMAIN gives = 1..Len(gives)
  BY <1>1, SequenceDomain DEF Storable
<1>3. /\ r \in [1..Len(gives) -> UNION {Answers(gives[i]) : i \in 1..Len(gives)}]
      /\ \A i \in 1..Len(gives) : r[i][1] = gives[i]
  BY DEF S!Successes, S!Is, Gives, Handler
<1> HIDE DEF gives
<1>4. IsSequence(r) /\ DOMAIN r = DOMAIN gives
  BY <1>2, <1>3, FunctionIsSequence
<1>5. ASSUME NEW i \in DOMAIN gives PROVE r[i] \in Answers(gives[i])
  <2>1. PICK j \in 1..Len(gives) : r[i] \in Answers(gives[j])
    BY <1>2, <1>3
  <2>2. gives[j] \in AnswerKinds
    BY <1>1, <1>2 DEF Storable
  <2>3. r[i] = <<gives[j], r[i][2]>>
    BY <2>1, <2>2, AnswersAssumption DEF AnswersAssumption, AnswerKinds, Heavy
  <2>4. gives[j] = gives[i]
    BY <1>2, <1>3, <2>3
  <2> QED
    BY <2>1, <2>4
<1> QED
  BY <1>1, <1>4, <1>5 DEF Fits, gives

LEMMA ErrorFits ==
  ASSUME NEW m, NEW e \in S!Errors(m)
  PROVE  Storable(<<"felts">>) /\ Fits(e, <<"felts">>)
<1>1. \E v \in Answers("felts") : e = <<v>>
  BY DEF S!Errors
<1> QED
  BY <1>1, One DEF Storable, Fits, AnswerKinds, Heavy, ArrayKinds

LEMMA ScratchIsSequence ==
  ASSUME NEW m, NEW scratch \in Scratch(m)
  PROVE  IsSequence(scratch)
BY One, Empty DEF Scratch

LEMMA WrapStep ==
  ASSUME IInv, Wrap
  PROVE  IInv' /\ UNCHANGED S!vars
<1> DEFINE w == Callbacks[frame.entry]
<1>0. PICK m : m = call.method
  OBVIOUS
<1>1. frame.at = "wrapper" /\ Calling /\ Passing /\ IsSequence(blocks) /\ gas \in Nat
  BY DEF Wrap, IInv, MemoryOK
<1>2. w.method = m /\ Asked(w, frame.operands) = Question /\ frame.gas = gas /\ m \in S!Methods
  BY <1>0, <1>1, AskedIsQuestion DEF Passing, Calling
<1>3. UNCHANGED <<gas, held, call, outcome>>
  BY DEF Wrap
<1>4. frame = [at |-> frame.at, gas |-> frame.gas, entry |-> frame.entry,
               operands |-> frame.operands, asked |-> frame.asked, result |-> frame.result]
  BY DEF IInv, FrameOK
<1>5. PICK remaining \in IF S!Metered(m) THEN 0..gas ELSE {gas} :
        \/ \E r \in S!Successes(m) : WrapOk(w, r, remaining)
        \/ \E e \in S!Errors(m) : wrap_error(w, e, remaining)
  BY <1>2 DEF Wrap
<1> HIDE DEF w
<1>6. ASSUME NEW result, frame' = [frame EXCEPT !.at = "return", !.gas = remaining,
                                   !.asked = Asked(w, frame.operands), !.result = result],
             Extends(blocks', blocks),
             \/ result.tag = 0 /\ Stored(Gives(m), S!Successes(m))'
             \/ result.tag = 1 /\ Stored(<<"felts">>, S!Errors(m))'
      PROVE  IInv' /\ UNCHANGED S!vars
  <2>1. frame' = [at |-> "return", gas |-> remaining, entry |-> frame.entry,
                  operands |-> frame.operands, asked |-> Question, result |-> result]
    BY <1>2, <1>4, <1>6
  <2>2. /\ MemoryOK' /\ OutcomeOK' /\ Calling' /\ Question' = Question /\ UNCHANGED S!vars
    BY <1>1, <1>3, <1>6, MemoryGrows
  <2>3. FrameOK' /\ frame'.at = "return" /\ frame'.asked = Question /\ frame'.gas = remaining
        /\ frame'.result = result
    BY <2>1 DEF FrameOK
  <2>4. call'.method = m /\ gas' = gas
    BY <1>0, <1>3
  <2>5. Answered'
    BY <1>5, <1>6, <2>2, <2>3, <2>4 DEF Answered
  <2> QED
    BY <2>2, <2>3, <2>5 DEF IInv
<1>7. ASSUME NEW r \in S!Successes(m), WrapOk(w, r, remaining) PROVE IInv' /\ UNCHANGED S!vars
  <2> DEFINE result == [tag |-> 0, words |-> Words(r, Len(blocks) + 1),
                        at |-> UnionOffset(Gives(m))]
  <2>1. /\ frame' = [frame EXCEPT !.at = "return", !.gas = remaining,
                                  !.asked = Asked(w, frame.operands), !.result = result]
        /\ blocks' = blocks \o NewBlocks(r)
    BY <1>2, <1>7 DEF WrapOk, Gives, Handler
  <2>2. frame'.result = result
    BY <1>4, <2>1
  <2>3. Extends(blocks, blocks)
    BY <1>1 DEF Extends
  <2>4. Extends(blocks', blocks) /\ Stored(Gives(m), S!Successes(m))'
    <3>1. frame'.result.words = Words(r, Len(blocks) + 1) /\ frame'.result.at = UnionOffset(Gives(m))
      BY <2>2
    <3>2. Storable(Gives(m)) /\ Fits(r, Gives(m))
      BY <1>2, SuccessFits
    <3>3. Stored(Gives(m), S!Successes(m))' /\ Extends(blocks', blocks)
      BY <1>1, <2>1, <2>3, <3>1, <3>2, AnswerWritten
    <3> QED
      BY <3>3
  <2>5. result.tag = 0
    OBVIOUS
  <2> HIDE DEF result
  <2> QED
    BY <1>6, <2>1, <2>4, <2>5
<1>8. ASSUME NEW e \in S!Errors(m), wrap_error(w, e, remaining) PROVE IInv' /\ UNCHANGED S!vars
  <2>1. PICK scratch \in Scratch(m) :
          /\ blocks' = (blocks \o scratch) \o NewBlocks(e)
          /\ frame' = [frame EXCEPT !.at = "return", !.gas = remaining,
                         !.asked = Asked(w, frame.operands),
                         !.result = [tag |-> 1, words |-> Words(e, Len(blocks \o scratch) + 1),
                                     at |-> UnionOffset(<<"felts">>)]]
    BY <1>2, <1>8 DEF wrap_error
  <2> DEFINE mem == blocks \o scratch
             result == [tag |-> 1, words |-> Words(e, Len(mem) + 1),
                        at |-> UnionOffset(<<"felts">>)]
  <2>2. Extends(mem, blocks)
    BY <1>1, ScratchIsSequence, ConcatExtends
  <2>3. frame'.result = result
    BY <1>4, <2>1
  <2>4. Extends(blocks', blocks) /\ Stored(<<"felts">>, S!Errors(m))'
    <3>1. frame'.result.words = Words(e, Len(mem) + 1) /\ frame'.result.at = UnionOffset(<<"felts">>)
      BY <2>3
    <3>2. Storable(<<"felts">>) /\ Fits(e, <<"felts">>)
      BY ErrorFits
    <3>3. blocks' = mem \o NewBlocks(e)
      BY <2>1
    <3> HIDE DEF mem
    <3> QED
      BY <1>1, <2>2, <3>1, <3>2, <3>3, AnswerWritten
  <2>5. result.tag = 1 /\ frame' = [frame EXCEPT !.at = "return", !.gas = remaining,
                                      !.asked = Asked(w, frame.operands), !.result = result]
    BY <2>1
  <2> HIDE DEF result
  <2> QED
    BY <1>6, <2>4, <2>5
<1> QED
  BY <1>5, <1>7, <1>8

-----------------------------------------------------------------------------
(* The contract goes on.                                                   *)

LEMMA LoadsAll ==
  ASSUME NEW kinds, IsSequence(kinds), \A i \in DOMAIN kinds : kinds[i] \in AnswerKinds,
         NEW answers, Stored(kinds, answers)
  PROVE  Load(kinds) = frame.result.words
BY OffsetsAgree DEF Load, Stored

LEMMA LoadedIsAnswer ==
  ASSUME Calling, Answered
  PROVE  execute_syscall(build[call.method]) = frame.result.words
<1> DEFINE m == call.method
           words == frame.result.words
<1>1. build[m].loads = Gives(m) /\ Storable(Gives(m))
  BY Agreement DEF Calling, Agreed, Serve, Gives
<1>2. CASE frame.result.tag = 1 /\ Stored(<<"felts">>, S!Errors(m))
  <2>1. IsSequence(<<"felts">>) /\ \A i \in DOMAIN <<"felts">> : <<"felts">>[i] \in AnswerKinds
    BY One DEF AnswerKinds, Heavy, ArrayKinds
  <2>2. Load(<<"felts">>) = words
    BY <1>2, <2>1, LoadsAll
  <2> QED
    BY <1>2, <2>2 DEF execute_syscall
<1>3. CASE frame.result.tag = 0 /\ Stored(Gives(m), S!Successes(m))
  <2>1. Load(Gives(m)) = words
    BY <1>1, <1>3, LoadsAll DEF Storable
  <2>2. ASSUME Gives(m) = <<>> PROVE words = <<>>
    <3>1. IsSequence(words) /\ [i \in DOMAIN words |-> words[i][1]] = <<>>
      BY <1>3, <2>2 DEF Stored, WordsIn
    <3>2. DOMAIN words = 1..0
      BY <3>1, Empty
    <3> HIDE DEF words
    <3>3. Len(words) \in Nat /\ DOMAIN words = 1..Len(words)
      BY <3>1, SequenceDomain
    <3>4. 1 \notin 1..0 /\ (Len(words) > 0 => 1 \in 1..Len(words))
      BY <3>3
    <3>5. Len(words) = 0
      BY <3>2, <3>3, <3>4
    <3> QED
      BY <3>1, <3>5, EmptyIs
  <2> QED
    BY <1>1, <1>3, <2>1, <2>2 DEF execute_syscall
<1> QED
  BY <1>2, <1>3 DEF Answered

LEMMA ReturnStep ==
  ASSUME IInv, Return
  PROVE  IInv' /\ S!Answer
<1> DEFINE words == frame.result.words
           r == Values(words, blocks)
<1>0. PICK m : m = call.method
  OBVIOUS
<1>1. frame.at = "return" /\ Calling /\ Answered
  BY DEF Return, IInv
<1>2. execute_syscall(build[call.method]) = words
  BY <1>1, LoadedIsAnswer
<1>3. /\ held' = held \o words /\ blocks' = blocks /\ gas' = frame.gas
      /\ outcome' = [asked |-> frame.asked, given |-> gas, branch |-> frame.result.tag,
                    results |-> words]
      /\ call' = S!Idle /\ frame' = NoFrame
  BY <1>2 DEF Return
<1>4. /\ WordsIn(words, blocks) /\ frame.asked = Question /\ m \in S!Methods
      /\ frame.gas \in IF S!Metered(m) THEN 0..gas ELSE {gas}
      /\ \/ frame.result.tag = 0 /\ r \in S!Successes(m)
         \/ frame.result.tag = 1 /\ r \in S!Errors(m)
  BY <1>0, <1>1 DEF Answered, Calling, Stored
<1>5. WordsIn(held, blocks) /\ gas \in Nat /\ IsSequence(blocks)
  BY DEF IInv, MemoryOK
<1> HIDE DEF words
<1>6. Values(held \o words, blocks) = Values(held, blocks) \o r /\ WordsIn(held \o words, blocks)
  BY <1>4, <1>5, ValuesConcat
<1>7. IInv'
  <2>1. gas' \in Nat
    BY <1>3, <1>4, <1>5
  <2>2. MemoryOK' /\ OutcomeOK'
    BY <1>3, <1>4, <1>5, <1>6, <2>1 DEF MemoryOK, OutcomeOK
  <2>3. FrameOK' /\ frame'.at = "contract"
    BY <1>3 DEF FrameOK, NoFrame
  <2> QED
    BY <1>3, <2>2, <2>3 DEF IInv
<1>8. S!Answer
  <2> DEFINE c == [call EXCEPT !.args = Values(call.args, blocks)]
             o == [outcome EXCEPT !.results = Values(outcome.results, blocks)]
  <2>1. c = Question /\ c.method = m
    BY <1>0, <1>1 DEF Calling, Question
  <2>2. c # S!Idle
    <3>1. "none" \notin S!Methods
      BY SMTT(30) DEF S!Methods, S!StarknetSyscallHandler
    <3> QED
      BY <1>4, <2>1, <3>1 DEF S!Idle
  <2>3. c' = S!Idle
    <3>1. Values(<<>>, blocks') = <<>>
      BY Empty, ValuesAreSequence, EmptyIs
    <3> QED
      BY <1>3, <3>1 DEF S!Idle
  <2>4. o' = [asked |-> c, given |-> gas, branch |-> frame.result.tag, results |-> r]
    BY <1>3, <1>4, <2>1
  <2>5. S!Reply(frame.result.tag, r, frame.gas)
    BY <1>3, <1>6, <2>3, <2>4 DEF S!Reply
  <2> HIDE DEF r
  <2>6. S!Answer
    BY <1>4, <2>1, <2>2, <2>5 DEF S!Answer
  <2> QED
    BY <2>6
<1> QED
  BY <1>7, <1>8

-----------------------------------------------------------------------------
(* The theorems.                                                           *)

LEMMA NextStep ==
  ASSUME IInv, [Next]_vars
  PROVE  IInv' /\ [S!Next]_(S!vars)
<1>1. ASSUME NEW m \in S!Methods, NEW p \in S!Arguments(m, held), Call(m, p)
      PROVE  IInv' /\ S!Next
  BY <1>1, CallStep DEF S!Next
<1>2. CASE Wrap
  BY <1>2, WrapStep
<1>3. CASE Return
  BY <1>3, ReturnStep DEF S!Next
<1>4. CASE UNCHANGED vars
  <2>1. IInv'
    BY <1>4
    DEF vars, IInv, MemoryOK, OutcomeOK, FrameOK, Calling, Passing, Answered, Question, Stored
  <2>2. UNCHANGED S!vars
    BY <1>4 DEF vars, S!vars
  <2> QED
    BY <2>1, <2>2
<1> QED
  BY <1>1, <1>2, <1>3, <1>4 DEF Next

LEMMA InitAbstract == Init => S!Init
<1> SUFFICES ASSUME Init PROVE S!Init
  OBVIOUS
<1>1. gas = InitialGas /\ held = InputWords /\ blocks = InputBlocks /\ call = S!Idle
      /\ outcome = S!Nothing
  BY DEF Init
<1>2. Values(<<>>, blocks) = <<>>
  BY Empty, ValuesAreSequence, EmptyIs
<1> QED
  BY <1>1, <1>2 DEF S!Init, S!Idle, S!Nothing

LEMMA Inductive == Spec => []IInv
<1>1. IInv /\ [Next]_vars => IInv'
  BY NextStep
<1> QED
  BY <1>1, InitInv, PTL DEF Spec

\* Compiled system calls implement SyscallSpec (libfuncs/starknet.rs, the table of
\* callbacks, the wrappers of starknet.rs): the handler's method, its arguments, the
\* branch, the results and the gas survive, and nothing the contract holds changes.
THEOREM SyscallsReachHandler == Spec => SyscallIsHandlerCall
<1>1. IInv /\ [Next]_vars => [S!Next]_(S!vars)
  BY NextStep
<1> QED
  BY <1>1, InitAbstract, Inductive, PTL DEF Spec, SyscallIsHandlerCall, S!Spec

\* The interpreter asks the handler what compiled code asks (sierra-emu's vm/starknet.rs).
THEOREM AsksTheSame == Spec => []SameQuestion
<1>1. IInv => SameQuestion
  <2> SUFFICES ASSUME IInv, Asking, Interpreted(call.method)
               PROVE  frame.asked = InterpreterAsks
    BY DEF SameQuestion
  <2> DEFINE m == call.method
             e == EvalOf(m)
  <2>1. Calling /\ frame.asked = Question
    BY DEF IInv, Asking, Answered
  <2>2. e.method = m /\ EvalAgreed(e)
    BY EvalIs, EvalAgreement
  <2>3. IsSequence(call.args) /\ DOMAIN call.args = DOMAIN Takes(m)
    BY <2>1 DEF Calling, WordsIn
  <2>4. DOMAIN call.args = 1..Len(call.args) /\ Len(call.args) \in Nat
    BY <2>3, SequenceDomain
  <2> HIDE DEF e
  <2>5. DOMAIN e.asks = DOMAIN call.args
    BY <2>2, <2>3 DEF EvalAgreed
  <2>6. \A i \in DOMAIN e.asks : call.args[e.asks[i] - 1] = call.args[i]
    <3> SUFFICES ASSUME NEW i \in DOMAIN e.asks PROVE e.asks[i] - 1 = i
      OBVIOUS
    <3> QED
      BY <2>2, <2>4, <2>5 DEF EvalAgreed
  <2>7. InterpreterAsks
          = [method |-> m,
             args |-> [i \in DOMAIN e.asks |-> ValueOf(call.args[e.asks[i] - 1], blocks)]]
    BY <2>2 DEF InterpreterAsks, e
  <2>8. [i \in DOMAIN e.asks |-> ValueOf(call.args[e.asks[i] - 1], blocks)]
          = Values(call.args, blocks)
    BY <2>5, <2>6 DEF Values
  <2> QED
    BY <2>1, <2>7, <2>8 DEF Question
<1> QED
  BY <1>1, Inductive, PTL

\* The kinds of what the compiled code loads.
LEMMA LoadedKinds ==
  ASSUME Calling, Answered
  PROVE  CompiledContinues
           = Branch(frame.result.tag,
                    IF frame.result.tag = 0 THEN Gives(call.method) ELSE <<"felts">>)
<1>1. execute_syscall(build[call.method]) = frame.result.words
  BY LoadedIsAnswer
<1>2. [i \in DOMAIN frame.result.words |-> frame.result.words[i][1]]
        = IF frame.result.tag = 0 THEN Gives(call.method) ELSE <<"felts">>
  BY DEF Answered, Stored
<1> QED
  BY <1>1, <1>2 DEF CompiledContinues

\* Compiled code loads, by the types of its branches from the union of the wrapper, the
\* values the interpreter makes of the answer, in the same branch (sierra-emu's
\* vm/starknet.rs, outside the gaps that are listed).
THEOREM ContinuesTheSame == Spec => []SameContinuation
<1>1. IInv => SameContinuation
  <2> SUFFICES ASSUME IInv, Asking, Interpreted(call.method),
                      frame.result.tag = 1 => call.method \notin ErrorShapeGaps
               PROVE  InterpreterContinues = CompiledContinues
    BY DEF SameContinuation
  <2> DEFINE e == EvalOf(call.method)
  <2>1. Calling /\ Answered
    BY DEF IInv, Asking
  <2>2. frame.result.tag \in {0, 1}
    BY <2>1 DEF Answered
  <2>3. /\ e.method = call.method /\ e.ok = Returns(Gives(e.method))
        /\ e.method \notin ErrorShapeGaps => e.err = Fails
    BY EvalIs, EvalAgreement DEF EvalAgreed
  <2> HIDE DEF e
  <2>4. InterpreterContinues = IF frame.result.tag = 0 THEN e.ok ELSE e.err
    BY DEF InterpreterContinues, e
  <2> QED
    BY <2>1, <2>2, <2>3, <2>4, LoadedKinds DEF Returns, Fails
<1> QED
  BY <1>1, Inductive, PTL
=============================================================================
