---------------------------- MODULE MCSyscallAbi ----------------------------
(***************************************************************************)
(* Instances of SyscallAbi for TLC: two values of every kind a call can    *)
(* confuse, arrays that are empty, whole and slices, two results collected. *)
(***************************************************************************)
EXTENDS SyscallEmulator

Arr(kind, p, s, u) == <<kind, [ptr |-> p, since |-> s, until |-> u]>>

MCInputBlocks == << <<1, 2>>, 1, 2, 1 >>

MCInputWords == <<
  <<"felt", 1>>, <<"felt", 2>>, <<"u32", 0>>, <<"u64", 1>>, <<"bool", 1>>,
  <<"u256", 1>>, <<"u256", 2>>, <<"k1", 1>>, <<"k1", 2>>, <<"r1", 1>>, <<"r1", 2>>,
  Arr("felts", 0, 0, 0), Arr("felts", 1, 1, 2), Arr("u64s", 1, 0, 2),
  <<"sha256", 2>>, <<"sha512", 2>>, <<"block256", 3>>, <<"block512", 4>>>>

MCAnswers(kind) ==
  IF kind \in ArrayKinds THEN {<<kind, <<>>>>, <<kind, <<2, 1>>>>}
  ELSE IF kind = "u256" THEN {<<kind, 1>>, <<kind, 3>>} ELSE {<<kind, 3>>}
=============================================================================
