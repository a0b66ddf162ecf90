------------------------- MODULE IntegerEmulator -------------------------
(***************************************************************************)
(* What sierra-emu, the reference interpreter, does for the libfuncs of    *)
(* integers, bounded integers, casts and ranges, felts, bytes31, booleans, *)
(* u256, u512 and Starknet addresses: operators from the values of the     *)
(* operands to the branch taken and the values of the results.             *)
(***************************************************************************)
EXTENDS MachineIntegers, Bitwise

\* unwrap() of a value that must have the type asked for.
None == "panic"
get_value_from_integer(ty, v) ==
  IF ty.kind = "felt" THEN v % PRIME
  ELSE IF is_bounded_int(ty) \/ v \in ValuesOf(ty) THEN v ELSE None

-----------------------------------------------------------------------------
(* vm/int.rs                                                               *)

eval_const(ty, c) == Br(0, <<get_value_from_integer(ty, c)>>)

eval_bitwise(ty, lhs, rhs) == Br(0, <<lhs & rhs, lhs | rhs, lhs ^^ rhs>>)

eval_diff(ty, lhs, rhs) ==
  IF lhs < rhs THEN Br(1, <<get_value_from_integer(ty, ty.upper + lhs - rhs)>>)
  ELSE Br(0, <<get_value_from_integer(ty, lhs - rhs)>>)

eval_divmod(ty, lhs, rhs) == Br(0, <<lhs \div rhs, lhs % rhs>>)

eval_equal(lhs, rhs) == Br(IF lhs = rhs THEN 1 ELSE 0, <<>>)

eval_from_felt(ty, x) ==
  LET value == IF x > HALF_PRIME THEN x - PRIME ELSE x
  IN IF value \in ValuesOf(ty) THEN Br(0, <<value>>) ELSE Br(1, <<>>)

eval_u128_from_felt(x) ==
  IF x < 2 ^ WIDE THEN Br(0, <<x>>) ELSE Br(1, <<x \div 2 ^ WIDE, x % 2 ^ WIDE>>)

eval_is_zero(x) == IF x = 0 THEN Br(0, <<>>) ELSE Br(1, <<x>>)

\* overflowing_add and overflowing_sub of the Rust type: the result wrapped into it.
apply_overflowing_op_for_type(ty, op, lhs, rhs) ==
  LET exact == IF op = "add" THEN lhs + rhs ELSE lhs - rhs
  IN [result |-> ((exact - ty.lower) % size(integer_range(ty))) + ty.lower,
      overflow |-> exact \notin ValuesOf(ty)]

eval_operation(ty, op, lhs, rhs) ==
  LET done == apply_overflowing_op_for_type(ty, op, lhs, rhs)
  IN Br(IF done.overflow THEN 1 ELSE 0, <<done.result>>)

eval_square_root(ty, x) ==
  Br(0, <<get_value_from_integer(ty, Max({r \in 0..x : r * r <= x}))>>)

eval_to_felt(x) == Br(0, <<x % PRIME>>)
eval_widemul(ty, lhs, rhs) == Br(0, <<get_value_from_integer(ty, lhs * rhs)>>)

eval_guarantee_mul(lhs, rhs) == Br(0, <<(lhs * rhs) \div 2 ^ WIDE, (lhs * rhs) % 2 ^ WIDE>>)
eval_mul_guarantee_verify == Br(0, <<>>)

eval_byte_reverse(x) ==
  LET n == WIDE \div BYTE
      byte(i) == (x \div 2 ^ (BYTE * i)) % 2 ^ BYTE
  IN Br(0, <<FoldSet(LAMBDA i, sum : sum + byte(i) * 2 ^ (BYTE * (n - 1 - i)), 0, 0..(n - 1))>>)

-----------------------------------------------------------------------------
(* vm/bounded_int.rs                                                       *)

eval_add(lhs, rhs) == Br(0, <<lhs + rhs>>)
eval_sub(lhs, rhs) == Br(0, <<lhs - rhs>>)
eval_mul(lhs, rhs) == Br(0, <<lhs * rhs>>)

eval_div_rem(quo, rem, lhs, rhs) ==
  IF lhs \div rhs \in ValuesOf(quo) /\ lhs % rhs \in ValuesOf(rem)
  THEN Br(0, <<lhs \div rhs, lhs % rhs>>) ELSE Br(0, <<None, None>>)

eval_constrain(boundary, x) == Br(IF x < boundary THEN 0 ELSE 1, <<x>>)
eval_bounded_is_zero(x) == IF x = 0 THEN Br(0, <<>>) ELSE Br(1, <<x>>)
eval_wrap_non_zero(x) == Br(0, <<x>>)
eval_trim(trimmed, x) == IF x = trimmed THEN Br(0, <<>>) ELSE Br(1, <<x>>)
eval_guarantee_verify == Br(0, <<>>)
eval_u128_to_u32_guarantees(x) == Br(0, [i \in 1..4 |-> (x \div 2 ^ (LIMB * (i - 1))) % 2 ^ LIMB])

-----------------------------------------------------------------------------
(* vm/cast.rs and vm/int_range.rs                                          *)

eval_downcast(to, dst, x) ==
  IF x \in ValuesOf(to) THEN Br(0, <<get_value_from_integer(dst, x)>>) ELSE Br(1, <<>>)
eval_upcast(dst, x) == Br(0, <<get_value_from_integer(dst, x)>>)

eval_try_new(x, y) == IF x < y THEN Br(0, <<x, y>>) ELSE Br(1, <<y, y>>)
eval_pop_front(ty, x, y) ==
  IF x < y THEN Br(1, <<get_value_from_integer(ty, x + 1), y, x>>) ELSE Br(0, <<>>)

-----------------------------------------------------------------------------
(* vm/felt252.rs, vm/bytes31.rs, vm/bool.rs                                *)

eval_felt_operation(op, lhs, rhs) ==
  Br(0, <<IF op = "add" THEN (lhs + rhs) % PRIME
          ELSE IF op = "sub" THEN (lhs - rhs) % PRIME
          ELSE IF op = "mul" THEN (lhs * rhs) % PRIME
          ELSE CHOOSE q \in 0..(PRIME - 1) : (q * rhs) % PRIME = lhs>>)
eval_felt_const(c) == Br(0, <<c % PRIME>>)
eval_felt_is_zero(x) == IF x = 0 THEN Br(0, <<>>) ELSE Br(1, <<x>>)

eval_bytes31_const(c) == Br(0, <<c % PRIME>>)
eval_bytes31_from_felt(x) == IF x <= 2 ^ (FELT - 4) - 1 THEN Br(0, <<x>>) ELSE Br(1, <<>>)
eval_bytes31_to_felt252(x) == Br(0, <<x>>)

Index(b) == IF b THEN 1 ELSE 0
eval_and(lhs, rhs) == Br(0, <<Index(lhs # 0 /\ rhs # 0)>>)
eval_or(lhs, rhs) == Br(0, <<Index(lhs # 0 \/ rhs # 0)>>)
eval_xor(lhs, rhs) == Br(0, <<Index((lhs # 0) # (rhs # 0))>>)
eval_not(x) == Br(0, <<Index(x = 0)>>)
eval_bool_to_felt252(x) == Br(0, <<x>>)

-----------------------------------------------------------------------------
(* vm/uint256.rs, vm/uint512.rs                                            *)

u256_to_biguint(lo, hi) == lo + hi * 2 ^ WIDE
u256_to_value(v) == <<v % 2 ^ WIDE, v \div 2 ^ WIDE>>
u516_to_value(v) == u256_to_value(v % 2 ^ (2 * WIDE)) \o u256_to_value(v \div 2 ^ (2 * WIDE))

eval_u256_divmod(lhs, rhs) ==
  LET l == u256_to_biguint(lhs[1], lhs[2])
      r == u256_to_biguint(rhs[1], rhs[2])
  IN Br(0, u256_to_value(l \div r) \o u256_to_value(l % r))

eval_u256_is_zero(x) == IF x[1] = 0 /\ x[2] = 0 THEN Br(0, <<>>) ELSE Br(1, x)

eval_u256_square_root(x) ==
  LET v == u256_to_biguint(x[1], x[2])
  IN Br(0, <<Max({r \in 0..(2 ^ WIDE - 1) : r * r <= v})>>)

\* modinv: none if the two have a common divisor; 0 modulo 1.
eval_inv_mod_n(a, n) ==
  LET x == u256_to_biguint(a[1], a[2])
      modulo == u256_to_biguint(n[1], n[2])
      inverses == {r \in 1..(modulo - 1) : (x * r) % modulo = 1}
  IN IF inverses = {} THEN Br(1, <<>>) ELSE Br(0, u256_to_value(Min(inverses)))

eval_u512_divmod(lhs, rhs) ==
  LET l == u256_to_biguint(lhs[1], lhs[2]) + u256_to_biguint(lhs[3], lhs[4]) * 2 ^ (2 * WIDE)
      r == u256_to_biguint(rhs[1], rhs[2])
  IN Br(0, u516_to_value(l \div r) \o u256_to_value(l % r))

-----------------------------------------------------------------------------
(* vm/starknet.rs                                                          *)

eval_address_const(c) == Br(0, <<c % PRIME>>)
eval_address_try_from_felt(x) == IF x < 2 ^ (FELT - 1) THEN Br(0, <<x>>) ELSE Br(1, <<>>)
eval_address_to_felt(x) == Br(0, <<x>>)
eval_storage_base_address_from_felt(x) == Br(0, <<x>>)
eval_storage_address_from_base(x) == Br(0, <<x>>)
eval_storage_address_from_base_and_offset(x, offset) == Br(0, <<(x + offset) % PRIME>>)
=============================================================================
