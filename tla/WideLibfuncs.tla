--------------------------- MODULE WideLibfuncs --------------------------
(***************************************************************************)
(* The code generated for the libfuncs of felts, bytes31, booleans, u256,  *)
(* u512 and Starknet addresses, on words: a u256 is the two words of its   *)
(* struct, low word first, a u512 four.                                    *)
(***************************************************************************)
EXTENDS MachineIntegers, Bitwise

-----------------------------------------------------------------------------
(* felt252.rs and the runtime functions it calls                           *)

\* lhs * rhs^-1, through the inverse the field gives a nonzero felt.
FieldInverse(x) == CHOOSE y \in 1..(PRIME - 1) : (x * y) % PRIME = 1
cairo_native__felt252_mul(lhs, rhs) == (lhs * rhs) % PRIME
cairo_native__felt252_div(lhs, rhs) == (lhs * FieldInverse(rhs)) % PRIME

\* At twice the width of WIDE, one reduction brings a sum or a difference into the field.
build_binary_operation(op, lhs, rhs) ==
  LET w == 2 * WIDE
      sum == addi(lhs, rhs, w)
      difference == subi(lhs, rhs, w)
      result == IF op = "add" THEN IF sum >= PRIME THEN subi(sum, PRIME, w) ELSE sum
                ELSE IF op = "sub" THEN IF lhs < rhs THEN addi(difference, PRIME, w) ELSE difference
                ELSE IF op = "mul" THEN cairo_native__felt252_mul(lhs, rhs)
                ELSE cairo_native__felt252_div(lhs, rhs)
  IN Br(0, <<trunci(result, FELT)>>)

\* Constants of felts and of addresses may be negative in the program.
felt_to_unsigned(c) == IF c < 0 THEN c + PRIME ELSE c
build_felt_const(c) == Br(0, <<Const(felt_to_unsigned(c), FELT)>>)
build_felt_is_zero(x) == IF x = 0 THEN Br(0, <<>>) ELSE Br(1, <<x>>)

-----------------------------------------------------------------------------
(* bytes31.rs, bool.rs                                                     *)

Bytes31 == Uint(FELT - 4)

build_bytes31_const(c) == Br(0, <<Const(c, Width(Bytes31))>>)
build_bytes31_to_felt252(x) == Br(0, <<x>>)
build_bytes31_from_felt252(x) ==
  IF x <= 2 ^ (FELT - 4) - 1 THEN Br(0, <<trunci(x, Width(Bytes31))>>) ELSE Br(1, <<>>)

\* On the tags of the two variants, which have no data.
build_bool_binary(op, lhs, rhs) ==
  Br(0, <<IF op = "and" THEN lhs & rhs ELSE IF op = "xor" THEN lhs ^^ rhs ELSE lhs | rhs>>)
build_bool_not(x) == Br(0, <<x ^^ 1>>)
build_bool_to_felt252(x) == Br(0, <<x>>)

-----------------------------------------------------------------------------
(* uint256.rs, uint512.rs                                                  *)

Join(words) == FoldSet(LAMBDA i, sum : sum + words[i] * 2 ^ (WIDE * (i - 1)), 0, DOMAIN words)
Split(x, n) == [i \in 1..n |-> trunci(shrui(x, WIDE * (i - 1)), WIDE)]

build_u256_divmod(lhs, rhs) ==
  Br(0, Split(Join(lhs) \div Join(rhs), 2) \o Split(Join(lhs) % Join(rhs), 2))

build_u256_is_zero(x) == IF x[1] = 0 /\ x[2] = 0 THEN Br(0, <<>>) ELSE Br(1, x)

cairo_native__u256_square_root(x) == CHOOSE r \in 0..Join(x) : r * r <= Join(x) /\ Join(x) < (r + 1) * (r + 1)
build_u256_square_root(x) == Br(0, <<cairo_native__u256_square_root(x)>>)

\* The extended Euclidean algorithm on words of one width: the greatest common divisor and
\* the coefficient of a, which wraps around when it is negative.
RECURSIVE EgcdLoop(_, _, _, _, _)
EgcdLoop(w, old_r, new_r, old_s, new_s) ==
  LET quotient == old_r \div new_r
      next_new_r == subi(old_r, muli(quotient, new_r, w), w)
      next_new_s == subi(old_s, muli(quotient, new_s, w), w)
  IN IF next_new_r = 0 THEN [gcd |-> new_r, coefficient |-> new_s]
     ELSE EgcdLoop(w, new_r, next_new_r, new_s, next_new_s)

egcd(w, a, b) ==
  LET end == EgcdLoop(w, b, a, 0, 1)
  IN [end EXCEPT !.coefficient = IF slt(@, 0, w) THEN addi(@, b, w) ELSE @]

build_u256_guarantee_inv_mod_n(a, n) ==
  LET result == egcd(2 * WIDE, Join(a), Join(n))
      inv == result.coefficient % Join(n)
  IN IF Join(a) # 0 /\ result.gcd = 1 /\ inv # 0 THEN Br(0, Split(inv, 2)) ELSE Br(1, <<>>)

build_divmod_u256(lhs, rhs) ==
  Br(0, Split(Join(lhs) \div Join(rhs), 4) \o Split(Join(lhs) % Join(rhs), 2))

-----------------------------------------------------------------------------
(* starknet.rs: class hashes, contract and storage addresses are felts     *)
(* below 2^251; a storage base leaves room for an offset of a byte.        *)

ADDRESS_LIMIT == 2 ^ (FELT - 1)
Address == [kind |-> "felt", lower |-> 0, upper |-> ADDRESS_LIMIT]
StorageBase == [kind |-> "felt", lower |-> 0, upper |-> ADDRESS_LIMIT - 2 ^ BYTE]

build_address_const(c) == Br(0, <<Const(felt_to_unsigned(c), FELT)>>)
build_address_try_from_felt252(x) == IF x < ADDRESS_LIMIT THEN Br(0, <<x>>) ELSE Br(1, <<>>)
build_address_to_felt252(x) == Br(0, <<x>>)
build_storage_base_address_from_felt252(x) ==
  LET limit == ADDRESS_LIMIT - 2 ^ BYTE
  IN Br(0, <<IF x < limit THEN x ELSE subi(x, limit, FELT)>>)
build_storage_address_from_base_and_offset(x, offset) == Br(0, <<addi(x, offset, FELT)>>)
=============================================================================
