------------------------- MODULE IntegerLibfuncs -------------------------
(***************************************************************************)
(* The code generated for the libfuncs of integers, bounded integers,      *)
(* casts and integer ranges: operators from the words of the operands to   *)
(* the branch taken and the words of the results.  Range check and bitwise *)
(* counters are left out.                                                  *)
(***************************************************************************)
EXTENDS MachineIntegers, Bitwise

-----------------------------------------------------------------------------
(* int.rs                                                                  *)

build_const(ty, c) == Br(0, <<Const(c, Width(ty))>>)

build_bitwise(ty, lhs, rhs) == Br(0, <<lhs & rhs, lhs ^^ rhs, lhs | rhs>>)

\* llvm.intr.bswap
Bytes(x) == [i \in 1..(WIDE \div BYTE) |-> trunci(shrui(x, BYTE * (i - 1)), BYTE)]
build_byte_reverse(x) ==
  LET b == Bytes(x)
  IN Br(0, <<FoldSet(LAMBDA i, sum : sum + b[i] * 2 ^ (WIDE - BYTE * i), 0, DOMAIN b)>>)

build_diff(ty, lhs, rhs) ==
  Br(IF slt(lhs, rhs, Width(ty)) THEN 1 ELSE 0, <<subi(lhs, rhs, Width(ty))>>)

build_divmod(lhs, rhs) == Br(0, <<lhs \div rhs, lhs % rhs>>)

build_equal(lhs, rhs) == Br(IF lhs = rhs THEN 1 ELSE 0, <<>>)

\* The field's upper end is negative as a signed word: a felt is compared as one with the
\* bounds of a signed type, and the prime subtracted from it if it is negative.
build_from_felt252(ty, x) ==
  LET bound(v) == Const(IF v < 0 THEN PRIME - Abs(v) ELSE v, FELT)
      unsigned == x < Const(ty.upper, FELT)
      signed == /\ ~slt(x, bound(ty.lower), FELT)
                /\ slt(x, bound(ty.upper), FELT)
      value == IF ty.lower # 0 /\ slt(x, 0, FELT) THEN subi(x, Const(PRIME, FELT), FELT) ELSE x
  IN IF (ty.lower = 0 /\ unsigned) \/ (ty.lower # 0 /\ signed)
     THEN Br(0, <<trunci(value, Width(ty))>>) ELSE Br(1, <<>>)

\* Low and high words of the full product, handed on high first.
build_guarantee_mul(lhs, rhs) == Br(0, <<shrui(lhs * rhs, WIDE), trunci(lhs * rhs, WIDE)>>)
build_mul_guarantee_verify == Br(0, <<>>)

build_int_is_zero(x) == IF x = 0 THEN Br(0, <<>>) ELSE Br(1, <<x>>)

\* With overflow, a signed result has the wrong sign: it tells which end was passed.
build_operation_SignSwapped(ty, op, lhs, rhs) ==
  LET w == Width(ty)
      value(x) == ValueOf(ty, x)
      exact == IF op = "add" THEN value(lhs) + value(rhs) ELSE value(lhs) - value(rhs)
      result == exact % 2 ^ w
      overflow == exact # value(result)
  IN IF ~overflow THEN Br(0, <<result>>)
     ELSE IF ty.lower = 0 \/ slt(result, 0, w) THEN Br(1, <<result>>) ELSE Br(2, <<result>>)
build_operation(ty, op, lhs, rhs) ==
  LET w == Width(ty)
      value(x) == ValueOf(ty, x)
      exact == IF op = "add" THEN value(lhs) + value(rhs) ELSE value(lhs) - value(rhs)
      result == exact % 2 ^ w
      overflow == exact # value(result)
  IN IF ~overflow THEN Br(0, <<result>>)
     ELSE IF ty.lower = 0 \/ ~slt(result, 0, w) THEN Br(1, <<result>>) ELSE Br(2, <<result>>)

\* floor(sqrt(value)), in half the bits but for the smallest type.
SqrtWidth(w) == IF w = Min(Widths) THEN w ELSE w \div 2
isqrt(x) == CHOOSE r \in 0..x : r * r <= x /\ (r + 1) * (r + 1) > x
build_square_root(ty, x) == Br(0, <<trunci(isqrt(x), SqrtWidth(Width(ty)))>>)

build_to_felt252(ty, x) ==
  LET w == Width(ty)
      absolute == IF slt(x, 0, w) THEN subi(0, x, w) ELSE x
  IN Br(0, <<IF is_signed_repr(ty) /\ slt(x, 0, w) THEN subi(Const(PRIME, FELT), absolute, FELT)
             ELSE x>>)

build_u128s_from_felt252(x) ==
  LET lo == trunci(x, WIDE)
      hi == trunci(shrui(x, WIDE), WIDE)
  IN IF hi # 0 THEN Br(1, <<hi, lo>>) ELSE Br(0, <<lo>>)

build_wide_mul(ty, lhs, rhs) ==
  LET w == 2 * Width(ty)
      ext(x) == IF ty.lower = 0 THEN x ELSE extsi(x, Width(ty), w)
  IN Br(0, <<muli(ext(lhs), ext(rhs), w)>>)

-----------------------------------------------------------------------------
(* bounded_int.rs                                                          *)

repr_bias(ty) == IF is_bounded_int(ty) THEN ty.lower ELSE 0

\* From one representation to another that is adjustment higher.
adjust(x, adjustment, w) ==
  IF adjustment > 0 THEN subi(x, Const(adjustment, w), w)
  ELSE addi(x, Const(-adjustment, w), w)

resize(x, from, to) == IF from > to THEN trunci(x, to) ELSE x

widen_operand_to_compute(ty, x, w) ==
  IF ty.lower >= 0 \/ is_bounded_int(ty) THEN x ELSE extsi(x, Width(ty), w)

\* The result of an operation done at a common width, as the result type stores it.
Narrow(dst, x, w) == resize(adjust(x, repr_bias(dst), w), w, Width(dst))
\* The operand's value, at that width.
Widen(ty, x, w) == adjust(widen_operand_to_compute(ty, x, w), -repr_bias(ty), w)

build_add(l, r, dst, lhs, rhs) ==
  LET adjustment == repr_bias(dst) - (repr_bias(l) + repr_bias(r))
      w == Max({Width(l), Width(r), Bits(adjustment)}) + 1
      sum == addi(widen_operand_to_compute(l, lhs, w), widen_operand_to_compute(r, rhs, w), w)
  IN Br(0, <<resize(adjust(sum, adjustment, w), w, Width(dst))>>)

build_sub(l, r, dst, lhs, rhs) ==
  LET adjustment == repr_bias(dst) - (repr_bias(l) - repr_bias(r))
      w == Max({Width(l), Width(r), Bits(adjustment)}) + 1
      difference == subi(widen_operand_to_compute(l, lhs, w), widen_operand_to_compute(r, rhs, w), w)
  IN Br(0, <<resize(adjust(difference, adjustment, w), w, Width(dst))>>)

MulRange(l, r, dst) ==
  [lower |-> Min({l.lower, r.lower, dst.lower, 0}), upper |-> Max({l.upper, r.upper, dst.upper})]
build_mul(l, r, dst, lhs, rhs) ==
  LET w == zero_based_bit_width(MulRange(l, r, dst))
  IN Br(0, <<Narrow(dst, muli(Widen(l, lhs, w), Widen(r, rhs, w), w), w)>>)

build_div_rem(l, r, div, rem, lhs, rhs) ==
  LET w == zero_based_bit_width([lower |-> 0, upper |-> Max({l.upper, r.upper})])
      a == Widen(l, lhs, w)
      b == Widen(r, rhs, w)
  IN Br(0, <<Narrow(div, a \div b, w), Narrow(rem, a % b, w)>>)

\* From the representation of a type to that of a part of it.
Rebias(src, dst, x) ==
  resize(adjust(x, repr_bias(dst) - repr_bias(src), Width(src)), Width(src), Width(dst))

build_constrain(src, boundary, low, high, x) ==
  LET w == Width(src)
      bound == Const(boundary - repr_bias(src), w)
      is_lower == IF is_signed_repr(src) THEN slt(x, bound, w) ELSE x < bound
  IN IF is_lower THEN Br(0, <<Rebias(src, low, x)>>) ELSE Br(1, <<Rebias(src, high, x)>>)

build_trim(src, trimmed, dst, x) ==
  IF x = Const(trimmed - repr_bias(src), Width(src)) THEN Br(0, <<>>)
  ELSE Br(1, <<Rebias(src, dst, x)>>)

build_bounded_is_zero(src, x) ==
  IF x = Const(-repr_bias(src), Width(src)) THEN Br(0, <<>>) ELSE Br(1, <<x>>)

build_guarantee_verify == Br(0, <<>>)
build_u128_to_u32_guarantees(x) ==
  Br(0, [i \in 1..4 |-> trunci(shrui(x, LIMB * (i - 1)), LIMB)])
build_wrap_non_zero(x) == Br(0, <<x>>)

-----------------------------------------------------------------------------
(* cast.rs                                                                 *)

signed_to_felt252_repr(x, w) == IF slt(x, 0, w) THEN addi(x, Const(PRIME, w), w) ELSE x

\* A felt is read as negative where the target has negative values.
DowncastRange(src, dst) ==
  IF src = Felt /\ dst.lower < 0
  THEN IF dst.upper <= 0 THEN [lower |-> -PRIME + 1, upper |-> 1]
       ELSE [lower |-> -HALF_PRIME, upper |-> HALF_PRIME + 1]
  ELSE integer_range(src)

\* The range a downcast is checked against comes from the Sierra compiler: that of the
\* target, which for a felt may list the negative readings too.
ToRanges(dst) ==
  {integer_range(dst)} \cup (IF dst = Felt THEN {[lower |-> -PRIME + 1, upper |-> PRIME]} ELSE {})

\* The width values of both types are compared at.
ComputeWidth(src, dst) ==
  Max({zero_based_bit_width(DowncastRange(src, dst)), zero_based_bit_width(integer_range(dst))})

build_downcast(src, to, dst, x) ==
  LET from == DowncastRange(src, dst)
      w == ComputeWidth(src, dst)
      is_signed == from.lower < 0
      extended == IF w > repr_bit_width(from) /\ is_signed /\ src.kind = "sint"
                  THEN extsi(x, Width(src), w) ELSE x
      negative == extended > (IF from.upper = 1 THEN 0 ELSE HALF_PRIME)
      value == IF is_signed /\ src = Felt
               THEN IF negative THEN subi(extended, Const(PRIME, w), w) ELSE extended
               ELSE IF is_bounded_int(src) THEN addi(extended, Const(src.lower, w), w)
               ELSE extended
      below(y, z) == IF is_signed THEN slt(y, z, w) ELSE y < z
      in_bounds == /\ to.lower > from.lower => ~below(value, Const(to.lower, w))
                   /\ to.upper < from.upper => below(value, Const(to.upper, w))
      offset == IF is_bounded_int(dst) THEN subi(value, Const(dst.lower, w), w) ELSE value
      converted == IF dst = Felt /\ is_signed THEN signed_to_felt252_repr(offset, w) ELSE offset
  IN IF src = dst THEN Br(0, <<x>>)
     ELSE IF in_bounds THEN Br(0, <<trunci(converted, Width(dst))>>) ELSE Br(1, <<>>)

\* Upcasts are compiled for targets that contain the source.
CanUpcast(src, dst) ==
  \/ dst.lower <= src.lower /\ dst.upper >= src.upper
  \/ dst = Felt /\ -HALF_PRIME <= src.lower /\ HALF_PRIME + 1 >= src.upper

build_upcast(src, dst, x) ==
  LET w == Max({Width(src), Width(dst)})
      extended == IF Width(dst) > Width(src) /\ is_signed_repr(src)
                  THEN extsi(x, Width(src), w) ELSE x
      offset == (IF is_bounded_int(src) THEN src.lower ELSE 0)
                - (IF is_bounded_int(dst) THEN dst.lower ELSE 0)
      value == addi(extended, Const(offset, w), w)
  IN IF src = dst THEN Br(0, <<x>>)
     ELSE Br(0, <<IF dst = Felt /\ src.lower < 0 THEN signed_to_felt252_repr(value, w) ELSE value>>)
-----------------------------------------------------------------------------
(* int_range.rs                                                            *)

\* A range that is not one becomes the empty range at its end.
build_int_range_try_new(ty, x, y) ==
  LET is_valid == IF is_signed_repr(ty) THEN ~slt(y, x, Width(ty)) ELSE x <= y
  IN Br(IF is_valid THEN 0 ELSE 1, <<IF is_valid THEN x ELSE y, y>>)

build_int_range_pop_front(ty, x, y) ==
  LET is_valid == IF is_signed_repr(ty) THEN slt(x, y, Width(ty)) ELSE x < y
  IN IF is_valid THEN Br(1, <<addi(x, 1, Width(ty)), y, x>>) ELSE Br(0, <<>>)
=============================================================================
