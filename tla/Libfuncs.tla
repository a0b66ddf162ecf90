---------------------------- MODULE Libfuncs -----------------------------
(***************************************************************************)
(* One call of a libfunc on any operands its types admit, as compiled code *)
(* computes it on words and as the interpreter computes it on values.  The *)
(* operands are the words of values of their types: that results are words *)
(* of values of theirs makes any sequence of calls well defined.           *)
(***************************************************************************)
EXTENDS IntegerLibfuncs, CircuitCalls

Emu == INSTANCE IntegerEmulator
V == INSTANCE ValueJourneys

CONSTANTS
  CastRanges, \* ranges of the bounded integers that are cast, as Ranges
  Limbs,      \* words the operands of u256 and u512 are made of
  Samples,    \* composite types, each with a value of it: <<type, value>>
  Shapes      \* what else a function takes and returns: [before, builtins]

ASSUME CastRangeAssumption ==
  \A r \in CastRanges : r[1] \in Int /\ r[2] \in Int /\ r[1] < r[2] /\ r[2] - r[1] < 2 ^ WIDE
ASSUME LimbAssumption == Limbs \subseteq 0..(2 ^ WIDE - 1)

NonZero(ty, x) == ValueOf(ty, x) # 0

Unsigned == {ty \in Integers : ty.lower = 0}
Signeds == Integers \ Unsigned
U128 == Uint(WIDE)

-----------------------------------------------------------------------------
(* Integers.                                                               *)

IntConst == \E ty \in Integers, c \in UNION {ValuesOf(t) : t \in Integers} :
  c \in ValuesOf(ty) /\ Done("const", <<c>>, build_const(ty, c), Emu!eval_const(ty, c), <<<<ty>>>>)

Bitwise == \E ty \in Unsigned :
  Binary("bitwise", ty, ty, LAMBDA x, y : build_bitwise(ty, x, y),
         LAMBDA x, y : Emu!eval_bitwise(ty, x, y), <<<<ty, ty, ty>>>>)

\* The difference of two signed integers is unsigned.
Diff == \E ty \in Signeds :
  LET out == Uint(Width(ty))
  IN Binary("diff", ty, ty, LAMBDA x, y : build_diff(ty, x, y),
            LAMBDA x, y : Emu!eval_diff(out, x, y), <<<<out>>, <<out>>>>)

Divmod == \E ty \in Unsigned, x, y \in WordsOf(U128) :
  /\ {x, y} \subseteq WordsOf(ty) /\ NonZero(ty, y)
  /\ Done("divmod", <<x, y>>, build_divmod(x, y), Emu!eval_divmod(ty, x, y), <<<<ty, ty>>>>)

Equal == \E ty \in Integers :
  Binary("equal", ty, ty, build_equal, Emu!eval_equal, <<<<>>, <<>>>>)

FromFelt == \E ty \in Integers \ {U128} :
  Unary("from_felt252", Felt, LAMBDA x : build_from_felt252(ty, x),
        LAMBDA x : Emu!eval_from_felt(ty, x), <<<<ty>>, <<>>>>)
U128sFromFelt ==
  Unary("u128s_from_felt252", Felt, build_u128s_from_felt252, Emu!eval_u128_from_felt,
        <<<<U128>>, <<U128, U128>>>>)
ToFelt == \E ty \in Integers :
  Unary("to_felt252", ty, LAMBDA x : build_to_felt252(ty, x), Emu!eval_to_felt, <<<<Felt>>>>)

IntIsZero == \E ty \in Unsigned :
  Unary("is_zero", ty, build_int_is_zero, Emu!eval_is_zero, <<<<>>, <<ty>>>>)

Operation == \E ty \in Integers, op \in {"add", "sub"} :
  Binary("int_" \o op, ty, ty, LAMBDA x, y : build_operation(ty, op, x, y),
         LAMBDA x, y : Emu!eval_operation(ty, op, x, y), <<<<ty>>, <<ty>>, <<ty>>>>)

SquareRoot == \E ty \in Unsigned :
  LET out == Uint(SqrtWidth(Width(ty)))
  IN Unary("sqrt", ty, LAMBDA x : build_square_root(ty, x),
           LAMBDA x : Emu!eval_square_root(out, x), <<<<out>>>>)

\* Integers of less than the widest type multiply into the type twice as wide.
WideMul == \E ty \in {t \in Integers : 2 * Width(t) \in Widths} :
  LET out == IF ty.lower = 0 THEN Uint(2 * Width(ty)) ELSE Sint(2 * Width(ty))
  IN Binary("wide_mul", ty, ty, LAMBDA x, y : build_wide_mul(ty, x, y),
            LAMBDA x, y : Emu!eval_widemul(out, x, y), <<<<out>>>>)
GuaranteeMul ==
  Binary("guarantee_mul", U128, U128, build_guarantee_mul, Emu!eval_guarantee_mul,
         <<<<U128, U128>>>>)
GuaranteeVerify ==
  \/ Done("mul_guarantee_verify", <<>>, build_mul_guarantee_verify, Emu!eval_mul_guarantee_verify,
          <<<<>>>>)
  \/ Done("guarantee_verify", <<>>, build_guarantee_verify, Emu!eval_guarantee_verify, <<<<>>>>)
ByteReverse == Unary("byte_reverse", U128, build_byte_reverse, Emu!eval_byte_reverse, <<<<U128>>>>)

IntegerCalls ==
  \/ IntConst \/ Bitwise \/ Diff \/ Divmod \/ Equal \/ FromFelt \/ U128sFromFelt \/ ToFelt
  \/ IntIsZero \/ Operation \/ SquareRoot \/ WideMul \/ GuaranteeMul \/ GuaranteeVerify \/ ByteReverse

-----------------------------------------------------------------------------
(* Bounded integers: the compiler computes the ranges of the results from  *)
(* those of the operands.                                                  *)

Operands == BoundedInts \cup {ty \in Integers : Width(ty) < WIDE}

BoundedAdd == \E l, r \in Operands :
  LET out == Bounded(l.lower + r.lower, l.upper + r.upper - 1)
  IN Binary("bounded_add", l, r, LAMBDA x, y : build_add(l, r, out, x, y), Emu!eval_add, <<<<out>>>>)

BoundedSub == \E l, r \in Operands :
  LET out == Bounded(l.lower - (r.upper - 1), l.upper - r.lower)
  IN Binary("bounded_sub", l, r, LAMBDA x, y : build_sub(l, r, out, x, y), Emu!eval_sub, <<<<out>>>>)

BoundedMul == \E l, r \in Operands :
  LET ends == {a * b : a \in {l.lower, l.upper - 1}, b \in {r.lower, r.upper - 1}}
      out == Bounded(Min(ends), Max(ends) + 1)
  IN Binary("bounded_mul", l, r, LAMBDA x, y : build_mul(l, r, out, x, y), Emu!eval_mul, <<<<out>>>>)

BoundedDivRem == \E l, r \in Operands :
  LET div == Bounded(l.lower \div (r.upper - 1), (l.upper - 1) \div r.lower + 1)
      rem == Bounded(0, r.upper - 1)
  IN /\ l.lower >= 0 /\ r.lower > 0
     /\ Binary("div_rem", l, r, LAMBDA x, y : build_div_rem(l, r, div, rem, x, y),
               LAMBDA x, y : Emu!eval_div_rem(div, rem, x, y), <<<<div, rem>>>>)

Constrain == \E ty \in Operands : \E boundary \in (ty.lower + 1)..(ty.upper - 1) :
  LET low == Bounded(ty.lower, boundary)
      high == Bounded(boundary, ty.upper)
  IN Unary("constrain", ty, LAMBDA x : build_constrain(ty, boundary, low, high, x),
           LAMBDA x : Emu!eval_constrain(boundary, x), <<<<low>>, <<high>>>>)

\* One end of the range is cut off.
Trim == \E ty \in {t \in Operands : size(t) > 1}, at \in {"min", "max"} :
  LET trimmed == IF at = "min" THEN ty.lower ELSE ty.upper - 1
      out == IF at = "min" THEN Bounded(ty.lower + 1, ty.upper) ELSE Bounded(ty.lower, ty.upper - 1)
  IN Unary("trim", ty, LAMBDA x : build_trim(ty, trimmed, out, x),
           LAMBDA x : Emu!eval_trim(trimmed, x), <<<<>>, <<out>>>>)

BoundedIsZero == \E ty \in {t \in BoundedInts : 0 \in ValuesOf(t)} :
  Unary("bounded_is_zero", ty, LAMBDA x : build_bounded_is_zero(ty, x), Emu!eval_bounded_is_zero,
        <<<<>>, <<ty>>>>)

WrapNonZero == \E ty \in {t \in BoundedInts : 0 \notin ValuesOf(t)} :
  Unary("wrap_non_zero", ty, build_wrap_non_zero, Emu!eval_wrap_non_zero, <<<<ty>>>>)

U128ToU32Guarantees ==
  Unary("u128_to_u32_guarantees", U128, build_u128_to_u32_guarantees,
        Emu!eval_u128_to_u32_guarantees, <<[i \in 1..4 |-> Bounded(0, 2 ^ LIMB)]>>)

BoundedCalls ==
  \/ BoundedAdd \/ BoundedSub \/ BoundedMul \/ BoundedDivRem \/ Constrain \/ Trim
  \/ BoundedIsZero \/ WrapNonZero \/ U128ToU32Guarantees

-----------------------------------------------------------------------------
(* Casts and ranges.                                                       *)

CastTypes ==
  Integers \cup {Bounded(r[1], r[2]) : r \in CastRanges}
  \cup {Felt, Bounded(0, PRIME), Bounded(-HALF_PRIME, HALF_PRIME + 1)}

\* The bound of the target has another sign as a word than as a number: that of a negative
\* target where words are compared without a sign, that of a target whose lower end takes all
\* the bits where they are compared with one.
Apart(src, dst) ==
  IF DowncastRange(src, dst).lower < 0 THEN dst.lower >= 2 ^ (ComputeWidth(src, dst) - 1)
  ELSE dst.upper < 0

Downcast == \E src, dst \in CastTypes : \E to \in ToRanges(dst) :
  Unary(IF src # dst /\ Apart(src, dst) THEN "downcast_apart" ELSE "downcast", src,
        LAMBDA x : build_downcast(src, to, dst, x), LAMBDA x : Emu!eval_downcast(to, dst, x),
        <<<<dst>>, <<>>>>)

Upcast == \E src, dst \in CastTypes :
  /\ CanUpcast(src, dst)
  /\ Unary("upcast", src, LAMBDA x : build_upcast(src, dst, x),
           LAMBDA x : Emu!eval_upcast(dst, x), <<<<dst>>>>)

TryNew == \E ty \in Integers :
  Binary("int_range_try_new", ty, ty, LAMBDA x, y : build_int_range_try_new(ty, x, y),
         Emu!eval_try_new, <<<<ty, ty>>, <<ty, ty>>>>)

\* Ranges are made by TryNew and PopFront alone.
PopFront == \E ty \in Integers, x, y \in UNION {WordsOf(t) : t \in Integers} :
  /\ {x, y} \subseteq WordsOf(ty) /\ ValueOf(ty, x) <= ValueOf(ty, y)
  /\ Done("int_range_pop_front", <<ValueOf(ty, x), ValueOf(ty, y)>>,
          build_int_range_pop_front(ty, x, y),
          Emu!eval_pop_front(ty, ValueOf(ty, x), ValueOf(ty, y)), <<<<>>, <<ty, ty, ty>>>>)

CastCalls == Downcast \/ Upcast \/ TryNew \/ PopFront

-----------------------------------------------------------------------------
(* Felts, bytes31 and booleans.                                            *)

FeltOperation == \E op \in {"add", "sub", "mul", "div"}, x, y \in WordsOf(Felt) :
  /\ op = "div" => y # 0
  /\ Done("felt252_" \o op, <<x, y>>, build_binary_operation(op, x, y),
          Emu!eval_felt_operation(op, x, y), <<<<Felt>>>>)

FeltConst == \E c \in (-HALF_PRIME)..(PRIME - 1) :
  Done("felt252_const", <<c>>, build_felt_const(c), Emu!eval_felt_const(c), <<<<Felt>>>>)
FeltIsZero ==
  Unary("felt252_is_zero", Felt, build_felt_is_zero, Emu!eval_felt_is_zero, <<<<>>, <<Felt>>>>)

Bytes31Const == \E c \in ValuesOf(Bytes31) :
  Done("bytes31_const", <<c>>, build_bytes31_const(c), Emu!eval_bytes31_const(c), <<<<Bytes31>>>>)
Bytes31FromFelt ==
  Unary("bytes31_try_from_felt252", Felt, build_bytes31_from_felt252, Emu!eval_bytes31_from_felt,
        <<<<Bytes31>>, <<>>>>)
Bytes31ToFelt ==
  Unary("bytes31_to_felt252", Bytes31, build_bytes31_to_felt252, Emu!eval_bytes31_to_felt252,
        <<<<Felt>>>>)

Bool == Uint(1)
BoolOperation ==
  \/ Binary("bool_and", Bool, Bool, LAMBDA x, y : build_bool_binary("and", x, y), Emu!eval_and,
            <<<<Bool>>>>)
  \/ Binary("bool_xor", Bool, Bool, LAMBDA x, y : build_bool_binary("xor", x, y), Emu!eval_xor,
            <<<<Bool>>>>)
  \/ Binary("bool_or", Bool, Bool, LAMBDA x, y : build_bool_binary("or", x, y), Emu!eval_or,
            <<<<Bool>>>>)
  \/ Unary("bool_not", Bool, build_bool_not, Emu!eval_not, <<<<Bool>>>>)
  \/ Unary("bool_to_felt252", Bool, build_bool_to_felt252, Emu!eval_bool_to_felt252, <<<<Felt>>>>)

FeltCalls ==
  \/ FeltOperation \/ FeltConst \/ FeltIsZero \/ Bytes31Const \/ Bytes31FromFelt \/ Bytes31ToFelt
  \/ BoolOperation

-----------------------------------------------------------------------------
(* u256, u512 and Starknet addresses.                                      *)

U256s == Limbs \X Limbs
U512s == {a \o b : a, b \in U256s}
Words(n) == [i \in 1..n |-> U128]

U256Divmod == \E x, y \in U256s : y # <<0, 0>> /\
  Done("u256_safe_divmod", x \o y, build_u256_divmod(x, y), Emu!eval_u256_divmod(x, y),
       <<Words(4)>>)
U256IsZero == \E x \in U256s :
  Done("u256_is_zero", x, build_u256_is_zero(x), Emu!eval_u256_is_zero(x), <<<<>>, Words(2)>>)
U256SquareRoot == \E x \in U256s :
  Done("u256_sqrt", x, build_u256_square_root(x), Emu!eval_u256_square_root(x), <<Words(1)>>)
InvModN == \E x, y \in WordsOf(U128) \X WordsOf(U128) : y # <<0, 0>> /\ x[2] \in Limbs /\
  Done("u256_guarantee_inv_mod_n", x \o y, build_u256_guarantee_inv_mod_n(x, y),
       Emu!eval_inv_mod_n(x, y), <<Words(2), <<>>>>)
U512Divmod == \E x \in U512s, y \in U256s : y # <<0, 0>> /\
  Done("u512_safe_divmod_by_u256", x \o y, build_divmod_u256(x, y), Emu!eval_u512_divmod(x, y),
       <<Words(6)>>)

AddressConst == \E c \in ValuesOf(Address) :
  Done("address_const", <<c>>, build_address_const(c), Emu!eval_address_const(c), <<<<Address>>>>)
AddressTryFromFelt ==
  Unary("address_try_from_felt252", Felt, build_address_try_from_felt252,
        Emu!eval_address_try_from_felt, <<<<Address>>, <<>>>>)
AddressToFelt ==
  Unary("address_to_felt252", Address, build_address_to_felt252, Emu!eval_address_to_felt, <<<<Felt>>>>)
BaseFromFelt ==
  Unary("storage_base_address_from_felt252", Felt, build_storage_base_address_from_felt252,
        Emu!eval_storage_base_address_from_felt, <<<<StorageBase>>>>)
AddressFromBase ==
  Unary("storage_address_from_base", StorageBase, build_address_to_felt252,
        Emu!eval_storage_address_from_base, <<<<Address>>>>)
AddressFromBaseAndOffset ==
  Binary("storage_address_from_base_and_offset", StorageBase, Uint(BYTE),
         build_storage_address_from_base_and_offset,
         Emu!eval_storage_address_from_base_and_offset, <<<<Address>>>>)

WideCalls ==
  \/ U256Divmod \/ U256IsZero \/ U256SquareRoot \/ InvModN \/ U512Divmod
  \/ AddressConst \/ AddressTryFromFelt \/ AddressToFelt \/ BaseFromFelt
  \/ AddressFromBase \/ AddressFromBaseAndOffset

-----------------------------------------------------------------------------
(* Composite values: a function takes one, works on it and returns it.     *)

CompositeCalls == \E sample \in Samples, shape \in Shapes :
  \E program \in V!ProgramsOn(sample[1]) :
    Done(program, <<shape, sample>>,
         Br(0, <<V!journey(program, shape, sample[1], sample[2])>>),
         Br(0, <<V!interpreted(program, sample[1], sample[2])>>), <<>>)

-----------------------------------------------------------------------------
Init == call = NoCall
Next == call = NoCall /\ (IntegerCalls \/ BoundedCalls \/ CastCalls \/ FeltCalls \/ WideCalls
                          \/ CircuitLibfuncCalls \/ CompositeCalls)
Spec == Init /\ [][Next]_call

-----------------------------------------------------------------------------
Results(c) == c.native.results
OutTypes(c) == c.outs[c.native.branch + 1]

IsResultOf(ty, x) ==
  IF ty.kind \in {"inputs", "struct", "less_than"} THEN IsCircuitResultOf(ty, x) ELSE IsWordOf(ty, x)

\* A result is a word of a value of its type, never bits left over from the width it was
\* computed at: the next libfunc compares, shifts and extends it as one (trunci and the
\* offsets of bounded_int.rs, cast.rs).
Canonical == call.fn \notin {"none", "downcast_apart"} \cup V!Programs =>
  /\ Len(Results(call)) = Len(OutTypes(call))
  /\ \A i \in DOMAIN Results(call) : IsResultOf(OutTypes(call)[i], Results(call)[i])

NativeValues(c) ==
  [i \in DOMAIN Results(c) |->
     IF OutTypes(c)[i].kind \in {"inputs", "struct", "less_than"} THEN Results(c)[i]
     ELSE ValueOf(OutTypes(c)[i], Results(c)[i])]
SameOutcome(c) == c.native.branch = c.emulated.branch /\ NativeValues(c) = c.emulated.results

\* Where the interpreter is known to answer something else, and what both still share: it
\* returns xor last, tells no overflow from an underflow, takes a range of equal ends for
\* invalid, reads no felt as negative in a downcast, reduces no storage base, hands on no
\* nullifier and no exact guarantee, and makes one of a single type only.  In a downcast to a
\* range apart it is compiled code that is wrong: it may succeed where no value fits.
Slips(c) ==
  \/ /\ c.fn = "bitwise"
     /\ NativeValues(c) = <<c.emulated.results[1], c.emulated.results[3], c.emulated.results[2]>>
  \/ /\ c.fn \in {"int_add", "int_sub"} /\ c.native.branch = 2 /\ c.emulated.branch = 1
     /\ OutTypes(c)[1].upper <= (IF c.fn = "int_add" THEN c.args[1] + c.args[2] ELSE c.args[1] - c.args[2])
     /\ NativeValues(c) = c.emulated.results
  \/ /\ c.fn = "int_range_try_new" /\ c.args[1] = c.args[2]
     /\ NativeValues(c) = c.emulated.results
  \/ /\ c.fn = "storage_base_address_from_felt252" /\ c.args[1] >= StorageBase.upper
     /\ NativeValues(c) = <<c.args[1] - StorageBase.upper>>
  \/ /\ c.fn = "downcast" /\ c.native.branch = 0 /\ c.emulated.branch = 1
     /\ NativeValues(c) = <<c.args[1] - PRIME>>
  \/ c.fn = "downcast_apart" /\ c.native.branch = 0 /\ c.emulated = Br(1, <<>>)
  \/ c.fn = "eval_circuit" /\ c.native.branch = 1 /\ c.emulated = Br(1, <<>>)
  \/ /\ c.fn = "circuit_failure_guarantee_verify"
     /\ \A k \in {1, 2} : u384_struct_to_integer(NativeValues(c)[1][k]) = c.args[k]
  \/ /\ c.fn = "u96_limbs_less_than_guarantee_verify" /\ c.native.branch = 0 /\ c.emulated.branch = 0
     /\ \A k \in {1, 2} : IsPrefix(NativeValues(c)[1][k], c.emulated.results[1][k])
  \/ /\ c.fn = "u96_single_limb_less_than_guarantee_verify"
     /\ NativeValues(c) = <<c.args[2][1] - c.args[1][1]>>
  \/ c.fn = "into_u96_guarantee" /\ c.emulated.branch = -1 /\ NativeValues(c) = c.args

\* A libfunc takes the branch and computes the values the interpreter, working on unbounded
\* integers, does: no width, sign or offset of the compiled code shows (docs/debugging.md).
AsInterpreted == call.fn \notin {"none", "eval_circuit_unreduced"} \cup V!Programs =>
  SameOutcome(call) \/ Slips(call)

\* A value that goes in, is taken apart and put together and comes out is the value the
\* interpreter has, whatever its type and whatever else the function takes and returns: host
\* and compiled code agree on registers, stack, return pointer, offsets, tags and alignment
\* (TypeBuilder::layout of types.rs, invoke_dynamic and parse_result of executor.rs).
ValueSurvives == call.fn \in V!Programs => call.native = call.emulated

\* The values of a circuit solve its gates, or its failure proves that one of them cannot be
\* (the equations of build_gate_evaluation in circuit.rs).
CircuitSolved == call.fn = "eval_circuit" =>
  Solved(call.args[1], call.args[2], call.args[3], call.native)

\* So do they with inputs that are not reduced: the operands are extended "to avoid overflows
\* while operating" (build_circuit_arith_operation of runtime_bindings.rs).
CircuitSolvedUnreduced == call.fn \in {"eval_circuit", "eval_circuit_unreduced"} =>
  Solved(call.args[1], call.args[2], call.args[3], call.native)
=============================================================================
