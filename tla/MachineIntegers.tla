------------------------- MODULE MachineIntegers -------------------------
(***************************************************************************)
(* The integer-like Sierra types and the machine words compiled code keeps *)
(* their values in, at widths small enough to enumerate: WIDE stands for   *)
(* the 128 bits of the widest integer, LIMB for the 32 bits u128 is split  *)
(* into, BYTE for the byte, PRIME for the field's prime and FELT for the   *)
(* 252 bits of its words.                                                  *)
(***************************************************************************)
EXTENDS Integers, Sequences, FiniteSets, FiniteSetsExt

CONSTANTS
  Widths,       \* widths of the integers
  WIDE,         \* the widest of them
  LIMB, BYTE,   \* parts a word of width WIDE is made of
  PRIME, FELT,
  Ranges        \* ranges <<lower, upper>> of bounded integers, upper excluded

ASSUME WidthAssumption ==
  /\ Widths \subseteq Nat \ {0} /\ WIDE \in Widths
  /\ \A w \in Widths : w <= WIDE
  /\ LIMB \in Nat \ {0} /\ BYTE \in Nat \ {0}
  /\ WIDE = 4 * LIMB /\ WIDE % BYTE = 0

\* As 2^251 + 2^127 <= PRIME < 2^252 < 2^256.
ASSUME PrimeAssumption ==
  /\ PRIME \in Nat /\ FELT \in Nat
  /\ 2 ^ (FELT - 1) + 2 ^ (WIDE - 1) <= PRIME
  /\ PRIME < 2 ^ FELT
  /\ FELT < 2 * WIDE
  /\ \A d \in 2..(PRIME - 1) : PRIME % d # 0

ASSUME RangeAssumption ==
  \A r \in Ranges : r[1] \in Int /\ r[2] \in Int /\ r[1] < r[2] /\ r[2] - r[1] < 2 ^ WIDE

HALF_PRIME == PRIME \div 2

Abs(x) == IF x < 0 THEN -x ELSE x

-----------------------------------------------------------------------------
(* Types: their range, upper bound excluded.                               *)

Uint(w) == [kind |-> "uint", lower |-> 0, upper |-> 2 ^ w]
Sint(w) == [kind |-> "sint", lower |-> -(2 ^ (w - 1)), upper |-> 2 ^ (w - 1)]
Felt == [kind |-> "felt", lower |-> 0, upper |-> PRIME]
Bounded(lower, upper) == [kind |-> "bounded", lower |-> lower, upper |-> upper]

integer_range(ty) == [lower |-> ty.lower, upper |-> ty.upper]
size(range) == range.upper - range.lower

\* BigInt::bits, of the magnitude.
Bits(x) == CHOOSE n \in 0..(4 * WIDE) : Abs(x) < 2 ^ n /\ (n > 0 => 2 ^ (n - 1) <= Abs(x))

\* Bits of the natural representation of every value of a range.
zero_based_bit_width(range) ==
  LET top == range.upper - 1
      signed(x) == IF x < 0 THEN Bits(Abs(x) - 1) + 1 ELSE IF x = 0 THEN 0 ELSE Bits(x) + 1
  IN Max({1, IF range.lower < 0 THEN Max({signed(range.lower), signed(top)}) ELSE Bits(top)})

\* Bits of the distance of a value from the lower bound.
repr_bit_width(range) == Max({1, Bits(size(range) - 1)})

is_bounded_int(ty) == ty.kind = "bounded"
is_signed_repr(ty) == ty.lower < 0 /\ ~is_bounded_int(ty)

Width(ty) == repr_bit_width(integer_range(ty))

-----------------------------------------------------------------------------
(* Words: naturals below 2^w, and the operations of the arith dialect.     *)

Const(x, w) == x % 2 ^ w
trunci(x, w) == x % 2 ^ w
Signed(x, w) == IF x >= 2 ^ (w - 1) THEN x - 2 ^ w ELSE x
extsi(x, from, to) == Signed(x, from) % 2 ^ to
addi(x, y, w) == (x + y) % 2 ^ w
subi(x, y, w) == (x - y) % 2 ^ w
muli(x, y, w) == (x * y) % 2 ^ w
slt(x, y, w) == Signed(x, w) < Signed(y, w)
shrui(x, n) == x \div 2 ^ n

\* The value a word stands for: bounded integers store the distance from the lower
\* bound, signed ones are in two's complement.
ValueOf(ty, x) ==
  IF is_bounded_int(ty) THEN x + ty.lower
  ELSE IF is_signed_repr(ty) THEN Signed(x, Width(ty)) ELSE x

Encode(ty, v) == (v - (IF is_bounded_int(ty) THEN ty.lower ELSE 0)) % 2 ^ Width(ty)

ValuesOf(ty) == ty.lower..(ty.upper - 1)
IsWordOf(ty, x) == x \in 0..(2 ^ Width(ty) - 1) /\ ValueOf(ty, x) \in ValuesOf(ty)
WordsOf(ty) == {Encode(ty, v) : v \in ValuesOf(ty)}

Integers == {Uint(w) : w \in Widths} \cup {Sint(w) : w \in Widths}
BoundedInts == {Bounded(r[1], r[2]) : r \in Ranges}

-----------------------------------------------------------------------------
\* What a libfunc does: the branch it takes and the results it hands on.
Br(branch, results) == [branch |-> branch, results |-> results]
=============================================================================
