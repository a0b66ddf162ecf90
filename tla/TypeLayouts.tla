-------------------------- MODULE TypeLayouts ---------------------------
(***************************************************************************)
(* Sierra types and their size, alignment and way of passing, computed     *)
(* twice: by the host (TypeBuilder of types.rs) and by LLVM, for the type  *)
(* the compiler gives it.  The target is x86_64.                           *)
(***************************************************************************)
EXTENDS Integers, Sequences, SequencesExt

-----------------------------------------------------------------------------
(* Types.  of: members, variants, or the one type a container is about.    *)

Ty(kind, width, of) == [kind |-> kind, width |-> width, of |-> of]
Uint(width) == Ty("int", width, <<>>)            \* u8 to u128, i8 to i128
Felt252 == Ty("felt", 252, <<>>)
Bytes31 == Ty("bytes31", 248, <<>>)
BoundedInt(width) == Ty("bounded", width, <<>>)  \* width: repr_bit_width of the range
EcPoint == Ty("ec_point", 252, <<>>)
Struct(members) == Ty("struct", 0, members)
Enum(variants) == Ty("enum", 0, variants)
Array(elem) == Ty("array", 0, <<elem>>)
Box(inner) == Ty("box", 0, <<inner>>)
Nullable(inner) == Ty("nullable", 0, <<inner>>)
Snapshot(inner) == Ty("snapshot", 0, <<inner>>)
Unit == Struct(<<>>)

Inner(ty) == ty.of[1]

\* The same sequence, element by element: a function is a table, not a rule to be applied.
Listed(s) == s \o <<>>

-----------------------------------------------------------------------------
(* core::alloc::Layout.                                                    *)

MaxOf(a, b) == IF a >= b THEN a ELSE b
AlignUp(n, align) == ((n + align - 1) \div align) * align
CeilBytes(bits) == (bits + 7) \div 8

Layout(size, align) == [size |-> size, align |-> align]
NoLayout == Layout(0, 1)
Offset(layout, next) == AlignUp(layout.size, next.align)
Extend(layout, next) == Layout(Offset(layout, next) + next.size, MaxOf(layout.align, next.align))
PadToAlign(layout) == Layout(AlignUp(layout.size, layout.align), layout.align)
ExtendAll(layouts) == FoldLeft(Extend, NoLayout, layouts)
Offsets(layouts) ==
  Listed([i \in DOMAIN layouts |-> Offset(ExtendAll(SubSeq(layouts, 1, i - 1)), layouts[i])])

get_integer_layout(width) ==
  IF width = 0 THEN NoLayout
  ELSE IF width <= 8 THEN Layout(1, 1)
  ELSE IF width <= 16 THEN Layout(2, 2)
  ELSE IF width <= 32 THEN Layout(4, 4)
  ELSE IF width <= 64 THEN Layout(8, 8)
  ELSE IF width <= 128 THEN Layout(16, 16)
  ELSE Layout(CeilBytes(width), 16)

Word64 == get_integer_layout(64)
array_layout == ExtendAll(<<Word64, get_integer_layout(32), get_integer_layout(32), get_integer_layout(32)>>)

\* The least number of bits that tells n variants apart.
tag_bits(n) == CHOOSE b \in 0..16 : 2 ^ b >= n /\ \A a \in 0..(b - 1) : 2 ^ a < n
tag_layout(variants) == get_integer_layout(tag_bits(Len(variants)))

\* The layout of an enum, not padded, from those of its variants.
layout_for_variants(tag, layouts) ==
  FoldLeft(LAMBDA acc, l : Layout(MaxOf(acc.size, Extend(tag, l).size), MaxOf(acc.align, Extend(tag, l).align)),
           tag, layouts)

RECURSIVE layout(_)
layout(ty) ==
  LET layouts == Listed([i \in DOMAIN ty.of |-> layout(ty.of[i])]) IN
  PadToAlign(
    IF ty.kind \in {"int", "felt", "bytes31", "bounded"} THEN get_integer_layout(ty.width)
    ELSE IF ty.kind = "ec_point" THEN ExtendAll(<<get_integer_layout(252), get_integer_layout(252)>>)
    ELSE IF ty.kind = "array" THEN array_layout
    ELSE IF ty.kind \in {"box", "nullable"} THEN Word64
    ELSE IF ty.kind = "snapshot" THEN layouts[1]
    ELSE IF ty.kind = "struct" THEN ExtendAll(layouts)
    ELSE layout_for_variants(tag_layout(ty.of), layouts))

\* Members and variants: where the host puts them, and the room that a tag and any variant take.
member_offsets(ty) == Offsets(Listed([i \in DOMAIN ty.of |-> layout(ty.of[i])]))
payload_offset(variants, i) == Offset(tag_layout(variants), layout(variants[i]))
enum_layout(variants) ==
  layout_for_variants(tag_layout(variants), Listed([i \in DOMAIN variants |-> layout(variants[i])]))

RECURSIVE is_zst(_)
is_zst(ty) ==
  \/ ty.kind = "struct" /\ \A i \in DOMAIN ty.of : is_zst(ty.of[i])
  \/ ty.kind = "enum" /\ (ty.of = <<>> \/ (Len(ty.of) = 1 /\ is_zst(ty.of[1])))
  \/ ty.kind = "snapshot" /\ is_zst(Inner(ty))

\* Passed and returned through a pointer to its representation.
RECURSIVE is_memory_allocated(_)
is_memory_allocated(ty) ==
  \/ ty.kind = "enum" /\ (Len(ty.of) > 1 \/ (Len(ty.of) = 1 /\ is_memory_allocated(ty.of[1])))
  \/ ty.kind = "struct" /\ \E i \in DOMAIN ty.of : is_memory_allocated(ty.of[i])
  \/ ty.kind = "snapshot" /\ is_memory_allocated(Inner(ty))

\* Returned through memory when it is the only result.
RECURSIVE is_complex(_)
is_complex(ty) ==
  \/ ty.kind \in {"array", "ec_point", "struct", "felt", "bytes31"}
  \/ ty.kind = "bounded" /\ ty.width > 128
  \/ ty.kind = "snapshot" /\ is_complex(Inner(ty))
  \/ ty.kind = "enum" /\ IF Len(ty.of) = 1 THEN is_complex(ty.of[1]) ELSE ~is_zst(ty)

-----------------------------------------------------------------------------
(* LLVM's types and its data layout for x86_64.  Bits is an integer that   *)
(* only serves as so many aligned bytes.                                   *)

LType(l, width, of) == [l |-> l, width |-> width, of |-> of]
LInt(width) == LType("int", width, <<>>)
LPtr == LType("ptr", 64, <<>>)
LStruct(of) == LType("struct", 0, of)
LBits(bytes) == LType("bits", 8 * bytes, <<>>)
LBytes(n) == LType("bytes", 8 * n, <<>>)

\* types/enum.rs: an opaque aligned block, for no variant's type keeps the bytes of the others.
build_enum_LargestVariant(variants, tys) ==
  LET size(i) == Extend(tag_layout(variants), layout(variants[i])).size
      largest == CHOOSE i \in DOMAIN variants : \A j \in DOMAIN variants : size(j) <= size(i)
  IN IF variants = <<>> THEN LBytes(0)
     ELSE IF Len(variants) = 1 THEN tys[1]
     ELSE LStruct(<<LInt(tag_bits(Len(variants))), tys[largest]>>)
Opaque(whole) == LStruct(<<LBits(whole.align), LBytes(whole.size - whole.align)>>)
build_enum(variants, tys) ==
  IF variants = <<>> THEN LBytes(0)
  ELSE IF Len(variants) = 1 THEN tys[1]
  ELSE IF \A i \in DOMAIN variants : is_zst(variants[i])
       THEN LStruct(<<LInt(tag_bits(Len(variants))), LBytes(0)>>)
  ELSE Opaque(enum_layout(variants))

RECURSIVE build_type(_)
build_type(ty) ==
  LET tys == Listed([i \in DOMAIN ty.of |-> build_type(ty.of[i])]) IN
  IF ty.kind \in {"int", "felt", "bytes31", "bounded"} THEN LInt(ty.width)
  ELSE IF ty.kind = "ec_point" THEN LStruct(<<LInt(252), LInt(252)>>)
  ELSE IF ty.kind = "array" THEN LStruct(<<LPtr, LInt(32), LInt(32), LInt(32)>>)
  ELSE IF ty.kind \in {"box", "nullable"} THEN LPtr
  ELSE IF ty.kind = "snapshot" THEN tys[1]
  ELSE IF ty.kind = "struct" THEN LStruct(tys)
  ELSE build_enum(ty.of, tys)

IntAlign(width) == IF width > 64 THEN 16 ELSE get_integer_layout(width).align
RECURSIVE LLayout(_)
LLayout(lt) ==
  IF lt.l \in {"int", "ptr", "bits"} THEN PadToAlign(Layout(CeilBytes(lt.width), IntAlign(lt.width)))
  ELSE IF lt.l = "bytes" THEN Layout(lt.width \div 8, 1)
  ELSE PadToAlign(ExtendAll(Listed([i \in DOMAIN lt.of |-> LLayout(lt.of[i])])))
FieldOffsets(lt) == Offsets(Listed([i \in DOMAIN lt.of |-> LLayout(lt.of[i])]))
=============================================================================
