----------------------- MODULE CompositeLibfuncs ------------------------
(***************************************************************************)
(* Libfuncs on structures, enums, boxes, nullables and constants: what     *)
(* they do to registers and memory when compiled, and what the interpreter *)
(* computes.                                                               *)
(***************************************************************************)
EXTENDS CallingConvention

-----------------------------------------------------------------------------
(* Structures (libfuncs/struct.rs).                                        *)

build_struct_value(ty, fields) ==
  StructReg(Listed([i \in DOMAIN ty.of |->
                      IF is_zst(ty.of[i]) THEN UndefReg(build_type(ty.of[i])) ELSE fields[i]]))
build_deconstruct(reg) == reg.of
build_boxed_deconstruct(ty, box) ==
  Listed([i \in DOMAIN ty.of |-> ScalarReg(Shifted(box.s, FieldOffsets(build_type(ty))[i]))])

-----------------------------------------------------------------------------
(* Enums (libfuncs/enum.rs).  A variant is written and read as a structure *)
(* of the tag and its payload, in memory that holds the opaque type.       *)

tag_type(variants) == LInt(tag_bits(Len(variants)))
variant_type(variants, i) ==
  LStruct(<<tag_type(variants), IF is_zst(variants[i]) THEN LBytes(0) ELSE build_type(variants[i])>>)
Stack(ty, lt, reg) == StoredIn(LLayout(build_type(ty)).size, layout(ty).align, lt, reg)

build_enum_value(ty, i, payload) ==
  IF Len(ty.of) = 1 THEN payload
  ELSE LET val == StructReg(<<ScalarReg(Data(i - 1)),
                              IF is_zst(ty.of[i]) THEN UndefReg(LBytes(0)) ELSE payload>>)
       IN Load(build_type(ty), Stack(ty, variant_type(ty.of, i), val), 0)
build_from_bounded_int(ty, index) ==
  IF Len(ty.of) = 1 THEN UndefReg(build_type(ty)) ELSE StructReg(<<index, UndefReg(LBytes(0))>>)

\* enum_match and enum_snapshot_match: the branch and the payload; no branch for another tag.
NoBranch == [branch |-> -1, value |-> UndefReg(LBytes(0))]
load_payload(ty, stack, tag) ==
  IF tag \in 0..(Len(ty.of) - 1)
    THEN [branch |-> tag,
          value |-> Load(LStruct(<<tag_type(ty.of), build_type(ty.of[tag + 1])>>), stack, 0).of[2]]
    ELSE NoBranch
load_variant(ty, stack) == load_payload(ty, stack, NumOf(Load(tag_type(ty.of), stack, 0).s))
build_match(ty, reg) ==
  IF Len(ty.of) = 1 THEN [branch |-> 0, value |-> reg]
  ELSE load_variant(ty, Stack(ty, build_type(ty), reg))
build_boxed_match(ty, box) ==
  IF Len(ty.of) = 1 THEN [branch |-> 0, value |-> box]
  ELSE LET tag == NumOf(LoadBehind(tag_type(ty.of), box).s)
       IN IF tag \in 0..(Len(ty.of) - 1)
            THEN [branch |-> tag, value |-> ScalarReg(Shifted(box.s, payload_offset(ty.of, tag + 1)))]
            ELSE NoBranch

-----------------------------------------------------------------------------
(* Boxes and nullables (libfuncs/box.rs, nullable.rs).                     *)

into_box(ty, reg) == ScalarReg(Ptr(StoredIn(layout(ty).size, layout(ty).align, build_type(ty), reg)))
unbox(ty, box) == LoadBehind(build_type(ty), box)
build_null == ScalarReg(NullPtr)
build_match_nullable(reg) ==
  IF reg.s = NullPtr THEN [branch |-> 0, value |-> UndefReg(LBytes(0))] ELSE [branch |-> 1, value |-> reg]

-----------------------------------------------------------------------------
(* Constants (libfuncs/const.rs): the bytes of a read-only global.         *)

RECURSIVE build_const_type_bytes(_, _)
build_const_struct(v, ty) ==
  FoldLeftDomain(LAMBDA bytes, i :
                   Resize(bytes, AlignUp(Len(bytes), layout(ty.of[i]).align))
                     \o build_const_type_bytes(v.of[i], ty.of[i]),
                 <<>>, ty.of)
build_const_enum(v, ty) ==
  Resize(HostBytes(Data(v.n), tag_layout(ty.of).size), payload_offset(ty.of, v.n + 1))
    \o build_const_type_bytes(v.of[1], ty.of[v.n + 1])
build_const_type_bytes(v, ty) ==
  Resize(IF ty.kind = "struct" THEN build_const_struct(v, ty)
         ELSE IF ty.kind = "enum" THEN build_const_enum(v, ty)
         ELSE IF ty.kind = "ec_point" THEN Resize(felt_slot(v.of[1]), 32) \o felt_slot(v.of[2])
         ELSE HostBytes(Data(v.n), CeilBytes(ty.width)),
         layout(ty).size)

RECURSIVE can_be_const(_)
can_be_const(ty) ==
  \/ ty.kind \in {"int", "felt", "bytes31", "bounded", "ec_point"}
  \/ ty.kind \in {"struct", "enum"} /\ \A i \in DOMAIN ty.of : can_be_const(ty.of[i])

build_const_as_box(v, ty) == ScalarReg(Ptr(Object(build_const_type_bytes(v, ty), layout(ty).align)))
build_const_as_immediate(v, ty) ==
  IF build_type(ty).l = "int"
  THEN ScalarReg(ReadBytes(Object(build_const_type_bytes(v, ty), 1), 0, CeilBytes(build_type(ty).width), TRUE))
  ELSE LoadBehind(build_type(ty), build_const_as_box(v, ty))

-----------------------------------------------------------------------------
(* function_call.rs: arguments and a single result in memory go by way of  *)
(* the caller's stack; the callee here returns its argument.               *)

build_call_of_identity(ty, reg) ==
  IF ~is_memory_allocated(ty) THEN reg
  ELSE LET arg == Load(build_type(ty), Stack(ty, build_type(ty), reg), 0)
       IN Load(build_type(ty), Stack(ty, build_type(ty), arg), 0)

-----------------------------------------------------------------------------
(* The interpreter (sierra-emu's vm): a value is a tree, and a box is the  *)
(* value in it.                                                            *)

eval_construct(values) == Val(0, values)
eval_deconstruct(v) == v.of

eval_init(index, v) == Val(index, <<v>>)
eval_from_bounded_int(n) == Val(n, <<Val(0, <<>>)>>)
eval_match(v) == [branch |-> v.n, value |-> v.of[1]]

eval_into_box(v) == v
eval_unbox(v) == v
eval_null == Null
eval_nullable_from_box(v) == v
eval_match_nullable(v) == IF v = Null THEN [branch |-> 0, value |-> Null] ELSE [branch |-> 1, value |-> v]

\* What a constant declaration stands for.
RECURSIVE const_inner(_, _)
const_inner(v, ty) ==
  IF ty.kind = "struct" THEN Val(0, Listed([i \in DOMAIN ty.of |-> const_inner(v.of[i], ty.of[i])]))
  ELSE IF ty.kind = "enum" THEN Val(v.n, <<const_inner(v.of[1], ty.of[v.n + 1])>>)
  ELSE v
eval_as_box(v, ty) == const_inner(v, ty)
eval_as_immediate(v, ty) == const_inner(v, ty)
=============================================================================
