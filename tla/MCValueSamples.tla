------------------------- MODULE MCValueSamples --------------------------
(***************************************************************************)
(* Composite types and values of them: every kind of type on its own, in a *)
(* structure, in an enum with payloads of different alignment, behind a    *)
(* pointer.  The numbers of a value differ, so that no two can be mixed up.*)
(***************************************************************************)
EXTENDS ValueJourneys

Number(seed, width) == Num(IF width < 8 THEN seed % (2 ^ width) ELSE seed)

RECURSIVE ValuesOf(_, _)
ValuesOf(ty, seed) ==
  LET part(i) == ValuesOf(ty.of[i], 3 * seed + i) IN
  IF ty.kind \in {"int", "felt", "bytes31", "bounded"} THEN {Number(seed, ty.width)}
  ELSE IF ty.kind = "ec_point" THEN {Val(0, <<Num(seed), Num(seed + 1)>>)}
  ELSE IF ty.kind \in {"box", "snapshot"} THEN part(1)
  ELSE IF ty.kind = "nullable" THEN {Null} \cup part(1)
  ELSE IF ty.kind = "array" THEN
    {Num(0)} \cup {Val(2, <<a, b>>) : a \in part(1), b \in ValuesOf(Inner(ty), 3 * seed + 2)}
  ELSE IF ty.kind = "struct" THEN
    {Val(0, members) : members \in
       {f \in [DOMAIN ty.of -> UNION {part(i) : i \in DOMAIN ty.of}] : \A i \in DOMAIN ty.of : f[i] \in part(i)}}
  ELSE UNION {{Val(i - 1, <<payload>>) : payload \in part(i)} : i \in DOMAIN ty.of}

U8 == Uint(8)
U64 == Uint(64)
U128 == Uint(128)
Types == {
  U8, U64, U128, Felt252, Bytes31, BoundedInt(3), BoundedInt(20), EcPoint, Unit,
  Struct(<<U8, U128>>), Struct(<<U8, Felt252, Uint(16)>>), Struct(<<U128, Unit, Uint(32)>>),
  Enum(<<Unit, Unit>>), Enum(<<U8, U128>>), Enum(<<Felt252, U8, Unit>>),
  Enum(<<Unit>>), Enum(<<Felt252>>), Enum(<<U64>>),
  Enum(<<Struct(<<U64, U8>>), Uint(16)>>),
  Struct(<<U8, Enum(<<U8, U64>>), Uint(16)>>),
  Enum(<<Enum(<<Unit, Uint(32)>>), Array(U8), Box(Felt252)>>),
  Array(U8), Array(Enum(<<Felt252, U8>>)), Array(Struct(<<U8, U64>>)),
  Box(U64), Nullable(Struct(<<U8, Felt252>>)), Snapshot(Enum(<<U8, Uint(32)>>)), Snapshot(Array(Felt252)),
  Struct(<<BoundedInt(3), U8>>), Enum(<<BoundedInt(20), Unit>>), Struct(<<Enum(<<BoundedInt(3), U128>>)>>)}

SampleValues == UNION {{<<ty, v>> : v \in ValuesOf(ty, 1)} : ty \in Types}

\* The arguments before the value leave it six registers, some or none.
Words(n) == [i \in 1..n |-> U64]
Shape(before, builtins) == [before |-> before, builtins |-> builtins]
SampleShapes ==
  {Shape(Words(n), 0) : n \in {0, 2, 3, 4, 5, 6}}
  \cup {Shape(<<U8, U128, U128>>, 1), Shape(<<Felt252>>, 2), Shape(<<U64, Felt252>>, 0)}
=============================================================================
