-------------------------- MODULE ValueJourneys --------------------------
(***************************************************************************)
(* A value's way through a compiled function: the host lays its arguments  *)
(* out, the function finds them, a short program works on the value, the   *)
(* function returns it and the host parses it.  Beside it, what the        *)
(* interpreter makes of the same program and value.                        *)
(***************************************************************************)
EXTENDS CompositeLibfuncs


Option(ty) == Enum(<<ty, Unit>>)
Pair(ty) == Struct(<<Uint(8), ty>>)
Mark == Num(99)    \* the second argument of "pair"

Programs == {"identity", "call", "rebuild", "unbox", "box", "unbox_argument", "boxed_parts",
             "nullable", "null", "option", "pair", "const_immediate", "const_box", "from_bounded"}

\* AbiArgument takes no BoundedInt, on its own or as a part of what is passed by value.
RECURSIVE passable(_)
passable(ty) ==
  /\ ty.kind # "bounded"
  /\ \/ ty.kind \notin {"snapshot", "struct", "enum"}
     \/ ty.kind # "snapshot" /\ is_memory_allocated(ty)
     \/ \A i \in DOMAIN ty.of : passable(ty.of[i])

is_composite(ty) == ty.kind = "struct" \/ (ty.kind = "enum" /\ ty.of # <<>>)
is_plain_enum(ty) == ty.kind = "enum" /\ \A i \in DOMAIN ty.of : ty.of[i] = Unit

params(program, ty) ==
  IF program \in {"unbox_argument", "boxed_parts"} THEN <<Box(ty)>>
  ELSE IF program \in {"nullable", "null"} THEN <<Nullable(ty)>>
  ELSE IF program = "pair" THEN <<ty, Uint(8)>>
  ELSE IF program \in {"const_immediate", "const_box", "from_bounded"} THEN <<>>
  ELSE <<ty>>
result(program, ty) ==
  IF program \in {"box", "const_box"} THEN Box(ty)
  ELSE IF program \in {"nullable", "null"} THEN Nullable(ty)
  ELSE IF program = "option" THEN Option(ty)
  ELSE IF program = "pair" THEN Pair(ty)
  ELSE ty

\* Whether there is such a program on a type.
Accepts(program, ty) ==
  /\ \A i \in DOMAIN params(program, ty) : passable(params(program, ty)[i])
  /\ program \in {"rebuild", "boxed_parts"} => is_composite(ty)
  /\ program \in {"const_immediate", "const_box"} => can_be_const(ty)
  /\ program = "from_bounded" => is_plain_enum(ty)
ProgramsOn(ty) == {program \in Programs : Accepts(program, ty)}

-----------------------------------------------------------------------------
(* The programs, compiled: from registers to a register.                   *)

init_variant(ty, m) ==
  IF m = NoBranch THEN UndefReg(build_type(ty)) ELSE build_enum_value(ty, m.branch + 1, m.value)
rebuild(ty, reg) ==
  IF ty.kind = "struct" THEN build_struct_value(ty, build_deconstruct(reg))
  ELSE init_variant(ty, build_match(ty, reg))

\* From boxed parts: each is unboxed on its own.
unboxed_branch(ty, m) ==
  IF m = NoBranch THEN m ELSE [m EXCEPT !.value = unbox(ty.of[m.branch + 1], @)]
rebuild_boxed(ty, box) ==
  IF ty.kind = "struct"
    THEN LET parts == build_boxed_deconstruct(ty, box) IN
         build_struct_value(ty, Listed([i \in DOMAIN ty.of |-> unbox(ty.of[i], parts[i])]))
    ELSE init_variant(ty, unboxed_branch(ty, build_boxed_match(ty, box)))

\* Nullable to box, and back by way of the value in it.
reopen(ty, reg) ==
  LET m == build_match_nullable(reg) IN IF m.branch = 0 THEN build_null ELSE into_box(ty, unbox(ty, m.value))

compiled(program, ty, v, regs) ==
  CASE program = "identity" -> regs[1]
    [] program = "call" -> build_call_of_identity(ty, regs[1])
    [] program = "rebuild" -> rebuild(ty, regs[1])
    [] program = "unbox" -> unbox(ty, into_box(ty, regs[1]))
    [] program = "box" -> into_box(ty, regs[1])
    [] program = "unbox_argument" -> unbox(ty, regs[1])
    [] program = "boxed_parts" -> rebuild_boxed(ty, regs[1])
    [] program \in {"nullable", "null"} -> reopen(ty, regs[1])
    [] program = "option" -> build_enum_value(Option(ty), 1, regs[1])
    [] program = "pair" -> build_struct_value(Pair(ty), <<regs[2], regs[1]>>)
    [] program = "const_immediate" -> build_const_as_immediate(v, ty)
    [] program = "const_box" -> build_const_as_box(v, ty)
    [] program = "from_bounded" -> build_from_bounded_int(ty, ScalarReg(Data(v.n)))

-----------------------------------------------------------------------------
(* The programs, interpreted.                                              *)

interpreted(program, ty, v) ==
  CASE program \in {"identity", "call", "unbox_argument"} -> v
    [] program \in {"rebuild", "boxed_parts"} ->
         IF ty.kind = "struct" THEN eval_construct(eval_deconstruct(v))
         ELSE LET m == eval_match(v) IN eval_init(m.branch, m.value)
    [] program = "unbox" -> eval_unbox(eval_into_box(v))
    [] program = "box" -> eval_into_box(v)
    [] program = "nullable" ->
         eval_nullable_from_box(eval_into_box(eval_unbox(eval_match_nullable(v).value)))
    [] program = "null" -> eval_null
    [] program = "option" -> eval_init(0, v)
    [] program = "pair" -> eval_construct(<<Mark, v>>)
    [] program = "const_immediate" -> eval_as_immediate(v, ty)
    [] program = "const_box" -> eval_as_box(v, ty)
    [] program = "from_bounded" -> eval_from_bounded_int(v.n)

-----------------------------------------------------------------------------
(* The whole way.  A shape is what else the function takes and returns:    *)
(* the types of the arguments before the value, and how many counters.     *)

arguments(program, v) == IF program = "pair" THEN <<v, Mark>> ELSE IF program = "null" THEN <<Null>> ELSE <<v>>

\* The part of a sequence that is the program's own: what comes before it is the shape's.
Own(shape, s) == SubSeq(s, Len(shape.before) + 1, Len(s))
counters(n) == Listed([i \in 1..n |-> ScalarReg(Data(100 + i))])
called(rets, types, args) == entry_args(rets, types, invoke_data(rets, types, args))
returned(rets, regs) == parse_results(rets, function_return(rets, regs))
journey(program, shape, ty, v) ==
  LET types == shape.before \o params(program, ty)
      args == SubSeq([i \in DOMAIN shape.before |-> Num(i)] \o arguments(program, v), 1, Len(types))
      rets == ret_types(shape.builtins, result(program, ty))
  IN returned(rets, Append(counters(shape.builtins),
                           compiled(program, ty, v, Own(shape, called(rets, types, args)))))
=============================================================================
