----------------------- MODULE CallingConvention ------------------------
(***************************************************************************)
(* How the host and a compiled function exchange arguments and results on  *)
(* x86_64: invoke_dynamic lays out the words that the trampoline loads     *)
(* into registers and onto the stack, the function finds its arguments     *)
(* where LLVM puts them, and the host parses what comes back.              *)
(***************************************************************************)
EXTENDS ValueMemory

REGISTERS == 6    \* rdi, rsi, rdx, rcx, r8, r9

\* A word: the part-th eight bytes of a scalar that takes parts words.
Word(s, part, parts) == [s |-> s, part |-> part, parts |-> parts]
Padding == Word(Lost, 0, 0)
WordsOfScalar(s, n) == Listed([i \in 1..n |-> Word(s, i, n)])
WordCount(width) == (width + 63) \div 64

-----------------------------------------------------------------------------
(* The host: AbiArgument::to_bytes.                                        *)

align_to(buffer, words) == buffer \o [i \in 1..(AlignUp(Len(buffer), words) - Len(buffer)) |-> Padding]

to_bytes_word(buffer, s) == Append(buffer, Word(s, 1, 1))
\* u128, i128, Felt, [u8; 31]: once five registers are taken, the whole goes to the stack.
to_bytes_wide(buffer, s, words) ==
  (IF Len(buffer) >= REGISTERS - 1 THEN align_to(buffer, 2) ELSE buffer) \o WordsOfScalar(s, words)

RECURSIVE to_bytes(_, _, _)
array_fields(object) ==
  <<ReadBytes(object, 0, 8, FALSE), ReadBytes(object, 8, 4, FALSE),
    ReadBytes(object, 12, 4, FALSE), ReadBytes(object, 16, 4, FALSE)>>
to_bytes_array(buffer, v, ty) == FoldLeft(to_bytes_word, buffer, array_fields(to_ptr(v, ty)))
to_bytes_struct(buffer, v, ty) ==
  FoldLeftDomain(LAMBDA acc, i : to_bytes(acc, v.of[i], ty.of[i]), buffer, ty.of)
\* BoundedInt is not supported as an argument.
to_bytes(buffer, v, ty) ==
  IF ty.kind \in {"box", "nullable"} THEN to_bytes_word(buffer, ReadBytes(to_ptr(v, ty), 0, 8, FALSE))
  ELSE IF ty.kind = "snapshot" THEN to_bytes(buffer, v, Inner(ty))
  ELSE IF ty.kind = "array" THEN to_bytes_array(buffer, v, ty)
  ELSE IF is_memory_allocated(ty) THEN to_bytes_word(buffer, Ptr(to_ptr(v, ty)))
  ELSE IF ty.kind = "struct" THEN to_bytes_struct(buffer, v, ty)
  ELSE IF ty.kind = "enum" THEN to_bytes(buffer, v.of[1], ty.of[1])
  ELSE IF ty.kind = "ec_point"
    THEN to_bytes_wide(to_bytes_wide(buffer, Data(v.of[1].n), 4), Data(v.of[2].n), 4)
  ELSE IF ty.width > 64 THEN to_bytes_wide(buffer, Data(v.n), WordCount(ty.width))
  ELSE to_bytes_word(buffer, Data(v.n))

\* The results that are passed at all; builtins is how many 64-bit counters come first.
Counter == Uint(64)
ret_types(builtins, ty) == [i \in 1..builtins |-> Counter] \o <<ty>>
needs_return_ptr(rets) == Len(rets) > 1 \/ is_complex(rets[1])
return_layout(rets) == ExtendAll(Listed([i \in DOMAIN rets |-> layout(rets[i])]))

\* The buffer, without what the return pointer points to.
return_ptr(rets) == IF needs_return_ptr(rets) THEN <<Word(Ptr(Object(<<>>, 16)), 1, 1)>> ELSE <<>>
pad_stack(data) ==
  IF Len(data) > REGISTERS
    THEN data \o [i \in 1..(AlignUp(Len(data) - REGISTERS, 2) - (Len(data) - REGISTERS)) |-> Padding]
    ELSE data
invoke_data(rets, params, args) ==
  pad_stack(FoldLeftDomain(LAMBDA acc, i : IF is_zst(params[i]) THEN acc ELSE to_bytes(acc, args[i], params[i]),
                           return_ptr(rets), params))

-----------------------------------------------------------------------------
(* LLVM: an aggregate is passed as its scalars, one after the other.  A    *)
(* scalar of several words must begin in one of the first five registers;  *)
(* if it cannot, the last register is given up and it goes to the stack,   *)
(* aligned to sixteen bytes.                                               *)

RECURSIVE Scalars(_)
Scalars(lt) ==
  IF lt.l \in {"int", "ptr", "bits"} THEN IF lt.width = 0 THEN <<>> ELSE <<lt>>
  ELSE IF lt.l = "bytes" THEN [i \in 1..(lt.width \div 8) |-> LInt(8)]
  ELSE FlattenSeq(Listed([i \in DOMAIN lt.of |-> Scalars(lt.of[i])]))

\* at: the places taken so far, in registers and on the stack; found: the scalars read.
Arrive(data, acc, lt) ==
  LET n == WordCount(lt.width)
      aside == n > 1 /\ acc.regs > REGISTERS - 2
      regs == IF aside THEN REGISTERS ELSE acc.regs
      stack == IF aside THEN AlignUp(acc.stack, 2) ELSE acc.stack
      in_regs == IF regs + n <= REGISTERS THEN n ELSE REGISTERS - regs
      place(i) == IF i <= in_regs THEN regs + i ELSE REGISTERS + stack + (i - in_regs)
      right == \A i \in 1..n : place(i) <= Len(data) /\ data[place(i)] = Word(data[place(1)].s, i, n)
  IN [regs |-> regs + in_regs, stack |-> stack + (n - in_regs),
      found |-> Append(acc.found, IF right THEN data[place(1)].s ELSE Lost)]
Arrivals(data, lts) ==
  FoldLeft(LAMBDA acc, lt : Arrive(data, acc, lt), [regs |-> 0, stack |-> 0, found |-> <<>>], lts).found

\* Each type's share of the scalars of all.
ScalarCount(lts) == FoldLeft(+, 0, [i \in DOMAIN lts |-> Len(Scalars(lts[i]))])
Share(lts, found, i) ==
  SubSeq(found, ScalarCount(SubSeq(lts, 1, i - 1)) + 1, ScalarCount(SubSeq(lts, 1, i)))

\* The register of a type, from its scalars.
RECURSIVE Assembled(_, _)
AssembledAll(lts, found) == Listed([i \in DOMAIN lts |-> Assembled(lts[i], Share(lts, found, i))])
Assembled(lt, found) ==
  IF lt.l \in {"int", "ptr"} THEN ScalarReg(found[1])
  ELSE IF lt.l = "struct" THEN StructReg(AssembledAll(lt.of, found))
  ELSE UndefReg(lt)
Arrived(data, lts) == AssembledAll(lts, Arrivals(data, FlattenSeq(Listed([i \in DOMAIN lts |-> Scalars(lts[i])]))))

-----------------------------------------------------------------------------
(* A compiled function.                                                    *)

\* compile_func: arguments and a single result in memory are pointers.
passed_type(ty) == IF is_memory_allocated(ty) THEN LPtr ELSE build_type(ty)
has_manual_return(rets) == Len(rets) = 1 /\ is_memory_allocated(rets[1])
\* The C interface of the entry point returns several results, or a structure, behind a
\* pointer, and LLVM whatever does not fit into two registers.
has_hidden_return(rets) ==
  /\ ~has_manual_return(rets)
  /\ \/ Len(rets) > 1
     \/ build_type(rets[1]).l = "struct"
     \/ build_type(rets[1]).width > 128

return_params(rets) == IF has_manual_return(rets) \/ has_hidden_return(rets) THEN <<LPtr>> ELSE <<>>
entry_arg(ty, reg) == IF is_memory_allocated(ty) THEN LoadBehind(build_type(ty), reg) ELSE reg
entry_args(rets, params, data) ==
  LET pointers == return_params(rets)
      regs == Arrived(data, pointers \o Listed([i \in DOMAIN params |-> passed_type(params[i])]))
  IN Listed([i \in DOMAIN params |-> entry_arg(params[i], regs[Len(pointers) + i])])

\* What comes back: the object behind the return pointer, and the two result registers.
RetWords(lt, reg) ==
  IF lt.l \in {"int", "ptr"} /\ lt.width <= 128
    THEN WordsOfScalar(reg.s, WordCount(lt.width)) ELSE <<>>
function_return(rets, regs) ==
  LET lt == IF Len(rets) = 1 THEN build_type(rets[1]) ELSE LStruct(Listed([i \in DOMAIN rets |-> build_type(rets[i])]))
      reg == IF Len(rets) = 1 THEN regs[1] ELSE StructReg(regs)
      room == return_layout(rets)
  IN IF has_manual_return(rets) \/ has_hidden_return(rets)
       THEN [memory |-> StoredIn(room.size, room.align, lt, reg), words |-> <<>>]
       ELSE [memory |-> NoObject, words |-> RetWords(lt, reg)]

-----------------------------------------------------------------------------
(* The host again: the results.  at is where in the return memory it is.   *)

RegisterValue(words, n) ==
  IF Len(words) >= n /\ \A i \in 1..n : words[i] = Word(words[1].s, i, n) THEN words[1].s ELSE Lost

RECURSIVE parse_result(_, _, _, _)
parse_pointer(ty, back, at, behind) ==
  IF behind THEN ReadBytes(back.memory, at, 8, FALSE) ELSE RegisterValue(back.words, 1)
parse_nullable(ty, back, at, behind) ==
  LET ptr == parse_pointer(ty, back, at, behind) IN
  IF ptr = NullPtr THEN Null ELSE from_ptr_behind(ptr, Inner(ty))
parse_enum(ty, back, at, behind) ==
  IF is_memory_allocated(ty) \/ behind
    THEN IF behind THEN from_ptr(back.memory, at, ty) ELSE Garbage
    ELSE Val(0, <<parse_result(ty.of[1], back, 0, FALSE)>>)
parse_number(ty, back, at, behind) ==
  IF behind THEN from_ptr(back.memory, at, ty)
  ELSE IF ty.width > 128 THEN Garbage
  ELSE Num(NumOf(RegisterValue(back.words, WordCount(ty.width))))

parse_result(ty, back, from, behind) ==
  LET at == AlignUp(from, layout(ty).align) IN
  IF ty.kind = "snapshot" THEN parse_result(Inner(ty), back, at, behind)
  ELSE IF ty.kind = "box" THEN from_ptr_behind(parse_pointer(ty, back, at, behind), Inner(ty))
  ELSE IF ty.kind = "nullable" THEN parse_nullable(ty, back, at, behind)
  ELSE IF ty.kind = "enum" THEN parse_enum(ty, back, at, behind)
  ELSE IF ty = Unit THEN Val(0, <<>>)
  ELSE IF ty.kind \in {"array", "ec_point", "struct"}
    THEN IF behind THEN from_ptr(back.memory, at, ty) ELSE Garbage
  ELSE parse_number(ty, back, at, behind)

\* The counters come first: each is read and stepped over.
parse_results(rets, back) ==
  parse_result(rets[Len(rets)], back, 8 * (Len(rets) - 1), needs_return_ptr(rets))
=============================================================================
