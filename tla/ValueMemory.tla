-------------------------- MODULE ValueMemory ---------------------------
(***************************************************************************)
(* Memory that values lie in, and the two sides that read and write it:    *)
(* Value::{to_ptr, from_ptr} of the host, LLVM's loads and stores in       *)
(* compiled code.  A byte of memory is the k-th byte of a number or of a   *)
(* pointer, or junk; the first one stands for it.  Nothing is written      *)
(* through a pointer after it was handed out, so that a pointer carries    *)
(* the object it points to.                                                *)
(***************************************************************************)
EXTENDS TypeLayouts

\* Values: n is the number, the tag, or how long an array is.
Val(n, of) == [n |-> n, of |-> of]
Num(n) == Val(n, <<>>)
Null == Num(-1)
Garbage == Num(-2)     \* what is read where no such value was written

NoObject == [cells |-> <<>>, align |-> 0]
Scalar(num, to, at) == [num |-> num, to |-> to, at |-> at]
Data(n) == Scalar(n, NoObject, 0)
NullPtr == Data(-1)
Lost == Data(-2)
Ptr(object) == Scalar(0, object, 0)
Shifted(ptr, by) == [ptr EXCEPT !.at = @ + by]
NumOf(scalar) == IF scalar.to = NoObject THEN scalar.num ELSE -2

\* dirty: the bits of the last byte that are not the scalar's may be set.
Cell(scalar, k, of, dirty) ==
  [s |-> IF k = 1 THEN scalar ELSE Lost, k |-> k, of |-> of, dirty |-> dirty]
Junk == Cell(Lost, 0, 0, FALSE)
JunkCells(n) == Listed([i \in 1..n |-> Junk])
HostBytes(scalar, n) == Listed([k \in 1..n |-> Cell(scalar, k, n, FALSE)])
CompiledBytes(scalar, width) ==
  LET n == CeilBytes(width) IN Listed([k \in 1..n |-> Cell(scalar, k, n, k = n /\ width % 8 # 0)])

Object(cells, align) == [cells |-> cells, align |-> align]
Resize(cells, n) == SubSeq(cells, 1, MaxOf(0, IF Len(cells) < n THEN Len(cells) ELSE n))
                    \o JunkCells(MaxOf(0, n - Len(cells)))
Copied(cells, at, n) == Resize(SubSeq(cells, at + 1, Len(cells)), n)

\* The parts, each at its offset, in an object of the given size.
Placed(size, offsets, parts) ==
  Listed([b \in 1..size |->
     LET here == {i \in DOMAIN parts : b \in (offsets[i] + 1)..(offsets[i] + Len(parts[i]))} IN
     IF here = {} THEN Junk ELSE LET i == Max(here) IN parts[i][b - offsets[i]]])

\* n bytes that one scalar was written as; its value is only right if the rest of the last
\* byte is clean or masked away.
ReadBytes(object, at, n, masked) ==
  LET c == object.cells IN
  IF at + n <= Len(c) /\ n > 0
     /\ \A k \in 1..n : c[at + k].k = k /\ c[at + k].of = n
     /\ (masked \/ ~c[at + n].dirty)
    THEN c[at + 1].s
    ELSE Lost
Aligned(object, at, align) == at % align = 0 /\ object.align % align = 0

-----------------------------------------------------------------------------
(* The host.                                                               *)

\* An object of a layout, and what to_ptr copies out of one for the object around it.
PlacedIn(whole, offsets, parts) == Object(Placed(whole.size, offsets, parts), whole.align)
CopyOf(object, whole) == Copied(object.cells, 0, whole.size)

\* The address of the value's representation, in the arena.
RECURSIVE to_ptr(_, _)
to_ptr_elems(elems, elem) ==
  PlacedIn(Layout(elem.size * Len(elems), elem.align), [i \in DOMAIN elems |-> (i - 1) * elem.size],
           Listed([i \in DOMAIN elems |-> CopyOf(elems[i], elem)]))
to_ptr_array(v, elem) ==
  LET word(n) == HostBytes(Data(n), 4)
      data == IF v.of = <<>> THEN NullPtr
              ELSE Ptr(to_ptr_elems(Listed([i \in DOMAIN v.of |-> to_ptr(v.of[i], elem)]), layout(elem)))
  IN Object(HostBytes(data, 8) \o word(0) \o word(Len(v.of)) \o word(Len(v.of)), 8)
to_ptr_struct(v, ty) ==
  PlacedIn(layout(ty), member_offsets(ty),
           Listed([i \in DOMAIN ty.of |-> CopyOf(to_ptr(v.of[i], ty.of[i]), layout(ty.of[i]))]))
to_ptr_enum(v, ty) ==
  LET payload_ty == ty.of[v.n + 1] IN
  PlacedIn(enum_layout(ty.of), <<0, payload_offset(ty.of, v.n + 1)>>,
           <<HostBytes(Data(v.n), tag_layout(ty.of).size),
             CopyOf(to_ptr(v.of[1], payload_ty), layout(payload_ty))>>)
to_ptr_boxed(v, inner) ==
  Object(HostBytes(Ptr(PlacedIn(layout(inner), <<0>>, <<CopyOf(to_ptr(v, inner), layout(inner))>>)), 8), 8)
to_ptr_scalar(v, width) ==
  Object(HostBytes(Data(v.n), CeilBytes(width)), get_integer_layout(width).align)
felt_slot(v) == HostBytes(Data(v.n), CeilBytes(252))

to_ptr(v, ty) ==
  IF ty.kind = "snapshot" THEN to_ptr(v, Inner(ty))
  ELSE IF ty.kind = "nullable" /\ v = Null THEN Object(HostBytes(NullPtr, 8), 8)
  ELSE IF ty.kind \in {"box", "nullable"} THEN to_ptr_boxed(v, Inner(ty))
  ELSE IF ty.kind = "array" THEN to_ptr_array(v, Inner(ty))
  ELSE IF ty.kind = "struct" THEN to_ptr_struct(v, ty)
  ELSE IF ty.kind = "enum" THEN to_ptr_enum(v, ty)
  ELSE IF ty.kind = "ec_point" THEN Object(felt_slot(v.of[1]) \o felt_slot(v.of[2]), 16)
  ELSE to_ptr_scalar(v, ty.width)

\* The value that lies at an address.
RECURSIVE from_ptr(_, _, _)
read_scalar(object, at, n, masked) == Num(NumOf(ReadBytes(object, at, n, masked)))
from_ptr_behind(ptr, ty) == IF ptr.to = NoObject THEN Garbage ELSE from_ptr(ptr.to, ptr.at, ty)
from_ptr_nullable(object, at, inner) ==
  LET ptr == ReadBytes(object, at, 8, FALSE) IN
  IF ptr = NullPtr THEN Null ELSE from_ptr_behind(ptr, inner)
from_ptr_array(object, at, elem) ==
  LET data == ReadBytes(object, at, 8, FALSE)
      since == NumOf(ReadBytes(object, at + 8, 4, FALSE))
      until == NumOf(ReadBytes(object, at + 12, 4, FALSE))
  IN IF data = NullPtr THEN Num(0)
     ELSE IF data.to = NoObject \/ since < 0 \/ until < since THEN Garbage
     ELSE Val(until - since,
              Listed([i \in 1..(until - since) |->
                        from_ptr(data.to, data.at + layout(elem).size * (since + i - 1), elem)]))
from_ptr_enum(object, at, ty) ==
  LET tag == IF Len(ty.of) = 1 THEN 0
             ELSE NumOf(ReadBytes(object, at, tag_layout(ty.of).size, TRUE))
  IN IF tag \notin 0..(Len(ty.of) - 1) THEN Garbage
     ELSE Val(tag, <<from_ptr(object, at + payload_offset(ty.of, tag + 1), ty.of[tag + 1])>>)
from_ptr_struct(object, at, ty) ==
  Val(0, Listed([i \in DOMAIN ty.of |-> from_ptr(object, at + member_offsets(ty)[i], ty.of[i])]))

from_ptr(object, at, ty) ==
  IF ty.kind = "snapshot" THEN from_ptr(object, at, Inner(ty))
  ELSE IF ty.kind = "box" THEN from_ptr_behind(ReadBytes(object, at, 8, FALSE), Inner(ty))
  ELSE IF ty.kind = "nullable" THEN from_ptr_nullable(object, at, Inner(ty))
  ELSE IF ty.kind = "array" THEN from_ptr_array(object, at, Inner(ty))
  ELSE IF ty.kind = "struct" THEN from_ptr_struct(object, at, ty)
  ELSE IF ty.kind = "enum" THEN from_ptr_enum(object, at, ty)
  ELSE IF ty.kind = "ec_point"
    THEN Val(0, <<read_scalar(object, at, 32, TRUE), read_scalar(object, at + 32, 32, TRUE)>>)
  ELSE read_scalar(object, at, CeilBytes(ty.width), ty.kind \in {"felt", "bounded"})

-----------------------------------------------------------------------------
(* Compiled code.  A register holds a scalar, the parts of a structure, or *)
(* the bytes of an opaque block.                                           *)

Reg(s, of, cells) == [s |-> s, of |-> of, cells |-> cells]
ScalarReg(s) == Reg(s, <<>>, <<>>)
StructReg(of) == Reg(Lost, of, <<>>)

RECURSIVE UndefReg(_)
UndefReg(lt) ==
  IF lt.l \in {"bits", "bytes"} THEN Reg(Lost, <<>>, JunkCells(lt.width \div 8))
  ELSE IF lt.l \in {"int", "ptr"} THEN ScalarReg(Lost)
  ELSE StructReg(Listed([i \in DOMAIN lt.of |-> UndefReg(lt.of[i])]))

\* The bytes that a store of a register writes: what lies between its parts is lost.
RECURSIVE Stored(_, _)
Stored(lt, reg) ==
  IF lt.l \in {"bits", "bytes"} THEN Resize(reg.cells, lt.width \div 8)
  ELSE IF lt.l \in {"int", "ptr"} THEN CompiledBytes(reg.s, lt.width)
  ELSE Placed(LLayout(lt).size, FieldOffsets(lt),
              Listed([i \in DOMAIN lt.of |-> Stored(lt.of[i], reg.of[i])]))

RECURSIVE Load(_, _, _)
Load(lt, object, at) ==
  IF ~Aligned(object, at, LLayout(lt).align) /\ LLayout(lt).size > 0 THEN UndefReg(lt)
  ELSE IF lt.l \in {"bits", "bytes"} THEN Reg(Lost, <<>>, Copied(object.cells, at, lt.width \div 8))
  ELSE IF lt.l \in {"int", "ptr"} THEN ScalarReg(ReadBytes(object, at, CeilBytes(lt.width), TRUE))
  ELSE StructReg(Listed([i \in DOMAIN lt.of |-> Load(lt.of[i], object, at + FieldOffsets(lt)[i])]))

\* An object with room for a type, with a register stored at its start.  Bytes beyond its end
\* would overwrite something else: nothing is relied upon then.
StoredIn(size, align, lt, reg) ==
  LET cells == Stored(lt, reg) IN
  IF \E b \in (size + 1)..Len(cells) : cells[b] # Junk THEN Object(JunkCells(size), align)
  ELSE Object(Resize(cells, size), align)
LoadBehind(lt, ptr) == IF ptr.s.to = NoObject THEN UndefReg(lt) ELSE Load(lt, ptr.s.to, ptr.s.at)
=============================================================================
