----------------------------- MODULE ArrayArena -----------------------------
(***************************************************************************)
(* The array libfuncs as compiled code executes them (libfuncs/array.rs).  *)
(* An array is four words: a pointer to a buffer in the invocation's       *)
(* arena, the offsets start and end of its elements, the capacity of the   *)
(* buffer.  Snapshots and duplicates copy the four words, boxes point into *)
(* buffers; nobody counts references, and the only owner appends in place. *)
(* That this is safe is the claim: module ArraySpec is what it implements. *)
(*                                                                         *)
(* Offsets and capacities are u32 in the code, Modulus here.  Pointers are *)
(* a buffer and an element offset; memory fresh from the arena is Undef.   *)
(***************************************************************************)
EXTENDS Integers, Sequences

CONSTANTS
  Values,           \* elements
  Undef,            \* content of memory nobody has written
  SnapIds,          \* variables of the program that hold snapshots
  BoxIds,           \* variables of the program that hold boxes
  Modulus,          \* 2^32: offsets, lengths and capacities are words below it
  MinCapacity,      \* 8: capacity of the first buffer
  PopLens,          \* tuple sizes the program names
  ReceiveLens,      \* lengths of arrays that come from the host
  MaxEnd,           \* bound: elements ever appended to one array
  MaxBuffers        \* bound: buffers in the arena

Words == 0..(Modulus - 1)

ASSUME UndefAssumption == Undef \notin Values
ASSUME WordsAssumption ==
  /\ Modulus \in Nat /\ Modulus > 1
  /\ MinCapacity \in Words \ {0}
  /\ MaxEnd \in Words
  /\ MaxBuffers \in Nat
  /\ PopLens \subseteq Words \ {0}
  /\ ReceiveLens \subseteq 0..MaxEnd

VARIABLES
  heap,             \* the arena's buffers, each a function from 0..size-1
  owner,            \* the array variable of the program
  snaps,            \* its snapshot variables
  boxes,            \* its box variables: pointer and number of elements
  reply             \* branch taken, range checks charged and length returned

vars == <<heap, owner, snaps, boxes, reply>>

\* (ptr, start, end, capacity); buffer 0 is the null pointer.
NullArray == [buf |-> 0, off |-> 0, start |-> 0, end |-> 0, cap |-> 0]
NullBox == [buf |-> 0, off |-> 0, n |-> 0]

Branch(b, checks) == [branch |-> b, checks |-> checks, len |-> 0]

\* Wrapping 32-bit arithmetic (and a subtraction the wrong way round).
AddW(x, y) == (x + y) % Modulus
SubW_Signed(x, y) == y - x
SubW(x, y) == (x - y) % Modulus
LenW(a) == SubW(a.end, a.start)

\* A load outside a buffer finds bytes that mean nothing; a store there changes no
\* buffer of the program (the invariant InBounds excludes both).
InBuffer(b, i) == b \in DOMAIN heap /\ i \in DOMAIN heap[b]
Load(b, i) == IF InBuffer(b, i) THEN heap[b][i] ELSE Undef
StoreIn(h, b, i, v) ==
  IF b \in DOMAIN h /\ i \in DOMAIN h[b] THEN [h EXCEPT ![b][i] = v] ELSE h

Init ==
  /\ heap = <<>>
  /\ owner = NullArray
  /\ snaps = [s \in SnapIds |-> NullArray]
  /\ boxes = [b \in BoxIds |-> NullBox]
  /\ reply = Branch(0, 0)

-----------------------------------------------------------------------------
(* The owner. *)

\* array_new
New ==
  /\ owner' = NullArray
  /\ reply' = Branch(0, 0)
  /\ UNCHANGED <<heap, snaps, boxes>>

\* Calldata and answers of syscalls: a buffer of exactly the length, null when empty.
Receive(n) ==
  /\ \/ /\ n = 0
        /\ owner' = NullArray
        /\ UNCHANGED heap
     \/ /\ n > 0 /\ Len(heap) < MaxBuffers
        /\ \E data \in [0..(n - 1) -> Values] : heap' = Append(heap, data)
        /\ owner' = [buf |-> Len(heap) + 1, off |-> 0, start |-> 0, end |-> n, cap |-> n]
  /\ reply' = Branch(0, 0)
  /\ UNCHANGED <<snaps, boxes>>

\* compute_next_capacity: shift left by one in 32 bits, at least MinCapacity.
NextCapacity(cap) ==
  LET doubled == (2 * cap) % Modulus
  IN  IF doubled < MinCapacity THEN MinCapacity ELSE doubled

\* Growth that copies from start but leaves the offsets as they were.
Buffer_FromStart(cap, n) ==
  [i \in 0..(cap - 1) |->
     IF i < n THEN Load(owner.buf, owner.off + owner.start + i) ELSE Undef]

\* A buffer of cap elements whose first n are copied from the array's buffer.
Buffer(cap, n) ==
  [i \in 0..(cap - 1) |-> IF i < n THEN Load(owner.buf, owner.off + i) ELSE Undef]

\* array_append with room: the element is stored at end, in the shared buffer.
AppendInPlace(v) ==
  /\ owner.buf # 0 /\ owner.end < owner.cap /\ owner.end < MaxEnd
  /\ heap' = StoreIn(heap, owner.buf, owner.off + owner.end, v)
  /\ owner' = [owner EXCEPT !.end = AddW(@, 1)]
  /\ reply' = Branch(0, 0)
  /\ UNCHANGED <<snaps, boxes>>

\* array_append without room: a new buffer, [0, end) copied, the old one abandoned to
\* its snapshots.  A null array has capacity 0 and nothing to copy.
AppendGrowing(v) ==
  /\ owner.buf = 0 \/ owner.end >= owner.cap
  /\ owner.end < MaxEnd /\ Len(heap) < MaxBuffers
  /\ LET cap == NextCapacity(owner.cap)
         new == Len(heap) + 1
     IN  /\ heap' = StoreIn(Append(heap, Buffer(cap, owner.end)), new, owner.end, v)
         /\ owner' = [owner EXCEPT !.buf = new, !.off = 0, !.cap = cap, !.end = AddW(@, 1)]
  /\ reply' = Branch(0, 0)
  /\ UNCHANGED <<snaps, boxes>>

\* An array that becomes empty starts again at the beginning of its buffer.
PopFront_Rewind(b) ==
  /\ UNCHANGED <<heap, snaps>>
  /\ IF 1 <= LenW(owner)
     THEN /\ owner' = IF LenW(owner) = 1 THEN [owner EXCEPT !.start = 0, !.end = 0]
                      ELSE [owner EXCEPT !.start = AddW(@, 1)]
          /\ boxes' = [boxes EXCEPT ![b] =
                         [buf |-> owner.buf, off |-> owner.off + owner.start, n |-> 1]]
          /\ reply' = Branch(0, 0)
     ELSE /\ reply' = Branch(1, 0)
          /\ UNCHANGED <<owner, boxes>>

\* array_pop_front[_consume]: the box points at the element, start moves past it.
PopFront(b) ==
  /\ UNCHANGED <<heap, snaps>>
  /\ IF 1 <= LenW(owner)
     THEN /\ owner' = [owner EXCEPT !.start = AddW(@, 1)]
          /\ boxes' = [boxes EXCEPT ![b] =
                         [buf |-> owner.buf, off |-> owner.off + owner.start, n |-> 1]]
          /\ reply' = Branch(0, 0)
     ELSE /\ reply' = Branch(1, 0)
          /\ UNCHANGED <<owner, boxes>>

-----------------------------------------------------------------------------
(* Snapshots and boxes. *)

\* snapshot_take and dup: the same four words twice.
SnapshotTake(s) ==
  /\ snaps' = [snaps EXCEPT ![s] = owner]
  /\ reply' = Branch(0, 0)
  /\ UNCHANGED <<heap, owner, boxes>>

Dup(s, t) ==
  /\ snaps' = [snaps EXCEPT ![t] = snaps[s]]
  /\ reply' = Branch(0, 0)
  /\ UNCHANGED <<heap, owner, boxes>>

\* build_pop with CONSUME = false: REVERSE pops at the end; multi-pops charge a check.
SnapshotPop(s, b, n, checks, back) ==
  LET a == snaps[s]
      end == SubW(a.end, n)
      at == a.off + (IF back THEN end ELSE a.start)
  IN  /\ UNCHANGED <<heap, owner>>
      /\ IF n <= LenW(a)
         THEN /\ snaps' = [snaps EXCEPT ![s] =
                             IF back THEN [a EXCEPT !.end = end]
                                     ELSE [a EXCEPT !.start = AddW(@, n)]]
              /\ boxes' = [boxes EXCEPT ![b] = [buf |-> a.buf, off |-> at, n |-> n]]
              /\ reply' = Branch(0, checks)
         ELSE /\ reply' = Branch(1, checks)
              /\ UNCHANGED <<snaps, boxes>>

\* array_get
Get(s, i, b) ==
  LET a == snaps[s]
  IN  /\ UNCHANGED <<heap, owner, snaps>>
      /\ IF i < LenW(a)
         THEN /\ boxes' = [boxes EXCEPT ![b] =
                             [buf |-> a.buf, off |-> a.off + AddW(a.start, i), n |-> 1]]
              /\ reply' = Branch(0, 1)
         ELSE /\ reply' = Branch(1, 1)
              /\ UNCHANGED boxes

\* The bound computed in 32 bits.
SliceFits_Narrow(a, from, n) == AddW(from, n) <= LenW(a)

\* The bound is computed in 64 bits: from + n does not wrap.
SliceFits(a, from, n) == from + n <= LenW(a)

\* array_slice
Slice(s, from, n) ==
  LET a == snaps[s]
      start == AddW(a.start, from)
  IN  /\ UNCHANGED <<heap, owner, boxes>>
      /\ IF SliceFits(a, from, n)
         THEN /\ snaps' = [snaps EXCEPT ![s] =
                             [a EXCEPT !.start = start, !.end = AddW(start, n)]]
              /\ reply' = Branch(0, 1)
         ELSE /\ reply' = Branch(1, 1)
              /\ UNCHANGED snaps

\* array_len
Length(s) ==
  /\ reply' = [Branch(0, 0) EXCEPT !.len = LenW(snaps[s])]
  /\ UNCHANGED <<heap, owner, snaps, boxes>>

\* tuple_from_span: the box points at the first element of the span.
TupleFromSpan(s, b, n) ==
  LET a == snaps[s]
  IN  /\ UNCHANGED <<heap, owner, snaps>>
      /\ IF LenW(a) = n
         THEN /\ boxes' = [boxes EXCEPT ![b] =
                             [buf |-> a.buf, off |-> a.off + a.start, n |-> n]]
              /\ reply' = Branch(0, 0)
         ELSE /\ reply' = Branch(1, 0)
              /\ UNCHANGED boxes

\* span_from_tuple: the span aliases the box.
SpanFromTuple(b, s) ==
  /\ snaps' = [snaps EXCEPT ![s] = [buf |-> boxes[b].buf, off |-> boxes[b].off,
                                    start |-> 0, end |-> boxes[b].n, cap |-> boxes[b].n]]
  /\ reply' = Branch(0, 0)
  /\ UNCHANGED <<heap, owner, boxes>>

-----------------------------------------------------------------------------

Next ==
  \/ New
  \/ \E n \in ReceiveLens : Receive(n)
  \/ \E v \in Values : AppendInPlace(v) \/ AppendGrowing(v)
  \/ \E b \in BoxIds : PopFront(b)
  \/ \E s \in SnapIds : SnapshotTake(s) \/ Length(s)
  \/ \E s, t \in SnapIds : Dup(s, t)
  \/ \E s \in SnapIds, b \in BoxIds, back \in BOOLEAN :
       \/ SnapshotPop(s, b, 1, 0, back)
       \/ \E n \in PopLens : SnapshotPop(s, b, n, 1, back)
  \/ \E s \in SnapIds, b \in BoxIds, i \in Words : Get(s, i, b)
  \/ \E s \in SnapIds, from, n \in Words : Slice(s, from, n)
  \/ \E s \in SnapIds, b \in BoxIds :
       \/ \E n \in PopLens : TupleFromSpan(s, b, n)
       \/ SpanFromTuple(b, s)

Spec == Init /\ [][Next]_vars

-----------------------------------------------------------------------------
(* Properties *)

Handle == [buf : 0..MaxBuffers, off : Nat, start : Words, end : Words, cap : Words]

TypeOK ==
  /\ heap \in Seq(UNION {[0..(n - 1) -> Values \cup {Undef}] : n \in Words})
  /\ Len(heap) <= MaxBuffers
  /\ owner \in Handle
  /\ snaps \in [SnapIds -> Handle]
  /\ boxes \in [BoxIds -> [buf : 0..MaxBuffers, off : Nat, n : Words]]
  /\ reply \in [branch : 0..1, checks : 0..1, len : Words]

\* The cells a handle may read.
Cells(a) == {<<a.buf, a.off + i>> : i \in a.start..(a.end - 1)}
BoxCells(x) == {<<x.buf, x.off + i>> : i \in 0..(x.n - 1)}

\* Every cell that the array, a snapshot or a box can read lies in its buffer and has
\* been written; the owner's capacity is the size of its buffer (array_append).
InBounds ==
  /\ \A c \in Cells(owner) \cup (UNION {Cells(snaps[s]) : s \in SnapIds})
                           \cup (UNION {BoxCells(boxes[b]) : b \in BoxIds}) :
       InBuffer(c[1], c[2]) /\ heap[c[1]][c[2]] # Undef
  /\ owner.buf # 0 => owner.off = 0 /\ DOMAIN heap[owner.buf] = 0..(owner.cap - 1)
  /\ owner.end <= owner.cap /\ owner.start <= owner.end

\* What append relies on when it writes into a shared buffer: the cell after the
\* owner's last one is visible through no snapshot and no box.
TailUnshared ==
  \A i \in Nat \cap (owner.end..owner.cap) :
    LET cell == <<owner.buf, owner.off + i>>
    IN  /\ \A s \in SnapIds : cell \notin Cells(snaps[s])
        /\ \A b \in BoxIds : cell \notin BoxCells(boxes[b])

\* A written cell is never written again: buffers are only filled (array_append).
WriteOnce ==
  [][\A b \in DOMAIN heap :
       \A i \in DOMAIN heap[b] : heap[b][i] # Undef => heap'[b][i] = heap[b][i]]_vars

-----------------------------------------------------------------------------
(* The words and buffers implement values. *)

Elements(a) == [i \in 1..(a.end - a.start) |-> Load(a.buf, a.off + a.start + i - 1)]
Boxed(x) == [i \in 1..x.n |-> Load(x.buf, x.off + i - 1)]

Abstract == INSTANCE ArraySpec
  WITH arr <- Elements(owner),
       snaps <- [s \in SnapIds |-> Elements(snaps[s])],
       boxes <- [b \in BoxIds |-> Boxed(boxes[b])]

\* Compiled arrays behave as the values of the reference interpreter: sharing,
\* in-place appends and abandoned buffers are invisible to the program.
ValueSemantics == Abstract!Spec
=============================================================================
