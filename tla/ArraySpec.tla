----------------------------- MODULE ArraySpec -----------------------------
(***************************************************************************)
(* What the array libfuncs mean: arrays, snapshots and boxes are values.   *)
(* An array is a sequence with one owner; a snapshot is the sequence it    *)
(* was when it was taken, whatever the owner does afterwards; a box is the *)
(* tuple of elements it was made from.  This is the semantics of the       *)
(* reference interpreter, debug_utils/sierra-emu/src/vm/array.rs; the      *)
(* compiled code shares buffers instead (module ArrayArena).               *)
(***************************************************************************)
EXTENDS Integers, Sequences

CONSTANTS
  Values,           \* elements
  SnapIds,          \* variables of the program that hold snapshots
  BoxIds,           \* variables of the program that hold boxes
  Words,            \* the values of a u32
  PopLens           \* tuple sizes the program's multi-pops and conversions name

VARIABLES
  arr,              \* the owned array
  snaps,            \* the snapshots
  boxes,            \* the boxed tuples
  reply             \* branch taken, range checks charged and length returned

vars == <<arr, snaps, boxes, reply>>

\* Every libfunc takes one of its branches.  The interpreter does not count range
\* checks: the numbers are those of the libfuncs' signatures.
Branch(b, checks) == [branch |-> b, checks |-> checks, len |-> 0]

Prefix(s, n) == SubSeq(s, 1, n)
Suffix(s, n) == SubSeq(s, Len(s) - n + 1, Len(s))

Init ==
  /\ arr = <<>>
  /\ snaps = [s \in SnapIds |-> <<>>]
  /\ boxes = [b \in BoxIds |-> <<>>]
  /\ reply = Branch(0, 0)

New ==
  /\ arr' = <<>>
  /\ reply' = Branch(0, 0)
  /\ UNCHANGED <<snaps, boxes>>

\* An array passed in from outside the program: calldata, a syscall's answer.
Receive ==
  /\ arr' \in Seq(Values)
  /\ reply' = Branch(0, 0)
  /\ UNCHANGED <<snaps, boxes>>

AppendTo(v) ==
  /\ arr' = Append(arr, v)
  /\ reply' = Branch(0, 0)
  /\ UNCHANGED <<snaps, boxes>>

\* array_pop_front and array_pop_front_consume: on failure the array was empty.
PopFront(b) ==
  /\ UNCHANGED snaps
  /\ IF arr # <<>>
     THEN /\ arr' = Tail(arr)
          /\ boxes' = [boxes EXCEPT ![b] = Prefix(arr, 1)]
          /\ reply' = Branch(0, 0)
     ELSE /\ reply' = Branch(1, 0)
          /\ UNCHANGED <<arr, boxes>>

SnapshotTake(s) ==
  /\ snaps' = [snaps EXCEPT ![s] = arr]
  /\ reply' = Branch(0, 0)
  /\ UNCHANGED <<arr, boxes>>

\* dup: a snapshot is copied freely.
Dup(s, t) ==
  /\ snaps' = [snaps EXCEPT ![t] = snaps[s]]
  /\ reply' = Branch(0, 0)
  /\ UNCHANGED <<arr, boxes>>

\* array_snapshot_[multi_]pop_{front,back}: n elements go to a box.
SnapshotPop(s, b, n, checks, back) ==
  /\ UNCHANGED arr
  /\ IF n <= Len(snaps[s])
     THEN LET kept == Len(snaps[s]) - n
          IN  /\ snaps' = [snaps EXCEPT ![s] =
                             IF back THEN Prefix(@, kept) ELSE Suffix(@, kept)]
              /\ boxes' = [boxes EXCEPT ![b] =
                             IF back THEN Suffix(snaps[s], n) ELSE Prefix(snaps[s], n)]
              /\ reply' = Branch(0, checks)
     ELSE /\ reply' = Branch(1, checks)
          /\ UNCHANGED <<snaps, boxes>>

Get(s, i, b) ==
  /\ UNCHANGED <<arr, snaps>>
  /\ IF i < Len(snaps[s])
     THEN /\ boxes' = [boxes EXCEPT ![b] = <<snaps[s][i + 1]>>]
          /\ reply' = Branch(0, 1)
     ELSE /\ reply' = Branch(1, 1)
          /\ UNCHANGED boxes

\* A sum beyond 32 bits takes the failing branch too.
Slice(s, from, n) ==
  /\ UNCHANGED <<arr, boxes>>
  /\ IF from + n <= Len(snaps[s])
     THEN /\ snaps' = [snaps EXCEPT ![s] = SubSeq(@, from + 1, from + n)]
          /\ reply' = Branch(0, 1)
     ELSE /\ reply' = Branch(1, 1)
          /\ UNCHANGED snaps

Length(s) ==
  /\ reply' = [Branch(0, 0) EXCEPT !.len = Len(snaps[s])]
  /\ UNCHANGED <<arr, snaps, boxes>>

TupleFromSpan(s, b, n) ==
  /\ UNCHANGED <<arr, snaps>>
  /\ IF Len(snaps[s]) = n
     THEN /\ boxes' = [boxes EXCEPT ![b] = snaps[s]]
          /\ reply' = Branch(0, 0)
     ELSE /\ reply' = Branch(1, 0)
          /\ UNCHANGED boxes

SpanFromTuple(b, s) ==
  /\ snaps' = [snaps EXCEPT ![s] = boxes[b]]
  /\ reply' = Branch(0, 0)
  /\ UNCHANGED <<arr, boxes>>

Next ==
  \/ New \/ Receive
  \/ \E v \in Values : AppendTo(v)
  \/ \E b \in BoxIds : PopFront(b)
  \/ \E s \in SnapIds : SnapshotTake(s) \/ Length(s)
  \/ \E s, t \in SnapIds : Dup(s, t)
  \/ \E s \in SnapIds, b \in BoxIds, back \in BOOLEAN :
       \/ SnapshotPop(s, b, 1, 0, back)
       \/ \E n \in PopLens : SnapshotPop(s, b, n, 1, back)
  \/ \E s \in SnapIds, b \in BoxIds, i \in Words : Get(s, i, b)
  \/ \E s \in SnapIds, from, n \in Words : Slice(s, from, n)
  \/ \E s \in SnapIds, b \in BoxIds :
       \/ \E n \in PopLens : TupleFromSpan(s, b, n)
       \/ SpanFromTuple(b, s)

Spec == Init /\ [][Next]_vars
=============================================================================
