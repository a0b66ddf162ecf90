--------------------------- MODULE InvocationSpec ---------------------------
(***************************************************************************)
(* What an invocation of compiled code promises: every invocation, nested  *)
(* to any depth through syscalls, runs in a context of its own (its cost   *)
(* table, its count of blake calls, its arena, its dictionaries).  A step  *)
(* of the innermost invocation touches that context only; when it ends,    *)
(* however it ends, the one below continues with its context as it left    *)
(* it.  The code implements this with one set of thread-local variables    *)
(* and the save/restore discipline of InvocationGuard (module Invocation). *)
(***************************************************************************)
EXTENDS Naturals, Sequences

CONSTANTS
  Costs,            \* builtin cost tables
  Arenas,           \* identities of arenas
  Dicts             \* identities of dictionaries

VARIABLES
  frames,           \* contexts, innermost last; the first is the bare thread's
  outcome           \* what the last finished invocation reported (at first: Error)

vars == <<frames, outcome>>

Top == Len(frames)

\* The context of an invocation that is being abandoned means nothing any more.
Failed == [failed |-> TRUE]

\* Ok with the number of blake calls the invocation made, or Err.
Success(n) == [ok |-> TRUE, blake |-> n]
Error == [ok |-> FALSE, blake |-> 0]

Fresh(c, a) == [failed |-> FALSE, costs |-> c, blake |-> 0, arena |-> a, dicts |-> {}]

\* The contexts of the thread and of every invocation that is still running.
Contexts == {frames[i] : i \in {j \in 1..Top : ~frames[j].failed}}

Running == Top > 1 /\ ~frames[Top].failed

Init ==
  /\ \E c \in Costs, a \in Arenas : frames = <<Fresh(c, a)>>
  /\ outcome = Error

\* A new invocation: empty, in an arena no running invocation uses.
Call ==
  /\ \E c \in Costs, a \in Arenas \ {f.arena : f \in Contexts} :
       frames' = Append(frames, Fresh(c, a))
  /\ UNCHANGED outcome

Blake ==
  /\ Running
  /\ frames' = [frames EXCEPT ![Top].blake = @ + 1]
  /\ UNCHANGED outcome

\* The new dictionary is nobody else's.
NewDict ==
  /\ Running
  /\ \E d \in Dicts \ UNION {f.dicts : f \in Contexts} :
       frames' = [frames EXCEPT ![Top].dicts = @ \cup {d}]
  /\ UNCHANGED outcome

\* The invocation reports its own number of blake calls.
Return ==
  /\ Running
  /\ outcome' = Success(frames[Top].blake)
  /\ frames' = SubSeq(frames, 1, Top - 1)

\* The invocation at i, and with it everything it called, is abandoned ...
Fail ==
  /\ \E i \in 2..Top : frames' = Append(SubSeq(frames, 1, i - 1), Failed)
  /\ UNCHANGED outcome

\* ... and reports an error.
ReturnError ==
  /\ Top > 1 /\ frames[Top].failed
  /\ outcome' = Error
  /\ frames' = SubSeq(frames, 1, Top - 1)

Next == Call \/ Blake \/ NewDict \/ Return \/ Fail \/ ReturnError

Spec == Init /\ [][Next]_vars
=============================================================================
