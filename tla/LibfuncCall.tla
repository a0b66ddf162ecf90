--------------------------- MODULE LibfuncCall ---------------------------
(***************************************************************************)
(* One call of a libfunc, as compiled code computes it on words and as the *)
(* interpreter computes it on values.                                      *)
(***************************************************************************)
EXTENDS MachineIntegers

VARIABLE call    \* the last call: libfunc, branch and results on both sides, result types

NoCall == [fn |-> "none", args |-> <<>>, native |-> Br(0, <<>>), emulated |-> Br(0, <<>>),
           outs |-> <<>>]

\* args: the values of the operands; outs: the types of the results, by branch.
Done(fn, args, native, emulated, outs) ==
  call' = [fn |-> fn, args |-> args, native |-> native, emulated |-> emulated, outs |-> outs]

Unary(fn, ty, build(_), eval(_), outs) ==
  \E x \in WordsOf(ty) : Done(fn, <<ValueOf(ty, x)>>, build(x), eval(ValueOf(ty, x)), outs)

Binary(fn, l, r, build(_, _), eval(_, _), outs) ==
  \E x \in WordsOf(l), y \in WordsOf(r) :
    Done(fn, <<ValueOf(l, x), ValueOf(r, y)>>,
         build(x, y), eval(ValueOf(l, x), ValueOf(r, y)), outs)
=============================================================================
