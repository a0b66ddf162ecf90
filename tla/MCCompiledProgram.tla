------------------------- MODULE MCCompiledProgram -------------------------
(***************************************************************************)
(* Small Sierra programs for CompiledProgram: a loop with statements after *)
(* its tail call, with the branches in either order, with a landing block, *)
(* with an ordinary call of itself beside the tail call; two tail calls,   *)
(* which are no loop; calls through memory; and programs that the compiler *)
(* refuses.                                                                *)
(***************************************************************************)
EXTENDS CompiledProgram

MCLibfunc(f, args) ==
  CASE f = "is_zero" -> IF args[1] = 0 THEN [branch |-> 1, results |-> <<>>]
                                       ELSE [branch |-> 2, results |-> args]
    [] f = "is_positive" -> IF args[1] = 0 THEN [branch |-> 2, results |-> <<>>]
                                           ELSE [branch |-> 1, results |-> args]
    [] f = "less" -> [branch |-> IF args[1] < args[2] THEN 1 ELSE 2, results |-> <<>>]
    [] f = "dec" -> [branch |-> 1, results |-> <<args[1] - 1>>]
    [] f = "double_inc" -> [branch |-> 1, results |-> <<(2 * args[1]) + 1>>]
    [] f = "inc" -> [branch |-> 1, results |-> <<args[1] + 1>>]
    [] f = "add" -> [branch |-> 1, results |-> <<args[1] + args[2]>>]
    [] f = "dup" -> [branch |-> 1, results |-> <<args[1], args[1]>>]
    [] f = "zero" -> [branch |-> 1, results |-> <<0>>]
    [] f = "nothing" -> [branch |-> 1, results |-> <<0>>]
    [] f = "drop" -> [branch |-> 1, results |-> <<>>]
    [] f = "jump" -> [branch |-> 1, results |-> <<>>]

To(target, results) == [target |-> target, results |-> results]
Invoke(f, args, branches) == [fn |-> f, args |-> args, branches |-> branches]
Step(f, args, next, results) == Invoke(f, args, <<To(next, results)>>)
Ret(args) == [fn |-> "return", args |-> args, branches |-> <<>>]
Fn(entry, params, types, rets) ==
  [entry |-> entry, params |-> params, types |-> types, rets |-> rets]
One(f, statements) == [statements |-> statements, functions |-> [x \in {"f"} |-> f], main |-> "f"]

Two == <<"register", "register">>

\* f(acc, n): the accumulator grows on the way down and again on the way up.
Countdown(test, ends, down, rets) ==
  One(Fn(1, <<1, 2>>, Two, rets),
      <<Invoke(test, <<2>>, IF test = "is_zero" THEN <<To(ends, <<>>), To(down, <<3>>)>>
                                                ELSE <<To(down, <<3>>), To(ends, <<>>)>>),
        Step("zero", <<>>, 3, <<4>>), Ret(<<1, 4>>),
        Step("dec", <<3>>, 5, <<5>>), Step("inc", <<1>>, 6, <<6>>),
        Step("f", <<6, 5>>, 7, <<7, 8>>),
        Step("double_inc", <<7>>, 8, <<9>>), Ret(<<9, 8>>)>>)

\* The two ends of the loop meet before they return, behind a landing block.
Merging(order) ==
  One(Fn(1, <<1, 2>>, Two, Two),
      <<Invoke(order, <<2>>, IF order = "is_zero" THEN <<To(2, <<>>), To(4, <<3>>)>>
                                                  ELSE <<To(4, <<3>>), To(2, <<>>)>>),
        Step("zero", <<>>, 3, <<4>>), Step("jump", <<>>, 7, <<>>),
        Step("dec", <<3>>, 5, <<5>>), Step("inc", <<1>>, 6, <<6>>),
        Step("f", <<6, 5>>, 7, <<1, 4>>),
        Step("double_inc", <<1>>, 8, <<7>>), Ret(<<7, 4>>)>>)

\* The same, with the return itself behind the landing block.
MergingReturn(order) ==
  [Merging(order) EXCEPT !.statements[7] = Ret(<<1, 4>>), !.statements[8] = Ret(<<>>)]

\* An ordinary call of the function to itself, then a tail call, then work on the results.
BothCalls ==
  One(Fn(1, <<1, 2>>, Two, Two),
      <<Invoke("is_zero", <<2>>, <<To(2, <<>>), To(4, <<3>>)>>),
        Step("zero", <<>>, 3, <<4>>), Ret(<<1, 4>>),
        Step("dec", <<3>>, 5, <<5>>), Step("dup", <<5>>, 6, <<6, 7>>),
        Step("f", <<1, 6>>, 7, <<8, 9>>), Step("add", <<8, 9>>, 8, <<10>>),
        Step("inc", <<10>>, 9, <<11>>),
        Step("f", <<11, 7>>, 10, <<12, 13>>), Step("inc", <<12>>, 11, <<14>>), Ret(<<14, 13>>)>>)

\* Two tail calls: the function is no loop.
TwoTailCalls ==
  One(Fn(1, <<1, 2>>, Two, Two),
      <<Invoke("is_zero", <<2>>, <<To(2, <<>>), To(4, <<3>>)>>),
        Step("zero", <<>>, 3, <<4>>), Ret(<<1, 4>>),
        Step("dec", <<3>>, 5, <<5>>), Step("dup", <<1>>, 6, <<6, 7>>), Step("dup", <<5>>, 7, <<8, 9>>),
        Invoke("less", <<6, 8>>, <<To(8, <<>>), To(11, <<>>)>>),
        Step("inc", <<7>>, 9, <<10>>), Step("f", <<10, 9>>, 10, <<11, 12>>), Ret(<<11, 12>>),
        Step("double_inc", <<7>>, 12, <<13>>), Step("f", <<13, 9>>, 13, <<14, 15>>),
        Ret(<<15, 14>>)>>)

\* g passes a value in memory to f, twice, and adds what comes back; f is a loop.
ThroughMemory ==
  [statements |->
     <<Invoke("is_positive", <<2>>, <<To(4, <<3>>), To(2, <<>>)>>),
       Step("zero", <<>>, 3, <<4>>), Ret(<<1, 4>>),
       Step("dec", <<3>>, 5, <<5>>), Step("inc", <<1>>, 6, <<6>>),
       Step("f", <<6, 5>>, 7, <<7, 8>>), Ret(<<7, 8>>),
       Step("dup", <<1>>, 9, <<2, 3>>), Step("dup", <<2>>, 10, <<4, 5>>),
       Step("f", <<4, 3>>, 11, <<6, 7>>), Step("f", <<5, 6>>, 12, <<8, 9>>),
       Step("add", <<7, 9>>, 13, <<10>>), Step("h", <<10>>, 14, <<11>>),
       Step("add", <<8, 11>>, 15, <<12>>), Ret(<<12>>),
       Step("inc", <<20>>, 17, <<21>>), Ret(<<21>>)>>,
   functions |-> [x \in {"f", "g", "h"} |->
     CASE x = "f" -> Fn(1, <<1, 2>>, <<"memory", "register">>, <<"memory", "register">>)
       [] x = "g" -> Fn(8, <<1>>, <<"register">>, <<"memory">>)
       [] x = "h" -> Fn(16, <<20>>, <<"memory">>, <<"memory">>)],
   main |-> "g"]

\* Branches that meet with different variables alive.
Unbalanced ==
  One(Fn(1, <<1, 2>>, Two, <<"register">>),
      <<Invoke("is_zero", <<2>>, <<To(2, <<>>), To(2, <<3>>)>>), Ret(<<1>>)>>)

\* A loop that returns one value, in a register or in memory.
Single(type) ==
  One(Fn(1, <<2>>, <<"register">>, <<type>>),
      <<Invoke("is_zero", <<2>>, <<To(2, <<>>), To(4, <<3>>)>>),
        Step("zero", <<>>, 3, <<4>>), Ret(<<4>>),
        Step("dec", <<3>>, 5, <<5>>), Step("f", <<5>>, 6, <<6>>), Ret(<<6>>)>>)

MCPrograms ==
  {Countdown("is_zero", 2, 4, Two), Countdown("is_positive", 2, 4, Two),
   Countdown("is_zero", 2, 4, <<"register", "unit">>),
   Merging("is_zero"), Merging("is_positive"),
   MergingReturn("is_zero"), MergingReturn("is_positive"),
   BothCalls, TwoTailCalls, ThroughMemory, Unbalanced, Single("register"), Single("memory")}
=============================================================================
