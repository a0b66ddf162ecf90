--------------------------- MODULE MCLibfuncs ----------------------------
(***************************************************************************)
(* Libfuncs at the least widths that keep their order: bytes of 2 bits,    *)
(* words of 4, a field of 7 bits, circuits on words of four limbs of 2.    *)
(***************************************************************************)
EXTENDS Libfuncs

Composites == INSTANCE MCValueSamples
MCSamples == Composites!SampleValues
MCShapes == Composites!SampleShapes

MCWidths == {2, 4}
MCRanges == {<<-3, 2>>, <<0, 5>>, <<2, 6>>, <<-5, -1>>, <<-5, 0>>, <<1, 2>>, <<0, 1>>}
\* Ends on both sides of every power of two that a common width may have.
MCEnds == {-9, -8, -5, -4, -3, -1, 0, 1, 2, 3, 4, 5, 8, 9, 16}
MCCastRanges == {r \in MCEnds \X MCEnds : r[1] < r[2] /\ r[2] - r[1] < 2 ^ 4}
MCLimbs == {0, 1, 6, 15}
MCInputs == {0, 1, 3, 6, 29, 251, 255}

\* The offsets of a list of gates, each an operation on earlier wires, as the compiler
\* lists them: the result of a difference or an inverse is the unknown left operand.
Kinds == {"add", "sub", "mul", "inv"}
Offsets(gates, kinds, n_inputs) ==
  LET offset(i) == LET g == gates[i]
                       out == n_inputs + i
                   IN IF g.kind \in {"add", "mul"} THEN [lhs |-> g.a, rhs |-> g.b, output |-> out]
                      ELSE IF g.kind = "sub" THEN [lhs |-> out, rhs |-> g.b, output |-> g.a]
                      ELSE [lhs |-> out, rhs |-> g.a, output |-> 0]
      chosen == SelectSeq([i \in DOMAIN gates |-> i], LAMBDA i : gates[i].kind \in kinds)
  IN [i \in DOMAIN chosen |-> offset(chosen[i])]
Circuit(gates, n_inputs) ==
  [n_inputs |-> n_inputs, values |-> Len(gates),
   add_offsets |-> Offsets(gates, {"add", "sub"}, n_inputs),
   mul_offsets |-> Offsets(gates, {"mul", "inv"}, n_inputs)]

Gate(kind, a, b) == [kind |-> kind, a |-> a, b |-> b]
MCCircuits ==
  {Circuit(<<Gate(k, 1, 2), Gate(l, a, b)>>, 2) : k, l \in Kinds, a \in {1, 3}, b \in {2, 3}}
  \cup {Circuit(<<Gate("sub", 1, 2), Gate("inv", 3, 3), Gate("add", 1, 4), Gate("mul", 5, 4)>>, 2)}
=============================================================================
