------------------------- MODULE CircuitLibfuncs -------------------------
(***************************************************************************)
(* The code generated for the libfuncs of circuits: arithmetic modulo a    *)
(* value the program chooses, on words of four limbs (a u384 of u96), and  *)
(* the guarantees that let a verifier check that a value is below another. *)
(***************************************************************************)
EXTENDS WideLibfuncs, SequencesExt

CONSTANT U96    \* bits of a limb

ASSUME U96Assumption == U96 \in Nat \ {0}

U384 == 4 * U96

\* Limbs of a word and the word of limbs, low limb first.
u384_integer_to_struct(x) == [i \in 1..4 |-> trunci(shrui(x, U96 * (i - 1)), U96)]
u384_struct_to_integer(limbs) ==
  FoldSet(LAMBDA i, sum : sum + limbs[i] * 2 ^ (U96 * (i - 1)), 0, DOMAIN limbs)

\* A circuit: inputs, and the gates that add and that multiply in the order they are listed,
\* each lhs op rhs = output on wires. Wire 0 is the constant 1, inputs and gates follow.
Wires(circuit) == 0..(circuit.n_inputs + circuit.values)
Unknown == -1
Given(circuit, inputs) ==
  [i \in Wires(circuit) |-> IF i = 0 THEN 1 ELSE IF i <= circuit.n_inputs THEN inputs[i] ELSE Unknown]

-----------------------------------------------------------------------------
build_try_into_circuit_modulus(limbs) ==
  IF u384_struct_to_integer(limbs) > 1 THEN Br(0, <<u384_struct_to_integer(limbs)>>) ELSE Br(1, <<>>)

build_init_circuit_data == Br(0, <<<<>>>>)

\* The last input turns the accumulator into the circuit's data.
build_add_input(circuit, accumulator, limbs) ==
  LET stored == Append(accumulator, u384_struct_to_integer(limbs))
  IN Br(IF Len(stored) = circuit.n_inputs THEN 0 ELSE 1, <<stored>>)

\* One bit more than the operands for sums and differences, twice the bits for products.
circuit_arith_operation_SameWidth(op, lhs, rhs, modulus) ==
  trunci((IF op = "add" THEN addi(lhs, rhs, U384)
          ELSE IF op = "sub" THEN subi(addi(lhs, modulus, U384), rhs, U384)
          ELSE muli(lhs, rhs, 2 * U384)) % modulus, U384)
circuit_arith_operation(op, lhs, rhs, modulus) ==
  trunci((IF op = "add" THEN addi(lhs, rhs, U384 + 1)
          ELSE IF op = "sub" THEN subi(addi(lhs, modulus, U384 + 1), rhs, U384 + 1)
          ELSE muli(lhs, rhs, 2 * U384)) % modulus, U384)

\* The first division of the loop is by zero when the inverse of zero is asked for: whatever
\* its quotient, the second step divides zero by the modulus and ends with the modulus as gcd.
extended_euclidean_algorithm(a, b) ==
  IF a = 0 THEN [gcd |-> b, coefficient |-> 0] ELSE egcd(U384, a, b)

\* Solves the adding gates from gate i on that can be: for the output, or for lhs when the
\* output is known. What is left is tried again after a multiplying gate.
RECURSIVE AddGates(_, _, _, _)
AddGates(circuit, gates, i, modulus) ==
  LET gate == circuit.add_offsets[i]
      known(wire) == gates[wire] # Unknown
  IN IF i > Len(circuit.add_offsets) THEN [gates |-> gates, next |-> i]
     ELSE IF known(gate.lhs) /\ known(gate.rhs) /\ ~known(gate.output)
     THEN AddGates(circuit, [gates EXCEPT ![gate.output] =
            circuit_arith_operation("add", gates[gate.lhs], gates[gate.rhs], modulus)], i + 1, modulus)
     ELSE IF ~known(gate.lhs) /\ known(gate.rhs) /\ known(gate.output)
     THEN AddGates(circuit, [gates EXCEPT ![gate.lhs] =
            circuit_arith_operation("sub", gates[gate.output], gates[gate.rhs], modulus)], i + 1, modulus)
     ELSE [gates |-> gates, next |-> i]

\* Ends at the first inverse that does not exist, with the gcd that tells why.
RECURSIVE MulGates(_, _, _, _, _)
MulGates(circuit, gates, i, j, modulus) ==
  LET added == AddGates(circuit, gates, i, modulus)
      gate == circuit.mul_offsets[j]
      value(wire) == added.gates[wire]
      product == circuit_arith_operation("mul", value(gate.lhs), value(gate.rhs), modulus)
      euclidean == extended_euclidean_algorithm(value(gate.rhs), modulus)
      solved(wire, x) == MulGates(circuit, [added.gates EXCEPT ![wire] = x], added.next, j + 1, modulus)
  IN IF j > Len(circuit.mul_offsets) THEN [gates |-> added.gates, gcd |-> 1]
     ELSE IF value(gate.lhs) # Unknown THEN solved(gate.output, product)
     ELSE IF euclidean.gcd = 1 THEN solved(gate.lhs, euclidean.coefficient)
     ELSE [gates |-> added.gates, gcd |-> euclidean.gcd]

build_gate_evaluation(circuit, inputs, modulus) == MulGates(circuit, Given(circuit, inputs), 1, 1, modulus)

\* The values of the gates, or a nullifier of the value without an inverse.
build_eval_GcdAsNullifier(circuit, inputs, modulus) ==
  LET end == build_gate_evaluation(circuit, inputs, modulus)
  IN IF end.gcd # 1 THEN Br(1, <<end.gcd, modulus>>)
     ELSE Br(0, [i \in 1..circuit.values |-> end.gates[circuit.n_inputs + i]] \o <<modulus>>)
build_eval(circuit, inputs, modulus) ==
  LET end == build_gate_evaluation(circuit, inputs, modulus)
  IN IF end.gcd # 1 THEN Br(1, <<modulus \div end.gcd, modulus>>)
     ELSE Br(0, [i \in 1..circuit.values |-> end.gates[circuit.n_inputs + i]] \o <<modulus>>)

\* A guarantee that the first of two limb sequences is below the second.
build_get_output(circuit, outputs, wire) ==
  LET output == u384_integer_to_struct(outputs[wire - circuit.n_inputs])
      modulus == u384_integer_to_struct(outputs[circuit.values + 1])
  IN Br(0, <<output, <<output, modulus>>>>)

build_failure_guarantee_verify(nullifier, modulus) ==
  Br(0, <<<<u384_integer_to_struct(nullifier), u384_integer_to_struct(modulus)>>>>)

\* The first limbs that differ show which is below; until then the guarantee gets shorter.
build_u96_limbs_less_than_guarantee_verify(limb_count, guarantee) ==
  LET diff == subi(guarantee[2][limb_count], guarantee[1][limb_count], U96)
      rest(limbs) == SubSeq(limbs, 1, limb_count - 1)
  IN IF diff # 0 THEN Br(1, <<diff>>) ELSE Br(0, <<<<rest(guarantee[1]), rest(guarantee[2])>>>>)
build_u96_single_limb_less_than_guarantee_verify(guarantee) ==
  Br(0, <<subi(guarantee[2][1], guarantee[1][1], U96)>>)
build_u96_limbs_less_than_guarantee_verify_v2 == Br(0, <<>>)

build_into_u96_guarantee(ty, x) == Br(0, <<IF ty.lower > 0 THEN addi(x, Const(ty.lower, U96), U96) ELSE x>>)
build_u96_guarantee_verify == Br(0, <<>>)
=============================================================================
