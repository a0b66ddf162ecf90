------------------------- MODULE CircuitEmulator -------------------------
(***************************************************************************)
(* What sierra-emu does for the libfuncs of circuits (vm/circuit.rs).      *)
(***************************************************************************)
EXTENDS MachineIntegers, SequencesExt

CONSTANT U96

u384_to_struct(x) == [i \in 1..4 |-> (x \div 2 ^ (U96 * (i - 1))) % 2 ^ U96]
struct_to_u384(limbs) ==
  FoldSet(LAMBDA i, sum : sum + limbs[i] * 2 ^ (U96 * (i - 1)), 0, DOMAIN limbs)

eval_try_into_circuit_modulus(limbs) ==
  IF struct_to_u384(limbs) > 1 THEN Br(0, <<struct_to_u384(limbs)>>) ELSE Br(1, <<>>)
eval_init_circuit_data == Br(0, <<<<>>>>)
eval_add_input(circuit, accumulator, limbs) ==
  LET values == Append(accumulator, struct_to_u384(limbs))
  IN Br(IF Len(values) = circuit.n_inputs THEN 0 ELSE 1, <<values>>)

\* Positions not yet computed hold nothing; a difference of naturals below zero panics.
Nothing == -1
Panic == Br(-1, <<>>)
RECURSIVE EvalAdds(_, _, _, _)
EvalAdds(circuit, outputs, i, modulus) ==
  LET gate == circuit.add_offsets[i]
      l == outputs[gate.lhs]
      r == outputs[gate.rhs]
      res == outputs[gate.output]
      stop(panics) == [outputs |-> outputs, next |-> i, panics |-> panics]
  IN IF i > Len(circuit.add_offsets) THEN stop(FALSE)
     ELSE IF r = Nothing \/ (l = Nothing /\ res = Nothing) THEN stop(FALSE)
     ELSE IF l # Nothing
     THEN EvalAdds(circuit, [outputs EXCEPT ![gate.output] = (l + r) % modulus], i + 1, modulus)
     ELSE IF r > res + modulus THEN stop(TRUE)
     ELSE EvalAdds(circuit, [outputs EXCEPT ![gate.lhs] = (res + modulus - r) % modulus], i + 1, modulus)

Inverses(x, modulus) == {y \in 0..(modulus - 1) : (x * y) % modulus = 1}

\* The nullifier found for a value without an inverse is not handed on.
RECURSIVE EvalMuls(_, _, _, _, _)
EvalMuls(circuit, outputs, i, j, modulus) ==
  LET added == EvalAdds(circuit, outputs, i, modulus)
      gate == circuit.mul_offsets[j]
      l == added.outputs[gate.lhs]
      r == added.outputs[gate.rhs]
      next(wire, x) == EvalMuls(circuit, [added.outputs EXCEPT ![wire] = x], added.next, j + 1, modulus)
  IN IF added.panics THEN Panic
     ELSE IF j > Len(circuit.mul_offsets)
     THEN Br(0, [k \in 1..circuit.values |-> added.outputs[circuit.n_inputs + k]] \o <<modulus>>)
     ELSE IF l # Nothing THEN next(gate.output, (l * r) % modulus)
     ELSE IF Inverses(r, modulus) # {} THEN next(gate.lhs, Min(Inverses(r, modulus)))
     ELSE Br(1, <<>>)

eval_eval(circuit, inputs, modulus) ==
  EvalMuls(circuit, [i \in 0..(circuit.n_inputs + circuit.values) |->
                       IF i = 0 THEN 1 ELSE IF i <= circuit.n_inputs THEN inputs[i] ELSE Nothing],
           1, 1, modulus)

eval_get_output(circuit, outputs, wire) ==
  LET output_struct == u384_to_struct(outputs[wire - circuit.n_inputs])
  IN Br(0, <<output_struct, <<output_struct, u384_to_struct(outputs[circuit.values + 1])>>>>)

\* Zeros stand for the nullifier.
eval_failure_guarantee_verify == Br(0, <<<<<<0, 0, 0, 0>>, <<0, 0, 0, 0>>>>>>)

\* The new guarantee keeps the last limbs, which are not read again.
eval_u96_limbs_less_than_guarantee_verify(limb_count, guarantee) ==
  LET diff == guarantee[2][limb_count] - guarantee[1][limb_count]
  IN IF diff < 0 THEN Panic ELSE IF diff # 0 THEN Br(1, <<diff>>) ELSE Br(0, <<guarantee>>)
eval_u96_single_limb_less_than_guarantee_verify == Br(0, <<0>>)
eval_u96_limbs_less_than_guarantee_verify_v2 == Br(0, <<>>)

eval_into_u96_guarantee(ty, v) == IF ty = Bounded(0, 2 ^ U96) THEN Br(0, <<v>>) ELSE Panic
eval_u96_guarantee_verify == Br(0, <<>>)
=============================================================================
