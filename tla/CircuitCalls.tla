--------------------------- MODULE CircuitCalls --------------------------
(***************************************************************************)
(* Calls of the libfuncs of circuits.                                      *)
(***************************************************************************)
EXTENDS LibfuncCall, CircuitLibfuncs

CircuitEmu == INSTANCE CircuitEmulator

CONSTANTS
  Circuits,     \* circuits a program defines
  Inputs        \* values it gives their inputs and their modulus

ASSUME CircuitAssumption ==
  /\ Inputs \subseteq 0..(2 ^ U384 - 1)
  /\ \A circuit \in Circuits : circuit.n_inputs \in Nat \ {0}

Moduli == {x \in Inputs : x > 1}
Structs == {u384_integer_to_struct(x) : x \in Inputs}

\* Types that are not integers: inputs given so far, the four limbs of a word, and two limb
\* sequences of which the first is below the second.
InputList(n) == [kind |-> "inputs", length |-> n]
Struct == [kind |-> "struct"]
LessThan(n) == [kind |-> "less_than", length |-> n]
Residue(lower, modulus) == [kind |-> "residue", lower |-> lower, upper |-> modulus]
Modulus == Residue(2, 2 ^ U384)

IsLimbs(x, n) == Len(x) = n /\ \A i \in 1..n : x[i] \in 0..(2 ^ U96 - 1)
IsCircuitResultOf(ty, x) ==
  \/ ty.kind = "inputs" /\ Len(x) = ty.length /\ \A i \in DOMAIN x : x[i] \in 0..(2 ^ U384 - 1)
  \/ ty.kind = "struct" /\ IsLimbs(x, 4)
  \/ /\ ty.kind = "less_than"
     /\ IsLimbs(x[1], ty.length) /\ IsLimbs(x[2], ty.length)
     /\ u384_struct_to_integer(x[1]) < u384_struct_to_integer(x[2])

TryIntoCircuitModulus == \E limbs \in Structs :
  Done("try_into_circuit_modulus", limbs, build_try_into_circuit_modulus(limbs),
       CircuitEmu!eval_try_into_circuit_modulus(limbs), <<<<Modulus>>, <<>>>>)

InitCircuitData ==
  Done("init_circuit_data", <<>>, build_init_circuit_data, CircuitEmu!eval_init_circuit_data,
       <<<<InputList(0)>>>>)

AddInput == \E circuit \in Circuits, limbs \in Structs :
  \E length \in 0..(circuit.n_inputs - 1) : \E given \in [1..length -> Inputs] :
    Done("add_circuit_input", <<circuit, given>>, build_add_input(circuit, given, limbs),
         CircuitEmu!eval_add_input(circuit, given, limbs),
         <<<<InputList(circuit.n_inputs)>>, <<InputList(length + 1)>>>>)

\* A subtraction from an input that was not reduced is a case of its own.
SubtractsUnreduced(circuit, inputs, modulus) ==
  /\ \E i \in DOMAIN circuit.add_offsets : circuit.add_offsets[i].lhs > circuit.add_offsets[i].output
  /\ \E i \in DOMAIN inputs : inputs[i] >= modulus

Eval == \E circuit \in Circuits, modulus \in Moduli : \E inputs \in [1..circuit.n_inputs -> Inputs] :
  Done(IF SubtractsUnreduced(circuit, inputs, modulus) THEN "eval_circuit_unreduced" ELSE "eval_circuit",
       <<circuit, inputs, modulus>>, build_eval(circuit, inputs, modulus),
       CircuitEmu!eval_eval(circuit, inputs, modulus),
       <<[i \in 1..circuit.values |-> Residue(0, modulus)] \o <<Modulus>>,
         <<Residue(1, modulus), Modulus>>>>)

GetOutput == \E circuit \in Circuits, modulus \in Moduli, x \in Inputs : x < modulus /\
  \E wire \in (circuit.n_inputs + 1)..(circuit.n_inputs + circuit.values) :
    LET outputs == [i \in 1..circuit.values |-> IF circuit.n_inputs + i = wire THEN x ELSE 0] \o <<modulus>>
    IN Done("get_circuit_output", <<outputs, wire>>, build_get_output(circuit, outputs, wire),
            CircuitEmu!eval_get_output(circuit, outputs, wire), <<<<Struct, LessThan(4)>>>>)

FailureGuaranteeVerify == \E modulus \in Moduli, nullifier \in Inputs \ {0} : nullifier < modulus /\
  Done("circuit_failure_guarantee_verify", <<nullifier, modulus>>,
       build_failure_guarantee_verify(nullifier, modulus), CircuitEmu!eval_failure_guarantee_verify,
       <<<<LessThan(4)>>>>)

\* Guarantees are made by GetOutput and FailureGuaranteeVerify and shortened here alone.
Guarantees(n) ==
  {<<a, b>> \in {SubSeq(s, 1, n) : s \in Structs} \X {SubSeq(s, 1, n) : s \in Structs} :
     u384_struct_to_integer(a) < u384_struct_to_integer(b)}
LimbsLessThan ==
  \/ \E n \in 2..4 : \E guarantee \in Guarantees(n) :
       Done("u96_limbs_less_than_guarantee_verify", guarantee,
            build_u96_limbs_less_than_guarantee_verify(n, guarantee),
            CircuitEmu!eval_u96_limbs_less_than_guarantee_verify(n, guarantee),
            <<<<LessThan(n - 1)>>, <<Residue(1, 2 ^ U96)>>>>)
  \/ \E guarantee \in Guarantees(1) :
       Done("u96_single_limb_less_than_guarantee_verify", guarantee,
            build_u96_single_limb_less_than_guarantee_verify(guarantee),
            CircuitEmu!eval_u96_single_limb_less_than_guarantee_verify, <<<<Residue(1, 2 ^ U96)>>>>)
  \/ Done("u96_limbs_less_than_guarantee_verify_v2", <<>>, build_u96_limbs_less_than_guarantee_verify_v2,
          CircuitEmu!eval_u96_limbs_less_than_guarantee_verify_v2, <<<<>>>>)

U96Guarantees ==
  \/ \E ty \in {Bounded(0, 2 ^ U96), Bounded(1, 2 ^ U96), Uint(U96)} :
       Unary("into_u96_guarantee", ty, LAMBDA x : build_into_u96_guarantee(ty, x),
             LAMBDA v : CircuitEmu!eval_into_u96_guarantee(ty, v), <<<<Uint(U96)>>>>)
  \/ Done("u96_guarantee_verify", <<>>, build_u96_guarantee_verify,
          CircuitEmu!eval_u96_guarantee_verify, <<<<>>>>)

CircuitLibfuncCalls ==
  \/ TryIntoCircuitModulus \/ InitCircuitData \/ AddInput \/ Eval \/ GetOutput
  \/ FailureGuaranteeVerify \/ LimbsLessThan \/ U96Guarantees

-----------------------------------------------------------------------------
\* Every gate whose wires have values is an equation of them modulo the modulus.
Equations(circuit, wires, modulus) ==
  LET all(gate) == Unknown \notin {wires[gate.lhs], wires[gate.rhs], wires[gate.output]}
  IN /\ \A i \in DOMAIN circuit.add_offsets :
          LET gate == circuit.add_offsets[i]
          IN all(gate) => (wires[gate.lhs] + wires[gate.rhs]) % modulus = wires[gate.output] % modulus
     /\ \A i \in DOMAIN circuit.mul_offsets :
          LET gate == circuit.mul_offsets[i]
          IN all(gate) => (wires[gate.lhs] * wires[gate.rhs]) % modulus = wires[gate.output] % modulus

Solution(circuit, inputs, results) ==
  [i \in Wires(circuit) |-> IF i <= circuit.n_inputs THEN Given(circuit, inputs)[i]
                            ELSE results[i - circuit.n_inputs]]

\* On failure, the product of the nullifier with the value of an inverse gate left unsolved is
\* zero: the value has no inverse, which is what the failure guarantee proves.
Nullified(circuit, wires, nullifier, modulus) ==
  \E i \in DOMAIN circuit.mul_offsets :
    LET gate == circuit.mul_offsets[i]
    IN /\ wires[gate.lhs] = Unknown /\ wires[gate.rhs] # Unknown
       /\ (nullifier * wires[gate.rhs]) % modulus = 0

Solved(circuit, inputs, modulus, outcome) ==
  IF outcome.branch = 0 THEN Equations(circuit, Solution(circuit, inputs, outcome.results), modulus)
  ELSE LET wires == build_gate_evaluation(circuit, inputs, modulus).gates
       IN /\ Equations(circuit, wires, modulus)
          /\ Nullified(circuit, wires, outcome.results[1], modulus)
=============================================================================
