--------------------------- MODULE MCStubHandler ---------------------------
(***************************************************************************)
(* Instances of StubHandler for TLC: three addresses, two of which can be  *)
(* deployed to, one class with a constructor and one without, the costs of *)
(* the source and gas for three nested calls.                              *)
(***************************************************************************)
EXTENDS StubHandler

CONSTANTS z, a, b, withConstructor, plain, f, g

MCDeclared ==
  [c \in {withConstructor, plain} |->
     [constructor |-> c = withConstructor, externals |-> {f}]]

MCAddressOf(deployer, salt, class) == IF deployer = z THEN a ELSE b
=============================================================================
