-------------------------------- MODULE MCGas --------------------------------
(***************************************************************************)
(* Gas with two types of token and a gas builtin of four bits, which a     *)
(* reserve of eight bits outgrows.                                         *)
(***************************************************************************)
EXTENDS Gas

Of(c, p) == [t \in Tokens |-> IF t = "const" THEN c ELSE p]

MCTokens == {"const", "pedersen"}
MCTokenCosts == [t \in MCTokens |-> IF t = "const" THEN 1 ELSE 3]
MCFunctionCost == Of(2, 0)
MCStatementCosts == {Of(1, 0), Of(1, 1), Of(3, 2)}
MCAnyCosts == {Of(c, p) : c \in {0, 1, 6, 15, 16}, p \in {0, 1, 3, 5, 6}}
MCCouponCost == Of(1, 1)
MCAccessCost == Of(2, 0)
==============================================================================
