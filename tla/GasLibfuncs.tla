---------------------------- MODULE GasLibfuncs ----------------------------
(***************************************************************************)
(* The libfuncs that move gas.  The cost of a statement is a number of     *)
(* tokens of each type, known when it is compiled; what a token costs is   *)
(* read when it runs.  build_* is compiled code, on words of the width of  *)
(* the gas builtin and of a reserve; eval_* is the interpreter.            *)
(***************************************************************************)
EXTENDS Integers, Folds, FiniteSets

CONSTANTS
  Tokens,         \* types of token: const, pedersen, bitwise...
  TokenCosts,     \* BuiltinCosts: token -> its cost in gas
  GasWords        \* the gas builtin is a number below this one, 2^64 in the code

ASSUME GasAssumption ==
  /\ IsFiniteSet(Tokens) /\ TokenCosts \in [Tokens -> Nat] /\ GasWords \in Nat \ {0}

ReserveWords == GasWords * GasWords    \* a reserve is a u128

NoTokens == [t \in Tokens |-> 0]
Cost(tokens) == MapThenFoldSet(+, 0, LAMBDA t : tokens[t] * TokenCosts[t],
                               LAMBDA s : CHOOSE t \in s : TRUE, Tokens)

\* A branch with its results.
Branch(n, results) == [branch |-> n, results |-> results]

build_calculate_gas_cost(tokens) ==
  MapThenFoldSet(LAMBDA x, y : (x + y) % GasWords, 0,
                 LAMBDA t : (tokens[t] * TokenCosts[t]) % GasWords,
                 LAMBDA s : CHOOSE t \in s : TRUE, Tokens)

usub_sat(x, y) == IF x >= y THEN x - y ELSE 0
uadd_sat(x, y) == IF x + y < GasWords THEN x + y ELSE GasWords - 1

build_get_available_gas(gas) == Branch(0, <<gas, gas>>)

build_withdraw_gas(gas, tokens) ==
  LET total == build_calculate_gas_cost(tokens)
  IN IF gas >= total THEN Branch(0, <<usub_sat(gas, total)>>) ELSE Branch(1, <<gas>>)

build_redeposit_gas(gas, tokens) == Branch(0, <<uadd_sat(gas, build_calculate_gas_cost(tokens))>>)

build_get_unspent_gas_WithoutWallet(gas, wallet) == Branch(0, <<gas, gas>>)
build_get_unspent_gas(gas, wallet) ==
  Branch(0, <<gas, (gas + build_calculate_gas_cost(wallet)) % GasWords>>)

\* The amount is compared with all its bits; the rest is then known to fit the builtin.
build_gas_reserve_create_Truncated(gas, amount) ==
  IF gas >= amount % GasWords
  THEN Branch(0, <<(gas - (amount % GasWords)) % GasWords, amount>>)
  ELSE Branch(1, <<gas>>)
build_gas_reserve_create(gas, amount) ==
  IF gas >= amount
  THEN Branch(0, <<((gas - amount) % ReserveWords) % GasWords, amount>>)
  ELSE Branch(1, <<gas>>)

build_gas_reserve_utilize(gas, reserve) == Branch(0, <<(gas + (reserve % GasWords)) % GasWords>>)

dict_squash_EveryAccess(gas, count, keys, refund) == (gas + (count * refund)) % GasWords

\* cairo_native__dict_squash: the accesses beyond one per key are given back.
dict_squash(gas, count, keys, refund) ==
  (gas + (usub_sat(count, keys) * refund)) % GasWords
-----------------------------------------------------------------------------
\* The interpreter, where an overflow is a panic.

Panic == Branch(-1, <<>>)
Checked(cost, outcome) == IF cost < GasWords THEN outcome ELSE Panic

eval_withdraw_gas(gas, tokens) ==
  Checked(Cost(tokens), IF gas >= Cost(tokens) THEN Branch(0, <<gas - Cost(tokens)>>)
                                               ELSE Branch(1, <<gas>>))

eval_redeposit_gas(gas, tokens) ==
  Checked(Cost(tokens),
          Branch(0, <<IF gas + Cost(tokens) < GasWords THEN gas + Cost(tokens) ELSE GasWords - 1>>))

eval_get_available_gas(gas) == Branch(0, <<gas, gas>>)

eval_gas_reserve_create(gas, amount) ==
  IF amount <= gas THEN Branch(0, <<gas - (amount % GasWords), amount>>) ELSE Branch(1, <<gas>>)

eval_gas_reserve_utilize(gas, amount) ==
  Checked(gas + (amount % GasWords), Branch(0, <<gas + (amount % GasWords)>>))
=============================================================================
