-------------------------------- MODULE Gas --------------------------------
(***************************************************************************)
(* The gas of one invocation.  What a call is given is split between the   *)
(* gas builtin, the wallet (gas that was withdrawn for statements still to *)
(* run, kept by the compiler as tokens), reserves, coupons (calls paid in  *)
(* advance) and what was spent.  A squash gives back what the accesses of  *)
(* a dictionary beyond the first one per key were charged.                 *)
(***************************************************************************)
EXTENDS GasLibfuncs, SequencesExt

CONSTANTS
  FunctionCost,    \* tokens that calling the function costs
  StatementCosts,  \* tokens that a withdrawal may ask for, or a statement take
  AnyCosts,        \* tokens for which both sides are compared, too dear to pay included
  CouponCost,      \* tokens that a coupon pays for
  AccessCost,      \* tokens that an access of a dictionary costs
  Amounts,         \* amounts of gas asked for a reserve
  Gives,           \* gas that a call may be given
  MaxReserves, MaxCoupons, MaxAccesses    \* bounds of the model

\* Costs are numbers of tokens.  The compiler multiplies and adds them in u64 and does not
\* look for an overflow (the interpreter panics): the gas of a cost is taken to fit the builtin.
ASSUME CostsAssumption ==
  \A tokens \in StatementCosts \cup {FunctionCost, CouponCost, AccessCost} :
    tokens \in [Tokens -> Nat] /\ Cost(tokens) < GasWords

ASSUME AnyCostsAssumption == AnyCosts \subseteq [Tokens -> Nat]

\* The gas given is a u64, an amount asked for a reserve a u128.
ASSUME AmountsAssumption ==
  /\ Gives \subseteq 0..(GasWords - 1)
  /\ Amounts \subseteq 0..(ReserveWords - 1)
  /\ MaxReserves \in Nat /\ MaxCoupons \in Nat /\ MaxAccesses \in Nat

VARIABLES
  given,      \* the gas the call was given
  status,     \* "idle", "running", "refused"
  gas,        \* the gas builtin, a word
  wallet,     \* GasWallet of the statement that runs next
  reserves,   \* the reserves alive
  coupons,    \* the coupons alive
  dict,       \* [count, keys] of the dictionary alive
  spent       \* the gas that statements used, less what was given back

vars == <<given, status, gas, wallet, reserves, coupons, dict, spent>>

FreshDict == [count |-> 0, keys |-> 0]

Covers(tokens) == \A t \in Tokens : tokens[t] <= wallet[t]
Plus(tokens) == [t \in Tokens |-> wallet[t] + tokens[t]]
Minus(tokens) == [t \in Tokens |-> wallet[t] - tokens[t]]

Init ==
  /\ given \in Gives
  /\ status = "idle" /\ gas = 0 /\ wallet = NoTokens
  /\ reserves = <<>> /\ coupons = 0 /\ dict = FreshDict /\ spent = 0

\* get_initial_available_gas: the cost of the function is taken first.
Start ==
  /\ status = "idle"
  /\ IF given >= Cost(FunctionCost)
       THEN status' = "running" /\ gas' = given - Cost(FunctionCost) /\ wallet' = FunctionCost
       ELSE status' = "refused" /\ UNCHANGED <<gas, wallet>>
  /\ UNCHANGED <<given, reserves, coupons, dict, spent>>

Running == status = "running" /\ UNCHANGED <<given, status>>

\* withdraw_gas and withdraw_gas_all; the branch that succeeds carries the tokens.
WithdrawGas(tokens) ==
  /\ Running
  /\ LET out == build_withdraw_gas(gas, tokens) IN
     /\ gas' = out.results[1]
     /\ wallet' = IF out.branch = 0 THEN Plus(tokens) ELSE wallet
  /\ UNCHANGED <<reserves, coupons, dict, spent>>

RedepositGas_Uncovered(tokens) ==
  /\ Running
  /\ gas' = build_redeposit_gas(gas, tokens).results[1]
  /\ wallet' = Minus(tokens)
  /\ UNCHANGED <<reserves, coupons, dict, spent>>

\* A path that needs less than was withdrawn gives the rest back.
RedepositGas(tokens) ==
  /\ Running /\ Covers(tokens)
  /\ gas' = build_redeposit_gas(gas, tokens).results[1]
  /\ wallet' = Minus(tokens)
  /\ UNCHANGED <<reserves, coupons, dict, spent>>

\* Any other statement takes its cost from the wallet.
RunStatement(tokens) ==
  /\ Running /\ Covers(tokens)
  /\ wallet' = Minus(tokens)
  /\ spent' = spent + Cost(tokens)
  /\ UNCHANGED <<gas, reserves, coupons, dict>>

CreateReserve(amount) ==
  /\ Running /\ Len(reserves) < MaxReserves
  /\ LET out == build_gas_reserve_create(gas, amount) IN
     /\ gas' = out.results[1]
     /\ reserves' = IF out.branch = 0 THEN Append(reserves, out.results[2]) ELSE reserves
  /\ UNCHANGED <<wallet, coupons, dict, spent>>

UtilizeReserve(i) ==
  /\ Running
  /\ gas' = build_gas_reserve_utilize(gas, reserves[i]).results[1]
  /\ reserves' = RemoveAt(reserves, i)
  /\ UNCHANGED <<wallet, coupons, dict, spent>>

\* Coupons move tokens between the wallets of statements and cost nothing when they run.
BuyCoupon ==
  /\ Running /\ coupons < MaxCoupons /\ Covers(CouponCost)
  /\ coupons' = coupons + 1
  /\ wallet' = Minus(CouponCost)
  /\ UNCHANGED <<gas, reserves, dict, spent>>

RefundCoupon ==
  /\ Running /\ coupons > 0
  /\ coupons' = coupons - 1
  /\ wallet' = Plus(CouponCost)
  /\ UNCHANGED <<gas, reserves, dict, spent>>

\* coupon_call: the call was paid for when the coupon was bought.
CallWithCoupon ==
  /\ Running /\ coupons > 0
  /\ coupons' = coupons - 1
  /\ spent' = spent + Cost(CouponCost)
  /\ UNCHANGED <<gas, wallet, reserves, dict>>

\* An access of the dictionary, of a key seen before or of a new one.
AccessDict(new) ==
  /\ Running /\ Covers(AccessCost) /\ dict.count < MaxAccesses
  /\ new \/ dict.keys > 0
  /\ wallet' = Minus(AccessCost)
  /\ spent' = spent + Cost(AccessCost)
  /\ dict' = [count |-> dict.count + 1, keys |-> dict.keys + IF new THEN 1 ELSE 0]
  /\ UNCHANGED <<gas, reserves, coupons>>

SquashDict ==
  /\ Running
  /\ gas' = dict_squash(gas, dict.count, dict.keys, Cost(AccessCost))
  /\ spent' = spent - (usub_sat(dict.count, dict.keys) * Cost(AccessCost))
  /\ dict' = FreshDict
  /\ UNCHANGED <<wallet, reserves, coupons>>

Next ==
  \/ Start
  \/ \E tokens \in StatementCosts :
       WithdrawGas(tokens) \/ RedepositGas(tokens) \/ RunStatement(tokens)
  \/ \E amount \in Amounts : CreateReserve(amount)
  \/ \E i \in DOMAIN reserves : UtilizeReserve(i)
  \/ BuyCoupon \/ RefundCoupon \/ CallWithCoupon
  \/ \E new \in BOOLEAN : AccessDict(new)
  \/ SquashDict

Spec == Init /\ [][Next]_vars
-----------------------------------------------------------------------------
TypeOK ==
  /\ given \in Gives /\ status \in {"idle", "running", "refused"}
  /\ gas \in 0..(GasWords - 1) /\ wallet \in [Tokens -> Nat]
  /\ Range(reserves) \subseteq 0..(ReserveWords - 1)
  /\ coupons \in 0..MaxCoupons /\ spent \in Nat
  /\ dict \in [count : 0..MaxAccesses, keys : 0..MaxAccesses]

Held == FoldSeq(+, 0, reserves)
Unused == gas + Cost(wallet) + Held + (coupons * Cost(CouponCost))

\* No operation wraps, saturates or truncates away gas, and none makes any: whatever a program
\* withdraws, redeposits, reserves, pays in advance and gets refunded, the gas it was given is
\* the gas it holds and the gas it spent (libfuncs/gas.rs, gas_reserve.rs, dict_squash).
Conserved == status = "running" => given = Unused + spent

\* get_unspent_gas tells what remains of the gas that was given, apart from what is set aside in
\* reserves and coupons, at every statement.
UnspentIsWhatRemains ==
  status = "running" =>
    build_get_unspent_gas(gas, wallet).results[2]
      = given - (spent + Held + (coupons * Cost(CouponCost)))

Agrees(native, emulated) == emulated # Panic => native = emulated

\* Whatever the gas in hand, compiled code and the interpreter take the same branch and leave the
\* same gas, also for costs no program pays; where the interpreter panics because a cost overflows,
\* compiled code is not compared.  A reserve never makes it panic.  get_unspent_gas is not among
\* them: the interpreter does not implement it (vm/gas.rs, vm/gas_reserve.rs).
GasAsInterpreted ==
  /\ build_get_available_gas(gas) = eval_get_available_gas(gas)
  /\ \A tokens \in StatementCosts \cup AnyCosts :
       /\ Agrees(build_withdraw_gas(gas, tokens), eval_withdraw_gas(gas, tokens))
       /\ Agrees(build_redeposit_gas(gas, tokens), eval_redeposit_gas(gas, tokens))
  /\ \A amount \in Amounts : build_gas_reserve_create(gas, amount) = eval_gas_reserve_create(gas, amount)
  /\ \A i \in DOMAIN reserves :
       build_gas_reserve_utilize(gas, reserves[i]) = eval_gas_reserve_utilize(gas, reserves[i])
=============================================================================
