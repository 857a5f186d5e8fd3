--------------------------- MODULE GasEstimation ---------------------------
(***************************************************************************)
(* How the gas limits of an estimate are found                             *)
(* (src/src/rpc/estimation, eth_estimateUserOperationGas.ts and            *)
(* validateHandleOp of UnsafeValidator.ts).  From EntryPoint 0.7 on a      *)
(* binary search runs inside one eth_call of the simulation contract;      *)
(* when the call runs out of gas, the server goes on with a new one from   *)
(* where it stopped.  A simulation of the op passes when each limit covers *)
(* its need, so a need is a record [verification, paymaster, call].        *)
(***************************************************************************)
EXTENDS PreVerificationGas

CONSTANTS
  BinarySearchToleranceDelta,
  BinarySearchGasAllowance,
  BinarySearchMaxRetries,
  PaymasterVerificationGasLimitMultiplier,   \* per cent
  PvgMultiplier

InitialMinGas == 9000

ASSUME GasEstimationAssumption ==
  \* With a smaller tolerance the contract's subtraction underflows.
  /\ BinarySearchToleranceDelta \in Nat \ {0, 1}
  /\ BinarySearchGasAllowance \in Nat /\ BinarySearchMaxRetries \in Nat
  /\ {PaymasterVerificationGasLimitMultiplier, PvgMultiplier} \subseteq Nat

-----------------------------------------------------------------------------
(* The search.  optimalGas is the last limit that passed; at first it is   *)
(* the upper end, which nobody has tried.                                  *)

SearchStates == [minGas : Nat, maxGas : Nat, optimalGas : Nat, left : Nat, retryCount : Nat]

\* The loop of binarySearchGasLimit, one iteration.
Halved(s, need) ==
  LET midGas == (s.minGas + s.maxGas) \div 2
      next == [s EXCEPT !.left = @ - 1]
  IN IF midGas >= need
     THEN [next EXCEPT !.optimalGas = midGas, !.maxGas = midGas - 1]
     ELSE [next EXCEPT !.minGas = midGas + 1]

\* performBinarySearch calls itself with what the call that ran out of gas found.
Restarted(s, perCall) ==
  [s EXCEPT !.maxGas = s.optimalGas, !.left = perCall, !.retryCount = @ + 1]

\* performBinarySearch and binarySearchGasLimit, when the gas of one call is
\* enough for perCall iterations; Null when the retries are used up.
Searched(need, perCall) ==
  LET search[s \in SearchStates] ==
        IF s.retryCount > BinarySearchMaxRetries THEN Null
        ELSE IF s.maxGas - s.minGas < BinarySearchToleranceDelta THEN s.optimalGas
        ELSE IF s.left = 0 THEN search[Restarted(s, perCall)]
        ELSE search[Halved(s, need)]
  IN search[[minGas |-> InitialMinGas,
             maxGas |-> InitialMinGas + BinarySearchGasAllowance,
             optimalGas |-> InitialMinGas + BinarySearchGasAllowance,
             left |-> perCall, retryCount |-> 0]]

-----------------------------------------------------------------------------

Limits(verification, paymaster, call) ==
  [verification |-> verification, paymaster |-> paymaster, call |-> call]

\* simulateHandleOp06: the gas that EntryPoint 0.6 reports to have used.
ReportedGas(need) ==
  Limits(ScaleByPercent(need.verification, 150), 0, need.call)

\* simulateAndEstimateGasLimits and simulateHandleOp07: three searches.  There is
\* nothing to find without a paymaster or without callData.
SearchedGas(o, need, perCall) ==
  LET v == Searched(need.verification, perCall)
      p == IF o.hasPaymaster THEN Searched(need.paymaster, perCall) ELSE 0
      c == IF o.hasCallData THEN Searched(need.call, perCall) ELSE 0
  IN IF Null \in {v, p, c} THEN Null ELSE Limits(v, p, c)

\* calcVerificationGasAndCallGasLimit
CallGasLimit(o, call) ==
  MaxOf(call, InitialMinGas) + (IF o.version = "0.6" THEN 21000 + 50000 ELSE 0)

\* getGasEstimates; empty callData needs no gas.
GasEstimates(o, need, perCall) ==
  LET gas == IF o.version = "0.6" THEN ReportedGas(need) ELSE SearchedGas(o, need, perCall)
  IN IF gas = Null THEN Null
     ELSE Limits(ScaleByPercent(gas.verification, VerificationGasLimitMultiplier),
                 ScaleByPercent(gas.paymaster, PaymasterVerificationGasLimitMultiplier),
                 IF o.hasCallData
                 THEN ScaleByPercent(CallGasLimit(o, gas.call), CallGasLimitMultiplier) ELSE 0)

Passes(limits, need) ==
  /\ limits.verification >= need.verification
  /\ limits.paymaster >= need.paymaster
  /\ limits.call >= need.call

\* What validateHandleOp doubles after a failure: the call's limit always, the
\* paymaster's unless only the call failed, the account's when it failed.
Doubled(limits, need) ==
  LET account == limits.verification < need.verification
      paymaster == account \/ limits.paymaster < need.paymaster
      twice(b, x) == IF b THEN 2 * x ELSE x
  IN Limits(twice(account, limits.verification), twice(paymaster, limits.paymaster),
            2 * limits.call)

\* Mutant: the doubled limits are returned without a second simulation.
ValidatedOnce(limits, need) ==
  IF limits = Null THEN Null
  ELSE IF Passes(limits, need) THEN limits ELSE Doubled(limits, need)

\* validateHandleOp; Null when it throws.
ValidatedLimits(limits, need) ==
  IF limits = Null THEN Null
  ELSE IF Passes(limits, need) THEN limits
  ELSE IF Passes(Doubled(limits, need), need) THEN Doubled(limits, need)
  ELSE Null

\* The op with these limits, as preVerificationGas is computed from it.
WithLimits(o, limits) ==
  [o EXCEPT !.callGasLimit = limits.call, !.verificationGasLimit = limits.verification,
            !.paymasterVerificationGasLimit = limits.paymaster]
=============================================================================
