------------------------------- MODULE Totals -------------------------------
(***************************************************************************)
(* The sum of the values of a function, for the loops of the code that add *)
(* up gas, bytes, prefunds and balances.                                   *)
(***************************************************************************)
EXTENDS Integers, Folds

Total(f) ==
  MapThenFoldSet(LAMBDA x, y : x + y, 0, LAMBDA i : f[i], LAMBDA s : CHOOSE i \in s : TRUE,
                 DOMAIN f)
=============================================================================
