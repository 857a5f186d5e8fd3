---------------------------- MODULE MCInstances ----------------------------
(* Two callers share three ops of one slot, a dearer replacement, and a    *)
(* deployment under another nonce key; two instances share their wallets   *)
(* but one; ops of two EntryPoints are handed over.                        *)
EXTENDS Instances, TLC

SharedOp(key, seq, fee, deploys, bytes) ==
  [sender |-> "A", nonceKey |-> key, nonceSeq |-> seq, maxFeePerGas |-> fee,
   maxPriorityFeePerGas |-> fee, deploys |-> deploys, bytes |-> bytes]

MCUserOp ==
  [a0 |-> SharedOp("k", 0, 10, TRUE, 1), b0 |-> SharedOp("k", 0, 12, FALSE, 2),
   a1 |-> SharedOp("k", 1, 20, FALSE, 3), c0 |-> SharedOp("l", 0, 10, TRUE, 4)]

MCWalletsOf == [i1 |-> {"w1", "w2"}, i2 |-> {"w1", "w2", "w3"}]

CONSTANTS c1, c2, n1, n2, p1, p2, o1, o2, ep1, ep2

MCEntryPointOf == o1 :> ep1 @@ o2 :> ep2

Swapped ==
  c1 :> c2 @@ c2 :> c1 @@ n1 :> n2 @@ n2 :> n1 @@ p1 :> p2 @@ p2 :> p1
    @@ o1 :> o2 @@ o2 :> o1 @@ ep1 :> ep2 @@ ep2 :> ep1

\* The calls of one subject are alike, and so are the instances, the wallets
\* handed over and, together, the EntryPoints and their ops.  A part that is not
\* the subject looks the same to any exchange, so one serves for all of them.
Symmetry == {Swapped} \cup Permutations(Executors)
=============================================================================
