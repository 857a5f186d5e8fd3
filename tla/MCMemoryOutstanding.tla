------------------------ MODULE MCMemoryOutstanding ------------------------
(* Sender s has three nonces in key k1 with a replacement of the middle    *)
(* one, and two deployments in different keys; sender t competes with it.  *)
EXTENDS MemoryOutstanding

Op(s, k, n, f, d) ==
  [sender |-> s, nonceKey |-> k, nonceSeq |-> n, maxFeePerGas |-> f, deploys |-> d]

MCUserOp ==
  [a0 |-> Op("s", "k1", 0, 2, TRUE),
   a1 |-> Op("s", "k1", 1, 1, FALSE),
   b1 |-> Op("s", "k1", 1, 2, FALSE),
   d0 |-> Op("s", "k2", 0, 1, TRUE),
   t0 |-> Op("t", "k1", 0, 2, FALSE)]
=============================================================================
