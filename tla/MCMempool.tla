----------------------------- MODULE MCMempool -----------------------------
(* Sender A deploys with the first of two nonces, and has a dearer         *)
(* replacement for it; its second op reads the storage of sender B.  The   *)
(* paymaster P can pay for one op.  A deployment and b0 fit the gas cap,   *)
(* but not with the margin; a deployment and a1 fit it, but not rounded.   *)
EXTENDS Mempool

Op(s, n, f, pm, fac, g, auth, t) ==
  [sender |-> s, nonceKey |-> "k", nonceSeq |-> n, maxFeePerGas |-> f,
   maxPriorityFeePerGas |-> f, deploys |-> fac # NoEntity, paymaster |-> pm,
   factory |-> fac, gas |-> g, authorizes |-> auth, bytes |-> 1, prefund |-> 1, touches |-> t]

MCUserOp ==
  [a0 |-> Op("A", 0, 100, NoEntity, "F", 9000000, FALSE, {"A"}),
   r0 |-> Op("A", 0, 110, "P", "F", 9000000, FALSE, {}),
   a1 |-> Op("A", 1, 100, "P", NoEntity, 6938000, TRUE, {"A", "B"}),
   b0 |-> Op("B", 0, 100, "P", NoEntity, 7500000, FALSE, {"B"})]

MCEntities == {"A", "B", "P", "F"}
MCDeposit == [e \in {"P"} |-> 1]
=============================================================================
