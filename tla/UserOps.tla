------------------------------ MODULE UserOps ------------------------------
(***************************************************************************)
(* UserOperations, each known by its hash: UserOp[o] is the content behind *)
(* the hash o, the fields a module reads among sender, nonceKey, nonceSeq, *)
(* maxFeePerGas, maxPriorityFeePerGas, deploys, paymaster, factory, ...    *)
(***************************************************************************)
EXTENDS Naturals

CONSTANT UserOp

Ops == DOMAIN UserOp

\* senderNonceSlot: ops of one sender and nonce key run in the order of their nonces.
SlotOf(o) == <<UserOp[o].sender, UserOp[o].nonceKey>>

Slots == { SlotOf(o) : o \in Ops }

\* The same nonce, or two deployments of one sender.
Conflicts(o, p) ==
  /\ UserOp[p].sender = UserOp[o].sender
  /\ \/ UserOp[p].nonceKey = UserOp[o].nonceKey /\ UserOp[p].nonceSeq = UserOp[o].nonceSeq
     \/ UserOp[p].deploys /\ UserOp[o].deploys
=============================================================================
