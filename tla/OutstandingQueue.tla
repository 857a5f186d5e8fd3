-------------------------- MODULE OutstandingQueue --------------------------
(***************************************************************************)
(* What a store of outstanding userOps gives the mempool: one FIFO backlog *)
(* per sender and nonce key.  Only the head of a backlog is ready, and the *)
(* ready op with the lowest fee cap is the one a pop hands out.            *)
(***************************************************************************)
EXTENDS Naturals, Sequences

CONSTANTS UserOp, Ops, Slots, SlotOf(_), NoOp

VARIABLES
  backlog,   \* the userOps of each slot, in order of arrival
  answer     \* the last call and the userOp it returned

Ready == { Head(backlog[s]) : s \in { t \in Slots : backlog[t] # <<>> } }

Queued == { o \in Ops : \E s \in Slots : \E i \in DOMAIN backlog[s] :
                          i > 1 /\ backlog[s][i] = o }

Answers(c, o) == answer' = [call |-> c, op |-> o]

Init ==
  /\ backlog = [s \in Slots |-> <<>>]
  /\ answer = [call |-> "none", op |-> NoOp]

Enqueue(o) ==
  /\ backlog' = [backlog EXCEPT ![SlotOf(o)] = Append(@, o)]
  /\ Answers("add", NoOp)

\* A pop hands out a ready op that no other ready op undercuts.
TakeCheapest(o) ==
  /\ o \in Ready
  /\ \A p \in Ready : UserOp[o].maxFeePerGas <= UserOp[p].maxFeePerGas
  /\ backlog' = [backlog EXCEPT ![SlotOf(o)] = Tail(@)]
  /\ Answers("pop", o)

\* A ready op is withdrawn, by name or because a new op conflicts with it.
Withdraw(o) ==
  /\ o \in Ready
  /\ backlog' = [backlog EXCEPT ![SlotOf(o)] = Tail(@)]
  /\ answer'.call \in {"remove", "popConflicting"} /\ answer'.op = o

\* A queued op is named as the conflicting one and stays where it is.
Report(o) ==
  /\ o \in Queued
  /\ Answers("popConflicting", o)
  /\ UNCHANGED backlog

\* Nothing to hand out: only a pop of an empty store has to find nothing.
FindNothing ==
  /\ answer'.call \in {"pop", "remove", "popConflicting"} /\ answer'.op = NoOp
  /\ answer'.call = "pop" => Ready = {}
  /\ UNCHANGED backlog

Clear ==
  /\ backlog' = [s \in Slots |-> <<>>]
  /\ Answers("clear", NoOp)

Next ==
  \/ \E o \in Ops : Enqueue(o) \/ TakeCheapest(o) \/ Withdraw(o) \/ Report(o)
  \/ FindNothing
  \/ Clear

Spec == Init /\ [][Next]_<<backlog, answer>>
=============================================================================
