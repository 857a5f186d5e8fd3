-------------------------- MODULE UserOpLifecycle --------------------------
(***************************************************************************)
(* What the bundler promises for each userOp it accepted, whatever happens *)
(* to the bundles that carry it: it waits, it is worked on, and it ends    *)
(* with one verdict that never changes, "included" only if it is on chain. *)
(***************************************************************************)
CONSTANT Ops

VARIABLES
  stage,     \* the stage of each userOp
  onChain    \* the userOps some mined transaction executed

Verdicts == {"included", "rejected", "failed"}

Init ==
  /\ stage = [o \in Ops |-> "unknown"]
  /\ onChain = {}

Moves(o, from, to) == stage[o] = from /\ stage'[o] = to

Accept(o) == Moves(o, "unknown", "waiting")
Bundle(o) == Moves(o, "waiting", "bundled")
Requeue(o) == Moves(o, "bundled", "waiting")
Include(o) == Moves(o, "bundled", "included") /\ o \in onChain
Reject(o) == Moves(o, "bundled", "rejected")
Fail(o) == Moves(o, "bundled", "failed")

\* Several userOps may move in one step, each along its own edge.
Next ==
  /\ onChain \subseteq onChain'
  /\ \A o \in Ops :
       \/ stage'[o] = stage[o]
       \/ Accept(o) \/ Bundle(o) \/ Requeue(o)
       \/ Include(o) \/ Reject(o) \/ Fail(o)

Spec == Init /\ [][Next]_<<stage, onChain>>
=============================================================================
