------------------------- MODULE MCBundleLifecycle -------------------------
(* Two wallets, so that one may be rotated away, and two bundles.          *)
EXTENDS BundleLifecycle, TLC

CONSTANTS w1, w2, j1, j2, o1, o2

MCWallets == {w1, w2}
MCJobs == {j1, j2}
MCOps == {o1, o2}
MCOneJob == {j1}
MCOneOp == {o1}

\* The failures the code is written to survive.
MCFaults ==
  {"acquire", "preflight", "simReject", "simError", "sendError",
   "sendAmbiguous", "oversized", "statusError", "receiptMiss", "stall",
   "nonceError", "stalePending", "revert", "txDrop", "foreign"}

MCStaleNonce == {"staleNonce", "stall"}
MCMarkError == {"simReject", "markError"}

Symmetry ==
  Permutations(MCWallets) \cup Permutations(MCJobs) \cup Permutations(MCOps)
=============================================================================
