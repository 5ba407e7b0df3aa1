--------------------------- MODULE MCShadowSandbox ---------------------------
(* Model-checking instances of ShadowSandbox.                              *)
EXTENDS ShadowSandbox, TLC

(* A migration that prepares and the one that is audited.                  *)
TwoActions == <<"UPGRADE_BASELINE", "APPLY_TARGET">>

OneAction == <<"APPLY_TARGET">>

(* What may come together.  A superseded worker goes on, a dead one does   *)
(* not, and the sweeper needs neither; a failing call may come with a      *)
(* crash, and the clean-up after it be seen half done.                     *)
MCFaultSets ==
  {{"crash", "takeover"},
   {"takeover", "exhaustion", "midway"},
   {"takeover", "midway", "expiry"},
   {"crash", "call", "exhaustion", "midway", "expiry"}}

WorkerSymmetry == Permutations(Worker)
=============================================================================
