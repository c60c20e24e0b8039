------------------------------ MODULE MCRootLock ------------------------------
(***************************************************************************)
(* Model-checking instance of RootLock: LOCK_TIMEOUT_MS scaled from 720    *)
(* retry intervals to 3 (the smallest value that keeps the heartbeat       *)
(* period below the staleness threshold).  Three writers with timely       *)
(* holders, and two whose heartbeats may be late and whose reclaims        *)
(* interleave.                                                             *)
(***************************************************************************)
EXTENDS RootLock

CONSTANTS w1, w2, w3

AnyEnvironment ==
  {[writers |-> {w1, w2, w3}, deadline |-> Stale, interleaves |-> FALSE],
   [writers |-> {w1, w2}, deadline |-> Stale + 1, interleaves |-> TRUE]}
==============================================================================
