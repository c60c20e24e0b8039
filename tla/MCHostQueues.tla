----------------------------- MODULE MCHostQueues -----------------------------
(***************************************************************************)
(* Model-checking instance of HostQueues.                                  *)
(***************************************************************************)
EXTENDS HostQueues

SmallGate == [minDoneTurns |-> 1, cooldownTurns |-> 2, minToolCalls |-> 1]

Host(port, awaits, transcript, learns, sessions, n, bad) ==
  [port |-> port, awaits |-> awaits, transcript |-> transcript, learns |-> learns,
   sessions |-> sessions, events |-> n, failures |-> bad]

SmallHosts ==
  {Host("pi", TRUE, FALSE, TRUE, {1}, 5, 1), Host("pi", TRUE, FALSE, TRUE, {1, 2}, 4, 1),
   Host("pi", FALSE, FALSE, FALSE, {1, 2}, 4, 1),
   Host("openclaw", FALSE, TRUE, TRUE, {1, 2}, 4, 1)}
==============================================================================
