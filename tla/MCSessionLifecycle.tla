-------------------------- MODULE MCSessionLifecycle --------------------------
(***************************************************************************)
(* Model-checking instance of SessionLifecycle.  The window of 40 messages *)
(* with 6 of context is scaled to 4 with 1, turns have one or two          *)
(* messages.                                                               *)
(***************************************************************************)
EXTENDS SessionLifecycle, TLC

CONSTANTS s1, s2

\* Turn by turn, no reuse, one session of six messages, one failure, one crash.
TurnHost ==
  [transcript |-> FALSE, durable |-> FALSE, reuses |-> FALSE, torn |-> FALSE,
   open |-> 0, close |-> 0, sends |-> s1 :> 6 @@ s2 :> 0, failures |-> 1, crashes |-> 1]

ManyHosts ==
  { TurnHost,
    [TurnHost EXCEPT !.transcript = TRUE],
    [TurnHost EXCEPT !.torn = TRUE, !.transcript = TRUE, !.failures = 0],
    [TurnHost EXCEPT !.torn = TRUE, !.open = 1, !.close = 3],
    [TurnHost EXCEPT !.reuses = TRUE, !.sends = s1 :> 4 @@ s2 :> 0],
    [TurnHost EXCEPT !.durable = TRUE],
    [TurnHost EXCEPT !.sends = s1 :> 4 @@ s2 :> 0, !.failures = 2],
    [TurnHost EXCEPT !.sends = s1 :> 2 @@ s2 :> 2],
    [TurnHost EXCEPT !.sends = s1 :> 2 @@ s2 :> 1, !.transcript = TRUE, !.reuses = TRUE] }

HermesHost == {[TurnHost EXCEPT !.durable = TRUE, !.failures = 0]}
==============================================================================
