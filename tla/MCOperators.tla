------------------------------ MODULE MCOperators ------------------------------
(***************************************************************************)
(* Model-checking instance of Operators.                                   *)
(***************************************************************************)
EXTENDS Operators

\* Two adapters that bind some of the same events.
LifecycleOfTwo ==
  [pi       |-> <<"before_agent_start -> recall", "agent_end -> learn">>,
   opencode |-> <<"agent_end -> learn">>]
==============================================================================
