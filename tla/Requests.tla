------------------------------- MODULE Requests -------------------------------
(***************************************************************************)
(* What _MemFlywheelBridge.request promises over a worker that may fail:   *)
(* one request is open at a time; its command starts at most once, even if *)
(* the request raises or a new worker is started, since no id is used      *)
(* twice and only a command that was sent and has not started can start;   *)
(* and a request returns only after its own command has ended.             *)
(***************************************************************************)
EXTENDS Integers

VARIABLES
  sent,      \* number of commands sent; they are 1 .. sent
  open,      \* the command of the request in progress, if there is one
  waiting,   \* commands that have been sent and may still start
  running,   \* commands that have started
  ended,     \* commands that have ended and whose result may still be read
  returned   \* commands whose request has returned their result

requestVars == <<sent, open, waiting, running, ended, returned>>

Init ==
  /\ sent = 0
  /\ open = {} /\ waiting = {} /\ running = {} /\ ended = {} /\ returned = {}

\* A request begins with the same worker, or with a new one, which knows nothing.
Send ==
  /\ open = {}
  /\ sent' = sent + 1
  /\ open' = {sent + 1}
  /\ \/ waiting' = waiting \cup {sent + 1} /\ UNCHANGED <<running, ended>>
     \/ waiting' = {sent + 1} /\ running' = {} /\ ended' = {}
  /\ UNCHANGED returned

Start(i) ==
  /\ i \in waiting
  /\ waiting' = waiting \ {i}
  /\ running' = running \cup {i}
  /\ UNCHANGED <<sent, open, ended, returned>>

\* A command that cannot be parsed never starts.
Lose(i) ==
  /\ i \in waiting
  /\ waiting' = waiting \ {i}
  /\ UNCHANGED <<sent, open, running, ended, returned>>

End(i) ==
  /\ i \in running
  /\ running' = running \ {i}
  /\ ended' = ended \cup {i}
  /\ UNCHANGED <<sent, open, waiting, returned>>

Return(i) ==
  /\ i \in open \cap ended
  /\ open' = {}
  /\ ended' = ended \ {i}
  /\ returned' = returned \cup {i}
  /\ UNCHANGED <<sent, waiting, running>>

\* A late result is of no use to the request in progress.
Drop(i) ==
  /\ i \in ended \ open
  /\ ended' = ended \ {i}
  /\ UNCHANGED <<sent, open, waiting, running, returned>>

\* The request raises; its command may go on.
Raise ==
  /\ open # {}
  /\ open' = {}
  /\ UNCHANGED <<sent, waiting, running, ended, returned>>

\* The worker dies, and the request in progress may raise at once.
Die ==
  /\ waiting' = {} /\ running' = {}
  /\ open' \in {open, {}}
  /\ UNCHANGED <<sent, ended, returned>>

Next ==
  \/ Send \/ Raise \/ Die
  \/ \E i \in waiting : Start(i) \/ Lose(i)
  \/ \E i \in running : End(i)
  \/ \E i \in ended : Return(i) \/ Drop(i)

Spec == Init /\ [][Next]_requestVars
==============================================================================
