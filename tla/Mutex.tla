-------------------------------- MODULE Mutex --------------------------------
(***************************************************************************)
(* What lock.ts promises in its first line: a cross-process write mutex    *)
(* for one memory root.  At any moment at most one writer is inside the    *)
(* critical section; a writer enters only when nobody is inside, and the   *)
(* section ends by a release, an exit or a crash of the writer inside.     *)
(***************************************************************************)
CONSTANTS
  Writers,   \* the processes that write under the memory root
  NoWriter   \* "nobody is inside"

VARIABLE
  holder     \* the writer inside the critical section, or NoWriter

Init == holder = NoWriter

Enter(w) ==
  /\ holder = NoWriter
  /\ holder' = w

Leave(w) ==
  /\ holder = w
  /\ holder' = NoWriter

Next == \E w \in Writers : Enter(w) \/ Leave(w)

Spec == Init /\ [][Next]_holder
==============================================================================
