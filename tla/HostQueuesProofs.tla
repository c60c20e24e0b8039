--------------------------- MODULE HostQueuesProofs ---------------------------
(***************************************************************************)
(* Theorems about HostQueues for any number of sessions and events, any    *)
(* gate and any hosts: the order of a port's background queue, that an end *)
(* of a session follows the turns before it, that failures surface, that   *)
(* the SDK answers what it is asked once, that published skills reach a    *)
(* dream, that agents get the model of their event, and that tool calls    *)
(* are learned in time.                                                    *)
(***************************************************************************)
EXTENDS HostQueues, FiniteSetTheorems, WellFoundedInduction, TLAPS

\* The variables of the port that the queue consists of.
queueVars == <<host, events, waiting, task, settled, failed>>

EventType == [kind : {"prompt", "tool", "turn", "end"}, session : Sessions]

\* Turns are queued, run and are settled in the order in which they were reported.
Waits ==
  \A i \in 1 .. Len(waiting) :
    /\ task.ev < waiting[i] /\ waiting[i] <= Now
    /\ \A t \in settled : t < waiting[i]

InOrder == \A i, j \in 1 .. Len(waiting) : i < j => waiting[i] < waiting[j]

Runs ==
  /\ task.ev \in Nat /\ task.ev <= Now
  /\ task = NoTask <=> task.ev = 0
  /\ \A t \in settled : t <= Now /\ (task # NoTask => t < task.ev)

QueueInv ==
  /\ events \in Seq(EventType) /\ waiting \in Seq(Nat)
  /\ settled \in SUBSET (Nat \ {0}) /\ failed \in SUBSET settled
  /\ Waits /\ InOrder /\ Runs

(***************************************************************************)
(* The steps, as far as the queue and the ends of sessions see them.       *)
(***************************************************************************)

endVars == <<ends, failures, thrown, masked>>

\* A prompt or a tool call.
Reported(kind, s) ==
  /\ events' = Append(events, [kind |-> kind, session |-> s])
  /\ UNCHANGED <<host, waiting, task, settled, failed, endVars>>

TurnQueued(s) ==
  /\ events' = Append(events, [kind |-> "turn", session |-> s])
  /\ waiting' = Append(waiting, Now + 1)
  /\ UNCHANGED <<host, task, settled, failed, endVars>>

EndReported(s) ==
  /\ events' = Append(events, [kind |-> "end", session |-> s])
  /\ ends' = ends \cup
       {IF Pi THEN [ev |-> Now + 1, at |-> "drain", drained |-> {},
                    tail |-> Range(waiting) \cup ({task.ev} \ {0})]
              ELSE [ev |-> Now + 1, at |-> "sweep", drained |-> {}, tail |-> {}]}
  /\ UNCHANGED <<host, waiting, task, settled, failed, failures, thrown, masked>>

TurnStarted ==
  /\ task = NoTask /\ waiting # <<>>
  /\ task' = [ev |-> Head(waiting), at |-> "turn"]
  /\ waiting' = Tail(waiting)
  /\ UNCHANGED <<host, events, settled, failed, endVars>>

TurnLearned ==
  /\ task # NoTask
  /\ task' = [task EXCEPT !.at = "idle"]
  /\ UNCHANGED <<host, events, waiting, settled, failed, endVars>>

TurnSettled ==
  /\ task # NoTask
  /\ task' = NoTask
  /\ settled' = settled \cup {task.ev}
  /\ \/ failed' = failed /\ failures' = failures
     \/ failed' = failed \cup {task.ev} /\ (Pi => failures' = failures \cup {task.ev})
  /\ UNCHANGED <<host, events, waiting, ends, thrown, masked>>

TailAwaited(end) ==
  /\ Drained(end)
  /\ ends' = (ends \ {end}) \cup {[end EXCEPT !.at = "sweep", !.drained = failures]}
  /\ failures' = {}
  /\ UNCHANGED <<queueVars, thrown, masked>>

EndMoves(end, at) ==
  /\ end.at # "drain"
  /\ ends' = (ends \ {end}) \cup {[end EXCEPT !.at = at]}
  /\ UNCHANGED <<queueVars, failures, thrown, masked>>

EndIsOver(end) ==
  /\ ends' = ends \ {end}
  /\ \/ thrown' = thrown \cup end.drained /\ masked' = masked
     \/ masked' = masked \cup end.drained /\ thrown' = thrown
  /\ UNCHANGED <<queueVars, failures>>

Steps ==
  \/ \E s \in Sessions : Reported("prompt", s) \/ Reported("tool", s)
  \/ \E s \in Sessions : TurnQueued(s)
  \/ \E s \in Sessions : EndReported(s)
  \/ TurnStarted \/ TurnLearned \/ TurnSettled
  \/ \E end \in ends : TailAwaited(end) \/ EndIsOver(end)
  \/ \E end \in ends : EndMoves(end, "drop") \/ EndMoves(end, "idle")
  \/ UNCHANGED <<queueVars, endVars>>

LEMMA StepsOfNext == [Next]_vars => Steps
<1> SUFFICES ASSUME [Next]_vars PROVE Steps
  OBVIOUS
<1> USE DEF endVars, queueVars
<1>1. ASSUME NEW s \in Sessions, HostPrompt(s) PROVE Reported("prompt", s)
  BY <1>1 DEF HostPrompt, Report, Reported
<1>2. ASSUME NEW s \in Sessions, HostTool(s) PROVE Reported("tool", s)
  BY <1>2 DEF HostTool, Report, Reported
<1>3. ASSUME NEW s \in Sessions, HostTurn(s) PROVE TurnQueued(s)
  BY <1>3 DEF HostTurn, Report, TurnQueued
<1>4. ASSUME NEW s \in Sessions, HostEnd(s) PROVE EndReported(s)
  BY <1>4 DEF HostEnd, Report, EndReported, Pi
<1>5. ASSUME TaskBegins PROVE TurnStarted
  BY <1>5 DEF TaskBegins, TurnStarted
<1>6. ASSUME TaskTurnEnds PROVE TurnLearned \/ TurnSettled
  BY <1>6 DEF TaskTurnEnds, TaskFails, TurnLearned, TurnSettled, NoTask, Pi
<1>7. ASSUME NEW dreams \in BOOLEAN, TaskIdles(dreams) PROVE TurnSettled
  BY <1>7 DEF TaskIdles, TaskSucceeds, TurnSettled, NoTask
<1>8. ASSUME TaskIdleFails PROVE TurnSettled
  BY <1>8 DEF TaskIdleFails, TaskFails, TurnSettled, NoTask, Pi
<1>9. ASSUME NEW end \in ends, EndDrains(end) PROVE TailAwaited(end)
  BY <1>9 DEF EndDrains, TailAwaited
<1>10. ASSUME NEW end \in ends, EndSwept(end) PROVE EndMoves(end, "drop") \/ EndIsOver(end)
  BY <1>10 DEF EndSwept, EndLeaves, EndMoves, EndIsOver
<1>11. ASSUME NEW end \in ends, EndDropped(end) PROVE EndMoves(end, "idle")
  BY <1>11 DEF EndDropped, EndMoves
<1>12. ASSUME NEW end \in ends, NEW dreams \in BOOLEAN, EndIdles(end, dreams) PROVE EndIsOver(end)
  BY <1>12 DEF EndIdles, EndLeaves, EndIsOver
<1>13. ASSUME NEW end \in ends, EndIdleFails(end) PROVE EndIsOver(end)
  BY <1>13 DEF EndIdleFails, EndLeaves, EndIsOver
<1>14. ASSUME LearningStep \/ UNCHANGED vars PROVE UNCHANGED <<queueVars, endVars>>
  BY <1>14 DEF LearningStep, vars, hostVars
<1> QED
  BY <1>1, <1>2, <1>3, <1>4, <1>5, <1>6, <1>7, <1>8, <1>9, <1>10, <1>11, <1>12, <1>13, <1>14
  DEF Next, HostStep, PortStep, Steps

(***************************************************************************)
(* The queue.                                                              *)
(***************************************************************************)

LEMMA QueueInit == Init => QueueInv
BY DEF Init, QueueInv, Waits, InOrder, Runs, NoTask, Now, EventType

LEMMA QueueNext == QueueInv /\ [Next]_vars => QueueInv'
<1> SUFFICES ASSUME QueueInv, [Next]_vars PROVE QueueInv'
  OBVIOUS
<1> USE DEF QueueInv, Now
<1>1. ASSUME NEW s \in Sessions, NEW kind \in {"prompt", "tool", "turn", "end"},
             events' = Append(events, [kind |-> kind, session |-> s])
      PROVE  events' \in Seq(EventType) /\ Len(events') = Len(events) + 1
  BY <1>1 DEF EventType
<1>2. Len(events) \in Nat /\ Len(waiting) \in Nat
  OBVIOUS
<1>3. ASSUME NEW s \in Sessions, Reported("prompt", s) \/ Reported("tool", s) \/ EndReported(s)
      PROVE  QueueInv'
  <2>1. events' \in Seq(EventType) /\ Len(events') = Len(events) + 1
    BY <1>1, <1>3 DEF Reported, EndReported
  <2>2. UNCHANGED <<waiting, task, settled, failed>>
    BY <1>3 DEF Reported, EndReported
  <2>3. Waits'
    BY <1>2, <2>1, <2>2 DEF Waits
  <2>4. Runs' /\ InOrder'
    BY <1>2, <2>1, <2>2 DEF Runs, InOrder, NoTask
  <2> QED
    BY <2>1, <2>2, <2>3, <2>4
<1>4. ASSUME NEW s \in Sessions, TurnQueued(s) PROVE QueueInv'
  <2>1. events' \in Seq(EventType) /\ Len(events') = Len(events) + 1
    BY <1>1, <1>4 DEF TurnQueued
  <2>2. UNCHANGED <<task, settled, failed>>
    BY <1>4 DEF TurnQueued
  <2>3. /\ waiting' \in Seq(Nat) /\ Len(waiting') = Len(waiting) + 1
        /\ \A i \in 1 .. Len(waiting) : waiting'[i] = waiting[i]
        /\ waiting'[Len(waiting')] = Len(events) + 1
    BY <1>2, <1>4 DEF TurnQueued
  <2>4. ASSUME NEW i \in 1 .. Len(waiting') PROVE i \in 1 .. Len(waiting) \/ i = Len(waiting')
    BY <1>2, <2>3
  <2>5. Waits'
    BY SMTT(30), <1>2, <2>1, <2>2, <2>3, <2>4 DEF Waits, Runs
  <2>6. InOrder'
    <3> SUFFICES ASSUME NEW i \in 1 .. Len(waiting'), NEW j \in 1 .. Len(waiting'), i < j
                 PROVE  waiting'[i] < waiting'[j]
      BY DEF InOrder
    <3>1. i \in 1 .. Len(waiting) /\ waiting[i] \in Nat /\ waiting[i] <= Len(events)
      BY <1>2, <2>3 DEF Waits
    <3>2. CASE j \in 1 .. Len(waiting)
      BY <3>1, <3>2, <2>3 DEF InOrder
    <3>3. CASE j = Len(waiting')
      BY <3>1, <3>3, <2>3, <1>2
    <3> QED
      BY <3>2, <3>3, <2>4
  <2>7. Runs'
    BY <1>2, <2>1, <2>2 DEF Runs, NoTask
  <2> QED
    BY <2>1, <2>2, <2>3, <2>5, <2>6, <2>7
<1>5. CASE TurnStarted
  <2>1. UNCHANGED <<events, settled, failed>> /\ task = NoTask
    BY <1>5 DEF TurnStarted
  <2>2. /\ waiting' \in Seq(Nat) /\ Len(waiting') = Len(waiting) - 1
        /\ \A i \in 1 .. Len(waiting') : waiting'[i] = waiting[i + 1] /\ i + 1 \in 1 .. Len(waiting)
        /\ Head(waiting) = waiting[1] /\ 1 \in 1 .. Len(waiting)
        /\ waiting[1] \in Nat
    BY <1>2, <1>5 DEF TurnStarted
  <2>3. task'.ev = waiting[1] /\ task' # NoTask
    BY <1>5, <2>2 DEF TurnStarted, NoTask
  <2>4. Waits'
    <3> SUFFICES ASSUME NEW i \in 1 .. Len(waiting')
                 PROVE  /\ waiting[1] < waiting[i + 1] /\ waiting[i + 1] <= Len(events)
                        /\ \A t \in settled : t < waiting[i + 1]
      BY <2>1, <2>2, <2>3 DEF Waits
    <3>1. i + 1 \in 1 .. Len(waiting) /\ 1 < i + 1
      BY <2>2
    <3> QED
      BY <3>1, <2>2 DEF Waits, InOrder
  <2>5. InOrder'
    <3> SUFFICES ASSUME NEW i \in 1 .. Len(waiting'), NEW j \in 1 .. Len(waiting'), i < j
                 PROVE  waiting[i + 1] < waiting[j + 1]
      BY <2>2 DEF InOrder
    <3>1. i + 1 \in 1 .. Len(waiting) /\ j + 1 \in 1 .. Len(waiting) /\ i + 1 < j + 1
      BY <2>2
    <3> QED
      BY <3>1 DEF InOrder
  <2>6. task.ev = 0
    BY <2>1 DEF NoTask
  <2>7. Runs'
    BY <1>2, <2>1, <2>2, <2>3, <2>6 DEF Runs, Waits
  <2> QED
    BY <2>1, <2>2, <2>4, <2>5, <2>7
<1>6. CASE TurnLearned
  <2>1. task'.ev = task.ev /\ task' # NoTask /\ UNCHANGED <<events, waiting, settled, failed>>
    BY <1>6 DEF Runs, TurnLearned, NoTask
  <2> QED
    BY <2>1, <1>6 DEF Waits, InOrder, Runs, TurnLearned
<1>7. CASE TurnSettled
  <2>1. /\ task'.ev = 0 /\ task' = NoTask /\ task.ev \in Nat \ {0}
        /\ UNCHANGED <<events, waiting>> /\ settled' = settled \cup {task.ev}
    BY <1>7 DEF Runs, TurnSettled, NoTask
  <2>2. Waits'
    BY <1>2, <2>1 DEF Waits, Runs
  <2>3. Runs'
    BY <1>2, <2>1 DEF Runs
  <2>4. settled' \in SUBSET (Nat \ {0}) /\ failed' \in SUBSET settled'
    BY <2>1, <1>7 DEF TurnSettled
  <2> QED
    BY <2>1, <2>2, <2>3, <2>4 DEF InOrder
<1>8. CASE UNCHANGED queueVars
  BY <1>8 DEF Waits, InOrder, Runs, queueVars
<1> QED
  BY <1>3, <1>4, <1>5, <1>6, <1>7, <1>8, StepsOfNext
  DEF Steps, TailAwaited, EndMoves, EndIsOver

\* The background queue of both ports: no turn is queued or run twice
\* (enqueueBackgroundTurn, enqueueBackground).
THEOREM TurnsRunOnce == Spec => []QueueInv
BY QueueInit, QueueNext, PTL DEF Spec

(***************************************************************************)
(* Failures of turns.                                                      *)
(***************************************************************************)

EndRecord(ev, at, drained, tail) == [ev |-> ev, at |-> at, drained |-> drained, tail |-> tail]

IsEnd(end) == \E ev, at, drained, tail : end = EndRecord(ev, at, drained, tail)

\* What the handlers make of an end is one again.
LEMMA EndUpdates ==
  ASSUME NEW end, IsEnd(end), NEW at, NEW drained
  PROVE  /\ [end EXCEPT !.at = at] = EndRecord(end.ev, at, end.drained, end.tail)
         /\ [end EXCEPT !.at = at, !.drained = drained] = EndRecord(end.ev, at, drained, end.tail)
<1>1. PICK e, a, d, t : end = [ev |-> e, at |-> a, drained |-> d, tail |-> t]
  BY DEF IsEnd, EndRecord
<1>2. [end EXCEPT !.at = at] = [ev |-> e, at |-> at, drained |-> d, tail |-> t]
  BY <1>1
<1>3. [end EXCEPT !.at = at, !.drained = drained] = [[end EXCEPT !.at = at] EXCEPT !.drained = drained]
  OBVIOUS
<1>4. ASSUME NEW mid, mid = [ev |-> e, at |-> at, drained |-> d, tail |-> t]
      PROVE  [mid EXCEPT !.drained = drained] = [ev |-> e, at |-> at, drained |-> drained, tail |-> t]
  BY <1>4
<1> QED
  BY <1>1, <1>2, <1>3, <1>4 DEF EndRecord

LEMMA EndFields ==
  ASSUME NEW ev, NEW at, NEW drained, NEW tail
  PROVE  LET end == EndRecord(ev, at, drained, tail)
         IN  IsEnd(end) /\ end.ev = ev /\ end.at = at /\ end.drained = drained /\ end.tail = tail
<1>1. IsEnd(EndRecord(ev, at, drained, tail))
  BY DEF IsEnd
<1> QED
  BY <1>1 DEF EndRecord

\* FailuresSurface, where a failure is held in one place at most.
FailInv ==
  /\ \A end \in ends : IsEnd(end)
  /\ FailuresSurface
  /\ Pi =>
       /\ failures \cap (thrown \cup masked) = {}
       /\ \A end \in ends : end.at = "drain" => end.drained = {}
       /\ \A e, f \in ends : e # f => e.drained \cap f.drained = {}

LEMMA FailInit == Init => FailInv
BY DEF Init, FailInv, FailuresSurface

LEMMA FailNext == QueueInv /\ FailInv /\ [Next]_vars => FailInv'
<1> SUFFICES ASSUME QueueInv, FailInv, [Next]_vars PROVE FailInv'
  OBVIOUS
<1> USE DEF FailInv, FailuresSurface, Pi
<1>1. CASE UNCHANGED <<host, failed, endVars>>
  BY <1>1 DEF endVars, IsEnd
<1>2. ASSUME NEW s \in Sessions, EndReported(s) PROVE FailInv'
  <2>1. PICK new : /\ IsEnd(new) /\ new.drained = {}
                   /\ ends' = ends \cup {new}
    <3>1. CASE Pi
      BY <1>2, <3>1, EndFields DEF EndReported, EndRecord
    <3>2. CASE ~Pi
      BY <1>2, <3>2, EndFields DEF EndReported, EndRecord
    <3> QED
      BY <3>1, <3>2
  <2>2. UNCHANGED <<host, failed, failures, thrown, masked>>
    BY <1>2 DEF EndReported
  <2> QED
    BY <2>1, <2>2 DEF IsEnd
<1>3. CASE TurnSettled
  <2>1. CASE failed' = failed /\ failures' = failures
    BY <1>1, <1>3, <2>1 DEF TurnSettled, endVars
  <2>2. CASE failed' = failed \cup {task.ev} /\ (Pi => failures' = failures \cup {task.ev})
    <3>1. task.ev \notin failed
      BY <1>3 DEF QueueInv, Runs, TurnSettled
    <3>2. UNCHANGED <<host, ends, thrown, masked>>
      BY <1>3 DEF TurnSettled
    <3> QED
      BY <2>2, <3>1, <3>2 DEF IsEnd
  <2> QED
    BY <1>3, <2>1, <2>2 DEF TurnSettled
<1>4. ASSUME NEW end \in ends, TailAwaited(end) PROVE FailInv'
  <2>1. PICK new : /\ IsEnd(new) /\ new.drained = failures /\ new.at = "sweep"
                   /\ ends' = (ends \ {end}) \cup {new}
    <3>1. [end EXCEPT !.at = "sweep", !.drained = failures] = EndRecord(end.ev, "sweep", failures, end.tail)
      BY EndUpdates
    <3> QED
      BY <1>4, <3>1, EndFields DEF TailAwaited
  <2>2. UNCHANGED <<host, failed, thrown, masked>> /\ failures' = {} /\ end.at = "drain"
    BY <1>4 DEF TailAwaited, Drained, queueVars
  <2> QED
    BY <2>1, <2>2 DEF IsEnd
<1>5. ASSUME NEW end \in ends, NEW at \in {"drop", "idle"}, EndMoves(end, at) PROVE FailInv'
  <2>1. PICK new : /\ IsEnd(new) /\ new.drained = end.drained /\ new.at # "drain"
                   /\ ends' = (ends \ {end}) \cup {new}
    <3>1. [end EXCEPT !.at = at] = EndRecord(end.ev, at, end.drained, end.tail)
      BY EndUpdates
    <3> QED
      BY <1>5, <3>1, EndFields DEF EndMoves
  <2>2. UNCHANGED <<host, failed, failures, thrown, masked>>
    BY <1>5 DEF EndMoves, queueVars
  <2> QED
    BY <2>1, <2>2 DEF IsEnd
<1>6. ASSUME NEW end \in ends, EndIsOver(end) PROVE FailInv'
  <2>1. UNCHANGED <<host, failed, failures>> /\ ends' = ends \ {end}
    BY <1>6 DEF EndIsOver, queueVars
  <2>2. CASE thrown' = thrown \cup end.drained /\ masked' = masked
    BY <2>1, <2>2 DEF IsEnd
  <2>3. CASE masked' = masked \cup end.drained /\ thrown' = thrown
    BY <2>1, <2>3 DEF IsEnd
  <2> QED
    BY <1>6, <2>2, <2>3 DEF EndIsOver
<1> QED
  BY <1>1, <1>2, <1>3, <1>4, <1>5, <1>6, StepsOfNext
  DEF Steps, Reported, TurnQueued, TurnStarted, TurnLearned, queueVars, endVars

\* Pi never loses the failure of a background turn and never throws one twice, for
\* any number of sessions, turns and failures (backgroundFailures, pi-port.ts).
THEOREM FailuresAreThrown == Spec => []FailuresSurface
<1>1. QueueInv /\ FailInv /\ [Next]_vars => (QueueInv /\ FailInv)'
  BY QueueNext, FailNext
<1>2. FailInv => FailuresSurface
  BY DEF FailInv
<1> QED
  BY QueueInit, FailInit, <1>1, <1>2, PTL DEF Spec

(***************************************************************************)
(* Ends follow turns.                                                      *)
(***************************************************************************)

IsTurn(i) == events[i].kind = "turn"

\* A reported turn is through, runs or waits.
Kept(i) == i \in settled \/ i = task.ev \/ \E k \in 1 .. Len(waiting) : waiting[k] = i

\* No turn is lost; what an end awaits are the turns before it that are not through.
TurnInv ==
  /\ \A i \in 1 .. Now : IsTurn(i) => Kept(i)
  /\ \A end \in ends : IsEnd(end) /\ end.ev \in Nat /\ end.ev <= Now
  /\ Pi => \A end \in ends : \A i \in 1 .. end.ev :
       IsTurn(i) => i \in settled \/ (end.at = "drain" /\ i \in end.tail)

LEMMA TurnInit == Init => TurnInv
BY DEF Init, TurnInv, Now

LEMMA TurnNext == QueueInv /\ TurnInv /\ [Next]_vars => TurnInv'
<1> SUFFICES ASSUME QueueInv, TurnInv, [Next]_vars PROVE TurnInv'
  OBVIOUS
<1> USE DEF TurnInv, Now, Pi, IsTurn
<1>1. Len(events) \in Nat /\ Len(waiting) \in Nat /\ events \in Seq(EventType)
  BY DEF QueueInv
<1>2. ASSUME NEW s \in Sessions, NEW kind \in {"prompt", "tool", "turn", "end"},
             events' = Append(events, [kind |-> kind, session |-> s])
      PROVE  /\ Len(events') = Len(events) + 1
             /\ \A i \in 1 .. Len(events) : events'[i] = events[i]
             /\ events'[Len(events) + 1].kind = kind
             /\ \A i \in 1 .. Len(events') : i \in 1 .. Len(events) \/ i = Len(events) + 1
  BY <1>1, <1>2 DEF EventType
<1>3. ASSUME NEW s \in Sessions, Reported("prompt", s) \/ Reported("tool", s) PROVE TurnInv'
  <2>1. PICK kind \in {"prompt", "tool"} : Reported(kind, s)
    BY <1>3
  <2>2. UNCHANGED <<host, waiting, task, settled, ends>>
    BY <2>1 DEF Reported, endVars
  <2>3. events' = Append(events, [kind |-> kind, session |-> s])
    BY <2>1 DEF Reported
  <2> QED
    BY <1>1, <1>2, <2>2, <2>3 DEF Kept
<1>4. ASSUME NEW s \in Sessions, TurnQueued(s) PROVE TurnInv'
  <2>1. UNCHANGED <<host, task, settled, ends>>
    BY <1>4 DEF TurnQueued, endVars
  <2>2. events' = Append(events, [kind |-> "turn", session |-> s])
    BY <1>4 DEF TurnQueued
  <2>3. /\ Len(waiting') = Len(waiting) + 1
        /\ \A k \in 1 .. Len(waiting) : waiting'[k] = waiting[k] /\ k \in 1 .. Len(waiting')
        /\ waiting'[Len(waiting')] = Len(events) + 1 /\ Len(waiting') \in 1 .. Len(waiting')
    BY <1>1, <1>4 DEF QueueInv, TurnQueued
  <2>4. \A i \in 1 .. Len(events') : IsTurn(i)' => Kept(i)'
    BY <1>1, <1>2, <2>1, <2>2, <2>3 DEF Kept
  <2> QED
    BY <1>1, <1>2, <2>1, <2>2, <2>4
<1>5. ASSUME NEW s \in Sessions, EndReported(s) PROVE TurnInv'
  <2>1. UNCHANGED <<host, waiting, task, settled>>
    BY <1>5 DEF EndReported
  <2>2. events' = Append(events, [kind |-> "end", session |-> s])
    BY <1>5 DEF EndReported
  <2>3. PICK new : /\ ends' = ends \cup {new} /\ IsEnd(new) /\ new.ev = Len(events) + 1
                   /\ Pi => new.at = "drain" /\ new.tail = Range(waiting) \cup ({task.ev} \ {0})
    <3>1. CASE Pi
      <4> DEFINE drain == EndRecord(Len(events) + 1, "drain", {}, Range(waiting) \cup ({task.ev} \ {0}))
      <4>1. ends' = ends \cup {drain}
        BY <1>5, <3>1 DEF EndReported, EndRecord
      <4> HIDE DEF drain
      <4>2. /\ IsEnd(drain) /\ drain.ev = Len(events) + 1 /\ drain.at = "drain"
            /\ drain.tail = Range(waiting) \cup ({task.ev} \ {0})
        BY EndFields DEF drain
      <4> QED
        BY <4>1, <4>2
    <3>2. CASE ~Pi
      <4> DEFINE sweep == EndRecord(Len(events) + 1, "sweep", {}, {})
      <4>1. ends' = ends \cup {sweep}
        BY <1>5, <3>2 DEF EndReported, EndRecord
      <4> HIDE DEF sweep
      <4>2. IsEnd(sweep) /\ sweep.ev = Len(events) + 1
        BY EndFields DEF sweep
      <4> QED
        BY <3>2, <4>1, <4>2
    <3> QED
      BY <3>1, <3>2
  <2>4. Pi => \A i \in 1 .. Len(events) : IsTurn(i) => i \in settled \/ i \in new.tail
    BY <1>1, <2>3 DEF Kept, Range, QueueInv
  <2>5. \A i \in 1 .. Len(events') : IsTurn(i)' => i \in 1 .. Len(events) /\ IsTurn(i)
    BY <1>1, <1>2, <2>2
  <2>6. \A i \in 1 .. Len(events') : IsTurn(i)' => Kept(i)'
    BY <2>1, <2>5 DEF Kept
  <2> QED
    BY <1>1, <1>2, <2>1, <2>2, <2>3, <2>4, <2>5, <2>6
<1>6. CASE TurnStarted
  <2>1. UNCHANGED <<host, events, settled, ends>>
    BY <1>6 DEF TurnStarted, endVars
  <2>2. /\ task'.ev = waiting[1] /\ task.ev = 0
        /\ Len(waiting') = Len(waiting) - 1
        /\ \A i \in 1 .. Len(waiting') : waiting'[i] = waiting[i + 1]
    BY <1>1, <1>6 DEF TurnStarted, NoTask, QueueInv
  <2>3. \A k \in 1 .. Len(waiting) : k = 1 \/ (k - 1 \in 1 .. Len(waiting') /\ waiting'[k - 1] = waiting[k])
    BY <1>1, <2>2
  <2>4. \A i \in 1 .. Len(events) : Kept(i) => Kept(i)'
    BY <2>1, <2>2, <2>3 DEF Kept
  <2> QED
    BY <2>1, <2>4 DEF IsEnd
<1>7. CASE TurnLearned
  <2>1. task'.ev = task.ev /\ UNCHANGED <<host, events, settled, waiting, ends>>
    BY <1>7 DEF TurnLearned, endVars
  <2> QED
    BY <2>1 DEF Kept, IsEnd
<1>8. CASE TurnSettled
  <2>1. settled' = settled \cup {task.ev} /\ UNCHANGED <<host, events, waiting, ends>>
    BY <1>8 DEF TurnSettled
  <2> QED
    BY <2>1 DEF Kept, IsEnd
<1>9. ASSUME NEW end \in ends, TailAwaited(end) PROVE TurnInv'
  <2>1. UNCHANGED <<host, events, waiting, task, settled>> /\ end.tail \subseteq settled
    BY <1>9 DEF TailAwaited, Drained, queueVars
  <2>2. PICK new : ends' = (ends \ {end}) \cup {new} /\ IsEnd(new) /\ new.ev = end.ev
    <3>1. [end EXCEPT !.at = "sweep", !.drained = failures] = EndRecord(end.ev, "sweep", failures, end.tail)
      BY EndUpdates
    <3> QED
      BY <1>9, <3>1, EndFields DEF TailAwaited
  <2> QED
    BY <2>1, <2>2 DEF Kept
<1>10. ASSUME NEW end \in ends, NEW at \in {"drop", "idle"}, EndMoves(end, at) PROVE TurnInv'
  <2>1. UNCHANGED <<host, events, waiting, task, settled>> /\ end.at # "drain"
    BY <1>10 DEF EndMoves, queueVars
  <2>2. PICK new : ends' = (ends \ {end}) \cup {new} /\ IsEnd(new) /\ new.ev = end.ev
    <3>1. [end EXCEPT !.at = at] = EndRecord(end.ev, at, end.drained, end.tail)
      BY EndUpdates
    <3> QED
      BY <1>10, <3>1, EndFields DEF EndMoves
  <2> QED
    BY <2>1, <2>2 DEF Kept
<1>11. ASSUME NEW end \in ends, EndIsOver(end) PROVE TurnInv'
  BY <1>11 DEF EndIsOver, queueVars, Kept
<1>12. CASE UNCHANGED <<queueVars, endVars>>
  BY <1>12 DEF queueVars, endVars, Kept, IsEnd
<1> QED
  BY <1>3, <1>4, <1>5, <1>6, <1>7, <1>8, <1>9, <1>10, <1>11, <1>12, StepsOfNext DEF Steps

\* Pi's handler of session_shutdown sweeps a session only after every turn reported
\* before it, of any session, is through, for any number of sessions and turns.
THEOREM EndsFollowTurns == Spec => []TurnsPrecedeEnd
<1>1. QueueInv /\ TurnInv /\ [Next]_vars => (QueueInv /\ TurnInv)'
  BY QueueNext, TurnNext
<1>2. TurnInv => TurnsPrecedeEnd
  BY DEF TurnInv, TurnsPrecedeEnd, IsTurn
<1> QED
  BY QueueInit, TurnInit, <1>1, <1>2, PTL DEF Spec

(***************************************************************************)
(* Greatest elements.                                                      *)
(***************************************************************************)

\* A set of numbers has a least one.
LEMMA LeastOf ==
  ASSUME NEW S, S \subseteq Nat, S # {}
  PROVE \E x \in S : \A y \in S : x <= y
<1>1. IsWellFoundedOn(OpToRel(<, Nat), Nat)
  BY NatLessThanWellFounded
<1>2. PICK x \in S : \A y \in S : ~(<<y, x>> \in OpToRel(<, Nat))
  BY <1>1, WFMin
<1>3. \A y \in S : ~(y < x)
  BY <1>2 DEF OpToRel
<1>4. \A y \in S : x <= y
  <2> SUFFICES ASSUME NEW y \in S PROVE x <= y
    OBVIOUS
  <2>1. x \in Nat /\ y \in Nat /\ ~(y < x)
    BY <1>3
  <2> QED
    BY <2>1
<1> QED
  BY <1>4

\* A bounded set of numbers has a greatest one.
LEMMA MaxOfBounded ==
  ASSUME NEW S, S \subseteq Nat, S # {}, NEW n \in Nat, \A x \in S : x <= n
  PROVE  Max(S) \in S /\ \A y \in S : y <= Max(S)
<1> DEFINE T == {n - x : x \in S}
<1>1. T \subseteq Nat /\ T # {}
  OBVIOUS
<1>2. PICK t \in T : \A y \in T : t <= y
  BY <1>1, LeastOf
<1>3. PICK x \in S : t = n - x
  OBVIOUS
<1>4. \A y \in S : x >= y
  <2> SUFFICES ASSUME NEW y \in S PROVE x >= y
    OBVIOUS
  <2>1. n - x <= n - y
    BY <1>2, <1>3
  <2> QED
    BY <2>1
<1>5. \E z \in S : \A y \in S : z >= y
  BY <1>4
<1> QED
  BY <1>5 DEF Max

(***************************************************************************)
(* Types.                                                                  *)
(***************************************************************************)

Reports == 1 .. Now

TaskType    == {NoTask} \cup [ev : Reports, at : {"turn", "idle"}]
EndType     == [ev : Reports, at : {"drain", "sweep", "drop", "idle"},
                drained : SUBSET Reports, tail : SUBSET Reports]
RequestType == [op : {"turn"}, session : Sessions, ev : Reports, users : Nat, calls : Nat]
                 \cup [op : {"sweep", "drop"}, session : Sessions, ev : Reports]
LoopType    == [at : {"extract", "evolve", "dream", "finish"}, op : {"turn", "sweep"},
                session : Sessions, ev : Reports]
AnswerType  == [op : {"turn", "sweep", "drop"}, ev : Reports, ok : BOOLEAN]
CountType   == [turns : Nat, users : Nat, calls : Nat, last : Nat]

PortTypes ==
  /\ host \in Hosts
  /\ events \in Seq(EventType) /\ waiting \in Seq(Reports)
  /\ task \in TaskType
  /\ override \in 0 .. Now
  /\ buffer \in [Sessions -> SUBSET Reports]
  /\ handed \subseteq [turn : Reports, call : Reports]
  /\ ends \subseteq EndType
  /\ {failures, settled, failed, thrown, masked} \subseteq SUBSET Reports

SdkTypes ==
  /\ lifecycle \in Seq(RequestType)
  /\ loop \in {Idle} \cup LoopType
  /\ answers \subseteq AnswerType
  /\ session \in [Sessions -> CountType] /\ \A s \in Sessions : session[s].last <= session[s].turns
  /\ owed \in [Sessions -> SUBSET Reports]
  /\ {learned, published, dreamt} \subseteq SUBSET Reports
  /\ resolved \subseteq [ev : Reports, used : 0 .. Now]

Types == PortTypes /\ SdkTypes

\* Nothing that is known is forgotten when more is reported.
LEMMA TypesGrow ==
  ASSUME Types, Now' \in Nat, Now <= Now'
  PROVE  /\ Reports \subseteq Reports' /\ 0 .. Now \subseteq 0 .. Now'
         /\ TaskType \subseteq TaskType' /\ EndType \subseteq EndType'
         /\ RequestType \subseteq RequestType' /\ LoopType \subseteq LoopType'
         /\ AnswerType \subseteq AnswerType'
         /\ waiting \in Seq(Reports') /\ lifecycle \in Seq(RequestType')
<1>1. Now \in Nat
  BY DEF Types, PortTypes, Now
<1>2. Reports \subseteq Reports' /\ 0 .. Now \subseteq 0 .. Now'
  BY <1>1 DEF Reports
<1>3. SUBSET Reports \subseteq SUBSET Reports'
  BY <1>2
<1>4. /\ TaskType \subseteq TaskType' /\ EndType \subseteq EndType'
      /\ LoopType \subseteq LoopType' /\ AnswerType \subseteq AnswerType'
  BY <1>2, <1>3 DEF TaskType, EndType, LoopType, AnswerType
<1>5. RequestType \subseteq RequestType'
  BY <1>2 DEF RequestType
<1> QED
  BY <1>2, <1>4, <1>5 DEF Types, PortTypes, SdkTypes

LEMMA UsedType == Types => Used \in 0 .. Now /\ Selection \in 0 .. Now
<1> SUFFICES ASSUME Types PROVE Used \in 0 .. Now /\ Selection \in 0 .. Now
  OBVIOUS
<1> DEFINE S == {0} \cup {i \in 1 .. Now : events[i].kind \in {"prompt", "turn"}}
<1>1. Now \in Nat
  BY DEF Types, PortTypes, Now
<1>2. S \subseteq 0 .. Now /\ S # {}
  BY <1>1
<1>3. S \subseteq Nat /\ \A x \in S : x <= Now
  BY <1>1, <1>2
<1>4. Max(S) \in S
  BY <1>1, <1>2, <1>3, MaxOfBounded
<1>5. Selection \in 0 .. Now
  BY <1>2, <1>4 DEF Selection
<1> QED
  BY <1>1, <1>5 DEF Used, Types, PortTypes

LEMMA TypesInit == Init => Types
<1> SUFFICES ASSUME Init PROVE Types
  OBVIOUS
<1>1. Now = 0 /\ \A S : <<>> \in Seq(S)
  BY DEF Init, Now
<1>2. host.failures \in Nat
  BY HostsAssumption DEF Init
<1>3. PortTypes
  BY <1>1 DEF Init, PortTypes, TaskType
<1>4. SdkTypes
  BY <1>1 DEF Init, SdkInit, SdkTypes, CountType, Absent
<1> QED
  BY <1>3, <1>4 DEF Types

\* A report of the host.
LEMMA ReportTypes ==
  ASSUME Types, NEW s \in Sessions, NEW kind \in {"prompt", "tool", "turn", "end"}, Report(kind, s)
  PROVE  /\ events' \in Seq(EventType) /\ Now' = Now + 1 /\ Now \in Nat /\ Now' \in Reports'
         /\ \A i \in Reports : events'[i] = events[i]
         /\ events'[Now + 1] = [kind |-> kind, session |-> s]
         /\ \A i \in Reports' : i \in Reports \/ i = Now + 1
<1>1. events \in Seq(EventType) /\ [kind |-> kind, session |-> s] \in EventType
  BY DEF Types, PortTypes, EventType
<1> QED
  BY <1>1 DEF Report, Now, Reports

LEMMA HostTypes == Types /\ HostStep => Types'
<1> SUFFICES ASSUME Types, HostStep PROVE Types'
  OBVIOUS
<1>1. PICK s \in Sessions : HostPrompt(s) \/ HostTurn(s) \/ HostTool(s) \/ HostEnd(s)
  BY DEF HostStep
<1>2. PICK kind \in {"prompt", "tool", "turn", "end"} : Report(kind, s)
  BY <1>1 DEF HostPrompt, HostTurn, HostTool, HostEnd
<1>3. /\ events' \in Seq(EventType) /\ Now' = Now + 1 /\ Now \in Nat /\ Now' \in Reports'
      /\ Now <= Now' /\ Now' \in Nat
  <2>1. events' \in Seq(EventType) /\ Now' = Now + 1 /\ Now \in Nat /\ Now' \in Reports'
    BY <1>2, ReportTypes
  <2> QED
    BY <2>1
<1>4. /\ Reports \subseteq Reports' /\ 0 .. Now \subseteq 0 .. Now'
      /\ TaskType \subseteq TaskType' /\ EndType \subseteq EndType'
      /\ RequestType \subseteq RequestType' /\ LoopType \subseteq LoopType'
      /\ AnswerType \subseteq AnswerType'
      /\ waiting \in Seq(Reports') /\ lifecycle \in Seq(RequestType')
  BY <1>3, TypesGrow
<1>5. UNCHANGED <<loop, session, owed, answers, resolved, learned, published, dreamt, failing,
                  host, task, override, handed, failures, settled, failed, thrown, masked>>
  BY <1>1 DEF HostPrompt, HostTurn, HostTool, HostEnd, sdkVars
<1>6. waiting' \in Seq(Reports')
  <2>1. waiting' = waiting \/ waiting' = Append(waiting, Now + 1)
    BY <1>1 DEF HostPrompt, HostTurn, HostTool, HostEnd
  <2> QED
    BY SMTT(30), <2>1, <1>3, <1>4
<1>7. buffer' \in [Sessions -> SUBSET Reports']
  <2>1. buffer' = buffer \/ buffer' = [buffer EXCEPT ![s] = @ \cup {Now + 1}]
    BY <1>1 DEF HostPrompt, HostTurn, HostTool, HostEnd
  <2>2. buffer \in [Sessions -> SUBSET Reports']
    BY <1>4 DEF Types, PortTypes
  <2> QED
    BY <2>1, <2>2, <1>3
<1>8. lifecycle' \in Seq(RequestType')
  <2>1. lifecycle' = lifecycle \/ lifecycle' = Append(lifecycle, Sweep(s, Now + 1))
    BY <1>1 DEF HostPrompt, HostTurn, HostTool, HostEnd, sdkVars, Enqueue
  <2>2. Sweep(s, Now + 1) \in RequestType'
    BY <1>3 DEF RequestType, Sweep
  <2> QED
    BY <2>1, <2>2, <1>4
<1>9. ends' \subseteq EndType'
  <2>1. \/ ends' = ends
        \/ ends' = ends \cup {[ev |-> Now + 1, at |-> "drain", drained |-> {},
                               tail |-> Range(waiting) \cup ({task.ev} \ {0})]}
        \/ ends' = ends \cup {[ev |-> Now + 1, at |-> "sweep", drained |-> {}, tail |-> {}]}
    BY <1>1 DEF HostPrompt, HostTurn, HostTool, HostEnd
  <2>2. Range(waiting) \subseteq Reports'
    BY <1>4 DEF Range
  <2>3. {task.ev} \ {0} \subseteq Reports'
    BY <1>4 DEF Types, PortTypes, TaskType, NoTask
  <2>4. [ev |-> Now + 1, at |-> "drain", drained |-> {},
         tail |-> Range(waiting) \cup ({task.ev} \ {0})] \in EndType'
    BY <1>3, <2>2, <2>3 DEF EndType
  <2>5. [ev |-> Now + 1, at |-> "sweep", drained |-> {}, tail |-> {}] \in EndType'
    BY <1>3 DEF EndType
  <2>6. ends \subseteq EndType'
    BY <1>4 DEF Types, PortTypes
  <2> QED
    BY <2>1, <2>4, <2>5, <2>6
<1>10. PortTypes'
  BY <1>3, <1>4, <1>5, <1>6, <1>7, <1>9 DEF Types, PortTypes
<1>11. SdkTypes'
  BY <1>4, <1>5, <1>8 DEF Types, SdkTypes
<1> QED
  BY <1>10, <1>11 DEF Types

\* The type sets do not change unless something is reported.
LEMMA SameTypes ==
  ASSUME UNCHANGED events
  PROVE  /\ Now' = Now /\ Reports' = Reports /\ TaskType' = TaskType /\ EndType' = EndType
         /\ RequestType' = RequestType /\ LoopType' = LoopType /\ AnswerType' = AnswerType
BY DEF Now, Reports, TaskType, EndType, RequestType, LoopType, AnswerType

\* The first task that waits.
LEMMA HeadTypes ==
  ASSUME Types, lifecycle # <<>>
  PROVE  /\ Head(lifecycle) \in RequestType /\ Head(lifecycle) = lifecycle[1]
         /\ Tail(lifecycle) \in Seq(RequestType)
         /\ Len(lifecycle) \in Nat \ {0} /\ Len(Tail(lifecycle)) = Len(lifecycle) - 1
         /\ \A i \in 1 .. Len(Tail(lifecycle)) : /\ i + 1 \in 1 .. Len(lifecycle)
                                               /\ Tail(lifecycle)[i] = lifecycle[i + 1]
BY DEF Types, SdkTypes

LEMMA MaxOfTwo == ASSUME NEW a \in Nat, NEW b \in Nat PROVE Max({a, b}) \in Nat /\ a <= Max({a, b})
<1>1. \E x \in {a, b} : \A y \in {a, b} : x >= y
  <2>1. CASE a >= b
    BY <2>1
  <2>2. CASE b >= a
    BY <2>2
  <2> QED
    BY <2>1, <2>2
<1>2. Max({a, b}) \in {a, b} /\ Max({a, b}) >= a
  BY <1>1 DEF Max
<1> QED
  BY <1>2

LEMMA SettleTypes ==
  ASSUME Types, loop \in LoopType, NEW ok \in BOOLEAN, Settle(ok), UNCHANGED events
  PROVE  answers' \subseteq AnswerType' /\ loop' \in {Idle} \cup LoopType'
BY SameTypes DEF Types, SdkTypes, Settle, LoopType, AnswerType

LEMMA ResolveTypes ==
  ASSUME Types, NEW ev \in Reports, NEW used \in 0 .. Now, UNCHANGED events,
         resolved' = resolved \cup {[ev |-> ev, used |-> used]}
  PROVE  resolved' \subseteq [ev : Reports', used : 0 .. Now']
BY SameTypes DEF Types, SdkTypes

LEMMA Busy ==
  ASSUME Types, loop.at # "idle"
  PROVE  /\ loop \in LoopType /\ loop # Idle /\ loop.ev \in Reports /\ loop.session \in Sessions
         /\ \A at \in {"extract", "evolve", "dream", "finish"} :
              /\ [loop EXCEPT !.at = at] \in LoopType
              /\ [loop EXCEPT !.at = at] = [at |-> at, op |-> loop.op, session |-> loop.session, ev |-> loop.ev]
BY DEF Types, SdkTypes, LoopType, Idle

\* One counter of a session is set.
LEMMA CountUpdates ==
  ASSUME NEW c \in CountType, NEW n \in Nat
  PROVE  /\ [c EXCEPT !.turns = n] = [turns |-> n, users |-> c.users, calls |-> c.calls, last |-> c.last]
         /\ [c EXCEPT !.users = n] = [turns |-> c.turns, users |-> n, calls |-> c.calls, last |-> c.last]
         /\ [c EXCEPT !.calls = n] = [turns |-> c.turns, users |-> c.users, calls |-> n, last |-> c.last]
         /\ [c EXCEPT !.last = n]  = [turns |-> c.turns, users |-> c.users, calls |-> c.calls, last |-> n]
<1>1. PICK t, u, k, l : c = [turns |-> t, users |-> u, calls |-> k, last |-> l]
  BY DEF CountType
<1> QED
  BY <1>1

LEMMA SdkStepTypes ==
  ASSUME Types, NEW used \in 0 .. Now, NEW learns \in BOOLEAN, SdkStep(used, learns), UNCHANGED hostVars
  PROVE  Types'
<1>1. UNCHANGED <<host, events, waiting, task, override, buffer, handed, failures, ends,
                  settled, failed, thrown, masked>>
  BY DEF hostVars
<1>2. PortTypes'
  BY <1>1, SameTypes DEF Types, PortTypes
<1> SUFFICES SdkTypes'
  BY <1>2 DEF Types
<1>3. CASE StartTurn
  <2> DEFINE t == Head(lifecycle)
             users == session[t.session].users + t.users
  <2>1. t \in RequestType /\ t.op = "turn" /\ lifecycle' \in Seq(RequestType')
    BY <1>1, <1>3, HeadTypes, SameTypes DEF StartTurn
  <2>2. t.session \in Sessions /\ t.ev \in Reports /\ t.users \in Nat /\ t.calls \in Nat
    BY <2>1 DEF RequestType
  <2> HIDE DEF t
  <2>3. /\ session[t.session] \in CountType /\ session \in [Sessions -> CountType]
        /\ \A s \in Sessions : session[s].last <= session[s].turns
    BY <2>2 DEF Types, SdkTypes
  <2>4. users \in Nat /\ session[t.session].turns + 1 \in Nat
    BY <2>2, <2>3 DEF CountType
  <2> DEFINE turns == Max({session[t.session].turns + 1, users})
  <2>5. turns \in Nat /\ session[t.session].turns + 1 <= turns
    BY <2>4, MaxOfTwo
  <2> HIDE DEF users
  <2>6. session' = [session EXCEPT ![t.session] = [turns |-> turns, users |-> users,
                      calls |-> session[t.session].calls + t.calls, last |-> session[t.session].last]]
    <3> DEFINE c1 == [session[t.session] EXCEPT !.users = users]
               c2 == [c1 EXCEPT !.calls = session[t.session].calls + t.calls]
    <3>1. session' = [session EXCEPT ![t.session] = [c2 EXCEPT !.turns = turns]]
      BY <1>3, <2>2, <2>3 DEF StartTurn, CountType, t, users
    <3>2. c1 = [turns |-> session[t.session].turns, users |-> users,
                calls |-> session[t.session].calls, last |-> session[t.session].last]
      BY <2>3, <2>4, CountUpdates
    <3>3. c1 \in CountType /\ session[t.session].calls + t.calls \in Nat
      BY <2>2, <2>3, <2>4, <3>2 DEF CountType
    <3> HIDE DEF c1
    <3>4. c2 = [turns |-> session[t.session].turns, users |-> users,
                calls |-> session[t.session].calls + t.calls, last |-> session[t.session].last]
      <4>1. c2 = [turns |-> c1.turns, users |-> c1.users,
                  calls |-> session[t.session].calls + t.calls, last |-> c1.last]
        BY <3>3, CountUpdates
      <4> QED
        BY <3>2, <4>1
    <3>5. c2 \in CountType
      BY <2>2, <2>3, <2>4, <3>3, <3>4 DEF CountType
    <3> HIDE DEF c2
    <3>6. [c2 EXCEPT !.turns = turns] = [turns |-> turns, users |-> c2.users, calls |-> c2.calls, last |-> c2.last]
      BY <2>5, <3>5, CountUpdates
    <3> QED
      BY <3>1, <3>4, <3>6
  <2> HIDE DEF turns
  <2>7. session' \in [Sessions -> CountType] /\ \A s \in Sessions : session'[s].last <= session'[s].turns
    <3> DEFINE new == [turns |-> turns, users |-> users,
                       calls |-> session[t.session].calls + t.calls, last |-> session[t.session].last]
    <3>1. new \in CountType /\ new.last <= new.turns
      BY <2>2, <2>3, <2>4, <2>5 DEF CountType
    <3> HIDE DEF new
    <3>2. session' = [session EXCEPT ![t.session] = new]
      BY <2>6 DEF new
    <3> QED
      BY <2>2, <2>3, <3>1, <3>2
  <2>8. owed' \in [Sessions -> SUBSET Reports]
    BY <1>3, <2>2 DEF StartTurn, t, Types, SdkTypes
  <2>9. loop' \in LoopType
    BY <1>3, <2>2 DEF StartTurn, t, LoopType
  <2>10. UNCHANGED <<answers, resolved, learned, published, dreamt>>
    BY <1>3 DEF StartTurn
  <2> QED
    BY <1>1, <2>1, <2>7, <2>8, <2>9, <2>10, SameTypes DEF Types, SdkTypes
<1>4. CASE StartSweep
  <2>1. Head(lifecycle) \in RequestType /\ lifecycle' \in Seq(RequestType')
    BY <1>1, <1>4, HeadTypes, SameTypes DEF StartSweep
  <2>2. loop' \in LoopType
    BY <1>4, <2>1 DEF StartSweep, LoopType, RequestType
  <2>3. UNCHANGED <<session, owed, answers, resolved, learned, published, dreamt>>
    BY <1>4 DEF StartSweep
  <2> QED
    BY <1>1, <2>1, <2>2, <2>3, SameTypes DEF Types, SdkTypes
<1>5. CASE RunDrop
  <2> DEFINE t == Head(lifecycle)
  <2>1. t \in RequestType /\ lifecycle' \in Seq(RequestType')
    BY <1>1, <1>5, HeadTypes, SameTypes DEF RunDrop
  <2>2. t.session \in Sessions /\ t.ev \in Reports
    BY <2>1 DEF RequestType
  <2>3. session' = [session EXCEPT ![t.session] = Absent] /\ owed' = [owed EXCEPT ![t.session] = {}]
        /\ answers' = answers \cup {[op |-> "drop", ev |-> t.ev, ok |-> TRUE]}
        /\ UNCHANGED <<loop, resolved, learned, published, dreamt>>
    BY <1>5 DEF RunDrop
  <2>4. Absent \in CountType /\ Absent.last <= Absent.turns
    BY DEF Absent, CountType
  <2>5. [op |-> "drop", ev |-> t.ev, ok |-> TRUE] \in AnswerType
    BY <2>2 DEF AnswerType
  <2> HIDE DEF t
  <2>6. session' \in [Sessions -> CountType] /\ \A s \in Sessions : session'[s].last <= session'[s].turns
    BY <2>2, <2>3, <2>4 DEF Types, SdkTypes
  <2>7. owed' \in [Sessions -> SUBSET Reports] /\ answers' \subseteq AnswerType
    BY <2>2, <2>3, <2>5 DEF Types, SdkTypes
  <2> QED
    BY <1>1, <2>1, <2>3, <2>6, <2>7, SameTypes DEF Types, SdkTypes
\* The loop runs.
<1>6. ASSUME loop.at # "idle", UNCHANGED lifecycle,
             session' = session, owed' \in [Sessions -> SUBSET Reports],
             {learned', published', dreamt'} \subseteq SUBSET Reports,
             resolved' = resolved \/ Resolve(used),
             \/ \E ok \in BOOLEAN : Settle(ok)
             \/ answers' = answers /\ \E at \in {"evolve", "dream", "finish"} : loop' = [loop EXCEPT !.at = at]
      PROVE  SdkTypes'
  <2>1. loop \in LoopType /\ loop.ev \in Reports
    BY <1>6, Busy
  <2>2. resolved' \subseteq [ev : Reports', used : 0 .. Now']
    BY <1>1, <1>6, <2>1, ResolveTypes, SameTypes DEF Resolve, Types, SdkTypes
  <2>3. answers' \subseteq AnswerType' /\ loop' \in {Idle} \cup LoopType'
    <3>1. ASSUME NEW ok \in BOOLEAN, Settle(ok)
          PROVE  answers' \subseteq AnswerType' /\ loop' \in {Idle} \cup LoopType'
      BY <1>1, <2>1, <3>1, SettleTypes
    <3>2. ASSUME answers' = answers, NEW at \in {"evolve", "dream", "finish"}, loop' = [loop EXCEPT !.at = at]
          PROVE  answers' \subseteq AnswerType' /\ loop' \in {Idle} \cup LoopType'
      BY <1>1, <1>6, <3>2, Busy, SameTypes DEF Types, SdkTypes
    <3> QED
      BY <1>6, <3>1, <3>2
  <2> QED
    BY <1>1, <1>6, <2>2, <2>3, SameTypes DEF Types, SdkTypes
<1>7. owed \in [Sessions -> SUBSET Reports] /\ {learned, published, dreamt} \subseteq SUBSET Reports
  BY DEF Types, SdkTypes
<1>8. CASE ExtractionSucceeds(used, learns)
  <2>1. loop.session \in Sessions
    BY <1>8, Busy DEF ExtractionSucceeds
  <2>2. learned' \in SUBSET Reports /\ owed' \in [Sessions -> SUBSET Reports]
    BY <1>7, <1>8, <2>1 DEF ExtractionSucceeds
  <2> QED
    BY <1>6, <1>7, <1>8, <2>2 DEF ExtractionSucceeds
<1>9. CASE SweepSkips \/ EvolutionSkipped
  BY <1>6, <1>7, <1>9 DEF SweepSkips, EvolutionSkipped
<1>10. ASSUME NEW resolves \in BOOLEAN, ExtractionFails(used, resolves) PROVE SdkTypes'
  BY <1>6, <1>7, <1>10 DEF ExtractionFails
<1>11. CASE EvolutionFails(used)
  BY <1>6, <1>7, <1>11 DEF EvolutionFails
<1>12. ASSUME NEW changes \in BOOLEAN, EvolutionSucceeds(used, changes) PROVE SdkTypes'
  <2>1. published' \in SUBSET Reports
    BY <1>7, <1>12, Busy DEF EvolutionSucceeds
  <2> QED
    BY <1>6, <1>7, <1>12, <2>1 DEF EvolutionSucceeds, Coordinate
<1>13. CASE CoordinatedDream(used)
  <2>1. dreamt' \in SUBSET Reports
    BY <1>7, <1>13, Busy DEF CoordinatedDream
  <2> QED
    BY <1>6, <1>7, <1>13, <2>1 DEF CoordinatedDream
<1>14. CASE DreamTimesOut
  BY <1>6, <1>7, <1>14 DEF DreamTimesOut
<1>15. CASE FinishTurn
  <2>1. loop \in LoopType /\ loop.session \in Sessions
    BY <1>15, Busy DEF FinishTurn
  <2>2. session' \in [Sessions -> CountType] /\ \A s \in Sessions : session'[s].last <= session'[s].turns
    <3> DEFINE old == session[loop.session]
               new == [turns |-> old.turns, users |-> old.users, calls |-> old.calls, last |-> old.turns]
    <3>1. old \in CountType
      BY <2>1 DEF Types, SdkTypes
    <3>2. session' = [session EXCEPT ![loop.session] = new]
      <4>1. session' = [session EXCEPT ![loop.session] = [old EXCEPT !.last = old.turns]]
        BY <1>15, <2>1, <3>1 DEF FinishTurn, Types, SdkTypes
      <4>2. old.turns \in Nat
        BY <3>1 DEF CountType
      <4> QED
        BY <3>1, <4>1, <4>2, CountUpdates
    <3>3. new \in CountType /\ new.last <= new.turns
      BY <3>1 DEF CountType
    <3> HIDE DEF new, old
    <3> QED
      BY <2>1, <3>2, <3>3 DEF Types, SdkTypes
  <2>3. answers' \subseteq AnswerType' /\ loop' \in {Idle} \cup LoopType'
    BY <1>1, <1>15, <2>1, SettleTypes DEF FinishTurn
  <2> QED
    BY <1>1, <1>15, <2>2, <2>3, SameTypes DEF FinishTurn, Types, SdkTypes
<1> QED
  BY <1>3, <1>4, <1>5, <1>8, <1>9, <1>10, <1>11, <1>12, <1>13, <1>14, <1>15 DEF SdkStep

\* What a task finds at its turn.
LEMMA TaskTypes ==
  ASSUME Types, NEW ev \in Reports
  PROVE  /\ events[ev].session \in Sessions
         /\ Cardinality(Covered(ev)) \in Nat
         /\ CallsOf(ev) \subseteq Reports
         /\ \A S \in SUBSET Reports : Cardinality(S) \in Nat
<1>1. events \in Seq(EventType) /\ Now \in Nat /\ ev \in 1 .. Len(events)
  BY DEF Types, PortTypes, Reports, Now
<1>2. events[ev] \in EventType
  BY <1>1
<1>3. \A S \in SUBSET Reports : Cardinality(S) \in Nat
  <2> SUFFICES ASSUME NEW S \in SUBSET Reports PROVE Cardinality(S) \in Nat
    OBVIOUS
  <2>1. IsFiniteSet(Reports)
    BY <1>1, FS_Interval DEF Reports
  <2>2. IsFiniteSet(S)
    BY <2>1, FS_Subset
  <2> QED
    BY <2>2, FS_CardinalityType
<1>4. Covered(ev) \subseteq Reports
  BY DEF Covered, Turns, Reports
<1>5. CallsOf(ev) \subseteq Reports
  BY <1>1 DEF CallsOf, Reports, Now
<1> QED
  BY <1>2, <1>3, <1>4, <1>5 DEF EventType

LEMMA EndChanges ==
  ASSUME Types, NEW end \in ends, NEW at \in {"sweep", "drop", "idle"}, NEW drained \in SUBSET Reports
  PROVE  /\ [end EXCEPT !.at = at] = [ev |-> end.ev, at |-> at, drained |-> end.drained, tail |-> end.tail]
         /\ [end EXCEPT !.at = at, !.drained = drained]
              = [ev |-> end.ev, at |-> at, drained |-> drained, tail |-> end.tail]
         /\ [end EXCEPT !.at = at] \in EndType /\ [end EXCEPT !.at = at, !.drained = drained] \in EndType
         /\ end.ev \in Reports /\ events[end.ev].session \in Sessions
         /\ end.drained \in SUBSET Reports
<1>1. end \in EndType
  BY DEF Types, PortTypes
<1>2. IsEnd(end)
  BY <1>1 DEF EndType, IsEnd, EndRecord
<1>3. /\ end.ev \in Reports /\ end.drained \in SUBSET Reports /\ end.tail \in SUBSET Reports
  BY <1>1 DEF EndType
<1>4. /\ [end EXCEPT !.at = at] = [ev |-> end.ev, at |-> at, drained |-> end.drained, tail |-> end.tail]
      /\ [end EXCEPT !.at = at, !.drained = drained]
           = [ev |-> end.ev, at |-> at, drained |-> drained, tail |-> end.tail]
  <2>1. /\ [end EXCEPT !.at = at] = EndRecord(end.ev, at, end.drained, end.tail)
        /\ [end EXCEPT !.at = at, !.drained = drained] = EndRecord(end.ev, at, drained, end.tail)
    BY <1>2, EndUpdates
  <2> QED
    BY <2>1 DEF EndRecord
<1>5. [end EXCEPT !.at = at] \in EndType /\ [end EXCEPT !.at = at, !.drained = drained] \in EndType
  BY <1>3, <1>4 DEF EndType
<1> QED
  BY <1>3, <1>4, <1>5, TaskTypes

LEMMA Tasks ==
  ASSUME Types, task.at \in {"turn", "idle"}
  PROVE  task.ev \in Reports /\ task # NoTask /\ [task EXCEPT !.at = "idle"] \in TaskType
         /\ [task EXCEPT !.at = "idle"] = [ev |-> task.ev, at |-> "idle"]
BY DEF Types, PortTypes, TaskType, NoTask

LEMMA PortStepTypes == Types /\ PortStep => Types'
<1> SUFFICES ASSUME Types, PortStep PROVE Types'
  OBVIOUS
<1>1. UNCHANGED <<host, events>>
  BY DEF PortStep, TaskBegins, TaskTurnEnds, TaskIdles, TaskIdleFails, EndDrains, EndSwept, EndDropped,
    EndIdles, EndIdleFails
\* What the port leaves of the SDK, and what it leaves of itself.
<1>2. ASSUME UNCHANGED <<loop, session, owed, learned, published, dreamt>>,
             lifecycle' \in Seq(RequestType), answers' \subseteq answers,
             resolved' \subseteq [ev : Reports, used : 0 .. Now]
      PROVE  SdkTypes'
  BY <1>1, <1>2, SameTypes DEF Types, SdkTypes
<1>3. ASSUME waiting' \in Seq(Reports), task' \in TaskType, override' \in 0 .. Now,
             buffer' \in [Sessions -> SUBSET Reports],
             handed' \subseteq [turn : Reports, call : Reports], ends' \subseteq EndType,
             {failures', settled', failed', thrown', masked'} \subseteq SUBSET Reports
      PROVE  PortTypes'
  BY <1>1, <1>3, SameTypes DEF Types, PortTypes
<1>4. /\ lifecycle \in Seq(RequestType) /\ resolved \subseteq [ev : Reports, used : 0 .. Now]
      /\ waiting \in Seq(Reports) /\ task \in TaskType /\ override \in 0 .. Now
      /\ buffer \in [Sessions -> SUBSET Reports]
      /\ handed \subseteq [turn : Reports, call : Reports] /\ ends \subseteq EndType
      /\ {failures, settled, failed, thrown, masked} \subseteq SUBSET Reports
      /\ NoTask \in TaskType /\ 0 \in 0 .. Now /\ Used \in 0 .. Now
      /\ Reports \subseteq 0 .. Now
  <2>1. Now \in Nat
    BY DEF Types, PortTypes, Now
  <2> QED
    BY SMTT(30), <2>1, UsedType DEF Types, SdkTypes, PortTypes, TaskType, Reports
<1>5. \A r \in RequestType : Append(lifecycle, r) \in Seq(RequestType)
  BY <1>4
<1>6. CASE TaskBegins
  <2> DEFINE ev == Head(waiting)
             s == events[ev].session
             calls == CallsOf(ev) \cup buffer[s]
  <2>1. ev \in Reports /\ waiting' \in Seq(Reports)
    BY <1>4, <1>6 DEF TaskBegins
  <2>2. s \in Sessions /\ Cardinality(Covered(ev)) \in Nat /\ calls \subseteq Reports /\ Cardinality(calls) \in Nat
    BY <1>4, <2>1, TaskTypes
  <2>3. /\ task' = [ev |-> ev, at |-> "turn"]
        /\ override' = IF host.port = "pi" THEN ev ELSE 0
        /\ buffer' = [buffer EXCEPT ![s] = {}]
        /\ handed' = handed \cup {[turn |-> ev, call |-> c] : c \in calls}
        /\ lifecycle' = Append(lifecycle, Turn(s, ev, Cardinality(Covered(ev)), Cardinality(calls)))
        /\ UNCHANGED <<loop, session, owed, answers, resolved, learned, published, dreamt, failing,
                       failures, ends, settled, failed, thrown, masked>>
    BY <1>6 DEF TaskBegins, DrainBuffer, Enqueue
  <2>4. Turn(s, ev, Cardinality(Covered(ev)), Cardinality(calls)) \in RequestType
    BY <2>1, <2>2 DEF Turn, RequestType
  <2> HIDE DEF ev, s, calls
  <2>5. SdkTypes'
    BY <1>2, <1>4, <1>5, <2>3, <2>4
  <2>6. task' \in TaskType /\ override' \in 0 .. Now
    BY <1>4, <2>1, <2>3 DEF TaskType
  <2>7. buffer' \in [Sessions -> SUBSET Reports] /\ handed' \subseteq [turn : Reports, call : Reports]
    BY <1>4, <2>1, <2>2, <2>3
  <2> QED
    BY <1>3, <1>4, <2>1, <2>3, <2>5, <2>6, <2>7 DEF Types
<1>7. ASSUME task.at \in {"turn", "idle"}, TaskFails \/ TaskSucceeds
      PROVE  /\ task' \in TaskType /\ override' \in 0 .. Now
             /\ {failures', settled', failed'} \subseteq SUBSET Reports
  BY <1>4, <1>7, Tasks DEF TaskFails, TaskSucceeds
<1>8. CASE TaskTurnEnds
  <2>1. PICK answer \in answers :
          /\ answers' = answers \ {answer}
          /\ IF answer.ok
             THEN /\ task' = [task EXCEPT !.at = "idle"]
                  /\ UNCHANGED <<override, failures, settled, failed>>
             ELSE TaskFails
    BY <1>8 DEF TaskTurnEnds
  <2>2. /\ task' \in TaskType /\ override' \in 0 .. Now
        /\ {failures', settled', failed'} \subseteq SUBSET Reports
    BY <1>4, <1>7, <1>8, <2>1, Tasks DEF TaskTurnEnds
  <2>3. UNCHANGED <<lifecycle, loop, session, owed, resolved, learned, published, dreamt, failing,
                    waiting, buffer, handed, ends, thrown, masked>>
    BY <1>8 DEF TaskTurnEnds
  <2> QED
    BY <1>2, <1>3, <1>4, <2>1, <2>2, <2>3 DEF Types
<1>9. ASSUME NEW dreams \in BOOLEAN, TaskIdles(dreams) PROVE Types'
  <2>1. task.ev \in Reports
    BY <1>9, Tasks DEF TaskIdles
  <2>2. resolved' \subseteq [ev : Reports, used : 0 .. Now]
    BY <1>4, <1>9, <2>1 DEF TaskIdles
  <2>3. /\ task' \in TaskType /\ override' \in 0 .. Now
        /\ {failures', settled', failed'} \subseteq SUBSET Reports
    BY <1>7, <1>9 DEF TaskIdles
  <2> QED
    BY <1>2, <1>3, <1>4, <1>9, <2>2, <2>3 DEF TaskIdles, Types
<1>10. CASE TaskIdleFails
  <2>1. /\ task' \in TaskType /\ override' \in 0 .. Now
        /\ {failures', settled', failed'} \subseteq SUBSET Reports
    BY <1>7, <1>10 DEF TaskIdleFails
  <2> QED
    BY <1>2, <1>3, <1>4, <1>10, <2>1 DEF TaskIdleFails, Types
<1>11. ASSUME NEW end \in ends, EndDrains(end) PROVE Types'
  <2> DEFINE s == events[end.ev].session
             new == [end EXCEPT !.at = "sweep", !.drained = failures]
  <2>1. s \in Sessions /\ end.ev \in Reports /\ new \in EndType
    BY <1>4, <1>11, EndChanges
  <2>2. /\ ends' = (ends \ {end}) \cup {new}
        /\ failures' = {} /\ override' = end.ev
        /\ buffer' = [buffer EXCEPT ![s] = {}]
        /\ lifecycle' = Append(lifecycle, Sweep(s, end.ev))
        /\ UNCHANGED <<loop, session, owed, answers, resolved, learned, published, dreamt, failing,
                       waiting, task, handed, settled, failed, thrown, masked>>
    BY <1>11 DEF EndDrains, Enqueue
  <2>3. Sweep(s, end.ev) \in RequestType
    BY <2>1 DEF Sweep, RequestType
  <2> HIDE DEF s, new
  <2>4. SdkTypes'
    BY <1>2, <1>4, <1>5, <2>2, <2>3
  <2>5. ends' \subseteq EndType /\ override' \in 0 .. Now /\ buffer' \in [Sessions -> SUBSET Reports]
    BY <1>4, <2>1, <2>2
  <2> QED
    BY <1>3, <1>4, <2>2, <2>4, <2>5 DEF Types
<1>12. ASSUME NEW end \in ends, NEW ok \in BOOLEAN, EndLeaves(end, ok)
       PROVE  /\ ends' \subseteq EndType /\ override' \in 0 .. Now
              /\ {thrown', masked'} \subseteq SUBSET Reports
  BY <1>4, <1>12, EndChanges DEF EndLeaves
<1>13. ASSUME NEW end \in ends, EndSwept(end) PROVE Types'
  <2> DEFINE s == events[end.ev].session
             new == [end EXCEPT !.at = "drop"]
  <2>1. s \in Sessions /\ end.ev \in Reports /\ new \in EndType
    BY <1>4, <1>13, EndChanges
  <2>2. PICK answer \in answers :
          /\ answers' = answers \ {answer}
          /\ IF answer.ok
             THEN /\ ends' = (ends \ {end}) \cup {new}
                  /\ Enqueue(Drop(s, end.ev))
                  /\ UNCHANGED <<override, thrown, masked>>
             ELSE EndLeaves(end, FALSE) /\ UNCHANGED lifecycle
    BY <1>13 DEF EndSwept
  <2>3. Drop(s, end.ev) \in RequestType
    BY <2>1 DEF Drop, RequestType
  <2> HIDE DEF s, new
  <2>4. lifecycle' \in Seq(RequestType)
    BY <1>4, <1>5, <2>2, <2>3 DEF Enqueue
  <2>5. /\ ends' \subseteq EndType /\ override' \in 0 .. Now
        /\ {thrown', masked'} \subseteq SUBSET Reports
    BY <1>4, <1>12, <2>1, <2>2
  <2>6. UNCHANGED <<loop, session, owed, resolved, learned, published, dreamt, failing,
                    waiting, task, buffer, handed, failures, settled, failed>>
    BY <1>13 DEF EndSwept
  <2> QED
    BY <1>2, <1>3, <1>4, <2>2, <2>4, <2>5, <2>6 DEF Types
<1>14. ASSUME NEW end \in ends, EndDropped(end) PROVE Types'
  <2>1. ends' \subseteq EndType
    BY <1>4, <1>14, EndChanges DEF EndDropped
  <2> QED
    BY <1>2, <1>3, <1>4, <1>14, <2>1 DEF EndDropped, Types
<1>15. ASSUME NEW end \in ends, NEW dreams \in BOOLEAN, EndIdles(end, dreams) PROVE Types'
  <2>1. resolved' \subseteq [ev : Reports, used : 0 .. Now]
    <3>1. end.ev \in Reports
      BY EndChanges
    <3> QED
      BY <1>4, <1>15, <3>1 DEF EndIdles
  <2>2. /\ ends' \subseteq EndType /\ override' \in 0 .. Now
        /\ {thrown', masked'} \subseteq SUBSET Reports
    BY <1>12, <1>15 DEF EndIdles
  <2> QED
    BY <1>2, <1>3, <1>4, <1>15, <2>1, <2>2 DEF EndIdles, Types
<1>16. ASSUME NEW end \in ends, EndIdleFails(end) PROVE Types'
  <2>1. /\ ends' \subseteq EndType /\ override' \in 0 .. Now
        /\ {thrown', masked'} \subseteq SUBSET Reports
    BY <1>12, <1>16 DEF EndIdleFails
  <2> QED
    BY <1>2, <1>3, <1>4, <1>16, <2>1 DEF EndIdleFails, Types
<1> QED
  BY <1>6, <1>8, <1>9, <1>10, <1>11, <1>13, <1>14, <1>15, <1>16 DEF PortStep

LEMMA TypesNext == Types /\ [Next]_vars => Types'
<1> SUFFICES ASSUME Types, [Next]_vars PROVE Types'
  OBVIOUS
<1>1. CASE LearningStep
  <2>1. Used \in 0 .. Now /\ host.learns \in BOOLEAN
    BY UsedType, HostsAssumption DEF Types, PortTypes
  <2> QED
    BY <1>1, <2>1, SdkStepTypes DEF LearningStep
<1>2. CASE UNCHANGED vars
  <2>1. UNCHANGED events
    BY <1>2 DEF vars, hostVars
  <2>2. PortTypes'
    BY <1>2, <2>1, SameTypes DEF vars, hostVars, Types, PortTypes
  <2>3. SdkTypes'
    BY <1>2, <2>1, SameTypes DEF vars, sdkVars, Types, SdkTypes
  <2> QED
    BY <2>2, <2>3 DEF Types
<1> QED
  BY <1>1, <1>2, HostTypes, PortStepTypes DEF Next

(***************************************************************************)
(* Requests of the port to the SDK.                                        *)
(***************************************************************************)

\* A report is what a list or an end says it is, and has one end at most.
KindInv ==
  /\ \A t \in settled : IsTurn(t)
  /\ task # NoTask => IsTurn(task.ev)
  /\ \A i \in 1 .. Len(waiting) : IsTurn(waiting[i])
  /\ \A end \in ends : events[end.ev].kind = "end"
  /\ \A e, f \in ends : e.ev = f.ev => e = f

LEMMA KindInit == Init => KindInv
BY DEF Init, KindInv

LEMMA KindNext == Types /\ QueueInv /\ KindInv /\ [Next]_vars => KindInv'
<1> SUFFICES ASSUME Types, QueueInv, KindInv, [Next]_vars PROVE KindInv'
  OBVIOUS
<1> USE DEF KindInv, IsTurn
<1>1. /\ \A t \in settled : t \in Reports
      /\ task # NoTask => task.ev \in Reports
      /\ \A i \in 1 .. Len(waiting) : waiting[i] \in Reports
      /\ \A end \in ends : end.ev \in Reports /\ end \in EndType
  BY DEF Types, PortTypes, TaskType, EndType
<1>2. ASSUME NEW s \in Sessions, NEW kind \in {"prompt", "tool", "turn", "end"},
             events' = Append(events, [kind |-> kind, session |-> s])
      PROVE  /\ \A i \in Reports : events'[i] = events[i] /\ i # Now + 1
             /\ events'[Now + 1].kind = kind
  BY <1>2 DEF Types, PortTypes, Now, Reports, EventType
<1>3. ASSUME NEW s \in Sessions, NEW kind \in {"prompt", "tool"}, Reported(kind, s) PROVE KindInv'
  BY <1>1, <1>2, <1>3 DEF Reported, endVars
<1>4. ASSUME NEW s \in Sessions, TurnQueued(s) PROVE KindInv'
  <2>1. \A i \in 1 .. Len(waiting') : (i \in 1 .. Len(waiting) /\ waiting'[i] = waiting[i]) \/ waiting'[i] = Now + 1
    BY <1>4 DEF TurnQueued, Types, PortTypes
  <2>2. /\ \A i \in Reports : events'[i] = events[i]
        /\ events'[Now + 1].kind = "turn"
    BY <1>2, <1>4 DEF TurnQueued
  <2>3. \A i \in 1 .. Len(waiting') : events'[waiting'[i]].kind = "turn"
    BY <1>1, <2>1, <2>2
  <2> QED
    BY <1>1, <1>4, <2>2, <2>3 DEF TurnQueued, endVars
<1>5. ASSUME NEW s \in Sessions, EndReported(s) PROVE KindInv'
  <2>1. PICK new : ends' = ends \cup {new} /\ new.ev = Now + 1
    <3> DEFINE drain == [ev |-> Now + 1, at |-> "drain", drained |-> {},
                         tail |-> Range(waiting) \cup ({task.ev} \ {0})]
               sweep == [ev |-> Now + 1, at |-> "sweep", drained |-> {}, tail |-> {}]
    <3>1. ends' = ends \cup {drain} \/ ends' = ends \cup {sweep}
      BY <1>5 DEF EndReported
    <3>2. drain.ev = Now + 1 /\ sweep.ev = Now + 1
      OBVIOUS
    <3> HIDE DEF drain, sweep
    <3> QED
      BY <3>1, <3>2
  <2> QED
    <3>1. /\ UNCHANGED <<settled, task, waiting>>
          /\ events' = Append(events, [kind |-> "end", session |-> s])
      BY <1>5 DEF EndReported
    <3>2. /\ \A i \in Reports : events'[i] = events[i] /\ i # Now + 1
          /\ events'[Now + 1].kind = "end"
      BY <1>2, <3>1
    <3>3. \A e \in ends' : (e \in ends /\ e.ev \in Reports) \/ (e = new /\ e.ev = Now + 1)
      BY <1>1, <2>1
    <3>4. \A e \in ends' : events'[e.ev].kind = "end"
      BY <3>2, <3>3
    <3>5. \A e, f \in ends' : e.ev = f.ev => e = f
      BY <3>2, <3>3
    <3>6. /\ \A t \in settled' : events'[t].kind = "turn"
          /\ task' # NoTask => events'[task'.ev].kind = "turn"
          /\ \A i \in 1 .. Len(waiting') : events'[waiting'[i]].kind = "turn"
      BY <1>1, <3>1, <3>2
    <3> QED
      BY <3>4, <3>5, <3>6
<1>6. CASE TurnStarted
  <2>1. /\ task'.ev = waiting[1] /\ 1 \in 1 .. Len(waiting)
        /\ \A i \in 1 .. Len(waiting') : waiting'[i] = waiting[i + 1] /\ i + 1 \in 1 .. Len(waiting)
    BY <1>6 DEF TurnStarted, Types, PortTypes
  <2> QED
    BY <1>6, <2>1 DEF TurnStarted, endVars
<1>7. CASE TurnLearned
  <2>1. task'.ev = task.ev
    BY <1>7 DEF TurnLearned, Types, PortTypes, TaskType
  <2> QED
    BY <1>7, <2>1 DEF TurnLearned, endVars
<1>8. CASE TurnSettled
  BY <1>8 DEF TurnSettled
<1>9. ASSUME NEW end \in ends, TailAwaited(end) PROVE KindInv'
  <2>1. failures \in SUBSET Reports
    BY DEF Types, PortTypes
  <2>3. [end EXCEPT !.at = "sweep", !.drained = failures].ev = end.ev
    <3>1. IsEnd(end)
      BY <1>1 DEF EndType, IsEnd, EndRecord
    <3>2. [end EXCEPT !.at = "sweep", !.drained = failures] = EndRecord(end.ev, "sweep", failures, end.tail)
      BY <3>1, EndUpdates
    <3> QED
      BY <3>2 DEF EndRecord
  <2>4. PICK new : ends' = (ends \ {end}) \cup {new} /\ new.ev = end.ev
    BY <1>9, <2>3 DEF TailAwaited
  <2> QED
    BY <1>9, <2>4 DEF TailAwaited, queueVars
<1>10. ASSUME NEW end \in ends, NEW at \in {"drop", "idle"}, EndMoves(end, at) PROVE KindInv'
  <2>1. {} \in SUBSET Reports
    OBVIOUS
  <2>3. [end EXCEPT !.at = at].ev = end.ev
    <3>1. [end EXCEPT !.at = at] = [ev |-> end.ev, at |-> at, drained |-> end.drained, tail |-> end.tail]
      BY <2>1, EndChanges
    <3> QED
      BY <3>1
  <2>4. PICK new : ends' = (ends \ {end}) \cup {new} /\ new.ev = end.ev
    BY <1>10, <2>3 DEF EndMoves
  <2> QED
    BY <1>10, <2>4 DEF EndMoves, queueVars
<1>11. ASSUME NEW end \in ends, EndIsOver(end) PROVE KindInv'
  BY <1>11 DEF EndIsOver, queueVars
<1>12. CASE UNCHANGED <<queueVars, endVars>>
  BY <1>12 DEF queueVars, endVars
<1> QED
  BY <1>3, <1>4, <1>5, <1>6, <1>7, <1>8, <1>9, <1>10, <1>11, <1>12, StepsOfNext DEF Steps

Ops == {"turn", "sweep", "drop"}

\* The port waits for the answer to op of ev.
Asks(op, ev) ==
  \/ op = "turn" /\ task.at = "turn" /\ task.ev = ev
  \/ op # "turn" /\ \E end \in ends : end.at = op /\ end.ev = ev

Same(r, q) == r.op = q.op /\ r.ev = q.ev

\* What waits for the SDK, runs in it or is answered by it has been asked for and is
\* asked for still; it is in one place at a time.
RequestInv ==
  /\ \A i \in 1 .. Len(lifecycle) : Asks(lifecycle[i].op, lifecycle[i].ev)
  /\ loop # Idle => Asks(loop.op, loop.ev)
  /\ \A a \in answers : Asks(a.op, a.ev)
  /\ \A i, j \in 1 .. Len(lifecycle) : Same(lifecycle[i], lifecycle[j]) => i = j
  /\ loop # Idle => \A i \in 1 .. Len(lifecycle) : ~Same(lifecycle[i], loop)
  /\ loop # Idle => \A a \in answers : ~Same(loop, a)
  /\ \A i \in 1 .. Len(lifecycle) : \A a \in answers : ~Same(lifecycle[i], a)
  /\ \A a, b \in answers : Same(a, b) => a = b

LEMMA RequestInit == Init => RequestInv
BY DEF Init, SdkInit, RequestInv

\* Answers are taken, and something is asked for that was not.
LEMMA RequestKept ==
  ASSUME Types, RequestInv, loop' = loop,
         NEW gone \in SUBSET answers, answers' = answers \ gone,
         \A op \in Ops, ev \in Reports :
           Asks(op, ev) /\ (\A a \in gone : ~(a.op = op /\ a.ev = ev)) => Asks(op, ev)',
         \/ lifecycle' = lifecycle
         \/ \E r : lifecycle' = Append(lifecycle, r) /\ ~Asks(r.op, r.ev) /\ Asks(r.op, r.ev)'
  PROVE  RequestInv'
<1>1. /\ \A i \in 1 .. Len(lifecycle) : lifecycle[i].op \in Ops /\ lifecycle[i].ev \in Reports
      /\ loop # Idle => loop.op \in Ops /\ loop.ev \in Reports
      /\ \A a \in answers : a.op \in Ops /\ a.ev \in Reports
  <2>1. /\ \A r \in RequestType : r.op \in Ops /\ r.ev \in Reports
        /\ \A r \in LoopType : r.op \in Ops /\ r.ev \in Reports
        /\ \A r \in AnswerType : r.op \in Ops /\ r.ev \in Reports
    BY DEF RequestType, LoopType, AnswerType, Ops
  <2> QED
    BY <2>1 DEF Types, SdkTypes
<1>2. /\ \A i \in 1 .. Len(lifecycle) : \A a \in gone : ~(a.op = lifecycle[i].op /\ a.ev = lifecycle[i].ev)
      /\ loop # Idle => \A a \in gone : ~(a.op = loop.op /\ a.ev = loop.ev)
      /\ \A b \in answers' : \A a \in gone : ~(a.op = b.op /\ a.ev = b.ev)
  BY DEF RequestInv, Same
<1>3. \A op \in Ops, ev \in Reports :
        \/ \E i \in 1 .. Len(lifecycle) : lifecycle[i].op = op /\ lifecycle[i].ev = ev
        \/ loop # Idle /\ loop.op = op /\ loop.ev = ev
        \/ \E a \in answers' : a.op = op /\ a.ev = ev
        => Asks(op, ev)'
  BY <1>2 DEF RequestInv
<1>4. /\ loop' # Idle => Asks(loop.op, loop.ev)'
      /\ \A a \in answers' : Asks(a.op, a.ev)'
      /\ \A a, b \in answers' : Same(a, b) => a = b
      /\ loop' # Idle => \A a \in answers' : ~Same(loop', a)
  BY <1>1, <1>3 DEF RequestInv
<1>5. CASE lifecycle' = lifecycle
  BY <1>1, <1>3, <1>4, <1>5 DEF RequestInv
<1>6. ASSUME NEW r, lifecycle' = Append(lifecycle, r), ~Asks(r.op, r.ev), Asks(r.op, r.ev)' PROVE RequestInv'
  <2>1. /\ Len(lifecycle') = Len(lifecycle) + 1 /\ Len(lifecycle) \in Nat
        /\ \A i \in 1 .. Len(lifecycle) : lifecycle'[i] = lifecycle[i]
        /\ lifecycle'[Len(lifecycle')] = r
        /\ \A i \in 1 .. Len(lifecycle') : i \in 1 .. Len(lifecycle) \/ i = Len(lifecycle')
    BY <1>6 DEF Types, SdkTypes
  <2>2. /\ \A i \in 1 .. Len(lifecycle) : ~Same(lifecycle[i], r)
        /\ loop # Idle => ~Same(r, loop)
        /\ \A a \in answers : ~Same(r, a)
    BY <1>6 DEF RequestInv, Same
  <2>3. (\A i \in 1 .. Len(lifecycle) : Asks(lifecycle[i].op, lifecycle[i].ev))'
    BY <1>1, <1>3, <1>6, <2>1
  <2>4. \A i, j \in 1 .. Len(lifecycle') : Same(lifecycle'[i], lifecycle'[j]) => i = j
    BY <2>1, <2>2 DEF RequestInv, Same
  <2>5. /\ loop' # Idle => \A i \in 1 .. Len(lifecycle') : ~Same(lifecycle'[i], loop')
        /\ \A i \in 1 .. Len(lifecycle') : \A a \in answers' : ~Same(lifecycle'[i], a)
    BY <2>1, <2>2 DEF RequestInv
  <2> QED
    BY <1>4, <2>3, <2>4, <2>5 DEF RequestInv
<1> QED
  BY <1>5, <1>6

\* The end of a session asks for the next thing, or for nothing.
LEMMA EndAsks ==
  ASSUME KindInv, NEW end \in ends, UNCHANGED task, NEW new, new.ev = end.ev,
         ends' = (ends \ {end}) \cup {new} \/ (ends' = ends \ {end} /\ new.at \notin Ops)
  PROVE  \A op \in Ops, ev \in Reports :
           /\ Asks(op, ev) /\ ~(op = end.at /\ ev = end.ev) => Asks(op, ev)'
           /\ op # "turn" /\ ev = end.ev /\ Asks(op, ev) => op = end.at
           /\ op # "turn" /\ op = new.at /\ ev = end.ev => Asks(op, ev)'
BY DEF KindInv, Asks, Ops

\* The SDK moves a task on; what the port waits for stays the same.
LEMMA SdkRequests ==
  ASSUME Types, RequestInv, NEW used \in 0 .. Now, NEW learns \in BOOLEAN,
         SdkStep(used, learns), UNCHANGED hostVars
  PROVE  RequestInv'
<1>1. \A op, ev : Asks(op, ev)' = Asks(op, ev)
  BY DEF hostVars, Asks
<1>2. ASSUME loop = Idle, lifecycle # <<>>, lifecycle' = Tail(lifecycle),
             \/ /\ loop' # Idle /\ Same(loop', lifecycle[1])
                /\ answers' = answers
             \/ /\ loop' = loop
                /\ \E a : Same(a, lifecycle[1]) /\ answers' = answers \cup {a}
      PROVE  RequestInv'
  <2>1. /\ 1 \in 1 .. Len(lifecycle)
        /\ \A i \in 1 .. Len(lifecycle') :
             i + 1 \in 1 .. Len(lifecycle) /\ lifecycle'[i] = lifecycle[i + 1] /\ i + 1 # 1
    BY <1>2, HeadTypes
  <2>2. /\ (\A i \in 1 .. Len(lifecycle) : Asks(lifecycle[i].op, lifecycle[i].ev))'
        /\ \A i, j \in 1 .. Len(lifecycle') : Same(lifecycle'[i], lifecycle'[j]) => i = j
        /\ \A i \in 1 .. Len(lifecycle') : ~Same(lifecycle'[i], lifecycle[1])
    <3>1. (\A i \in 1 .. Len(lifecycle) : Asks(lifecycle[i].op, lifecycle[i].ev))'
      BY <1>1, <2>1 DEF RequestInv
    <3>2. ASSUME NEW i \in 1 .. Len(lifecycle'), NEW j \in 1 .. Len(lifecycle'), Same(lifecycle'[i], lifecycle'[j])
          PROVE  i = j
      <4>1. i + 1 = j + 1
        BY <2>1, <3>2 DEF RequestInv
      <4>2. i \in Int /\ j \in Int
        OBVIOUS
      <4> QED
        BY <4>1, <4>2
    <3>3. \A i \in 1 .. Len(lifecycle') : ~Same(lifecycle'[i], lifecycle[1])
      BY <2>1 DEF RequestInv
    <3> QED
      BY <3>1, <3>2, <3>3
  <2>3. \A a \in answers : ~Same(lifecycle[1], a)
    BY <2>1 DEF RequestInv
  <2>4. CASE loop' # Idle /\ Same(loop', lifecycle[1]) /\ answers' = answers
    <3>1. Asks(loop.op, loop.ev)'
      BY <1>1, <2>1, <2>4 DEF RequestInv, Same
    <3>2. \A i \in 1 .. Len(lifecycle') : ~Same(lifecycle'[i], loop')
      BY <2>2, <2>4 DEF Same
    <3>3. \A a \in answers : ~Same(loop', a)
      BY <2>3, <2>4 DEF Same
    <3>4. \A i \in 1 .. Len(lifecycle') : \A a \in answers : ~Same(lifecycle'[i], a)
      BY <2>1 DEF RequestInv
    <3>5. (\A a \in answers : Asks(a.op, a.ev))'
      BY <1>1, <2>4 DEF RequestInv
    <3> QED
      BY <2>2, <2>4, <3>1, <3>2, <3>3, <3>4, <3>5 DEF RequestInv
  <2>5. ASSUME loop' = loop, NEW a, Same(a, lifecycle[1]), answers' = answers \cup {a} PROVE RequestInv'
    <3>1. (\A b \in answers : Asks(b.op, b.ev))'
      BY <1>1, <2>1, <2>5 DEF RequestInv, Same
    <3>2. \A i \in 1 .. Len(lifecycle') : \A b \in answers' : ~Same(lifecycle'[i], b)
      BY <2>1, <2>2, <2>5 DEF RequestInv, Same
    <3>3. \A b, c \in answers' : Same(b, c) => b = c
      BY <2>3, <2>5 DEF RequestInv, Same
    <3> QED
      BY <1>2, <2>2, <2>5, <3>1, <3>2, <3>3 DEF RequestInv
  <2> QED
    BY <1>2, <2>4, <2>5
<1>3. ASSUME loop # Idle, UNCHANGED lifecycle,
             \/ loop' # Idle /\ Same(loop', loop) /\ answers' = answers
             \/ loop' = Idle /\ \E a : Same(a, loop) /\ answers' = answers \cup {a}
      PROVE  RequestInv'
  <2>1. (\A i \in 1 .. Len(lifecycle) : Asks(lifecycle[i].op, lifecycle[i].ev))'
    BY <1>1, <1>3 DEF RequestInv
  <2>2. CASE loop' # Idle /\ Same(loop', loop) /\ answers' = answers
    <3>1. Asks(loop.op, loop.ev)'
      BY <1>1, <1>3, <2>2 DEF RequestInv, Same
    <3>2. (\A a \in answers : Asks(a.op, a.ev))'
      BY <1>1, <2>2 DEF RequestInv
    <3> QED
      BY <1>3, <2>1, <2>2, <3>1, <3>2 DEF RequestInv, Same
  <2>3. ASSUME loop' = Idle, NEW a, Same(a, loop), answers' = answers \cup {a} PROVE RequestInv'
    <3>1. (\A b \in answers : Asks(b.op, b.ev))'
      BY <1>1, <1>3, <2>3 DEF RequestInv, Same
    <3> QED
      BY <1>3, <2>1, <2>3, <3>1 DEF RequestInv, Same
  <2> QED
    BY <1>3, <2>2, <2>3
<1>4. CASE StartTurn \/ StartSweep
  <2>1. lifecycle # <<>> /\ loop = Idle /\ lifecycle' = Tail(lifecycle) /\ answers' = answers
    BY <1>4 DEF StartTurn, StartSweep
  <2>2. loop'.at = "extract" /\ loop'.op = Head(lifecycle).op /\ loop'.ev = Head(lifecycle).ev
    BY <1>4 DEF StartTurn, StartSweep
  <2> QED
    BY <1>2, <2>1, <2>2, HeadTypes DEF Same, Idle
<1>5. CASE RunDrop
  <2>1. /\ lifecycle # <<>> /\ loop = Idle /\ lifecycle' = Tail(lifecycle) /\ loop' = loop
        /\ Head(lifecycle).op = "drop"
        /\ answers' = answers \cup {[op |-> "drop", ev |-> Head(lifecycle).ev, ok |-> TRUE]}
    BY <1>5 DEF RunDrop
  <2>2. Same([op |-> "drop", ev |-> Head(lifecycle).ev, ok |-> TRUE], lifecycle[1])
    BY <2>1, HeadTypes DEF Same
  <2> QED
    BY <1>2, <2>1, <2>2
<1>6. ASSUME NEW ok, loop.at # "idle", UNCHANGED lifecycle, Settle(ok) PROVE RequestInv'
  <2>1. Same([op |-> loop.op, ev |-> loop.ev, ok |-> ok], loop)
    BY DEF Same
  <2> QED
    BY <1>3, <1>6, <2>1, Busy DEF Settle
<1>7. ASSUME NEW at \in {"evolve", "dream", "finish"}, loop.at # "idle", UNCHANGED <<lifecycle, answers>>,
             loop' = [loop EXCEPT !.at = at]
      PROVE  RequestInv'
  <2>1. loop' = [at |-> at, op |-> loop.op, session |-> loop.session, ev |-> loop.ev] /\ loop # Idle
    BY <1>7, Busy
  <2>2. loop' # Idle /\ Same(loop', loop)
    BY <2>1 DEF Same, Idle
  <2> QED
    BY <1>3, <1>7, <2>1, <2>2
<1>8. CASE ExtractionSucceeds(used, learns)
  BY <1>6, <1>7, <1>8 DEF ExtractionSucceeds
<1>9. ASSUME NEW changes \in BOOLEAN, EvolutionSucceeds(used, changes) PROVE RequestInv'
  BY <1>7, <1>9 DEF EvolutionSucceeds, Coordinate
<1>10. ASSUME NEW resolves \in BOOLEAN, ExtractionFails(used, resolves) PROVE RequestInv'
  BY <1>6, <1>10 DEF ExtractionFails
<1>11. CASE CoordinatedDream(used)
  BY <1>7, <1>11 DEF CoordinatedDream
<1>12. CASE SweepSkips \/ EvolutionSkipped \/ EvolutionFails(used) \/ DreamTimesOut \/ FinishTurn
  BY <1>6, <1>12 DEF SweepSkips, EvolutionSkipped, EvolutionFails, DreamTimesOut, FinishTurn
<1> QED
  BY <1>4, <1>5, <1>8, <1>9, <1>10, <1>11, <1>12 DEF SdkStep

\* At the end of the session nothing but the end itself is asked for with its number.
LEMMA PortRequests ==
  ASSUME Types, QueueInv, KindInv, RequestInv, HostStep \/ PortStep
  PROVE  RequestInv'
<1>1. {} \in SUBSET answers /\ answers = answers \ {}
  OBVIOUS
<1>2. \A a \in answers : /\ {a} \in SUBSET answers /\ a.op \in Ops /\ a.ev \in Reports
                        /\ a = [op |-> a.op, ev |-> a.ev, ok |-> a.ok]
  BY DEF Types, SdkTypes, AnswerType, Ops
<1>3. ASSUME UNCHANGED <<lifecycle, loop, answers>>,
             \A op \in Ops, ev \in Reports : Asks(op, ev) => Asks(op, ev)'
      PROVE  RequestInv'
  BY <1>1, <1>3, RequestKept
<1>4. ASSUME NEW s \in Sessions, HostPrompt(s) \/ HostTool(s) \/ HostTurn(s) PROVE RequestInv'
  <2>1. UNCHANGED <<lifecycle, loop, answers, task, ends>>
    BY <1>4 DEF HostPrompt, HostTool, HostTurn, sdkVars
  <2> QED
    BY <1>3, <2>1 DEF Asks
<1>5. ASSUME NEW s \in Sessions, HostEnd(s) PROVE RequestInv'
  <2>1. UNCHANGED <<loop, answers, task>>
    BY <1>5 DEF HostEnd
  <2>2. CASE host.port = "pi"
    <3>1. lifecycle' = lifecycle /\ ends \subseteq ends'
      BY <1>5, <2>2 DEF HostEnd
    <3> QED
      BY <1>3, <2>1, <3>1 DEF Asks
  <2>3. CASE host.port # "pi"
    <3>1. PICK new, r : /\ new = [ev |-> Now + 1, at |-> "sweep", drained |-> {}, tail |-> {}]
                        /\ r = Sweep(s, Now + 1)
                        /\ lifecycle' = Append(lifecycle, r) /\ ends' = ends \cup {new}
      BY <1>5, <2>3 DEF HostEnd, Enqueue
    <3>2. new.at = "sweep" /\ new.ev = Now + 1 /\ r.op = "sweep" /\ r.ev = Now + 1
      BY <3>1 DEF Sweep
    <3>3. \A end \in ends : end.ev # Now + 1
      BY DEF Types, PortTypes, EndType, Reports, Now
    <3>4. ~Asks(r.op, r.ev) /\ Asks(r.op, r.ev)'
      BY <3>1, <3>2, <3>3 DEF Asks
    <3>5. \A op \in Ops, ev \in Reports : Asks(op, ev) => Asks(op, ev)'
      BY <2>1, <3>1 DEF Asks
    <3> QED
      BY <1>1, <2>1, <3>1, <3>4, <3>5, RequestKept
  <2> QED
    BY <2>2, <2>3
<1>6. CASE TaskBegins
  <2>1. PICK ev, s, users, calls, r :
          /\ task = NoTask /\ task' = [ev |-> ev, at |-> "turn"] /\ r = Turn(s, ev, users, calls)
          /\ lifecycle' = Append(lifecycle, r) /\ UNCHANGED <<loop, answers, ends>>
    BY <1>6 DEF TaskBegins, Enqueue
  <2>2. r.op = "turn" /\ r.ev = ev
    BY <2>1 DEF Turn
  <2>3. ~Asks(r.op, r.ev) /\ Asks(r.op, r.ev)'
    BY <2>1, <2>2 DEF Asks, NoTask
  <2>4. \A op \in Ops, e \in Reports : Asks(op, e) => Asks(op, e)'
    BY <2>1 DEF Asks, NoTask
  <2> QED
    BY <1>1, <2>1, <2>3, <2>4, RequestKept
<1>7. CASE TaskTurnEnds
  <2>1. PICK answer \in answers :
          /\ answer.op = "turn" /\ answer.ev = task.ev
          /\ answers' = answers \ {answer}
    BY <1>7 DEF TaskTurnEnds
  <2>2. UNCHANGED <<lifecycle, loop, ends>>
    BY <1>7 DEF TaskTurnEnds
  <2>3. \A op \in Ops, ev \in Reports :
          Asks(op, ev) /\ ~(answer.op = op /\ answer.ev = ev) => Asks(op, ev)'
    BY <2>1, <2>2 DEF Asks
  <2> QED
    BY <1>2, <2>1, <2>2, <2>3, RequestKept
<1>8. ASSUME task.at = "idle", UNCHANGED <<lifecycle, loop, answers, ends>> PROVE RequestInv'
  BY <1>3, <1>8 DEF Asks
<1>9. CASE TaskIdleFails \/ \E dreams \in BOOLEAN : TaskIdles(dreams)
  BY <1>8, <1>9 DEF TaskIdleFails, TaskIdles
<1>10. ASSUME NEW end \in ends, EndDrains(end) PROVE RequestInv'
  <2>1. PICK new, r :
          /\ new = [end EXCEPT !.at = "sweep", !.drained = failures]
          /\ r = Sweep(events[end.ev].session, end.ev)
          /\ end.at = "drain" /\ ends' = (ends \ {end}) \cup {new}
          /\ lifecycle' = Append(lifecycle, r) /\ UNCHANGED <<loop, answers, task>>
    BY <1>10 DEF EndDrains, Drained, Enqueue
  <2>2. new.at = "sweep" /\ new.ev = end.ev /\ r.op = "sweep" /\ r.ev = end.ev /\ end.ev \in Reports
    <3>1. IsEnd(end) /\ end.ev \in Reports
      BY DEF Types, PortTypes, EndType, IsEnd, EndRecord
    <3>2. new = EndRecord(end.ev, "sweep", failures, end.tail)
      BY <2>1, <3>1, EndUpdates
    <3> QED
      BY <2>1, <3>1, <3>2 DEF EndRecord, Sweep
  <2>3. ~Asks(r.op, r.ev) /\ Asks(r.op, r.ev)'
    BY <2>1, <2>2, EndAsks DEF Ops
  <2>4. \A op \in Ops, ev \in Reports : Asks(op, ev) => Asks(op, ev)'
    <3>1. new.ev = end.ev /\ UNCHANGED task /\ ends' = (ends \ {end}) \cup {new}
      BY <2>1, <2>2
    <3>2. \A op \in Ops, ev \in Reports :
            /\ Asks(op, ev) /\ ~(op = end.at /\ ev = end.ev) => Asks(op, ev)'
      BY <3>1, EndAsks
    <3>3. end.at \notin Ops
      BY <2>1 DEF Ops
    <3> QED
      BY <3>2, <3>3
  <2> QED
    BY <1>1, <2>1, <2>3, <2>4, RequestKept
\* The answer to an end is taken; the handler goes on or leaves.
<1>11. ASSUME NEW end \in ends, UNCHANGED <<lifecycle, loop, task>>,
              NEW new, new.ev = end.ev, new.at \notin Ops,
              ends' = (ends \ {end}) \cup {new} \/ ends' = ends \ {end},
              NEW gone \in SUBSET answers, answers' = answers \ gone,
              end.at = "idle" \/ \E a \in gone : a.op = end.at /\ a.ev = end.ev
       PROVE  RequestInv'
  <2>1. \A op \in Ops, ev \in Reports :
          Asks(op, ev) /\ (\A a \in gone : ~(a.op = op /\ a.ev = ev)) => Asks(op, ev)'
    BY <1>11, EndAsks DEF Ops
  <2> QED
    BY <1>11, <2>1, RequestKept
<1>13. ASSUME NEW end \in ends, EndSwept(end) PROVE RequestInv'
  <2>0. PICK new, r : new = [end EXCEPT !.at = "drop"] /\ r = Drop(events[end.ev].session, end.ev)
    OBVIOUS
  <2>1. PICK answer \in answers :
          /\ answer.op = "sweep" /\ answer.ev = end.ev
          /\ answers' = answers \ {answer}
          /\ \/ /\ ends' = (ends \ {end}) \cup {new}
                /\ lifecycle' = Append(lifecycle, r)
             \/ ends' = ends \ {end} /\ UNCHANGED lifecycle
    BY <1>13, <2>0 DEF EndSwept, EndLeaves, Enqueue
  <2>2. UNCHANGED <<loop, task>> /\ end.at = "sweep"
    BY <1>13 DEF EndSwept
  <2>3. new.at = "drop" /\ new.ev = end.ev /\ r.op = "drop" /\ r.ev = end.ev /\ end.ev \in Reports
    <3>1. IsEnd(end) /\ end.ev \in Reports
      BY DEF Types, PortTypes, EndType, IsEnd, EndRecord
    <3>2. new = EndRecord(end.ev, "drop", end.drained, end.tail)
      BY <2>0, <3>1, EndUpdates
    <3> QED
      BY <2>0, <3>1, <3>2 DEF EndRecord, Drop
  <2>4. CASE ends' = (ends \ {end}) \cup {new} /\ lifecycle' = Append(lifecycle, r)
    <3>1. ~Asks(r.op, r.ev) /\ Asks(r.op, r.ev)'
      BY <2>2, <2>3, <2>4, EndAsks DEF Ops
    <3>2. \A op \in Ops, ev \in Reports :
            Asks(op, ev) /\ ~(answer.op = op /\ answer.ev = ev) => Asks(op, ev)'
      BY <2>1, <2>2, <2>3, <2>4, EndAsks DEF Ops
    <3> QED
      BY <1>2, <2>1, <2>2, <2>4, <3>1, <3>2, RequestKept
  <2>5. CASE ends' = ends \ {end} /\ UNCHANGED lifecycle
    <3>1. [ev |-> end.ev, at |-> "out"].ev = end.ev /\ [ev |-> end.ev, at |-> "out"].at \notin Ops
      BY DEF Ops
    <3> QED
      BY <1>2, <1>11, <2>1, <2>2, <2>5, <3>1
  <2> QED
    BY <2>1, <2>4, <2>5
<1>14. ASSUME NEW end \in ends, EndDropped(end) PROVE RequestInv'
  <2> DEFINE new == [end EXCEPT !.at = "idle"]
             answer == [op |-> "drop", ev |-> end.ev, ok |-> TRUE]
  <2>1. /\ end.at = "drop" /\ answer \in answers /\ answers' = answers \ {answer}
        /\ ends' = (ends \ {end}) \cup {new} /\ UNCHANGED <<lifecycle, loop, task>>
    BY <1>14 DEF EndDropped
  <2>2. new.at = "idle" /\ new.ev = end.ev
    <3>1. IsEnd(end)
      BY DEF Types, PortTypes, EndType, IsEnd, EndRecord
    <3>2. new = EndRecord(end.ev, "idle", end.drained, end.tail)
      BY <3>1, EndUpdates
    <3> QED
      BY <3>2 DEF EndRecord
  <2>3. answer.op = end.at /\ answer.ev = end.ev
    BY <2>1
  <2> HIDE DEF new, answer
  <2>4. new.at \notin Ops
    BY <2>2 DEF Ops
  <2> QED
    BY <1>2, <1>11, <2>1, <2>2, <2>3, <2>4
<1>15. ASSUME NEW end \in ends, EndIdleFails(end) \/ \E dreams \in BOOLEAN : EndIdles(end, dreams) PROVE RequestInv'
  <2>1. end.at = "idle" /\ ends' = ends \ {end} /\ UNCHANGED <<lifecycle, loop, answers, task>>
    BY <1>15 DEF EndIdleFails, EndIdles, EndLeaves
  <2>2. [ev |-> end.ev, at |-> "out"].ev = end.ev /\ [ev |-> end.ev, at |-> "out"].at \notin Ops
    BY DEF Ops
  <2> QED
    BY <1>1, <1>11, <2>1, <2>2
<1> QED
  BY <1>4, <1>5, <1>6, <1>7, <1>9, <1>10, <1>13, <1>14, <1>15 DEF HostStep, PortStep

LEMMA RequestNext == Types /\ QueueInv /\ KindInv /\ RequestInv /\ [Next]_vars => RequestInv'
<1> SUFFICES ASSUME Types, QueueInv, KindInv, RequestInv, [Next]_vars PROVE RequestInv'
  OBVIOUS
<1>1. CASE LearningStep
  <2>1. Used \in 0 .. Now /\ host.learns \in BOOLEAN
    BY UsedType, HostsAssumption DEF Types, PortTypes
  <2> QED
    BY <1>1, <2>1, SdkRequests DEF LearningStep
<1>2. CASE UNCHANGED vars
  BY <1>2 DEF vars, sdkVars, hostVars, RequestInv, Asks
<1> QED
  BY <1>1, <1>2, PortRequests DEF Next

(***************************************************************************)
(* A skill that was changed is heard of by a dream.                        *)
(***************************************************************************)

\* The turn ev of the port is with the SDK, on its way to a dream or rejected.
Rejected(ev) == \E a \in answers : a.op = "turn" /\ a.ev = ev /\ a.ok = FALSE

LearnInv ==
  /\ loop # Idle =>
       IF loop.at = "extract" THEN loop.op = "turn" => loop.ev \in owed[loop.session]
       ELSE loop.op = "turn" /\ loop.ev \in learned
  /\ \A ev \in published :
       /\ ev \in learned
       /\ \/ ev \in dreamt \cup failed
          \/ /\ task.at = "turn" /\ task.ev = ev
             /\ Rejected(ev) \/ (loop # Idle /\ loop.ev = ev /\ loop.at = "dream")

LEMMA LearnInit == Init => LearnInv
BY DEF Init, SdkInit, LearnInv

LEMMA SdkLearns ==
  ASSUME Types, RequestInv, LearnInv, NEW used \in 0 .. Now, NEW learns \in BOOLEAN,
         SdkStep(used, learns), UNCHANGED hostVars
  PROVE  LearnInv'
<1>1. UNCHANGED <<task, failed>>
  BY DEF hostVars
<1>2. owed \in [Sessions -> SUBSET Reports]
  BY DEF Types, SdkTypes
\* While a published turn is not through, no other turn is with the SDK.
<1>3. ASSUME answers \subseteq answers', published' = published, learned \subseteq learned', dreamt \subseteq dreamt',
             loop # Idle /\ loop.at = "dream" /\ loop.op = "turn" =>
               loop.ev \in dreamt' \/ \E a \in answers' : a.op = "turn" /\ a.ev = loop.ev /\ a.ok = FALSE
      PROVE  \A ev \in published' :
               /\ ev \in learned'
               /\ \/ ev \in dreamt' \cup failed'
                  \/ /\ task'.at = "turn" /\ task'.ev = ev
                     /\ Rejected(ev)' \/ (loop' # Idle /\ loop'.ev = ev /\ loop'.at = "dream")
  <2> SUFFICES ASSUME NEW ev \in published, ev \notin dreamt' \cup failed
               PROVE  /\ task.at = "turn" /\ task.ev = ev
                      /\ Rejected(ev)'
    BY <1>1, <1>3 DEF LearnInv
  <2>1. /\ ev \in learned /\ task.at = "turn" /\ task.ev = ev
        /\ Rejected(ev) \/ (loop # Idle /\ loop.ev = ev /\ loop.at = "dream")
    BY <1>3 DEF LearnInv
  <2>2. Rejected(ev) => Rejected(ev)'
    BY <1>3 DEF Rejected
  <2>3. loop # Idle /\ loop.at = "dream" => loop.op = "turn"
    BY DEF LearnInv
  <2> QED
    BY <1>3, <2>1, <2>2, <2>3 DEF Rejected
<1>4. CASE StartTurn
  <2> DEFINE t == Head(lifecycle)
  <2>1. t \in RequestType /\ t.op = "turn" /\ lifecycle # <<>>
    BY <1>4, HeadTypes DEF StartTurn
  <2>2. t.session \in Sessions
    BY <2>1 DEF RequestType
  <2>3. /\ owed' = [owed EXCEPT ![t.session] = @ \cup {t.ev}]
        /\ loop' = [at |-> "extract", op |-> "turn", session |-> t.session, ev |-> t.ev]
        /\ UNCHANGED <<answers, learned, published, dreamt>> /\ loop = Idle
    BY <1>4 DEF StartTurn
  <2> HIDE DEF t
  <2>4. loop'.ev \in owed'[loop'.session] /\ loop'.at = "extract"
    BY <1>2, <2>2, <2>3
  <2> QED
    BY <1>3, <2>3, <2>4 DEF LearnInv
<1>5. CASE StartSweep
  <2>1. loop'.at = "extract" /\ loop'.op = "sweep" /\ loop = Idle
        /\ UNCHANGED <<answers, learned, published, dreamt>>
    BY <1>5 DEF StartSweep
  <2> QED
    BY <1>3, <2>1 DEF LearnInv
<1>6. CASE RunDrop
  <2>1. UNCHANGED <<loop, learned, published, dreamt>> /\ loop = Idle /\ answers \subseteq answers'
    BY <1>6 DEF RunDrop
  <2> QED
    BY <1>3, <2>1 DEF LearnInv
<1>7. ASSUME loop.at # "idle"
      PROVE  /\ loop # Idle /\ loop.session \in Sessions
             /\ \A at \in {"evolve", "dream", "finish"} :
                  LET new == [loop EXCEPT !.at = at]
                  IN  new.at = at /\ new.op = loop.op /\ new.ev = loop.ev
  BY <1>7, Busy
\* The turn goes on; it has learned.
<1>8. ASSUME loop.at # "idle", NEW at \in {"evolve", "dream", "finish"}, loop' = [loop EXCEPT !.at = at],
             loop.op = "turn", loop.ev \in learned'
      PROVE  /\ loop' # Idle /\ loop'.at = at /\ loop'.op = "turn" /\ loop'.ev = loop.ev /\ loop'.ev \in learned'
  <2>1. loop'.at = at /\ loop'.op = "turn" /\ loop'.ev = loop.ev
    BY <1>7, <1>8
  <2> QED
    BY <1>8, <2>1 DEF Idle
<1>9. ASSUME NEW ok, Settle(ok), loop.at # "idle"
      PROVE  /\ loop' = Idle /\ answers \subseteq answers'
             /\ loop.op = "turn" /\ ok = FALSE =>
                  \E a \in answers' : a.op = "turn" /\ a.ev = loop.ev /\ a.ok = FALSE
  <2>1. loop' = Idle /\ answers' = answers \cup {[op |-> loop.op, ev |-> loop.ev, ok |-> ok]}
    BY <1>9 DEF Settle
  <2>2. [op |-> loop.op, ev |-> loop.ev, ok |-> ok] \in answers'
    BY <2>1
  <2>3. ASSUME loop.op = "turn", ok = FALSE
        PROVE  \E a \in answers' : a.op = "turn" /\ a.ev = loop.ev /\ a.ok = FALSE
    <3> DEFINE a == [op |-> loop.op, ev |-> loop.ev, ok |-> ok]
    <3>1. a.op = "turn" /\ a.ev = loop.ev /\ a.ok = FALSE
      BY <2>3
    <3> HIDE DEF a
    <3> QED
      BY <2>2, <3>1 DEF a
  <2> QED
    BY <2>1, <2>3
<1>10. CASE ExtractionSucceeds(used, learns)
  <2>1. /\ loop.at = "extract" /\ loop # Idle
        /\ learned' = learned \cup owed[loop.session] /\ UNCHANGED <<published, dreamt>>
    BY <1>7, <1>10 DEF ExtractionSucceeds
  <2>2. answers \subseteq answers'
    BY <1>9, <1>10 DEF ExtractionSucceeds
  <2>3. CASE loop.op = "turn" /\ learns
    <3>1. loop' = [loop EXCEPT !.at = "evolve"] /\ loop.ev \in learned'
      BY <1>10, <2>1, <2>3 DEF ExtractionSucceeds, LearnInv
    <3>2. loop' # Idle /\ loop'.at = "evolve" /\ loop'.op = "turn" /\ loop'.ev \in learned'
      BY <1>8, <2>1, <2>3, <3>1
    <3> QED
      BY <1>3, <2>1, <2>2, <3>2 DEF LearnInv
  <2>4. CASE ~(loop.op = "turn" /\ learns)
    <3>1. loop' = Idle
      BY <1>9, <1>10, <2>4 DEF ExtractionSucceeds
    <3> QED
      BY <1>3, <2>1, <2>2, <3>1 DEF LearnInv
  <2> QED
    BY <2>3, <2>4
\* The turn settles, and if a dream was due it is rejected.
<1>11. ASSUME NEW ok \in BOOLEAN, loop.at # "idle", Settle(ok), UNCHANGED <<learned, published, dreamt>>,
              loop.at = "dream" => ok = FALSE
       PROVE  LearnInv'
  <2>1. loop' = Idle /\ answers \subseteq answers'
    BY <1>9, <1>11
  <2>2. loop.at = "dream" /\ loop.op = "turn" =>
          \E a \in answers' : a.op = "turn" /\ a.ev = loop.ev /\ a.ok = FALSE
    BY <1>9, <1>11
  <2> QED
    BY <1>3, <1>11, <2>1, <2>2 DEF LearnInv
<1>12. ASSUME NEW resolves \in BOOLEAN, ExtractionFails(used, resolves) PROVE LearnInv'
  BY <1>11, <1>12 DEF ExtractionFails
<1>13. CASE SweepSkips \/ EvolutionSkipped \/ EvolutionFails(used) \/ DreamTimesOut \/ FinishTurn
  BY <1>11, <1>13 DEF SweepSkips, EvolutionSkipped, EvolutionFails, DreamTimesOut, FinishTurn
<1>14. ASSUME NEW changes \in BOOLEAN, EvolutionSucceeds(used, changes) PROVE LearnInv'
  <2>1. /\ loop.at = "evolve" /\ loop # Idle /\ UNCHANGED <<answers, learned, dreamt>>
    BY <1>7, <1>14 DEF EvolutionSucceeds
  <2>2. loop.op = "turn" /\ loop.ev \in learned
    BY <2>1 DEF LearnInv
  <2>3. CASE changes
    <3>1. loop' = [loop EXCEPT !.at = "dream"] /\ published' = published \cup {loop.ev}
      BY <1>14, <2>3 DEF EvolutionSucceeds, Coordinate
    <3>2. loop' # Idle /\ loop'.at = "dream" /\ loop'.op = "turn" /\ loop'.ev = loop.ev
      BY <1>8, <2>1, <2>2, <3>1
    <3>3. task.at = "turn" /\ task.ev = loop.ev
      BY <2>1, <2>2 DEF RequestInv, Asks
    <3>4. \A ev \in published : ev \in dreamt \cup failed \/ (task.at = "turn" /\ task.ev = ev)
      BY DEF LearnInv
    <3>5. \A ev \in published' : /\ ev \in learned'
                               /\ \/ ev \in dreamt' \cup failed'
                                  \/ task'.at = "turn" /\ task'.ev = ev /\ loop'.ev = ev
      BY <1>1, <2>1, <2>2, <3>1, <3>2, <3>3, <3>4 DEF LearnInv
    <3> QED
      BY <2>1, <2>2, <3>2, <3>5 DEF LearnInv
  <2>4. CASE ~changes
    <3>1. loop' = [loop EXCEPT !.at = "finish"] /\ published' = published
      BY <1>14, <2>4 DEF EvolutionSucceeds, Coordinate
    <3>2. loop' # Idle /\ loop'.at = "finish" /\ loop'.op = "turn" /\ loop'.ev = loop.ev
      BY <1>8, <2>1, <2>2, <3>1
    <3> QED
      BY <1>3, <2>1, <2>2, <3>1, <3>2 DEF LearnInv
  <2> QED
    BY <2>3, <2>4
<1>15. CASE CoordinatedDream(used)
  <2>1. /\ loop.at = "dream" /\ loop # Idle /\ UNCHANGED <<answers, learned, published>>
        /\ dreamt' = dreamt \cup {loop.ev} /\ loop' = [loop EXCEPT !.at = "finish"]
    BY <1>7, <1>15 DEF CoordinatedDream
  <2>2. loop.op = "turn" /\ loop.ev \in learned
    BY <2>1 DEF LearnInv
  <2>3. loop' # Idle /\ loop'.at = "finish" /\ loop'.op = "turn" /\ loop'.ev = loop.ev
    BY <1>8, <2>1, <2>2
  <2> QED
    BY <1>3, <2>1, <2>2, <2>3 DEF LearnInv
<1> QED
  BY <1>4, <1>5, <1>6, <1>10, <1>12, <1>13, <1>14, <1>15 DEF SdkStep

LEMMA LearnNext == Types /\ QueueInv /\ RequestInv /\ LearnInv /\ [Next]_vars => LearnInv'
<1> SUFFICES ASSUME Types, QueueInv, RequestInv, LearnInv, [Next]_vars PROVE LearnInv'
  OBVIOUS
<1>1. CASE LearningStep
  <2>1. Used \in 0 .. Now /\ host.learns \in BOOLEAN
    BY UsedType, HostsAssumption DEF Types, PortTypes
  <2> QED
    BY <1>1, <2>1, SdkLearns DEF LearningStep
<1>3. ASSUME UNCHANGED <<loop, owed, learned, published, dreamt, failed>>,
             task.at = "turn" => task' = task, \A a \in answers : a.op = "turn" => a \in answers'
      PROVE  LearnInv'
  <2>1. \A ev : Rejected(ev) => Rejected(ev)'
    BY <1>3 DEF Rejected
  <2> QED
    BY <1>3, <2>1 DEF LearnInv
<1>4. CASE HostStep
  <2>1. PICK s \in Sessions : HostPrompt(s) \/ HostTurn(s) \/ HostTool(s) \/ HostEnd(s)
    BY <1>4 DEF HostStep
  <2> QED
    BY <1>3, <2>1 DEF HostPrompt, HostTurn, HostTool, HostEnd, sdkVars
<1>5. CASE TaskBegins
  BY <1>3, <1>5 DEF TaskBegins, NoTask
<1>6. CASE TaskTurnEnds
  <2>1. PICK answer \in answers :
          /\ answer.op = "turn" /\ answer.ev = task.ev
          /\ answers' = answers \ {answer}
          /\ IF answer.ok THEN failed' = failed ELSE failed' = failed \cup {task.ev}
    BY <1>6 DEF TaskTurnEnds, TaskFails
  <2>2. /\ UNCHANGED <<loop, owed, learned, published, dreamt>> /\ task.at = "turn"
    BY <1>6 DEF TaskTurnEnds
  <2>3. \A ev \in published : ev \in learned /\ ev \in dreamt \cup failed'
    <3> SUFFICES ASSUME NEW ev \in published, ev \notin dreamt \cup failed PROVE ev \in failed'
      BY <2>1 DEF LearnInv
    <3>1. /\ task.ev = ev
          /\ Rejected(ev) \/ (loop # Idle /\ loop.ev = ev /\ loop.at = "dream")
      BY DEF LearnInv
    <3>2. ~(loop # Idle /\ loop.ev = ev /\ loop.op = "turn")
      BY <2>1, <3>1 DEF RequestInv, Same
    <3>3. Rejected(ev)
      BY <3>1, <3>2 DEF LearnInv
    <3>4. answer.ok = FALSE
      BY <2>1, <3>1, <3>3 DEF Rejected, RequestInv, Same
    <3> QED
      BY <2>1, <3>1, <3>4
  <2> QED
    BY <2>2, <2>3 DEF LearnInv
<1>7. ASSUME task.at = "idle", UNCHANGED <<loop, owed, learned, published, dreamt, answers>>, failed \subseteq failed'
      PROVE  LearnInv'
  BY <1>7 DEF LearnInv
<1>8. CASE TaskIdleFails \/ \E dreams \in BOOLEAN : TaskIdles(dreams)
  BY <1>7, <1>8 DEF TaskIdleFails, TaskIdles, TaskFails, TaskSucceeds
<1>9. ASSUME NEW end \in ends, EndDrains(end) PROVE LearnInv'
  BY <1>3, <1>9 DEF EndDrains
<1>10. ASSUME NEW end \in ends, EndSwept(end) PROVE LearnInv'
  <2>1. \A a \in answers : a.op = "turn" => a \in answers'
    BY <1>10 DEF EndSwept
  <2> QED
    BY <1>3, <1>10, <2>1 DEF EndSwept
<1>11. ASSUME NEW end \in ends, EndDropped(end) PROVE LearnInv'
  <2>1. \A a \in answers : a.op = "turn" => a \in answers'
    BY <1>11 DEF EndDropped
  <2> QED
    BY <1>3, <1>11, <2>1 DEF EndDropped
<1>12. ASSUME NEW end \in ends, EndIdleFails(end) \/ \E dreams \in BOOLEAN : EndIdles(end, dreams) PROVE LearnInv'
  BY <1>3, <1>12 DEF EndIdleFails, EndIdles
<1>13. CASE UNCHANGED vars
  BY <1>3, <1>13 DEF vars, sdkVars, hostVars
<1> QED
  BY <1>1, <1>4, <1>5, <1>6, <1>8, <1>9, <1>10, <1>11, <1>12, <1>13 DEF Next, PortStep

\* A skill is changed only in a turn whose messages were learned, and a dream hears of
\* it before the next turn of any session unless the turn is rejected (maybeRunDream,
\* learning-loop.ts), for any number of sessions, events and failures.
THEOREM PublishedSkillsAreDreamt == Spec => []PublishedIsDreamt
<1> DEFINE Inv == Types /\ QueueInv /\ KindInv /\ RequestInv /\ LearnInv
<1>1. Init => Inv
  BY TypesInit, QueueInit, KindInit, RequestInit, LearnInit
<1>2. Inv /\ [Next]_vars => Inv'
  BY TypesNext, QueueNext, KindNext, RequestNext, LearnNext
<1>3. Inv => PublishedIsDreamt
  <2> SUFFICES ASSUME Inv, NEW ev \in published, ev \notin dreamt \cup failed
               PROVE  ev \in learned /\ ev \notin settled /\ (loop = Idle \/ loop.op = "sweep" \/ loop.ev = ev)
    BY DEF PublishedIsDreamt, LearnInv
  <2>1. /\ ev \in learned /\ task.at = "turn" /\ task.ev = ev
    BY DEF LearnInv
  <2>2. ev \notin settled
    BY <2>1 DEF QueueInv, Runs, NoTask
  <2>3. loop = Idle \/ loop.op = "sweep" \/ loop.ev = ev
    BY <2>1 DEF Types, SdkTypes, LoopType, RequestInv, Asks
  <2> QED
    BY <2>1, <2>2, <2>3
<1> QED
  BY <1>1, <1>2, <1>3, PTL DEF Spec

(***************************************************************************)
(* The model of an event.                                                  *)
(***************************************************************************)

\* While Pi waits for the end of a session to be handled, that end is the only one and
\* no turn is queued behind it; the context is that of the task or the end at work.
AwaitInv ==
  Pi /\ host.awaits =>
    /\ \A e, f \in ends : e = f
    /\ \A end \in ends :
         IF end.at = "drain"
         THEN /\ \A i \in 1 .. Len(waiting) : waiting[i] \in end.tail
              /\ task # NoTask => task.ev \in end.tail
         ELSE waiting = <<>> /\ task = NoTask /\ override = end.ev
    /\ task # NoTask => override = task.ev

\* What the agents have been given so far.
ModelInv ==
  \A r \in resolved :
    IF Pi THEN host.awaits => r.used = r.ev
    ELSE \A i \in 1 .. r.ev : IsTurn(i) => i <= r.used

LEMMA AwaitInit == Init => AwaitInv /\ ModelInv
BY DEF Init, SdkInit, AwaitInv, ModelInv

LEMMA AwaitNext == Types /\ QueueInv /\ AwaitInv /\ [Next]_vars => AwaitInv'
<1> SUFFICES ASSUME Types, QueueInv, AwaitInv, [Next]_vars PROVE AwaitInv'
  OBVIOUS
<1> SUFFICES ASSUME Pi, host.awaits, UNCHANGED host PROVE AwaitInv'
  <2>1. UNCHANGED host
    BY StepsOfNext DEF Steps, Reported, TurnQueued, EndReported, TurnStarted, TurnLearned, TurnSettled,
      TailAwaited, EndMoves, EndIsOver, queueVars
  <2> QED
    BY <2>1 DEF AwaitInv, Pi
<1> USE DEF AwaitInv
<1>1. ASSUME UNCHANGED <<ends, waiting, task, override>> PROVE AwaitInv'
  BY <1>1
<1>2. ASSUME NEW s \in Sessions, HostPrompt(s) \/ HostTool(s) PROVE AwaitInv'
  BY <1>1, <1>2 DEF HostPrompt, HostTool
<1>3. ASSUME NEW s \in Sessions, HostTurn(s) PROVE AwaitInv'
  <2>1. ends = {} /\ UNCHANGED <<ends, task, override>>
    BY <1>3 DEF HostTurn, MayReport
  <2> QED
    BY <2>1
<1>4. ASSUME NEW s \in Sessions, HostEnd(s) PROVE AwaitInv'
  <2>1. ends = {} /\ UNCHANGED <<waiting, task, override>>
    BY <1>4 DEF HostEnd, MayReport
  <2>2. PICK new : /\ ends' = ends \cup {new} /\ new.at = "drain"
                   /\ new.tail = Range(waiting) \cup ({task.ev} \ {0})
    <3> DEFINE drain == [ev |-> Now + 1, at |-> "drain", drained |-> {},
                         tail |-> Range(waiting) \cup ({task.ev} \ {0})]
    <3>1. ends' = ends \cup {drain}
      BY <1>4 DEF HostEnd, Pi
    <3>2. drain.at = "drain" /\ drain.tail = Range(waiting) \cup ({task.ev} \ {0})
      OBVIOUS
    <3> HIDE DEF drain
    <3> QED
      BY <3>1, <3>2
  <2>3. /\ \A i \in 1 .. Len(waiting) : waiting[i] \in Range(waiting)
        /\ task # NoTask => task.ev # 0
    BY DEF Types, PortTypes, Range, QueueInv, Runs
  <2> QED
    BY <2>1, <2>2, <2>3
<1>5. CASE TaskBegins
  <2>1. /\ waiting # <<>> /\ task'.ev = waiting[1] /\ override' = waiting[1] /\ UNCHANGED ends
        /\ 1 \in 1 .. Len(waiting)
        /\ \A i \in 1 .. Len(waiting') : waiting'[i] = waiting[i + 1] /\ i + 1 \in 1 .. Len(waiting)
    BY <1>5 DEF TaskBegins, Types, PortTypes, Pi
  <2> QED
    BY <2>1
<1>6. CASE TaskTurnEnds
  <2>1. /\ task # NoTask /\ UNCHANGED <<ends, waiting>>
        /\ (task'.ev = task.ev /\ override' = override) \/ task' = NoTask
    BY <1>6, Tasks DEF TaskTurnEnds, TaskFails
  <2> QED
    BY <2>1
<1>7. CASE TaskIdleFails \/ \E dreams \in BOOLEAN : TaskIdles(dreams)
  <2>1. /\ task # NoTask /\ UNCHANGED <<ends, waiting>> /\ task' = NoTask
    BY <1>7, Tasks DEF TaskIdleFails, TaskIdles, TaskFails, TaskSucceeds
  <2> QED
    BY <2>1
<1>8. ASSUME NEW end \in ends, EndDrains(end) PROVE AwaitInv'
  <2>1. /\ end.at = "drain" /\ end.tail \subseteq settled /\ UNCHANGED <<waiting, task>> /\ override' = end.ev
    BY <1>8 DEF EndDrains, Drained
  <2>2. task = NoTask
    BY <2>1 DEF QueueInv, Runs
  <2>3. waiting = <<>>
    <3> SUFFICES ASSUME waiting # <<>> PROVE FALSE
      OBVIOUS
    <3>1. 1 \in 1 .. Len(waiting) /\ waiting[1] \in Nat
      BY DEF QueueInv
    <3>2. waiting[1] \in settled
      BY <2>1, <3>1
    <3>3. waiting[1] < waiting[1]
      BY <3>1, <3>2 DEF QueueInv, Waits
    <3> QED
      BY <3>1, <3>3
  <2>4. PICK new : ends' = (ends \ {end}) \cup {new} /\ new.ev = end.ev /\ new.at = "sweep"
    <3>1. IsEnd(end)
      BY DEF Types, PortTypes, EndType, IsEnd, EndRecord
    <3>2. PICK new : new = [end EXCEPT !.at = "sweep", !.drained = failures]
      OBVIOUS
    <3>3. new = EndRecord(end.ev, "sweep", failures, end.tail)
      BY <3>1, <3>2, EndUpdates
    <3> QED
      BY <1>8, <3>2, <3>3 DEF EndDrains, EndRecord
  <2> QED
    BY <2>1, <2>2, <2>3, <2>4
\* The end at work moves on or is over.
<1>9. ASSUME NEW end \in ends, end.at # "drain", UNCHANGED <<waiting, task>>,
             \/ ends' = ends \ {end}
             \/ override' = override
                /\ \E new : ends' = (ends \ {end}) \cup {new} /\ new.ev = end.ev /\ new.at # "drain"
      PROVE  AwaitInv'
  BY <1>9
<1>10. ASSUME NEW end \in ends, NEW at \in {"drop", "idle"}
       PROVE  [end EXCEPT !.at = at].ev = end.ev /\ [end EXCEPT !.at = at].at = at
  <2>1. IsEnd(end)
    BY DEF Types, PortTypes, EndType, IsEnd, EndRecord
  <2>2. [end EXCEPT !.at = at] = EndRecord(end.ev, at, end.drained, end.tail)
    BY <2>1, EndUpdates
  <2> QED
    BY <2>2 DEF EndRecord
<1>11. ASSUME NEW end \in ends, EndSwept(end) PROVE AwaitInv'
  <2>1. \/ ends' = ends \ {end}
        \/ override' = override /\ ends' = (ends \ {end}) \cup {[end EXCEPT !.at = "drop"]}
    BY <1>11 DEF EndSwept, EndLeaves
  <2> QED
    BY <1>9, <1>10, <1>11, <2>1 DEF EndSwept
<1>12. ASSUME NEW end \in ends, EndDropped(end) PROVE AwaitInv'
  BY <1>9, <1>10, <1>12 DEF EndDropped
<1>13. ASSUME NEW end \in ends, EndIdleFails(end) \/ \E dreams \in BOOLEAN : EndIdles(end, dreams) PROVE AwaitInv'
  BY <1>9, <1>13 DEF EndIdleFails, EndIdles, EndLeaves
<1>14. CASE LearningStep \/ UNCHANGED vars
  BY <1>1, <1>14 DEF LearningStep, vars, hostVars
<1> QED
  BY <1>2, <1>3, <1>4, <1>5, <1>6, <1>7, <1>8, <1>11, <1>12, <1>13, <1>14 DEF Next, HostStep, PortStep

\* OpenClaw's selection is never older than a turn.
LEMMA SelectionIsLast ==
  ASSUME Types
  PROVE  \A i \in Reports : IsTurn(i) => i <= Selection
<1> DEFINE S == {0} \cup {i \in 1 .. Now : events[i].kind \in {"prompt", "turn"}}
<1>1. Now \in Nat
  BY DEF Types, PortTypes, Now
<1>2. S \subseteq Nat /\ S # {} /\ \A x \in S : x <= Now
  BY <1>1
<1>3. \A y \in S : y <= Selection
  BY <1>1, <1>2, MaxOfBounded DEF Selection
<1> QED
  BY <1>3 DEF Reports, IsTurn

LEMMA ModelNext ==
  Types /\ QueueInv /\ RequestInv /\ AwaitInv /\ ModelInv /\ [Next]_vars => ModelInv'
<1> SUFFICES ASSUME Types, QueueInv, RequestInv, AwaitInv, ModelInv, [Next]_vars PROVE ModelInv'
  OBVIOUS
<1> USE DEF ModelInv, Pi
\* What an agent gets that works for ev.
<1>1. ASSUME NEW ev \in Reports, UNCHANGED <<host, events>>,
             Pi /\ host.awaits => override = ev,
             resolved' \subseteq resolved \cup {[ev |-> ev, used |-> Used]}
      PROVE  ModelInv'
  <2>1. ev # 0 /\ \A i \in 1 .. ev : i \in Reports
    <3>1. Now \in Nat
      BY DEF Types, PortTypes, Now
    <3> QED
      BY <3>1 DEF Reports
  <2>2. Pi /\ host.awaits => Used = ev
    BY <1>1, <2>1, HostsAssumption DEF Used
  <2>3. ~Pi => Used = Selection
    BY HostsAssumption DEF Used, Types, PortTypes
  <2>4. ~Pi => \A i \in 1 .. ev : IsTurn(i) => i <= Used
    BY <2>1, <2>3, SelectionIsLast
  <2> QED
    BY <1>1, <2>2, <2>4 DEF IsTurn
<1>2. ASSUME UNCHANGED <<host, events, resolved>> PROVE ModelInv'
  BY <1>2 DEF IsTurn
<1>3. CASE HostStep
  <2>1. PICK s \in Sessions : HostPrompt(s) \/ HostTurn(s) \/ HostTool(s) \/ HostEnd(s)
    BY <1>3 DEF HostStep
  <2>2. PICK kind \in {"prompt", "tool", "turn", "end"} : Report(kind, s)
    BY <2>1 DEF HostPrompt, HostTurn, HostTool, HostEnd
  <2>3. \A i \in Reports : events'[i] = events[i]
    BY <2>2, ReportTypes
  <2>4. UNCHANGED <<host, resolved>>
    BY <2>1 DEF HostPrompt, HostTurn, HostTool, HostEnd, sdkVars
  <2>5. \A r \in resolved : \A i \in 1 .. r.ev : i \in Reports
    BY DEF Types, SdkTypes, Reports, Now, PortTypes
  <2> QED
    BY <2>3, <2>4, <2>5 DEF IsTurn
<1>4. CASE LearningStep
  <2>1. \/ resolved' = resolved
        \/ loop.at # "idle" /\ resolved' = resolved \cup {[ev |-> loop.ev, used |-> Used]}
    BY <1>4 DEF LearningStep, SdkStep, StartTurn, StartSweep, RunDrop, ExtractionSucceeds, SweepSkips,
      ExtractionFails, EvolutionSkipped, EvolutionSucceeds, EvolutionFails, CoordinatedDream,
      DreamTimesOut, FinishTurn, Resolve
  <2>2. UNCHANGED <<host, events>>
    BY <1>4 DEF LearningStep, hostVars
  <2>3. ASSUME loop.at # "idle", resolved' = resolved \cup {[ev |-> loop.ev, used |-> Used]} PROVE ModelInv'
    <3>1. loop # Idle /\ loop.ev \in Reports
      BY <2>3, Busy
    <3>2. Asks(loop.op, loop.ev)
      BY <3>1 DEF RequestInv
    <3>3. Pi /\ host.awaits => override = loop.ev
      <4>1. CASE loop.op = "turn" /\ task.at = "turn" /\ task.ev = loop.ev
        BY <4>1 DEF AwaitInv, NoTask
      <4>2. ASSUME NEW end \in ends, loop.op # "turn", end.at = loop.op, end.ev = loop.ev
            PROVE  Pi /\ host.awaits => override = loop.ev
        <5>1. loop.op = "sweep"
          BY <2>3, <4>2, Busy DEF LoopType
        <5> QED
          BY <4>2, <5>1 DEF AwaitInv
      <4> QED
        BY <3>2, <4>1, <4>2 DEF Asks
    <3> QED
      BY <1>1, <2>2, <2>3, <3>1, <3>3
  <2> QED
    BY <1>2, <2>1, <2>2, <2>3
<1>5. CASE TaskBegins \/ TaskTurnEnds \/ TaskIdleFails
  BY <1>2, <1>5 DEF TaskBegins, TaskTurnEnds, TaskIdleFails
<1>6. ASSUME NEW dreams \in BOOLEAN, TaskIdles(dreams) PROVE ModelInv'
  <2>1. task.ev \in Reports /\ task # NoTask
    BY <1>6, Tasks DEF TaskIdles
  <2>2. UNCHANGED <<host, events>> /\ resolved' \subseteq resolved \cup {[ev |-> task.ev, used |-> Used]}
    BY <1>6 DEF TaskIdles
  <2>3. Pi /\ host.awaits => override = task.ev
    BY <2>1 DEF AwaitInv
  <2> QED
    BY <1>1, <2>1, <2>2, <2>3
<1>7. ASSUME NEW end \in ends, EndDrains(end) \/ EndSwept(end) \/ EndDropped(end) \/ EndIdleFails(end) PROVE ModelInv'
  BY <1>2, <1>7 DEF EndDrains, EndSwept, EndDropped, EndIdleFails
<1>8. ASSUME NEW end \in ends, NEW dreams \in BOOLEAN, EndIdles(end, dreams) PROVE ModelInv'
  <2>1. end.ev \in Reports
    BY DEF Types, PortTypes, EndType
  <2>2. UNCHANGED <<host, events>> /\ resolved' \subseteq resolved \cup {[ev |-> end.ev, used |-> Used]}
    BY <1>8 DEF EndIdles
  <2>3. Pi /\ host.awaits => override = end.ev
    BY <1>8 DEF AwaitInv, EndIdles
  <2> QED
    BY <1>1, <2>1, <2>2, <2>3
<1>9. CASE UNCHANGED vars
  BY <1>2, <1>9 DEF vars, sdkVars, hostVars
<1> QED
  BY <1>3, <1>4, <1>5, <1>6, <1>7, <1>8, <1>9 DEF Next, PortStep

\* TypeOK, from what is known of the queue and of the requests.
LEMMA TypesAreRight == Types /\ QueueInv /\ KindInv /\ RequestInv => TypeOK
<1> SUFFICES ASSUME Types, QueueInv, KindInv, RequestInv PROVE TypeOK
  OBVIOUS
<1>1. Range(waiting) \cap settled = {}
  <2> SUFFICES ASSUME NEW i \in 1 .. Len(waiting), waiting[i] \in settled PROVE FALSE
    BY DEF Types, PortTypes, Range
  <2>1. waiting[i] < waiting[i] /\ waiting[i] \in Nat
    BY DEF QueueInv, Waits
  <2> QED
    BY <2>1
<1>2. task \in {NoTask} \cup [ev : Reports \ settled, at : {"turn", "idle"}]
  <2>1. task # NoTask => task.ev \notin settled
    BY DEF QueueInv, Runs
  <2> QED
    BY <2>1 DEF Types, PortTypes, TaskType
<1>3. \A i \in DOMAIN lifecycle : lifecycle[i].ev \in Reports /\ lifecycle[i].ev \notin settled
  <2> SUFFICES ASSUME NEW i \in 1 .. Len(lifecycle)
               PROVE  lifecycle[i].ev \in Reports /\ lifecycle[i].ev \notin settled
    BY DEF Types, SdkTypes
  <2>1. lifecycle[i] \in RequestType
    BY DEF Types, SdkTypes
  <2>2. Asks(lifecycle[i].op, lifecycle[i].ev)
    BY DEF RequestInv
  <2>3. \A end \in ends : end.ev \notin settled
    BY DEF KindInv, IsTurn
  <2>4. task.at = "turn" => task.ev \notin settled
    BY <1>2 DEF NoTask
  <2> QED
    BY <2>1, <2>2, <2>3, <2>4 DEF RequestType, Asks
<1>4. /\ host \in Hosts /\ waiting \in Seq(Reports) /\ events \in Seq(EventType)
      /\ override \in 0 .. Now /\ buffer \in [Sessions -> SUBSET Reports]
      /\ handed \subseteq [turn : Reports, call : Reports] /\ ends \subseteq EndType
      /\ {failures, settled, failed, thrown, masked, learned, published, dreamt} \subseteq SUBSET Reports
      /\ session \in [Sessions -> CountType] /\ \A s \in Sessions : session[s].last <= session[s].turns
      /\ owed \in [Sessions -> SUBSET Reports]
      /\ resolved \subseteq [ev : Reports, used : 0 .. Now]
  BY DEF Types, PortTypes, SdkTypes
<1> QED
  BY <1>1, <1>2, <1>3, <1>4 DEF TypeOK, EventType, EndType, CountType, Reports

\* An agent works with the model of the event it works for, in Pi if the host waits for
\* the end of a session to be handled, and in OpenClaw at least no older one than that of
\* the last turn up to its event (getContext of the two ports), for any number of
\* sessions and events and whatever fails.
THEOREM AgentsGetTheirModel == Spec => []ModelIsOfTheEvent
<1> DEFINE Inv == Types /\ QueueInv /\ KindInv /\ RequestInv /\ AwaitInv /\ ModelInv
<1>1. Init => Inv
  BY TypesInit, QueueInit, KindInit, RequestInit, AwaitInit
<1>2. Inv /\ [Next]_vars => Inv'
  BY TypesNext, QueueNext, KindNext, RequestNext, AwaitNext, ModelNext
<1>3. Inv => ModelIsOfTheEvent
  <2> SUFFICES ASSUME Inv PROVE ModelIsOfTheEvent
    OBVIOUS
  <2>1. TypeOK
    BY TypesAreRight
  <2>2. \A r \in resolved : r.used \in Nat /\ \A i \in 1 .. r.ev : i \in Nat
    BY DEF Types, SdkTypes, Reports
  <2> QED
    BY <2>1, <2>2 DEF ModelIsOfTheEvent, ModelInv, IsTurn
<1> QED
  BY <1>1, <1>2, <1>3, PTL DEF Spec

(***************************************************************************)
(* Tool calls.                                                             *)
(***************************************************************************)

Begun(i) == i \in settled \/ i = task.ev

\* A call in the buffer was made after the last turn of its session that has begun, and
\* no turn has learned it ahead of its time; a turn learns when it begins.
BufferInv ==
  /\ \A s \in Sessions : \A c \in buffer[s] :
       /\ events[c].kind = "tool" /\ events[c].session = s
       /\ \A i \in Turns(s) : c < i => ~Begun(i)
       /\ \A h \in handed : h.call = c => h.call <= h.turn
  /\ \A h \in handed :
       /\ Begun(h.turn)
       /\ \A c \in CallsOf(h.turn) : [turn |-> h.turn, call |-> c] \in handed
       /\ h.call \notin CallsOf(h.turn) => h.call > h.turn
  /\ \A g, h \in handed : g.call = h.call /\ g.call > g.turn /\ h.call > h.turn => g = h

LEMMA BufferInit == Init => BufferInv
BY DEF Init, BufferInv

\* What was reported up to a turn does not change.
LEMMA PastCalls ==
  ASSUME Types, NEW s \in Sessions, NEW kind \in {"prompt", "tool", "turn", "end"}, Report(kind, s),
         UNCHANGED host
  PROVE  \A ev \in Reports : CallsOf(ev)' = CallsOf(ev)
<1>1. /\ Now' = Now + 1 /\ Now \in Nat /\ Reports = 1 .. Now /\ \A i \in Reports : events'[i] = events[i]
  BY ReportTypes DEF Reports
<1> SUFFICES ASSUME NEW ev \in Reports PROVE CallsOf(ev)' = CallsOf(ev)
  OBVIOUS
<1>2. events'[ev] = events[ev]
  BY <1>1
<1>3. \A i \in 1 .. ev : i \in Reports /\ events'[i] = events[i]
  BY <1>1
<1>4. ASSUME NEW i \in 1 .. ev PROVE i \in Turns(events[ev].session)' <=> i \in Turns(events[ev].session)
  BY <1>1, <1>2, <1>3 DEF Turns
<1>5. \A i \in 1 .. ev : i \in Covered(ev)' <=> i \in Covered(ev)
  BY <1>4 DEF Covered
<1>6. \A i : i \in Turns(events[ev].session) \/ i \in Turns(events[ev].session)' => i \in Nat \ {0}
  BY <1>1 DEF Turns, Reports
<1>7. ASSUME NEW c \in 1 .. ev
      PROVE  (\A i \in Turns(events[ev].session) : c < i /\ i < ev => i \in Covered(ev))' <=>
             (\A i \in Turns(events[ev].session) : c < i /\ i < ev => i \in Covered(ev))
  <2>1. \A i \in Nat \ {0} : i < ev => i \in 1 .. ev
    BY <1>1
  <2> QED
    BY <1>4, <1>5, <1>6, <2>1
<1> QED
  BY <1>2, <1>3, <1>7 DEF CallsOf

\* Turns that were through or at work are still begun, and no others.
LEMMA SameBegun ==
  ASSUME Types, QueueInv, UNCHANGED <<host, events, handed>>,
         \A s \in Sessions : buffer'[s] \subseteq buffer[s],
         UNCHANGED <<settled, task>> \/ TurnLearned \/ TurnSettled,
         BufferInv
  PROVE  BufferInv'
<1>1. \A i \in Nat \ {0} : Begun(i)' <=> Begun(i)
  <2>1. CASE UNCHANGED <<settled, task>>
    BY <2>1 DEF Begun
  <2>2. CASE TurnLearned
    <3>1. task'.ev = task.ev /\ settled' = settled
      BY <2>2 DEF TurnLearned, Types, PortTypes, TaskType
    <3> QED
      BY <3>1 DEF Begun
  <2>3. CASE TurnSettled
    <3>1. task'.ev = 0 /\ settled' = settled \cup {task.ev}
      BY <2>3 DEF TurnSettled, NoTask
    <3> QED
      BY <3>1 DEF Begun
  <2> QED
    BY <2>1, <2>2, <2>3
<1>2. \A ev : CallsOf(ev)' = CallsOf(ev)
  BY DEF CallsOf, Covered, Turns, Now
<1>3. \A s : Turns(s)' = Turns(s) /\ Turns(s) \subseteq Nat \ {0}
  BY DEF Turns, Now
<1>4. \A h \in handed : h.turn \in Nat \ {0}
  BY DEF Types, PortTypes, Reports
<1> QED
  BY <1>1, <1>2, <1>3, <1>4 DEF BufferInv

LEMMA HostCalls == Types /\ QueueInv /\ BufferInv /\ HostStep => BufferInv'
<1> SUFFICES ASSUME Types, QueueInv, BufferInv, HostStep PROVE BufferInv'
  OBVIOUS
<1>1. PICK s \in Sessions : HostPrompt(s) \/ HostTurn(s) \/ HostTool(s) \/ HostEnd(s)
  BY DEF HostStep
<1>2. PICK kind \in {"prompt", "tool", "turn", "end"} : Report(kind, s) /\ (HostTool(s) => kind = "tool")
  BY <1>1 DEF HostPrompt, HostTurn, HostTool, HostEnd
<1>3. /\ UNCHANGED <<host, handed, settled, task>>
      /\ \/ buffer' = buffer
         \/ kind = "tool" /\ buffer' = [buffer EXCEPT ![s] = @ \cup {Now + 1}]
  BY <1>1, <1>2 DEF HostPrompt, HostTurn, HostTool, HostEnd
<1>4. /\ Now' = Now + 1 /\ Now \in Nat /\ Reports = 1 .. Now
      /\ \A i \in Reports : events'[i] = events[i]
      /\ events'[Now + 1].kind = kind /\ events'[Now + 1].session = s
  <2>1. events'[Now + 1] = [kind |-> kind, session |-> s]
    BY <1>2, ReportTypes
  <2>2. Now' = Now + 1 /\ Now \in Nat /\ \A i \in Reports : events'[i] = events[i]
    BY <1>2, ReportTypes
  <2> QED
    BY <2>1, <2>2 DEF Reports
<1>5. \A h \in handed : h.turn \in Reports /\ h.call \in Reports /\ CallsOf(h.turn)' = CallsOf(h.turn)
  BY <1>2, <1>3, PastCalls DEF Types, PortTypes
<1>6. \A i : Begun(i)' <=> Begun(i)
  BY <1>3 DEF Begun
<1>7. ~Begun(Now + 1)
  BY <1>4 DEF Begun, Types, PortTypes, TaskType, NoTask
<1>8. \A t \in Sessions : \A i \in Turns(t)' : i \in Turns(t) \/ i = Now + 1
  BY <1>4 DEF Turns, Reports
<1>9. \A t \in Sessions : \A c \in buffer'[t] :
        (c \in buffer[t] /\ c \in Reports) \/ (c = Now + 1 /\ t = s /\ kind = "tool")
  BY <1>3 DEF Types, PortTypes
<1>10. ASSUME NEW t \in Sessions, NEW c \in buffer'[t]
       PROVE  /\ events'[c].kind = "tool" /\ events'[c].session = t
              /\ \A i \in Turns(t)' : c < i => ~Begun(i)
              /\ \A h \in handed : h.call = c => h.call <= h.turn
  <2>1. CASE c \in buffer[t] /\ c \in Reports
    BY <1>4, <1>7, <1>8, <2>1 DEF BufferInv
  <2>2. CASE c = Now + 1 /\ t = s /\ kind = "tool"
    <3>1. \A i \in Turns(t)' : i \in 1 .. Now + 1
      BY <1>4 DEF Turns
    <3>2. \A h \in handed : h.call # c
      BY <1>4, <1>5, <2>2
    <3>3. \A i \in 1 .. Now + 1 : ~(c < i)
      BY <1>4, <2>2
    <3> QED
      BY <1>4, <2>2, <3>1, <3>2, <3>3
  <2> QED
    BY <1>9, <2>1, <2>2
<1> QED
  BY <1>3, <1>5, <1>6, <1>10 DEF BufferInv

LEMMA TaskCalls == Types /\ QueueInv /\ KindInv /\ TurnInv /\ BufferInv /\ TaskBegins => BufferInv'
<1> SUFFICES ASSUME Types, QueueInv, KindInv, TurnInv, BufferInv, TaskBegins PROVE BufferInv'
  OBVIOUS
<1> DEFINE ev    == waiting[1]
           s     == events[ev].session
           calls == CallsOf(ev) \cup buffer[s]
<1>1. /\ waiting # <<>> /\ Head(waiting) = ev /\ ev \in Reports /\ 1 \in 1 .. Len(waiting)
  BY DEF TaskBegins, Types, PortTypes
<1>2. /\ task = NoTask /\ task'.ev = ev
      /\ buffer' = [buffer EXCEPT ![s] = {}]
      /\ handed' = handed \cup {[turn |-> ev, call |-> c] : c \in calls}
      /\ UNCHANGED <<host, events, settled>>
  BY <1>1 DEF TaskBegins, DrainBuffer
<1>3. s \in Sessions /\ IsTurn(ev) /\ Now \in Nat /\ ev \in Nat \ {0}
  BY <1>1, TaskTypes DEF KindInv, Types, PortTypes, Now, Reports
<1>4. \A c \in CallsOf(ev) : c \in 1 .. ev /\ events[c].session = s
  BY DEF CallsOf
<1>5. \A c \in buffer[s] : c \in Reports /\ events[c].kind = "tool" /\ events[c].session = s
  BY <1>3 DEF BufferInv, Types, PortTypes
\* A call that was made before the turn ended is in its transcript: no turn between the
\* two waits.
<1>6. ASSUME NEW c \in buffer[s], c <= ev PROVE c \in CallsOf(ev)
  <2>1. c \in 1 .. ev
    BY <1>3, <1>5, <1>6 DEF Reports
  <2>2. ASSUME NEW i \in Turns(s), c < i, i < ev PROVE FALSE
    <3>1. ~Begun(i) /\ i \in 1 .. Now /\ IsTurn(i)
      BY <1>3, <2>2 DEF BufferInv, Turns, IsTurn
    <3>2. PICK k \in 1 .. Len(waiting) : waiting[k] = i
      BY <3>1 DEF TurnInv, Kept, Begun
    <3>3. k # 1
      BY <2>2, <3>1, <3>2, <1>3
    <3>4. waiting[1] < waiting[k]
      BY <1>1, <3>2, <3>3 DEF QueueInv, InOrder
    <3> QED
      BY <1>3, <2>2, <3>1, <3>2, <3>4
  <2> QED
    BY <1>5, <2>1, <2>2 DEF CallsOf
<1>7. \A e : CallsOf(e)' = CallsOf(e)
  BY <1>2 DEF CallsOf, Covered, Turns, Now
<1>8. \A i \in Nat \ {0} : Begun(i)' <=> (Begun(i) \/ i = ev)
  BY <1>2 DEF Begun, NoTask
<1>9. \A t : Turns(t)' = Turns(t) /\ Turns(t) \subseteq Nat \ {0} /\ (t # s => ev \notin Turns(t))
  BY <1>2 DEF Turns, Now
<1>10. \A h \in handed : h.turn \in Nat \ {0} /\ h.call \in Nat \ {0}
  BY DEF Types, PortTypes, Reports
<1> HIDE DEF ev, s
<1>11. ASSUME NEW h \in handed', h \notin handed
       PROVE  h.turn = ev /\ h.call \in calls /\ h = [turn |-> h.turn, call |-> h.call]
  BY <1>2, <1>11
<1>12. ASSUME NEW t \in Sessions, NEW c \in buffer'[t]
       PROVE  /\ events[c].kind = "tool" /\ events[c].session = t
              /\ \A i \in Turns(t) : c < i => ~Begun(i)'
              /\ \A h \in handed' : h.call = c => h.call <= h.turn
  <2>1. t # s /\ c \in buffer[t]
    BY <1>2, <1>3, <1>12 DEF Types, PortTypes
  <2>2. events[c].kind = "tool" /\ events[c].session = t
    BY <2>1 DEF BufferInv
  <2>3. \A i \in Turns(t) : c < i => ~Begun(i)'
    BY <1>8, <1>9, <2>1 DEF BufferInv
  <2>4. \A h \in handed' : h.call = c => h.call <= h.turn
    BY <1>4, <1>5, <1>11, <2>1, <2>2 DEF BufferInv
  <2> QED
    BY <2>2, <2>3, <2>4
<1>13. ASSUME NEW h \in handed'
       PROVE  /\ Begun(h.turn)'
              /\ \A c \in CallsOf(h.turn) : [turn |-> h.turn, call |-> c] \in handed'
              /\ h.call \notin CallsOf(h.turn) => h.call > h.turn
  <2>1. CASE h \in handed
    <3>1. Begun(h.turn) /\ h.turn \in Nat \ {0}
      BY <1>10, <2>1 DEF BufferInv
    <3>2. (Begun(h.turn))'
      BY <1>2, <3>1 DEF Begun, NoTask
    <3> QED
      BY <1>2, <2>1, <3>1, <3>2 DEF BufferInv
  <2>2. CASE h \notin handed
    <3>1. h.turn = ev /\ h.call \in calls
      BY <1>11, <2>2
    <3>2. h.call \notin CallsOf(ev) => h.call > ev
      <4>1. ASSUME h.call \in buffer[s], h.call \notin CallsOf(ev) PROVE h.call > ev
        <5>1. ~(h.call <= ev) /\ h.call \in Nat
          BY <1>5, <1>6, <4>1 DEF Reports
        <5> QED
          BY <1>3, <5>1
      <4> QED
        BY <3>1, <4>1
    <3>3. \A c \in CallsOf(ev) : [turn |-> ev, call |-> c] \in handed'
      BY <1>2
    <3>4. Begun(h.turn)'
      BY <1>2, <3>1 DEF Begun
    <3> QED
      BY <3>1, <3>2, <3>3, <3>4
  <2> QED
    BY <2>1, <2>2
<1>14. ASSUME NEW g \in handed', NEW h \in handed', g.call = h.call, g.call > g.turn, h.call > h.turn
       PROVE  g = h
  <2>1. ASSUME NEW x \in handed', x \notin handed, x.call > x.turn
        PROVE  \A y \in handed : y.call = x.call => y.call <= y.turn
    <3>1. x.turn = ev /\ x.call \in calls
      BY <1>11, <2>1
    <3>2. x.call \in buffer[s]
      BY <1>3, <1>4, <2>1, <3>1
    <3> QED
      BY <1>3, <3>2 DEF BufferInv
  <2>2. \A x \in handed : ~(x.call <= x.turn /\ x.call > x.turn)
    BY <1>10
  <2>3. CASE g \in handed /\ h \in handed
    BY <1>14, <2>3 DEF BufferInv
  <2>4. CASE g \notin handed /\ h \notin handed
    BY <1>11, <1>14, <2>4
  <2>5. CASE g \notin handed /\ h \in handed
    BY <1>14, <2>1, <2>2, <2>5
  <2>6. CASE g \in handed /\ h \notin handed
    BY <1>14, <2>1, <2>2, <2>6
  <2> QED
    BY <2>3, <2>4, <2>5, <2>6
<1> QED
  BY <1>2, <1>7, <1>9, <1>12, <1>13, <1>14 DEF BufferInv

LEMMA BufferNext == Types /\ QueueInv /\ KindInv /\ TurnInv /\ BufferInv /\ [Next]_vars => BufferInv'
<1> SUFFICES ASSUME Types, QueueInv, KindInv, TurnInv, BufferInv, [Next]_vars PROVE BufferInv'
  OBVIOUS
<1>1. ASSUME UNCHANGED <<host, events, handed, buffer, settled, task>> PROVE BufferInv'
  BY <1>1, SameBegun
<1>2. CASE TaskTurnEnds
  <2>1. UNCHANGED <<host, events, handed, buffer>>
    BY <1>2 DEF TaskTurnEnds
  <2>2. TurnLearned \/ TurnSettled
    BY <1>2 DEF TaskTurnEnds, TaskFails, TurnLearned, TurnSettled, NoTask, Pi, endVars
  <2> QED
    BY <2>1, <2>2, SameBegun
<1>3. CASE TaskIdleFails \/ \E dreams \in BOOLEAN : TaskIdles(dreams)
  <2>1. UNCHANGED <<host, events, handed, buffer>>
    BY <1>3 DEF TaskIdleFails, TaskIdles
  <2>2. TurnSettled
    BY <1>3 DEF TaskIdleFails, TaskIdles, TaskFails, TaskSucceeds, TurnSettled, NoTask, Pi
  <2> QED
    BY <2>1, <2>2, SameBegun
<1>4. ASSUME NEW end \in ends, EndDrains(end) PROVE BufferInv'
  <2>1. UNCHANGED <<host, events, handed, settled, task>>
    BY <1>4 DEF EndDrains
  <2>2. \A s \in Sessions : buffer'[s] \subseteq buffer[s]
    BY <1>4 DEF EndDrains, Types, PortTypes
  <2> QED
    BY <2>1, <2>2, SameBegun
<1>5. ASSUME NEW end \in ends,
             \/ EndSwept(end) \/ EndDropped(end) \/ EndIdleFails(end)
             \/ \E dreams \in BOOLEAN : EndIdles(end, dreams)
      PROVE  BufferInv'
  BY <1>1, <1>5 DEF EndSwept, EndDropped, EndIdleFails, EndIdles
<1>6. CASE LearningStep \/ UNCHANGED vars
  BY <1>1, <1>6 DEF LearningStep, vars, hostVars
<1> QED
  BY <1>2, <1>3, <1>4, <1>5, <1>6, HostCalls, TaskCalls DEF Next, PortStep

\* A turn learns every tool call of its transcript, and beyond them only calls made after
\* it ended, each of them in one turn at most (toolCallsBySession and
\* drainTelemetryMessages, host-memflywheel.ts), for any number of sessions and events.
THEOREM CallsAreLearnedInTime == Spec => []CallsComeInTime
<1> DEFINE Inv == Types /\ QueueInv /\ KindInv /\ TurnInv /\ BufferInv
<1>1. Init => Inv
  BY TypesInit, QueueInit, KindInit, TurnInit, BufferInit
<1>2. Inv /\ [Next]_vars => Inv'
  BY TypesNext, QueueNext, KindNext, TurnNext, BufferNext
<1>3. Inv => CallsComeInTime
  <2> SUFFICES ASSUME BufferInv, Types PROVE CallsComeInTime
    OBVIOUS
  <2>1. ASSUME NEW t \in {h.turn : h \in handed}
        PROVE  LET calls == {h.call : h \in {x \in handed : x.turn = t}}
               IN  CallsOf(t) \subseteq calls /\ \A c \in calls \ CallsOf(t) : c > t
    <3>1. PICK h \in handed : h.turn = t
      BY <2>1
    <3>2. \A c \in CallsOf(t) : [turn |-> t, call |-> c] \in handed
      BY <3>1 DEF BufferInv
    <3>3. \A x \in handed : x.turn = t /\ x.call \notin CallsOf(t) => x.call > t
      BY DEF BufferInv
    <3> DEFINE calls == {g.call : g \in {x \in handed : x.turn = t}}
    <3>4. ASSUME NEW c \in CallsOf(t) PROVE c \in calls
      <4>1. [turn |-> t, call |-> c].turn = t /\ [turn |-> t, call |-> c].call = c
        OBVIOUS
      <4> QED
        BY <3>2, <4>1
    <3>5. ASSUME NEW c \in calls \ CallsOf(t) PROVE c > t
      BY <3>3
    <3> HIDE DEF calls
    <3> QED
      BY <3>4, <3>5 DEF calls
  <2> QED
    BY <2>1 DEF CallsComeInTime, BufferInv
<1> QED
  BY <1>1, <1>2, <1>3, PTL DEF Spec
==============================================================================
