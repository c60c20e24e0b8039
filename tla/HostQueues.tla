------------------------------ MODULE HostQueues ------------------------------
(***************************************************************************)
(* The ports of Pi (packages/memflywheel/src/pi-port.ts) and OpenClaw      *)
(* (openclaw-port.ts): both take the events of their host and run the      *)
(* learning of a turn in the background, one turn after the other, through *)
(* the adapter of host-memflywheel.ts, on the SDK of LearningLoop.         *)
(*                                                                         *)
(* Agents ask the port for the model when they start.  Pi keeps the        *)
(* context of the task that runs and falls back to that of the last event; *)
(* OpenClaw has one selection, that of the last prompt or turn.  Pi's end  *)
(* of a session waits for the turns that were queued before it, OpenClaw's *)
(* does not.  Contexts and selections are known by the number of their     *)
(* event.  Pi also reports tool calls when they happen; the adapter adds   *)
(* those it has heard of to the next turn it starts.                       *)
(***************************************************************************)
EXTENDS LearningLoop

CONSTANTS
  Hosts,    \* the hosts, see HostsAssumption
  MaxEvents \* bound: no host reports more

\* awaits: the host sends nothing while the end of a session is being handled;
\* transcript: a turn brings the messages of the whole session, not its own only;
\* learns: a learning loop is configured; sessions: those it uses;
\* events, failures: bounds on its events and on failing agents and locks.
ASSUME HostsAssumption ==
  Hosts \subseteq [port : {"pi", "openclaw"}, awaits : BOOLEAN, transcript : BOOLEAN,
                   learns : BOOLEAN, sessions : SUBSET Sessions, events : 0 .. MaxEvents, failures : Nat]

VARIABLES
  host,     \* never changes
  events,   \* everything the host has reported
  waiting,  \* turns queued behind backgroundTail or backgroundQueue
  task,     \* the background turn that runs
  override, \* backgroundContext, 0 if undefined
  buffer,   \* toolCallsBySession: the tool calls heard of, a call is its event
  handed,   \* pairs of a turn and a tool call in its messages
  failures, \* backgroundFailures: the turns that failed
  ends,     \* ends of sessions that are being handled
  settled,  \* turns whose background task is over
  failed,   \* those whose task failed
  thrown,   \* failed turns that a session_shutdown handler has thrown
  masked    \* failed turns whose handler threw something else instead

hostVars == <<host, events, waiting, task, override, buffer, handed, failures, ends, settled, failed, thrown, masked>>
vars == <<sdkVars, hostVars>>

NoTask == [ev |-> 0, at |-> "none"]
Now    == Len(events)
Turns(s) == {i \in 1 .. Now : events[i].kind = "turn" /\ events[i].session = s}

Init ==
  /\ host \in Hosts
  /\ SdkInit(host.failures)
  /\ events = <<>> /\ waiting = <<>> /\ task = NoTask /\ override = 0
  /\ buffer = [s \in Sessions |-> {}] /\ handed = {}
  /\ failures = {} /\ ends = {} /\ settled = {} /\ failed = {} /\ thrown = {} /\ masked = {}

\* The prompt or turn that OpenClaw's selection comes from.
Selection == Max({0} \cup {i \in 1 .. Now : events[i].kind \in {"prompt", "turn"}})

\* Fault: the context of the last event comes first.
LatestFirst == IF host.port = "openclaw" THEN Selection ELSE IF Now # 0 THEN Now ELSE override

\* The model an agent gets: getContext of createPiAgentModelResolver.
Used == IF host.port = "openclaw" THEN Selection ELSE IF override # 0 THEN override ELSE Now

(***************************************************************************)
(* The host.                                                               *)
(***************************************************************************)

\* The host may report kind of s: nothing follows the end of a session.
MayReport(s) ==
  /\ s \in host.sessions /\ Now < host.events
  /\ \A i \in 1 .. Now : ~(events[i].kind = "end" /\ events[i].session = s)
  /\ host.awaits => ends = {}

Report(kind, s) == events' = Append(events, [kind |-> kind, session |-> s])

\* before_prompt_build, context: the selection or context is remembered.
HostPrompt(s) ==
  /\ MayReport(s)
  /\ Report("prompt", s)
  /\ UNCHANGED <<sdkVars, host, waiting, task, override, buffer, handed, failures, ends, settled, failed, thrown, masked>>

\* A tool call and its result.  Pi remembers the context; recordToolCall and
\* recordToolResult put the call in the buffer.  OpenClaw hears nothing of it.
HostTool(s) ==
  /\ MayReport(s)
  /\ Report("tool", s)
  /\ buffer' = IF host.port = "pi" THEN [buffer EXCEPT ![s] = @ \cup {Now + 1}] ELSE buffer
  /\ UNCHANGED <<sdkVars, host, waiting, task, override, handed, failures, ends, settled, failed, thrown, masked>>

\* agent_end: enqueueBackgroundTurn, enqueueBackground.
HostTurn(s) ==
  /\ MayReport(s)
  /\ Report("turn", s)
  /\ waiting' = Append(waiting, Now + 1)
  /\ UNCHANGED <<sdkVars, host, task, override, buffer, handed, failures, ends, settled, failed, thrown, masked>>

\* session_shutdown, session_end.  Pi's handler awaits backgroundTail first.
HostEnd(s) ==
  /\ MayReport(s)
  /\ Report("end", s)
  /\ IF host.port = "pi"
     THEN /\ ends' = ends \cup {[ev |-> Now + 1, at |-> "drain", drained |-> {},
                                 tail |-> Range(waiting) \cup ({task.ev} \ {0})]}
          /\ UNCHANGED lifecycle
     ELSE /\ ends' = ends \cup {[ev |-> Now + 1, at |-> "sweep", drained |-> {}, tail |-> {}]}
          /\ Enqueue(Sweep(s, Now + 1))
  /\ UNCHANGED <<loop, session, owed, answers, resolved, learned, published, dreamt, failing,
                 host, waiting, task, override, buffer, handed, failures, settled, failed, thrown, masked>>

(***************************************************************************)
(* A background turn: onTurnEnd of the SDK, then its onIdle.               *)
(***************************************************************************)

\* The turns a transcript goes back to, and the tool calls in it.
Covered(ev) ==
  {i \in Turns(events[ev].session) : i = ev \/ (host.transcript /\ i < ev)}

CallsOf(ev) ==
  {c \in 1 .. ev : /\ events[c].kind = "tool" /\ events[c].session = events[ev].session
                   /\ \A i \in Turns(events[ev].session) : c < i /\ i < ev => i \in Covered(ev)}

\* Fault: the buffer is not emptied.
DrainKeeps(s) == UNCHANGED buffer

DrainBuffer(s) == buffer' = [buffer EXCEPT ![s] = {}]

\* drainTelemetryMessages adds the calls in the buffer that the transcript lacks.
TaskBegins ==
  /\ task = NoTask /\ waiting # <<>>
  /\ LET ev    == Head(waiting)
         s     == events[ev].session
         calls == CallsOf(ev) \cup buffer[s]
     IN  /\ task' = [ev |-> ev, at |-> "turn"]
         /\ override' = IF host.port = "pi" THEN ev ELSE 0
         /\ DrainBuffer(s)
         /\ handed' = handed \cup {[turn |-> ev, call |-> c] : c \in calls}
         /\ Enqueue(Turn(s, ev, Cardinality(Covered(ev)), Cardinality(calls)))
  /\ waiting' = Tail(waiting)
  /\ UNCHANGED <<loop, session, owed, answers, resolved, learned, published, dreamt, failing,
                 host, events, failures, ends, settled, failed, thrown, masked>>

\* Fault: a rejected task blocks the queue.
TaskBlocks ==
  /\ failed' = failed \cup {task.ev}
  /\ failures' = failures \cup {task.ev}
  /\ UNCHANGED <<task, override, settled>>

\* The task rejects: Pi keeps the failure for the end of the session, OpenClaw
\* logs it; the next task runs either way.
TaskFails ==
  /\ failed' = failed \cup {task.ev}
  /\ failures' = IF host.port = "pi" THEN failures \cup {task.ev} ELSE failures
  /\ settled' = settled \cup {task.ev}
  /\ task' = NoTask
  /\ override' = 0

TaskSucceeds ==
  /\ settled' = settled \cup {task.ev}
  /\ task' = NoTask
  /\ override' = 0
  /\ UNCHANGED <<failed, failures>>

\* sdk.onTurnEnd has settled.
TaskTurnEnds ==
  /\ task.at = "turn"
  /\ \E answer \in answers :
       /\ answer.op = "turn" /\ answer.ev = task.ev
       /\ answers' = answers \ {answer}
       /\ IF answer.ok
          THEN /\ task' = [task EXCEPT !.at = "idle"]
               /\ UNCHANGED <<override, failures, settled, failed>>
          ELSE TaskFails
  /\ UNCHANGED <<lifecycle, loop, session, owed, resolved, learned, published, dreamt, failing,
                 host, events, waiting, buffer, handed, ends, thrown, masked>>

\* sdk.onIdle, outside the lifecycle queue: the gate is closed, or a dream runs.
TaskIdles(dreams) ==
  /\ task.at = "idle"
  /\ resolved' = IF dreams THEN resolved \cup {[ev |-> task.ev, used |-> Used]} ELSE resolved
  /\ TaskSucceeds
  /\ UNCHANGED <<lifecycle, loop, session, owed, answers, learned, published, dreamt, failing,
                 host, events, waiting, buffer, handed, ends, thrown, masked>>

\* The dream's lock times out.
TaskIdleFails ==
  /\ task.at = "idle"
  /\ failing > 0 /\ failing' = failing - 1
  /\ TaskFails
  /\ UNCHANGED <<lifecycle, loop, session, owed, answers, resolved, learned, published, dreamt,
                 host, events, waiting, buffer, handed, ends, thrown, masked>>

(***************************************************************************)
(* The end of a session: onAgentEnd, onSessionEnd, onIdle of the SDK.      *)
(***************************************************************************)

\* Fault: the handler does not wait for the queued turns.
DrainsNothing(end) == end.at = "drain"

\* The tail that the handler awaits is through.
Drained(end) == end.at = "drain" /\ end.tail \subseteq settled

EndDrains(end) ==
  /\ Drained(end)
  /\ ends' = (ends \ {end}) \cup {[end EXCEPT !.at = "sweep", !.drained = failures]}
  /\ failures' = {}
  /\ override' = end.ev
  /\ buffer' = [buffer EXCEPT ![events[end.ev].session] = {}]
  /\ Enqueue(Sweep(events[end.ev].session, end.ev))
  /\ UNCHANGED <<loop, session, owed, answers, resolved, learned, published, dreamt, failing,
                 host, events, waiting, task, handed, settled, failed, thrown, masked>>

\* Fault: the failures of the turns are dropped with the context.
EndForgets(end, ok) ==
  /\ ends' = ends \ {end}
  /\ override' = 0
  /\ UNCHANGED <<thrown, masked>>

\* The handler returns or throws; a failure of its own hides those of the turns.
EndLeaves(end, ok) ==
  /\ ends' = ends \ {end}
  /\ override' = 0
  /\ thrown' = IF ok THEN thrown \cup end.drained ELSE thrown
  /\ masked' = IF ok THEN masked ELSE masked \cup end.drained

\* onAgentEnd has settled; onSessionEnd is next.
EndSwept(end) ==
  /\ end.at = "sweep"
  /\ \E answer \in answers :
       /\ answer.op = "sweep" /\ answer.ev = end.ev
       /\ answers' = answers \ {answer}
       /\ IF answer.ok
          THEN /\ ends' = (ends \ {end}) \cup {[end EXCEPT !.at = "drop"]}
               /\ Enqueue(Drop(events[end.ev].session, end.ev))
               /\ UNCHANGED <<override, thrown, masked>>
          ELSE EndLeaves(end, FALSE) /\ UNCHANGED lifecycle
  /\ UNCHANGED <<loop, session, owed, resolved, learned, published, dreamt, failing,
                 host, events, waiting, task, buffer, handed, failures, settled, failed>>

EndDropped(end) ==
  /\ end.at = "drop"
  /\ [op |-> "drop", ev |-> end.ev, ok |-> TRUE] \in answers
  /\ answers' = answers \ {[op |-> "drop", ev |-> end.ev, ok |-> TRUE]}
  /\ ends' = (ends \ {end}) \cup {[end EXCEPT !.at = "idle"]}
  /\ UNCHANGED <<lifecycle, loop, session, owed, resolved, learned, published, dreamt, failing,
                 host, events, waiting, task, override, buffer, handed, failures, settled, failed, thrown, masked>>

EndIdles(end, dreams) ==
  /\ end.at = "idle"
  /\ resolved' = IF dreams THEN resolved \cup {[ev |-> end.ev, used |-> Used]} ELSE resolved
  /\ EndLeaves(end, TRUE)
  /\ UNCHANGED <<lifecycle, loop, session, owed, answers, learned, published, dreamt, failing,
                 host, events, waiting, task, buffer, handed, failures, settled, failed>>

EndIdleFails(end) ==
  /\ end.at = "idle"
  /\ failing > 0 /\ failing' = failing - 1
  /\ EndLeaves(end, FALSE)
  /\ UNCHANGED <<lifecycle, loop, session, owed, answers, resolved, learned, published, dreamt,
                 host, events, waiting, task, buffer, handed, failures, settled, failed>>

(***************************************************************************)
(* The specification.                                                      *)
(***************************************************************************)

HostStep ==
  \E s \in Sessions :
    HostPrompt(s) \/ HostTurn(s) \/ HostTool(s) \/ HostEnd(s)

PortStep ==
  \/ TaskBegins \/ TaskTurnEnds \/ (\E dreams \in BOOLEAN : TaskIdles(dreams)) \/ TaskIdleFails
  \/ \E end \in ends :
       \/ EndDrains(end) \/ EndSwept(end) \/ EndDropped(end)
       \/ (\E dreams \in BOOLEAN : EndIdles(end, dreams)) \/ EndIdleFails(end)

LearningStep == SdkStep(Used, host.learns) /\ UNCHANGED hostVars

Next == HostStep \/ PortStep \/ LearningStep

\* Agents and locks answer, and the event loop runs what is ready; the host owes
\* nothing.
Fairness == WF_vars(PortStep \/ LearningStep)

Spec == Init /\ [][Next]_vars /\ Fairness

(***************************************************************************)
(* Properties.                                                             *)
(***************************************************************************)

Pi == host.port = "pi"

\* The types; one task of the SDK and one of the port run at a time, and what waits
\* for either is an event that was reported.
TypeOK ==
  LET Events == 1 .. Now
  IN  /\ host \in Hosts
      /\ events \in Seq([kind : {"prompt", "tool", "turn", "end"}, session : Sessions])
      /\ waiting \in Seq(Events) /\ Range(waiting) \cap settled = {}
      /\ task \in {NoTask} \cup [ev : Events \ settled, at : {"turn", "idle"}]
      /\ override \in 0 .. Now
      /\ buffer \in [Sessions -> SUBSET Events]
      /\ handed \subseteq [turn : Events, call : Events]
      /\ ends \subseteq [ev : Events, at : {"drain", "sweep", "drop", "idle"},
                         drained : SUBSET Events, tail : SUBSET Events]
      /\ {failures, settled, failed, thrown, masked, learned, published, dreamt} \subseteq SUBSET Events
      /\ \A i \in DOMAIN lifecycle : lifecycle[i].ev \in Events /\ lifecycle[i].ev \notin settled
      /\ session \in [Sessions -> [turns : Nat, users : Nat, calls : Nat, last : Nat]]
      /\ \A s \in Sessions : session[s].last <= session[s].turns
      /\ owed \in [Sessions -> SUBSET Events]
      /\ resolved \subseteq [ev : Events, used : 0 .. Now]

\* An agent that works for an event uses the model that event came with, in Pi if
\* the host waits for the end of a session to be handled; in OpenClaw at least no
\* older one than that of the last turn up to the event.
ModelIsOfTheEvent ==
  /\ TypeOK
  /\ \A r \in resolved :
       IF Pi THEN host.awaits => r.used = r.ev
       ELSE \A i \in 1 .. r.ev : events[i].kind = "turn" => r.used >= i

\* A turn learns the tool calls of its transcript, and beyond them at most calls
\* that were made after it ended, while it waited for its turn: no call comes too
\* late, and at most one turn learns a call ahead of its time.
CallsComeInTime ==
  /\ \A t \in {h.turn : h \in handed} :
       LET calls == {h.call : h \in {x \in handed : x.turn = t}}
       IN  CallsOf(t) \subseteq calls /\ \A c \in calls \ CallsOf(t) : c > t
  /\ \A g, h \in handed :
       g.call = h.call /\ g.call > g.turn /\ h.call > h.turn => g = h

\* In Pi no session is swept before every turn reported before its end has been
\* learned or has failed.
TurnsPrecedeEnd ==
  Pi => \A end \in ends : end.at # "drain" =>
          \A i \in 1 .. end.ev : events[i].kind = "turn" => i \in settled

\* In Pi a failed turn is waiting to be thrown, being thrown, or was thrown by the
\* end of a session, once, unless that end failed itself.
FailuresSurface ==
  Pi => LET held == UNION ({failures, thrown, masked} \cup {end.drained : end \in ends})
        IN  /\ failed = held
            /\ thrown \cap masked = {}
            /\ \A end \in ends : end.drained \cap (failures \cup thrown \cup masked) = {}

\* A skill is changed only in a turn whose messages were learned, and unless the
\* turn is rejected a dream hears of it before the next turn of any session.
PublishedIsDreamt ==
  \A ev \in published :
    /\ ev \in learned
    /\ \/ ev \in dreamt \cup failed
       \/ ev \notin settled /\ (loop = Idle \/ loop.op = "sweep" \/ loop.ev = ev)

\* Whatever fails, every turn the host reports is processed: once it reports no
\* more (MaxEvents), nothing stays behind.
TurnsSettle ==
  <>[](\A i \in 1 .. Now : events[i].kind = "turn" => i \in settled)
==============================================================================
