----------------------------- MODULE OpenCodePort -----------------------------
(***************************************************************************)
(* The OpenCode port: createOpenCodeHarnessPort of                         *)
(* packages/memflywheel/src/opencode-port.ts and the handlers that         *)
(* host-memflywheel.ts attaches to it, between the events of the host and  *)
(* the lifecycle queue of the SDK.                                         *)
(*                                                                         *)
(* Every session.idle event makes a dispatch that asks the host for the    *)
(* transcript and hands it to the SDK.  The dispatches of a session are    *)
(* chained promises: one runs when the one before it has resolved, and     *)
(* rejects without running when that has rejected.  session.deleted does   *)
(* not wait for them.                                                      *)
(*                                                                         *)
(* Turn n of a session has three messages: the user's, a tool call and     *)
(* the assistant's answer.  The port is told of the call and of the text   *)
(* of the answer by hooks of their own; the host's list of messages may    *)
(* have them later.  The SDK is seen from here as a table of messages      *)
(* that an extraction learns as a whole: which of them it learns when is   *)
(* the subject of SessionLifecycle.                                        *)
(***************************************************************************)
EXTENDS Integers, Sequences, FiniteSets

CONSTANTS
  Sessions,
  MessageLimit,  \* options.messageLimit, in turns
  MaxTurns,      \* bound: turns of a session
  MaxIdles,      \* bound: session.idle events
  MaxFailures    \* bound: requests, extractions and idle ticks that reject

ASSUME PortAssumption ==
  /\ MessageLimit \in Nat \ {0}
  /\ MaxTurns \in Nat /\ MaxIdles \in Nat /\ MaxFailures \in Nat

VARIABLES
  turns,      \* turns of each session
  listed,     \* the last turn whose call and answer the host lists
  ended,      \* "open"; "ending", "ticking": session.deleted; "gone" or "stuck"
  pending,    \* pendingCompletedText: the turn whose answer it holds, or 0
  calls,      \* toolCallsBySession: turns whose tool call it holds
  delivered,  \* deliveredTranscripts, empty if none
  tail,       \* turnDispatches: the last dispatch of the chain, or 0
  dispatch,   \* all dispatches, in the order of their idle events
  queue,      \* lifecycleQueue of the SDK
  live,       \* its session table
  held,       \* the messages in it
  learned,    \* history: messages in extractions that returned
  handed,     \* history: messages the SDK was given
  raced,      \* history: sessions deleted with a dispatch in flight
  failures

hostVars == <<turns, listed>>
portVars == <<ended, pending, calls, delivered, tail, dispatch>>
sdkVars == <<queue, live, held, learned, handed>>
vars == <<hostVars, portVars, sdkVars, raced, failures>>

Messages == {"user", "call", "answer"} \X (1 .. MaxTurns)

HasAnswer(messages) == \E n \in 1 .. MaxTurns : <<"answer", n>> \in messages

\* readOpenCodeMessages: the newest messages that the host lists.
Listing(s) ==
  {m \in Messages : /\ m[2] <= turns[s] /\ m[2] > turns[s] - MessageLimit
                    /\ m[1] # "user" => m[2] <= listed[s]}

\* Fault: the buffered text is not used.
WithListedTextOnly(s, messages) == messages

\* withCompletedAssistantText
WithCompletedText(s, messages) ==
  IF HasAnswer(messages) \/ pending[s] = 0 THEN messages
  ELSE messages \cup {<<"answer", pending[s]>>}

\* drainTelemetryMessages drops the calls that the transcript has, the others follow it.
WithCalls(s, messages) == messages \cup {<<"call", n>> : n \in calls[s]}

Settled == {"done", "failed"}
OfSession(s) == {d \in DOMAIN dispatch : dispatch[d].session = s}

Init ==
  /\ turns = [s \in Sessions |-> 0]
  /\ listed = [s \in Sessions |-> 0]
  /\ ended = [s \in Sessions |-> "open"]
  /\ pending = [s \in Sessions |-> 0]
  /\ calls = [s \in Sessions |-> {}]
  /\ delivered = [s \in Sessions |-> {}]
  /\ tail = [s \in Sessions |-> 0]
  /\ dispatch = <<>>
  /\ queue = <<>>
  /\ live = {}
  /\ held = [s \in Sessions |-> {}]
  /\ learned = [s \in Sessions |-> {}]
  /\ handed = [s \in Sessions |-> {}]
  /\ raced = {}
  /\ failures = 0

Fail == failures < MaxFailures /\ failures' = failures + 1

(***************************************************************************)
(* The host.                                                               *)
(***************************************************************************)

\* The user asks, the model calls a tool and answers: tool.execute.before and .after
\* record the call, experimental.text.complete buffers the answer in place of an
\* older one.
HostTurn(s) ==
  /\ ended[s] = "open" /\ turns[s] < MaxTurns
  /\ turns' = [turns EXCEPT ![s] = @ + 1]
  /\ pending' = [pending EXCEPT ![s] = turns[s] + 1]
  /\ calls' = [calls EXCEPT ![s] = @ \cup {turns[s] + 1}]
  /\ UNCHANGED <<listed, ended, delivered, tail, dispatch, sdkVars, raced, failures>>

\* The host's list catches up.
HostLists(s) ==
  /\ listed[s] < turns[s]
  /\ listed' = [listed EXCEPT ![s] = turns[s]]
  /\ UNCHANGED <<turns, portVars, sdkVars, raced, failures>>

\* A new dispatch, chained to the one of number "after".
IdleAfter(s, after) ==
  /\ ended[s] = "open" /\ turns[s] > 0 /\ Len(dispatch) < MaxIdles
  /\ dispatch' = Append(dispatch, [session |-> s, after |-> after, pc |-> "waiting",
                                   got |-> {}, seen |-> 0, drops |-> FALSE])
  /\ tail' = [tail EXCEPT ![s] = Len(dispatch) + 1]
  /\ UNCHANGED <<hostVars, ended, pending, calls, delivered, sdkVars, raced, failures>>

\* Fault: a dispatch does not wait for the one before it.
IdleUnchained(s) == IdleAfter(s, 0)

\* session.idle: dispatchCompletedTurn appends to the chain.
Idle(s) == IdleAfter(s, tail[s])

Queued(op, s) == [op |-> op, session |-> s, dispatch |-> 0]

\* Fault: the session ends without the sweep.
EndingUnswept(s) == Queued("end", s)

\* adaptSdkMemFlywheel's onSessionEnd begins with onAgentEnd.
Ending(s) == Queued("sweep", s)

\* session.deleted: the recorded calls are dropped, the SDK is asked for a final sweep.
Deleted(s) ==
  /\ ended[s] = "open" /\ turns[s] > 0
  /\ ended' = [ended EXCEPT ![s] = "ending"]
  /\ calls' = [calls EXCEPT ![s] = {}]
  /\ queue' = Append(queue, Ending(s))
  /\ raced' = IF \E d \in OfSession(s) : dispatch[d].pc \notin Settled
              THEN raced \cup {s} ELSE raced
  /\ UNCHANGED <<hostVars, pending, delivered, tail, dispatch, live, held, learned,
                 handed, failures>>

(***************************************************************************)
(* A dispatch.                                                             *)
(***************************************************************************)

\* The dispatch settles; it leaves the chain if it is the last one.
Settle(d, pc) ==
  /\ dispatch' = [dispatch EXCEPT ![d].pc = pc]
  /\ tail' = [s \in Sessions |-> IF tail[s] = d THEN 0 ELSE tail[s]]

\* Its turn has come and the host has put the reply to client.session.messages together.
Ask(d) ==
  LET s == dispatch[d].session
  IN  /\ dispatch[d].pc = "waiting"
      /\ dispatch[d].after # 0 => dispatch[dispatch[d].after].pc = "done"
      /\ dispatch' = [dispatch EXCEPT ![d].pc = "asking", ![d].got = Listing(s),
                                      ![d].seen = turns[s], ![d].drops = HasAnswer(Listing(s))]
      /\ UNCHANGED <<hostVars, ended, pending, calls, delivered, tail, sdkVars, raced,
                     failures>>

\* The dispatch before it has rejected.
Skip(d) ==
  /\ dispatch[d].pc = "waiting"
  /\ dispatch[d].after # 0 /\ dispatch[dispatch[d].after].pc = "failed"
  /\ Settle(d, "failed")
  /\ UNCHANGED <<hostVars, ended, pending, calls, delivered, sdkVars, raced, failures>>

AskFails(d) ==
  /\ dispatch[d].pc = "asking"
  /\ Fail
  /\ Settle(d, "failed")
  /\ UNCHANGED <<hostVars, ended, pending, calls, delivered, sdkVars, raced>>

\* The transcript is the one that was delivered last.
Repeated(d) ==
  LET s == dispatch[d].session
  IN  /\ dispatch[d].pc = "asking"
      /\ delivered[s] = WithCompletedText(s, dispatch[d].got)
      /\ Settle(d, "done")
      /\ UNCHANGED <<hostVars, ended, pending, calls, delivered, sdkVars, raced, failures>>

\* The handler drains the recorded calls and queues an extraction.
HandOver(d) ==
  LET s == dispatch[d].session
      transcript == WithCompletedText(s, dispatch[d].got)
  IN  /\ dispatch[d].pc = "asking"
      /\ delivered[s] # transcript
      /\ dispatch' = [dispatch EXCEPT ![d].pc = "queued", ![d].got = transcript]
      /\ calls' = [calls EXCEPT ![s] = {}]
      /\ handed' = [handed EXCEPT ![s] = @ \cup WithCalls(s, transcript)]
      /\ queue' = Append(queue, [op |-> "turn", session |-> s, dispatch |-> d,
                                 messages |-> WithCalls(s, transcript)])
      /\ UNCHANGED <<hostVars, ended, pending, delivered, tail, live, held, learned, raced,
                     failures>>

\* The extraction and the idle tick have returned: the transcript is recorded, and the
\* buffered text dropped if the host has listed any answer.
HandlerReturns(d) ==
  LET s == dispatch[d].session
  IN  /\ dispatch[d].pc = "ticking"
      /\ delivered' = [delivered EXCEPT ![s] = dispatch[d].got]
      /\ pending' = IF dispatch[d].drops THEN [pending EXCEPT ![s] = 0] ELSE pending
      /\ Settle(d, "done")
      /\ UNCHANGED <<hostVars, ended, calls, sdkVars, raced, failures>>

\* The idle tick throws.
HandlerThrows(d) ==
  /\ dispatch[d].pc = "ticking"
  /\ Fail
  /\ Settle(d, "failed")
  /\ UNCHANGED <<hostVars, ended, pending, calls, delivered, sdkVars, raced>>

(***************************************************************************)
(* The lifecycle queue of the SDK.                                         *)
(***************************************************************************)

Task(op) == queue # <<>> /\ Head(queue).op = op

\* An extraction of a turn, or the final sweep, starts with the session in the table.
Hold(s, messages) ==
  /\ live' = live \cup {s}
  /\ held' = [held EXCEPT ![s] = @ \cup messages]

TurnReturns ==
  /\ Task("turn")
  /\ LET s == Head(queue).session
     IN  /\ Hold(s, Head(queue).messages)
         /\ learned' = [learned EXCEPT ![s] = @ \cup held'[s]]
  /\ queue' = Tail(queue)
  /\ dispatch' = [dispatch EXCEPT ![Head(queue).dispatch].pc = "ticking"]
  /\ UNCHANGED <<hostVars, ended, pending, calls, delivered, tail, handed, raced, failures>>

TurnThrows ==
  /\ Task("turn")
  /\ Fail
  /\ Hold(Head(queue).session, Head(queue).messages)
  /\ queue' = Tail(queue)
  /\ Settle(Head(queue).dispatch, "failed")
  /\ UNCHANGED <<hostVars, ended, pending, calls, delivered, learned, handed, raced>>

\* onAgentEnd returns and onSessionEnd queues the end of the session.
SweepReturns ==
  /\ Task("sweep")
  /\ LET s == Head(queue).session
     IN  /\ Hold(s, {})
         /\ learned' = [learned EXCEPT ![s] = @ \cup held[s]]
         /\ queue' = Append(Tail(queue), Queued("end", s))
  /\ UNCHANGED <<hostVars, portVars, handed, raced, failures>>

\* The handler of session.deleted rejects: nothing after it happens.
SweepThrows ==
  /\ Task("sweep")
  /\ Fail
  /\ Hold(Head(queue).session, {})
  /\ queue' = Tail(queue)
  /\ ended' = [ended EXCEPT ![Head(queue).session] = "stuck"]
  /\ UNCHANGED <<hostVars, pending, calls, delivered, tail, dispatch, learned, handed, raced>>

EndReturns ==
  /\ Task("end")
  /\ LET s == Head(queue).session
     IN  /\ live' = live \ {s}
         /\ held' = [held EXCEPT ![s] = {}]
         /\ ended' = [ended EXCEPT ![s] = "ticking"]
  /\ queue' = Tail(queue)
  /\ UNCHANGED <<hostVars, pending, calls, delivered, tail, dispatch, learned, handed, raced,
                 failures>>

\* The idle tick after the end has returned; the port forgets the session.
DeletedReturns(s) ==
  /\ ended[s] = "ticking"
  /\ ended' = [ended EXCEPT ![s] = "gone"]
  /\ pending' = [pending EXCEPT ![s] = 0]
  /\ delivered' = [delivered EXCEPT ![s] = {}]
  /\ tail' = [tail EXCEPT ![s] = 0]
  /\ UNCHANGED <<hostVars, calls, dispatch, sdkVars, raced, failures>>

DeletedThrows(s) ==
  /\ ended[s] = "ticking"
  /\ Fail
  /\ ended' = [ended EXCEPT ![s] = "stuck"]
  /\ UNCHANGED <<hostVars, pending, calls, delivered, tail, dispatch, sdkVars, raced>>

\* All dispatches are settled and the session has ended.
Quiet ==
  /\ \A s \in Sessions : ended[s] \in {"gone", "stuck"} /\ listed[s] = turns[s]
  /\ \A d \in DOMAIN dispatch : dispatch[d].pc \in Settled
  /\ queue = <<>>

Finished == Quiet /\ UNCHANGED vars

Next ==
  \/ \E s \in Sessions : HostTurn(s)
  \/ \E s \in Sessions : HostLists(s)
  \/ \E s \in Sessions : Idle(s)
  \/ \E s \in Sessions : Deleted(s)
  \/ \E d \in DOMAIN dispatch : Ask(d)
  \/ \E d \in DOMAIN dispatch : Skip(d)
  \/ \E d \in DOMAIN dispatch : AskFails(d)
  \/ \E d \in DOMAIN dispatch : Repeated(d)
  \/ \E d \in DOMAIN dispatch : HandOver(d)
  \/ \E d \in DOMAIN dispatch : HandlerReturns(d)
  \/ \E d \in DOMAIN dispatch : HandlerThrows(d)
  \/ TurnReturns
  \/ TurnThrows
  \/ SweepReturns
  \/ SweepThrows
  \/ EndReturns
  \/ \E s \in Sessions : DeletedReturns(s)
  \/ \E s \in Sessions : DeletedThrows(s)
  \/ Finished

Spec == Init /\ [][Next]_vars

(***************************************************************************)
(* Properties.                                                             *)
(***************************************************************************)

\* The type invariant of the port and of what it sees of the SDK.
TypeOK ==
  /\ turns \in [Sessions -> 0 .. MaxTurns]
  /\ listed \in [Sessions -> 0 .. MaxTurns]
  /\ ended \in [Sessions -> {"open", "ending", "ticking", "gone", "stuck"}]
  /\ pending \in [Sessions -> 0 .. MaxTurns]
  /\ calls \in [Sessions -> SUBSET (1 .. MaxTurns)]
  /\ tail \in [Sessions -> 0 .. MaxIdles]
  /\ live \subseteq Sessions /\ raced \subseteq Sessions
  /\ failures \in 0 .. MaxFailures
  /\ \A s \in Sessions :
       {delivered[s], held[s], learned[s], handed[s]} \subseteq SUBSET Messages
  /\ \A d \in DOMAIN dispatch :
       /\ dispatch[d].session \in Sessions
       /\ dispatch[d].after \in 0 .. d - 1
       /\ dispatch[d].pc \in {"waiting", "asking", "queued", "ticking"} \cup Settled
       /\ dispatch[d].got \subseteq Messages
  /\ \A i \in DOMAIN queue :
       /\ queue[i].op \in {"turn", "sweep", "end"}
       /\ queue[i].op = "turn" <=> queue[i].dispatch \in DOMAIN dispatch

\* A dispatch that resolves stands for an extraction that returned: the SDK has learned
\* its transcript and, unless the session was deleted meanwhile, an answer even if the
\* host has listed none yet, and every tool call of the turns that were over when the
\* transcript was read.  It holds for a dispatch that found its transcript delivered
\* already, and after one that failed, because the transcript is recorded last.
DoneIsLearned ==
  /\ TypeOK
  /\ \A d \in DOMAIN dispatch :
       LET s == dispatch[d].session
       IN  dispatch[d].pc = "done" =>
             /\ dispatch[d].got \subseteq learned[s]
             /\ s \notin raced =>
                  /\ HasAnswer(learned[s])
                  /\ \A n \in 1 .. dispatch[d].seen : <<"call", n>> \in learned[s]

\* The transcript that counts as delivered never becomes an older one, however long the
\* replies and the extractions take: the next idle event would hand over again what the
\* SDK has had.
DeliveredMovesOn ==
  [][\A s \in Sessions : delivered'[s] # {} =>
       \A m \in delivered[s] : \E k \in delivered'[s] : k[2] >= m[2]]_vars

\* A session that was deleted with no dispatch in flight leaves nothing behind: no entry
\* of a map, no session in the SDK, and no message the SDK was given and has not learned,
\* not even one of an extraction that failed.
GoneWithoutTrace ==
  \A s \in Sessions \ raced : ended[s] = "gone" =>
    /\ s \notin live
    /\ pending[s] = 0 /\ calls[s] = {} /\ delivered[s] = {} /\ tail[s] = 0
    /\ handed[s] \subseteq learned[s]
==============================================================================
