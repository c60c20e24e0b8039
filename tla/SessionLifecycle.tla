--------------------------- MODULE SessionLifecycle ---------------------------
(***************************************************************************)
(* The turn lifecycle of one memory process: the session table and the     *)
(* lifecycle queue of packages/sdk/src/index.ts, and the extraction pass   *)
(* of packages/core/src/extract.ts that each turn and each session end     *)
(* runs.                                                                   *)
(*                                                                         *)
(* Message n of a session is the number n, in the order the host sees      *)
(* them.  The host either hands over the messages of the turn (Pi) or the  *)
(* whole transcript so far (OpenCode).  The queue and the session table    *)
(* die with the process, and so does the cursor store, except that of the  *)
(* Hermes worker, which is a file; the source trace is a file.  The root   *)
(* lock is seen from here as a step that either gets the lock or times     *)
(* out: what it excludes is the subject of RootLock.                       *)
(***************************************************************************)
EXTENDS SourceTrace

CONSTANTS
  Sessions,  \* session ids
  MaxTurn,   \* bound: messages per turn
  Hosts      \* the hosts a process may have, see HostsAssumption

\* transcript: the host delivers the transcript, not the turn (OpenCode);
\* durable:    the cursor store is a file (Hermes);
\* reuses:     a session id may get turns after its session ended;
\* torn:       a crash may hit the process in the middle of writeFile;
\* open, close: the message with an unclosed <private>, and the one with an
\*             unopened </private>, 0 for none;
\* sends, failures, crashes: bounds on the messages the host produces per session
\*             id, on lock timeouts and agent failures, and on crashes.
ASSUME HostsAssumption ==
  /\ MaxTurn \in Nat
  /\ Hosts \subseteq [transcript : BOOLEAN, durable : BOOLEAN, reuses : BOOLEAN,
                      torn : BOOLEAN, open : Nat, close : Nat,
                      sends : [Sessions -> Nat], failures : Nat, crashes : Nat]

VARIABLES
  host,      \* the host; never changes
  live,      \* sessions in the table
  messages,  \* state.messages of each live session
  cursor,    \* the cursor store
  trace,     \* lines of each session's JSONL trace
  queue,     \* lifecycle tasks waiting for their turn
  pass,      \* the task that runs
  sent,      \* messages the host has seen per session id
  ended,     \* session ids whose last event from the host was their end
  learned,   \* messages the agent of a successful pass has seen
  skipped,   \* messages that did not fit into the window of a successful pass
  owed,      \* messages that were new to a pass whose agent threw
  failures,
  crashes

vars == <<host, live, messages, cursor, trace, queue, pass, sent, ended, learned,
          skipped, owed, failures, crashes>>

Idle == [phase |-> "idle"]

Turn(s, msgs)  == [op |-> "turn", session |-> s, msgs |-> msgs]
AgentEnd(s)    == [op |-> "agentEnd", session |-> s, msgs |-> <<>>]
SessionEnd(s)  == [op |-> "sessionEnd", session |-> s, msgs |-> <<>>]

Init ==
  /\ host \in Hosts
  /\ live = {}
  /\ messages = [s \in Sessions |-> <<>>]
  /\ cursor = [s \in Sessions |-> NoCursor]
  /\ trace = [s \in Sessions |-> <<>>]
  /\ queue = <<>>
  /\ pass = Idle
  /\ sent = [s \in Sessions |-> 0]
  /\ ended = {}
  /\ learned = [s \in Sessions |-> {}]
  /\ skipped = [s \in Sessions |-> {}]
  /\ owed = [s \in Sessions |-> {}]
  /\ failures = 0
  /\ crashes = 0

(***************************************************************************)
(* The host.                                                               *)
(***************************************************************************)

\* A turn of n messages ends and the host calls onTurnEnd.
HostTurn(s, n) ==
  /\ host.reuses \/ s \notin ended
  /\ sent[s] + n <= host.sends[s]
  /\ sent' = [sent EXCEPT ![s] = @ + n]
  /\ LET transcript == [i \in 1 .. sent[s] + n |-> i]
     IN  queue' = Append(queue, Turn(s, IF host.transcript THEN transcript
                                        ELSE LastN(transcript, n)))
  /\ ended' = ended \ {s}
  /\ UNCHANGED <<host, live, messages, cursor, trace, pass, learned, skipped, owed,
                 failures, crashes>>

\* The session ends and the adapter calls onAgentEnd, then onSessionEnd.
HostEnd(s) ==
  /\ s \notin ended
  /\ sent[s] > 0
  /\ ended' = ended \cup {s}
  /\ queue' = Append(queue, AgentEnd(s))
  /\ UNCHANGED <<host, live, messages, cursor, trace, pass, sent, learned, skipped, owed,
                 failures, crashes>>

(***************************************************************************)
(* The lifecycle queue.                                                    *)
(***************************************************************************)

\* Fault: the turn replaces the messages of the session.
StartExtractionForgets ==
  /\ pass = Idle /\ queue # <<>>
  /\ Head(queue).op \in {"turn", "agentEnd"}
  /\ LET task == Head(queue)
         s    == task.session
     IN  /\ live' = live \cup {s}
         /\ messages' = [messages EXCEPT ![s] = task.msgs]
         /\ pass' = [phase |-> "locking", op |-> task.op, session |-> s]
  /\ queue' = Tail(queue)
  /\ UNCHANGED <<host, cursor, trace, sent, ended, learned, skipped, owed,
                 failures, crashes>>

\* ensureSession, then the messages of the turn: before the lock is asked for.
StartExtraction ==
  /\ pass = Idle /\ queue # <<>>
  /\ Head(queue).op \in {"turn", "agentEnd"}
  /\ LET task == Head(queue)
         s    == task.session
     IN  /\ live' = live \cup {s}
         /\ messages' = [messages EXCEPT ![s] = @ \o task.msgs]
         /\ pass' = [phase |-> "locking", op |-> task.op, session |-> s]
  /\ queue' = Tail(queue)
  /\ UNCHANGED <<host, cursor, trace, sent, ended, learned, skipped, owed,
                 failures, crashes>>

\* onSessionEnd drops the session state; the cursor store keeps its entry.
EndSession ==
  /\ pass = Idle /\ queue # <<>>
  /\ Head(queue).op = "sessionEnd"
  /\ LET s == Head(queue).session
     IN  /\ live' = live \ {s}
         /\ messages' = [messages EXCEPT ![s] = <<>>]
  /\ queue' = Tail(queue)
  /\ UNCHANGED <<host, cursor, trace, pass, sent, ended, learned, skipped, owed,
                 failures, crashes>>

\* Fault: the adapter goes on to onSessionEnd whatever the sweep did.
ReturnAlways(ok) ==
  /\ pass' = Idle
  /\ queue' = IF pass.op = "agentEnd"
              THEN Append(queue, SessionEnd(pass.session)) ELSE queue

\* The task returns.  A final sweep that returns lets the adapter go on to
\* onSessionEnd; one that throws does not.
Return(ok) ==
  /\ pass' = Idle
  /\ queue' = IF ok /\ pass.op = "agentEnd"
              THEN Append(queue, SessionEnd(pass.session)) ELSE queue

(***************************************************************************)
(* The extraction pass: runExtractionSession.                              *)
(***************************************************************************)

Fail == failures < host.failures /\ failures' = failures + 1

LockTimeout ==
  /\ pass.phase = "locking"
  /\ Fail
  /\ Return(FALSE)
  /\ UNCHANGED <<host, live, messages, cursor, trace, sent, ended, learned, skipped,
                 owed, crashes>>

\* redactExistingSourceTraces: the pattern <private>...</private> runs over whole
\* trace files, so a span may begin in one message and end in another; what lies
\* between, line ends included, becomes one redacted line.
Redacted == 0

Redact(lines) ==
  LET spans == {p \in (DOMAIN lines) \X (DOMAIN lines) :
                  p[1] < p[2] /\ lines[p[1]] = host.open /\ lines[p[2]] = host.close}
  IN  IF spans = {} THEN lines
      ELSE LET span == CHOOSE p \in spans : TRUE
           IN  SubSeq(lines, 1, span[1] - 1) \o <<Redacted>>
                 \o SubSeq(lines, span[2] + 1, Len(lines))

RedactedTraces == [s \in Sessions |-> Redact(trace[s])]

\* Under the lock: nothing to extract.
Skip ==
  /\ pass.phase = "locking"
  /\ SelectForExtraction(messages[pass.session], cursor[pass.session]) = <<>>
  /\ trace' = RedactedTraces
  /\ Return(TRUE)
  /\ UNCHANGED <<host, live, messages, cursor, sent, ended, learned, skipped, owed,
                 failures, crashes>>

\* Under the lock: append the trace and hand the window to the agent.
BeginAgent ==
  /\ pass.phase = "locking"
  /\ LET s      == pass.session
         window == SelectForExtraction(messages[s], cursor[s])
         traced == SelectForTrace(messages[s], cursor[s])
     IN  /\ window # <<>>
         /\ trace' = [RedactedTraces EXCEPT ![s] = AppendTrace(@, traced)]
         /\ pass' = [phase |-> "agent", op |-> pass.op, session |-> s,
                     window |-> window, traced |-> traced,
                     ref |-> SourceRef(RedactedTraces[s], traced)]
  /\ UNCHANGED <<host, live, messages, cursor, queue, sent, ended, learned, skipped, owed,
                 failures, crashes>>

\* What a window leaves out of the unprocessed messages: the oldest ones.
Overflow(s) ==
  LET new == Unprocessed(messages[s], cursor[s])
  IN  ToSet(SubSeq(new, 1, Len(new) - MaxMessages))

\* The agent returns: the cursor moves to the end of the session.
AgentReturns ==
  /\ pass.phase = "agent"
  /\ LET s == pass.session
     IN  /\ cursor' = [cursor EXCEPT ![s] = Len(messages[s]) - 1]
         /\ learned' = [learned EXCEPT ![s] = @ \cup ToSet(pass.window)]
         /\ skipped' = [skipped EXCEPT ![s] = @ \cup Overflow(s)]
  /\ Return(TRUE)
  /\ UNCHANGED <<host, live, messages, trace, sent, ended, owed, failures, crashes>>

\* Fault: the cursor moves in the finally.
AgentThrowsAdvancing ==
  /\ pass.phase = "agent"
  /\ Fail
  /\ cursor' = [cursor EXCEPT ![pass.session] = Len(messages[pass.session]) - 1]
  /\ owed' = [owed EXCEPT ![pass.session] = @ \cup ToSet(pass.traced)]
  /\ Return(FALSE)
  /\ UNCHANGED <<host, live, messages, trace, sent, ended, learned, skipped, crashes>>

\* Fault: a rejected task is not followed by the next one.
AgentThrowsStalling ==
  /\ pass.phase = "agent"
  /\ Fail
  /\ owed' = [owed EXCEPT ![pass.session] = @ \cup ToSet(pass.traced)]
  /\ pass' = [phase |-> "rejected"]
  /\ UNCHANGED <<host, live, messages, cursor, queue, trace, sent, ended, learned,
                 skipped, crashes>>

\* The agent throws: the lock is released and nothing else happens.
AgentThrows ==
  /\ pass.phase = "agent"
  /\ Fail
  /\ owed' = [owed EXCEPT ![pass.session] = @ \cup ToSet(pass.traced)]
  /\ Return(FALSE)
  /\ UNCHANGED <<host, live, messages, cursor, trace, sent, ended, learned, skipped,
                 crashes>>

\* The process dies and is started again.
Restart ==
  /\ crashes < host.crashes
  /\ crashes' = crashes + 1
  /\ live' = {}
  /\ messages' = [s \in Sessions |-> <<>>]
  /\ cursor' = IF host.durable THEN cursor ELSE [s \in Sessions |-> NoCursor]
  /\ queue' = <<>>
  /\ pass' = Idle
  /\ UNCHANGED <<host, sent, ended, learned, skipped, failures>>
  /\ owed' = [s \in Sessions |-> {}]

Crash == Restart /\ UNCHANGED trace

\* The process dies while writeFile rewrites the trace of the running pass: some
\* of the lines of the new content are on disk.
CrashInTraceWrite ==
  /\ host.torn
  /\ pass.phase = "locking"
  /\ LET s   == pass.session
         new == SelectForTrace(messages[s], cursor[s])
     IN  /\ NewLines(RedactedTraces[s], new) # <<>>
         /\ \E n \in 0 .. Len(AppendTrace(RedactedTraces[s], new)) :
              trace' = [RedactedTraces EXCEPT ![s] = SubSeq(AppendTrace(@, new), 1, n)]
  /\ Restart

Task ==
  \/ StartExtraction
  \/ EndSession
  \/ LockTimeout
  \/ Skip
  \/ BeginAgent
  \/ AgentReturns
  \/ AgentThrows

Next ==
  \/ \E s \in Sessions : HostEnd(s) \/ \E n \in 1 .. MaxTurn : HostTurn(s, n)
  \/ Task
  \/ Crash
  \/ CrashInTraceWrite

Spec == Init /\ [][Next]_vars

\* A queued task runs and its lock request and agent call return or throw (both
\* are bounded: the lock by its retries, the agent by its maximum of steps).
\* The host owes nothing.
Fairness == WF_vars(Task)

LiveSpec == Spec /\ Fairness

------------------------------------------------------------------------------
(***************************************************************************)
(* Properties.                                                             *)
(***************************************************************************)

Phases == {"idle", "locking", "agent"}

TypeOK ==
  /\ host \in Hosts
  /\ live \subseteq Sessions
  /\ messages \in [Sessions -> Seq(Nat)]
  /\ cursor \in [Sessions -> Int]
  /\ trace \in [Sessions -> Seq(Nat)]
  /\ queue \in Seq([op : {"turn", "agentEnd", "sessionEnd"}, session : Sessions,
                    msgs : Seq(Nat)])
  /\ pass.phase \in Phases
  /\ pass # Idle => pass.session \in live
  /\ \A s \in Sessions \ live : messages[s] = <<>>
  /\ \A s \in Sessions : sent[s] \in 0 .. host.sends[s]
  /\ ended \subseteq Sessions
  /\ learned \in [Sessions -> SUBSET Nat]
  /\ skipped \in [Sessions -> SUBSET Nat]
  /\ owed \in [Sessions -> SUBSET Nat]
  /\ failures \in 0 .. host.failures
  /\ crashes \in 0 .. host.crashes

\* What the properties have to assume of the host.  The cursor store forgets its
\* sessions with the session table; no write of a trace was cut short; no span of
\* private text runs over several messages.
CursorDiesWithArray == ~host.reuses /\ (host.durable => crashes = 0)
Untorn == host.torn => crashes = 0
SpansAreClosed == 0 \in {host.open, host.close}

\* extract.ts:295: the cursor is the index of the last processed message.  A message
\* that it has passed, and that no later pass will show to the agent as new, was
\* seen by the agent of a pass that succeeded, or there were too many for its window.
CursorIsProcessed ==
  \A s \in Sessions : ~FirstRun(messages[s], cursor[s]) =>
    \A i \in 1 .. cursor[s] + 1 : messages[s][i] \in learned[s] \cup skipped[s]

\* Extraction delivers at least once across lock timeouts, agent failures, replays
\* and restarts.
BehindCursorIsLearned == TypeOK /\ (CursorDiesWithArray => CursorIsProcessed)

\* adaptSdkMemFlywheel.onSessionEnd: the session is dropped only when the final
\* sweep has left nothing behind.
DropOnlyLearned ==
  [][\A s \in live \ live' : CursorDiesWithArray /\ crashes' = crashes =>
       ToSet(messages[s]) \subseteq learned[s] \cup skipped[s]]_vars

\* Every message an agent has learned from is a line of the session's trace.
TraceCoversLearned ==
  CursorDiesWithArray /\ Untorn /\ SpansAreClosed =>
    \A s \in Sessions : learned[s] \subseteq ToSet(trace[s])

\* The trace holds the messages once each and in the order of the session,
\* whatever is retried, replayed or restarted - but not retried and replayed, nor
\* replayed to a cursor that has outlived the messages it counts.
TraceInOrder ==
  SpansAreClosed /\ (host.transcript => failures = 0 /\ CursorDiesWithArray) =>
    \A s \in Sessions : \A i, j \in DOMAIN trace[s] : i < j => trace[s][i] < trace[s][j]

\* The lines a pass cites hold the messages the pass processes, also where a crash
\* has cut the trace short or a redaction has joined lines.  (Where messages are
\* delivered or tried again, a pass cites the lines it adds and not those it finds.)
RefCoversPass ==
  pass.phase = "agent" /\ ~host.transcript /\ failures = 0 =>
    ToSet(pass.traced) \subseteq ToSet(Cited(trace[pass.session], pass.ref))

\* extract.ts:455-481: the evidence for what was learned can be read where the memories
\* say it is, across retries, replays, redactions and crashes in a write.
TraceIsEvidence == TraceCoversLearned /\ TraceInOrder /\ RefCoversPass

\* A pass whose agent throws is retried: the next time the agent returns for the session,
\* it has seen all that was new to the failed pass, but for what no longer fits into one
\* window.
FailedWindowIsRetried ==
  [][\A s \in Sessions :
       CursorDiesWithArray /\ learned'[s] # learned[s] =>
         owed[s] \subseteq learned'[s] \cup skipped'[s]]_vars

\* The lifecycle queue never stalls: every task gets its turn, whatever fails.
QueueDrains == queue # <<>> ~> (queue = <<>> /\ pass = Idle)
==============================================================================
