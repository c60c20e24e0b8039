----------------------------- MODULE WorkerBridge -----------------------------
(***************************************************************************)
(* The bridge between the Hermes provider and its worker process:          *)
(* _MemFlywheelBridge of packages/memflywheel/provider/__init__.py and     *)
(* packages/memflywheel/bridge/worker.mjs.                                 *)
(*                                                                         *)
(* The provider writes a command to the worker's stdin and reads lines     *)
(* from its stdout until the answer comes; on the way it serves the        *)
(* worker's requests to the model.  It waits with select() on the pipe and *)
(* reads with readline() of a text stream, which may take more from the    *)
(* pipe than the line it returns: what it took is in a buffer that         *)
(* select() does not see.  The worker answers as soon as it can, whatever  *)
(* the provider reads, and starts every command it is sent at once.        *)
(***************************************************************************)
EXTENDS Integers, Sequences, FiniteSets

CONSTANTS
  Callers,      \* threads of the host that call the provider
  MaxCommands,  \* bound: commands
  MaxAsks,      \* bound: model requests of a command
  MaxDeaths,    \* bound: crashes of the worker and calls of shutdown()
  MaxGarbage    \* bound: lines that the other side cannot parse

ASSUME BridgeAssumption ==
  /\ MaxCommands \in Nat /\ MaxAsks \in Nat /\ MaxDeaths \in Nat /\ MaxGarbage \in Nat

VARIABLES
  known,     \* self._proc is not None
  alive,     \* the worker that was started last runs
  in,        \* its stdin
  out,       \* its stdout
  buffer,    \* lines that readline() has taken from out and not returned
  jobs,      \* runCommand calls of the worker
  pc,        \* of each caller: "idle", "locking", "reading" or "model"
  command,   \* the id of its command
  serving,   \* the command whose model request it serves
  nextId,    \* self._next_id
  left,      \* commands of this worker whose request has raised while it runs on
  answered,  \* history: the command whose result the request of a command returned
  deaths,
  garbage

workerVars == <<alive, in, out, jobs>>
providerVars == <<known, buffer, pc, command, serving, nextId>>
vars == <<workerVars, providerVars, left, answered, deaths, garbage>>

Ids == 1 .. MaxCommands

Command(i, fine)   == [kind |-> "command", id |-> i, fine |-> fine]
Response(i, fine)  == [kind |-> "response", id |-> i, fine |-> fine]
ModelRequest(i)    == [kind |-> "ask", id |-> i]
Answer(i)          == [kind |-> "answer", id |-> i]
Garbage            == [kind |-> "garbage", id |-> 0]

InRequest(c) == pc[c] \in {"reading", "model"}

Init ==
  /\ known = FALSE /\ alive = FALSE
  /\ in = <<>> /\ out = <<>> /\ buffer = <<>>
  /\ jobs = {}
  /\ pc = [c \in Callers |-> "idle"]
  /\ command = [c \in Callers |-> 0]
  /\ serving = [c \in Callers |-> 0]
  /\ nextId = 1
  /\ left = {}
  /\ answered = [i \in Ids |-> 0]
  /\ deaths = 0
  /\ garbage = 0

\* A line is read as it was written, or the reader cannot parse it.
Parses(fine) ==
  /\ fine \/ garbage < MaxGarbage
  /\ garbage' = IF fine THEN garbage ELSE garbage + 1

(***************************************************************************)
(* The provider.                                                           *)
(***************************************************************************)

Call(c) ==
  /\ pc[c] = "idle" /\ nextId + Cardinality({d \in Callers : pc[d] = "locking"}) <= MaxCommands
  /\ pc' = [pc EXCEPT ![c] = "locking"]
  /\ UNCHANGED <<workerVars, known, buffer, command, serving, nextId, left, answered,
                 deaths, garbage>>

\* The lock is free: _ensure_process, and the command is written.
Begin(c) ==
  /\ pc[c] = "locking" /\ \A d \in Callers : ~InRequest(d)
  /\ pc' = [pc EXCEPT ![c] = "reading"]
  /\ command' = [command EXCEPT ![c] = nextId]
  /\ nextId' = nextId + 1
  /\ known' = TRUE /\ alive' = TRUE
  /\ \E fine \in BOOLEAN :
       /\ Parses(fine)
       /\ IF known /\ alive
          THEN in' = Append(in, Command(nextId, fine)) /\ UNCHANGED <<out, buffer, jobs, left>>
          ELSE /\ in' = <<Command(nextId, fine)>>
               /\ out' = <<>> /\ buffer' = <<>> /\ jobs' = {} /\ left' = {}
  /\ UNCHANGED <<serving, answered, deaths>>

Line == Head(buffer \o out)

\* select() finds the pipe readable, or at its end, and readline() returns a line: from
\* the buffer, or with all or some of the lines after it from the pipe.
ReadLine(c) ==
  /\ pc[c] = "reading"
  /\ out # <<>> \/ ~alive
  /\ buffer \o out # <<>>
  /\ IF buffer # <<>>
     THEN buffer' = Tail(buffer) /\ UNCHANGED out
     ELSE \E n \in 1 .. Len(out) :
            buffer' = SubSeq(out, 2, n) /\ out' = SubSeq(out, n + 1, Len(out))

\* _handle_model_request: the model is called.
AskModel(c) ==
  /\ ReadLine(c) /\ Line.kind = "ask"
  /\ pc' = [pc EXCEPT ![c] = "model"]
  /\ serving' = [serving EXCEPT ![c] = Line.id]
  /\ UNCHANGED <<alive, in, jobs, known, command, nextId, left, answered, deaths, garbage>>

\* Its result, or its error, is written.
Respond(c) ==
  /\ pc[c] = "model" /\ alive
  /\ \E fine \in BOOLEAN : Parses(fine) /\ in' = Append(in, Response(serving[c], fine))
  /\ pc' = [pc EXCEPT ![c] = "reading"]
  /\ UNCHANGED <<alive, out, jobs, known, buffer, command, serving, nextId, left, answered,
                 deaths>>

\* Fault: any answer will do.
IsAnyAnswer(line, i) == line.kind = "answer"

IsAnswer(line, i) == line.kind = "answer" /\ line.id = i

\* The answer to its own command, a result or an error, ends the request.
Return(c) ==
  /\ ReadLine(c) /\ IsAnswer(Line, command[c])
  /\ answered' = [answered EXCEPT ![command[c]] = Line.id]
  /\ pc' = [pc EXCEPT ![c] = "idle"]
  /\ UNCHANGED <<alive, in, jobs, known, command, serving, nextId, left, deaths, garbage>>

\* An answer to another command is dropped.
Ignore(c) ==
  /\ ReadLine(c) /\ Line.kind = "answer" /\ ~IsAnswer(Line, command[c])
  /\ UNCHANGED <<alive, in, jobs, known, pc, command, serving, nextId, left, answered, deaths,
                 garbage>>

\* A line that is not JSON, or protocol_error: the request raises, the worker goes on.
GiveUp(c) ==
  /\ ReadLine(c) /\ Line.kind = "garbage"
  /\ left' = left \cup {command[c]}
  /\ pc' = [pc EXCEPT ![c] = "idle"]
  /\ UNCHANGED <<alive, in, jobs, known, command, serving, nextId, answered, deaths, garbage>>

\* The end of the pipe, or a write to a worker that is gone, makes the request raise.
WorkerGone(c) ==
  /\ InRequest(c) /\ ~alive
  /\ pc[c] = "reading" => buffer \o out = <<>>
  /\ pc' = [pc EXCEPT ![c] = "idle"]
  /\ UNCHANGED <<workerVars, known, buffer, command, serving, nextId, left, answered, deaths,
                 garbage>>

\* The worker ends with all it runs; what it has written can still be read.
Ends == alive' = FALSE /\ in' = <<>> /\ jobs' = {} /\ UNCHANGED out

\* Fault: a request that has timed out leaves the worker alone.
TimeOutOpen(c) ==
  /\ pc[c] = "reading"
  /\ pc' = [pc EXCEPT ![c] = "idle"]
  /\ UNCHANGED <<workerVars, known, buffer, command, serving, nextId, left, answered, deaths,
                 garbage>>

\* The deadline has passed: close() terminates the worker and the request raises.
TimeOut(c) ==
  /\ pc[c] = "reading"
  /\ known' = FALSE /\ Ends
  /\ pc' = [pc EXCEPT ![c] = "idle"]
  /\ UNCHANGED <<buffer, command, serving, nextId, left, answered, deaths, garbage>>

\* shutdown() closes without the lock, while a request may be on its way.
Shutdown ==
  /\ known /\ deaths < MaxDeaths
  /\ deaths' = deaths + 1
  /\ known' = FALSE /\ Ends
  /\ UNCHANGED <<buffer, pc, command, serving, nextId, left, answered, garbage>>

(***************************************************************************)
(* The worker.                                                             *)
(***************************************************************************)

\* A command starts, or a model response resumes the command that waits for it.
TakeLine ==
  /\ alive /\ in # <<>> /\ Head(in).fine
  /\ in' = Tail(in)
  /\ LET i == Head(in).id
     IN  jobs' = IF Head(in).kind = "command"
                 THEN jobs \cup {[id |-> i, pc |-> "runs", asks |-> 0]}
                 ELSE {IF j.id = i THEN [j EXCEPT !.pc = "runs"] ELSE j : j \in jobs}
  /\ UNCHANGED <<alive, out, providerVars, left, answered, deaths, garbage>>

\* Every piece of a line that does not parse is a protocol_error of its own.
RejectLine ==
  /\ alive /\ in # <<>> /\ ~Head(in).fine
  /\ in' = Tail(in)
  /\ \E pieces \in {<<Garbage>>, <<Garbage, Garbage>>} : out' = out \o pieces
  /\ UNCHANGED <<alive, jobs, providerVars, left, answered, deaths, garbage>>

\* Fault: a command does not wait for the model before it asks again.
JobAsksAhead(j) ==
  /\ j.asks < MaxAsks
  /\ out' = Append(out, ModelRequest(j.id))
  /\ jobs' = (jobs \ {j}) \cup {[j EXCEPT !.asks = @ + 1]}
  /\ UNCHANGED <<alive, in, providerVars, left, answered, deaths, garbage>>

\* complete(): the command asks the model and waits.
JobAsks(j) ==
  /\ j.pc = "runs" /\ j.asks < MaxAsks
  /\ out' = Append(out, ModelRequest(j.id))
  /\ jobs' = (jobs \ {j}) \cup {[j EXCEPT !.pc = "asks", !.asks = @ + 1]}
  /\ UNCHANGED <<alive, in, providerVars, left, answered, deaths, garbage>>

\* handleCommand: the command returns or throws, and is answered.
JobEnds(j) ==
  /\ j.pc = "runs"
  /\ out' = Append(out, Answer(j.id))
  /\ jobs' = jobs \ {j}
  /\ UNCHANGED <<alive, in, providerVars, left, answered, deaths, garbage>>

\* A command prints something that is no message.
JobPrints ==
  /\ jobs # {} /\ garbage < MaxGarbage
  /\ garbage' = garbage + 1
  /\ out' = Append(out, Garbage)
  /\ UNCHANGED <<alive, in, jobs, providerVars, left, answered, deaths>>

Crash ==
  /\ alive /\ deaths < MaxDeaths
  /\ deaths' = deaths + 1
  /\ Ends
  /\ UNCHANGED <<providerVars, left, answered, garbage>>

\* All commands are used up.
Finished ==
  /\ nextId > MaxCommands /\ \A c \in Callers : pc[c] = "idle"
  /\ UNCHANGED vars

Next ==
  \/ \E c \in Callers : Call(c)
  \/ \E c \in Callers : Begin(c)
  \/ \E c \in Callers : AskModel(c)
  \/ \E c \in Callers : Respond(c)
  \/ \E c \in Callers : Return(c)
  \/ \E c \in Callers : Ignore(c)
  \/ \E c \in Callers : GiveUp(c)
  \/ \E c \in Callers : WorkerGone(c)
  \/ \E c \in Callers : TimeOut(c)
  \/ Shutdown
  \/ TakeLine
  \/ RejectLine
  \/ \E j \in jobs : JobAsks(j)
  \/ \E j \in jobs : JobEnds(j)
  \/ JobPrints
  \/ Crash
  \/ Finished

Spec == Init /\ [][Next]_vars

(***************************************************************************)
(* Properties.                                                             *)
(***************************************************************************)

InType   == [kind : {"command", "response"}, id : Ids, fine : BOOLEAN]
LineType == [kind : {"ask", "answer"}, id : Ids] \cup {Garbage}
JobType  == [id : Ids, pc : {"runs", "asks"}, asks : 0 .. MaxAsks]

\* The type invariant; a worker that is gone runs nothing.
TypeOK ==
  /\ known \in BOOLEAN /\ alive \in BOOLEAN
  /\ in \in Seq(InType)
  /\ out \in Seq(LineType) /\ buffer \in Seq(LineType)
  /\ jobs \subseteq JobType
  /\ pc \in [Callers -> {"idle", "locking", "reading", "model"}]
  /\ command \in [Callers -> 0 .. MaxCommands]
  /\ serving \in [Callers -> 0 .. MaxCommands]
  /\ nextId \in 1 .. MaxCommands + 1
  /\ left \subseteq Ids
  /\ answered \in [Ids -> 0 .. MaxCommands]
  /\ deaths \in 0 .. MaxDeaths /\ garbage \in 0 .. MaxGarbage
  /\ ~alive => jobs = {} /\ in = <<>>

\* A request that returns has the result of its own command, whatever earlier requests
\* have left in the pipe: ids are never used again, not even for a new worker.
AnswerIsOwn == \A i \in Ids : answered[i] \in {0, i}

\* The worker runs nothing but the command of the request in progress, and commands
\* whose request has raised over a line it could not parse.  Nothing of a command that
\* has timed out goes on, nor of one that has returned.
NothingRunsOn ==
  /\ TypeOK
  /\ \A j \in jobs : j.id \in left \/ \E c \in Callers : InRequest(c) /\ command[c] = j.id

\* A request does not wait in select() for an answer or a model request that readline()
\* has taken already: unless a command was left running, the worker writes one of them
\* at a time.
NothingLeftInBuffer ==
  \A c \in Callers : pc[c] = "reading" /\ alive /\ out = <<>> /\ left = {} =>
    \A n \in DOMAIN buffer : buffer[n] = Garbage

\* Where commands are: with the request in progress, on their way to the worker, in the
\* worker, and on their way back as answers.
Open       == {command[c] : c \in {d \in Callers : InRequest(d)}}
Untaken(i) == \E n \in 1 .. Len(in) : in[n].kind = "command" /\ in[n].id = i
Waiting    == {i \in Ids : Untaken(i)}
Running    == {j.id : j \in jobs}
Written    == {buffer[n] : n \in 1 .. Len(buffer)} \cup {out[n] : n \in 1 .. Len(out)}
Ended      == {i \in Ids : Answer(i) \in Written}
Returned   == {i \in Ids : answered[i] # 0}

Abstract == INSTANCE Requests WITH
  sent <- nextId - 1, open <- Open, waiting <- Waiting, running <- Running,
  ended <- Ended, returned <- Returned

\* Over pipes that hold lines of several commands, two buffers, time limits and deaths,
\* the bridge is a remote call that runs at most once and returns only if it ran to its
\* end; what it returns is then its own result (AnswerIsOwn), which leaves the pipe (request of provider/__init__.py, handleCommand of worker.mjs).
ImplementsRequests == Abstract!Spec
==============================================================================
