-------------------------- MODULE WorkerBridgeProofs --------------------------
(***************************************************************************)
(* Theorems about WorkerBridge for any number of callers, commands, model  *)
(* requests, crashes and garbled lines: a request returns the result of    *)
(* its own command, nothing runs on but the command in progress and those  *)
(* whose request has raised, and select() misses no line.                  *)
(***************************************************************************)
EXTENDS WorkerBridge, FiniteSetTheorems, TLAPS

(***************************************************************************)
(* The invariant.                                                          *)
(***************************************************************************)

Locking == {c \in Callers : pc[c] = "locking"}

\* Ids do not run out: a caller waits for the lock only if there is one for it.
TypeInv ==
  /\ TypeOK
  /\ IsFiniteSet(Locking) /\ nextId + Cardinality(Locking) <= MaxCommands + 1
  /\ \A c \in Callers :
       /\ InRequest(c) => command[c] \in Ids
       /\ pc[c] = "model" => serving[c] \in Ids

Owned(i) == i \in left \/ \E c \in Callers : InRequest(c) /\ command[c] = i

\* A command is in one place at a time: on its way, running, or answered.  It
\* belongs to the one request in progress or to one that has raised.
CommandInv ==
  /\ \A c, d \in Callers : InRequest(c) /\ InRequest(d) => c = d
  /\ \A c \in Callers : command[c] < nextId
  /\ \A m, n \in 1 .. Len(in) :
       in[m].kind = "command" /\ in[n].kind = "command" /\ in[m].id = in[n].id => m = n
  /\ \A i \in Ids : Untaken(i) =>
       i < nextId /\ Owned(i) /\ (\A j \in jobs : j.id # i) /\ Answer(i) \notin Written
  /\ \A j \in jobs : j.id < nextId /\ Owned(j.id) /\ Answer(j.id) \notin Written
  /\ \A j, k \in jobs : j.id = k.id => j = k
  /\ \A i \in Ids : Answer(i) \in Written => i < nextId

\* Unless a request has raised over a line, one thing happens at a time between the
\* provider and a living worker: a line is on its way in, a command runs, a line is on
\* its way out, or the model is asked; and none of them outside a request.
Runs(j) == j.pc = "runs"

PipeInv ==
  alive /\ left = {} =>
    /\ \A n \in 1 .. Len(buffer) : buffer[n] = Garbage
    /\ \A m, n \in 1 .. Len(out) : out[m] # Garbage /\ out[n] # Garbage => m = n
    /\ Len(in) <= 1
    /\ in # <<>> => \A j \in jobs : ~Runs(j)
    /\ (in # <<>> \/ \E j \in jobs : Runs(j)) => \A n \in 1 .. Len(out) : out[n] = Garbage
    /\ (\E c \in Callers : pc[c] = "model") =>
         /\ in = <<>> /\ \A j \in jobs : ~Runs(j)
         /\ \A n \in 1 .. Len(out) : out[n] = Garbage
    /\ (\A c \in Callers : ~InRequest(c)) =>
         in = <<>> /\ jobs = {} /\ \A n \in 1 .. Len(out) : out[n] = Garbage

Inv == TypeInv /\ CommandInv /\ PipeInv

(***************************************************************************)
(* Types.                                                                  *)
(***************************************************************************)

LEMMA ShortSequences ==
  ASSUME NEW S
  PROVE  <<>> \in Seq(S) /\ \A x \in S : <<x>> \in Seq(S) /\ <<x, x>> \in Seq(S)
OBVIOUS

LEMMA LineFacts ==
  /\ Garbage \in LineType
  /\ \A i \in Ids : /\ ModelRequest(i) \in LineType /\ Answer(i) \in LineType
                    /\ ModelRequest(i) # Garbage /\ Answer(i) # Garbage
                    /\ \A k \in Ids : Answer(i) # ModelRequest(k) /\ (Answer(i) = Answer(k) => i = k)
  /\ \A line \in LineType : /\ line.kind = "garbage" <=> line = Garbage
                            /\ line.kind = "answer" => line.id \in Ids /\ line = Answer(line.id)
                            /\ line.kind = "ask" => line.id \in Ids
<1>1. Garbage.kind = "garbage"
  BY DEF Garbage
<1>2. \A i \in Ids : ModelRequest(i).kind = "ask" /\ Answer(i).kind = "answer" /\ Answer(i).id = i
  BY DEF ModelRequest, Answer
<1>3. \A i \in Ids : ModelRequest(i) \in LineType /\ Answer(i) \in LineType
  BY DEF ModelRequest, Answer, LineType
<1>4. \A line \in LineType : line # Garbage =>
        /\ line.kind \in {"ask", "answer"} /\ line.id \in Ids
        /\ line.kind = "answer" => line = Answer(line.id)
  BY DEF LineType, Answer
<1> QED
  BY <1>1, <1>2, <1>3, <1>4 DEF LineType

\* readline() takes one line, and the lines after it stay in order.
LEMMA LineRead ==
  ASSUME TypeOK, NEW c \in Callers, ReadLine(c)
  PROVE  /\ Line \in LineType /\ Line \in Written
         /\ buffer' \in Seq(LineType) /\ out' \in Seq(LineType)
         /\ Written' \subseteq Written
         /\ \/ /\ buffer # <<>> /\ Line = buffer[1] /\ out' = out
               /\ \A n \in 1 .. Len(buffer') : n + 1 \in 1 .. Len(buffer) /\ buffer'[n] = buffer[n + 1]
            \/ /\ buffer = <<>> /\ out # <<>> /\ Line = out[1]
               /\ \A n \in 1 .. Len(buffer') : n + 1 \in 1 .. Len(out) /\ buffer'[n] = out[n + 1]
               /\ \E k \in 1 .. Len(out) : \A n \in 1 .. Len(out') :
                    n + k \in 1 .. Len(out) /\ out'[n] = out[n + k]
<1>1. buffer \in Seq(LineType) /\ out \in Seq(LineType)
  BY DEF TypeOK
<1>2. CASE buffer # <<>>
  <2>1. buffer' = Tail(buffer) /\ out' = out
    BY <1>2 DEF ReadLine
  <2>2. Line = buffer[1] /\ 1 \in 1 .. Len(buffer) /\ buffer[1] \in LineType
    BY <1>1, <1>2 DEF Line
  <2>3. /\ buffer' \in Seq(LineType)
        /\ \A n \in 1 .. Len(buffer') : n + 1 \in 1 .. Len(buffer) /\ buffer'[n] = buffer[n + 1]
    BY <1>1, <1>2, <2>1
  <2> QED
    BY <1>1, <1>2, <2>1, <2>2, <2>3 DEF Written
<1>3. CASE buffer = <<>>
  <2>1. out # <<>>
    BY <1>1, <1>3 DEF ReadLine
  <2>2. PICK k \in 1 .. Len(out) : buffer' = SubSeq(out, 2, k) /\ out' = SubSeq(out, k + 1, Len(out))
    BY <1>3 DEF ReadLine
  <2>3. Line = out[1] /\ 1 \in 1 .. Len(out) /\ out[1] \in LineType
    BY <1>1, <1>3, <2>1 DEF Line
  <2>4. /\ buffer' \in Seq(LineType)
        /\ \A n \in 1 .. Len(buffer') : n + 1 \in 1 .. Len(out) /\ buffer'[n] = out[n + 1]
    BY <1>1, <2>2
  <2>5. /\ out' \in Seq(LineType)
        /\ \A n \in 1 .. Len(out') : n + k \in 1 .. Len(out) /\ out'[n] = out[n + k]
    BY <1>1, <2>2
  <2>6. ASSUME NEW line \in Written' PROVE line \in Written
    <3>1. CASE \E n \in 1 .. Len(buffer') : line = buffer'[n]
      BY <3>1, <2>4 DEF Written
    <3>2. CASE \E n \in 1 .. Len(out') : line = out'[n]
      BY <3>2, <2>5 DEF Written
    <3> QED
      BY <2>6, <3>1, <3>2 DEF Written
  <2>7. Line \in Written
    BY <2>3 DEF Written
  <2> QED
    BY <1>3, <2>1, <2>3, <2>4, <2>5, <2>6, <2>7
<1> QED
  BY <1>2, <1>3

\* The worker writes a line.
LEMMA LineWritten ==
  ASSUME TypeOK, NEW line \in LineType, out' = Append(out, line), buffer' = buffer
  PROVE  /\ out' \in Seq(LineType) /\ Written' = Written \cup {line}
         /\ \A n \in 1 .. Len(out') :
              (n \in 1 .. Len(out) /\ out'[n] = out[n]) \/ (n = Len(out) + 1 /\ out'[n] = line)
<1>1. buffer \in Seq(LineType) /\ out \in Seq(LineType)
  BY DEF TypeOK
<1>2. /\ out' \in Seq(LineType) /\ Len(out') = Len(out) + 1 /\ Len(out) \in Nat
      /\ \A n \in 1 .. Len(out) : out'[n] = out[n]
      /\ out'[Len(out) + 1] = line
  BY <1>1
<1>3. \A n \in 1 .. Len(out') :
        (n \in 1 .. Len(out) /\ out'[n] = out[n]) \/ (n = Len(out) + 1 /\ out'[n] = line)
  BY <1>2
<1>4. Written' = Written \cup {line}
  BY <1>2, <1>3 DEF Written
<1> QED
  BY <1>2, <1>3, <1>4

\* Waiting for the lock takes an id, getting it uses one up.
FreeIds == IsFiniteSet(Locking) /\ nextId + Cardinality(Locking) <= MaxCommands + 1

LEMMA FreeIdsKept ==
  ASSUME FreeIds, nextId' = nextId, Locking' = Locking
  PROVE  FreeIds'
BY DEF FreeIds

LEMMA TypeInit == Init => TypeInv
<1> SUFFICES ASSUME Init PROVE TypeInv
  OBVIOUS
<1>1. in \in Seq(InType) /\ out \in Seq(LineType) /\ buffer \in Seq(LineType)
  BY ShortSequences DEF Init
<1>2. nextId \in 1 .. MaxCommands + 1 /\ deaths \in 0 .. MaxDeaths /\ garbage \in 0 .. MaxGarbage
  BY BridgeAssumption DEF Init
<1>6. /\ pc \in [Callers -> {"idle", "locking", "reading", "model"}]
      /\ command \in [Callers -> 0 .. MaxCommands] /\ serving \in [Callers -> 0 .. MaxCommands]
      /\ answered \in [Ids -> 0 .. MaxCommands]
  BY BridgeAssumption DEF Init
<1>4. TypeOK
  BY <1>1, <1>2, <1>6 DEF Init, TypeOK
<1>5. Locking = {}
  BY DEF Init, Locking
<1>3. IsFiniteSet(Locking) /\ Cardinality(Locking) = 0
  BY <1>5, FS_EmptySet
<1> QED
  BY <1>3, <1>4, BridgeAssumption DEF Init, TypeInv, InRequest

LEMMA TypeStep == TypeInv /\ [Next]_vars => TypeInv'
<1> SUFFICES ASSUME TypeInv, [Next]_vars PROVE TypeInv'
  OBVIOUS
<1> USE BridgeAssumption DEF TypeInv
<1>0. /\ in \in Seq(InType) /\ out \in Seq(LineType) /\ buffer \in Seq(LineType)
      /\ nextId \in Nat /\ Ids \subseteq Nat
  BY DEF TypeOK, Ids
\* What no step but Call and Begin disturbs.
<1>1. ASSUME nextId' = nextId, Locking' = Locking
      PROVE  IsFiniteSet(Locking)' /\ (nextId + Cardinality(Locking) <= MaxCommands + 1)'
  BY <1>1, FreeIdsKept DEF FreeIds
<1>2. ASSUME NEW c \in Callers, Call(c) PROVE TypeInv'
  <2>1. Locking' = Locking \cup {c} /\ c \notin Locking
    BY <1>2 DEF Call, Locking, TypeOK
  <2>2. IsFiniteSet(Locking') /\ Cardinality(Locking') = Cardinality(Locking) + 1
    BY <2>1, FS_AddElement
  <2>3. nextId + Cardinality(Locking) <= MaxCommands /\ Cardinality(Locking) \in Nat
    BY <1>2, FS_CardinalityType DEF Call, Locking
  <2>4. nextId' + Cardinality(Locking') <= MaxCommands + 1
    BY <1>0, <1>2, <2>2, <2>3 DEF Call
  <2>5. TypeOK'
    BY <1>2 DEF Call, TypeOK, workerVars
  <2> QED
    BY <1>2, <2>2, <2>4, <2>5 DEF Call, InRequest, TypeOK
<1>3. ASSUME NEW c \in Callers, Begin(c) PROVE TypeInv'
  <2>1. Locking' = Locking \ {c} /\ c \in Locking
    BY <1>3 DEF Begin, Locking, TypeOK
  <2>2. IsFiniteSet(Locking') /\ Cardinality(Locking') = Cardinality(Locking) - 1
    BY <2>1, FS_RemoveElement
  <2>3. Cardinality(Locking') \in Nat /\ Cardinality(Locking) \in Nat
    BY <2>2, FS_CardinalityType
  <2>4. nextId \in Ids /\ nextId' \in 1 .. MaxCommands + 1 /\ nextId' + Cardinality(Locking') <= MaxCommands + 1
    BY <1>0, <1>3, <2>2, <2>3 DEF Begin, Ids, TypeOK
  <2>5. PICK fine \in BOOLEAN :
          /\ Parses(fine)
          /\ IF known /\ alive
             THEN in' = Append(in, Command(nextId, fine)) /\ UNCHANGED <<out, buffer, jobs, left>>
             ELSE /\ in' = <<Command(nextId, fine)>>
                  /\ out' = <<>> /\ buffer' = <<>> /\ jobs' = {} /\ left' = {}
    BY <1>3 DEF Begin
  <2>6. Command(nextId, fine) \in InType
    BY <2>4 DEF Command, InType
  <2>7. in' \in Seq(InType) /\ out' \in Seq(LineType) /\ buffer' \in Seq(LineType)
    <3>1. CASE known /\ alive
      <4>1. in' = Append(in, Command(nextId, fine)) /\ out' = out /\ buffer' = buffer
        BY <2>5, <3>1
      <4>2. in \in Seq(InType) /\ out \in Seq(LineType) /\ buffer \in Seq(LineType)
        BY <1>0 DEF TypeOK
      <4> QED
        BY <2>6, <4>1, <4>2
    <3>2. CASE ~(known /\ alive)
      <4>1. <<Command(nextId, fine)>> \in Seq(InType) /\ <<>> \in Seq(LineType)
        BY <2>6, ShortSequences
      <4> QED
        BY <2>5, <3>2, <4>1
    <3> QED
      BY <3>1, <3>2
  <2>8. garbage' \in 0 .. MaxGarbage
    BY <2>5 DEF Parses, TypeOK
  <2>9. jobs' \subseteq JobType /\ left' \subseteq Ids
    BY <2>5 DEF TypeOK
  <2>10. command' \in [Callers -> 0 .. MaxCommands]
    BY <1>3, <2>4 DEF Begin, TypeOK, Ids
  <2>11. TypeOK'
    BY <1>3, <2>4, <2>7, <2>8, <2>9, <2>10 DEF Begin, TypeOK
  <2> QED
    BY <1>3, <2>2, <2>4, <2>11 DEF Begin, InRequest, TypeOK
\* A request that reads a line.
<1>4. ASSUME NEW c \in Callers, ReadLine(c) PROVE out' \in Seq(LineType) /\ buffer' \in Seq(LineType)
  BY <1>4, LineRead
<1>5. ASSUME NEW c \in Callers, AskModel(c) PROVE TypeInv'
  <2>1. Line \in LineType /\ Line.id \in Ids
    BY <1>5, LineRead, LineFacts DEF AskModel
  <2>2. TypeOK'
    BY SMTT(30), <1>4, <1>5, <2>1 DEF AskModel, TypeOK, Ids
  <2>3. Locking' = Locking
    BY <1>5 DEF AskModel, ReadLine, Locking, TypeOK
  <2> QED
    BY <1>1, <1>5, <2>1, <2>2, <2>3 DEF AskModel, ReadLine, InRequest, TypeOK
<1>6. ASSUME NEW c \in Callers, Respond(c) PROVE TypeInv'
  <2>1. PICK fine \in BOOLEAN : Parses(fine) /\ in' = Append(in, Response(serving[c], fine))
    BY <1>6 DEF Respond
  <2>2. Response(serving[c], fine) \in InType
    BY <1>6 DEF Respond, Response, InType
  <2>3. in' \in Seq(InType) /\ garbage' \in 0 .. MaxGarbage
    BY <1>0, <2>1, <2>2 DEF Parses, TypeOK
  <2>4. TypeOK'
    BY <1>6, <2>3 DEF Respond, TypeOK
  <2>5. Locking' = Locking
    BY <1>6 DEF Respond, Locking, TypeOK
  <2> QED
    BY <1>1, <1>6, <2>4, <2>5 DEF Respond, InRequest, TypeOK
<1>7. ASSUME NEW c \in Callers, Return(c) PROVE TypeInv'
  <2>1. command[c] \in Ids /\ Line.id = command[c]
    BY <1>7 DEF Return, ReadLine, InRequest, IsAnswer
  <2>2. TypeOK'
    BY <1>4, <1>7, <2>1 DEF Return, TypeOK, Ids
  <2>3. Locking' = Locking
    BY <1>7 DEF Return, ReadLine, Locking, TypeOK
  <2> QED
    BY <1>1, <1>7, <2>2, <2>3 DEF Return, InRequest, TypeOK
<1>8. ASSUME NEW c \in Callers, Ignore(c) PROVE TypeInv'
  <2>1. TypeOK'
    BY <1>4, <1>8 DEF Ignore, TypeOK
  <2> QED
    BY <1>1, <1>8, <2>1 DEF Ignore, InRequest, Locking
<1>9. ASSUME NEW c \in Callers, GiveUp(c) PROVE TypeInv'
  <2>1. command[c] \in Ids
    BY <1>9 DEF GiveUp, ReadLine, InRequest
  <2>2. TypeOK'
    BY <1>4, <1>9, <2>1 DEF GiveUp, TypeOK
  <2>3. Locking' = Locking
    BY <1>9 DEF GiveUp, ReadLine, Locking, TypeOK
  <2> QED
    BY <1>1, <1>9, <2>2, <2>3 DEF GiveUp, InRequest, TypeOK
<1>10. ASSUME NEW c \in Callers, WorkerGone(c) \/ TimeOut(c) PROVE TypeInv'
  <2>1. TypeOK'
    <3>1. CASE WorkerGone(c)
      BY <3>1 DEF WorkerGone, TypeOK, workerVars
    <3>2. CASE TimeOut(c)
      <4>1. in' \in Seq(InType)
        BY <3>2, ShortSequences DEF TimeOut, Ends
      <4> QED
        BY <3>2, <4>1 DEF TimeOut, Ends, TypeOK
    <3> QED
      BY <1>10, <3>1, <3>2
  <2>2. Locking' = Locking
    BY <1>10 DEF WorkerGone, TimeOut, InRequest, Locking, TypeOK
  <2> QED
    BY <1>1, <1>10, <2>1, <2>2 DEF WorkerGone, TimeOut, InRequest, TypeOK
<1>11. CASE Shutdown \/ Crash
  <2>1. in' \in Seq(InType)
    BY <1>11, ShortSequences DEF Shutdown, Crash, Ends
  <2>4. deaths' \in 0 .. MaxDeaths
    BY <1>11 DEF Shutdown, Crash, TypeOK
  <2>2. ASSUME Shutdown PROVE TypeOK'
    BY <2>1, <2>2, <2>4 DEF Shutdown, Ends, TypeOK
  <2>3. ASSUME Crash PROVE TypeOK'
    BY <2>1, <2>3, <2>4 DEF Crash, Ends, TypeOK, providerVars
  <2> QED
    BY <1>1, <1>11, <2>2, <2>3 DEF Shutdown, Crash, InRequest, Locking, providerVars
<1>12. CASE TakeLine
  <2>1. in' \in Seq(InType) /\ Head(in) \in InType
    BY <1>0, <1>12 DEF TakeLine
  <2>2. Head(in).id \in Ids
    BY <2>1 DEF InType
  <2>3. \A j \in JobType : [j EXCEPT !.pc = "runs"] \in JobType
    BY DEF JobType
  <2>4. [id |-> Head(in).id, pc |-> "runs", asks |-> 0] \in JobType
    BY <2>2 DEF JobType
  <2>5. jobs' \subseteq JobType
    BY <1>12, <2>3, <2>4 DEF TakeLine, TypeOK
  <2>6. TypeOK'
    BY <1>12, <2>1, <2>5 DEF TakeLine, TypeOK, providerVars
  <2> QED
    BY <1>1, <1>12, <2>6 DEF TakeLine, InRequest, Locking, providerVars
<1>13. CASE RejectLine
  <2>1. in' \in Seq(InType)
    BY <1>0, <1>13 DEF RejectLine
  <2>2. out' \in Seq(LineType)
    <3>1. PICK pieces \in {<<Garbage>>, <<Garbage, Garbage>>} : out' = out \o pieces
      BY <1>13 DEF RejectLine
    <3>2. <<Garbage>> \in Seq(LineType) /\ <<Garbage, Garbage>> \in Seq(LineType)
      BY LineFacts, ShortSequences
    <3>3. pieces \in Seq(LineType)
      BY <3>1, <3>2
    <3> QED
      BY <1>0, <3>1, <3>3
  <2>3. TypeOK'
    BY <1>13, <2>1, <2>2 DEF RejectLine, TypeOK, providerVars
  <2> QED
    BY <1>1, <1>13, <2>3 DEF RejectLine, InRequest, Locking, providerVars
<1>14. ASSUME NEW j \in jobs, JobAsks(j) \/ JobEnds(j) PROVE TypeInv'
  <2>1. j \in JobType /\ j.id \in Ids
    BY DEF TypeOK, JobType
  <2>2. out' \in Seq(LineType)
    <3>1. ModelRequest(j.id) \in LineType /\ Answer(j.id) \in LineType
      BY <2>1, LineFacts
    <3>2. \A line \in LineType : Append(out, line) \in Seq(LineType)
      BY <1>0
    <3> QED
      BY <1>14, <3>1, <3>2 DEF JobAsks, JobEnds
  <2>3. ASSUME JobAsks(j) PROVE [j EXCEPT !.pc = "asks", !.asks = @ + 1] \in JobType
    <3>1. j.asks + 1 \in 0 .. MaxAsks
      BY <2>1, <2>3 DEF JobAsks, JobType
    <3> QED
      BY <2>1, <3>1 DEF JobType
  <2>4. jobs' \subseteq JobType
    BY <1>14, <2>3 DEF JobAsks, JobEnds, TypeOK
  <2>5. alive
    BY DEF TypeOK
  <2>6. TypeOK'
    BY <1>14, <2>2, <2>4, <2>5 DEF JobAsks, JobEnds, TypeOK, providerVars
  <2> QED
    BY <1>1, <1>14, <2>6 DEF JobAsks, JobEnds, InRequest, Locking, providerVars
<1>15. CASE JobPrints
  <2>1. out' \in Seq(LineType) /\ garbage' \in 0 .. MaxGarbage
    BY <1>0, <1>15, LineFacts DEF JobPrints, TypeOK
  <2>2. TypeOK'
    BY <1>15, <2>1 DEF JobPrints, TypeOK, providerVars
  <2> QED
    BY <1>1, <1>15, <2>2 DEF JobPrints, InRequest, Locking, providerVars
<1>16. CASE Finished \/ UNCHANGED vars
  BY <1>1, <1>16 DEF Finished, vars, workerVars, providerVars, TypeOK, InRequest, Locking
<1> QED
  BY <1>2, <1>3, <1>5, <1>6, <1>7, <1>8, <1>9, <1>10, <1>11, <1>12, <1>13, <1>14, <1>15, <1>16
  DEF Next

(***************************************************************************)
(* Commands.                                                               *)
(***************************************************************************)

LEMMA LineTaken ==
  ASSUME TypeOK, in # <<>>, in' = Tail(in)
  PROVE  /\ Head(in) = in[1] /\ Head(in) \in InType /\ 1 \in 1 .. Len(in)
         /\ in' \in Seq(InType) /\ Len(in') = Len(in) - 1 /\ Len(in) \in Nat
         /\ \A n \in 1 .. Len(in') : n + 1 \in 1 .. Len(in) /\ in'[n] = in[n + 1] /\ n + 1 # 1
<1>1. in \in Seq(InType)
  BY DEF TypeOK
<1> QED
  BY <1>1

LEMMA LineSent ==
  ASSUME TypeOK, NEW line \in InType, in' = Append(in, line)
  PROVE  /\ in' \in Seq(InType) /\ Len(in') = Len(in) + 1 /\ Len(in) \in Nat
         /\ \A n \in 1 .. Len(in) : n \in 1 .. Len(in') /\ in'[n] = in[n]
         /\ in'[Len(in) + 1] = line
         /\ \A n \in 1 .. Len(in') : n \in 1 .. Len(in) \/ n = Len(in) + 1
<1>1. in \in Seq(InType)
  BY DEF TypeOK
<1> QED
  BY <1>1

\* No step outside begins or ends a request, moves a command or writes an answer.
LEMMA CommandKept ==
  ASSUME TypeOK, CommandInv, command' = command, nextId' = nextId, in' = in, jobs' = jobs,
         left \subseteq left',
         \A c \in Callers : pc'[c] \in {"reading", "model"} <=> pc[c] \in {"reading", "model"},
         \A i \in Ids : Answer(i) \in Written' => Answer(i) \in Written
  PROVE  CommandInv'
<1>1. \A c \in Callers : InRequest(c)' <=> InRequest(c)
  BY DEF InRequest
<1>2. \A i : Untaken(i)' <=> Untaken(i)
  BY DEF Untaken
<1>3. \A i : Owned(i) => Owned(i)'
  BY <1>1 DEF Owned
<1>4. \A j \in jobs : j.id \in Ids
  BY DEF TypeOK, JobType
<1> QED
  BY <1>1, <1>2, <1>3, <1>4 DEF CommandInv

LEMMA CommandInit == Init => CommandInv
<1> SUFFICES ASSUME Init PROVE CommandInv
  OBVIOUS
<1>1. Len(in) = 0 /\ Len(out) = 0 /\ Len(buffer) = 0
  BY DEF Init
<1>2. Written = {} /\ \A i : ~Untaken(i)
  BY <1>1 DEF Written, Untaken
<1> QED
  BY <1>1, <1>2 DEF Init, CommandInv, InRequest

LEMMA CommandStep == TypeInv /\ CommandInv /\ [Next]_vars => CommandInv'
<1> SUFFICES ASSUME TypeInv, CommandInv, [Next]_vars PROVE CommandInv'
  OBVIOUS
<1>0. TypeOK /\ pc \in [Callers -> {"idle", "locking", "reading", "model"}]
  BY DEF TypeInv, TypeOK
<1>1. ASSUME NEW c \in Callers, Call(c) PROVE CommandInv'
  <2>1. Written' = Written
    BY <1>1 DEF Call, Written, workerVars
  <2> QED
    BY <1>0, <1>1, <2>1, CommandKept DEF Call, workerVars
<1>2. ASSUME NEW c \in Callers, Begin(c) PROVE CommandInv'
  <2>1. /\ \A d \in Callers : ~InRequest(d)
        /\ \A d \in Callers : InRequest(d)' => d = c
        /\ InRequest(c)' /\ command'[c] = nextId
        /\ \A d \in Callers : command'[d] = IF d = c THEN nextId ELSE command[d]
        /\ nextId' = nextId + 1 /\ nextId \in Nat
    BY <1>0, <1>2 DEF Begin, InRequest, TypeInv, TypeOK
  <2>2. \A i \in Ids : Owned(i) => i \in left
    BY <2>1 DEF Owned
  <2>3. \A i \in Ids : i < nextId => i # nextId /\ i < nextId'
    BY <2>1 DEF Ids
  <2>4. nextId \in Ids
    <3>1. 1 <= Cardinality(Locking) /\ Cardinality(Locking) \in Nat
      <4>1. c \in Locking /\ IsFiniteSet(Locking)
        BY <1>2 DEF Begin, Locking, TypeInv
      <4> QED
        BY <4>1, FS_EmptySet, FS_CardinalityType
    <3> QED
      BY <3>1, BridgeAssumption DEF TypeInv, TypeOK, Ids
  <2>5. PICK fine \in BOOLEAN :
          IF known /\ alive
          THEN in' = Append(in, Command(nextId, fine)) /\ UNCHANGED <<out, buffer, jobs, left>>
          ELSE /\ in' = <<Command(nextId, fine)>>
               /\ out' = <<>> /\ buffer' = <<>> /\ jobs' = {} /\ left' = {}
    BY <1>2 DEF Begin
  <2>6. /\ Command(nextId, fine) \in InType /\ Command(nextId, fine).id = nextId
        /\ Command(nextId, fine).kind = "command"
    BY <2>4 DEF Command, InType
  <2>7. \A i : i = nextId => Owned(i)'
    BY <2>1 DEF Owned
  <2>8. \A d \in Callers : command'[d] < nextId'
    BY <1>0, <2>1 DEF CommandInv, TypeOK
  <2>9. CASE known /\ alive
    <3>1. Written' = Written /\ jobs' = jobs /\ left' = left
      BY <2>5, <2>9 DEF Written
    <3>2. /\ Len(in') = Len(in) + 1 /\ Len(in) \in Nat /\ in'[Len(in) + 1] = Command(nextId, fine)
          /\ \A n \in 1 .. Len(in) : in'[n] = in[n]
          /\ \A n \in 1 .. Len(in') : n \in 1 .. Len(in) \/ n = Len(in) + 1
      BY <1>0, <2>5, <2>6, <2>9, LineSent
    <3>3. \A i \in Ids : Untaken(i)' => Untaken(i) \/ i = nextId
      BY <2>6, <3>2 DEF Untaken
    <3>4. ~Untaken(nextId)
      BY <2>3, <2>4 DEF CommandInv
    <3>5. \A m, n \in 1 .. Len(in') :
            in'[m].kind = "command" /\ in'[n].kind = "command" /\ in'[m].id = in'[n].id => m = n
      BY <2>6, <3>2, <3>4 DEF CommandInv, Untaken
    <3>6. Answer(nextId) \notin Written /\ \A j \in jobs : j.id # nextId /\ j.id \in Ids
      BY <2>3, <2>4 DEF CommandInv, TypeInv, TypeOK, JobType
    <3>7. \A i \in Ids : Owned(i) => Owned(i)'
      BY <2>2, <3>1 DEF Owned
    <3> QED
      BY <2>1, <2>3, <2>7, <2>8, <3>1, <3>3, <3>5, <3>6, <3>7 DEF CommandInv
  <2>10. CASE ~(known /\ alive)
    <3>1. Written' = {}
      BY <2>5, <2>10 DEF Written
    <3>2. Len(in') = 1 /\ in'[1] = Command(nextId, fine) /\ jobs' = {}
      BY <2>5, <2>10
    <3>3. \A i \in Ids : Untaken(i)' => i = nextId
      BY <2>6, <3>2 DEF Untaken
    <3> QED
      BY <2>1, <2>7, <2>8, <3>1, <3>2, <3>3 DEF CommandInv
  <2> QED
    BY <2>9, <2>10
<1>3. ASSUME NEW c \in Callers, AskModel(c) \/ Ignore(c) PROVE CommandInv'
  <2>1. Written' \subseteq Written
    BY <1>0, <1>3, LineRead DEF AskModel, Ignore
  <2>2. \A d \in Callers : pc'[d] \in {"reading", "model"} <=> pc[d] \in {"reading", "model"}
    BY <1>0, <1>3 DEF AskModel, Ignore, ReadLine
  <2> QED
    BY <1>0, <1>3, <2>1, <2>2, CommandKept DEF AskModel, Ignore
<1>4. ASSUME NEW c \in Callers, Respond(c) PROVE CommandInv'
  <2>1. PICK fine \in BOOLEAN : in' = Append(in, Response(serving[c], fine))
    BY <1>4 DEF Respond
  <2>2. Response(serving[c], fine) \in InType /\ Response(serving[c], fine).kind = "response"
    BY <1>4 DEF Respond, Response, InType, TypeInv
  <2>3. /\ in'[Len(in) + 1].kind = "response"
        /\ \A n \in 1 .. Len(in) : in'[n] = in[n]
        /\ \A n \in 1 .. Len(in') : n \in 1 .. Len(in) \/ n = Len(in) + 1
    BY <1>0, <2>1, <2>2, LineSent
  <2>4. \A i : Untaken(i)' => Untaken(i)
    BY <2>3 DEF Untaken
  <2>5. \A d \in Callers : InRequest(d)' <=> InRequest(d)
    BY <1>0, <1>4 DEF Respond, InRequest
  <2>6. Written' = Written /\ UNCHANGED <<jobs, left, command, nextId>>
    BY <1>4 DEF Respond, Written
  <2> QED
    BY <2>3, <2>4, <2>5, <2>6 DEF CommandInv, Owned
\* The request ends, and with it what it owns.
<1>5. ASSUME NEW c \in Callers, Return(c) PROVE CommandInv'
  <2>1. Written' \subseteq Written /\ Line \in Written /\ Line \in LineType
    BY <1>0, <1>5, LineRead DEF Return
  <2>2. InRequest(c) /\ Answer(command[c]) \in Written
    BY <1>5, <2>1, LineFacts DEF Return, ReadLine, InRequest, IsAnswer
  <2>3. \A d \in Callers : InRequest(d)' => FALSE
    BY <1>0, <1>5, <2>2 DEF Return, InRequest, CommandInv
  <2>4. \A i \in Ids : Answer(i) \notin Written /\ Owned(i) => i \in left
    BY <2>2 DEF Owned, CommandInv
  <2>5. UNCHANGED <<in, jobs, left, command, nextId>>
    BY <1>5 DEF Return
  <2>6. \A j \in jobs : j.id \in Ids
    BY DEF TypeInv, TypeOK, JobType
  <2>7. \A i \in Ids : Untaken(i)' = Untaken(i)
    BY <2>5 DEF Untaken
  <2> QED
    BY <2>1, <2>3, <2>4, <2>5, <2>6, <2>7 DEF CommandInv, Owned
<1>6. ASSUME NEW c \in Callers, GiveUp(c) PROVE CommandInv'
  <2>1. Written' \subseteq Written
    BY <1>0, <1>6, LineRead DEF GiveUp
  <2>2. \A d \in Callers : InRequest(d) => d = c
    BY <1>6 DEF GiveUp, ReadLine, InRequest, CommandInv
  <2>3. \A d \in Callers : InRequest(d)' => FALSE
    BY <1>0, <1>6, <2>2 DEF GiveUp, InRequest
  <2>4. \A i : Owned(i) => Owned(i)'
    BY <1>6, <2>2 DEF GiveUp, Owned
  <2>5. UNCHANGED <<in, jobs, command, nextId>>
    BY <1>6 DEF GiveUp
  <2>6. \A i \in Ids : Untaken(i)' = Untaken(i)
    BY <2>5 DEF Untaken
  <2> QED
    BY <2>1, <2>3, <2>4, <2>5, <2>6 DEF CommandInv
\* Nothing runs any more.
<1>7. ASSUME jobs' = {}, in' = <<>>, UNCHANGED <<buffer, out, command, nextId>>,
             \A d \in Callers : InRequest(d)' => InRequest(d)
      PROVE  CommandInv'
  <2>1. Len(in') = 0 /\ Written' = Written
    BY <1>7 DEF Written
  <2>2. \A i : ~Untaken(i)'
    BY <2>1 DEF Untaken
  <2> QED
    BY <1>7, <2>1, <2>2 DEF CommandInv
<1>8. ASSUME NEW c \in Callers, WorkerGone(c) PROVE CommandInv'
  <2>1. jobs = {} /\ in = <<>>
    BY <1>0, <1>8 DEF WorkerGone, TypeOK
  <2> QED
    BY <1>0, <1>7, <1>8, <2>1 DEF WorkerGone, workerVars, InRequest
<1>9. ASSUME NEW c \in Callers, TimeOut(c) PROVE CommandInv'
  BY <1>0, <1>7, <1>9 DEF TimeOut, Ends, InRequest
<1>10. CASE Shutdown \/ Crash
  BY <1>7, <1>10 DEF Shutdown, Crash, Ends, InRequest, providerVars
<1>11. CASE TakeLine
  <2>1. /\ Head(in) = in[1] /\ Head(in) \in InType /\ 1 \in 1 .. Len(in)
        /\ \A n \in 1 .. Len(in') : n + 1 \in 1 .. Len(in) /\ in'[n] = in[n + 1] /\ n + 1 # 1
    BY <1>0, <1>11, LineTaken DEF TakeLine
  <2>2. Head(in).id \in Ids
    BY <2>1 DEF InType
  <2>3. \A i : Untaken(i)' => Untaken(i)
    BY <2>1 DEF Untaken
  <2>4. \A m, n \in 1 .. Len(in') :
          in'[m].kind = "command" /\ in'[n].kind = "command" /\ in'[m].id = in'[n].id => m = n
    BY <2>1 DEF CommandInv
  <2>5. UNCHANGED <<left, command, nextId, pc>> /\ Written' = Written
    BY <1>11 DEF TakeLine, providerVars, Written
  <2>6. \A i : Owned(i)' = Owned(i)
    BY <2>5 DEF Owned, InRequest
  <2>7. CASE Head(in).kind = "command"
    <3>1. PICK i \in Ids : i = Head(in).id
      BY <2>2
    <3>2. PICK new : new.id = i /\ jobs' = jobs \cup {new}
      BY <1>11, <2>7, <3>1 DEF TakeLine
    <3>3. Untaken(i)
      BY <2>1, <2>7, <3>1 DEF Untaken
    <3>4. ~Untaken(i)'
      BY <2>1, <2>7, <3>1 DEF CommandInv, Untaken
    <3>5. \A j \in jobs : j.id \in Ids
      BY DEF TypeInv, TypeOK, JobType
    <3> QED
      BY <2>3, <2>4, <2>5, <2>6, <3>2, <3>3, <3>4, <3>5 DEF CommandInv, InRequest
  <2>8. CASE Head(in).kind # "command"
    <3> DEFINE resumed(j) == IF j.id = Head(in).id THEN [j EXCEPT !.pc = "runs"] ELSE j
    <3>1. jobs' = {resumed(j) : j \in jobs}
      BY <1>11, <2>8 DEF TakeLine
    <3>2. \A j \in jobs : resumed(j).id = j.id
      BY DEF TypeInv, TypeOK, JobType
    <3> HIDE DEF resumed
    <3> QED
      BY <2>3, <2>4, <2>5, <2>6, <3>1, <3>2 DEF CommandInv, InRequest
  <2> QED
    BY <2>7, <2>8
<1>12. CASE RejectLine
  <2>1. \A n \in 1 .. Len(in') : n + 1 \in 1 .. Len(in) /\ in'[n] = in[n + 1] /\ n + 1 # 1
    BY <1>0, <1>12, LineTaken DEF RejectLine
  <2>2. \A i : Untaken(i)' => Untaken(i)
    BY <2>1 DEF Untaken
  <2>3. \A i \in Ids : Answer(i) \in Written' => Answer(i) \in Written
    <3>1. PICK pieces \in {<<Garbage>>, <<Garbage, Garbage>>} : out' = out \o pieces
      BY <1>12 DEF RejectLine
    <3>2. out \in Seq(LineType) /\ pieces \in Seq(LineType) /\ \A n \in 1 .. Len(pieces) : pieces[n] = Garbage
      <4>1. <<Garbage>> \in Seq(LineType) /\ <<Garbage, Garbage>> \in Seq(LineType)
        BY LineFacts, ShortSequences
      <4>2. \A n \in 1 .. Len(pieces) : pieces[n] = Garbage
        OBVIOUS
      <4> QED
        BY <1>0, <4>1, <4>2 DEF TypeOK
    <3>3. \A n \in 1 .. Len(out') : (n \in 1 .. Len(out) /\ out'[n] = out[n]) \/ out'[n] = Garbage
      BY <3>1, <3>2
    <3>4. buffer' = buffer
      BY <1>12 DEF RejectLine, providerVars
    <3> QED
      BY <3>3, <3>4, LineFacts DEF Written
  <2>4. UNCHANGED <<jobs, left, command, nextId, pc>>
    BY <1>12 DEF RejectLine, providerVars
  <2>5. \A i : Owned(i)' = Owned(i)
    BY <2>4 DEF Owned, InRequest
  <2>6. \A j \in jobs : j.id \in Ids
    BY <1>0 DEF TypeOK, JobType
  <2>7. \A m, n \in 1 .. Len(in') :
          in'[m].kind = "command" /\ in'[n].kind = "command" /\ in'[m].id = in'[n].id => m = n
    <3>1. SUFFICES ASSUME NEW m \in 1 .. Len(in'), NEW n \in 1 .. Len(in'),
                          in'[m].kind = "command", in'[n].kind = "command", in'[m].id = in'[n].id
                   PROVE  m = n
      OBVIOUS
    <3>2. /\ m + 1 \in 1 .. Len(in) /\ in'[m] = in[m + 1]
          /\ n + 1 \in 1 .. Len(in) /\ in'[n] = in[n + 1]
      BY <2>1
    <3>3. m + 1 = n + 1
      BY <3>1, <3>2 DEF CommandInv
    <3> QED
      BY <3>3
  <2> QED
    BY <2>2, <2>3, <2>4, <2>5, <2>6, <2>7 DEF CommandInv, InRequest
<1>13. ASSUME NEW j \in jobs, JobAsks(j) PROVE CommandInv'
  <2>1. j.id \in Ids
    BY <1>0 DEF TypeOK, JobType
  <2>2. Written' = Written \cup {ModelRequest(j.id)}
    BY <1>0, <1>13, <2>1, LineFacts, LineWritten DEF JobAsks, providerVars
  <2>3. \A i \in Ids : Answer(i) \in Written' => Answer(i) \in Written
    BY <2>1, <2>2, LineFacts
  <2>4. [j EXCEPT !.pc = "asks", !.asks = @ + 1].id = j.id
    BY <1>0 DEF TypeOK, JobType
  <2>5. UNCHANGED <<in, left, command, nextId, pc>>
    BY <1>13 DEF JobAsks, providerVars
  <2>6. PICK k : k.id = j.id /\ jobs' = (jobs \ {j}) \cup {k}
    BY <1>13, <2>4 DEF JobAsks
  <2>7. \A i : Untaken(i)' = Untaken(i) /\ Owned(i)' = Owned(i)
    BY <2>5 DEF Untaken, Owned, InRequest
  <2>8. \A h \in jobs : h.id \in Ids
    BY <1>0 DEF TypeOK, JobType
  <2> QED
    BY <2>1, <2>3, <2>5, <2>6, <2>7, <2>8 DEF CommandInv, InRequest
<1>14. ASSUME NEW j \in jobs, JobEnds(j) PROVE CommandInv'
  <2>1. \A h \in jobs : h.id \in Ids
    BY <1>0 DEF TypeOK, JobType
  <2>2. Written' = Written \cup {Answer(j.id)}
    BY <1>0, <1>14, <2>1, LineFacts, LineWritten DEF JobEnds, providerVars
  <2>3. \A i \in Ids : Answer(i) \in Written' => Answer(i) \in Written \/ i = j.id
    BY <2>1, <2>2, LineFacts
  <2>4. UNCHANGED <<in, left, command, nextId, pc>> /\ jobs' = jobs \ {j}
    BY <1>14 DEF JobEnds, providerVars
  <2>5. \A i : Untaken(i)' = Untaken(i) /\ Owned(i)' = Owned(i)
    BY <2>4 DEF Untaken, Owned, InRequest
  <2> QED
    BY <2>1, <2>3, <2>4, <2>5 DEF CommandInv, InRequest
<1>15. CASE JobPrints
  <2>1. Written' = Written \cup {Garbage}
    BY <1>0, <1>15, LineFacts, LineWritten DEF JobPrints, providerVars
  <2>2. \A i \in Ids : Answer(i) \in Written' => Answer(i) \in Written
    BY <2>1, LineFacts
  <2> QED
    BY <1>0, <1>15, <2>2, CommandKept DEF JobPrints, providerVars
<1>16. CASE Finished \/ UNCHANGED vars
  BY <1>0, <1>16, CommandKept DEF Finished, vars, workerVars, providerVars, Written
<1> QED
  BY <1>1, <1>2, <1>3, <1>4, <1>5, <1>6, <1>8, <1>9, <1>10, <1>11, <1>12, <1>13, <1>14, <1>15, <1>16
  DEF Next

(***************************************************************************)
(* Lines.                                                                  *)
(***************************************************************************)

\* While no request has raised, the one command that runs is that of the request.
LEMMA SoleJob ==
  ASSUME TypeOK, CommandInv, left = {}, NEW j \in jobs
  PROVE  /\ \E c \in Callers : InRequest(c) /\ command[c] = j.id
         /\ \A k \in jobs : k = j
<1>1. \A k \in jobs : \E c \in Callers : InRequest(c) /\ command[c] = k.id
  BY DEF TypeOK, JobType, CommandInv, Owned
<1>2. ASSUME NEW k \in jobs PROVE k = j
  BY <1>1 DEF CommandInv
<1> QED
  BY <1>1, <1>2

\* A line that is no garbage comes straight from the pipe, and only garbage is left.
LEMMA LastLineRead ==
  ASSUME TypeOK, PipeInv, alive, left = {}, NEW c \in Callers, ReadLine(c), Line # Garbage
  PROVE  /\ in = <<>> /\ \A j \in jobs : ~Runs(j)
         /\ \A n \in 1 .. Len(buffer') : buffer'[n] = Garbage
         /\ \A n \in 1 .. Len(out') : out'[n] = Garbage
<1>1. buffer \in Seq(LineType) /\ out \in Seq(LineType)
  BY DEF TypeOK
<1>2. buffer = <<>>
  <2>1. SUFFICES ASSUME buffer # <<>> PROVE Line = Garbage
    OBVIOUS
  <2>2. Line = buffer[1] /\ 1 \in 1 .. Len(buffer)
    BY <1>1, <2>1, LineRead
  <2> QED
    BY <2>2 DEF PipeInv
<1>3. /\ Line = out[1] /\ 1 \in 1 .. Len(out)
      /\ \A n \in 1 .. Len(buffer') : n + 1 \in 1 .. Len(out) /\ buffer'[n] = out[n + 1]
      /\ \E k \in 1 .. Len(out) : \A n \in 1 .. Len(out') :
           n + k \in 1 .. Len(out) /\ out'[n] = out[n + k]
  BY <1>1, <1>2, LineRead
<1>4. \A n \in 1 .. Len(out) : n # 1 => out[n] = Garbage
  BY <1>3 DEF PipeInv
<1>5. \A n \in 1 .. Len(buffer') : buffer'[n] = Garbage
  BY <1>3, <1>4
<1>6. \A n \in 1 .. Len(out') : out'[n] = Garbage
  BY <1>3, <1>4
<1> QED
  BY <1>3, <1>5, <1>6 DEF PipeInv

LEMMA PipeInit == Init => PipeInv
BY DEF Init, PipeInv

LEMMA PipeStep == TypeInv /\ CommandInv /\ PipeInv /\ [Next]_vars => PipeInv'
<1> SUFFICES ASSUME TypeInv, CommandInv, PipeInv, [Next]_vars, alive', left' = {} PROVE PipeInv'
  BY DEF PipeInv
<1>0. TypeOK /\ pc \in [Callers -> {"idle", "locking", "reading", "model"}]
  BY DEF TypeInv, TypeOK
<1>1. ASSUME NEW c \in Callers, Call(c) PROVE PipeInv'
  <2>1. UNCHANGED <<alive, in, out, jobs, buffer, left>>
    BY <1>1 DEF Call, workerVars
  <2>2. \A d \in Callers : (InRequest(d)' <=> InRequest(d)) /\ (pc'[d] = "model" <=> pc[d] = "model")
    BY <1>0, <1>1 DEF Call, InRequest
  <2> QED
    BY <2>1, <2>2 DEF PipeInv
<1>2. ASSUME NEW c \in Callers, Begin(c) PROVE PipeInv'
  <2>1. /\ \A d \in Callers : ~InRequest(d)
        /\ InRequest(c)' /\ \A d \in Callers : pc'[d] # "model"
    BY <1>0, <1>2 DEF Begin, InRequest
  <2>2. PICK fine \in BOOLEAN :
          IF known /\ alive
          THEN in' = Append(in, Command(nextId, fine)) /\ UNCHANGED <<out, buffer, jobs, left>>
          ELSE /\ in' = <<Command(nextId, fine)>>
               /\ out' = <<>> /\ buffer' = <<>> /\ jobs' = {} /\ left' = {}
    BY <1>2 DEF Begin
  <2>3. CASE known /\ alive
    <3>1. UNCHANGED <<out, buffer, jobs, left>> /\ in' = Append(in, Command(nextId, fine))
      BY <2>2, <2>3
    <3>2. in = <<>> /\ jobs = {} /\ \A n \in 1 .. Len(out) : out[n] = Garbage
      BY <2>1, <2>3, <3>1 DEF PipeInv
    <3>3. Len(in') = 1
      BY <3>1, <3>2
    <3> QED
      BY <2>1, <2>3, <3>1, <3>2, <3>3 DEF PipeInv
  <2>4. CASE ~(known /\ alive)
    <3>1. Len(in') = 1 /\ Len(out') = 0 /\ Len(buffer') = 0 /\ jobs' = {}
      BY <2>2, <2>4
    <3> QED
      BY <2>1, <3>1 DEF PipeInv
  <2> QED
    BY <2>3, <2>4
<1>3. ASSUME NEW c \in Callers, AskModel(c) PROVE PipeInv'
  <2>1. /\ in = <<>> /\ \A j \in jobs : ~Runs(j)
        /\ \A n \in 1 .. Len(buffer') : buffer'[n] = Garbage
        /\ \A n \in 1 .. Len(out') : out'[n] = Garbage
    <3>1. Line # Garbage /\ alive /\ left = {}
      BY <1>3 DEF AskModel, Garbage
    <3> QED
      BY <1>0, <1>3, <3>1, LastLineRead DEF AskModel
  <2>2. in' = in /\ jobs' = jobs /\ InRequest(c)'
    BY <1>0, <1>3 DEF AskModel, InRequest
  <2> QED
    BY <2>1, <2>2 DEF PipeInv
<1>4. ASSUME NEW c \in Callers, Respond(c) PROVE PipeInv'
  <2>1. UNCHANGED <<alive, out, jobs, buffer, left>>
    BY <1>4 DEF Respond
  <2>2. /\ in = <<>> /\ \A j \in jobs : ~Runs(j)
        /\ \A n \in 1 .. Len(out) : out[n] = Garbage
        /\ \A n \in 1 .. Len(buffer) : buffer[n] = Garbage
    BY <1>4, <2>1 DEF Respond, PipeInv
  <2>3. Len(in') = 1
    BY <1>4, <2>2 DEF Respond
  <2>4. InRequest(c)' /\ \A d \in Callers : pc'[d] # "model"
    BY <1>0, <1>4 DEF Respond, InRequest, CommandInv
  <2> QED
    BY <2>1, <2>2, <2>3, <2>4 DEF PipeInv
<1>5. ASSUME NEW c \in Callers, Return(c) PROVE PipeInv'
  <2>1. UNCHANGED <<alive, in, jobs, left>> /\ InRequest(c)
    BY <1>5 DEF Return, ReadLine, InRequest
  <2>2. Line \in LineType /\ Line \in Written /\ Line = Answer(command[c]) /\ command[c] \in Ids
    BY <1>0, <1>5, <2>1, LineRead, LineFacts DEF Return, IsAnswer, TypeInv
  <2>3. /\ in = <<>>
        /\ \A n \in 1 .. Len(buffer') : buffer'[n] = Garbage
        /\ \A n \in 1 .. Len(out') : out'[n] = Garbage
    BY <1>0, <1>5, <2>1, <2>2, LineFacts, LastLineRead DEF Return
  <2>4. jobs = {}
    <3> SUFFICES ASSUME NEW j \in jobs PROVE FALSE
      OBVIOUS
    <3>1. command[c] = j.id
      BY <1>0, <2>1, SoleJob DEF CommandInv
    <3> QED
      BY <2>2, <3>1 DEF CommandInv
  <2>5. \A d \in Callers : pc'[d] # "model"
    BY <1>0, <1>5, <2>1 DEF Return, ReadLine, InRequest, CommandInv
  <2> QED
    BY <2>1, <2>3, <2>4, <2>5 DEF PipeInv
<1>6. ASSUME NEW c \in Callers, Ignore(c) PROVE PipeInv'
  <2>0. Line.kind = "answer"
    BY <1>6 DEF Ignore
  <2>1. UNCHANGED <<alive, in, jobs, left, pc>> /\ Line # Garbage
    <3>1. UNCHANGED <<alive, in, jobs, left, pc>>
      BY <1>6 DEF Ignore
    <3>2. Line # Garbage
      BY <2>0 DEF Garbage
    <3> QED
      BY <3>1, <3>2
  <2>2. /\ in = <<>> /\ \A j \in jobs : ~Runs(j)
        /\ \A n \in 1 .. Len(buffer') : buffer'[n] = Garbage
        /\ \A n \in 1 .. Len(out') : out'[n] = Garbage
    BY <1>0, <1>6, <2>1, LastLineRead DEF Ignore
  <2>3. InRequest(c)'
    BY <1>6, <2>1 DEF Ignore, ReadLine, InRequest
  <2> QED
    BY <2>1, <2>2, <2>3 DEF PipeInv
<1>7. ASSUME NEW c \in Callers, GiveUp(c) PROVE PipeInv'
  BY <1>7 DEF GiveUp
<1>8. ASSUME NEW c \in Callers, WorkerGone(c) \/ TimeOut(c) PROVE PipeInv'
  BY <1>8 DEF WorkerGone, TimeOut, Ends, workerVars
<1>9. CASE Shutdown \/ Crash
  BY <1>9 DEF Shutdown, Crash, Ends
\* A line on its way in is the only thing that happens.
<1>10. ASSUME in # <<>>, alive, left = {}
       PROVE  /\ Len(in) = 1 /\ \A j \in jobs : ~Runs(j)
              /\ \A n \in 1 .. Len(out) : out[n] = Garbage
              /\ \A c \in Callers : pc[c] # "model"
              /\ \E c \in Callers : InRequest(c)
  <2>1. in \in Seq(InType) /\ in # <<>>
    BY <1>0, <1>10 DEF TypeOK
  <2>2. Len(in) = 1
    <3>1. Len(in) <= 1
      BY <1>0, <1>10 DEF PipeInv
    <3>2. Len(in) \in Nat \ {0}
      BY <2>1
    <3>3. \A n \in Nat \ {0} : n <= 1 => n = 1
      OBVIOUS
    <3> QED
      BY <3>1, <3>2, <3>3
  <2> QED
    BY <1>0, <1>10, <2>2 DEF PipeInv
<1>11. CASE TakeLine
  <2>1. UNCHANGED <<alive, out, buffer, pc, left>> /\ in # <<>> /\ alive
    BY <1>11 DEF TakeLine, providerVars
  <2>2. in' = <<>>
    <3>1. Len(in') = 0 /\ in' \in Seq(InType)
      BY <1>0, <1>10, <1>11, <2>1, LineTaken DEF TakeLine
    <3> QED
      BY <3>1
  <2> QED
    BY <1>10, <2>1, <2>2 DEF PipeInv, InRequest
<1>12. CASE RejectLine
  <2>1. UNCHANGED <<alive, jobs, buffer, pc, left>> /\ in # <<>> /\ alive
    BY <1>12 DEF RejectLine, providerVars
  <2>2. in' = <<>>
    <3>1. Len(in') = 0 /\ in' \in Seq(InType)
      BY <1>0, <1>10, <1>12, <2>1, LineTaken DEF RejectLine
    <3> QED
      BY <3>1
  <2>3. \A n \in 1 .. Len(out') : out'[n] = Garbage
    <3>1. PICK pieces \in {<<Garbage>>, <<Garbage, Garbage>>} : out' = out \o pieces
      BY <1>12 DEF RejectLine
    <3>2. out \in Seq(LineType) /\ pieces \in Seq(LineType) /\ \A n \in 1 .. Len(pieces) : pieces[n] = Garbage
      <4>1. <<Garbage>> \in Seq(LineType) /\ <<Garbage, Garbage>> \in Seq(LineType)
        BY LineFacts, ShortSequences
      <4>2. \A n \in 1 .. Len(pieces) : pieces[n] = Garbage
        OBVIOUS
      <4> QED
        BY <1>0, <4>1, <4>2 DEF TypeOK
    <3>3. \A n \in 1 .. Len(out') : (n \in 1 .. Len(out) /\ out'[n] = out[n]) \/ out'[n] = Garbage
      BY <3>1, <3>2
    <3> QED
      BY <1>10, <2>1, <3>3
  <2> QED
    BY <1>10, <2>1, <2>2, <2>3 DEF PipeInv, InRequest
\* So is a command that runs.
<1>13. ASSUME NEW j \in jobs, Runs(j), alive, left = {}
       PROVE  /\ in = <<>> /\ \A n \in 1 .. Len(out) : out[n] = Garbage
              /\ \A c \in Callers : pc[c] # "model"
              /\ \E c \in Callers : InRequest(c)
              /\ jobs = {j}
  BY <1>0, <1>13, SoleJob DEF PipeInv
<1>14. ASSUME NEW j \in jobs, JobAsks(j) \/ JobEnds(j) PROVE PipeInv'
  <2>1. UNCHANGED <<alive, in, buffer, pc, left>> /\ Runs(j)
    BY <1>14 DEF JobAsks, JobEnds, providerVars, Runs
  <2>2. PICK line \in LineType : out' = Append(out, line)
    BY <1>0, <1>14, LineFacts DEF JobAsks, JobEnds, TypeOK, JobType
  <2>3. \A n \in 1 .. Len(out') :
          (n \in 1 .. Len(out) /\ out'[n] = out[n]) \/ (n = Len(out) + 1 /\ out'[n] = line)
    BY <1>0, <2>1, <2>2, LineWritten
  <2>4. \A k \in jobs' : ~Runs(k)
    <3>1. jobs = {j}
      BY <1>13, <2>1
    <3>2. j \in JobType /\ ~Runs([j EXCEPT !.pc = "asks", !.asks = @ + 1])
      BY <1>0 DEF TypeOK, JobType, Runs
    <3> QED
      BY <1>14, <3>1, <3>2 DEF JobAsks, JobEnds
  <2> QED
    BY <1>13, <2>1, <2>3, <2>4 DEF PipeInv, InRequest
<1>15. CASE JobPrints
  <2>1. UNCHANGED <<alive, in, jobs, buffer, pc, left>> /\ out' = Append(out, Garbage) /\ jobs # {}
    BY <1>15 DEF JobPrints, providerVars
  <2>2. \A n \in 1 .. Len(out') :
          (n \in 1 .. Len(out) /\ out'[n] = out[n]) \/ (n = Len(out) + 1 /\ out'[n] = Garbage)
    BY <1>0, <2>1, LineFacts, LineWritten
  <2>3. \E c \in Callers : InRequest(c)
    BY <1>0, <2>1, SoleJob
  <2> QED
    BY <2>1, <2>2, <2>3 DEF PipeInv, InRequest
<1>16. CASE Finished \/ UNCHANGED vars
  BY <1>16 DEF Finished, vars, workerVars, providerVars, PipeInv, InRequest
<1> QED
  BY <1>1, <1>2, <1>3, <1>4, <1>5, <1>6, <1>7, <1>8, <1>9, <1>11, <1>12, <1>14, <1>15, <1>16
  DEF Next

(***************************************************************************)
(* The remote call.                                                        *)
(***************************************************************************)

\* What is between the worker and the provider, in order.
Stream == buffer \o out

\* No answer is written twice.
StreamInv ==
  \A i \in Ids : \A m, n \in 1 .. Len(Stream) :
    Stream[m] = Answer(i) /\ Stream[n] = Answer(i) => m = n

LEMMA Joined ==
  ASSUME NEW b \in Seq(LineType), NEW o \in Seq(LineType)
  PROVE  LET s == b \o o
         IN  /\ s \in Seq(LineType) /\ Len(s) = Len(b) + Len(o)
             /\ Len(b) \in Nat /\ Len(o) \in Nat
             /\ \A n \in 1 .. Len(b) : s[n] = b[n]
             /\ \A n \in 1 .. Len(o) : s[Len(b) + n] = o[n]
             /\ {b[n] : n \in 1 .. Len(b)} \cup {o[n] : n \in 1 .. Len(o)} = {s[n] : n \in 1 .. Len(s)}
<1> DEFINE s == b \o o
           W == {b[n] : n \in 1 .. Len(b)} \cup {o[n] : n \in 1 .. Len(o)}
<1>1. Len(b) \in Nat /\ Len(o) \in Nat
  OBVIOUS
<1>2. /\ s \in Seq(LineType) /\ Len(s) = Len(b) + Len(o)
      /\ \A n \in 1 .. Len(b) : s[n] = b[n]
  OBVIOUS
<1>3. \A n \in 1 .. Len(o) : s[Len(b) + n] = o[n]
  OBVIOUS
<1> HIDE DEF s
<1>4. ASSUME NEW n \in 1 .. Len(s)
      PROVE  s[n] \in W
  <2>1. CASE n \in 1 .. Len(b)
    BY <1>2, <2>1
  <2>2. CASE n \notin 1 .. Len(b)
    <3> DEFINE k == n - Len(b)
    <3>1. k \in 1 .. Len(o) /\ Len(b) + k = n
      BY <1>1, <1>2, <2>2
    <3> HIDE DEF k
    <3>2. s[n] = o[k]
      BY <1>3, <3>1
    <3> QED
      BY <3>1, <3>2
  <2> QED
    BY <2>1, <2>2
<1>5. ASSUME NEW line \in W
      PROVE  \E n \in 1 .. Len(s) : s[n] = line
  <2>1. CASE \E n \in 1 .. Len(b) : line = b[n]
    BY <1>1, <1>2, <2>1
  <2>2. CASE \E n \in 1 .. Len(o) : line = o[n]
    <3>1. PICK n \in 1 .. Len(o) : line = o[n]
      BY <2>2
    <3>2. Len(b) + n \in 1 .. Len(s)
      BY <1>1, <1>2
    <3> QED
      BY <1>3, <3>1, <3>2
  <2> QED
    BY <2>1, <2>2
<1>6. W = {s[n] : n \in 1 .. Len(s)}
  BY <1>4, <1>5
<1> QED
  BY <1>1, <1>2, <1>3, <1>6 DEF s

LEMMA StreamFacts ==
  ASSUME TypeOK
  PROVE  /\ Stream \in Seq(LineType) /\ Len(Stream) = Len(buffer) + Len(out)
         /\ \A n \in 1 .. Len(buffer) : Stream[n] = buffer[n]
         /\ \A n \in 1 .. Len(out) : Stream[Len(buffer) + n] = out[n]
         /\ Written = {Stream[n] : n \in 1 .. Len(Stream)}
<1>1. buffer \in Seq(LineType) /\ out \in Seq(LineType)
  BY DEF TypeOK
<1> QED
  BY <1>1, Joined DEF Stream, Written

LEMMA StreamFactsNext ==
  ASSUME TypeOK'
  PROVE  /\ Stream' \in Seq(LineType) /\ Len(Stream') = Len(buffer') + Len(out')
         /\ \A n \in 1 .. Len(buffer') : Stream'[n] = buffer'[n]
         /\ \A n \in 1 .. Len(out') : Stream'[Len(buffer') + n] = out'[n]
         /\ Written' = {Stream'[n] : n \in 1 .. Len(Stream')}
<1>1. buffer' \in Seq(LineType) /\ out' \in Seq(LineType)
  BY DEF TypeOK, LineType, Ids, Garbage
<1> QED
  BY <1>1, Joined DEF Stream, Written

\* Reading takes the first line, wherever it is.
LEMMA StreamRead ==
  ASSUME TypeOK, TypeOK', NEW c \in Callers, ReadLine(c)
  PROVE  /\ Line = Stream[1] /\ Len(Stream) \in Nat /\ Len(Stream) > 0
         /\ Len(Stream') = Len(Stream) - 1
         /\ \A n \in 1 .. Len(Stream') : Stream'[n] = Stream[n + 1]
<1>1. buffer \in Seq(LineType) /\ out \in Seq(LineType) /\ Len(buffer) \in Nat /\ Len(out) \in Nat
  BY DEF TypeOK
<1>2. Stream \in Seq(LineType) /\ Stream # <<>>
  BY <1>1 DEF Stream, ReadLine
<1>3. Line = Stream[1] /\ Len(Stream) \in Nat /\ Len(Stream) > 0
  BY <1>2 DEF Line, Stream
<1>4. CASE buffer # <<>>
  <2>1. buffer' = Tail(buffer) /\ out' = out
    BY <1>4 DEF ReadLine
  <2>2. /\ buffer' \in Seq(LineType) /\ Len(buffer') = Len(buffer) - 1 /\ Len(buffer) > 0
        /\ \A n \in 1 .. Len(buffer') : buffer'[n] = buffer[n + 1]
    BY <1>1, <1>4, <2>1
  <2>3. Len(Stream') = Len(Stream) - 1
    BY <1>1, <2>1, <2>2, StreamFacts, StreamFactsNext
  <2>4. ASSUME NEW n \in 1 .. Len(Stream')
        PROVE  Stream'[n] = Stream[n + 1]
    <3>1. CASE n \in 1 .. Len(buffer')
      <4>1. n + 1 \in 1 .. Len(buffer)
        BY <1>1, <2>2, <3>1
      <4> QED
        BY <2>2, <3>1, <4>1, StreamFacts, StreamFactsNext
    <3>2. CASE n \notin 1 .. Len(buffer')
      <4> DEFINE k == n - Len(buffer')
      <4>1. k \in 1 .. Len(out) /\ Len(buffer') + k = n /\ Len(buffer) + k = n + 1
        BY <1>1, <2>1, <2>2, <3>2, StreamFactsNext
      <4> HIDE DEF k
      <4> QED
        BY <2>1, <4>1, StreamFacts, StreamFactsNext
    <3> QED
      BY <3>1, <3>2
  <2> QED
    BY <1>3, <2>3, <2>4
<1>5. CASE buffer = <<>>
  <2>1. PICK k \in 1 .. Len(out) : buffer' = SubSeq(out, 2, k) /\ out' = SubSeq(out, k + 1, Len(out))
    BY <1>5 DEF ReadLine
  <2>2. /\ Len(buffer') = k - 1 /\ Len(out') = Len(out) - k /\ Len(buffer) = 0 /\ k \in Nat
        /\ \A n \in 1 .. k - 1 : buffer'[n] = out[n + 1]
        /\ \A n \in 1 .. Len(out) - k : out'[n] = out[n + k]
    BY <1>1, <1>5, <2>1
  <2>3. Len(Stream') = Len(Stream) - 1 /\ Len(Stream) = Len(out)
    BY <1>1, <2>2, StreamFacts, StreamFactsNext
  <2>4. \A n \in 1 .. Len(out) : Stream[n] = out[n]
    <3>1. \A n \in 1 .. Len(out) : Stream[0 + n] = out[n]
      BY <2>2, StreamFacts
    <3> QED
      BY <3>1
  <2>5. ASSUME NEW n \in 1 .. Len(Stream')
        PROVE  Stream'[n] = Stream[n + 1]
    <3>0. n + 1 \in 1 .. Len(out) /\ Stream[n + 1] = out[n + 1]
      BY <1>1, <2>3, <2>4
    <3>1. CASE n \in 1 .. k - 1
      BY <2>2, <3>0, <3>1, StreamFactsNext
    <3>2. CASE n \notin 1 .. k - 1
      <4> DEFINE m == n - (k - 1)
      <4>1. m \in 1 .. Len(out') /\ m \in 1 .. Len(out) - k /\ Len(buffer') + m = n /\ m + k = n + 1
        BY <1>1, <2>2, <2>3, <3>2
      <4> HIDE DEF m
      <4> QED
        BY <2>2, <3>0, <4>1, StreamFactsNext
    <3> QED
      BY <3>1, <3>2
  <2> QED
    BY <1>3, <2>3, <2>5
<1> QED
  BY <1>4, <1>5

\* So an answer that is read is gone, and no other is.
LEMMA AnswerRead ==
  ASSUME TypeOK, TypeOK', StreamInv, NEW c \in Callers, ReadLine(c)
  PROVE  /\ StreamInv'
         /\ \A i \in Ids : Answer(i) \in Written' <=> Answer(i) \in Written /\ Line # Answer(i)
<1>1. /\ Line = Stream[1] /\ Len(Stream) \in Nat /\ Len(Stream) > 0
      /\ Len(Stream') = Len(Stream) - 1
      /\ \A n \in 1 .. Len(Stream') : Stream'[n] = Stream[n + 1]
  BY StreamRead
<1>2. \A n \in 1 .. Len(Stream') : n + 1 \in 1 .. Len(Stream)
  BY <1>1
<1>3. Ids' = Ids /\ \A i : Answer(i)' = Answer(i)
  BY DEF Ids, Answer
<1>4. StreamInv'
  <2> SUFFICES ASSUME NEW i \in Ids, NEW m \in 1 .. Len(Stream'), NEW n \in 1 .. Len(Stream'),
                      Stream'[m] = Answer(i), Stream'[n] = Answer(i)
               PROVE  m = n
    BY DEF StreamInv, Ids, Answer
  <2>1. m + 1 \in 1 .. Len(Stream) /\ n + 1 \in 1 .. Len(Stream)
        /\ Stream[m + 1] = Answer(i) /\ Stream[n + 1] = Answer(i)
    BY <1>1, <1>2
  <2>2. m + 1 = n + 1
    BY <2>1 DEF StreamInv
  <2> QED
    BY <2>2
<1>5. ASSUME NEW i \in Ids, Answer(i) \in Written'
      PROVE  Answer(i) \in Written /\ Line # Answer(i)
  <2>1. PICK n \in 1 .. Len(Stream') : Stream'[n] = Answer(i)
    BY <1>5, StreamFactsNext
  <2>2. n + 1 \in 1 .. Len(Stream) /\ Stream[n + 1] = Answer(i) /\ 1 \in 1 .. Len(Stream) /\ n + 1 # 1
    BY <1>1, <1>2, <2>1
  <2>3. Answer(i) \in Written
    BY <2>2, StreamFacts
  <2> QED
    BY <1>1, <2>2, <2>3 DEF StreamInv
<1>6. ASSUME NEW i \in Ids, Answer(i) \in Written, Line # Answer(i)
      PROVE  Answer(i) \in Written'
  <2>1. PICK n \in 1 .. Len(Stream) : Stream[n] = Answer(i)
    BY <1>6, StreamFacts
  <2> DEFINE k == n - 1
  <2>2. k \in 1 .. Len(Stream') /\ n = k + 1
    BY <1>1, <1>6, <2>1
  <2> HIDE DEF k
  <2>3. Stream'[k] = Answer(i)
    BY <1>1, <2>1, <2>2
  <2> QED
    BY <2>2, <2>3, StreamFactsNext
<1> QED
  BY <1>4, <1>5, <1>6

\* The worker writes lines that are no answers, or one that it has not written.
LEMMA StreamGrows ==
  ASSUME TypeOK, TypeOK', StreamInv, buffer' = buffer, NEW pieces \in Seq(LineType),
         out' = out \o pieces,
         \A i \in Ids : \A m, n \in 1 .. Len(pieces) :
           pieces[m] = Answer(i) => Answer(i) \notin Written /\ (pieces[n] = Answer(i) => m = n)
  PROVE  StreamInv'
<1>1. buffer \in Seq(LineType) /\ out \in Seq(LineType) /\ Len(buffer) \in Nat /\ Len(out) \in Nat
      /\ Len(pieces) \in Nat
  BY DEF TypeOK
<1>2. /\ Len(out') = Len(out) + Len(pieces)
      /\ \A n \in 1 .. Len(out) : out'[n] = out[n]
      /\ \A n \in 1 .. Len(pieces) : out'[Len(out) + n] = pieces[n]
  BY <1>1
<1>3. Len(Stream') = Len(Stream) + Len(pieces) /\ Len(Stream) \in Nat
      /\ Len(Stream) = Len(buffer) + Len(out) /\ Len(Stream') = Len(buffer) + Len(out')
  <2>1. Len(Stream) = Len(buffer) + Len(out)
    BY StreamFacts
  <2>2. Len(Stream') = Len(buffer') + Len(out')
    BY StreamFactsNext
  <2>3. Len(buffer') = Len(buffer)
    OBVIOUS
  <2>4. Len(out') = Len(out) + Len(pieces)
    BY <1>2
  <2> QED
    BY <1>1, <2>1, <2>2, <2>3, <2>4
<1>4. ASSUME NEW n \in 1 .. Len(Stream)
      PROVE  Stream'[n] = Stream[n] /\ Stream[n] \in Written
  <2>1. CASE n \in 1 .. Len(buffer)
    BY <2>1, StreamFacts, StreamFactsNext
  <2>2. CASE n \notin 1 .. Len(buffer)
    <3> DEFINE k == n - Len(buffer)
    <3>1. k \in 1 .. Len(out) /\ k \in 1 .. Len(out') /\ Len(buffer) + k = n
      BY <1>1, <1>2, <2>2, StreamFacts
    <3> HIDE DEF k
    <3>2. Stream[n] = out[k] /\ Stream'[n] = out'[k]
      BY <3>1, StreamFacts, StreamFactsNext
    <3> QED
      BY <1>2, <3>1, <3>2, StreamFacts
  <2> QED
    BY <2>1, <2>2
<1>5. ASSUME NEW n \in 1 .. Len(Stream'), n \notin 1 .. Len(Stream)
      PROVE  n - Len(Stream) \in 1 .. Len(pieces) /\ Stream'[n] = pieces[n - Len(Stream)]
  <2> DEFINE k == n - Len(Stream)
  <2>1. k \in 1 .. Len(pieces) /\ Len(buffer) + (Len(out) + k) = n /\ Len(out) + k \in 1 .. Len(out')
    <3>1. Len(out') = Len(out) + Len(pieces)
      BY <1>2
    <3> QED
      BY <1>1, <1>3, <1>5, <3>1
  <2> HIDE DEF k
  <2>2. Stream'[n] = out'[Len(out) + k]
    BY <2>1, StreamFactsNext
  <2> QED
    BY <1>2, <2>1, <2>2 DEF k
<1> SUFFICES ASSUME NEW i \in Ids, NEW m \in 1 .. Len(Stream'), NEW n \in 1 .. Len(Stream'),
                    Stream'[m] = Answer(i), Stream'[n] = Answer(i)
             PROVE  m = n
  BY DEF StreamInv, Ids, Answer
<1>6. CASE m \in 1 .. Len(Stream) /\ n \in 1 .. Len(Stream)
  BY <1>4, <1>6 DEF StreamInv
<1>7. CASE m \notin 1 .. Len(Stream) /\ n \notin 1 .. Len(Stream)
  <2>1. m - Len(Stream) = n - Len(Stream)
    BY <1>5, <1>7
  <2> QED
    BY <1>3, <2>1
<1>8. CASE m \in 1 .. Len(Stream) /\ n \notin 1 .. Len(Stream)
  <2>1. Answer(i) \in Written
    BY <1>4, <1>8
  <2>2. PICK k \in 1 .. Len(pieces) : pieces[k] = Answer(i)
    BY <1>5, <1>8
  <2> QED
    BY <2>1, <2>2
<1>9. CASE m \notin 1 .. Len(Stream) /\ n \in 1 .. Len(Stream)
  <2>1. Answer(i) \in Written
    BY <1>4, <1>9
  <2>2. PICK k \in 1 .. Len(pieces) : pieces[k] = Answer(i)
    BY <1>5, <1>9
  <2> QED
    BY <2>1, <2>2
<1> QED
  BY <1>6, <1>7, <1>8, <1>9

\* Each step keeps the answers apart.
LEMMA StreamStep == TypeInv /\ TypeInv' /\ CommandInv /\ StreamInv /\ [Next]_vars => StreamInv'
<1> SUFFICES ASSUME TypeInv, TypeInv', CommandInv, StreamInv, [Next]_vars
             PROVE  StreamInv'
  OBVIOUS
<1>0. TypeOK /\ TypeOK' /\ out \in Seq(LineType) /\ \A j \in jobs : j.id \in Ids
  BY DEF TypeInv, TypeOK, JobType
<1>1. CASE UNCHANGED <<buffer, out>>
  BY <1>1 DEF StreamInv, Stream, Ids, Answer
<1>2. ASSUME NEW c \in Callers, Begin(c)
      PROVE  StreamInv'
  <2>1. CASE known /\ alive
    BY <1>1, <1>2, <2>1 DEF Begin
  <2>2. CASE ~(known /\ alive)
    <3>1. Len(buffer') = 0 /\ Len(out') = 0
      BY <1>2, <2>2 DEF Begin
    <3>2. Len(Stream') = 0
      BY <1>0, <3>1, StreamFactsNext
    <3> QED
      BY <3>2 DEF StreamInv
  <2> QED
    BY <2>1, <2>2
<1>3. ASSUME NEW c \in Callers, ReadLine(c)
      PROVE  StreamInv'
  BY <1>0, <1>3, AnswerRead
<1>4. ASSUME NEW line \in LineType, out' = Append(out, line), buffer' = buffer,
             \A i \in Ids : line = Answer(i) => Answer(i) \notin Written
      PROVE  StreamInv'
  <2>1. <<line>> \in Seq(LineType) /\ Len(<<line>>) = 1 /\ <<line>>[1] = line
    OBVIOUS
  <2>2. out' = out \o <<line>>
    BY <1>0, <1>4
  <2> DEFINE pieces == <<line>>
  <2>3. \A i \in Ids : \A m, n \in 1 .. Len(pieces) :
          pieces[m] = Answer(i) => Answer(i) \notin Written /\ (pieces[n] = Answer(i) => m = n)
    <3>1. \A m \in 1 .. Len(pieces) : m = 1 /\ pieces[m] = line
      BY <2>1
    <3> HIDE DEF pieces
    <3> QED
      BY <1>4, <3>1
  <2> HIDE DEF pieces
  <2>4. pieces \in Seq(LineType) /\ out' = out \o pieces
    BY <2>1, <2>2 DEF pieces
  <2> QED
    BY <1>0, <1>4, <2>3, <2>4, StreamGrows
<1>5. CASE RejectLine
  <2>1. PICK pieces \in {<<Garbage>>, <<Garbage, Garbage>>} : out' = out \o pieces
    BY <1>5 DEF RejectLine
  <2>2. pieces \in Seq(LineType) /\ \A n \in 1 .. Len(pieces) : pieces[n] = Garbage
    <3>1. <<Garbage>> \in Seq(LineType) /\ <<Garbage, Garbage>> \in Seq(LineType)
      BY LineFacts, ShortSequences
    <3>2. \A n \in 1 .. Len(pieces) : pieces[n] = Garbage
      OBVIOUS
    <3> QED
      BY <3>1, <3>2
  <2>3. buffer' = buffer
    BY <1>5 DEF RejectLine, providerVars
  <2>4. \A i \in Ids : \A n \in 1 .. Len(pieces) : pieces[n] # Answer(i)
    BY <2>2, LineFacts
  <2> QED
    BY <1>0, <2>1, <2>2, <2>3, <2>4, StreamGrows
<1>6. ASSUME NEW j \in jobs, JobAsks(j)
      PROVE  StreamInv'
  BY <1>0, <1>4, <1>6, LineFacts DEF JobAsks, providerVars
<1>7. ASSUME NEW j \in jobs, JobEnds(j)
      PROVE  StreamInv'
  <2>1. Answer(j.id) \in LineType /\ Answer(j.id) \notin Written
        /\ \A i \in Ids : Answer(j.id) = Answer(i) => i = j.id
    BY <1>0, LineFacts DEF CommandInv
  <2>2. out' = Append(out, Answer(j.id)) /\ buffer' = buffer
    BY <1>7 DEF JobEnds, providerVars
  <2> QED
    BY <1>4, <2>1, <2>2
<1>8. CASE JobPrints
  BY <1>4, <1>8, LineFacts DEF JobPrints, providerVars
<1>9. ASSUME NEW c \in Callers, AskModel(c) \/ Return(c) \/ Ignore(c) \/ GiveUp(c)
      PROVE  StreamInv'
  BY <1>3, <1>9 DEF AskModel, Return, Ignore, GiveUp
<1>10. ASSUME NEW c \in Callers, Call(c) \/ Respond(c) \/ WorkerGone(c) \/ TimeOut(c)
       PROVE  StreamInv'
  BY <1>1, <1>10 DEF Call, Respond, WorkerGone, TimeOut, Ends, workerVars
<1>11. CASE Shutdown \/ TakeLine \/ Crash \/ Finished \/ UNCHANGED vars
  BY <1>1, <1>11 DEF Shutdown, TakeLine, Crash, Ends, Finished, vars, workerVars, providerVars
<1> QED
  BY <1>2, <1>5, <1>6, <1>7, <1>8, <1>9, <1>10, <1>11 DEF Next

\* What the remote call sees of a step.
Same == /\ nextId' = nextId /\ Open' = Open /\ Waiting' = Waiting /\ Running' = Running
        /\ Ended' = Ended /\ Returned' = Returned

AbstractStep == [Abstract!Next]_(Abstract!requestVars)

LEMMA SameStep == Same => AbstractStep
BY DEF Same, AbstractStep, Abstract!requestVars

LEMMA EndedKept ==
  ASSUME \A i \in Ids : Answer(i) \in Written' <=> Answer(i) \in Written
  PROVE  Ended' = Ended
BY DEF Ended, Ids, Answer

LEMMA OpenKept ==
  ASSUME command' = command, \A c \in Callers : InRequest(c)' <=> InRequest(c)
  PROVE  Open' = Open
BY DEF Open

\* Two of the commands at most are those of a request.
LEMMA OpenIs ==
  ASSUME CommandInv, NEW c \in Callers, InRequest(c)
  PROVE  Open = {command[c]}
BY DEF CommandInv, Open

LEMMA OpenEnds ==
  ASSUME TypeOK, CommandInv, NEW c \in Callers, InRequest(c), pc' = [pc EXCEPT ![c] = "idle"]
  PROVE  Open' = {} /\ Open # {}
<1>1. \A d \in Callers : ~InRequest(d)'
  BY DEF CommandInv, InRequest, TypeOK
<1> QED
  BY <1>1, OpenIs DEF Open

LEMMA RefinementStep ==
  TypeInv /\ TypeInv' /\ CommandInv /\ StreamInv /\ [Next]_vars => AbstractStep
<1> SUFFICES ASSUME TypeInv, TypeInv', CommandInv, StreamInv, [Next]_vars
             PROVE  AbstractStep
  OBVIOUS
<1>0. /\ TypeOK /\ TypeOK' /\ \A j \in jobs : j.id \in Ids
      /\ pc \in [Callers -> {"idle", "locking", "reading", "model"}]
      /\ nextId \in Nat /\ \A i : Answer(i)' = Answer(i)
  <2>1. TypeOK /\ TypeOK'
    BY DEF TypeInv
  <2>2. /\ \A j \in jobs : j.id \in Ids
        /\ pc \in [Callers -> {"idle", "locking", "reading", "model"}] /\ nextId \in Nat
    BY <2>1 DEF TypeOK, JobType
  <2>3. \A i : Answer(i)' = Answer(i)
    BY DEF Answer
  <2> QED
    BY <2>1, <2>2, <2>3
<1>1. ASSUME NEW c \in Callers, Call(c)
      PROVE  AbstractStep
  <2>1. Open' = Open
    BY <1>0, <1>1, OpenKept DEF Call, InRequest
  <2>2. Same
    BY <1>1, <2>1 DEF Call, Same, workerVars, Waiting, Untaken, Running, Ended, Written, Returned,
      Ids, Answer
  <2> QED
    BY <2>2, SameStep
<1>2. ASSUME NEW c \in Callers, Begin(c)
      PROVE  AbstractStep
  <2>1. Open = {} /\ Open' = {nextId}
    <3>1. \A d \in Callers : ~InRequest(d) /\ (InRequest(d)' <=> d = c)
      BY <1>0, <1>2 DEF Begin, InRequest
    <3>2. command'[c] = nextId
      BY <1>0, <1>2 DEF Begin, TypeOK
    <3> QED
      BY <3>1, <3>2 DEF Open
  <2>2. nextId \in Ids /\ nextId' = nextId + 1 /\ Returned' = Returned
    <3>1. nextId' = nextId + 1 /\ nextId' \in 1 .. MaxCommands + 1 /\ nextId \in 1 .. MaxCommands + 1
      BY <1>0, <1>2 DEF Begin, TypeOK
    <3>2. Returned' = Returned
      BY <1>2 DEF Begin, Returned, Ids
    <3> QED
      BY <3>1, <3>2, BridgeAssumption DEF Ids
  <2>3. PICK fine \in BOOLEAN :
          IF known /\ alive
          THEN in' = Append(in, Command(nextId, fine)) /\ UNCHANGED <<out, buffer, jobs, left>>
          ELSE /\ in' = <<Command(nextId, fine)>>
               /\ out' = <<>> /\ buffer' = <<>> /\ jobs' = {} /\ left' = {}
    BY <1>2 DEF Begin
  <2>4. /\ Command(nextId, fine) \in InType /\ Command(nextId, fine).id = nextId
        /\ Command(nextId, fine).kind = "command"
    BY <2>2 DEF Command, InType
  <2>5. CASE known /\ alive
    <3>1. /\ in'[Len(in) + 1] = Command(nextId, fine) /\ Len(in) + 1 \in 1 .. Len(in')
          /\ \A n \in 1 .. Len(in) : n \in 1 .. Len(in') /\ in'[n] = in[n]
          /\ \A n \in 1 .. Len(in') : n \in 1 .. Len(in) \/ n = Len(in) + 1
      BY <1>0, <2>3, <2>4, <2>5, LineSent
    <3>2. Waiting' = Waiting \cup {nextId}
      BY <2>2, <2>4, <3>1 DEF Waiting, Untaken, Ids
    <3>3. Running' = Running /\ Ended' = Ended
      BY <2>3, <2>5 DEF Running, Ended, Written, Ids, Answer
    <3>4. Abstract!Send
      <4>1. (nextId - 1) + 1 = nextId /\ nextId' - 1 = nextId
        BY <1>0, <2>2
      <4> QED
        BY <2>1, <2>2, <3>2, <3>3, <4>1 DEF Abstract!Send
    <3> QED
      BY <3>4 DEF AbstractStep, Abstract!Next
  <2>6. CASE ~(known /\ alive)
    <3>1. Len(in') = 1 /\ in'[1] = Command(nextId, fine) /\ jobs' = {}
          /\ Len(out') = 0 /\ Len(buffer') = 0
      BY <2>3, <2>6
    <3>2. Waiting' = {nextId}
      BY <2>2, <2>4, <3>1 DEF Waiting, Untaken, Ids
    <3>3. Running' = {} /\ Ended' = {}
      BY <3>1 DEF Running, Ended, Written
    <3>4. Abstract!Send
      <4>1. (nextId - 1) + 1 = nextId /\ nextId' - 1 = nextId
        BY <1>0, <2>2
      <4> QED
        BY <2>1, <2>2, <3>2, <3>3, <4>1 DEF Abstract!Send
    <3> QED
      BY <3>4 DEF AbstractStep, Abstract!Next
  <2> QED
    BY <2>5, <2>6
\* What a line that is read changes.
<1>3. ASSUME NEW c \in Callers, ReadLine(c)
      PROVE  /\ InRequest(c) /\ Open = {command[c]} /\ Line \in LineType /\ Line \in Written
             /\ \A i \in Ids : Answer(i) \in Written' <=> Answer(i) \in Written /\ Line # Answer(i)
  BY <1>0, <1>3, AnswerRead, LineRead, OpenIs DEF ReadLine, InRequest
<1>4. ASSUME NEW c \in Callers, AskModel(c)
      PROVE  AbstractStep
  <2>1. ReadLine(c) /\ Line.kind = "ask"
    BY <1>4 DEF AskModel
  <2>2. \A i \in Ids : Line # Answer(i)
    BY <2>1 DEF Answer
  <2>3. Ended' = Ended
    BY <1>3, <2>1, <2>2, EndedKept
  <2>4. Open' = Open
    BY <1>0, <1>4, OpenKept DEF AskModel, ReadLine, InRequest
  <2>5. Same
    BY <1>4, <2>3, <2>4 DEF AskModel, Same, Waiting, Untaken, Running, Returned, Ids
  <2> QED
    BY <2>5, SameStep
<1>5. ASSUME NEW c \in Callers, Respond(c)
      PROVE  AbstractStep
  <2>1. PICK fine \in BOOLEAN : in' = Append(in, Response(serving[c], fine))
    BY <1>5 DEF Respond
  <2>2. Response(serving[c], fine) \in InType /\ Response(serving[c], fine).kind = "response"
    BY <1>5 DEF Respond, Response, InType, TypeInv
  <2>3. /\ in'[Len(in) + 1].kind = "response"
        /\ \A n \in 1 .. Len(in) : n \in 1 .. Len(in') /\ in'[n] = in[n]
        /\ \A n \in 1 .. Len(in') : n \in 1 .. Len(in) \/ n = Len(in) + 1
    BY <1>0, <2>1, <2>2, LineSent
  <2>4. Waiting' = Waiting
    BY <2>3 DEF Waiting, Untaken, Ids
  <2>5. Open' = Open
    BY <1>0, <1>5, OpenKept DEF Respond, InRequest
  <2>6. Same
    BY <1>5, <2>4, <2>5 DEF Respond, Same, Running, Ended, Written, Returned, Ids, Answer
  <2> QED
    BY <2>6, SameStep
<1>6. ASSUME NEW c \in Callers, Return(c)
      PROVE  AbstractStep
  <2>1. ReadLine(c) /\ Line.kind = "answer" /\ Line.id = command[c]
        /\ UNCHANGED <<in, jobs, nextId>> /\ pc' = [pc EXCEPT ![c] = "idle"]
        /\ answered' = [answered EXCEPT ![command[c]] = Line.id]
    BY <1>6 DEF Return, IsAnswer
  <2>2. command[c] \in Ids /\ Line = Answer(command[c])
    BY <1>3, <2>1, LineFacts
  <2>3. Open = {command[c]} /\ Open' = {}
    BY <1>0, <1>3, <2>1, OpenEnds
  <2>4. Ended' = Ended \ {command[c]} /\ command[c] \in Ended
    <3>1. \A i \in Ids : Line = Answer(i) <=> i = command[c]
      BY <2>2, LineFacts
    <3> QED
      BY <1>0, <1>3, <2>1, <2>2, <3>1 DEF Ended, Ids
  <2>5. Returned' = Returned \cup {command[c]}
    <3>1. answered \in [Ids -> 0 .. MaxCommands] /\ command[c] # 0
      BY <1>0, <2>2 DEF TypeOK, Ids
    <3> QED
      BY <2>1, <2>2, <3>1 DEF Returned, Ids
  <2>6. Waiting' = Waiting /\ Running' = Running
    BY <2>1 DEF Waiting, Untaken, Running, Ids
  <2>7. Abstract!Return(command[c])
    BY <2>1, <2>3, <2>4, <2>5, <2>6 DEF Abstract!Return
  <2> QED
    BY <2>4, <2>7 DEF AbstractStep, Abstract!Next
<1>7. ASSUME NEW c \in Callers, Ignore(c)
      PROVE  AbstractStep
  <2>1. ReadLine(c) /\ Line.kind = "answer" /\ Line.id # command[c]
        /\ UNCHANGED <<in, jobs, nextId, pc, command, answered>>
    BY <1>7 DEF Ignore, IsAnswer
  <2>2. PICK i \in Ids : i = Line.id /\ Line = Answer(i) /\ i # command[c]
    BY <1>3, <2>1, LineFacts
  <2>3. Open = {command[c]} /\ Open' = Open
    BY <1>3, <2>1 DEF Open, InRequest
  <2>4. Ended' = Ended \ {i} /\ i \in Ended
    <3>1. \A k \in Ids : Line = Answer(k) <=> k = i
      BY <2>2, LineFacts
    <3> QED
      BY <1>0, <1>3, <2>1, <2>2, <3>1 DEF Ended, Ids
  <2>5. Waiting' = Waiting /\ Running' = Running /\ Returned' = Returned
    BY <2>1 DEF Waiting, Untaken, Running, Returned, Ids
  <2>6. Abstract!Drop(i)
    BY <2>1, <2>2, <2>3, <2>4, <2>5 DEF Abstract!Drop
  <2> QED
    BY <2>4, <2>6 DEF AbstractStep, Abstract!Next
\* The request ends without a result.
<1>8. ASSUME NEW c \in Callers, InRequest(c), pc' = [pc EXCEPT ![c] = "idle"],
             UNCHANGED <<in, jobs, nextId, answered>>, Ended' = Ended
      PROVE  AbstractStep
  <2>1. Open # {} /\ Open' = {}
    BY <1>0, <1>8, OpenEnds
  <2>2. Waiting' = Waiting /\ Running' = Running /\ Returned' = Returned
    BY <1>8 DEF Waiting, Untaken, Running, Returned, Ids
  <2>3. Abstract!Raise
    BY <1>8, <2>1, <2>2 DEF Abstract!Raise
  <2> QED
    BY <2>3 DEF AbstractStep, Abstract!Next
<1>9. ASSUME NEW c \in Callers, GiveUp(c)
      PROVE  AbstractStep
  <2>1. ReadLine(c) /\ Line.kind = "garbage"
    BY <1>9 DEF GiveUp
  <2>2. \A i \in Ids : Line # Answer(i)
    BY <2>1 DEF Answer
  <2>3. Ended' = Ended
    BY <1>3, <2>1, <2>2, EndedKept
  <2> QED
    BY <1>3, <1>8, <1>9, <2>1, <2>3 DEF GiveUp
<1>10. ASSUME NEW c \in Callers, WorkerGone(c)
       PROVE  AbstractStep
  <2>1. Ended' = Ended
    BY <1>10 DEF WorkerGone, workerVars, Ended, Written, Ids, Answer
  <2> QED
    BY <1>8, <1>10, <2>1 DEF WorkerGone, workerVars
\* The worker is gone with what it runs.
<1>11. ASSUME Ends, UNCHANGED <<buffer, nextId, answered>>, Open' \in {Open, {}}
       PROVE  AbstractStep
  <2>1. Waiting' = {} /\ Running' = {}
    <3>1. Len(in') = 0
      BY <1>11 DEF Ends
    <3> QED
      BY <1>11, <3>1 DEF Ends, Waiting, Untaken, Running
  <2>2. Ended' = Ended /\ Returned' = Returned
    BY <1>11 DEF Ends, Ended, Written, Returned, Ids, Answer
  <2>3. Abstract!Die
    BY <1>11, <2>1, <2>2 DEF Abstract!Die
  <2> QED
    BY <2>3 DEF AbstractStep, Abstract!Next
<1>12. ASSUME NEW c \in Callers, TimeOut(c)
       PROVE  AbstractStep
  <2>1. Open' = {}
    BY <1>0, <1>12, OpenEnds DEF TimeOut, InRequest
  <2> QED
    BY <1>11, <1>12, <2>1 DEF TimeOut
<1>13. CASE Shutdown \/ Crash
  <2>1. Open' = Open
    BY <1>13 DEF Shutdown, Crash, providerVars, Open, InRequest
  <2> QED
    BY <1>11, <1>13, <2>1 DEF Shutdown, Crash, providerVars
<1>14. CASE TakeLine
  <2>1. /\ Head(in) = in[1] /\ Head(in) \in InType /\ 1 \in 1 .. Len(in) /\ Len(in') = Len(in) - 1
        /\ \A n \in 1 .. Len(in') : n + 1 \in 1 .. Len(in) /\ in'[n] = in[n + 1] /\ n + 1 # 1
        /\ Len(in) \in Nat
    BY <1>0, <1>14, LineTaken DEF TakeLine
  <2>2. PICK i \in Ids : i = Head(in).id
    BY <2>1 DEF InType
  <2>3. /\ Open' = Open /\ Ended' = Ended /\ Returned' = Returned /\ nextId' = nextId
    BY <1>14 DEF TakeLine, providerVars, Open, InRequest, Ended, Written, Returned, Ids, Answer
  <2>4. \A n \in 1 .. Len(in) : n = 1 \/ (n - 1 \in 1 .. Len(in') /\ in'[n - 1] = in[n])
    BY <2>1
  <2>5. CASE Head(in).kind = "command"
    <3>1. Running' = Running \cup {i}
      <4>1. PICK new : new.id = i /\ jobs' = jobs \cup {new}
        BY <1>14, <2>2, <2>5 DEF TakeLine
      <4> QED
        BY <4>1 DEF Running
    <3>2. i \in Waiting /\ Waiting' = Waiting \ {i}
      <4>1. Untaken(i)
        BY <2>1, <2>2, <2>5 DEF Untaken
      <4>2. \A k \in Ids : Untaken(k)' => Untaken(k) /\ k # i
        BY <2>1, <2>2, <2>5 DEF Untaken, CommandInv
      <4>3. \A k \in Ids : Untaken(k) /\ k # i => Untaken(k)'
        BY <2>1, <2>2, <2>4 DEF Untaken
      <4> QED
        BY <4>1, <4>2, <4>3 DEF Waiting, Ids
    <3>3. Abstract!Start(i)
      BY <2>3, <3>1, <3>2 DEF Abstract!Start
    <3> QED
      BY <3>2, <3>3 DEF AbstractStep, Abstract!Next
  <2>6. CASE Head(in).kind # "command"
    <3> DEFINE resumed(j) == IF j.id = Head(in).id THEN [j EXCEPT !.pc = "runs"] ELSE j
    <3>1. jobs' = {resumed(j) : j \in jobs}
      BY <1>14, <2>6 DEF TakeLine
    <3>2. \A j \in jobs : resumed(j).id = j.id
      BY <1>0 DEF TypeOK, JobType
    <3> HIDE DEF resumed
    <3>3. Running' = Running
      BY <3>1, <3>2 DEF Running
    <3>4. \A k \in Ids : Untaken(k)' <=> Untaken(k)
      BY <2>1, <2>4, <2>6 DEF Untaken
    <3>5. Same
      BY <2>3, <3>3, <3>4 DEF Same, Waiting, Ids
    <3> QED
      BY <3>5, SameStep
  <2> QED
    BY <2>5, <2>6
<1>15. CASE RejectLine
  <2>1. /\ Head(in) = in[1] /\ Head(in) \in InType /\ 1 \in 1 .. Len(in) /\ Len(in') = Len(in) - 1
        /\ \A n \in 1 .. Len(in') : n + 1 \in 1 .. Len(in) /\ in'[n] = in[n + 1] /\ n + 1 # 1
        /\ Len(in) \in Nat
    BY <1>0, <1>15, LineTaken DEF RejectLine
  <2>2. PICK i \in Ids : i = Head(in).id
    BY <2>1 DEF InType
  <2>3. Ended' = Ended
    <3>1. PICK pieces \in {<<Garbage>>, <<Garbage, Garbage>>} : out' = out \o pieces
      BY <1>15 DEF RejectLine
    <3>2. out \in Seq(LineType) /\ pieces \in Seq(LineType) /\ \A n \in 1 .. Len(pieces) : pieces[n] = Garbage
      <4>1. <<Garbage>> \in Seq(LineType) /\ <<Garbage, Garbage>> \in Seq(LineType)
        BY LineFacts, ShortSequences
      <4>2. \A n \in 1 .. Len(pieces) : pieces[n] = Garbage
        OBVIOUS
      <4> QED
        BY <1>0, <4>1, <4>2 DEF TypeOK
    <3>3. /\ \A n \in 1 .. Len(out') : (n \in 1 .. Len(out) /\ out'[n] = out[n]) \/ out'[n] = Garbage
          /\ \A n \in 1 .. Len(out) : n \in 1 .. Len(out') /\ out'[n] = out[n]
      BY <3>1, <3>2
    <3>4. buffer' = buffer
      BY <1>15 DEF RejectLine, providerVars
    <3>5. \A k \in Ids : Answer(k) \in Written' <=> Answer(k) \in Written
      BY <3>3, <3>4, LineFacts DEF Written
    <3> QED
      BY <3>5, EndedKept
  <2>4. Open' = Open /\ Running' = Running /\ Returned' = Returned /\ nextId' = nextId
    BY <1>15 DEF RejectLine, providerVars, Open, InRequest, Running, Returned, Ids
  <2>5. \A n \in 1 .. Len(in) : n = 1 \/ (n - 1 \in 1 .. Len(in') /\ in'[n - 1] = in[n])
    BY <2>1
  <2>6. CASE Head(in).kind = "command"
    <3>1. i \in Waiting /\ Waiting' = Waiting \ {i}
      <4>1. Untaken(i)
        BY <2>1, <2>2, <2>6 DEF Untaken
      <4>2. \A k \in Ids : Untaken(k)' => Untaken(k) /\ k # i
        BY <2>1, <2>2, <2>6 DEF Untaken, CommandInv
      <4>3. \A k \in Ids : Untaken(k) /\ k # i => Untaken(k)'
        BY <2>1, <2>2, <2>5 DEF Untaken
      <4> QED
        BY <4>1, <4>2, <4>3 DEF Waiting, Ids
    <3>2. Abstract!Lose(i)
      BY <2>3, <2>4, <3>1 DEF Abstract!Lose
    <3> QED
      BY <3>1, <3>2 DEF AbstractStep, Abstract!Next
  <2>7. CASE Head(in).kind # "command"
    <3>1. \A k \in Ids : Untaken(k)' <=> Untaken(k)
      BY <2>1, <2>5, <2>7 DEF Untaken
    <3>2. Same
      BY <2>3, <2>4, <3>1 DEF Same, Waiting, Ids
    <3> QED
      BY <3>2, SameStep
  <2> QED
    BY <2>6, <2>7
<1>16. ASSUME NEW j \in jobs, JobAsks(j)
       PROVE  AbstractStep
  <2>1. Written' = Written \cup {ModelRequest(j.id)}
    BY <1>0, <1>16, LineFacts, LineWritten DEF JobAsks, providerVars
  <2>2. Ended' = Ended
    BY <1>0, <2>1, LineFacts, EndedKept
  <2>3. PICK k : k.id = j.id /\ jobs' = (jobs \ {j}) \cup {k}
    <3>1. [j EXCEPT !.pc = "asks", !.asks = @ + 1].id = j.id
      BY <1>0 DEF TypeOK, JobType
    <3> QED
      BY <1>16, <3>1 DEF JobAsks
  <2>4. Running' = Running
    BY <2>3 DEF Running
  <2>5. Same
    BY <1>16, <2>2, <2>4 DEF JobAsks, providerVars, Same, Open, InRequest, Waiting, Untaken, Returned, Ids
  <2> QED
    BY <2>5, SameStep
<1>17. ASSUME NEW j \in jobs, JobEnds(j)
       PROVE  AbstractStep
  <2>1. Written' = Written \cup {Answer(j.id)}
    BY <1>0, <1>17, LineFacts, LineWritten DEF JobEnds, providerVars
  <2>2. Ended' = Ended \cup {j.id}
    <3>1. \A i \in Ids : Answer(i) \in Written' <=> Answer(i) \in Written \/ i = j.id
      BY <1>0, <2>1, LineFacts
    <3> QED
      BY <1>0, <3>1 DEF Ended, Ids
  <2>3. Running' = Running \ {j.id} /\ j.id \in Running
    <3>1. jobs' = jobs \ {j} /\ \A k \in jobs : k.id = j.id => k = j
      BY <1>17 DEF JobEnds, CommandInv
    <3> QED
      BY <3>1 DEF Running
  <2>4. Open' = Open /\ Waiting' = Waiting /\ Returned' = Returned /\ nextId' = nextId
    BY <1>17 DEF JobEnds, providerVars, Open, InRequest, Waiting, Untaken, Returned, Ids
  <2>5. Abstract!End(j.id)
    BY <2>2, <2>3, <2>4 DEF Abstract!End
  <2> QED
    BY <2>3, <2>5 DEF AbstractStep, Abstract!Next
<1>18. CASE JobPrints
  <2>1. Written' = Written \cup {Garbage}
    BY <1>0, <1>18, LineFacts, LineWritten DEF JobPrints, providerVars
  <2>2. Ended' = Ended
    BY <2>1, LineFacts, EndedKept
  <2>3. Same
    BY <1>18, <2>2 DEF JobPrints, providerVars, Same, Open, InRequest, Waiting, Untaken, Running,
      Returned, Ids
  <2> QED
    BY <2>3, SameStep
<1>19. CASE Finished \/ UNCHANGED vars
  <2>1. Same
    BY <1>19 DEF Finished, vars, workerVars, providerVars, Same, Open, InRequest, Waiting, Untaken,
      Running, Ended, Written, Returned, Ids, Answer
  <2> QED
    BY <2>1, SameStep
<1> QED
  BY <1>1, <1>2, <1>4, <1>5, <1>6, <1>7, <1>9, <1>10, <1>12, <1>13, <1>14, <1>15, <1>16, <1>17,
     <1>18, <1>19 DEF Next

(***************************************************************************)
(* Theorems.                                                               *)
(***************************************************************************)

\* Between provider and worker (worker.py, memflywheel-host-worker.ts) a command is in
\* one place, belongs to one request, and crosses the pipes alone unless a request
\* has raised over a line.
THEOREM BridgeInvariant == Spec => []Inv
<1>1. Init => Inv
  BY TypeInit, CommandInit, PipeInit DEF Inv
<1>2. Inv /\ [Next]_vars => Inv'
  BY TypeStep, CommandStep, PipeStep DEF Inv
<1> QED
  BY <1>1, <1>2, PTL DEF Spec

\* What a request has returned, if it has returned.
OwnResults == \A i \in Ids : answered[i] \in {0, i}

\* request() never returns the result of another command, whatever was printed,
\* answered late or left behind by a request that raised.
THEOREM AnswersAreOwn == Spec => []AnswerIsOwn
<1>1. Init => OwnResults
  BY DEF Init, OwnResults
<1>2. Inv /\ OwnResults /\ [Next]_vars => OwnResults'
  <2> SUFFICES ASSUME Inv, OwnResults, [Next]_vars PROVE OwnResults'
    OBVIOUS
  <2>1. ASSUME NEW c \in Callers, Return(c) PROVE OwnResults'
    BY <2>1 DEF Return, IsAnswer, Inv, TypeInv, TypeOK, OwnResults
  <2>2. CASE answered' = answered
    BY <2>2 DEF OwnResults
  <2> QED
    BY <2>1, <2>2 DEF Next, Call, Begin, AskModel, Respond, Ignore, GiveUp, WorkerGone, TimeOut,
      Shutdown, TakeLine, RejectLine, JobAsks, JobEnds, JobPrints, Crash, Finished, vars
<1>3. Inv /\ OwnResults => AnswerIsOwn
  BY DEF OwnResults, AnswerIsOwn
<1> QED
  BY <1>1, <1>2, <1>3, BridgeInvariant, PTL DEF Spec

\* The worker never runs a command whose request is over, unless that request
\* raised over a line (request() under _lock, worker.py).
THEOREM CommandsDoNotRunOn == Spec => []NothingRunsOn
<1>1. Inv => NothingRunsOn
  BY DEF Inv, TypeInv, CommandInv, NothingRunsOn, Owned
<1> QED
  BY <1>1, BridgeInvariant, PTL

\* As long as no request has raised over a line, readline() leaves nothing in its
\* buffer that select() on the pipe would miss.
THEOREM BufferHidesNothing == Spec => []NothingLeftInBuffer
<1>1. Inv => NothingLeftInBuffer
  <2> SUFFICES ASSUME Inv, alive, left = {} PROVE \A n \in DOMAIN buffer : buffer[n] = Garbage
    BY DEF NothingLeftInBuffer
  <2>1. buffer \in Seq(LineType)
    BY DEF Inv, TypeInv, TypeOK
  <2> QED
    BY <2>1 DEF Inv, PipeInv
<1> QED
  BY <1>1, BridgeInvariant, PTL

\* For any number of callers, commands, deaths and lines that do not parse the bridge is
\* a remote call that runs at most once: a command starts only if it was sent and has not
\* started, one request is open at a time, and it returns only after its own command has
\* ended (request of provider/__init__.py, handleCommand of worker.mjs).
THEOREM BridgeImplementsRequests == Spec => ImplementsRequests
<1>1. Init => StreamInv /\ Abstract!Init
  <2> SUFFICES ASSUME Init
               PROVE  StreamInv /\ Abstract!Init
    OBVIOUS
  <2>1. Len(in) = 0 /\ Len(out) = 0 /\ Len(buffer) = 0 /\ Len(Stream) = 0
    BY DEF Init, Stream
  <2>2. StreamInv
    BY <2>1 DEF StreamInv
  <2>3. Open = {} /\ Waiting = {} /\ Running = {} /\ Ended = {} /\ Returned = {}
    BY <2>1 DEF Init, Open, InRequest, Waiting, Untaken, Running, Ended, Written, Returned
  <2> QED
    BY <2>2, <2>3 DEF Init, Abstract!Init
<1>2. Inv /\ Inv' /\ StreamInv /\ [Next]_vars => StreamInv' /\ [Abstract!Next]_(Abstract!requestVars)
  BY StreamStep, RefinementStep DEF Inv, AbstractStep
<1> QED
  BY <1>1, <1>2, BridgeInvariant, PTL DEF Spec, ImplementsRequests, Abstract!Spec
==============================================================================
