-------------------------- MODULE OpenCodePortProofs --------------------------
(***************************************************************************)
(* Theorems about OpenCodePort for any sessions, any message limit and any *)
(* number of turns, idle events and failures: a dispatch that resolved has *)
(* been learned, a deleted session leaves nothing behind, and the          *)
(* transcript that counts as delivered moves on.                           *)
(***************************************************************************)
EXTENDS OpenCodePort, TLAPS

(***************************************************************************)
(* The invariant.                                                          *)
(***************************************************************************)

DispatchType ==
  [session : Sessions, after : Nat, pc : {"waiting", "asking", "queued", "ticking"} \cup Settled,
   got : SUBSET Messages, seen : 0 .. MaxTurns, drops : BOOLEAN]

TurnType == [op : {"turn"}, session : Sessions, dispatch : Nat, messages : SUBSET Messages]
EndType == [op : {"sweep", "end"}, session : Sessions, dispatch : {0}]
TaskType == TurnType \cup EndType

Types ==
  /\ turns \in [Sessions -> 0 .. MaxTurns]
  /\ listed \in [Sessions -> 0 .. MaxTurns]
  /\ ended \in [Sessions -> {"open", "ending", "ticking", "gone", "stuck"}]
  /\ pending \in [Sessions -> 0 .. MaxTurns]
  /\ calls \in [Sessions -> SUBSET (1 .. MaxTurns)]
  /\ tail \in [Sessions -> 0 .. MaxIdles]
  /\ live \subseteq Sessions /\ raced \subseteq Sessions
  /\ failures \in 0 .. MaxFailures
  /\ delivered \in [Sessions -> SUBSET Messages]
  /\ held \in [Sessions -> SUBSET Messages]
  /\ learned \in [Sessions -> SUBSET Messages]
  /\ handed \in [Sessions -> SUBSET Messages]
  /\ dispatch \in Seq(DispatchType) /\ Len(dispatch) <= MaxIdles
  /\ queue \in Seq(TaskType)

Turn(i) == queue[i].op = "turn"

\* A queued dispatch has one task, a session one sweep or end, while it is being deleted.
TaskInv ==
  /\ \A i \in DOMAIN queue :
       IF Turn(i)
       THEN /\ queue[i].dispatch \in DOMAIN dispatch
            /\ dispatch[queue[i].dispatch].pc = "queued"
            /\ dispatch[queue[i].dispatch].session = queue[i].session
            /\ dispatch[queue[i].dispatch].got \subseteq queue[i].messages
       ELSE ended[queue[i].session] = "ending"
  /\ \A i, j \in DOMAIN queue :
       Turn(i) /\ Turn(j) /\ queue[i].dispatch = queue[j].dispatch => i = j
  /\ \A i, j \in DOMAIN queue :
       ~Turn(i) /\ ~Turn(j) /\ queue[i].session = queue[j].session => i = j

SameSession(d, e) == dispatch[d].session = dispatch[e].session
Unsettled(d) == dispatch[d].pc \notin Settled
Asked(d) == dispatch[d].pc \in {"asking", "queued", "ticking"}
Open(d) == ended[dispatch[d].session] = "open"

AfterInv ==
  \A d \in DOMAIN dispatch :
    /\ dispatch[d].after \in 0 .. d - 1
    /\ dispatch[d].after # 0 => SameSession(dispatch[d].after, d)
    /\ turns[dispatch[d].session] > 0
    /\ Unsettled(d) => Open(d) \/ dispatch[d].session \in raced

\* The chain: a dispatch that is not settled is reached from all the later ones, which
\* wait, and from the tail while the session is open.
ChainInv ==
  /\ \A d, e \in DOMAIN dispatch :
       SameSession(d, e) /\ e < d /\ Unsettled(e) =>
         dispatch[d].pc = "waiting" /\ e <= dispatch[d].after
  /\ \A d \in DOMAIN dispatch :
       Unsettled(d) /\ Open(d) => d <= tail[dispatch[d].session]
  /\ \A s \in Sessions : tail[s] # 0 =>
       tail[s] \in DOMAIN dispatch /\ dispatch[tail[s]].session = s

(***************************************************************************)
(* Types, and how the steps move a dispatch and the queue.                 *)
(***************************************************************************)

USE PortAssumption

LEMMA ReadTypes ==
  ASSUME Types, NEW s \in Sessions, NEW messages \in SUBSET Messages
  PROVE  /\ Listing(s) \subseteq Messages
         /\ WithCompletedText(s, messages) \subseteq Messages
         /\ WithCalls(s, messages) \subseteq Messages
<1>1. pending[s] \in 0 .. MaxTurns /\ calls[s] \subseteq 1 .. MaxTurns
  BY DEF Types
<1>2. WithCompletedText(s, messages) \subseteq Messages
  BY <1>1 DEF WithCompletedText, Messages
<1>3. WithCalls(s, messages) \subseteq Messages
  BY <1>1 DEF WithCalls, Messages
<1> QED
  BY <1>2, <1>3 DEF Listing

\* Dispatch d goes on.
Moved(d) ==
  /\ d \in DOMAIN dispatch /\ Unsettled(d)
  /\ dispatch' \in Seq(DispatchType) /\ Len(dispatch') = Len(dispatch)
  /\ \A e \in DOMAIN dispatch : e # d => dispatch'[e] = dispatch[e]
  /\ dispatch'[d].session = dispatch[d].session
  /\ dispatch'[d].after = dispatch[d].after

Keeps(d) ==
  /\ dispatch'[d].got = dispatch[d].got
  /\ dispatch'[d].seen = dispatch[d].seen
  /\ dispatch'[d].drops = dispatch[d].drops

LEMMA DispatchFields ==
  ASSUME NEW d \in DispatchType
  PROVE  /\ d.session \in Sessions /\ d.after \in Nat /\ d.got \subseteq Messages
         /\ d.pc \in {"waiting", "asking", "queued", "ticking", "done", "failed"}
         /\ d.seen \in 0 .. MaxTurns /\ d.drops \in BOOLEAN
BY DEF DispatchType, Settled

LEMMA Dispatched ==
  ASSUME Types, NEW d \in DOMAIN dispatch
  PROVE  dispatch[d] \in DispatchType /\ d \in 1 .. Len(dispatch)
BY DEF Types

LEMMA Replaced ==
  ASSUME NEW T, NEW q \in Seq(T), NEW i \in DOMAIN q, NEW r \in T
  PROVE  /\ [q EXCEPT ![i] = r] \in Seq(T) /\ Len([q EXCEPT ![i] = r]) = Len(q)
         /\ [q EXCEPT ![i] = r][i] = r
         /\ \A j \in DOMAIN q : j # i => [q EXCEPT ![i] = r][j] = q[j]
OBVIOUS

LEMMA MovedTo ==
  ASSUME Types, NEW d \in DOMAIN dispatch, Unsettled(d),
         NEW pc \in {"waiting", "asking", "queued", "ticking"} \cup Settled,
         NEW got \in SUBSET Messages, NEW seen \in 0 .. MaxTurns, NEW drops \in BOOLEAN,
         dispatch' = [dispatch EXCEPT ![d] = [dispatch[d] EXCEPT !.pc = pc, !.got = got,
                                                                 !.seen = seen, !.drops = drops]]
  PROVE  /\ Moved(d) /\ dispatch'[d].pc = pc
         /\ dispatch'[d].got = got /\ dispatch'[d].seen = seen /\ dispatch'[d].drops = drops
<1> DEFINE r == [dispatch[d] EXCEPT !.pc = pc, !.got = got, !.seen = seen, !.drops = drops]
<1>1. dispatch[d] \in DispatchType
  BY Dispatched
<1>2. /\ r \in DispatchType /\ r.session = dispatch[d].session /\ r.after = dispatch[d].after
      /\ r.pc = pc /\ r.got = got /\ r.seen = seen /\ r.drops = drops
  BY <1>1 DEF DispatchType
<1> HIDE DEF r
<1>3. dispatch' = [dispatch EXCEPT ![d] = r] /\ dispatch \in Seq(DispatchType)
  BY DEF Types, r
<1>4. /\ dispatch' \in Seq(DispatchType) /\ Len(dispatch') = Len(dispatch)
      /\ dispatch'[d] = r
      /\ \A e \in DOMAIN dispatch : e # d => dispatch'[e] = dispatch[e]
  BY <1>2, <1>3, Replaced
<1> QED
  BY <1>2, <1>4 DEF Moved

LEMMA MovedPc ==
  ASSUME Types, NEW d \in DOMAIN dispatch, Unsettled(d),
         NEW pc \in {"waiting", "asking", "queued", "ticking"} \cup Settled,
         dispatch' = [dispatch EXCEPT ![d].pc = pc]
  PROVE  Moved(d) /\ Keeps(d) /\ dispatch'[d].pc = pc
<1> DEFINE r == [dispatch[d] EXCEPT !.pc = pc]
<1>1. dispatch[d] \in DispatchType
  BY Dispatched
<1>2. /\ r \in DispatchType /\ r.session = dispatch[d].session /\ r.after = dispatch[d].after
      /\ r.pc = pc /\ r.got = dispatch[d].got /\ r.seen = dispatch[d].seen
      /\ r.drops = dispatch[d].drops
  BY <1>1 DEF DispatchType
<1>3. dispatch' = [dispatch EXCEPT ![d] = r] /\ dispatch \in Seq(DispatchType)
  BY DEF Types
<1> HIDE DEF r
<1>4. /\ dispatch' \in Seq(DispatchType) /\ Len(dispatch') = Len(dispatch)
      /\ dispatch'[d] = r
      /\ \A e \in DOMAIN dispatch : e # d => dispatch'[e] = dispatch[e]
  BY <1>2, <1>3, Replaced
<1> QED
  BY <1>2, <1>4 DEF Moved, Keeps

LEMMA Settles ==
  ASSUME Types, NEW d \in DOMAIN dispatch, Unsettled(d), NEW pc \in Settled, Settle(d, pc)
  PROVE  /\ Moved(d) /\ Keeps(d) /\ dispatch'[d].pc = pc
         /\ tail' \in [Sessions -> 0 .. MaxIdles]
         /\ \A s \in Sessions : tail'[s] = IF tail[s] = d THEN 0 ELSE tail[s]
<1>1. dispatch' = [dispatch EXCEPT ![d].pc = pc]
  BY DEF Settle
<1>2. Moved(d) /\ Keeps(d) /\ dispatch'[d].pc = pc
  BY <1>1, MovedPc
<1>3. tail' = [s \in Sessions |-> IF tail[s] = d THEN 0 ELSE tail[s]]
  BY DEF Settle
<1>4. MaxIdles \in Nat /\ tail \in [Sessions -> 0 .. MaxIdles]
  BY DEF Types
<1> QED
  BY <1>2, <1>3, <1>4
 
LEMMA Asks ==
  ASSUME Types, NEW d \in DOMAIN dispatch, Ask(d)
  PROVE  LET s == dispatch[d].session
         IN  /\ Moved(d) /\ dispatch'[d].pc = "asking"
             /\ dispatch'[d].got = Listing(s) /\ dispatch'[d].seen = turns[s]
             /\ dispatch'[d].drops = HasAnswer(Listing(s))
<1> DEFINE s == dispatch[d].session
           got == Listing(s)
           seen == turns[s]
           drops == HasAnswer(Listing(s))
<1>1. dispatch[d] \in DispatchType /\ s \in Sessions
  BY Dispatched, DispatchFields
<1>2. got \in SUBSET Messages /\ seen \in 0 .. MaxTurns /\ drops \in BOOLEAN
  BY <1>1, ReadTypes DEF Types, HasAnswer
<1>3. dispatch[d].pc = "waiting" /\
      dispatch' = [dispatch EXCEPT ![d].pc = "asking", ![d].got = got,
                                   ![d].seen = seen, ![d].drops = drops]
  BY DEF Ask
<1>4. Unsettled(d)
  BY <1>3 DEF Unsettled, Settled
<1> HIDE DEF got, seen, drops, s
<1>5. dispatch' = [dispatch EXCEPT ![d] = [dispatch[d] EXCEPT !.pc = "asking", !.got = got,
                                                              !.seen = seen, !.drops = drops]]
  BY <1>1, <1>3 DEF DispatchType
<1>6. Moved(d) /\ dispatch'[d].pc = "asking"
      /\ dispatch'[d].got = got /\ dispatch'[d].seen = seen /\ dispatch'[d].drops = drops
  BY <1>2, <1>4, <1>5, MovedTo
<1> QED
  BY <1>6 DEF s, got, seen, drops

LEMMA HandsOver ==
  ASSUME Types, NEW d \in DOMAIN dispatch, HandOver(d)
  PROVE  LET s == dispatch[d].session
         IN  /\ Moved(d) /\ dispatch'[d].pc = "queued"
             /\ dispatch'[d].got = WithCompletedText(s, dispatch[d].got)
             /\ dispatch'[d].seen = dispatch[d].seen /\ dispatch'[d].drops = dispatch[d].drops
<1> DEFINE s == dispatch[d].session
           got == WithCompletedText(s, dispatch[d].got)
           seen == dispatch[d].seen
           drops == dispatch[d].drops
<1>1. /\ dispatch[d] \in DispatchType /\ s \in Sessions /\ dispatch[d].got \in SUBSET Messages
      /\ seen \in 0 .. MaxTurns /\ drops \in BOOLEAN
  BY Dispatched, DispatchFields
<1>2. got \in SUBSET Messages
  BY <1>1, ReadTypes
<1>3. dispatch[d].pc = "asking" /\
      dispatch' = [dispatch EXCEPT ![d].pc = "queued", ![d].got = got]
  BY DEF HandOver
<1>4. Unsettled(d)
  BY <1>3 DEF Unsettled, Settled
<1> HIDE DEF got, seen, drops, s
<1>5. dispatch' = [dispatch EXCEPT ![d] = [dispatch[d] EXCEPT !.pc = "queued", !.got = got,
                      !.seen = seen, !.drops = drops]]
  BY <1>1, <1>3 DEF DispatchType, seen, drops
<1>6. Moved(d) /\ dispatch'[d].pc = "queued" /\ dispatch'[d].got = got
      /\ dispatch'[d].seen = seen /\ dispatch'[d].drops = drops
  BY <1>1, <1>2, <1>4, <1>5, MovedTo
<1> QED
  BY <1>6 DEF s, got, seen, drops

\* Queues.
LEMMA AppendFacts ==
  ASSUME NEW T, NEW q \in Seq(T), NEW x \in T
  PROVE  /\ Append(q, x) \in Seq(T) /\ Len(Append(q, x)) = Len(q) + 1
         /\ DOMAIN q = 1 .. Len(q) /\ Len(q) \in Nat
         /\ DOMAIN Append(q, x) = 1 .. Len(q) + 1
         /\ \A i \in DOMAIN q : Append(q, x)[i] = q[i]
         /\ Append(q, x)[Len(q) + 1] = x
OBVIOUS

LEMMA TailFacts ==
  ASSUME NEW T, NEW q \in Seq(T), q # <<>>
  PROVE  /\ Tail(q) \in Seq(T) /\ 1 \in DOMAIN q /\ Head(q) = q[1] /\ q[1] \in T
         /\ DOMAIN q = 1 .. Len(q) /\ Len(q) \in Nat
         /\ DOMAIN Tail(q) = 1 .. Len(q) - 1 /\ Len(Tail(q)) = Len(q) - 1
         /\ \A i \in 1 .. Len(q) - 1 : i + 1 \in DOMAIN q /\ Tail(q)[i] = q[i + 1]
OBVIOUS

LEMMA TaskFields ==
  ASSUME NEW t \in TaskType
  PROVE  /\ t.session \in Sessions /\ t.op \in {"turn", "sweep", "end"}
         /\ t.op = "turn" => t.dispatch \in Nat /\ t.messages \subseteq Messages
         /\ t.op # "turn" => t.dispatch = 0
BY DEF TaskType, TurnType, EndType

LEMMA EndTask ==
  ASSUME NEW op \in {"sweep", "end"}, NEW s \in Sessions
  PROVE  /\ Queued(op, s) \in TaskType /\ Queued(op, s).op = op
         /\ Queued(op, s).session = s /\ Queued(op, s).dispatch = 0
BY DEF Queued, TaskType, EndType

\* The task that the SDK takes.
LEMMA Taken ==
  ASSUME Types, queue # <<>>
  PROVE  /\ Head(queue) = queue[1] /\ 1 \in DOMAIN queue /\ queue[1] \in TaskType
         /\ queue[1].session \in Sessions
         /\ Tail(queue) \in Seq(TaskType)
<1>1. queue \in Seq(TaskType)
  BY DEF Types
<1> QED
  BY <1>1, TailFacts, TaskFields

LEMMA TakenTurn ==
  ASSUME Types, TaskInv, Task("turn")
  PROVE  /\ queue # <<>> /\ Turn(1)
         /\ queue[1].dispatch \in DOMAIN dispatch
         /\ dispatch[queue[1].dispatch].pc = "queued" /\ Unsettled(queue[1].dispatch)
         /\ dispatch[queue[1].dispatch].session = queue[1].session
         /\ dispatch[queue[1].dispatch].got \subseteq queue[1].messages
         /\ queue[1].messages \subseteq Messages
<1>1. queue # <<>> /\ queue[1].op = "turn" /\ 1 \in DOMAIN queue /\ queue[1] \in TaskType
  BY Taken DEF Task
<1>2. /\ queue[1].dispatch \in DOMAIN dispatch
      /\ dispatch[queue[1].dispatch].pc = "queued"
      /\ dispatch[queue[1].dispatch].session = queue[1].session
      /\ dispatch[queue[1].dispatch].got \subseteq queue[1].messages
  BY <1>1 DEF TaskInv, Turn
<1> QED
  BY <1>1, <1>2, TaskFields DEF Turn, Unsettled, Settled

LEMMA TakenEnd ==
  ASSUME Types, TaskInv, NEW op \in {"sweep", "end"}, Task(op)
  PROVE  /\ queue # <<>> /\ ~Turn(1) /\ queue[1].op = op
         /\ ended[queue[1].session] = "ending"
<1>1. queue # <<>> /\ queue[1].op = op /\ 1 \in DOMAIN queue
  BY Taken DEF Task
<1> QED
  BY <1>1 DEF TaskInv, Turn

LEMMA TypesInit == Init => Types /\ TaskInv
<1> SUFFICES ASSUME Init PROVE Types /\ TaskInv
  OBVIOUS
<1>1. dispatch = <<>> /\ queue = <<>>
  BY DEF Init
<1>2. TaskInv
  BY <1>1 DEF TaskInv
<1>3. Types
  BY <1>1 DEF Types, Init
<1> QED
  BY <1>2, <1>3

LEMMA HostTypes ==
  ASSUME Types, NEW s \in Sessions,
         HostTurn(s) \/ HostLists(s) \/ Idle(s) \/ Deleted(s)
         \/ DeletedReturns(s) \/ DeletedThrows(s)
  PROVE  Types'
<1>0. MaxTurns \in Nat /\ MaxFailures \in Nat /\ MaxIdles \in Nat
  OBVIOUS
<1>1. CASE HostTurn(s)
  BY <1>0, <1>1 DEF Types, HostTurn, sdkVars
<1>2. CASE HostLists(s)
  BY <1>0, <1>2 DEF Types, HostLists, sdkVars, portVars
<1>3. CASE Idle(s)
  <2> DEFINE r == [session |-> s, after |-> tail[s], pc |-> "waiting",
                   got |-> {}, seen |-> 0, drops |-> FALSE]
  <2>1. r \in DispatchType
    BY <1>0 DEF Types, DispatchType
  <2>2. dispatch' = Append(dispatch, r) /\ dispatch \in Seq(DispatchType)
    BY <1>3 DEF Types, Idle, IdleAfter
  <2> HIDE DEF r
  <2>3. dispatch' \in Seq(DispatchType) /\ Len(dispatch') = Len(dispatch) + 1
        /\ Len(dispatch) \in Nat
    BY <2>1, <2>2, AppendFacts
  <2>4. Len(dispatch') <= MaxIdles
    BY <1>0, <1>3, <2>3 DEF Idle, IdleAfter
  <2>5. tail' \in [Sessions -> 0 .. MaxIdles]
    BY <1>0, <1>3, <2>3, <2>4 DEF Types, Idle, IdleAfter
  <2> QED
    BY <1>3, <2>3, <2>4, <2>5 DEF Types, Idle, IdleAfter, sdkVars, hostVars
<1>4. CASE Deleted(s)
  <2>1. queue' \in Seq(TaskType)
    <3>1. queue' = Append(queue, Queued("sweep", s)) /\ queue \in Seq(TaskType)
      BY <1>4 DEF Types, Deleted, Ending
    <3> QED
      BY <3>1, EndTask, AppendFacts
  <2> QED
    BY <1>4, <2>1 DEF Types, Deleted, hostVars
<1>5. CASE DeletedReturns(s)
  BY <1>0, <1>5 DEF Types, DeletedReturns, sdkVars, hostVars
<1>6. CASE DeletedThrows(s)
  BY <1>0, <1>6 DEF Types, DeletedThrows, Fail, sdkVars, hostVars
<1> QED
  BY <1>1, <1>2, <1>3, <1>4, <1>5, <1>6

LEMMA DispatchTypes ==
  ASSUME Types, NEW d \in DOMAIN dispatch,
         Ask(d) \/ Skip(d) \/ AskFails(d) \/ Repeated(d) \/ HandOver(d)
         \/ HandlerReturns(d) \/ HandlerThrows(d)
  PROVE  Types' /\ Moved(d)
<1>0. MaxTurns \in Nat /\ MaxFailures \in Nat /\ MaxIdles \in Nat
  OBVIOUS
<1> DEFINE s == dispatch[d].session
<1>1. s \in Sessions /\ dispatch[d].got \in SUBSET Messages
  BY Dispatched, DispatchFields
<1>2. Moved(d) => dispatch' \in Seq(DispatchType) /\ Len(dispatch') <= MaxIdles
  BY DEF Types, Moved
<1>3. CASE Ask(d)
  <2>1. Moved(d)
    BY <1>3, Asks
  <2> QED
    BY <1>2, <1>3, <2>1 DEF Types, Ask, sdkVars, hostVars
<1>4. CASE HandOver(d)
  <2> DEFINE messages == WithCalls(s, WithCompletedText(s, dispatch[d].got))
             t == [op |-> "turn", session |-> s, dispatch |-> d, messages |-> messages]
  <2>1. Moved(d)
    BY <1>4, HandsOver
  <2>2. messages \in SUBSET Messages
    BY <1>1, ReadTypes
  <2>3. queue' = Append(queue, t) /\ queue \in Seq(TaskType)
        /\ handed' = [handed EXCEPT ![s] = @ \cup messages]
        /\ calls' = [calls EXCEPT ![s] = {}]
    BY <1>4 DEF Types, HandOver
  <2>4. d \in Nat
    BY Dispatched
  <2> HIDE DEF messages
  <2>5. t \in TaskType
    BY <1>1, <2>2, <2>4 DEF TaskType, TurnType
  <2> HIDE DEF t
  <2>6. queue' \in Seq(TaskType)
    BY <2>3, <2>5, AppendFacts
  <2>7. handed' \in [Sessions -> SUBSET Messages]
    BY <1>1, <2>2, <2>3 DEF Types
  <2> QED
    BY <1>1, <1>2, <1>4, <2>1, <2>3, <2>6, <2>7 DEF Types, HandOver, hostVars
<1>5. CASE Skip(d)
  <2>1. Unsettled(d) /\ Settle(d, "failed")
    BY <1>5 DEF Skip, Unsettled, Settled
  <2>2. Moved(d) /\ tail' \in [Sessions -> 0 .. MaxIdles]
    BY <2>1, Settles DEF Settled
  <2> QED
    BY <1>2, <1>5, <2>2 DEF Types, Skip, sdkVars, hostVars
<1>6. CASE AskFails(d)
  <2>1. Unsettled(d) /\ Settle(d, "failed")
    BY <1>6 DEF AskFails, Unsettled, Settled
  <2>2. Moved(d) /\ tail' \in [Sessions -> 0 .. MaxIdles]
    BY <2>1, Settles DEF Settled
  <2> QED
    BY <1>0, <1>2, <1>6, <2>2 DEF Types, AskFails, Fail, sdkVars, hostVars
<1>7. CASE Repeated(d)
  <2>1. Unsettled(d) /\ Settle(d, "done")
    BY <1>7 DEF Repeated, Unsettled, Settled
  <2>2. Moved(d) /\ tail' \in [Sessions -> 0 .. MaxIdles]
    BY <2>1, Settles DEF Settled
  <2> QED
    BY <1>2, <1>7, <2>2 DEF Types, Repeated, sdkVars, hostVars
<1>8. CASE HandlerReturns(d)
  <2>1. Unsettled(d) /\ Settle(d, "done")
    BY <1>8 DEF HandlerReturns, Unsettled, Settled
  <2>2. Moved(d) /\ tail' \in [Sessions -> 0 .. MaxIdles]
    BY <2>1, Settles DEF Settled
  <2>3. delivered' = [delivered EXCEPT ![s] = dispatch[d].got]
        /\ (pending' = pending \/ pending' = [pending EXCEPT ![s] = 0])
    BY <1>8 DEF HandlerReturns
  <2>4. delivered' \in [Sessions -> SUBSET Messages]
    BY <1>1, <2>3 DEF Types
  <2>5. pending' \in [Sessions -> 0 .. MaxTurns]
    <3>1. pending \in [Sessions -> 0 .. MaxTurns] /\ 0 \in 0 .. MaxTurns
      BY <1>0 DEF Types
    <3>2. pending' = pending \/ pending' = [pending EXCEPT ![s] = 0]
      BY <2>3
    <3> QED
      BY <3>1, <3>2
  <2> QED
    BY <1>2, <1>8, <2>2, <2>4, <2>5 DEF Types, HandlerReturns, sdkVars, hostVars
<1>9. CASE HandlerThrows(d)
  <2>1. Unsettled(d) /\ Settle(d, "failed")
    BY <1>9 DEF HandlerThrows, Unsettled, Settled
  <2>2. Moved(d) /\ tail' \in [Sessions -> 0 .. MaxIdles]
    BY <2>1, Settles DEF Settled
  <2> QED
    BY <1>0, <1>2, <1>9, <2>2 DEF Types, HandlerThrows, Fail, sdkVars, hostVars
<1> QED
  BY <1>3, <1>4, <1>5, <1>6, <1>7, <1>8, <1>9

\* What a turn that the SDK has taken does to its dispatch and its session.
LEMMA TurnTaken ==
  ASSUME Types, TaskInv, TurnReturns \/ TurnThrows
  PROVE  LET d == queue[1].dispatch
             s == queue[1].session
         IN  /\ Task("turn") /\ Moved(d) /\ Keeps(d) /\ queue' = Tail(queue)
             /\ live' = live \cup {s} /\ held' = [held EXCEPT ![s] = @ \cup queue[1].messages]
             /\ tail' \in [Sessions -> 0 .. MaxIdles]
             /\ TurnReturns =>
                  /\ dispatch'[d].pc = "ticking" /\ tail' = tail
                  /\ learned' = [learned EXCEPT ![s] = @ \cup held'[s]]
             /\ ~TurnReturns =>
                  /\ dispatch'[d].pc = "failed" /\ learned' = learned
                  /\ \A t \in Sessions : tail'[t] = IF tail[t] = d THEN 0 ELSE tail[t]
<1> DEFINE d == queue[1].dispatch
           s == queue[1].session
<1>1. Task("turn")
  BY DEF TurnReturns, TurnThrows
<1>2. Head(queue) = queue[1]
  BY <1>1, TakenTurn, Taken
<1>3. d \in DOMAIN dispatch /\ Unsettled(d)
  BY <1>1, TakenTurn
<1>4. CASE TurnReturns
  <2>1. dispatch' = [dispatch EXCEPT ![d].pc = "ticking"] /\ tail' = tail /\ queue' = Tail(queue)
        /\ live' = live \cup {s} /\ held' = [held EXCEPT ![s] = @ \cup queue[1].messages]
        /\ learned' = [learned EXCEPT ![s] = @ \cup held'[s]]
    BY <1>2, <1>4 DEF TurnReturns, Hold
  <2>2. Moved(d) /\ Keeps(d) /\ dispatch'[d].pc = "ticking"
    BY <1>3, <2>1, MovedPc
  <2>3. tail \in [Sessions -> 0 .. MaxIdles]
    BY DEF Types
  <2> QED
    BY <1>1, <1>4, <2>1, <2>2, <2>3
<1>5. CASE ~TurnReturns
  <2>1. Settle(d, "failed") /\ queue' = Tail(queue) /\ learned' = learned
        /\ live' = live \cup {s} /\ held' = [held EXCEPT ![s] = @ \cup queue[1].messages]
    BY <1>2, <1>5 DEF TurnThrows, Hold
  <2>2. /\ Moved(d) /\ Keeps(d) /\ dispatch'[d].pc = "failed"
        /\ tail' \in [Sessions -> 0 .. MaxIdles]
        /\ \A t \in Sessions : tail'[t] = IF tail[t] = d THEN 0 ELSE tail[t]
    BY <1>3, <2>1, Settles DEF Settled
  <2> QED
    BY <1>1, <1>5, <2>1, <2>2
<1> QED
  BY <1>4, <1>5

LEMMA SdkTypes ==
  ASSUME Types, TaskInv,
         TurnReturns \/ TurnThrows \/ SweepReturns \/ SweepThrows \/ EndReturns
  PROVE  Types'
<1>0. MaxTurns \in Nat /\ MaxFailures \in Nat /\ MaxIdles \in Nat
  OBVIOUS
<1> DEFINE s == queue[1].session
<1>1. queue # <<>>
  BY DEF TurnReturns, TurnThrows, SweepReturns, SweepThrows, EndReturns, Task
<1>2. Head(queue) = queue[1] /\ s \in Sessions /\ Tail(queue) \in Seq(TaskType)
  BY <1>1, Taken
<1>3. CASE TurnReturns \/ TurnThrows
  <2>1. /\ Task("turn") /\ Moved(queue[1].dispatch)
        /\ queue' = Tail(queue)
        /\ live' = live \cup {s} /\ held' = [held EXCEPT ![s] = @ \cup queue[1].messages]
        /\ tail' \in [Sessions -> 0 .. MaxIdles]
        /\ learned' = learned \/ learned' = [learned EXCEPT ![s] = @ \cup held'[s]]
    BY <1>3, TurnTaken
  <2>2. queue[1].messages \subseteq Messages
    BY <2>1, TakenTurn
  <2>3. held' \in [Sessions -> SUBSET Messages] /\ live' \subseteq Sessions
    BY <1>2, <2>1, <2>2 DEF Types
  <2>4. learned' \in [Sessions -> SUBSET Messages]
    <3>1. held'[s] \subseteq Messages /\ learned \in [Sessions -> SUBSET Messages]
      BY <1>2, <2>3 DEF Types
    <3> QED
      BY <1>2, <2>1, <3>1
  <2>5. dispatch' \in Seq(DispatchType) /\ Len(dispatch') <= MaxIdles
    BY <2>1 DEF Types, Moved
  <2>6. queue' \in Seq(TaskType)
    BY <1>2, <2>1
  <2>7. failures' \in 0 .. MaxFailures
    BY <1>0, <1>3 DEF Types, TurnReturns, TurnThrows, Fail
  <2>8. UNCHANGED <<turns, listed, ended, pending, calls, delivered, handed, raced>>
    BY <1>3 DEF TurnReturns, TurnThrows, hostVars
  <2> QED
    BY <2>1, <2>3, <2>4, <2>5, <2>6, <2>7, <2>8 DEF Types
<1>4. CASE SweepReturns
  <2>1. /\ queue' = Append(Tail(queue), Queued("end", s))
        /\ live' = live \cup {s} /\ held' = [held EXCEPT ![s] = @ \cup {}]
        /\ learned' = [learned EXCEPT ![s] = @ \cup held[s]]
    BY <1>2, <1>4 DEF SweepReturns, Hold
  <2>2. queue' \in Seq(TaskType)
    BY <1>2, <2>1, EndTask, AppendFacts
  <2>3. /\ held' \in [Sessions -> SUBSET Messages] /\ live' \subseteq Sessions
        /\ learned' \in [Sessions -> SUBSET Messages]
    BY <1>2, <2>1 DEF Types
  <2> QED
    BY <1>4, <2>2, <2>3 DEF Types, SweepReturns, hostVars, portVars
<1>5. CASE SweepThrows
  <2>1. /\ queue' = Tail(queue)
        /\ live' = live \cup {s} /\ held' = [held EXCEPT ![s] = @ \cup {}]
        /\ ended' = [ended EXCEPT ![s] = "stuck"]
    BY <1>2, <1>5 DEF SweepThrows, Hold
  <2>2. held' \in [Sessions -> SUBSET Messages] /\ live' \subseteq Sessions
    BY <1>2, <2>1 DEF Types
  <2> QED
    BY <1>0, <1>2, <1>5, <2>1, <2>2 DEF Types, SweepThrows, Fail, hostVars
<1>6. CASE EndReturns
  BY <1>2, <1>6 DEF Types, EndReturns, hostVars
<1> QED
  BY <1>3, <1>4, <1>5, <1>6

LEMMA TypesNext == Types /\ TaskInv /\ [Next]_vars => Types'
<1> SUFFICES ASSUME Types, TaskInv, [Next]_vars PROVE Types'
  OBVIOUS
<1>1. CASE UNCHANGED vars
  BY <1>1 DEF Types, vars, hostVars, portVars, sdkVars
<1>2. CASE Next
  BY <1>1, <1>2, HostTypes, DispatchTypes, SdkTypes DEF Next, Finished
<1> QED
  BY <1>1, <1>2

(***************************************************************************)
(* The tasks of the SDK.                                                   *)
(***************************************************************************)

Stays(d) == d \in DOMAIN dispatch' /\ dispatch'[d] = dispatch[d]

\* k tasks leave the queue, n stay in it, and one may follow them.
LEMMA TasksMove ==
  ASSUME Types, TaskInv, NEW k \in Nat, NEW n \in Nat,
         \A i \in DOMAIN queue' :
           /\ i \in Nat \ {0} /\ (i <= n \/ i = n + 1)
           /\ i <= n => i + k \in DOMAIN queue /\ queue'[i] = queue[i + k],
         \A i \in DOMAIN queue : i > k =>
           IF Turn(i) THEN Stays(queue[i].dispatch)
                      ELSE ended'[queue[i].session] = "ending",
         n + 1 \in DOMAIN queue' =>
           LET t == queue'[n + 1]
           IN  IF t.op = "turn"
               THEN /\ t.dispatch \in DOMAIN dispatch' /\ dispatch'[t.dispatch].pc = "queued"
                    /\ dispatch'[t.dispatch].session = t.session
                    /\ dispatch'[t.dispatch].got \subseteq t.messages
                    /\ \A i \in DOMAIN queue : i > k /\ Turn(i) => queue[i].dispatch # t.dispatch
               ELSE /\ ended'[t.session] = "ending"
                    /\ \A i \in DOMAIN queue : i > k /\ ~Turn(i) => queue[i].session # t.session
  PROVE  TaskInv'
<1>0. \A i \in DOMAIN queue' : i <= n => i + k > k
  OBVIOUS
<1>1. ASSUME NEW i \in DOMAIN queue'
      PROVE  IF Turn(i)'
             THEN /\ queue'[i].dispatch \in DOMAIN dispatch'
                  /\ dispatch'[queue'[i].dispatch].pc = "queued"
                  /\ dispatch'[queue'[i].dispatch].session = queue'[i].session
                  /\ dispatch'[queue'[i].dispatch].got \subseteq queue'[i].messages
             ELSE ended'[queue'[i].session] = "ending"
  <2>1. CASE i <= n
    <3>1. i + k \in DOMAIN queue /\ i + k > k /\ queue'[i] = queue[i + k] /\ i \in Nat
      BY <2>1
    <3>2. CASE Turn(i + k)
      <4>1. Stays(queue[i + k].dispatch)
        BY <3>1, <3>2
      <4>2. /\ dispatch[queue[i + k].dispatch].pc = "queued"
            /\ dispatch[queue[i + k].dispatch].session = queue[i + k].session
            /\ dispatch[queue[i + k].dispatch].got \subseteq queue[i + k].messages
        BY <3>1, <3>2 DEF TaskInv
      <4> QED
        BY <3>1, <3>2, <4>1, <4>2 DEF Stays, Turn
    <3>3. CASE ~Turn(i + k)
      <4>1. ended'[queue[i + k].session] = "ending"
        BY <3>1, <3>3
      <4> QED
        BY <3>1, <3>3, <4>1 DEF Turn
    <3> QED
      BY <3>2, <3>3
  <2>2. CASE i = n + 1
    BY <2>2 DEF Turn
  <2> QED
    BY <1>1, <2>1, <2>2
<1>2. ASSUME NEW i \in DOMAIN queue', NEW j \in DOMAIN queue', Turn(i)', Turn(j)',
             queue'[i].dispatch = queue'[j].dispatch
      PROVE  i = j
  <2>1. CASE i <= n /\ j <= n
    <3>1. i + k \in DOMAIN queue /\ j + k \in DOMAIN queue /\ i \in Nat /\ j \in Nat
          /\ queue'[i] = queue[i + k] /\ queue'[j] = queue[j + k]
      BY <2>1
    <3>2. i + k = j + k
      BY <1>2, <3>1 DEF TaskInv, Turn
    <3> QED
      BY <3>1, <3>2
  <2>2. CASE i = n + 1 /\ j <= n
    <3>1. j + k \in DOMAIN queue /\ j + k > k /\ queue'[j] = queue[j + k]
      BY <2>2, <1>0
    <3> QED
      BY <1>2, <2>2, <3>1 DEF Turn
  <2>3. CASE j = n + 1 /\ i <= n
    <3>1. i + k \in DOMAIN queue /\ i + k > k /\ queue'[i] = queue[i + k]
      BY <2>3, <1>0
    <3> QED
      BY <1>2, <2>3, <3>1 DEF Turn
  <2> QED
    BY <2>1, <2>2, <2>3
<1>3. ASSUME NEW i \in DOMAIN queue', NEW j \in DOMAIN queue', ~Turn(i)', ~Turn(j)',
             queue'[i].session = queue'[j].session
      PROVE  i = j
  <2>1. CASE i <= n /\ j <= n
    <3>1. i + k \in DOMAIN queue /\ j + k \in DOMAIN queue /\ i \in Nat /\ j \in Nat
          /\ queue'[i] = queue[i + k] /\ queue'[j] = queue[j + k]
      BY <2>1
    <3>2. i + k = j + k
      BY <1>3, <3>1 DEF TaskInv, Turn
    <3> QED
      BY <3>1, <3>2
  <2>2. CASE i = n + 1 /\ j <= n
    <3>1. j + k \in DOMAIN queue /\ j + k > k /\ queue'[j] = queue[j + k]
      BY <2>2, <1>0
    <3> QED
      BY <1>3, <2>2, <3>1 DEF Turn
  <2>3. CASE j = n + 1 /\ i <= n
    <3>1. i + k \in DOMAIN queue /\ i + k > k /\ queue'[i] = queue[i + k]
      BY <2>3, <1>0
    <3> QED
      BY <1>3, <2>3, <3>1 DEF Turn
  <2> QED
    BY <2>1, <2>2, <2>3
<1> QED
  BY <1>1, <1>2, <1>3 DEF TaskInv

\* No task comes or goes.
LEMMA TasksStay ==
  ASSUME Types, TaskInv, queue' = queue,
         \A d \in DOMAIN dispatch : dispatch[d].pc = "queued" => Stays(d),
         \A s \in Sessions : ended[s] = "ending" => ended'[s] = "ending"
  PROVE  TaskInv'
<1>1. queue \in Seq(TaskType)
  BY DEF Types
<1>2. DOMAIN queue = 1 .. Len(queue) /\ Len(queue) \in Nat
      /\ \A i \in DOMAIN queue : queue[i] \in TaskType
  BY <1>1
<1>3. \A i \in DOMAIN queue' :
           /\ i \in Nat \ {0} /\ (i <= Len(queue) \/ i = Len(queue) + 1)
           /\ i <= Len(queue) => i + 0 \in DOMAIN queue /\ queue'[i] = queue[i + 0]
  BY <1>2
<1>4. ASSUME NEW i \in DOMAIN queue
      PROVE  IF Turn(i) THEN Stays(queue[i].dispatch) ELSE ended'[queue[i].session] = "ending"
  <2>1. queue[i].session \in Sessions
    BY <1>2, TaskFields
  <2> QED
    BY <2>1 DEF TaskInv
<1>5. Len(queue) + 1 \notin DOMAIN queue'
  BY <1>2
<1> QED
  BY <1>2, <1>3, <1>4, <1>5, TasksMove

LEMMA TasksOfSessions ==
  ASSUME Types, TaskInv, NEW s \in Sessions,
         HostTurn(s) \/ HostLists(s) \/ Idle(s) \/ Deleted(s)
         \/ DeletedReturns(s) \/ DeletedThrows(s)
  PROVE  TaskInv'
<1>1. CASE HostTurn(s) \/ HostLists(s)
  <2>1. UNCHANGED <<queue, dispatch, ended>>
    BY <1>1 DEF HostTurn, HostLists, sdkVars, portVars
  <2> QED
    BY <2>1, TasksStay DEF Stays
<1>2. CASE Idle(s)
  <2>1. UNCHANGED <<queue, ended>>
    BY <1>2 DEF Idle, IdleAfter, sdkVars
  <2>2. \A d \in DOMAIN dispatch : Stays(d)
    BY <1>2 DEF Types, Idle, IdleAfter, Stays
  <2> QED
    BY <2>1, <2>2, TasksStay
<1>3. CASE Deleted(s)
  <2> DEFINE n == Len(queue)
  <2>1. queue' = Append(queue, Queued("sweep", s)) /\ queue \in Seq(TaskType) /\ dispatch' = dispatch
        /\ ended' = [ended EXCEPT ![s] = "ending"] /\ ended[s] = "open"
    BY <1>3 DEF Types, Deleted, Ending
  <2>2. /\ Queued("sweep", s) \in TaskType /\ Queued("sweep", s).op = "sweep"
        /\ Queued("sweep", s).session = s
    BY EndTask
  <2>3. /\ n \in Nat /\ DOMAIN queue = 1 .. n /\ DOMAIN queue' = 1 .. n + 1
        /\ \A i \in DOMAIN queue : queue'[i] = queue[i]
        /\ queue'[n + 1] = Queued("sweep", s)
    BY <2>1, <2>2, AppendFacts
  <2> HIDE DEF n
  <2>4. ended \in [Sessions -> {"open", "ending", "ticking", "gone", "stuck"}]
    BY DEF Types
  <2>5. \A i \in DOMAIN queue : ~Turn(i) => queue[i].session # s
    BY <2>1 DEF TaskInv
  <2>6. \A i \in DOMAIN queue' :
           /\ i \in Nat \ {0} /\ (i <= n \/ i = n + 1)
           /\ i <= n => i + 0 \in DOMAIN queue /\ queue'[i] = queue[i + 0]
    BY <2>3
  <2>7. \A i \in DOMAIN queue : queue[i].session \in Sessions
    BY <2>1, TaskFields
  <2>8. \A i \in DOMAIN queue :
          IF Turn(i) THEN Stays(queue[i].dispatch) ELSE ended'[queue[i].session] = "ending"
    BY <2>1, <2>4, <2>5, <2>7 DEF TaskInv, Stays
  <2>9. ended'[s] = "ending"
    BY <2>1, <2>4
  <2>10. n + 1 \in DOMAIN queue' =>
           /\ queue'[n + 1].op # "turn" /\ ended'[queue'[n + 1].session] = "ending"
           /\ \A i \in DOMAIN queue : ~Turn(i) => queue[i].session # queue'[n + 1].session
    BY <2>2, <2>3, <2>5, <2>9
  <2> QED
    BY <2>3, <2>6, <2>8, <2>10, TasksMove
<1>4. CASE DeletedReturns(s) \/ DeletedThrows(s)
  <2>1. UNCHANGED <<queue, dispatch>> /\ ended[s] = "ticking"
        /\ \E e : ended' = [ended EXCEPT ![s] = e]
    BY <1>4 DEF DeletedReturns, DeletedThrows, sdkVars
  <2>2. \A t \in Sessions : ended[t] = "ending" => ended'[t] = "ending"
    BY <2>1 DEF Types
  <2> QED
    BY <2>1, <2>2, TasksStay DEF Stays
<1> QED
  BY <1>1, <1>2, <1>3, <1>4

LEMMA TasksOfDispatches ==
  ASSUME Types, TaskInv, NEW d \in DOMAIN dispatch,
         Ask(d) \/ Skip(d) \/ AskFails(d) \/ Repeated(d) \/ HandOver(d)
         \/ HandlerReturns(d) \/ HandlerThrows(d)
  PROVE  TaskInv'
<1>1. Moved(d)
  BY DispatchTypes
<1>2. dispatch[d].pc # "queued" /\ ended' = ended
  BY DEF Ask, Skip, AskFails, Repeated, HandOver, HandlerReturns, HandlerThrows
<1>3. DOMAIN dispatch' = DOMAIN dispatch
  BY <1>1 DEF Types, Moved
<1>4. \A e \in DOMAIN dispatch : dispatch[e].pc = "queued" => Stays(e)
  BY <1>1, <1>2, <1>3 DEF Moved, Stays
<1>5. CASE ~HandOver(d)
  <2>1. queue' = queue
    BY <1>5 DEF Ask, Skip, AskFails, Repeated, HandlerReturns, HandlerThrows, sdkVars
  <2> QED
    BY <1>2, <1>4, <2>1, TasksStay
<1>6. CASE HandOver(d)
  <2> DEFINE n == Len(queue)
             s == dispatch[d].session
             got == WithCompletedText(s, dispatch[d].got)
             messages == WithCalls(s, got)
             t == [op |-> "turn", session |-> s, dispatch |-> d, messages |-> messages]
  <2>1. queue' = Append(queue, t) /\ queue \in Seq(TaskType)
    BY <1>6 DEF Types, HandOver
  <2>2. s \in Sessions /\ dispatch[d].got \in SUBSET Messages /\ d \in Nat
    BY Dispatched, DispatchFields
  <2>3. messages \in SUBSET Messages
    BY <2>2, ReadTypes
  <2>4. dispatch'[d].pc = "queued" /\ dispatch'[d].got = got /\ dispatch'[d].session = s
    BY <1>6, HandsOver DEF Moved
  <2>5. got \subseteq messages
    BY DEF WithCalls
  <2> HIDE DEF messages, got
  <2>6. /\ t \in TaskType /\ t.op = "turn" /\ t.dispatch = d /\ t.session = s
        /\ t.messages = messages
    BY <2>2, <2>3 DEF TaskType, TurnType
  <2> HIDE DEF t, s
  <2>7. /\ n \in Nat /\ DOMAIN queue = 1 .. n /\ DOMAIN queue' = 1 .. n + 1
        /\ \A i \in DOMAIN queue : queue'[i] = queue[i]
        /\ queue'[n + 1] = t
    BY <2>1, <2>6, AppendFacts
  <2> HIDE DEF n
  <2>8. \A i \in DOMAIN queue' :
           /\ i \in Nat \ {0} /\ (i <= n \/ i = n + 1)
           /\ i <= n => i + 0 \in DOMAIN queue /\ queue'[i] = queue[i + 0]
    BY <2>7
  <2>9. \A i \in DOMAIN queue :
          IF Turn(i) THEN Stays(queue[i].dispatch) ELSE ended'[queue[i].session] = "ending"
    BY <1>2, <1>4 DEF TaskInv
  <2>10. \A i \in DOMAIN queue : Turn(i) => queue[i].dispatch # d
    BY <1>2 DEF TaskInv
  <2>11. d \in DOMAIN dispatch' /\ dispatch'[t.dispatch].got \subseteq t.messages
    BY <1>3, <2>4, <2>5, <2>6
  <2>12. n + 1 \in DOMAIN queue' =>
           /\ queue'[n + 1].op = "turn"
           /\ queue'[n + 1].dispatch \in DOMAIN dispatch'
           /\ dispatch'[queue'[n + 1].dispatch].pc = "queued"
           /\ dispatch'[queue'[n + 1].dispatch].session = queue'[n + 1].session
           /\ dispatch'[queue'[n + 1].dispatch].got \subseteq queue'[n + 1].messages
           /\ \A i \in DOMAIN queue : Turn(i) => queue[i].dispatch # queue'[n + 1].dispatch
    BY <2>4, <2>6, <2>7, <2>10, <2>11
  <2> QED
    BY <2>7, <2>8, <2>9, <2>12, TasksMove
<1> QED
  BY <1>5, <1>6

LEMMA TasksOfSdk ==
  ASSUME Types, TaskInv,
         TurnReturns \/ TurnThrows \/ SweepReturns \/ SweepThrows \/ EndReturns
  PROVE  TaskInv'
<1> DEFINE n == Len(queue) - 1
           s == queue[1].session
<1>1. queue # <<>>
  BY DEF TurnReturns, TurnThrows, SweepReturns, SweepThrows, EndReturns, Task
<1>2. /\ Head(queue) = queue[1] /\ s \in Sessions /\ Tail(queue) \in Seq(TaskType)
      /\ queue \in Seq(TaskType)
  BY <1>1, Taken DEF Types
<1>3. /\ n \in Nat /\ DOMAIN queue = 1 .. n + 1 /\ DOMAIN Tail(queue) = 1 .. n
      /\ Len(Tail(queue)) = n
      /\ \A i \in 1 .. n : i + 1 \in DOMAIN queue /\ Tail(queue)[i] = queue[i + 1]
  BY <1>1, <1>2, TailFacts
<1> HIDE DEF n
<1>4. \A i \in DOMAIN queue : queue[i].session \in Sessions
  BY <1>2, TaskFields
<1>5. \A e \in DOMAIN dispatch : dispatch' = dispatch => Stays(e)
  BY DEF Stays
<1>6. queue' = Tail(queue) =>
        /\ n + 1 \notin DOMAIN queue'
        /\ \A i \in DOMAIN queue' :
           /\ i \in Nat \ {0} /\ (i <= n \/ i = n + 1)
           /\ i <= n => i + 1 \in DOMAIN queue /\ queue'[i] = queue[i + 1]
  BY <1>3
<1>7. CASE TurnReturns \/ TurnThrows
  <2>1. Task("turn") /\ Moved(queue[1].dispatch) /\ queue' = Tail(queue)
    BY <1>7, TurnTaken
  <2>2. ended' = ended
    BY <1>7 DEF TurnReturns, TurnThrows
  <2>3. Turn(1)
    BY <2>1, TakenTurn
  <2>4. \A i \in DOMAIN queue : i > 1 /\ Turn(i) =>
          queue[i].dispatch \in DOMAIN dispatch /\ queue[i].dispatch # queue[1].dispatch
    BY <1>3, <2>3 DEF TaskInv
  <2>5. DOMAIN dispatch' = DOMAIN dispatch
    BY <2>1 DEF Types, Moved
  <2>6. \A i \in DOMAIN queue : i > 1 =>
          IF Turn(i) THEN Stays(queue[i].dispatch) ELSE ended'[queue[i].session] = "ending"
    BY <2>1, <2>2, <2>4, <2>5 DEF TaskInv, Moved, Stays
  <2> QED
    BY <1>3, <1>6, <2>1, <2>6, TasksMove
<1>8. CASE SweepThrows \/ EndReturns
  <2>1. queue' = Tail(queue) /\ dispatch' = dispatch
        /\ \E e : ended' = [ended EXCEPT ![s] = e]
    BY <1>2, <1>8 DEF SweepThrows, EndReturns
  <2>2. ~Turn(1)
    BY <1>8, TakenEnd DEF SweepThrows, EndReturns
  <2>3. \A i \in DOMAIN queue : i > 1 /\ ~Turn(i) => queue[i].session # s
    BY <1>3, <2>2 DEF TaskInv
  <2>4. ended \in [Sessions -> {"open", "ending", "ticking", "gone", "stuck"}]
    BY DEF Types
  <2>5. \A i \in DOMAIN queue : i > 1 =>
          IF Turn(i) THEN Stays(queue[i].dispatch) ELSE ended'[queue[i].session] = "ending"
    BY <1>4, <1>5, <2>1, <2>3, <2>4 DEF TaskInv
  <2> QED
    BY <1>3, <1>6, <2>1, <2>5, TasksMove
<1>9. CASE SweepReturns
  <2>1. queue' = Append(Tail(queue), Queued("end", s)) /\ dispatch' = dispatch /\ ended' = ended
    BY <1>2, <1>9 DEF SweepReturns, portVars
  <2>2. ~Turn(1) /\ ended[s] = "ending"
    BY <1>9, TakenEnd DEF SweepReturns
  <2>3. /\ Queued("end", s) \in TaskType /\ Queued("end", s).op = "end"
        /\ Queued("end", s).session = s
    BY <1>2, EndTask
  <2>4. /\ DOMAIN queue' = 1 .. n + 1 /\ queue'[n + 1] = Queued("end", s)
        /\ \A i \in 1 .. n : queue'[i] = Tail(queue)[i]
    BY <1>2, <1>3, <2>1, <2>3, AppendFacts
  <2>5. \A i \in DOMAIN queue : i > 1 /\ ~Turn(i) => queue[i].session # s
    BY <1>3, <2>2 DEF TaskInv
  <2>6. \A i \in DOMAIN queue : i > 1 =>
          IF Turn(i) THEN Stays(queue[i].dispatch) ELSE ended'[queue[i].session] = "ending"
    BY <1>5, <2>1 DEF TaskInv
  <2>7. \A i \in DOMAIN queue' :
           /\ i \in Nat \ {0} /\ (i <= n \/ i = n + 1)
           /\ i <= n => i + 1 \in DOMAIN queue /\ queue'[i] = queue[i + 1]
    BY <1>3, <2>4
  <2>8. n + 1 \in DOMAIN queue' =>
          /\ queue'[n + 1].op # "turn" /\ ended'[queue'[n + 1].session] = "ending"
          /\ \A i \in DOMAIN queue : i > 1 /\ ~Turn(i) => queue[i].session # queue'[n + 1].session
    BY <2>1, <2>2, <2>3, <2>4, <2>5
  <2> QED
    BY <1>3, <2>6, <2>7, <2>8, TasksMove
<1> QED
  BY <1>7, <1>8, <1>9

LEMMA TaskNext == Types /\ TaskInv /\ [Next]_vars => TaskInv'
<1> SUFFICES ASSUME Types, TaskInv, [Next]_vars PROVE TaskInv'
  OBVIOUS
<1>1. CASE UNCHANGED vars
  <2>1. UNCHANGED <<queue, dispatch, ended>>
    BY <1>1 DEF vars, sdkVars, portVars
  <2> QED
    BY <2>1, TasksStay DEF Stays
<1>2. CASE Next
  BY <1>1, <1>2, TasksOfSessions, TasksOfDispatches, TasksOfSdk DEF Next, Finished
<1> QED
  BY <1>1, <1>2

(***************************************************************************)
(* The chain of dispatches.                                                *)
(***************************************************************************)

NoneBefore(d) ==
  \A e \in DOMAIN dispatch : SameSession(d, e) /\ e < d => ~Unsettled(e)

LEMMA PcFacts ==
  ASSUME NEW d
  PROVE  /\ Asked(d) => Unsettled(d) /\ dispatch[d].pc # "waiting"
         /\ dispatch[d].pc = "waiting" => Unsettled(d)
         /\ dispatch[d].pc \in {"done", "failed"} <=> ~Unsettled(d)
BY DEF Asked, Unsettled, Settled

\* A dispatch that is not settled and does not wait, or whose predecessor is settled, is
\* the first of its session that is not settled.
LEMMA FirstOfChain ==
  ASSUME Types, AfterInv, ChainInv, NEW d \in DOMAIN dispatch, Unsettled(d),
         \/ dispatch[d].pc # "waiting"
         \/ dispatch[d].after # 0 => ~Unsettled(dispatch[d].after)
  PROVE  NoneBefore(d)
<1> SUFFICES ASSUME NEW e \in DOMAIN dispatch, SameSession(d, e), e < d, Unsettled(e)
             PROVE  FALSE
  BY DEF NoneBefore
<1> DEFINE a == dispatch[d].after
<1>1. dispatch[d].pc = "waiting" /\ e <= a
  BY DEF ChainInv
<1>2. a \in 0 .. d - 1 /\ d \in 1 .. Len(dispatch) /\ e \in 1 .. Len(dispatch)
      /\ Len(dispatch) \in Nat
  BY Dispatched DEF AfterInv, Types
<1>3. a # 0 /\ a \in DOMAIN dispatch
  BY <1>1, <1>2 DEF Types
<1>4. SameSession(a, d) /\ ~Unsettled(a)
  BY <1>1, <1>3 DEF AfterInv
<1>5. e < a
  BY <1>1, <1>2, <1>4
<1>6. SameSession(a, e)
  BY <1>4 DEF SameSession
<1>7. dispatch[a].pc = "waiting"
  BY <1>3, <1>5, <1>6 DEF ChainInv
<1> QED
  BY <1>4, <1>7, PcFacts

\* At most one dispatch of a session has asked the host and is not settled.
LEMMA OneAsked ==
  ASSUME Types, ChainInv, NEW d \in DOMAIN dispatch, NEW e \in DOMAIN dispatch,
         Asked(d), Asked(e), SameSession(d, e)
  PROVE  d = e
<1>1. d \in Nat /\ e \in Nat
  BY Dispatched
<1>2. SameSession(e, d) /\ Unsettled(d) /\ Unsettled(e)
      /\ dispatch[d].pc # "waiting" /\ dispatch[e].pc # "waiting"
  BY PcFacts DEF SameSession
<1>3. ~(d < e) /\ ~(e < d)
  BY <1>2 DEF ChainInv
<1> QED
  BY <1>1, <1>3

LEMMA DispatchesAreOrdered ==
  ASSUME Types, TaskInv, AfterInv, ChainInv, NEW d \in DOMAIN dispatch,
         \/ Ask(d) \/ Skip(d) \/ AskFails(d) \/ Repeated(d) \/ HandOver(d)
         \/ HandlerReturns(d) \/ HandlerThrows(d)
         \/ (TurnReturns \/ TurnThrows) /\ d = queue[1].dispatch
  PROVE  Moved(d) /\ NoneBefore(d)
<1>1. Moved(d)
  BY DispatchTypes, TurnTaken
<1>2. Unsettled(d)
  BY <1>1 DEF Moved
<1>3. \/ dispatch[d].pc # "waiting"
      \/ dispatch[d].after # 0 => dispatch[dispatch[d].after].pc \in {"done", "failed"}
  <2>1. CASE (TurnReturns \/ TurnThrows) /\ d = queue[1].dispatch
    BY <2>1, TurnTaken, TakenTurn
  <2>2. CASE ~((TurnReturns \/ TurnThrows) /\ d = queue[1].dispatch)
    BY <2>2 DEF Ask, Skip, AskFails, Repeated, HandOver, HandlerReturns, HandlerThrows
  <2> QED
    BY <2>1, <2>2
<1>4. \/ dispatch[d].pc # "waiting"
      \/ dispatch[d].after # 0 => ~Unsettled(dispatch[d].after)
  BY <1>3, PcFacts
<1> QED
  BY <1>1, <1>2, <1>4, FirstOfChain

\* The dispatches are those there were, and at most dispatch d has gone on.
OnlyMoved(d) == dispatch' = dispatch \/ Moved(d)

LEMMA OldOnes ==
  ASSUME Types, NEW d, OnlyMoved(d)
  PROVE  /\ DOMAIN dispatch' = DOMAIN dispatch
         /\ \A e \in DOMAIN dispatch :
              /\ dispatch'[e].session = dispatch[e].session
              /\ dispatch'[e].after = dispatch[e].after
              /\ Unsettled(e)' => Unsettled(e)
              /\ e # d => dispatch'[e] = dispatch[e]
<1>1. CASE dispatch' = dispatch
  BY <1>1 DEF Unsettled
<1>2. CASE Moved(d)
  <2>1. DOMAIN dispatch' = DOMAIN dispatch
    BY <1>2 DEF Types, Moved
  <2>2. ASSUME NEW e \in DOMAIN dispatch
        PROVE  /\ dispatch'[e].session = dispatch[e].session
               /\ dispatch'[e].after = dispatch[e].after
               /\ Unsettled(e)' => Unsettled(e)
               /\ e # d => dispatch'[e] = dispatch[e]
    BY <1>2 DEF Moved, Unsettled
  <2> QED
    BY <2>1, <2>2
<1> QED
  BY <1>1, <1>2 DEF OnlyMoved

LEMMA AfterKept ==
  ASSUME Types, AfterInv, NEW d, OnlyMoved(d), raced \subseteq raced',
         \A s \in Sessions : turns[s] > 0 => turns'[s] > 0,
         \A e \in DOMAIN dispatch :
           Unsettled(e) /\ Open(e) =>
             ended'[dispatch[e].session] = "open" \/ dispatch[e].session \in raced'
  PROVE  AfterInv'
<1>1. DOMAIN dispatch' = DOMAIN dispatch
  BY OldOnes
<1> SUFFICES ASSUME NEW e \in DOMAIN dispatch
    PROVE  /\ dispatch'[e].after \in 0 .. e - 1
           /\ dispatch'[e].after # 0 => SameSession(dispatch[e].after, e)'
           /\ turns'[dispatch'[e].session] > 0
           /\ Unsettled(e)' => Open(e)' \/ dispatch'[e].session \in raced'
  BY <1>1 DEF AfterInv, SameSession
<1>2. /\ dispatch'[e].session = dispatch[e].session
      /\ dispatch'[e].after = dispatch[e].after
      /\ Unsettled(e)' => Unsettled(e)
  BY OldOnes
<1>3. dispatch[e].session \in Sessions /\ e \in 1 .. Len(dispatch) /\ Len(dispatch) \in Nat
  BY Dispatched, DispatchFields DEF Types
<1>4. /\ dispatch[e].after \in 0 .. e - 1
      /\ dispatch[e].after # 0 => SameSession(dispatch[e].after, e)
      /\ turns[dispatch[e].session] > 0
      /\ Unsettled(e) => Open(e) \/ dispatch[e].session \in raced
  BY DEF AfterInv
<1>5. dispatch[e].after # 0 => dispatch[e].after \in DOMAIN dispatch
  BY <1>3, <1>4 DEF Types
<1>6. dispatch[e].after # 0 =>
        dispatch'[dispatch[e].after].session = dispatch[dispatch[e].after].session
  BY <1>5, OldOnes
<1>7. dispatch'[e].after # 0 => SameSession(dispatch[e].after, e)'
  BY <1>2, <1>4, <1>6 DEF SameSession
<1>8. Unsettled(e)' => Open(e)' \/ dispatch'[e].session \in raced'
  BY <1>2, <1>4 DEF Open
<1> QED
  BY <1>2, <1>3, <1>4, <1>7, <1>8

LEMMA ChainKept ==
  ASSUME Types, AfterInv, ChainInv, NEW d, OnlyMoved(d),
         Moved(d) => NoneBefore(d),
         \A s \in Sessions : ended'[s] = "open" => ended[s] = "open",
         \A s \in Sessions :
           \/ tail'[s] = tail[s]
           \/ tail'[s] = 0 /\ ended'[s] # "open"
           \/ tail[s] = d /\ tail'[s] = 0 /\ Moved(d) /\ dispatch'[d].pc \in Settled
  PROVE  ChainInv'
<1>1. /\ DOMAIN dispatch' = DOMAIN dispatch
      /\ \A e \in DOMAIN dispatch :
              /\ dispatch'[e].session = dispatch[e].session
              /\ dispatch'[e].after = dispatch[e].after
              /\ Unsettled(e)' => Unsettled(e)
              /\ e # d => dispatch'[e] = dispatch[e]
  BY OldOnes
<1>2. ASSUME NEW f \in DOMAIN dispatch, NEW e \in DOMAIN dispatch,
             dispatch[f].session = dispatch[e].session, e < f, Unsettled(e)'
      PROVE  dispatch'[f].pc = "waiting" /\ e <= dispatch'[f].after
  <2>1. Unsettled(e) /\ SameSession(f, e)
    BY <1>1, <1>2 DEF SameSession
  <2>2. dispatch[f].pc = "waiting" /\ e <= dispatch[f].after
    BY <1>2, <2>1 DEF ChainInv
  <2>3. ~Moved(d) \/ f # d
    BY <1>2, <2>1 DEF NoneBefore
  <2>4. dispatch'[f] = dispatch[f]
    BY <1>1, <2>3 DEF OnlyMoved
  <2> QED
    BY <2>2, <2>4
<1>3. ASSUME NEW e \in DOMAIN dispatch, Unsettled(e)', Open(e)'
      PROVE  e <= tail'[dispatch'[e].session]
  <2> DEFINE s == dispatch[e].session
  <2>1. s \in Sessions /\ dispatch'[e].session = s /\ e \in Nat
    BY <1>1, Dispatched, DispatchFields
  <2>2. ended'[s] = "open" /\ ended[s] = "open" /\ Unsettled(e)
    BY <1>1, <1>3, <2>1 DEF Open
  <2>3. e <= tail[s]
    BY <2>2 DEF ChainInv, Open
  <2>4. CASE tail[s] = d /\ tail'[s] = 0 /\ Moved(d) /\ dispatch'[d].pc \in Settled
    <3>1. e # d
      BY <1>3, <2>4 DEF Unsettled
    <3>2. d \in DOMAIN dispatch /\ dispatch[d].session = s
      BY <2>1, <2>4, Dispatched DEF ChainInv, Moved
    <3>3. e < d
      BY <2>1, <2>3, <2>4, <3>1, <3>2, Dispatched
    <3> QED
      BY <2>2, <2>4, <3>2, <3>3 DEF NoneBefore, SameSession
  <2> QED
    BY <2>1, <2>2, <2>3, <2>4
<1>4. ASSUME NEW s \in Sessions, tail'[s] # 0
      PROVE  tail'[s] \in DOMAIN dispatch /\ dispatch'[tail'[s]].session = s
  BY <1>1, <1>4 DEF ChainInv
<1> QED
  BY <1>1, <1>2, <1>3, <1>4 DEF ChainInv, SameSession

LEMMA IdleChains ==
  ASSUME Types, AfterInv, ChainInv, NEW s \in Sessions, Idle(s)
  PROVE  AfterInv' /\ ChainInv'
<1> DEFINE n == Len(dispatch)
           r == [session |-> s, after |-> tail[s], pc |-> "waiting",
                 got |-> {}, seen |-> 0, drops |-> FALSE]
<1>1. /\ ended[s] = "open" /\ turns[s] > 0 /\ dispatch' = Append(dispatch, r)
      /\ tail' = [tail EXCEPT ![s] = n + 1] /\ UNCHANGED <<turns, ended, raced>>
  BY DEF Idle, IdleAfter, hostVars
<1>2. dispatch \in Seq(DispatchType) /\ n \in Nat /\ tail \in [Sessions -> 0 .. MaxIdles]
  BY DEF Types
<1>3. tail[s] \in 0 .. n
  <2>1. tail[s] \in Nat
    BY <1>2
  <2>2. tail[s] # 0 => tail[s] \in DOMAIN dispatch
    BY DEF ChainInv
  <2> QED
    BY <1>2, <2>1, <2>2
<1>4. r \in DispatchType
  BY <1>2, <1>3 DEF DispatchType
<1>5. r.session = s /\ r.after = tail[s] /\ r.pc = "waiting"
  OBVIOUS
<1> HIDE DEF r
<1>6. /\ DOMAIN dispatch = 1 .. n /\ DOMAIN dispatch' = 1 .. n + 1 /\ dispatch'[n + 1] = r
      /\ \A e \in 1 .. n : dispatch'[e] = dispatch[e]
  BY <1>1, <1>2, <1>4, AppendFacts
<1> HIDE DEF n
<1>7. \A e \in 1 .. n : dispatch[e].session \in Sessions
  BY <1>6, Dispatched, DispatchFields
<1>8. AfterInv'
  <2>1. ASSUME NEW e \in 1 .. n
        PROVE  /\ dispatch'[e].after \in 0 .. e - 1
               /\ dispatch'[e].after # 0 =>
                    dispatch'[dispatch'[e].after].session = dispatch'[e].session
               /\ turns'[dispatch'[e].session] > 0
               /\ Unsettled(e)' => Open(e)' \/ dispatch'[e].session \in raced'
    <3>1. /\ dispatch[e].after \in 0 .. e - 1
          /\ dispatch[e].after # 0 => dispatch[dispatch[e].after].session = dispatch[e].session
          /\ turns[dispatch[e].session] > 0
          /\ Unsettled(e) => Open(e) \/ dispatch[e].session \in raced
      BY <1>6 DEF AfterInv, SameSession
    <3>2. dispatch[e].after # 0 => dispatch'[dispatch[e].after] = dispatch[dispatch[e].after]
      BY <1>2, <1>6, <3>1
    <3>3. dispatch'[e] = dispatch[e]
      BY <1>6
    <3>4. Unsettled(e)' => Open(e)' \/ dispatch'[e].session \in raced'
      BY <1>1, <3>1, <3>3 DEF Unsettled, Open
    <3> QED
      BY <1>1, <3>1, <3>2, <3>3, <3>4
  <2>2. /\ dispatch'[n + 1].after \in 0 .. n
        /\ dispatch'[n + 1].after # 0 =>
             dispatch'[dispatch'[n + 1].after].session = dispatch'[n + 1].session
        /\ turns'[dispatch'[n + 1].session] > 0
        /\ ended'[dispatch'[n + 1].session] = "open"
    <3>1. tail[s] # 0 => tail[s] \in 1 .. n /\ dispatch[tail[s]].session = s
      BY <1>6 DEF ChainInv
    <3>2. dispatch'[n + 1].session = s /\ dispatch'[n + 1].after = tail[s]
      BY <1>5, <1>6
    <3>3. ended'[dispatch'[n + 1].session] = "open"
      BY <1>1, <3>2
    <3> QED
      BY <1>1, <1>3, <1>6, <3>1, <3>2, <3>3
  <2> QED
    BY <1>2, <1>6, <2>1, <2>2 DEF AfterInv, SameSession, Open
<1>9. ChainInv'
  <2>1. ASSUME NEW f \in 1 .. n + 1, NEW e \in 1 .. n + 1,
               dispatch'[f].session = dispatch'[e].session, e < f, Unsettled(e)'
        PROVE  dispatch'[f].pc = "waiting" /\ e <= dispatch'[f].after
    <3>1. e \in 1 .. n /\ Unsettled(e) /\ dispatch'[e] = dispatch[e]
      BY <1>2, <1>6, <2>1 DEF Unsettled
    <3>2. CASE f = n + 1
      <4>1. dispatch[e].session = s
        BY <1>5, <1>6, <2>1, <3>1, <3>2
      <4>2. e <= tail[s]
        BY <1>1, <1>6, <3>1, <4>1 DEF ChainInv, Open
      <4> QED
        BY <1>5, <1>6, <3>2, <4>2
    <3>3. CASE f \in 1 .. n
      <4>1. dispatch'[f] = dispatch[f] /\ SameSession(f, e)
        BY <1>6, <2>1, <3>1, <3>3 DEF SameSession
      <4>2. dispatch[f].pc = "waiting" /\ e <= dispatch[f].after
        BY <1>6, <2>1, <3>1, <3>3, <4>1 DEF ChainInv
      <4> QED
        BY <4>1, <4>2
    <3> QED
      BY <1>2, <3>2, <3>3
  <2>2. ASSUME NEW e \in 1 .. n + 1, Unsettled(e)', Open(e)'
        PROVE  e <= tail'[dispatch'[e].session]
    <3>1. CASE dispatch'[e].session = s
      BY <1>1, <1>2, <3>1
    <3>2. CASE dispatch'[e].session # s
      <4>1. e \in 1 .. n /\ dispatch'[e] = dispatch[e]
        BY <1>2, <1>5, <1>6, <3>2
      <4>2. Unsettled(e) /\ Open(e)
        BY <1>1, <2>2, <4>1 DEF Unsettled, Open
      <4>3. e <= tail[dispatch[e].session]
        BY <1>6, <4>1, <4>2 DEF ChainInv
      <4> QED
        BY <1>1, <1>2, <1>7, <3>2, <4>1, <4>3
    <3> QED
      BY <3>1, <3>2
  <2>3. ASSUME NEW t \in Sessions, tail'[t] # 0
        PROVE  tail'[t] \in 1 .. n + 1 /\ dispatch'[tail'[t]].session = t
    <3>1. CASE t = s
      BY <1>1, <1>2, <1>5, <1>6, <3>1
    <3>2. CASE t # s
      <4>1. tail'[t] = tail[t]
        BY <1>1, <1>2, <3>2
      <4>2. tail[t] \in 1 .. n /\ dispatch[tail[t]].session = t
        BY <1>6, <2>3, <4>1 DEF ChainInv
      <4> QED
        BY <1>2, <1>6, <4>1, <4>2
    <3> QED
      BY <3>1, <3>2
  <2> QED
    BY <1>6, <2>1, <2>2, <2>3 DEF ChainInv, SameSession
<1> QED
  BY <1>8, <1>9

LEMMA ChainInit == Init => AfterInv /\ ChainInv
BY DEF Init, AfterInv, ChainInv

LEMMA ChainNext ==
  Types /\ TaskInv /\ AfterInv /\ ChainInv /\ [Next]_vars => AfterInv' /\ ChainInv'
<1> SUFFICES ASSUME Types, TaskInv, AfterInv, ChainInv, [Next]_vars
             PROVE  AfterInv' /\ ChainInv'
  OBVIOUS
<1>0. /\ ended \in [Sessions -> {"open", "ending", "ticking", "gone", "stuck"}]
      /\ turns \in [Sessions -> 0 .. MaxTurns] /\ tail \in [Sessions -> 0 .. MaxIdles]
      /\ MaxTurns \in Nat
  BY DEF Types
<1>1. \A e \in DOMAIN dispatch : dispatch[e].session \in Sessions
  BY Dispatched, DispatchFields
<1>2. ASSUME NEW d, OnlyMoved(d), Moved(d) => NoneBefore(d), UNCHANGED <<turns, ended, raced>>,
             \A s \in Sessions :
               \/ tail'[s] = tail[s]
               \/ tail[s] = d /\ tail'[s] = 0 /\ Moved(d) /\ dispatch'[d].pc \in Settled
      PROVE  AfterInv' /\ ChainInv'
  <2>1. AfterInv'
    BY <1>2, AfterKept DEF Open
  <2>2. ChainInv'
    BY <1>2, ChainKept
  <2> QED
    BY <2>1, <2>2
<1>3. CASE UNCHANGED vars
  <2>1. UNCHANGED <<dispatch, turns, ended, raced, tail>> /\ OnlyMoved(0) /\ ~Moved(0)
    BY <1>3 DEF vars, hostVars, portVars, OnlyMoved, Moved, Types
  <2> QED
    BY <1>2, <2>1
<1>4. ASSUME NEW s \in Sessions, HostTurn(s) PROVE AfterInv' /\ ChainInv'
  <2>1. UNCHANGED <<dispatch, ended, raced, tail>> /\ OnlyMoved(0) /\ ~Moved(0)
        /\ turns' = [turns EXCEPT ![s] = @ + 1]
    BY <1>4 DEF HostTurn, OnlyMoved, Moved, Types
  <2>2. \A t \in Sessions : turns[t] > 0 => turns'[t] > 0
    BY <1>0, <2>1
  <2>3. AfterInv'
    BY <2>1, <2>2, AfterKept DEF Open
  <2>4. ChainInv'
    BY <2>1, ChainKept
  <2> QED
    BY <2>3, <2>4
<1>5. ASSUME NEW s \in Sessions, HostLists(s) PROVE AfterInv' /\ ChainInv'
  <2>1. UNCHANGED <<dispatch, turns, ended, raced, tail>> /\ OnlyMoved(0) /\ ~Moved(0)
    BY <1>5 DEF HostLists, portVars, OnlyMoved, Moved, Types
  <2> QED
    BY <1>2, <2>1
<1>6. ASSUME NEW s \in Sessions, Deleted(s) PROVE AfterInv' /\ ChainInv'
  <2>1. UNCHANGED <<dispatch, turns, tail>> /\ OnlyMoved(0) /\ ~Moved(0)
        /\ ended' = [ended EXCEPT ![s] = "ending"] /\ raced \subseteq raced'
    BY <1>6 DEF Deleted, hostVars, OnlyMoved, Moved, Types
  <2>2. \A e \in DOMAIN dispatch : Unsettled(e) /\ dispatch[e].session = s => s \in raced'
    BY <1>6 DEF Deleted, OfSession, Unsettled
  <2>3. \A e \in DOMAIN dispatch : Unsettled(e) /\ Open(e) =>
             ended'[dispatch[e].session] = "open" \/ dispatch[e].session \in raced'
    BY <1>0, <1>1, <2>1, <2>2 DEF Open
  <2>4. AfterInv'
    BY <2>1, <2>3, AfterKept
  <2>5. \A t \in Sessions : ended'[t] = "open" => ended[t] = "open"
    BY <1>0, <2>1
  <2>6. ChainInv'
    BY <2>1, <2>5, ChainKept
  <2> QED
    BY <2>4, <2>6
<1>7. ASSUME NEW s \in Sessions, DeletedReturns(s) \/ DeletedThrows(s) PROVE AfterInv' /\ ChainInv'
  <2>1. /\ UNCHANGED <<dispatch, turns, raced>> /\ OnlyMoved(0) /\ ~Moved(0)
        /\ ended[s] = "ticking" /\ \E e \in {"gone", "stuck"} : ended' = [ended EXCEPT ![s] = e]
        /\ tail' = tail \/ tail' = [tail EXCEPT ![s] = 0]
    BY <1>7 DEF DeletedReturns, DeletedThrows, hostVars, OnlyMoved, Moved, Types
  <2>2. \A t \in Sessions : ended'[t] = ended[t] \/ (t = s /\ ended'[t] # "open")
    BY <1>0, <2>1
  <2>3. \A t \in Sessions : tail'[t] = tail[t] \/ (t = s /\ tail'[t] = 0)
    BY <1>0, <2>1
  <2>4. \A e \in DOMAIN dispatch : Open(e) => ended'[dispatch[e].session] = "open"
    BY <1>1, <2>1, <2>2 DEF Open
  <2>5. AfterInv'
    BY <2>1, <2>4, AfterKept
  <2>6. \A t \in Sessions : ended'[t] = "open" => ended[t] = "open"
    BY <2>1, <2>2
  <2>7. \A t \in Sessions : tail'[t] = tail[t] \/ (tail'[t] = 0 /\ ended'[t] # "open")
    BY <2>1, <2>2, <2>3
  <2>8. ChainInv'
    BY <2>1, <2>6, <2>7, ChainKept
  <2> QED
    BY <2>5, <2>8
<1>8. ASSUME NEW d \in DOMAIN dispatch,
             Ask(d) \/ Skip(d) \/ AskFails(d) \/ Repeated(d) \/ HandOver(d)
             \/ HandlerReturns(d) \/ HandlerThrows(d)
      PROVE  AfterInv' /\ ChainInv'
  <2>1. Moved(d) /\ NoneBefore(d) /\ Unsettled(d)
    BY <1>8, DispatchesAreOrdered DEF Moved
  <2>2. UNCHANGED <<turns, ended, raced>>
    BY <1>8 DEF Ask, Skip, AskFails, Repeated, HandOver, HandlerReturns, HandlerThrows, hostVars
  <2>3. \/ tail' = tail
        \/ \E pc \in Settled : Settle(d, pc)
    BY <1>8 DEF Ask, Skip, AskFails, Repeated, HandOver, HandlerReturns, HandlerThrows, Settled
  <2>4. \A s \in Sessions :
               \/ tail'[s] = tail[s]
               \/ tail[s] = d /\ tail'[s] = 0 /\ dispatch'[d].pc \in Settled
    <3>1. ASSUME NEW pc \in Settled, Settle(d, pc)
          PROVE  /\ dispatch'[d].pc \in Settled
                 /\ \A s \in Sessions : tail'[s] = IF tail[s] = d THEN 0 ELSE tail[s]
      BY <2>1, <3>1, Settles
    <3> QED
      BY <2>3, <3>1
  <2> QED
    BY <1>2, <2>1, <2>2, <2>4 DEF OnlyMoved
<1>9. CASE TurnReturns \/ TurnThrows
  <2> DEFINE d == queue[1].dispatch
  <2>1. d \in DOMAIN dispatch
    BY <1>9, TurnTaken, TakenTurn
  <2>2. Moved(d) /\ NoneBefore(d)
    BY <1>9, <2>1, DispatchesAreOrdered
  <2>3. UNCHANGED <<turns, ended, raced>>
    BY <1>9 DEF TurnReturns, TurnThrows, hostVars
  <2>4. \A s \in Sessions :
               \/ tail'[s] = tail[s]
               \/ tail[s] = d /\ tail'[s] = 0 /\ dispatch'[d].pc \in Settled
    BY <1>9, TurnTaken DEF Settled
  <2> HIDE DEF d
  <2> QED
    BY <1>2, <2>2, <2>3, <2>4 DEF OnlyMoved
<1>10. CASE SweepReturns \/ SweepThrows \/ EndReturns
  <2>1. UNCHANGED <<dispatch, turns, raced, tail>> /\ OnlyMoved(0) /\ ~Moved(0)
    BY <1>10 DEF SweepReturns, SweepThrows, EndReturns, hostVars, portVars, OnlyMoved, Moved, Types
  <2>2. Head(queue) = queue[1] /\ ended[queue[1].session] = "ending"
    BY <1>10, TakenEnd, Taken DEF SweepReturns, SweepThrows, EndReturns
  <2>3. ended' = ended \/ \E e \in {"ticking", "stuck"} :
                            ended' = [ended EXCEPT ![queue[1].session] = e]
    BY <1>10, <2>2 DEF SweepReturns, SweepThrows, EndReturns, portVars
  <2>4. \A t \in Sessions : ended'[t] = "open" <=> ended[t] = "open"
    BY <1>0, <2>2, <2>3
  <2>5. AfterInv'
    BY <1>1, <2>1, <2>4, AfterKept DEF Open
  <2>6. ChainInv'
    BY <2>1, <2>4, ChainKept
  <2> QED
    BY <2>5, <2>6
<1> QED
  BY <1>3, <1>4, <1>5, <1>6, <1>7, <1>8, <1>9, <1>10, IdleChains DEF Next, Finished

(***************************************************************************)
(* What the SDK is given.                                                  *)
(***************************************************************************)

\* The messages of the extractions of a session that have not begun.
Coming(s) ==
  {m \in Messages : \E i \in DOMAIN queue :
     Turn(i) /\ queue[i].session = s /\ m \in queue[i].messages}

Ends(s) == \E i \in DOMAIN queue : queue[i].op = "end" /\ queue[i].session = s

\* While a session is open the port has each of its calls, or has handed it over.
CallsInv ==
  \A s \in Sessions :
    /\ ended[s] = "open" => \A n \in 1 .. turns[s] : n \in calls[s] \/ <<"call", n>> \in handed[s]
    /\ ended[s] # "open" => calls[s] = {}
    /\ ended[s] = "gone" => pending[s] = 0 /\ tail[s] = 0

\* What the SDK was given is learned, in its table or coming.  The sweep learns the table
\* when nothing comes any more.
GivenInv ==
  \A s \in Sessions \ raced :
    /\ handed[s] \subseteq learned[s] \cup held[s] \cup Coming(s)
    /\ Ends(s) => handed[s] \subseteq learned[s]
    /\ ended[s] \in {"ticking", "gone"} => handed[s] \subseteq learned[s] /\ s \notin live
    /\ ended[s] = "gone" => delivered[s] = {}

LEMMA Grows ==
  ASSUME Types, TaskInv, [Next]_vars
  PROVE  /\ raced \subseteq raced'
         /\ \A s \in Sessions : /\ learned[s] \subseteq learned'[s]
                                /\ handed[s] \subseteq handed'[s]
                                /\ turns[s] <= turns'[s]
<1>0. /\ learned \in [Sessions -> SUBSET Messages] /\ handed \in [Sessions -> SUBSET Messages]
      /\ turns \in [Sessions -> 0 .. MaxTurns] /\ MaxTurns \in Nat
  BY DEF Types
<1> DEFINE Goal == /\ raced \subseteq raced'
                   /\ \A s \in Sessions : /\ learned[s] \subseteq learned'[s]
                                          /\ handed[s] \subseteq handed'[s]
                                          /\ turns[s] <= turns'[s]
<1>1. UNCHANGED <<raced, learned, handed, turns>> => Goal
  BY <1>0
<1>2. ASSUME NEW s \in Sessions, HostTurn(s) PROVE Goal
  BY <1>0, <1>2 DEF HostTurn, sdkVars
<1>3. ASSUME NEW s \in Sessions, Deleted(s) PROVE Goal
  BY <1>0, <1>3 DEF Deleted, hostVars
<1>4. ASSUME NEW d \in DOMAIN dispatch, HandOver(d) PROVE Goal
  <2> DEFINE s == dispatch[d].session
             messages == WithCalls(s, WithCompletedText(s, dispatch[d].got))
  <2>1. UNCHANGED <<raced, learned, turns>> /\ handed' = [handed EXCEPT ![s] = @ \cup messages]
    BY <1>4 DEF HandOver, hostVars
  <2> HIDE DEF messages, s
  <2> QED
    BY <1>0, <2>1
<1>5. CASE TurnReturns \/ TurnThrows
  <2>1. UNCHANGED <<raced, handed, turns>>
    BY <1>5 DEF TurnReturns, TurnThrows, hostVars
  <2>2. held \in [Sessions -> SUBSET Messages] /\ queue[1].session \in Sessions
    BY <1>5, Taken, TurnTaken, TakenTurn DEF Types
  <2>3. /\ held' = [held EXCEPT ![queue[1].session] = @ \cup queue[1].messages]
        /\ \/ learned' = learned
           \/ learned' = [learned EXCEPT ![queue[1].session] = @ \cup held'[queue[1].session]]
    BY <1>5, TurnTaken
  <2>4. \A s \in Sessions : learned[s] \subseteq learned'[s]
    BY <1>0, <2>3
  <2> QED
    BY <1>0, <2>1, <2>4
<1>6. CASE SweepReturns
  <2>1. UNCHANGED <<raced, handed, turns>>
        /\ learned' = [learned EXCEPT ![Head(queue).session] = @ \cup held[Head(queue).session]]
    BY <1>6 DEF SweepReturns, hostVars
  <2> QED
    BY <1>0, <2>1
<1>7. CASE SweepThrows \/ EndReturns \/ UNCHANGED vars
  BY <1>1, <1>7 DEF SweepThrows, EndReturns, vars, hostVars, sdkVars
<1>8. ASSUME NEW s \in Sessions, HostLists(s) \/ Idle(s) \/ DeletedReturns(s) \/ DeletedThrows(s)
      PROVE  Goal
  BY <1>1, <1>8 DEF HostLists, Idle, IdleAfter, DeletedReturns, DeletedThrows, hostVars, sdkVars
<1>9. ASSUME NEW d \in DOMAIN dispatch,
             Ask(d) \/ Skip(d) \/ AskFails(d) \/ Repeated(d) \/ HandlerReturns(d) \/ HandlerThrows(d)
      PROVE  Goal
  BY <1>1, <1>9 DEF Ask, Skip, AskFails, Repeated, HandlerReturns, HandlerThrows, hostVars, sdkVars
<1>10. CASE Next
  BY <1>2, <1>3, <1>4, <1>5, <1>6, <1>7, <1>8, <1>9, <1>10 DEF Next, Finished
<1> QED
  BY <1>7, <1>10 DEF Goal

LEMMA GivenInit == Init => CallsInv /\ GivenInv
<1> SUFFICES ASSUME Init PROVE CallsInv /\ GivenInv
  OBVIOUS
<1>1. CallsInv
  BY DEF Init, CallsInv
<1>2. GivenInv
  BY DEF Init, GivenInv, Ends
<1> QED
  BY <1>1, <1>2

LEMMA CallsNext == Types /\ TaskInv /\ CallsInv /\ [Next]_vars => CallsInv'
<1> SUFFICES ASSUME Types, TaskInv, CallsInv, [Next]_vars PROVE CallsInv'
  OBVIOUS
<1>0. /\ turns \in [Sessions -> 0 .. MaxTurns] /\ MaxTurns \in Nat
      /\ ended \in [Sessions -> {"open", "ending", "ticking", "gone", "stuck"}]
      /\ pending \in [Sessions -> 0 .. MaxTurns]
      /\ calls \in [Sessions -> SUBSET (1 .. MaxTurns)]
      /\ tail \in [Sessions -> 0 .. MaxIdles]
      /\ handed \in [Sessions -> SUBSET Messages]
  BY DEF Types
<1>1. ASSUME UNCHANGED <<turns, calls, handed>>,
             \A s \in Sessions : ended'[s] = "open" <=> ended[s] = "open",
             \A s \in Sessions : ended'[s] = "gone" =>
               \/ pending'[s] = 0 /\ tail'[s] = 0
               \/ ended[s] = "gone" /\ pending'[s] \in {pending[s], 0} /\ tail'[s] \in {tail[s], 0}
      PROVE  CallsInv'
  BY <1>1 DEF CallsInv
<1>2. ASSUME NEW s \in Sessions, HostTurn(s) PROVE CallsInv'
  <2>1. /\ turns' = [turns EXCEPT ![s] = @ + 1] /\ ended[s] = "open"
        /\ calls' = [calls EXCEPT ![s] = @ \cup {turns[s] + 1}]
        /\ pending' = [pending EXCEPT ![s] = turns[s] + 1]
        /\ UNCHANGED <<ended, tail, handed>>
    BY <1>2 DEF HostTurn, sdkVars
  <2>2. ASSUME NEW n \in 1 .. turns'[s] PROVE n \in calls'[s] \/ <<"call", n>> \in handed'[s]
    <3>1. n \in 1 .. turns[s] \/ n = turns[s] + 1
      BY <1>0, <2>1
    <3> QED
      BY <1>0, <2>1, <3>1 DEF CallsInv
  <2>3. ASSUME NEW t \in Sessions, t # s
        PROVE  turns'[t] = turns[t] /\ calls'[t] = calls[t] /\ pending'[t] = pending[t]
    BY <1>0, <2>1, <2>3
  <2> QED
    BY <2>1, <2>2, <2>3 DEF CallsInv
<1>3. ASSUME NEW s \in Sessions, Deleted(s) PROVE CallsInv'
  <2>1. /\ ended' = [ended EXCEPT ![s] = "ending"] /\ calls' = [calls EXCEPT ![s] = {}]
        /\ UNCHANGED <<turns, pending, tail, handed>>
    BY <1>3 DEF Deleted, hostVars
  <2> QED
    BY <1>0, <2>1 DEF CallsInv
<1>4. ASSUME NEW d \in DOMAIN dispatch, HandOver(d) PROVE CallsInv'
  <2> DEFINE s == dispatch[d].session
             messages == WithCalls(s, WithCompletedText(s, dispatch[d].got))
  <2>1. /\ UNCHANGED <<turns, ended, pending, tail>> /\ calls' = [calls EXCEPT ![s] = {}]
        /\ handed' = [handed EXCEPT ![s] = @ \cup messages]
    BY <1>4 DEF HandOver, hostVars
  <2>2. \A n \in calls[s] : <<"call", n>> \in messages
    BY DEF WithCalls
  <2>3. s \in Sessions
    BY Dispatched, DispatchFields
  <2> HIDE DEF messages, s
  <2> QED
    BY <1>0, <2>1, <2>2, <2>3 DEF CallsInv
<1>5. ASSUME NEW s \in Sessions, DeletedReturns(s) PROVE CallsInv'
  <2>1. /\ ended[s] = "ticking" /\ ended' = [ended EXCEPT ![s] = "gone"]
        /\ pending' = [pending EXCEPT ![s] = 0] /\ tail' = [tail EXCEPT ![s] = 0]
        /\ UNCHANGED <<turns, calls, handed>>
    BY <1>5 DEF DeletedReturns, hostVars, sdkVars
  <2> QED
    BY <1>0, <1>1, <2>1
<1>6. ASSUME NEW s \in Sessions, DeletedThrows(s) PROVE CallsInv'
  <2>1. /\ ended[s] = "ticking" /\ ended' = [ended EXCEPT ![s] = "stuck"]
        /\ UNCHANGED <<turns, calls, pending, tail, handed>>
    BY <1>6 DEF DeletedThrows, hostVars, sdkVars
  <2> QED
    BY <1>0, <1>1, <2>1
<1>7. CASE SweepThrows \/ EndReturns
  <2>1. Head(queue) = queue[1] /\ ended[queue[1].session] = "ending"
    BY <1>7, TakenEnd, Taken DEF SweepThrows, EndReturns
  <2>2. /\ \E e \in {"ticking", "stuck"} : ended' = [ended EXCEPT ![queue[1].session] = e]
        /\ UNCHANGED <<turns, calls, pending, tail, handed>>
    BY <1>7, <2>1 DEF SweepThrows, EndReturns, hostVars
  <2> QED
    BY <1>0, <1>1, <2>1, <2>2
<1>8. CASE SweepReturns \/ UNCHANGED vars
  BY <1>1, <1>8 DEF SweepReturns, vars, hostVars, portVars, sdkVars
<1>9. ASSUME NEW s \in Sessions, HostLists(s) PROVE CallsInv'
  BY <1>1, <1>9 DEF HostLists, portVars, sdkVars
<1>10. ASSUME NEW s \in Sessions, Idle(s) PROVE CallsInv'
  <2>1. /\ ended[s] = "open" /\ UNCHANGED <<turns, ended, pending, calls, handed>>
        /\ tail' = [tail EXCEPT ![s] = Len(dispatch) + 1]
    BY <1>10 DEF Idle, IdleAfter, hostVars, sdkVars
  <2> QED
    BY <1>0, <1>1, <2>1
<1>11. ASSUME NEW d \in DOMAIN dispatch,
              Ask(d) \/ Skip(d) \/ AskFails(d) \/ Repeated(d) \/ HandlerReturns(d) \/ HandlerThrows(d)
       PROVE  CallsInv'
  <2>1. UNCHANGED <<turns, ended, calls, handed>>
    BY <1>11 DEF Ask, Skip, AskFails, Repeated, HandlerReturns, HandlerThrows, hostVars, sdkVars
  <2>2. pending' = pending \/ pending' = [pending EXCEPT ![dispatch[d].session] = 0]
    BY <1>11 DEF Ask, Skip, AskFails, Repeated, HandlerReturns, HandlerThrows
  <2>3. tail' = tail \/ tail' = [s \in Sessions |-> IF tail[s] = d THEN 0 ELSE tail[s]]
    BY <1>11 DEF Ask, Skip, AskFails, Repeated, HandlerReturns, HandlerThrows, Settle
  <2>4. \A s \in Sessions : tail'[s] \in {tail[s], 0}
    BY <2>3
  <2>5. \A s \in Sessions : pending'[s] \in {pending[s], 0}
    BY <1>0, <2>2
  <2> QED
    BY <1>1, <2>1, <2>4, <2>5
<1>12. CASE TurnReturns \/ TurnThrows
  <2>1. UNCHANGED <<turns, ended, calls, handed, pending>>
    BY <1>12 DEF TurnReturns, TurnThrows, hostVars
  <2>2. \A s \in Sessions : tail'[s] \in {tail[s], 0}
    BY <1>12, TurnTaken
  <2> QED
    BY <1>1, <2>1, <2>2
<1> QED
  BY <1>2, <1>3, <1>4, <1>5, <1>6, <1>7, <1>8, <1>9, <1>10, <1>11, <1>12 DEF Next, Finished

\* No turn of a session comes that is not open and was not deleted with one in flight.
LEMMA NothingComes ==
  ASSUME Types, TaskInv, AfterInv, NEW s \in Sessions \ raced, ended[s] # "open"
  PROVE  /\ Coming(s) = {}
         /\ \A i \in DOMAIN queue : Turn(i) => queue[i].session # s
         /\ \A d \in DOMAIN dispatch : dispatch[d].session = s => ~Unsettled(d)
<1>1. \A d \in DOMAIN dispatch : dispatch[d].session = s => ~Unsettled(d)
  BY DEF AfterInv, Open
<1>2. ASSUME NEW i \in DOMAIN queue, Turn(i) PROVE queue[i].session # s
  <2>1. /\ queue[i].dispatch \in DOMAIN dispatch /\ dispatch[queue[i].dispatch].pc = "queued"
        /\ dispatch[queue[i].dispatch].session = queue[i].session
    BY <1>2 DEF TaskInv
  <2> QED
    BY <1>1, <2>1 DEF Unsettled, Settled
<1> QED
  BY <1>1, <1>2 DEF Coming

LEMMA EndsInTime ==
  ASSUME Types, TaskInv, NEW s \in Sessions, Ends(s)
  PROVE  ended[s] = "ending"
BY DEF TaskInv, Ends, Turn

\* The first task leaves the queue.
LEMMA TaskLeaves ==
  ASSUME Types, TaskInv, queue # <<>>, queue' = Tail(queue), NEW s \in Sessions
  PROVE  /\ Coming(s) \subseteq Coming(s)' \cup
              (IF Turn(1) /\ queue[1].session = s THEN queue[1].messages ELSE {})
         /\ Ends(s)' => Ends(s)
<1>1. queue \in Seq(TaskType)
  BY DEF Types
<1> DEFINE n == Len(queue) - 1
<1>2. /\ n \in Nat /\ DOMAIN queue = 1 .. n + 1 /\ DOMAIN queue' = 1 .. n
      /\ \A i \in 1 .. n : i + 1 \in DOMAIN queue /\ queue'[i] = queue[i + 1]
  BY <1>1, TailFacts
<1> HIDE DEF n
<1>3. Ends(s)' => Ends(s)
  BY <1>2 DEF Ends
<1>4. ASSUME NEW m \in Messages, NEW i \in DOMAIN queue, Turn(i), queue[i].session = s,
             m \in queue[i].messages, i # 1
      PROVE  m \in Coming(s)'
  <2>1. i - 1 \in DOMAIN queue' /\ queue'[i - 1] = queue[i]
    BY <1>2, <1>4
  <2>2. \E j \in DOMAIN queue' : queue'[j].op = "turn" /\ queue'[j].session = s
                                 /\ m \in queue'[j].messages
    BY <1>4, <2>1 DEF Turn
  <2> QED
    BY <2>2 DEF Coming, Turn
<1>5. ASSUME NEW m \in Coming(s)
      PROVE  m \in Coming(s)' \/ (Turn(1) /\ queue[1].session = s /\ m \in queue[1].messages)
  BY <1>4 DEF Coming
<1> QED
  BY <1>3, <1>5

\* A task follows the others.
LEMMA TaskFollows ==
  ASSUME Types, NEW q \in Seq(TaskType), NEW t \in TaskType, queue' = Append(q, t),
         NEW s \in Sessions
  PROVE  /\ \A m \in Messages :
              (\E i \in DOMAIN q : q[i].op = "turn" /\ q[i].session = s /\ m \in q[i].messages)
              \/ (t.op = "turn" /\ t.session = s /\ m \in t.messages) => m \in Coming(s)'
         /\ Ends(s)' => (\E i \in DOMAIN q : q[i].op = "end" /\ q[i].session = s)
                        \/ (t.op = "end" /\ t.session = s)
<1> DEFINE n == Len(q)
<1>1. /\ n \in Nat /\ DOMAIN q = 1 .. n /\ DOMAIN queue' = 1 .. n + 1
      /\ \A i \in DOMAIN q : queue'[i] = q[i]
      /\ queue'[n + 1] = t
  BY AppendFacts
<1> HIDE DEF n
<1>2. Ends(s)' => (\E i \in DOMAIN q : q[i].op = "end" /\ q[i].session = s)
                        \/ (t.op = "end" /\ t.session = s)
  BY <1>1 DEF Ends
<1>3. ASSUME NEW m \in Messages, NEW i \in DOMAIN q, q[i].op = "turn", q[i].session = s,
             m \in q[i].messages
      PROVE  m \in Coming(s)'
  <2>1. i \in DOMAIN queue' /\ queue'[i] = q[i]
    BY <1>1
  <2> QED
    BY <1>3, <2>1 DEF Coming, Turn
<1>4. ASSUME NEW m \in Messages, t.op = "turn", t.session = s, m \in t.messages
      PROVE  m \in Coming(s)'
  <2>1. n + 1 \in DOMAIN queue' /\ queue'[n + 1] = t
    BY <1>1
  <2> QED
    BY <1>4, <2>1 DEF Coming, Turn
<1> QED
  BY <1>2, <1>3, <1>4

LEMMA TasksUnchanged ==
  ASSUME queue' = queue, NEW s
  PROVE  Coming(s)' = Coming(s) /\ (Ends(s)' <=> Ends(s))
BY DEF Coming, Ends, Turn

LEMMA GivenNext == Types /\ TaskInv /\ AfterInv /\ GivenInv /\ [Next]_vars => GivenInv'
<1> SUFFICES ASSUME Types, TaskInv, AfterInv, GivenInv, [Next]_vars,
                    NEW s \in Sessions, s \notin raced'
             PROVE  /\ handed'[s] \subseteq learned'[s] \cup held'[s] \cup Coming(s)'
                    /\ Ends(s)' => handed'[s] \subseteq learned'[s]
                    /\ ended'[s] \in {"ticking", "gone"} =>
                         handed'[s] \subseteq learned'[s] /\ s \notin live'
                    /\ ended'[s] = "gone" => delivered'[s] = {}
  BY DEF GivenInv
<1> DEFINE Goal == /\ handed'[s] \subseteq learned'[s] \cup held'[s] \cup Coming(s)'
                   /\ Ends(s)' => handed'[s] \subseteq learned'[s]
                   /\ ended'[s] \in {"ticking", "gone"} =>
                        handed'[s] \subseteq learned'[s] /\ s \notin live'
                   /\ ended'[s] = "gone" => delivered'[s] = {}
<1>0. /\ ended \in [Sessions -> {"open", "ending", "ticking", "gone", "stuck"}]
      /\ delivered \in [Sessions -> SUBSET Messages] /\ held \in [Sessions -> SUBSET Messages]
      /\ learned \in [Sessions -> SUBSET Messages] /\ handed \in [Sessions -> SUBSET Messages]
  BY DEF Types
<1>1. s \in Sessions \ raced
  BY Grows
<1>2. /\ handed[s] \subseteq learned[s] \cup held[s] \cup Coming(s)
      /\ Ends(s) => handed[s] \subseteq learned[s]
      /\ ended[s] \in {"ticking", "gone"} => handed[s] \subseteq learned[s] /\ s \notin live
      /\ ended[s] = "gone" => delivered[s] = {}
  BY <1>1 DEF GivenInv
<1>3. ASSUME UNCHANGED <<queue, handed, learned, held, live>>,
             \/ ended'[s] = ended[s] \/ ended'[s] \in {"open", "stuck"}
             \/ ended[s] = "ticking" /\ delivered'[s] = {},
             delivered'[s] = delivered[s] \/ delivered'[s] = {}
      PROVE  Goal
  BY <1>2, <1>3, TasksUnchanged
<1>4. ASSUME NEW t \in Sessions, HostTurn(t) \/ HostLists(t) \/ Idle(t) PROVE Goal
  <2>1. UNCHANGED <<queue, handed, learned, held, live, ended, delivered>>
    BY <1>4 DEF HostTurn, HostLists, Idle, IdleAfter, portVars, sdkVars
  <2> QED
    BY <1>3, <2>1
<1>5. ASSUME NEW t \in Sessions, Deleted(t) PROVE Goal
  <2>1. /\ queue' = Append(queue, Queued("sweep", t)) /\ queue \in Seq(TaskType)
        /\ ended' = [ended EXCEPT ![t] = "ending"]
        /\ UNCHANGED <<handed, learned, held, live, delivered>>
    BY <1>5 DEF Deleted, Ending, Types
  <2>2. Queued("sweep", t) \in TaskType /\ Queued("sweep", t).op = "sweep"
    BY EndTask
  <2>3. Coming(s) \subseteq Coming(s)' /\ (Ends(s)' => Ends(s))
    <3>1. Ends(s)' => Ends(s)
      BY <2>1, <2>2, TaskFollows DEF Ends
    <3>2. \A m \in Messages :
            (\E i \in DOMAIN queue : queue[i].op = "turn" /\ queue[i].session = s
                                     /\ m \in queue[i].messages) => m \in Coming(s)'
      BY <2>1, <2>2, TaskFollows
    <3> QED
      BY <3>1, <3>2 DEF Coming, Turn
  <2>4. ended'[s] = ended[s] \/ ended'[s] = "ending"
    BY <1>0, <2>1
  <2> QED
    BY <1>2, <2>1, <2>3, <2>4
<1>6. ASSUME NEW t \in Sessions, DeletedReturns(t) \/ DeletedThrows(t) PROVE Goal
  <2>1. /\ UNCHANGED <<queue, handed, learned, held, live>> /\ ended[t] = "ticking"
        /\ \/ ended' = [ended EXCEPT ![t] = "gone"] /\ delivered' = [delivered EXCEPT ![t] = {}]
           \/ ended' = [ended EXCEPT ![t] = "stuck"] /\ delivered' = delivered
    BY <1>6 DEF DeletedReturns, DeletedThrows, sdkVars
  <2>2. CASE s = t
    <3>1. ended[s] = "ticking" /\ (ended'[s] = "stuck" \/ delivered'[s] = {})
          /\ (delivered'[s] = delivered[s] \/ delivered'[s] = {})
      BY <1>0, <2>1, <2>2
    <3> QED
      BY <1>3, <2>1, <3>1
  <2>3. CASE s # t
    <3>1. ended'[s] = ended[s] /\ delivered'[s] = delivered[s]
      BY <1>0, <2>1, <2>3
    <3> QED
      BY <1>3, <2>1, <3>1
  <2> QED
    BY <2>2, <2>3
<1>7. ASSUME NEW d \in DOMAIN dispatch,
             Ask(d) \/ Skip(d) \/ AskFails(d) \/ Repeated(d) \/ HandlerThrows(d)
      PROVE  Goal
  <2>1. UNCHANGED <<queue, handed, learned, held, live, ended, delivered>>
    BY <1>7 DEF Ask, Skip, AskFails, Repeated, HandlerThrows, sdkVars
  <2> QED
    BY <1>3, <2>1
<1>8. ASSUME NEW d \in DOMAIN dispatch, HandlerReturns(d) PROVE Goal
  <2>1. /\ UNCHANGED <<queue, handed, learned, held, live, ended>>
        /\ delivered' = [delivered EXCEPT ![dispatch[d].session] = dispatch[d].got]
        /\ Unsettled(d)
    BY <1>8 DEF HandlerReturns, sdkVars, Unsettled, Settled
  <2>2. delivered'[s] = delivered[s] \/ dispatch[d].session = s
    BY <1>0, <2>1
  <2>3. dispatch[d].session = s => ended[s] = "open"
    BY <1>1, <2>1, NothingComes
  <2>4. CASE dispatch[d].session = s
    BY <1>2, <2>1, <2>3, <2>4, TasksUnchanged
  <2> QED
    BY <1>3, <2>1, <2>2, <2>4
<1>9. ASSUME NEW d \in DOMAIN dispatch, HandOver(d) PROVE Goal
  <2> DEFINE messages == WithCalls(dispatch[d].session,
                                   WithCompletedText(dispatch[d].session, dispatch[d].got))
             task == [op |-> "turn", session |-> dispatch[d].session, dispatch |-> d,
                      messages |-> messages]
  <2>1. /\ queue' = Append(queue, task) /\ queue \in Seq(TaskType)
        /\ handed' = [handed EXCEPT ![dispatch[d].session] = @ \cup messages]
        /\ UNCHANGED <<learned, held, live, ended, delivered>> /\ Unsettled(d)
    BY <1>9 DEF HandOver, Types, Unsettled, Settled
  <2>2. dispatch[d].session \in Sessions /\ dispatch[d].got \in SUBSET Messages /\ d \in Nat
    BY Dispatched, DispatchFields
  <2>3. messages \in SUBSET Messages
    BY <2>2, ReadTypes
  <2> HIDE DEF messages
  <2>4. /\ task \in TaskType /\ task.op = "turn" /\ task.session = dispatch[d].session
        /\ task.messages = messages
    BY <2>2, <2>3 DEF TaskType, TurnType
  <2> HIDE DEF task
  <2>5. /\ \A m \in Messages :
             (\E i \in DOMAIN queue : queue[i].op = "turn" /\ queue[i].session = s
                                      /\ m \in queue[i].messages)
             \/ (s = dispatch[d].session /\ m \in messages) => m \in Coming(s)'
        /\ Ends(s)' => Ends(s)
    <3>1. /\ \A m \in Messages :
              (\E i \in DOMAIN queue : queue[i].op = "turn" /\ queue[i].session = s
                                       /\ m \in queue[i].messages)
              \/ (task.op = "turn" /\ task.session = s /\ m \in task.messages) => m \in Coming(s)'
          /\ Ends(s)' => (\E i \in DOMAIN queue : queue[i].op = "end" /\ queue[i].session = s)
                         \/ (task.op = "end" /\ task.session = s)
      BY <2>1, <2>4, TaskFollows
    <3> QED
      BY <2>4, <3>1 DEF Ends
  <2>6. Coming(s) \subseteq Coming(s)'
        /\ (s = dispatch[d].session => messages \subseteq Coming(s)')
    BY <2>3, <2>5 DEF Coming, Turn
  <2>7. CASE s # dispatch[d].session
    <3>1. handed'[s] = handed[s]
      BY <1>0, <2>1, <2>7
    <3> QED
      BY <1>2, <2>1, <2>5, <2>6, <3>1
  <2>8. CASE s = dispatch[d].session
    <3>1. handed'[s] = handed[s] \cup messages
      BY <1>0, <2>1, <2>8
    <3>2. ended[s] = "open"
      BY <1>1, <2>1, <2>8, NothingComes
    <3>3. ~Ends(s)
      BY <3>2, EndsInTime
    <3> QED
      BY <1>2, <2>1, <2>5, <2>6, <2>8, <3>1, <3>2, <3>3
  <2> QED
    BY <2>7, <2>8
<1>10. CASE TurnReturns \/ TurnThrows
  <2> DEFINE t == queue[1].session
  <2>1. /\ queue # <<>> /\ Turn(1) /\ queue' = Tail(queue)
        /\ live' = live \cup {t} /\ held' = [held EXCEPT ![t] = @ \cup queue[1].messages]
        /\ \/ learned' = learned
           \/ learned' = [learned EXCEPT ![t] = @ \cup held'[t]]
    BY <1>10, TurnTaken, TakenTurn
  <2>2. UNCHANGED <<handed, ended, delivered>>
    BY <1>10 DEF TurnReturns, TurnThrows
  <2>3. /\ Coming(s) \subseteq Coming(s)' \cup (IF t = s THEN queue[1].messages ELSE {})
        /\ Ends(s)' => Ends(s)
    BY <2>1, TaskLeaves
  <2>4. 1 \in DOMAIN queue
    BY <2>1, Taken
  <2>5. learned[s] \subseteq learned'[s]
    BY Grows
  <2>6. CASE t = s
    <3>1. ended[s] = "open"
      BY <1>1, <2>1, <2>4, <2>6, NothingComes
    <3>2. held'[s] = held[s] \cup queue[1].messages
      BY <1>0, <2>1, <2>6
    <3> QED
      BY <1>2, <2>2, <2>3, <2>5, <2>6, <3>1, <3>2
  <2>7. CASE t # s
    <3>1. held'[s] = held[s] /\ (s \in live' => s \in live)
      BY <1>0, <2>1, <2>7
    <3>2. Coming(s) \subseteq Coming(s)'
      BY <2>3, <2>7
    <3> HIDE DEF t
    <3> QED
      BY <1>2, <2>2, <2>3, <2>5, <3>1, <3>2
  <2> QED
    BY <2>6, <2>7
<1>11. CASE SweepReturns \/ SweepThrows \/ EndReturns
  <2> DEFINE t == queue[1].session
  <2>1. queue # <<>> /\ ~Turn(1) /\ ended[t] = "ending" /\ t \in Sessions
        /\ Head(queue) = queue[1] /\ Tail(queue) \in Seq(TaskType) /\ 1 \in DOMAIN queue
    BY <1>11, TakenEnd, Taken DEF SweepReturns, SweepThrows, EndReturns
  <2>2. UNCHANGED <<handed, delivered>>
    BY <1>11 DEF SweepReturns, SweepThrows, EndReturns, portVars
  <2>3. ASSUME queue' = Tail(queue) PROVE Coming(s) \subseteq Coming(s)' /\ (Ends(s)' => Ends(s))
    BY <2>1, <2>3, TaskLeaves
  <2>4. CASE SweepReturns
    <3>1. /\ queue' = Append(Tail(queue), Queued("end", t)) /\ ended' = ended
          /\ live' = live \cup {t} /\ held' = [held EXCEPT ![t] = @ \cup {}]
          /\ learned' = [learned EXCEPT ![t] = @ \cup held[t]]
      BY <2>1, <2>4 DEF SweepReturns, Hold, portVars
    <3>2. /\ Queued("end", t) \in TaskType /\ Queued("end", t).op = "end"
          /\ Queued("end", t).session = t
      BY <2>1, EndTask
    <3>3. held'[s] = held[s] /\ learned[s] \subseteq learned'[s] /\ (s = t => learned'[s] = learned[s] \cup held[s])
      BY <1>0, <3>1
    <3>4. /\ \A m \in Messages :
              (\E i \in DOMAIN Tail(queue) : Tail(queue)[i].op = "turn" /\ Tail(queue)[i].session = s
                                       /\ m \in Tail(queue)[i].messages) => m \in Coming(s)'
          /\ Ends(s)' => (\E i \in DOMAIN Tail(queue) : Tail(queue)[i].op = "end"
                                                        /\ Tail(queue)[i].session = s)
                         \/ t = s
      BY <2>1, <3>1, <3>2, TaskFollows
    <3>5. /\ DOMAIN queue = 1 .. Len(queue) /\ Len(queue) \in Nat
          /\ DOMAIN Tail(queue) = 1 .. Len(queue) - 1
          /\ \A i \in 1 .. Len(queue) - 1 : i + 1 \in DOMAIN queue /\ Tail(queue)[i] = queue[i + 1]
      <4>1. queue \in Seq(TaskType)
        BY DEF Types
      <4> QED
        BY <2>1, <4>1, TailFacts
    <3>6. Coming(s) \subseteq Coming(s)'
      <4>1. ASSUME NEW m \in Messages, NEW i \in DOMAIN queue, Turn(i), queue[i].session = s,
                   m \in queue[i].messages
            PROVE  m \in Coming(s)'
        <5>1. i - 1 \in DOMAIN Tail(queue) /\ Tail(queue)[i - 1] = queue[i]
          BY <2>1, <3>5, <4>1
        <5> QED
          BY <3>4, <4>1, <5>1 DEF Turn
      <4> QED
        BY <4>1 DEF Coming
    <3>7. CASE s = t
      <4>1. Coming(s) = {}
        BY <1>1, <2>1, <3>7, NothingComes
      <4>2. handed[s] \subseteq learned'[s]
        BY <1>2, <3>3, <3>7, <4>1
      <4> QED
        BY <2>1, <2>2, <3>1, <3>7, <4>2
    <3>8. CASE s # t
      <4>1. Ends(s)' => Ends(s)
        BY <3>4, <3>5, <3>8 DEF Ends
      <4>2. s \in live' => s \in live
        BY <3>1, <3>8
      <4> QED
        BY <1>2, <2>2, <3>1, <3>3, <3>6, <4>1, <4>2
    <3> QED
      BY <3>7, <3>8
  <2>5. CASE SweepThrows
    <3>1. /\ queue' = Tail(queue) /\ ended' = [ended EXCEPT ![t] = "stuck"]
          /\ live' = live \cup {t} /\ held' = [held EXCEPT ![t] = @ \cup {}]
          /\ learned' = learned
      BY <2>1, <2>5 DEF SweepThrows, Hold
    <3>2. held'[s] = held[s] /\ (s \in live' => s \in live \/ s = t)
          /\ ((ended'[s] = ended[s] /\ s # t) \/ ended'[s] = "stuck")
      BY <1>0, <3>1
    <3> QED
      BY <1>2, <2>2, <2>3, <3>1, <3>2
  <2>6. CASE EndReturns
    <3>1. /\ queue' = Tail(queue) /\ ended' = [ended EXCEPT ![t] = "ticking"]
          /\ live' = live \ {t} /\ held' = [held EXCEPT ![t] = {}]
          /\ learned' = learned /\ queue[1].op = "end"
      BY <2>1, <2>6 DEF EndReturns, Task
    <3>2. CASE s = t
      <4>1. handed[s] \subseteq learned[s]
        BY <1>2, <2>1, <3>1, <3>2 DEF Ends
      <4>2. s \notin live' /\ ended'[s] = "ticking"
        BY <1>0, <3>1, <3>2
      <4> QED
        BY <2>2, <3>1, <4>1, <4>2
    <3>3. CASE s # t
      <4>1. held'[s] = held[s] /\ (s \in live' => s \in live) /\ ended'[s] = ended[s]
        BY <1>0, <3>1, <3>3
      <4> QED
        BY <1>2, <2>2, <2>3, <3>1, <4>1
    <3> QED
      BY <3>2, <3>3
  <2> QED
    BY <1>11, <2>4, <2>5, <2>6
<1>12. CASE UNCHANGED vars
  <2>1. UNCHANGED <<queue, handed, learned, held, live, ended, delivered>>
    BY <1>12 DEF vars, portVars, sdkVars
  <2> QED
    BY <1>3, <2>1
<1>13. CASE Next
  BY <1>4, <1>5, <1>6, <1>7, <1>8, <1>9, <1>10, <1>11, <1>12, <1>13 DEF Next, Finished
<1> QED
  BY <1>12, <1>13

(***************************************************************************)
(* What a dispatch has read, and what counts as delivered.                 *)
(***************************************************************************)

\* The calls of the first n turns are in a set of messages.
CallsTo(n, messages) == \A k \in 1 .. n : <<"call", k>> \in messages

\* What counts as delivered is learned, and so are the calls of the turns in it.  If the
\* port holds no answer, one has been learned.
DeliveredOf(s) ==
  /\ delivered[s] \subseteq learned[s]
  /\ pending[s] <= turns[s]
  /\ \A m \in delivered[s] : m[2] <= turns[s]
  /\ s \notin raced =>
       \A n \in 1 .. MaxTurns : <<"user", n>> \in delivered[s] => CallsTo(n, learned[s])
  /\ ended[s] # "gone" /\ turns[s] > 0 /\ pending[s] = 0 => HasAnswer(learned[s])

\* A dispatch has read the messages of the turns that were over, the last one's user's
\* among them, and nothing newer counts as delivered.
ReadOf(d) ==
  LET s == dispatch[d].session
      got == dispatch[d].got
      seen == dispatch[d].seen
  IN  /\ Asked(d) =>
           /\ seen \in 1 .. turns[s] /\ <<"user", seen>> \in got
           /\ \A n \in 1 .. MaxTurns : <<"user", n>> \in got => n <= seen
           /\ \A m \in got : m[2] <= turns[s]
           /\ \A m \in delivered[s] : m[2] <= seen
           /\ dispatch[d].drops => HasAnswer(got)
      /\ dispatch[d].pc = "queued" /\ s \notin raced =>
           /\ HasAnswer(got) \/ HasAnswer(learned[s])
           /\ CallsTo(seen, handed[s])
      /\ dispatch[d].pc \in {"ticking", "done"} =>
           /\ got \subseteq learned[s]
           /\ s \notin raced => HasAnswer(learned[s]) /\ CallsTo(seen, learned[s])

ReadInv ==
  /\ \A s \in Sessions : DeliveredOf(s)
  /\ \A d \in DOMAIN dispatch : ReadOf(d)

Inv ==
  /\ Types
  /\ TaskInv
  /\ AfterInv
  /\ ChainInv
  /\ CallsInv
  /\ GivenInv
  /\ ReadInv

LEMMA MessageFacts ==
  /\ \A m \in Messages : m[2] \in 1 .. MaxTurns
  /\ \A n \in 1 .. MaxTurns : /\ <<"user", n>> \in Messages /\ <<"call", n>> \in Messages
                              /\ <<"answer", n>> \in Messages
  /\ \A n : <<"user", n>> \in Messages => n \in 1 .. MaxTurns
BY DEF Messages

LEMMA MoreAnswers ==
  ASSUME NEW A, NEW B, A \subseteq B
  PROVE  /\ HasAnswer(A) => HasAnswer(B)
         /\ \A n : CallsTo(n, A) => CallsTo(n, B)
BY DEF HasAnswer, CallsTo

LEMMA ReadInit == Init => ReadInv
BY DEF Init, ReadInv, DeliveredOf

\* What is said of a dispatch that does not move stays true.
LEMMA ReadKept ==
  ASSUME Types, TaskInv, [Next]_vars, NEW d \in DOMAIN dispatch, ReadOf(d),
         dispatch'[d] = dispatch[d],
         Asked(d) => delivered'[dispatch[d].session] \subseteq delivered[dispatch[d].session],
         Types'
  PROVE  ReadOf(d)'
<1> DEFINE s == dispatch[d].session
           got == dispatch[d].got
           seen == dispatch[d].seen
<1>0. s \in Sessions /\ got \subseteq Messages /\ seen \in 0 .. MaxTurns /\ MaxTurns \in Nat
  BY Dispatched, DispatchFields
<1>1. /\ raced \subseteq raced' /\ learned[s] \subseteq learned'[s]
      /\ handed[s] \subseteq handed'[s] /\ turns[s] <= turns'[s]
  BY <1>0, Grows
<1>2. turns[s] \in Nat /\ turns'[s] \in Nat
  BY <1>0 DEF Types
<1>3. HasAnswer(learned[s]) => HasAnswer(learned'[s])
  BY <1>1, MoreAnswers
<1>4. CallsTo(seen, learned[s]) => CallsTo(seen, learned'[s])
  BY <1>1, MoreAnswers
<1>5. CallsTo(seen, handed[s]) => CallsTo(seen, handed'[s])
  BY <1>1, MoreAnswers
<1>6. Asked(d)' <=> Asked(d)
  BY DEF Asked
<1>7. Asked(d) =>
        /\ seen \in 1 .. turns'[s] /\ <<"user", seen>> \in got
        /\ \A n \in 1 .. MaxTurns : <<"user", n>> \in got => n <= seen
        /\ \A m \in got : m[2] <= turns'[s]
        /\ \A m \in delivered'[s] : m[2] <= seen
        /\ dispatch[d].drops => HasAnswer(got)
  <2> SUFFICES ASSUME Asked(d)
               PROVE  /\ seen \in 1 .. turns'[s]
                      /\ \A m \in got : m[2] <= turns'[s]
                      /\ \A m \in delivered'[s] : m[2] <= seen
    BY DEF ReadOf
  <2>1. /\ seen \in 1 .. turns[s]
        /\ \A m \in got : m[2] <= turns[s]
        /\ \A m \in delivered[s] : m[2] <= seen
    BY DEF ReadOf
  <2>2. seen \in 1 .. turns'[s]
    BY <1>1, <1>2, <2>1
  <2>3. \A m \in got : m[2] \in Nat
    BY <1>0, MessageFacts
  <2> HIDE DEF s, got, seen
  <2>4. \A m \in got : m[2] <= turns'[s]
    BY <1>1, <1>2, <2>1, <2>3
  <2> QED
    BY <2>1, <2>2, <2>4 DEF s
<1>8. dispatch[d].pc = "queued" /\ s \notin raced' =>
           /\ HasAnswer(got) \/ HasAnswer(learned'[s])
           /\ CallsTo(seen, handed'[s])
  BY <1>1, <1>3, <1>5 DEF ReadOf
<1>9. dispatch[d].pc \in {"ticking", "done"} =>
           /\ got \subseteq learned'[s]
           /\ s \notin raced' => HasAnswer(learned'[s]) /\ CallsTo(seen, learned'[s])
  BY <1>1, <1>3, <1>4 DEF ReadOf
<1> QED
  BY <1>6, <1>7, <1>8, <1>9 DEF ReadOf

LEMMA DeliveredKept ==
  ASSUME Types, TaskInv, [Next]_vars, Types', NEW s \in Sessions, DeliveredOf(s),
         delivered'[s] \subseteq delivered[s], pending'[s] <= turns'[s],
         ended'[s] # "gone" /\ turns'[s] > 0 /\ pending'[s] = 0 =>
           HasAnswer(learned[s]) \/ (ended[s] # "gone" /\ turns[s] > 0 /\ pending[s] = 0)
  PROVE  DeliveredOf(s)'
<1>1. /\ raced \subseteq raced' /\ learned[s] \subseteq learned'[s] /\ turns[s] <= turns'[s]
  BY Grows
<1>2. turns[s] \in Nat /\ turns'[s] \in Nat /\ delivered[s] \subseteq Messages
  BY DEF Types
<1>3. HasAnswer(learned[s]) => HasAnswer(learned'[s])
  BY <1>1, MoreAnswers
<1>4. \A n : CallsTo(n, learned[s]) => CallsTo(n, learned'[s])
  BY <1>1, MoreAnswers
<1>5. \A m \in delivered[s] : m[2] \in Nat
  BY <1>2, MessageFacts
<1>6. \A m \in delivered'[s] : m[2] <= turns'[s]
  BY <1>1, <1>2, <1>5 DEF DeliveredOf
<1>7. s \notin raced' =>
        \A n \in 1 .. MaxTurns : <<"user", n>> \in delivered'[s] => CallsTo(n, learned'[s])
  BY <1>1, <1>4 DEF DeliveredOf
<1>8. ended'[s] # "gone" /\ turns'[s] > 0 /\ pending'[s] = 0 => HasAnswer(learned'[s])
  BY <1>3 DEF DeliveredOf
<1> QED
  BY <1>1, <1>6, <1>7, <1>8 DEF DeliveredOf

LEMMA DeliveredNext ==
  ASSUME Inv, [Next]_vars, Types', NEW s \in Sessions
  PROVE  DeliveredOf(s)'
<1> USE DEF Inv
<1>0. /\ turns \in [Sessions -> 0 .. MaxTurns] /\ MaxTurns \in Nat
      /\ ended \in [Sessions -> {"open", "ending", "ticking", "gone", "stuck"}]
      /\ pending \in [Sessions -> 0 .. MaxTurns]
      /\ delivered \in [Sessions -> SUBSET Messages]
  BY DEF Types
<1>1. DeliveredOf(s)
  BY DEF ReadInv
<1>2. pending[s] <= turns[s]
  BY <1>1 DEF DeliveredOf
<1>3. ASSUME UNCHANGED <<turns, pending, delivered>>, ended'[s] # "gone" => ended[s] # "gone"
      PROVE  DeliveredOf(s)'
  BY <1>1, <1>2, <1>3, DeliveredKept
<1>4. ASSUME NEW t \in Sessions, HostTurn(t) PROVE DeliveredOf(s)'
  <2>1. /\ turns' = [turns EXCEPT ![t] = @ + 1] /\ pending' = [pending EXCEPT ![t] = turns[t] + 1]
        /\ UNCHANGED <<ended, delivered>>
    BY <1>4 DEF HostTurn
  <2>2. CASE s = t
    <3>1. pending'[s] <= turns'[s] /\ pending'[s] # 0
      BY <1>0, <2>1, <2>2
    <3> QED
      BY <1>1, <2>1, <3>1, DeliveredKept
  <2>3. CASE s # t
    <3>1. pending'[s] = pending[s] /\ turns'[s] = turns[s]
      BY <1>0, <2>1, <2>3
    <3> QED
      BY <1>1, <1>2, <2>1, <3>1, DeliveredKept
  <2> QED
    BY <2>2, <2>3
<1>5. ASSUME NEW t \in Sessions, DeletedReturns(t) PROVE DeliveredOf(s)'
  <2>1. /\ ended' = [ended EXCEPT ![t] = "gone"] /\ ended[t] = "ticking"
        /\ pending' = [pending EXCEPT ![t] = 0] /\ delivered' = [delivered EXCEPT ![t] = {}]
        /\ turns' = turns
    BY <1>5 DEF DeletedReturns, hostVars
  <2>2. CASE s = t
    <3>1. /\ pending'[s] <= turns'[s] /\ delivered'[s] \subseteq delivered[s]
          /\ ended'[s] = "gone"
      BY <1>0, <2>1, <2>2
    <3> QED
      BY <1>1, <3>1, DeliveredKept
  <2>3. CASE s # t
    <3>1. pending'[s] = pending[s] /\ ended'[s] = ended[s] /\ delivered'[s] = delivered[s]
      BY <1>0, <2>1, <2>3
    <3> QED
      BY <1>1, <1>2, <2>1, <3>1, DeliveredKept
  <2> QED
    BY <2>2, <2>3
<1>6. ASSUME NEW d \in DOMAIN dispatch, HandlerReturns(d) PROVE DeliveredOf(s)'
  <2> DEFINE t == dispatch[d].session
             got == dispatch[d].got
  <2>1. /\ dispatch[d].pc = "ticking" /\ delivered' = [delivered EXCEPT ![t] = got]
        /\ pending' = IF dispatch[d].drops THEN [pending EXCEPT ![t] = 0] ELSE pending
        /\ UNCHANGED <<turns, ended, learned, raced>>
    BY <1>6 DEF HandlerReturns, hostVars, sdkVars
  <2>2. Asked(d) /\ ReadOf(d) /\ t \in Sessions
    BY <2>1, Dispatched, DispatchFields DEF Asked, ReadInv
  <2>3. CASE s = t
    <3>1. /\ got \subseteq learned[s]
          /\ \A m \in got : m[2] <= turns[s]
          /\ \A n \in 1 .. MaxTurns : <<"user", n>> \in got => n <= dispatch[d].seen
          /\ dispatch[d].drops => HasAnswer(got)
          /\ s \notin raced => CallsTo(dispatch[d].seen, learned[s])
      BY <2>1, <2>2, <2>3 DEF ReadOf
    <3>2. delivered'[s] = got
      BY <1>0, <2>1, <2>2, <2>3
    <3>3. pending'[s] <= turns'[s]
      BY <1>0, <1>2, <2>1, <2>2, <2>3
    <3>4. pending'[s] = pending[s] \/ dispatch[d].drops
      BY <1>0, <2>1
    <3>5. s \notin raced =>
            \A n \in 1 .. MaxTurns : <<"user", n>> \in got => CallsTo(n, learned[s])
      <4> SUFFICES ASSUME s \notin raced, NEW n \in 1 .. MaxTurns, <<"user", n>> \in got
                   PROVE  CallsTo(n, learned[s])
        OBVIOUS
      <4>1. n <= dispatch[d].seen /\ CallsTo(dispatch[d].seen, learned[s])
        BY <3>1
      <4>2. dispatch[d].seen \in Nat
        BY Dispatched, DispatchFields
      <4>3. 1 .. n \subseteq 1 .. dispatch[d].seen
        BY <4>1, <4>2
      <4> QED
        BY <4>1, <4>3 DEF CallsTo
    <3>6. dispatch[d].drops => HasAnswer(learned[s])
      BY <3>1, MoreAnswers
    <3>7. ended[s] # "gone" /\ turns[s] > 0 /\ pending[s] = 0 => HasAnswer(learned[s])
      BY <1>1 DEF DeliveredOf
    <3> HIDE DEF t, got
    <3> QED
      BY <2>1, <3>1, <3>2, <3>3, <3>4, <3>5, <3>6, <3>7 DEF DeliveredOf
  <2>4. CASE s # t
    <3>1. pending'[s] = pending[s] /\ delivered'[s] = delivered[s]
      BY <1>0, <2>1, <2>4
    <3> QED
      BY <1>1, <1>2, <2>1, <3>1, DeliveredKept
  <2> QED
    BY <2>3, <2>4
<1>7. ASSUME NEW t \in Sessions, HostLists(t) \/ Idle(t) \/ Deleted(t) \/ DeletedThrows(t)
      PROVE  DeliveredOf(s)'
  <2>1. UNCHANGED <<turns, pending, delivered>>
    BY <1>7 DEF HostLists, Idle, IdleAfter, Deleted, DeletedThrows, hostVars, portVars
  <2>2. ended' = ended \/ \E e \in {"ending", "stuck"} : ended' = [ended EXCEPT ![t] = e]
                                                         /\ ended[t] # "gone"
    BY <1>7 DEF HostLists, Idle, IdleAfter, Deleted, DeletedThrows, portVars
  <2>3. ended'[s] # "gone" => ended[s] # "gone"
    BY <1>0, <2>2
  <2> QED
    BY <1>3, <2>1, <2>3
<1>8. ASSUME NEW d \in DOMAIN dispatch,
             Ask(d) \/ Skip(d) \/ AskFails(d) \/ Repeated(d) \/ HandOver(d) \/ HandlerThrows(d)
      PROVE  DeliveredOf(s)'
  <2>1. UNCHANGED <<turns, pending, delivered, ended>>
    BY <1>8 DEF Ask, Skip, AskFails, Repeated, HandOver, HandlerThrows, hostVars
  <2> QED
    BY <1>3, <2>1
<1>9. CASE TurnReturns \/ TurnThrows \/ SweepReturns \/ UNCHANGED vars
  <2>1. UNCHANGED <<turns, pending, delivered, ended>>
    BY <1>9 DEF TurnReturns, TurnThrows, SweepReturns, hostVars, portVars, vars
  <2> QED
    BY <1>3, <2>1
<1>10. CASE SweepThrows \/ EndReturns
  <2>1. Head(queue) = queue[1] /\ ended[queue[1].session] = "ending"
    BY <1>10, TakenEnd, Taken DEF SweepThrows, EndReturns
  <2>2. /\ \E e \in {"ticking", "stuck"} : ended' = [ended EXCEPT ![queue[1].session] = e]
        /\ UNCHANGED <<turns, pending, delivered>>
    BY <1>10, <2>1 DEF SweepThrows, EndReturns, hostVars
  <2>3. ended'[s] # "gone" => ended[s] # "gone"
    BY <1>0, <2>1, <2>2
  <2> QED
    BY <1>3, <2>2, <2>3
<1>11. CASE Next
  BY <1>4, <1>5, <1>6, <1>7, <1>8, <1>9, <1>10, <1>11 DEF Next, Finished
<1> QED
  BY <1>9, <1>11

\* Ask
LEMMA AskReads ==
  ASSUME Inv, Types', NEW d \in DOMAIN dispatch, Ask(d)
  PROVE  ReadOf(d)'
<1> USE DEF Inv
<1> DEFINE s == dispatch[d].session
           got == Listing(s)
<1>1. /\ Moved(d) /\ dispatch'[d].pc = "asking" /\ dispatch'[d].got = got
      /\ dispatch'[d].seen = turns[s] /\ dispatch'[d].drops = HasAnswer(got)
  BY Asks
<1>2. dispatch'[d].session = s /\ s \in Sessions /\ got \subseteq Messages
  BY <1>1, Dispatched, DispatchFields DEF Moved, Listing
<1>3. UNCHANGED <<turns, delivered>>
  BY DEF Ask, hostVars
<1>4. turns[s] \in 1 .. MaxTurns /\ MaxTurns \in Nat /\ MessageLimit \in Nat \ {0}
  BY SMTT(30), <1>2 DEF AfterInv, Types
<1>5. <<"user", turns[s]>> \in got
  <2>1. <<"user", turns[s]>> \in Messages
    BY <1>4, MessageFacts
  <2>2. \A n : <<"user", n>>[1] = "user" /\ <<"user", n>>[2] = n
    OBVIOUS
  <2>3. turns[s] <= turns[s] /\ turns[s] > turns[s] - MessageLimit
    BY <1>4
  <2> QED
    BY <2>1, <2>2, <2>3 DEF Listing
<1>6. \A m \in got : m[2] <= turns[s]
  BY DEF Listing
<1>7. \A n \in 1 .. MaxTurns : <<"user", n>> \in got => n <= turns[s]
  <2>1. \A n : <<"user", n>>[2] = n
    OBVIOUS
  <2> HIDE DEF got
  <2> QED
    BY <1>6, <2>1
<1>8. \A m \in delivered[s] : m[2] <= turns[s]
  BY <1>2 DEF ReadInv, DeliveredOf
<1> HIDE DEF s, got
<1>9. turns[s] \in 1 .. turns[s]
  BY <1>4
<1>10. dispatch'[d].drops => HasAnswer(dispatch'[d].got)
  BY <1>1
<1> QED
  BY <1>1, <1>2, <1>3, <1>5, <1>6, <1>7, <1>8, <1>9, <1>10 DEF ReadOf

\* The buffered answer joins what was read; if there is none, one is learned.
LEMMA Completed ==
  ASSUME Inv, NEW d \in DOMAIN dispatch, dispatch[d].pc = "asking"
  PROVE  LET s == dispatch[d].session
             got == WithCompletedText(s, dispatch[d].got)
         IN  /\ dispatch[d].got \subseteq got /\ got \subseteq Messages
             /\ \A n \in 1 .. MaxTurns : <<"user", n>> \in got => <<"user", n>> \in dispatch[d].got
             /\ \A m \in got : m[2] <= turns[s]
             /\ s \notin raced => HasAnswer(got) \/ HasAnswer(learned[s])
<1> USE DEF Inv
<1> DEFINE s == dispatch[d].session
           got == WithCompletedText(s, dispatch[d].got)
<1>1. /\ s \in Sessions /\ dispatch[d].got \subseteq Messages
      /\ pending[s] \in 0 .. MaxTurns /\ MaxTurns \in Nat
  BY Dispatched, DispatchFields DEF Types
<1>2. ReadOf(d) /\ Asked(d) /\ Unsettled(d) /\ DeliveredOf(s)
  BY <1>1 DEF ReadInv, Asked, Unsettled, Settled
<1>3. \/ got = dispatch[d].got /\ (HasAnswer(dispatch[d].got) \/ pending[s] = 0)
      \/ got = dispatch[d].got \cup {<<"answer", pending[s]>>} /\ pending[s] # 0
  BY DEF WithCompletedText
<1>4. pending[s] <= turns[s] /\ \A m \in dispatch[d].got : m[2] <= turns[s]
  BY <1>2 DEF ReadOf, DeliveredOf
<1>5. turns[s] > 0 /\ (s \notin raced => ended[s] = "open")
  BY <1>2 DEF AfterInv, Open
<1>6. pending[s] = 0 /\ s \notin raced => HasAnswer(learned[s])
  BY <1>2, <1>5 DEF DeliveredOf
<1> HIDE DEF s, got
<1>7. CASE got = dispatch[d].got /\ (HasAnswer(dispatch[d].got) \/ pending[s] = 0)
  BY <1>1, <1>4, <1>6, <1>7 DEF s, got
<1>8. CASE got = dispatch[d].got \cup {<<"answer", pending[s]>>} /\ pending[s] # 0
  <2>1. pending[s] \in 1 .. MaxTurns /\ <<"answer", pending[s]>>[2] = pending[s]
    BY <1>1, <1>8
  <2>2. <<"answer", pending[s]>> \in Messages /\ <<"answer", pending[s]>> \in got
    BY <1>8, <2>1, MessageFacts
  <2>3. HasAnswer(got)
    BY <2>1, <2>2 DEF HasAnswer
  <2>4. \A n : <<"user", n>> # <<"answer", pending[s]>>
    OBVIOUS
  <2>5. \A m \in got : m[2] <= turns[s]
    BY <1>4, <1>8, <2>1
  <2> QED
    BY <1>1, <1>8, <2>2, <2>3, <2>4, <2>5 DEF s, got
<1> QED
  BY <1>3, <1>7, <1>8

LEMMA HandOverReads ==
  ASSUME Inv, Types', NEW d \in DOMAIN dispatch, HandOver(d)
  PROVE  ReadOf(d)'
<1> USE DEF Inv
<1> DEFINE s == dispatch[d].session
           got == WithCompletedText(s, dispatch[d].got)
           seen == dispatch[d].seen
           messages == WithCalls(s, got)
<1>1. /\ Moved(d) /\ dispatch'[d].pc = "queued" /\ dispatch'[d].got = got
      /\ dispatch'[d].seen = seen /\ dispatch'[d].drops = dispatch[d].drops
  BY HandsOver
<1>2. /\ dispatch'[d].session = s /\ s \in Sessions /\ dispatch[d].got \subseteq Messages
      /\ dispatch[d].pc = "asking"
  BY <1>1, Dispatched, DispatchFields DEF Moved, HandOver
<1>3. UNCHANGED <<turns, delivered, learned, raced>>
      /\ handed' = [handed EXCEPT ![s] = @ \cup messages]
  BY DEF HandOver, hostVars
<1>4. ReadOf(d) /\ Asked(d) /\ Unsettled(d)
  BY <1>2 DEF ReadInv, Asked, Unsettled, Settled
<1>5. /\ seen \in 1 .. turns[s] /\ <<"user", seen>> \in dispatch[d].got
      /\ \A n \in 1 .. MaxTurns : <<"user", n>> \in dispatch[d].got => n <= seen
      /\ \A m \in delivered[s] : m[2] <= seen
      /\ dispatch[d].drops => HasAnswer(dispatch[d].got)
  BY <1>4 DEF ReadOf
<1>6. /\ dispatch[d].got \subseteq got
      /\ \A n \in 1 .. MaxTurns : <<"user", n>> \in got => <<"user", n>> \in dispatch[d].got
      /\ \A m \in got : m[2] <= turns[s]
      /\ s \notin raced => HasAnswer(got) \/ HasAnswer(learned[s])
  BY <1>2, Completed
<1>7. dispatch[d].drops => HasAnswer(got)
  BY <1>5, <1>6, MoreAnswers
<1>8. s \notin raced => CallsTo(seen, handed'[s])
  <2> SUFFICES ASSUME s \notin raced, NEW k \in 1 .. seen PROVE <<"call", k>> \in handed'[s]
    BY DEF CallsTo
  <2>1. ended[s] = "open"
    BY <1>4 DEF AfterInv, Open
  <2>2. k \in 1 .. turns[s]
    <3>1. turns[s] \in Nat
      BY <1>2 DEF Types
    <3>2. seen \in 1 .. turns[s]
      BY <1>5
    <3> HIDE DEF s, seen
    <3> QED
      BY <3>1, <3>2
  <2>3. k \in calls[s] \/ <<"call", k>> \in handed[s]
    BY <1>2, <2>1, <2>2 DEF CallsInv
  <2>4. k \in calls[s] => <<"call", k>> \in messages
    BY DEF WithCalls
  <2>5. handed'[s] = handed[s] \cup messages
    BY <1>2, <1>3 DEF Types
  <2> QED
    BY <2>3, <2>4, <2>5
<1> HIDE DEF s, got, seen, messages
<1> QED
  BY <1>1, <1>2, <1>3, <1>5, <1>6, <1>7, <1>8 DEF ReadOf

\* The transcript that was delivered already holds what was read.
LEMMA RepeatedReads ==
  ASSUME Inv, Types', NEW d \in DOMAIN dispatch, Repeated(d)
  PROVE  ReadOf(d)'
<1> USE DEF Inv
<1> DEFINE s == dispatch[d].session
           got == dispatch[d].got
           seen == dispatch[d].seen
<1>1. dispatch[d].pc = "asking" /\ delivered[s] = WithCompletedText(s, got) /\ Settle(d, "done")
      /\ UNCHANGED <<learned, raced>>
  BY DEF Repeated, sdkVars
<1>2. ReadOf(d) /\ Asked(d) /\ Unsettled(d) /\ s \in Sessions /\ seen \in 0 .. MaxTurns
  BY <1>1, Dispatched, DispatchFields DEF ReadInv, Asked, Unsettled, Settled
<1>3. Moved(d) /\ Keeps(d) /\ dispatch'[d].pc = "done"
  BY <1>1, <1>2, Settles DEF Settled
<1>4. dispatch'[d].session = s /\ dispatch'[d].got = got /\ dispatch'[d].seen = seen
  BY <1>3 DEF Moved, Keeps
<1>5. seen \in 1 .. MaxTurns /\ <<"user", seen>> \in got
  BY <1>2 DEF ReadOf, Types
<1>6. got \subseteq delivered[s] /\ (s \notin raced => HasAnswer(delivered[s]) \/ HasAnswer(learned[s]))
  BY <1>1, Completed
<1>7. DeliveredOf(s)
  BY <1>2 DEF ReadInv
<1>8. delivered[s] \subseteq learned[s] /\ (s \notin raced => CallsTo(seen, learned[s]))
  BY <1>5, <1>6, <1>7 DEF DeliveredOf
<1>9. s \notin raced => HasAnswer(learned[s])
  BY <1>6, <1>8, MoreAnswers
<1>10. ~Asked(d)' /\ dispatch'[d].pc # "queued"
  BY <1>3 DEF Asked
<1> HIDE DEF s, got, seen
<1> QED
  BY <1>1, <1>4, <1>6, <1>8, <1>9, <1>10 DEF ReadOf

LEMMA ReturnReads ==
  ASSUME Inv, Types', NEW d \in DOMAIN dispatch, HandlerReturns(d)
  PROVE  ReadOf(d)'
<1> USE DEF Inv
<1>1. dispatch[d].pc = "ticking" /\ Settle(d, "done") /\ UNCHANGED <<learned, raced>>
  BY DEF HandlerReturns, sdkVars
<1>2. ReadOf(d) /\ Unsettled(d)
  BY <1>1 DEF ReadInv, Unsettled, Settled
<1>3. Moved(d) /\ Keeps(d) /\ dispatch'[d].pc = "done"
  BY <1>1, <1>2, Settles DEF Settled
<1>4. /\ dispatch'[d].session = dispatch[d].session /\ dispatch'[d].got = dispatch[d].got
      /\ dispatch'[d].seen = dispatch[d].seen
  BY <1>3 DEF Moved, Keeps
<1>5. ~Asked(d)' /\ dispatch'[d].pc # "queued"
  BY <1>3 DEF Asked
<1> QED
  BY <1>1, <1>2, <1>3, <1>4, <1>5 DEF ReadOf

LEMMA FailureReads ==
  ASSUME NEW d, dispatch'[d].pc = "failed"
  PROVE  ReadOf(d)'
BY DEF ReadOf, Asked

\* The extraction learns the table with the task's messages: everything the SDK was given.
LEMMA TurnReads ==
  ASSUME Inv, Types', [Next]_vars, TurnReturns, NEW d, d = queue[1].dispatch
  PROVE  ReadOf(d)'
<1> USE DEF Inv
<1> DEFINE s == queue[1].session
           seen == dispatch[d].seen
           got == dispatch[d].got
<1>1. /\ queue # <<>> /\ Turn(1) /\ d \in DOMAIN dispatch /\ dispatch[d].pc = "queued"
      /\ dispatch[d].session = s /\ got \subseteq queue[1].messages /\ Unsettled(d)
      /\ 1 \in DOMAIN queue /\ s \in Sessions
  BY TurnTaken, TakenTurn, Taken
<1>2. /\ Moved(d) /\ Keeps(d) /\ dispatch'[d].pc = "ticking"
      /\ held' = [held EXCEPT ![s] = @ \cup queue[1].messages]
      /\ learned' = [learned EXCEPT ![s] = @ \cup held'[s]]
      /\ UNCHANGED <<turns, delivered, handed, raced>>
  BY TurnTaken DEF TurnReturns, hostVars
<1>3. dispatch'[d].session = s /\ dispatch'[d].got = got /\ dispatch'[d].seen = seen
      /\ dispatch'[d].drops = dispatch[d].drops
  BY <1>1, <1>2 DEF Moved, Keeps
<1>4. learned'[s] = learned[s] \cup held[s] \cup queue[1].messages
  BY <1>1, <1>2 DEF Types
<1>5. ReadOf(d) /\ Asked(d)
  BY <1>1 DEF ReadInv, Asked
<1>6. ASSUME NEW i \in DOMAIN queue, Turn(i), queue[i].session = s
      PROVE  i = 1
  <2>1. /\ queue[i].dispatch \in DOMAIN dispatch /\ dispatch[queue[i].dispatch].pc = "queued"
        /\ dispatch[queue[i].dispatch].session = s
    BY <1>6 DEF TaskInv
  <2>2. queue[i].dispatch = d
    BY <1>1, <2>1, OneAsked DEF Asked, SameSession
  <2> QED
    BY <1>1, <1>6, <2>2 DEF TaskInv
<1>7. Coming(s) \subseteq queue[1].messages
  BY <1>6 DEF Coming
<1>8. s \notin raced => handed[s] \subseteq learned'[s]
  BY <1>1, <1>4, <1>7 DEF GivenInv
<1>9. got \subseteq learned'[s] /\ learned[s] \subseteq learned'[s]
  BY <1>1, <1>4
<1>10. s \notin raced => HasAnswer(learned'[s]) /\ CallsTo(seen, learned'[s])
  <2> SUFFICES ASSUME s \notin raced
               PROVE  HasAnswer(learned'[s]) /\ CallsTo(seen, learned'[s])
    OBVIOUS
  <2>1. (HasAnswer(got) \/ HasAnswer(learned[s])) /\ CallsTo(seen, handed[s])
    BY <1>1, <1>5 DEF ReadOf
  <2> HIDE DEF s, seen, got
  <2>2. HasAnswer(learned'[s])
    BY <1>9, <2>1, MoreAnswers
  <2>3. CallsTo(seen, learned'[s])
    BY <1>8, <2>1, MoreAnswers
  <2> QED
    BY <2>2, <2>3
<1>11. /\ seen \in 1 .. turns[s] /\ <<"user", seen>> \in got
       /\ \A n \in 1 .. MaxTurns : <<"user", n>> \in got => n <= seen
       /\ \A m \in got : m[2] <= turns[s]
       /\ \A m \in delivered[s] : m[2] <= seen
       /\ dispatch[d].drops => HasAnswer(got)
  BY <1>1, <1>5 DEF ReadOf
<1> HIDE DEF s, seen, got
<1> QED
  BY <1>2, <1>3, <1>9, <1>10, <1>11 DEF ReadOf

LEMMA ReadNext == Inv /\ [Next]_vars /\ Types' => ReadInv'
<1> SUFFICES ASSUME Inv, [Next]_vars, Types' PROVE ReadInv'
  OBVIOUS
<1> USE DEF Inv
<1>0. /\ delivered \in [Sessions -> SUBSET Messages]
      /\ \A d \in DOMAIN dispatch : dispatch[d].session \in Sessions
  BY Dispatched, DispatchFields DEF Types
<1>1. \A s \in Sessions : DeliveredOf(s)'
  BY DeliveredNext
<1>2. ASSUME NEW d, OnlyMoved(d), Moved(d) => ReadOf(d)',
             \A e \in DOMAIN dispatch : Asked(e) /\ ~(Moved(d) /\ e = d) =>
               delivered'[dispatch[e].session] \subseteq delivered[dispatch[e].session]
      PROVE  ReadInv'
  <2>1. /\ DOMAIN dispatch' = DOMAIN dispatch
        /\ \A e \in DOMAIN dispatch : e # d => dispatch'[e] = dispatch[e]
    BY <1>2, OldOnes
  <2>2. ASSUME NEW e \in DOMAIN dispatch, ~(Moved(d) /\ e = d) PROVE ReadOf(e)'
    <3>1. dispatch'[e] = dispatch[e] /\ ReadOf(e)
      BY <1>2, <2>1, <2>2 DEF OnlyMoved, ReadInv
    <3>2. Asked(e) => delivered'[dispatch[e].session] \subseteq delivered[dispatch[e].session]
      BY <1>2, <2>2
    <3> QED
      BY <3>1, <3>2, ReadKept
  <2> QED
    BY <1>1, <1>2, <2>1, <2>2 DEF ReadInv
<1>3. ASSUME dispatch' = dispatch,
             delivered' = delivered \/ \E s \in Sessions : delivered' = [delivered EXCEPT ![s] = {}]
      PROVE  ReadInv'
  <2>1. \A s \in Sessions : delivered'[s] \subseteq delivered[s]
    BY <1>0, <1>3
  <2>2. OnlyMoved(0) /\ ~Moved(0)
    BY <1>3 DEF OnlyMoved, Moved, Types
  <2> QED
    BY <1>0, <1>2, <2>1, <2>2
<1>4. CASE UNCHANGED vars
  BY <1>3, <1>4 DEF vars, portVars
<1>5. ASSUME NEW s \in Sessions, HostTurn(s) \/ HostLists(s) \/ Deleted(s)
                                 \/ DeletedReturns(s) \/ DeletedThrows(s)
      PROVE  ReadInv'
  BY <1>3, <1>5 DEF HostTurn, HostLists, Deleted, DeletedReturns, DeletedThrows, portVars
<1>6. CASE SweepReturns \/ SweepThrows \/ EndReturns
  BY <1>3, <1>6 DEF SweepReturns, SweepThrows, EndReturns, portVars
<1>7. ASSUME NEW s \in Sessions, Idle(s) PROVE ReadInv'
  <2> DEFINE r == [session |-> s, after |-> tail[s], pc |-> "waiting",
                   got |-> {}, seen |-> 0, drops |-> FALSE]
  <2>1. /\ dispatch' = Append(dispatch, r) /\ dispatch \in Seq(DispatchType)
        /\ delivered' = delivered
    BY <1>7 DEF Idle, IdleAfter, Types
  <2>2. r.pc = "waiting"
    OBVIOUS
  <2> HIDE DEF r
  <2>3. \A d \in DOMAIN dispatch' : (d \in DOMAIN dispatch /\ dispatch'[d] = dispatch[d])
                                    \/ dispatch'[d] = r
    BY <2>1
  <2>4. ASSUME NEW d \in DOMAIN dispatch', dispatch'[d] = r PROVE ReadOf(d)'
    BY <2>2, <2>4 DEF ReadOf, Asked
  <2>5. ASSUME NEW d \in DOMAIN dispatch, dispatch'[d] = dispatch[d] PROVE ReadOf(d)'
    BY <2>1, <2>5, ReadKept DEF ReadInv
  <2> QED
    BY <1>1, <2>3, <2>4, <2>5 DEF ReadInv
<1>8. ASSUME NEW d \in DOMAIN dispatch, Moved(d), ReadOf(d)', delivered' = delivered
      PROVE  ReadInv'
  BY <1>2, <1>8 DEF OnlyMoved
<1>9. ASSUME NEW d \in DOMAIN dispatch, Ask(d) PROVE ReadInv'
  BY <1>8, <1>9, AskReads, Asks DEF Ask
<1>10. ASSUME NEW d \in DOMAIN dispatch, HandOver(d) PROVE ReadInv'
  BY <1>8, <1>10, HandOverReads, HandsOver DEF HandOver
<1>11. ASSUME NEW d \in DOMAIN dispatch, Repeated(d) PROVE ReadInv'
  BY <1>8, <1>11, RepeatedReads, DispatchTypes DEF Repeated
<1>12. ASSUME NEW d \in DOMAIN dispatch, Skip(d) \/ AskFails(d) \/ HandlerThrows(d) PROVE ReadInv'
  <2>1. Unsettled(d) /\ Settle(d, "failed") /\ delivered' = delivered
    BY <1>12 DEF Skip, AskFails, HandlerThrows, Unsettled, Settled
  <2>2. Moved(d) /\ dispatch'[d].pc = "failed"
    BY <2>1, Settles DEF Settled
  <2> QED
    BY <1>8, <2>1, <2>2, FailureReads
<1>13. ASSUME NEW d \in DOMAIN dispatch, HandlerReturns(d) PROVE ReadInv'
  <2>1. Moved(d) /\ ReadOf(d)'
    BY <1>13, DispatchTypes, ReturnReads
  <2>2. Asked(d) /\ delivered' = [delivered EXCEPT ![dispatch[d].session] = dispatch[d].got]
    BY <1>13 DEF HandlerReturns, Asked
  <2>3. ASSUME NEW e \in DOMAIN dispatch, Asked(e), e # d
        PROVE  delivered'[dispatch[e].session] = delivered[dispatch[e].session]
    <3>1. dispatch[e].session # dispatch[d].session
      BY <2>2, <2>3, OneAsked DEF SameSession
    <3> QED
      BY <1>0, <2>2, <3>1
  <2> QED
    BY <1>2, <2>1, <2>3 DEF OnlyMoved
<1>14. CASE TurnReturns \/ TurnThrows
  <2>1. PICK d : d = queue[1].dispatch
    OBVIOUS
  <2>2. d \in DOMAIN dispatch /\ Moved(d) /\ (~TurnReturns => dispatch'[d].pc = "failed")
    BY <1>14, <2>1, TurnTaken DEF Moved
  <2>3. ReadOf(d)'
    BY <2>1, <2>2, TurnReads, FailureReads
  <2>4. delivered' = delivered
    BY <1>14 DEF TurnReturns, TurnThrows
  <2> QED
    BY <1>8, <2>2, <2>3, <2>4
<1>15. CASE Next
  BY <1>4, <1>5, <1>6, <1>7, <1>9, <1>10, <1>11, <1>12, <1>13, <1>14, <1>15 DEF Next, Finished
<1> QED
  BY <1>4, <1>15

(***************************************************************************)
(* The theorems.                                                           *)
(***************************************************************************)

LEMMA Invariance == Inv /\ [Next]_vars => Inv'
<1> SUFFICES ASSUME Inv, [Next]_vars PROVE Inv'
  OBVIOUS
<1>1. Types' /\ TaskInv'
  BY TypesNext, TaskNext DEF Inv
<1>2. AfterInv' /\ ChainInv'
  BY ChainNext DEF Inv
<1>3. CallsInv' /\ GivenInv'
  BY CallsNext, GivenNext DEF Inv
<1>4. ReadInv'
  BY <1>1, ReadNext
<1> QED
  BY <1>1, <1>2, <1>3, <1>4 DEF Inv

\* The inductive invariant: the chain leaves one dispatch of a session in flight, every
\* message the SDK was given is learned, in its table or queued, and a dispatch knows what
\* it read.
THEOREM PortInvariant == Spec => []Inv
<1>1. Init => Inv
  BY TypesInit, ChainInit, GivenInit, ReadInit DEF Inv
<1> QED
  BY <1>1, Invariance, PTL DEF Spec

\* A dispatch of opencode-port.ts that resolves stands for an extraction that learned its
\* transcript, an answer, and the tool calls of the turns that were over when it was read.
THEOREM DoneDispatchesAreLearned == Spec => []DoneIsLearned
<1>1. ASSUME Inv PROVE DoneIsLearned
  <2>1. ASSUME NEW d \in DOMAIN dispatch
        PROVE  /\ dispatch[d].session \in Sessions /\ dispatch[d].got \subseteq Messages
               /\ dispatch[d].pc \in {"waiting", "asking", "queued", "ticking"} \cup Settled
               /\ dispatch[d].after \in 0 .. d - 1
    BY <1>1, Dispatched, DispatchFields DEF Inv, AfterInv, Settled
  <2>2. ASSUME NEW i \in DOMAIN queue
        PROVE  /\ queue[i].op \in {"turn", "sweep", "end"}
               /\ queue[i].op = "turn" <=> queue[i].dispatch \in DOMAIN dispatch
    <3>1. queue[i] \in TaskType /\ dispatch \in Seq(DispatchType)
      BY <1>1 DEF Inv, Types
    <3>2. 0 \notin DOMAIN dispatch
      BY <3>1
    <3> QED
      BY <1>1, <3>1, <3>2, TaskFields DEF Inv, TaskInv, Turn
  <2>3. TypeOK
    BY <1>1, <2>1, <2>2 DEF Inv, Types, TypeOK
  <2>4. ASSUME NEW d \in DOMAIN dispatch, dispatch[d].pc = "done"
        PROVE  /\ dispatch[d].got \subseteq learned[dispatch[d].session]
               /\ dispatch[d].session \notin raced =>
                    /\ HasAnswer(learned[dispatch[d].session])
                    /\ \A n \in 1 .. dispatch[d].seen : <<"call", n>> \in learned[dispatch[d].session]
    BY <1>1, <2>4 DEF Inv, ReadInv, ReadOf, CallsTo
  <2> QED
    BY <2>3, <2>4 DEF DoneIsLearned
<1> QED
  BY <1>1, PortInvariant, PTL

\* A session that was deleted with no dispatch in flight leaves nothing in the maps of the
\* port or in the SDK, and nothing the SDK was given is unlearned.
THEOREM DeletedSessionsAreForgotten == Spec => []GoneWithoutTrace
<1>1. Inv => GoneWithoutTrace
  BY DEF Inv, GoneWithoutTrace, CallsInv, GivenInv
<1> QED
  BY <1>1, PortInvariant, PTL

\* The transcript that counts as delivered is replaced by one with a message at least as
\* new as each of its own.
THEOREM DeliveredIsNeverOlder == Spec => DeliveredMovesOn
<1> DEFINE Moves == \A s \in Sessions : delivered'[s] # {} =>
                      \A m \in delivered[s] : \E k \in delivered'[s] : k[2] >= m[2]
<1>1. ASSUME Inv, [Next]_vars PROVE Moves
  <2> SUFFICES ASSUME NEW s \in Sessions, delivered'[s] # {}, NEW m \in delivered[s]
               PROVE  \E k \in delivered'[s] : k[2] >= m[2]
    OBVIOUS
  <2>1. delivered \in [Sessions -> SUBSET Messages] /\ m[2] \in Nat
    <3>1. delivered \in [Sessions -> SUBSET Messages]
      BY <1>1 DEF Inv, Types
    <3> QED
      BY <3>1, MessageFacts
  <2>2. CASE delivered'[s] = delivered[s]
    BY <2>1, <2>2
  <2>3. ASSUME NEW d \in DOMAIN dispatch, HandlerReturns(d), dispatch[d].session = s
        PROVE  \E k \in delivered'[s] : k[2] >= m[2]
    <3>1. Asked(d) /\ delivered' = [delivered EXCEPT ![s] = dispatch[d].got]
      BY <2>3 DEF HandlerReturns, Asked
    <3>2. <<"user", dispatch[d].seen>> \in dispatch[d].got /\ m[2] <= dispatch[d].seen
      BY <1>1, <2>3, <3>1 DEF Inv, ReadInv, ReadOf
    <3>3. delivered'[s] = dispatch[d].got /\ dispatch[d].seen \in Nat
      BY <1>1, <2>1, <3>1, Dispatched, DispatchFields DEF Inv
    <3> DEFINE k == <<"user", dispatch[d].seen>>
    <3>4. k[2] = dispatch[d].seen /\ k \in delivered'[s]
      BY <3>2, <3>3
    <3>5. k[2] >= m[2]
      BY <2>1, <3>2, <3>3, <3>4
    <3> QED
      BY <3>4, <3>5
  <2>4. \/ delivered' = delivered
        \/ \E d \in DOMAIN dispatch :
             HandlerReturns(d) /\ delivered' = [delivered EXCEPT ![dispatch[d].session] = dispatch[d].got]
        \/ \E t \in Sessions : delivered' = [delivered EXCEPT ![t] = {}]
    <3>1. CASE UNCHANGED vars
      BY <3>1 DEF vars, portVars
    <3>2. ASSUME NEW t \in Sessions, HostTurn(t) \/ HostLists(t) \/ Idle(t) \/ Deleted(t)
                                     \/ DeletedReturns(t) \/ DeletedThrows(t)
          PROVE  delivered' = delivered \/ delivered' = [delivered EXCEPT ![t] = {}]
      BY <3>2 DEF HostTurn, HostLists, Idle, IdleAfter, Deleted, DeletedReturns, DeletedThrows,
                  portVars
    <3>3. ASSUME NEW d \in DOMAIN dispatch,
                 Ask(d) \/ Skip(d) \/ AskFails(d) \/ Repeated(d) \/ HandOver(d) \/ HandlerThrows(d)
          PROVE  delivered' = delivered
      BY <3>3 DEF Ask, Skip, AskFails, Repeated, HandOver, HandlerThrows
    <3>4. ASSUME NEW d \in DOMAIN dispatch, HandlerReturns(d)
          PROVE  delivered' = [delivered EXCEPT ![dispatch[d].session] = dispatch[d].got]
      BY <3>4 DEF HandlerReturns
    <3>5. CASE TurnReturns \/ TurnThrows \/ SweepReturns \/ SweepThrows \/ EndReturns
      BY <3>5 DEF TurnReturns, TurnThrows, SweepReturns, SweepThrows, EndReturns, portVars
    <3>6. CASE Next
      BY <3>1, <3>2, <3>3, <3>4, <3>5, <3>6 DEF Next, Finished
    <3> QED
      BY <1>1, <3>1, <3>6
  <2>5. ASSUME NEW t \in Sessions, delivered' = [delivered EXCEPT ![t] = {}]
        PROVE  delivered'[s] = delivered[s]
    BY <2>1, <2>5
  <2>6. ASSUME NEW d \in DOMAIN dispatch, dispatch[d].session # s,
               delivered' = [delivered EXCEPT ![dispatch[d].session] = dispatch[d].got]
        PROVE  delivered'[s] = delivered[s]
    BY <2>1, <2>6
  <2> QED
    BY <2>2, <2>3, <2>4, <2>5, <2>6
<1>2. Inv /\ [Next]_vars => [Moves]_vars
  BY <1>1
<1> HIDE DEF Moves
<1>3. Spec => [][Moves]_vars
  BY <1>2, PortInvariant, PTL DEF Spec
<1> QED
  BY <1>3 DEF Moves, DeliveredMovesOn
==============================================================================
