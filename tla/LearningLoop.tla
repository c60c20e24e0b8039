----------------------------- MODULE LearningLoop -----------------------------
(***************************************************************************)
(* What a turn sets off in the SDK: the lifecycle queue and the session    *)
(* table of packages/sdk/src/index.ts, runTurnEndLearningLoop, and the     *)
(* order and the gates of packages/sdk/src/learning-loop.ts: extraction,   *)
(* then skill evolution, then a dream that folds the new skill into the    *)
(* memories.  What the three do to files is the subject of                 *)
(* SessionLifecycle, LearnedSkills, DreamGate and DreamPrepass; here they  *)
(* succeed or fail, and each asks the host for a model when it starts.     *)
(*                                                                         *)
(* A turn is known by the number of the host event that reported it.       *)
(***************************************************************************)
EXTENDS Integers, Sequences, FiniteSetsExt

CONSTANTS
  Sessions,
  Gate  \* SkillLearningGate: minDoneTurns, cooldownTurns, minToolCalls

ASSUME GateAssumption ==
  Gate \in [minDoneTurns : Nat, cooldownTurns : Nat, minToolCalls : Nat]

VARIABLES
  lifecycle, \* lifecycleQueue: tasks that wait
  loop,      \* the task that runs
  session,   \* the table: counters of each session, zero if it is not in it
  owed,      \* turns of each session that no extraction has learned yet
  answers,   \* promises of lifecycle tasks that have settled
  resolved,  \* calls of resolveModel: the event on whose behalf, the event used
  learned,   \* turns learned
  published, \* turns in which it changed a skill
  dreamt,    \* turns whose coordination reached a dream
  failing    \* bound: failures left

sdkVars == <<lifecycle, loop, session, owed, answers, resolved, learned,
             published, dreamt, failing>>

Idle   == [at |-> "idle"]
Absent == [turns |-> 0, users |-> 0, calls |-> 0, last |-> 0]

\* What onTurnEnd, onAgentEnd and onSessionEnd enqueue.
Turn(s, ev, users, calls) == [op |-> "turn", session |-> s, ev |-> ev, users |-> users, calls |-> calls]
Sweep(s, ev) == [op |-> "sweep", session |-> s, ev |-> ev]
Drop(s, ev)  == [op |-> "drop", session |-> s, ev |-> ev]

SdkInit(failures) ==
  /\ lifecycle = <<>>
  /\ loop = Idle
  /\ session = [s \in Sessions |-> Absent]
  /\ owed = [s \in Sessions |-> {}]
  /\ answers = {}
  /\ resolved = {}
  /\ learned = {} /\ published = {} /\ dreamt = {}
  /\ failing = failures

\* serializeLifecycle.
Enqueue(task) == lifecycle' = Append(lifecycle, task)

Settle(ok) ==
  /\ answers' = answers \cup {[op |-> loop.op, ev |-> loop.ev, ok |-> ok]}
  /\ loop' = Idle

Resolve(used) == resolved' = resolved \cup {[ev |-> loop.ev, used |-> used]}

\* The first waiting task starts.  A turn adds its messages to the session, with
\* no await before extraction.
StartTurn ==
  /\ loop = Idle /\ lifecycle # <<>> /\ Head(lifecycle).op = "turn"
  /\ LET task  == Head(lifecycle)
         s     == task.session
         users == session[s].users + task.users
     IN  /\ session' = [session EXCEPT ![s].users = users,
                                       ![s].calls = @ + task.calls,
                                       ![s].turns = Max({@ + 1, users})]
         /\ owed' = [owed EXCEPT ![s] = @ \cup {task.ev}]
         /\ loop' = [at |-> "extract", op |-> "turn", session |-> s, ev |-> task.ev]
  /\ lifecycle' = Tail(lifecycle)
  /\ UNCHANGED <<answers, resolved, learned, published, dreamt, failing>>

StartSweep ==
  /\ loop = Idle /\ lifecycle # <<>> /\ Head(lifecycle).op = "sweep"
  /\ loop' = [at |-> "extract", op |-> "sweep", session |-> Head(lifecycle).session,
              ev |-> Head(lifecycle).ev]
  /\ lifecycle' = Tail(lifecycle)
  /\ UNCHANGED <<session, owed, answers, resolved, learned, published, dreamt, failing>>

\* onSessionEnd: the session and its cooldown are forgotten.
RunDrop ==
  /\ loop = Idle /\ lifecycle # <<>> /\ Head(lifecycle).op = "drop"
  /\ LET task == Head(lifecycle)
     IN  /\ session' = [session EXCEPT ![task.session] = Absent]
         /\ owed' = [owed EXCEPT ![task.session] = {}]
         /\ answers' = answers \cup {[op |-> "drop", ev |-> task.ev, ok |-> TRUE]}
  /\ lifecycle' = Tail(lifecycle)
  /\ UNCHANGED <<loop, resolved, learned, published, dreamt, failing>>

\* extract: the agent has read the window and the cursor has moved.
ExtractionSucceeds(used, learns) ==
  /\ loop.at = "extract" /\ owed[loop.session] # {}
  /\ Resolve(used)
  /\ learned' = learned \cup owed[loop.session]
  /\ owed' = [owed EXCEPT ![loop.session] = {}]
  /\ IF loop.op = "turn" /\ learns
     THEN loop' = [loop EXCEPT !.at = "evolve"] /\ UNCHANGED answers
     ELSE Settle(TRUE)
  /\ UNCHANGED <<lifecycle, session, published, dreamt, failing>>

\* A sweep that finds nothing new does not run the agent.
SweepSkips ==
  /\ loop.at = "extract" /\ owed[loop.session] = {}
  /\ Settle(TRUE)
  /\ UNCHANGED <<lifecycle, session, owed, resolved, learned, published, dreamt, failing>>

\* The lock times out or the agent throws: the task rejects.
ExtractionFails(used, resolves) ==
  /\ loop.at = "extract" /\ owed[loop.session] # {}
  /\ failing > 0 /\ failing' = failing - 1
  /\ IF resolves THEN Resolve(used) ELSE UNCHANGED resolved
  /\ Settle(FALSE)
  /\ UNCHANGED <<lifecycle, session, owed, learned, published, dreamt>>

\* The gates of shouldRunSkillEvolution that depend on the session.
ShouldEvolve(s) ==
  /\ session[s].turns >= Gate.minDoneTurns
  /\ session[s].turns - session[s].last >= Gate.cooldownTurns
  /\ session[s].calls >= Gate.minToolCalls

EvolutionSkipped ==
  /\ loop.at = "evolve" /\ ~ShouldEvolve(loop.session)
  /\ Settle(TRUE)
  /\ UNCHANGED <<lifecycle, session, owed, resolved, learned, published, dreamt, failing>>

\* Fault: a change of a skill asks for no dream.
ForgetsCoordination(changes) ==
  loop' = [loop EXCEPT !.at = "finish"]

\* maybeRunDream: any change of a skill asks the dream to compress the memories.
Coordinate(changes) ==
  loop' = IF changes THEN [loop EXCEPT !.at = "dream"]
          ELSE [loop EXCEPT !.at = "finish"]

\* runSkillEvolutionAgent has finished, with or without a change.
EvolutionSucceeds(used, changes) ==
  /\ loop.at = "evolve" /\ ShouldEvolve(loop.session)
  /\ Resolve(used)
  /\ published' = IF changes THEN published \cup {loop.ev} ELSE published
  /\ Coordinate(changes)
  /\ UNCHANGED <<lifecycle, session, owed, answers, learned, dreamt, failing>>

\* It was rolled back: the turn rejects and the cooldown does not start.
EvolutionFails(used) ==
  /\ loop.at = "evolve" /\ ShouldEvolve(loop.session)
  /\ failing > 0 /\ failing' = failing - 1
  /\ Resolve(used)
  /\ Settle(FALSE)
  /\ UNCHANGED <<lifecycle, session, owed, learned, published, dreamt>>

\* The forced dream has the lock and the coordination.  If its agent fails, the
\* answer is ran: false, which counts as run.
CoordinatedDream(used) ==
  /\ loop.at = "dream"
  /\ Resolve(used)
  /\ dreamt' = dreamt \cup {loop.ev}
  /\ loop' = [loop EXCEPT !.at = "finish"]
  /\ UNCHANGED <<lifecycle, session, owed, answers, learned, published, failing>>

\* The lock times out: the turn rejects although the skill is published, and
\* the cooldown does not start.
DreamTimesOut ==
  /\ loop.at = "dream"
  /\ failing > 0 /\ failing' = failing - 1
  /\ Settle(FALSE)
  /\ UNCHANGED <<lifecycle, session, owed, resolved, learned, published, dreamt>>

\* lastSkillEvolutionTurn is set once the whole loop is through.
FinishTurn ==
  /\ loop.at = "finish"
  /\ session' = [session EXCEPT ![loop.session].last = session[loop.session].turns]
  /\ Settle(TRUE)
  /\ UNCHANGED <<lifecycle, owed, resolved, learned, published, dreamt, failing>>

SdkStep(used, learns) ==
  \/ StartTurn \/ StartSweep \/ RunDrop
  \/ ExtractionSucceeds(used, learns) \/ SweepSkips
  \/ \E resolves \in BOOLEAN : ExtractionFails(used, resolves)
  \/ EvolutionSkipped \/ EvolutionFails(used)
  \/ \E changes \in BOOLEAN : EvolutionSucceeds(used, changes)
  \/ CoordinatedDream(used) \/ DreamTimesOut \/ FinishTurn
==============================================================================
