------------------------------ MODULE DreamGate ------------------------------
(***************************************************************************)
(* The gate of the dream pass: the state file of                           *)
(* packages/core/src/dream-state.ts, shouldRunDream and the end of         *)
(* runDreamSession in packages/core/src/dream.ts, and the two callers in   *)
(* packages/sdk/src/index.ts: onSessionEnd, which counts a session, and    *)
(* dream, which reads the gate, waits for the root lock and runs a pass.   *)
(*                                                                         *)
(* A lane is a strand of calls that run one after the other: the lifecycle *)
(* queue of a process, or the onIdle calls of one host callback, which do  *)
(* not go through that queue.  Nothing orders two lanes but the root lock, *)
(* and the root lock covers the pass alone: the count of a session is a    *)
(* read and a write of the file outside of it, and so is the read of the   *)
(* gate.  What the pass does to the memories is the subject of             *)
(* DreamPrepass.                                                           *)
(***************************************************************************)
EXTENDS Integers

CONSTANTS
  Lanes,
  MinHours,     \* DREAM_DEFAULT_MIN_HOURS
  MinSessions,  \* DREAM_DEFAULT_MIN_SESSIONS
  MaxTime,      \* bound: hours
  MaxSessions,  \* bound: sessions that end
  MaxFailures,  \* bound: failed passes, lock timeouts and crashes
  MaxForced     \* bound: passes asked for regardless of the gate

ASSUME ThresholdAssumption == MinHours \in Nat \ {0} /\ MinSessions \in Nat \ {0}
ASSUME BoundAssumption ==
  /\ MaxTime \in Nat /\ MaxSessions \in Nat
  /\ MaxFailures \in Nat /\ MaxForced \in Nat

VARIABLES
  now,       \* hours
  file,      \* .dream-state.json
  doing,     \* what a lane does
  seen,      \* the state a lane has read, to write it back or to ask the gate
  sessions,  \* sessions counted so far
  ended,     \* sessions counted since the last completed pass
  stamps,    \* the times at which passes completed
  lost,      \* a state was written over a newer one since the last completed pass
  failures,
  forced

gateVars == <<now, file, doing, seen, sessions, ended, stamps, lost, failures, forced>>

Never == -1

State(last, since) == [lastConsolidatedAt |-> last, sessionsSince |-> since]
ZeroState == State(Never, 0)

\* shouldRunDream.
Due(s, t) ==
  \/ s.lastConsolidatedAt # Never /\ t - s.lastConsolidatedAt >= MinHours
  \/ s.sessionsSince >= MinSessions

GateInit ==
  /\ now = 0
  /\ file = ZeroState
  /\ doing = [l \in Lanes |-> "free"]
  /\ seen = [l \in Lanes |-> ZeroState]
  /\ sessions = 0
  /\ ended = 0
  /\ stamps = {}
  /\ lost = FALSE
  /\ failures = 0
  /\ forced = 0

Goto(l, from, to) == doing[l] \in from /\ doing' = [doing EXCEPT ![l] = to]

Fail == failures < MaxFailures /\ failures' = failures + 1

(***************************************************************************)
(* onSessionEnd: bumpDreamSessions reads the file and writes it back.      *)
(***************************************************************************)

BumpRead(l) ==
  /\ sessions < MaxSessions
  /\ Goto(l, {"free"}, "bumping")
  /\ seen' = [seen EXCEPT ![l] = file]
  /\ sessions' = sessions + 1
  /\ UNCHANGED <<now, file, ended, stamps, lost, failures, forced>>

\* Fault: the stamp is not carried over.
BumpWriteUnstamped(l) ==
  /\ Goto(l, {"bumping"}, "free")
  /\ file' = State(Never, seen[l].sessionsSince + 1)
  /\ ended' = ended + 1
  /\ lost' = (lost \/ seen[l] # file)
  /\ UNCHANGED <<now, seen, sessions, stamps, failures, forced>>

BumpWrite(l) ==
  /\ Goto(l, {"bumping"}, "free")
  /\ file' = State(seen[l].lastConsolidatedAt, seen[l].sessionsSince + 1)
  /\ ended' = ended + 1
  /\ lost' = (lost \/ seen[l] # file)
  /\ UNCHANGED <<now, seen, sessions, stamps, failures, forced>>

(***************************************************************************)
(* dream: the gate, the lock, the pass.                                    *)
(***************************************************************************)

\* Fault: the gate is asked of the state that the lane read last.
IdleCached(l) ==
  /\ Due(seen[l], now)
  /\ Goto(l, {"free"}, "gated")
  /\ seen' = [seen EXCEPT ![l] = file]
  /\ UNCHANGED <<now, file, sessions, ended, stamps, lost, failures, forced>>

\* onIdle with the gate open; with the gate closed it returns at once.
Idle(l) ==
  /\ Due(file, now)
  /\ Goto(l, {"free"}, "gated")
  /\ seen' = [seen EXCEPT ![l] = file]
  /\ UNCHANGED <<now, file, sessions, ended, stamps, lost, failures, forced>>

\* runDream, or the coordination of the learning loop: the gate is not asked.
Demand(l) ==
  /\ forced < MaxForced
  /\ forced' = forced + 1
  /\ Goto(l, {"free"}, "forced")
  /\ UNCHANGED <<now, file, seen, sessions, ended, stamps, lost, failures>>

\* The root lock is granted.
StartPass(l) ==
  /\ \A m \in Lanes : doing[m] # "dreaming"
  /\ Goto(l, {"gated", "forced"}, "dreaming")
  /\ UNCHANGED <<now, file, seen, sessions, ended, stamps, lost, failures, forced>>

LockTimeout(l) ==
  /\ Goto(l, {"gated", "forced"}, "free")
  /\ Fail
  /\ UNCHANGED <<now, file, seen, sessions, ended, stamps, lost, forced>>

\* Fault: the count is not reset.
PassOkStampOnly(l) ==
  /\ Goto(l, {"dreaming"}, "free")
  /\ file' = State(now, file.sessionsSince)
  /\ ended' = 0
  /\ stamps' = stamps \cup {now}
  /\ lost' = FALSE
  /\ UNCHANGED <<now, seen, sessions, failures, forced>>

\* markDreamConsolidated, then the lock is released.
PassOk(l) ==
  /\ Goto(l, {"dreaming"}, "free")
  /\ file' = State(now, 0)
  /\ ended' = 0
  /\ stamps' = stamps \cup {now}
  /\ lost' = FALSE
  /\ UNCHANGED <<now, seen, sessions, failures, forced>>

\* The runner fails, or the pass throws: the gate stays where it was.
PassFails(l) ==
  /\ Goto(l, {"dreaming"}, "free")
  /\ Fail
  /\ UNCHANGED <<now, file, seen, sessions, ended, stamps, lost, forced>>

\* The process of the lane dies and comes back; its lock goes stale.
LaneDies(l) ==
  /\ Goto(l, {"bumping", "gated", "forced", "dreaming"}, "free")
  /\ Fail
  /\ UNCHANGED <<now, file, seen, sessions, ended, stamps, lost, forced>>

HourPasses ==
  /\ now < MaxTime
  /\ now' = now + 1
  /\ UNCHANGED <<file, doing, seen, sessions, ended, stamps, lost, failures, forced>>

\* What a lane does without the host asking for a session end or a forced pass.
Proceed(l) ==
  \/ BumpWrite(l)
  \/ Idle(l)
  \/ StartPass(l)
  \/ LockTimeout(l)
  \/ PassOk(l)
  \/ PassFails(l)

GateNext ==
  \/ HourPasses
  \/ \E l \in Lanes : BumpRead(l) \/ Demand(l) \/ Proceed(l) \/ LaneDies(l)

GateSpec == GateInit /\ [][GateNext]_gateVars

\* The host adapter calls onIdle after every turn and every session end, so an
\* idle tick comes again and again; every call that has begun returns.
GateFairness == \A l \in Lanes : WF_gateVars(Proceed(l))

GateLiveSpec == GateSpec /\ GateFairness

------------------------------------------------------------------------------
(***************************************************************************)
(* Properties.                                                             *)
(***************************************************************************)

Doings == {"free", "bumping", "gated", "forced", "dreaming"}
Times == {Never} \cup (0 .. MaxTime)
States == [lastConsolidatedAt : Times, sessionsSince : 0 .. MaxSessions]

\* The count of the file never exceeds the sessions that ended, whatever is lost.
GateTypeOK ==
  /\ now \in 0 .. MaxTime
  /\ doing \in [Lanes -> Doings]
  /\ file \in States /\ file.sessionsSince <= sessions
  /\ seen \in [Lanes -> States]
  /\ \A l \in Lanes : doing[l] = "bumping" => seen[l].sessionsSince < sessions
  /\ sessions \in 0 .. MaxSessions
  /\ ended \in Nat
  /\ stamps \subseteq 0 .. MaxTime
  /\ lost \in BOOLEAN
  /\ failures \in 0 .. MaxFailures
  /\ forced \in 0 .. MaxForced

\* dream-state.ts:24: the stamp is the time of a pass that completed; a pass that
\* failed, crashed or never got the lock leaves none, however the lanes interleave.
StampIsOfAPass == file.lastConsolidatedAt \in stamps \cup {Never}

\* The same of the states that lanes are about to write back: the strengthening
\* that makes StampIsOfAPass inductive.
SeenStampsAreOfPasses ==
  \A l \in Lanes : seen[l].lastConsolidatedAt \in stamps \cup {Never}

Latest(S) == IF S = {} THEN Never ELSE CHOOSE t \in S : \A u \in S : u <= t

\* dream-state.ts:23-26: the file holds the number of sessions counted since the last
\* completed pass, as long as no lane has written over what it has not read; and the
\* next completed pass repairs a file where one has.
CountIsExact == ~lost => file.sessionsSince = ended

\* The same of the time of the last completed pass.
StampIsExact == ~lost => file.lastConsolidatedAt = Latest(stamps)

\* The stamp is that of a completed pass whatever the lanes do to each other, and as long as
\* nothing was written over unread the file tells the whole truth.
StateIsExact == GateTypeOK /\ StampIsOfAPass /\ CountIsExact /\ StampIsExact

\* A pass that was let through by the gate begins only while the gate is open, unless
\* another lane has written the file since the gate was asked.
DuePassOnly ==
  [][\A l \in Lanes :
       doing[l] = "gated" /\ doing'[l] = "dreaming" /\ seen[l] = file => Due(file, now)]_gateVars

\* An open gate is served: a failed, locked out or crashed pass is tried again
\* until one completes (or a count that is lost closes the gate without one).
OpenGateIsServed == Due(file, now) ~> ~Due(file, now)
==============================================================================
