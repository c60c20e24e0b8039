------------------------------- MODULE RootLock -------------------------------
(***************************************************************************)
(* The per-root write lock of packages/core/src/lock.ts: acquireLock,      *)
(* withLock and the proper-lockfile directory lock they configure.         *)
(*                                                                         *)
(* Time is discrete.  One tick is the retry interval of acquireLock        *)
(* (250 ms), so LOCK_TIMEOUT_MS is Timeout ticks (720 in the code); the    *)
(* staleness threshold, the heartbeat period and the number of retries     *)
(* are all derived from it, as in the source.  Ages are relative and       *)
(* saturate one tick above the staleness threshold: no comparison of the   *)
(* code distinguishes larger ages.                                         *)
(*                                                                         *)
(* The lock itself is a directory created by mkdir (external library).     *)
(* Its age is the time since its mtime.  A writer that finds the directory *)
(* fresh waits; one that finds it stale removes it and creates its own.    *)
(***************************************************************************)
EXTENDS Integers

CONSTANTS
  Writers,            \* processes that take the lock of this root
  NoWriter,           \* owner of a lock directory that does not exist
  Timeout,            \* LOCK_TIMEOUT_MS in retry intervals
  Environments        \* what the processes and their machine do, see below

Stale   == Timeout         \* a directory older than this is up for grabs
Update  == Timeout \div 3  \* period of the holder's mtime refresh
RetriesShort == Timeout - 1   \* fault: one retry too few
Retries == Timeout         \* failed attempts after which acquireLock throws

ASSUME NoWriterAssumption == NoWriter \notin Writers
ASSUME TimeoutAssumption  == Timeout \in Nat /\ Timeout >= 3

\* writers: the processes that run; deadline: the longest time a live holder goes
\* without a heartbeat; interleaves: other writers may run between the stat, the
\* rmdir and the mkdir of one stale-lock reclaim.
ASSUME EnvironmentsAssumption ==
  /\ Environments \subseteq [writers : SUBSET Writers, deadline : Nat, interleaves : BOOLEAN]
  /\ \A e \in Environments : e.deadline >= Update

VARIABLES
  env,       \* the environment, never changes
  pc,        \* where each writer is in acquireLock / withLock
  dirOwner,  \* the writer that created the lock directory, or NoWriter
  dirAge,    \* time since the directory's mtime
  beat,      \* time since each writer last set the mtime itself (lastUpdate)
  tries,     \* failed attempts of the current acquireLock
  due,       \* TRUE iff the retry timer of a waiting writer has fired
  waited     \* time since the first attempt of the current acquireLock

vars == <<env, pc, dirOwner, dirAge, beat, tries, due, waited>>

PCs == {"idle", "waiting", "reclaiming", "recreating", "writing", "elocked", "down"}
Ages == 0 .. (Stale + 1)

Older(age) == IF age > Stale THEN age ELSE age + 1

TypeOK ==
  /\ env \in Environments
  /\ pc \in [Writers -> PCs]
  /\ dirOwner \in Writers \cup {NoWriter}
  /\ dirAge \in Ages
  /\ beat \in [Writers -> Ages]
  /\ tries \in [Writers -> 0 .. Retries]
  /\ due \in [Writers -> BOOLEAN]
  /\ waited \in [Writers -> Ages]

Init ==
  /\ env \in Environments
  /\ pc = [w \in Writers |-> "idle"]
  /\ dirOwner = NoWriter
  /\ dirAge = 0
  /\ beat = [w \in Writers |-> 0]
  /\ tries = [w \in Writers |-> 0]
  /\ due = [w \in Writers |-> FALSE]
  /\ waited = [w \in Writers |-> 0]

Locked == dirOwner # NoWriter
FreshByUpdate == dirAge <= Update   \* fault: the thresholds mixed up
Fresh  == dirAge <= Stale

\* w is inside an acquireLock call.
Calling(w) == pc[w] \in {"waiting", "reclaiming", "recreating"}

(***************************************************************************)
(* acquireLock.  Attempts are the retries of proper-lockfile; the first    *)
(* one is immediate, each later one waits for the retry timer.             *)
(***************************************************************************)

\* The bookkeeping of one acquireLock call exists only while the call waits.
EndCall(w) ==
  /\ tries' = [tries EXCEPT ![w] = 0]
  /\ due' = [due EXCEPT ![w] = FALSE]
  /\ waited' = [waited EXCEPT ![w] = 0]

\* A task calls acquireLock: the first attempt is due at once.
Request(w) ==
  /\ pc[w] \in {"idle", "elocked"}
  /\ pc' = [pc EXCEPT ![w] = "waiting"]
  /\ due' = [due EXCEPT ![w] = TRUE]
  /\ UNCHANGED <<env, dirOwner, dirAge, beat, tries, waited>>

\* The lock directory is created and belongs to w; the heartbeat starts.
CreateDir(w) ==
  /\ pc' = [pc EXCEPT ![w] = "writing"]
  /\ dirOwner' = w
  /\ dirAge' = 0
  /\ beat' = [beat EXCEPT ![w] = 0]
  /\ EndCall(w)
  /\ UNCHANGED env

RemoveDir == dirOwner' = NoWriter /\ dirAge' = 0

\* mkdir succeeds.
Acquire(w) ==
  /\ pc[w] = "waiting" /\ due[w]
  /\ ~Locked
  /\ CreateDir(w)

\* Fault: the retries are not counted.
FailAttemptForever(w) ==
  /\ pc' = [pc EXCEPT ![w] = "waiting"]
  /\ due' = [due EXCEPT ![w] = FALSE]
  /\ UNCHANGED <<env, dirOwner, dirAge, beat, tries, waited>>

\* A failed attempt: schedule the next retry, or report ELOCKED after the last.
FailAttempt(w) ==
  /\ IF tries[w] < Retries
     THEN /\ pc' = [pc EXCEPT ![w] = "waiting"]
          /\ tries' = [tries EXCEPT ![w] = @ + 1]
          /\ due' = [due EXCEPT ![w] = FALSE]
          /\ UNCHANGED waited
     ELSE /\ pc' = [pc EXCEPT ![w] = "elocked"]
          /\ EndCall(w)
  /\ UNCHANGED <<env, dirOwner, dirAge, beat>>

\* mkdir fails with EEXIST and the directory is fresh.
FindFresh(w) ==
  /\ pc[w] = "waiting" /\ due[w]
  /\ Locked /\ Fresh
  /\ FailAttempt(w)

\* Fault: the directory is reclaimed without a look at its age.
ReclaimAny(w) ==
  /\ ~env.interleaves
  /\ pc[w] = "waiting" /\ due[w]
  /\ Locked
  /\ CreateDir(w)

\* mkdir fails with EEXIST, the directory is stale: rmdir and mkdir, unobserved.
Reclaim(w) ==
  /\ ~env.interleaves
  /\ pc[w] = "waiting" /\ due[w]
  /\ Locked /\ ~Fresh
  /\ CreateDir(w)

\* The same in three steps, when other writers can run in between.
SeeStale(w) ==
  /\ env.interleaves
  /\ pc[w] = "waiting" /\ due[w]
  /\ Locked /\ ~Fresh
  /\ pc' = [pc EXCEPT ![w] = "reclaiming"]
  /\ UNCHANGED <<env, dirOwner, dirAge, beat, tries, due, waited>>

RemoveStale(w) ==
  /\ pc[w] = "reclaiming"
  /\ pc' = [pc EXCEPT ![w] = "recreating"]
  /\ RemoveDir
  /\ UNCHANGED <<env, beat, tries, due, waited>>

Recreate(w) ==
  /\ pc[w] = "recreating"
  /\ IF Locked THEN FailAttempt(w) ELSE CreateDir(w)

Attempt(w) ==
  \/ Acquire(w)
  \/ FindFresh(w)
  \/ Reclaim(w)
  \/ SeeStale(w)
  \/ RemoveStale(w)
  \/ Recreate(w)

(***************************************************************************)
(* The holder.                                                             *)
(***************************************************************************)

\* The timer of the holder: refresh the mtime, or find the lock compromised
\* (removed, taken by another writer, or not refreshed for too long), which by
\* default throws out of the timer and ends the process.
Heartbeat(w) ==
  /\ pc[w] = "writing"
  /\ beat[w] >= Update
  /\ beat' = [beat EXCEPT ![w] = 0]
  /\ IF dirOwner = w /\ beat[w] <= Stale
     THEN dirAge' = 0 /\ UNCHANGED pc
     ELSE pc' = [pc EXCEPT ![w] = "down"] /\ UNCHANGED dirAge
  /\ UNCHANGED <<env, dirOwner, tries, due, waited>>

\* The finally of withLock: rmdir, without a look at whose directory it is.
Release(w) ==
  /\ pc[w] = "writing"
  /\ pc' = [pc EXCEPT ![w] = "idle"]
  /\ beat' = [beat EXCEPT ![w] = 0]
  /\ RemoveDir
  /\ UNCHANGED <<env, tries, due, waited>>

(***************************************************************************)
(* The process and the clock.                                              *)
(***************************************************************************)

Stop(w) ==
  /\ pc[w] # "down"
  /\ pc' = [pc EXCEPT ![w] = "down"]
  /\ beat' = [beat EXCEPT ![w] = 0]
  /\ EndCall(w)
  /\ UNCHANGED env

\* An orderly exit: the library's exit hook removes the locks it holds.
Exit(w) ==
  /\ Stop(w)
  /\ IF pc[w] = "writing" THEN RemoveDir ELSE UNCHANGED <<dirOwner, dirAge>>

\* A kill or a power loss: the directory stays behind.
Crash(w) == Stop(w) /\ UNCHANGED <<dirOwner, dirAge>>

Restart(w) ==
  /\ pc[w] = "down"
  /\ pc' = [pc EXCEPT ![w] = "idle"]
  /\ UNCHANGED <<env, dirOwner, dirAge, beat, tries, due, waited>>

\* Time passes, but not past the heartbeat deadline of a live holder.
Tick ==
  /\ \A w \in Writers : pc[w] = "writing" => beat[w] < env.deadline
  /\ dirAge' = IF Locked THEN Older(dirAge) ELSE dirAge
  /\ beat' = [w \in Writers |-> IF pc[w] = "writing" THEN Older(beat[w]) ELSE beat[w]]
  /\ due' = [w \in Writers |-> due[w] \/ pc[w] = "waiting"]
  /\ waited' = [w \in Writers |-> IF Calling(w) THEN Older(waited[w]) ELSE waited[w]]
  /\ UNCHANGED <<env, pc, dirOwner, tries>>

WriterStep(w) ==
  \/ Request(w)
  \/ Attempt(w)
  \/ Heartbeat(w)
  \/ Release(w)
  \/ Exit(w)
  \/ Crash(w)
  \/ Restart(w)

Next == Tick \/ \E w \in env.writers : WriterStep(w)

Spec == Init /\ [][Next]_vars

\* Timers of a running process fire eventually and time does not stop.  Nothing
\* obliges a task to request or to release the lock.
Fairness ==
  /\ WF_vars(Tick)
  /\ \A w \in Writers : WF_vars(Attempt(w)) /\ WF_vars(Heartbeat(w))

LiveSpec == Spec /\ Fairness

------------------------------------------------------------------------------
(***************************************************************************)
(* Properties.                                                             *)
(***************************************************************************)

\* The environment under which the directory lock is a mutex: a live holder's
\* timer is never delayed beyond the staleness threshold, and no two writers
\* interleave in the middle of a reclaim.
TimelyHolder == env.deadline <= Stale /\ ~env.interleaves

\* lock.ts:1: two tasks are never inside withLock for one root together, if
\* holders are timely.
MutualExclusion ==
  TimelyHolder => \A v, w \in Writers : pc[v] = "writing" /\ pc[w] = "writing" => v = w

\* The writer inside owns the directory, and the age other writers see is the
\* age the writer's own heartbeat sees: this is what keeps a reclaim away.
HolderOwnsDir ==
  \A w \in Writers : pc[w] = "writing" => dirOwner = w /\ dirAge = beat[w]

\* A holder's heartbeat is never later than the deadline.
HeartbeatInTime ==
  \A w \in Writers : pc[w] = "writing" => beat[w] <= env.deadline

\* A reclaim that no other writer observes leaves no writer in the middle of it.
NoHalfReclaim ==
  ~env.interleaves => \A w \in Writers : pc[w] \notin {"reclaiming", "recreating"}

\* The inductive strengthening of MutualExclusion.
LockInv ==
  TypeOK /\ (TimelyHolder => HolderOwnsDir /\ HeartbeatInTime /\ NoHalfReclaim)

\* acquireLock reports ELOCKED only after the lock was created or refreshed
\* since the call began: waiting for Retries intervals outlives the staleness of
\* a lock a crashed holder left behind (retries and stale are both
\* LOCK_TIMEOUT_MS), so a dead holder alone never fails a writer.
ElockedOnlyIfAlive ==
  [][\A w \in Writers :
       pc[w] # "elocked" /\ pc'[w] = "elocked" => dirAge <= waited[w]]_vars

\* The wait of acquireLock is bounded: a waiting task gets the lock or ELOCKED.
BoundedWait == \A w \in Writers : Calling(w) ~> ~Calling(w)

\* The directory lock implements the mutex.  If holders are not timely it promises
\* nothing: then nobody counts as its holder.
Holder ==
  IF TimelyHolder /\ Locked /\ pc[dirOwner] = "writing" THEN dirOwner ELSE NoWriter

Abstract == INSTANCE Mutex WITH holder <- Holder

ImplementsMutex == Abstract!Spec
==============================================================================
