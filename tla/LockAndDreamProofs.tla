-------------------------- MODULE LockAndDreamProofs --------------------------
(***************************************************************************)
(* Theorems about the root lock and about the dream, which holds it.  Of   *)
(* the lock, for every set of writers, every timeout and any environments: *)
(* it is exclusive, it implements Mutex, and dead holders fail no call.    *)
(* Of the gate, for any number of lanes: types, the origin of the stamp,   *)
(* the exactness of the file as long as nothing is written over what was   *)
(* not read, and the passes that the gate lets through.  Of the pre-pass,  *)
(* for any store of finitely many files: it comes to rest, and in a store  *)
(* whose files are apart it keeps every body.                              *)
(***************************************************************************)
EXTENDS RootLock, DreamGate, DreamPrepass, FiniteSetTheorems, TLAPS

(***************************************************************************)
(* The lock.  The argument is the lease argument: the age other writers    *)
(* see on the directory is the age the holder's own heartbeat sees, a live *)
(* holder's heartbeat is never later than the deadline, and a reclaim      *)
(* needs an age above the staleness threshold.  A call that waits outlives *)
(* that threshold, so it reports ELOCKED only after a sign of life.        *)
(***************************************************************************)

\* The derived thresholds are natural numbers, the heartbeat period below the
\* staleness threshold (LOCK_TIMEOUT_MS / 3 against LOCK_TIMEOUT_MS).
LEMMA Thresholds ==
  /\ Stale \in Nat /\ Update \in Nat /\ Retries \in Nat
  /\ Update <= Stale
  /\ \A e \in Environments : e.deadline \in Nat /\ e.writers \subseteq Writers
BY TimeoutAssumption, EnvironmentsAssumption DEF Stale, Update, Retries

\* An age stays within the saturated range when time passes.
LEMMA OlderType ==
  ASSUME NEW age \in Ages
  PROVE  Older(age) \in Ages
BY Thresholds DEF Ages, Older

\* Initially nobody writes.
LEMMA InitLockInv == Init => LockInv
BY Thresholds, NoWriterAssumption
   DEF Init, LockInv, TypeOK, HolderOwnsDir, HeartbeatInTime,
       NoHalfReclaim, PCs, Ages

\* Every step preserves the typing of the variables, and the environment.
LEMMA TypeStep ==
  ASSUME TypeOK, [Next]_vars
  PROVE  TypeOK' /\ env' = env
<1> USE Thresholds DEF TypeOK, PCs, Ages
<1>1. CASE Tick
  <2>1. dirAge' \in Ages
    BY <1>1, OlderType DEF Tick
  <2>2. beat' \in [Writers -> Ages]
    BY <1>1, OlderType DEF Tick
  <2>3. waited' \in [Writers -> Ages]
    BY <1>1, OlderType DEF Tick
  <2>4. due' \in [Writers -> BOOLEAN]
    BY <1>1 DEF Tick
  <2> QED
    BY <1>1, <2>1, <2>2, <2>3, <2>4 DEF Tick
<1>2. ASSUME NEW w \in Writers, Request(w) PROVE TypeOK' /\ env' = env
  BY <1>2 DEF Request
<1>3. ASSUME NEW w \in Writers, Attempt(w) PROVE TypeOK' /\ env' = env
  <2>1. ASSUME CreateDir(w) PROVE TypeOK' /\ env' = env
    BY <2>1 DEF CreateDir, EndCall
  <2>2. ASSUME FailAttempt(w) PROVE TypeOK' /\ env' = env
    <3>1. pc' \in [Writers -> PCs]
      BY <2>2 DEF FailAttempt
    <3>2. tries' \in [Writers -> 0 .. Retries]
      <4>1. CASE tries[w] < Retries
        <5>1. tries' = [tries EXCEPT ![w] = tries[w] + 1]
          BY <2>2, <4>1 DEF FailAttempt
        <5>2. tries[w] + 1 \in 0 .. Retries
          BY <4>1
        <5> QED
          BY <5>1, <5>2
      <4>2. CASE ~(tries[w] < Retries)
        <5>1. tries' = [tries EXCEPT ![w] = 0]
          BY <2>2, <4>2 DEF FailAttempt, EndCall
        <5> QED
          BY <5>1
      <4> QED
        BY <4>1, <4>2
    <3>3. due' \in [Writers -> BOOLEAN] /\ waited' \in [Writers -> Ages]
      <4>1. CASE tries[w] < Retries
        <5>1. due' = [due EXCEPT ![w] = FALSE] /\ waited' = waited
          BY <2>2, <4>1 DEF FailAttempt
        <5> QED
          BY <5>1
      <4>2. CASE ~(tries[w] < Retries)
        <5>1. due' = [due EXCEPT ![w] = FALSE] /\ waited' = [waited EXCEPT ![w] = 0]
          BY <2>2, <4>2 DEF FailAttempt, EndCall
        <5> QED
          BY <5>1
      <4> QED
        BY <4>1, <4>2
    <3> QED
      BY <2>2, <3>1, <3>2, <3>3 DEF FailAttempt
  <2>3. CASE SeeStale(w)
    BY <2>3 DEF SeeStale
  <2>4. CASE RemoveStale(w)
    BY <2>4 DEF RemoveStale, RemoveDir
  <2> QED
    BY <1>3, <2>1, <2>2, <2>3, <2>4 DEF Attempt, Acquire, FindFresh, Reclaim, Recreate
<1>4. ASSUME NEW w \in Writers, Heartbeat(w) PROVE TypeOK' /\ env' = env
  BY <1>4 DEF Heartbeat
<1>5. ASSUME NEW w \in Writers, Release(w) PROVE TypeOK' /\ env' = env
  BY <1>5 DEF Release, RemoveDir
<1>6. ASSUME NEW w \in Writers, Exit(w) PROVE TypeOK' /\ env' = env
  BY <1>6 DEF Exit, Stop, EndCall, RemoveDir
<1>7. ASSUME NEW w \in Writers, Crash(w) PROVE TypeOK' /\ env' = env
  BY <1>7 DEF Crash, Stop, EndCall
<1>8. ASSUME NEW w \in Writers, Restart(w) PROVE TypeOK' /\ env' = env
  BY <1>8 DEF Restart
<1>9. CASE UNCHANGED vars
  BY <1>9 DEF vars
<1> QED
  BY <1>1, <1>2, <1>3, <1>4, <1>5, <1>6, <1>7, <1>8, <1>9 DEF Next, WriterStep

\* While a writer is inside, the directory exists and, the holder being timely,
\* no other writer finds it stale.
LEMMA HolderKeepsDirFresh ==
  ASSUME LockInv, TimelyHolder, NEW v \in Writers, pc[v] = "writing"
  PROVE  Locked /\ Fresh /\ dirOwner = v
BY Thresholds, NoWriterAssumption
   DEF LockInv, TypeOK, HolderOwnsDir, HeartbeatInTime, TimelyHolder, Locked, Fresh, Ages

\* A writer that creates the directory while nobody writes becomes its holder.
LEMMA CreateDirStep ==
  ASSUME LockInv, TimelyHolder, NEW w \in Writers, CreateDir(w),
         \A v \in Writers : pc[v] # "writing"
  PROVE  HolderOwnsDir' /\ HeartbeatInTime' /\ NoHalfReclaim'
<1>1. \A v \in Writers : pc'[v] = "writing" => v = w
  BY DEF CreateDir, LockInv, TypeOK
<1>2. dirOwner' = w /\ dirAge' = 0 /\ beat'[w] = 0 /\ env' = env
  BY DEF CreateDir, LockInv, TypeOK
<1>3. NoHalfReclaim'
  BY DEF CreateDir, LockInv, TypeOK, NoHalfReclaim
<1> QED
  BY <1>1, <1>2, <1>3, Thresholds DEF HolderOwnsDir, HeartbeatInTime, LockInv, TypeOK

\* A failed attempt leaves the directory and the writers inside alone.
LEMMA FailAttemptStep ==
  ASSUME LockInv, TimelyHolder, NEW w \in Writers, FailAttempt(w), pc[w] # "writing"
  PROVE  HolderOwnsDir' /\ HeartbeatInTime' /\ NoHalfReclaim'
<1>1. UNCHANGED <<env, dirOwner, dirAge, beat>>
  BY DEF FailAttempt
<1>2. pc' = [pc EXCEPT ![w] = "waiting"] \/ pc' = [pc EXCEPT ![w] = "elocked"]
  BY DEF FailAttempt
<1> QED
  BY <1>1, <1>2 DEF LockInv, TypeOK, HolderOwnsDir, HeartbeatInTime, NoHalfReclaim

\* An attempt never takes the directory from a timely holder.
LEMMA AttemptStep ==
  ASSUME LockInv, TimelyHolder, NEW w \in Writers, Attempt(w)
  PROVE  HolderOwnsDir' /\ HeartbeatInTime' /\ NoHalfReclaim'
<1>1. CASE Acquire(w)
  BY <1>1, HolderKeepsDirFresh, CreateDirStep DEF Acquire
<1>2. CASE FindFresh(w)
  BY <1>2, FailAttemptStep DEF FindFresh
<1>3. CASE Reclaim(w)
  BY <1>3, HolderKeepsDirFresh, CreateDirStep DEF Reclaim
<1>4. CASE SeeStale(w)
  BY <1>4 DEF SeeStale, TimelyHolder
<1>5. CASE RemoveStale(w)
  BY <1>5 DEF RemoveStale, TimelyHolder, LockInv, NoHalfReclaim
<1>6. CASE Recreate(w)
  BY <1>6 DEF Recreate, TimelyHolder, LockInv, NoHalfReclaim
<1> QED
  BY <1>1, <1>2, <1>3, <1>4, <1>5, <1>6 DEF Attempt

\* The steps of the process of w that do not attempt the lock: w is outside, or
\* it is the only writer inside and the directory is its own.
LEMMA WriterOwnStep ==
  ASSUME LockInv, TimelyHolder, NEW w \in Writers,
         Request(w) \/ Heartbeat(w) \/ Release(w) \/ Exit(w) \/ Crash(w) \/ Restart(w)
  PROVE  HolderOwnsDir' /\ HeartbeatInTime' /\ NoHalfReclaim'
<1> USE DEF LockInv, TypeOK, HolderOwnsDir, HeartbeatInTime, NoHalfReclaim
<1>1. CASE Request(w)
  BY <1>1 DEF Request
<1>2. CASE Heartbeat(w)
  <2>1. dirOwner = w /\ Fresh /\ beat[w] = dirAge
    BY <1>2, HolderKeepsDirFresh DEF Heartbeat
  <2>2. beat' = [beat EXCEPT ![w] = 0] /\ dirAge' = 0 /\ UNCHANGED <<env, pc, dirOwner>>
    BY <1>2, <2>1 DEF Heartbeat, Fresh
  <2>3. \A v \in Writers : pc[v] = "writing" => v = w
    BY <2>1
  <2> QED
    BY <2>2, <2>3, Thresholds
<1>3. CASE Release(w)
  BY <1>3 DEF Release, RemoveDir
<1>4. CASE Exit(w)
  BY <1>4 DEF Exit, Stop, RemoveDir
<1>5. CASE Crash(w)
  BY <1>5 DEF Crash, Stop
<1>6. CASE Restart(w)
  BY <1>6 DEF Restart
<1> QED
  BY <1>1, <1>2, <1>3, <1>4, <1>5, <1>6

\* Time ages the directory and the holder's heartbeat alike, and stops at the
\* holder's deadline.
LEMMA TickStep ==
  ASSUME LockInv, TimelyHolder, Tick
  PROVE  HolderOwnsDir' /\ HeartbeatInTime' /\ NoHalfReclaim'
<1> USE DEF LockInv, TypeOK
<1>1. UNCHANGED <<env, pc, dirOwner>>
  BY DEF Tick
<1>2. HolderOwnsDir'
  <2> SUFFICES ASSUME NEW v \in Writers, pc[v] = "writing"
               PROVE  dirOwner' = v /\ dirAge' = beat'[v]
    BY <1>1 DEF HolderOwnsDir
  <2>1. Locked /\ dirOwner = v /\ dirAge = beat[v]
    BY NoWriterAssumption DEF HolderOwnsDir, Locked
  <2> QED
    BY <1>1, <2>1 DEF Tick
<1>3. HeartbeatInTime'
  <2> SUFFICES ASSUME NEW v \in Writers, pc[v] = "writing"
               PROVE  beat'[v] <= env'.deadline
    BY <1>1 DEF HeartbeatInTime
  <2>1. /\ beat[v] \in Nat /\ beat[v] < env.deadline /\ env' = env
        /\ env.deadline \in Nat /\ beat'[v] = Older(beat[v])
    BY Thresholds DEF Tick, Ages
  <2> QED
    BY <2>1, Thresholds DEF Older
<1>4. NoHalfReclaim'
  BY <1>1 DEF NoHalfReclaim
<1> QED
  BY <1>2, <1>3, <1>4

\* The inductive invariant is preserved by every step.
LEMMA LockInvStep ==
  ASSUME LockInv, [Next]_vars
  PROVE  LockInv'
<1>1. TypeOK' /\ env' = env
  BY TypeStep DEF LockInv
<1>2. ASSUME TimelyHolder
      PROVE  HolderOwnsDir' /\ HeartbeatInTime' /\ NoHalfReclaim'
  <2>1. CASE Tick
    BY <1>2, <2>1, TickStep
  <2>2. ASSUME NEW w \in env.writers, WriterStep(w)
        PROVE  HolderOwnsDir' /\ HeartbeatInTime' /\ NoHalfReclaim'
    <3>1. w \in Writers
      BY Thresholds DEF LockInv, TypeOK
    <3> QED
      BY <1>2, <2>2, <3>1, AttemptStep, WriterOwnStep DEF WriterStep
  <2>3. CASE UNCHANGED vars
    BY <1>2, <2>3 DEF vars, LockInv, HolderOwnsDir, HeartbeatInTime, NoHalfReclaim
  <2> QED
    BY <2>1, <2>2, <2>3 DEF Next
<1> QED
  BY <1>1, <1>2 DEF LockInv, TimelyHolder

\* Type correctness, whatever the heartbeats and the reclaims do.
THEOREM TypeCorrect == Spec => []TypeOK
<1>1. Init => TypeOK
  BY InitLockInv DEF LockInv
<1>2. TypeOK /\ [Next]_vars => TypeOK'
  BY TypeStep
<1> QED
  BY <1>1, <1>2, PTL DEF Spec

\* The lease invariant holds throughout every run: in a timely environment the
\* directory's age is that of its holder's heartbeat (the update and stale options
\* of lock.ts).
THEOREM LeaseInvariant == Spec => []LockInv
<1>1. LockInv /\ [Next]_vars => LockInv'
  BY LockInvStep
<1> QED
  BY InitLockInv, <1>1, PTL DEF Spec

\* lock.ts:1, "Cross-process write mutex for one memory root": with timely
\* heartbeats two writers are never inside withLock together.
THEOREM LockIsExclusive == Spec => []MutualExclusion
<1>1. LockInv => MutualExclusion
  BY DEF LockInv, HolderOwnsDir, MutualExclusion
<1> QED
  BY LeaseInvariant, <1>1, PTL

\* The refinement mapping names the writer inside, if there is one.
LEMMA HolderIsWriterInside ==
  ASSUME LockInv, TimelyHolder
  PROVE  /\ Holder \in Writers \cup {NoWriter}
         /\ \A v \in Writers : pc[v] = "writing" <=> Holder = v
BY NoWriterAssumption DEF LockInv, TypeOK, HolderOwnsDir, Holder, Locked

\* A step moves at most one writer.
LEMMA OneWriterMoves ==
  ASSUME TypeOK, [Next]_vars
  PROVE  \/ UNCHANGED pc
         \/ \E w \in Writers : \A v \in Writers \ {w} : pc'[v] = pc[v]
<1> USE DEF TypeOK
<1>1. ASSUME NEW w \in env.writers, WriterStep(w)
      PROVE  w \in Writers /\ \A v \in Writers \ {w} : pc'[v] = pc[v]
  <2> w \in Writers
    BY Thresholds
  <2>1. CASE Attempt(w)
    BY <2>1 DEF Attempt, Acquire, FindFresh, Reclaim, SeeStale, RemoveStale, Recreate,
                CreateDir, FailAttempt
  <2>2. CASE Request(w) \/ Release(w) \/ Restart(w)
    BY <2>2 DEF Request, Release, Restart
  <2>3. CASE Heartbeat(w)
    BY <2>3 DEF Heartbeat
  <2>4. CASE Exit(w) \/ Crash(w)
    BY <2>4 DEF Exit, Crash, Stop
  <2> QED
    BY <1>1, <2>1, <2>2, <2>3, <2>4 DEF WriterStep
<1> QED
  BY <1>1 DEF Next, Tick, vars

\* Every step of the directory lock is a step of the mutex or a stutter.
LEMMA MutexStep ==
  ASSUME LockInv, LockInv', [Next]_vars
  PROVE  [Abstract!Next]_Holder
<1> TimelyHolder' = TimelyHolder
  BY TypeStep DEF LockInv, TimelyHolder
<1>0. CASE ~TimelyHolder
  BY <1>0 DEF Holder
<1> SUFFICES ASSUME TimelyHolder PROVE [Abstract!Next]_Holder
  BY <1>0
<1>1. /\ Holder \in Writers \cup {NoWriter}
      /\ \A v \in Writers : pc[v] = "writing" <=> Holder = v
  BY HolderIsWriterInside
<1>2. /\ Holder' \in Writers \cup {NoWriter}
      /\ \A v \in Writers : pc'[v] = "writing" <=> Holder' = v
  BY NoWriterAssumption DEF LockInv, TypeOK, HolderOwnsDir, Holder, Locked
<1>3. CASE UNCHANGED pc
  BY <1>1, <1>2, <1>3, NoWriterAssumption
<1>4. ASSUME NEW w \in Writers, \A v \in Writers \ {w} : pc'[v] = pc[v]
      PROVE  [Abstract!Next]_Holder
  <2>1. CASE Holder = NoWriter /\ Holder' # NoWriter
    BY <1>1, <1>2, <2>1 DEF Abstract!Next, Abstract!Enter
  <2>2. CASE Holder # NoWriter /\ Holder' = NoWriter
    BY <1>1, <1>2, <2>2 DEF Abstract!Next, Abstract!Leave
  <2>3. CASE Holder = NoWriter /\ Holder' = NoWriter
    BY <2>3
  <2>4. CASE Holder # NoWriter /\ Holder' # NoWriter
    BY <1>1, <1>2, <1>4, <2>4
  <2> QED
    BY <2>1, <2>2, <2>3, <2>4
<1> QED
  BY <1>3, <1>4, OneWriterMoves DEF LockInv

\* The directory lock of proper-lockfile, as lock.ts configures it, implements
\* the abstract mutex when holders are timely.
THEOREM LockImplementsMutex == Spec => ImplementsMutex
<1>1. Init => Abstract!Init
  BY DEF Init, Abstract!Init, Holder, Locked
<1>2. LockInv /\ LockInv' /\ [Next]_vars => [Abstract!Next]_Holder
  BY MutexStep
<1> QED
  BY <1>1, <1>2, LeaseInvariant, PTL DEF Spec, ImplementsMutex, Abstract!Spec

(***************************************************************************)
(* The wait.                                                               *)
(***************************************************************************)

\* A call has waited one interval for each failed attempt but the last one, whose
\* retry timer may still run; while it recreates the directory, that is no older than
\* its wait.
WaitOf(w) ==
  /\ ~Calling(w) => tries[w] = 0 /\ waited[w] = 0 /\ ~due[w]
  /\ Calling(w) => waited[w] >= tries[w] - (IF due[w] THEN 0 ELSE 1)
  /\ pc[w] \in {"reclaiming", "recreating"} => due[w]
  /\ pc[w] = "recreating" => dirAge <= waited[w]

WaitInv == \A w \in Writers : WaitOf(w)

\* What a step of one writer leaves alone of the wait of another.
LEMMA OthersWait ==
  ASSUME TypeOK, NEW v \in Writers, WaitOf(v),
         pc'[v] = pc[v], tries'[v] = tries[v], waited'[v] = waited[v], due'[v] = due[v],
         dirAge' \in {0, dirAge}
  PROVE  WaitOf(v)'
<1>1. waited[v] \in Nat
  BY Thresholds DEF TypeOK, Ages
<1> QED
  BY <1>1 DEF WaitOf, Calling

\* A step of one writer keeps what is said of every wait.
LEMMA WaitStep ==
  ASSUME TypeOK, WaitInv, NEW w \in Writers, WriterStep(w)
  PROVE  WaitInv'
<1>0. /\ dirAge \in Nat /\ Retries \in Nat
      /\ \A v \in Writers : waited[v] \in Nat /\ tries[v] \in Nat /\ due[v] \in BOOLEAN
  BY Thresholds DEF TypeOK, Ages
<1>1. dirAge' \in {0, dirAge}
  BY DEF WriterStep, Attempt, Request, Acquire, FindFresh, Reclaim, SeeStale, RemoveStale,
         Recreate, CreateDir, FailAttempt, RemoveDir, Heartbeat, Release, Exit, Crash, Restart
<1>2. ASSUME NEW v \in Writers, v # w
      PROVE  /\ pc'[v] = pc[v] /\ tries'[v] = tries[v]
             /\ waited'[v] = waited[v] /\ due'[v] = due[v]
  <2>1. CASE EndCall(w)
    <3>1. tries'[v] = tries[v] /\ waited'[v] = waited[v] /\ due'[v] = due[v]
      BY <1>2, <2>1 DEF EndCall, TypeOK
    <3>2. pc'[v] = pc[v]
      BY <1>2 DEF WriterStep, Attempt, Request, Acquire, FindFresh, Reclaim, SeeStale,
         RemoveStale, Recreate, CreateDir, FailAttempt, Heartbeat, Release, Exit, Crash, Stop,
         Restart, TypeOK
    <3> QED
      BY <3>1, <3>2
  <2>2. CASE ~EndCall(w)
    BY <1>2, <2>2 DEF WriterStep, Attempt, Request, Acquire, FindFresh, Reclaim, SeeStale,
       RemoveStale, Recreate, CreateDir, FailAttempt, Heartbeat, Release, Exit, Crash, Stop,
       Restart, TypeOK
  <2> QED
    BY <2>1, <2>2
<1>3. WaitOf(w)'
  <2>1. ASSUME CreateDir(w) PROVE WaitOf(w)'
    BY <1>0, <2>1 DEF CreateDir, EndCall, WaitOf, Calling, TypeOK
  <2>2. ASSUME FailAttempt(w), pc[w] \in {"waiting", "recreating"}, due[w] PROVE WaitOf(w)'
    <3>1. waited[w] >= tries[w]
      BY <1>0, <2>2 DEF WaitInv, WaitOf, Calling
    <3>2. CASE tries[w] < Retries
      <4>1. /\ pc'[w] = "waiting" /\ tries'[w] = tries[w] + 1
            /\ due'[w] = FALSE /\ waited'[w] = waited[w]
        BY <2>2, <3>2 DEF FailAttempt, TypeOK
      <4> QED
        BY <1>0, <3>1, <4>1 DEF WaitOf, Calling
    <3>3. CASE ~(tries[w] < Retries)
      <4>1. pc'[w] = "elocked" /\ tries'[w] = 0 /\ due'[w] = FALSE /\ waited'[w] = 0
        BY <2>2, <3>3 DEF FailAttempt, EndCall, TypeOK
      <4> QED
        BY <4>1 DEF WaitOf, Calling
    <3> QED
      BY <3>2, <3>3
  <2>3. CASE SeeStale(w) \/ RemoveStale(w)
    BY <1>0, <2>3 DEF SeeStale, RemoveStale, RemoveDir, WaitInv, WaitOf, Calling, TypeOK
  <2>4. CASE Request(w) \/ Heartbeat(w) \/ Release(w) \/ Restart(w)
    BY <1>0, <2>4 DEF Request, Heartbeat, Release, Restart, WaitInv, WaitOf, Calling, TypeOK
  <2>5. CASE Exit(w) \/ Crash(w)
    BY <1>0, <2>5 DEF Exit, Crash, Stop, EndCall, WaitOf, Calling, TypeOK
  <2>6. CASE Recreate(w)
    <3>1. pc[w] = "recreating" /\ due[w]
      BY <2>6 DEF Recreate, WaitInv, WaitOf
    <3> QED
      BY <2>1, <2>2, <2>6, <3>1 DEF Recreate
  <2> QED
    BY <2>1, <2>2, <2>3, <2>4, <2>5, <2>6
       DEF WriterStep, Attempt, Acquire, FindFresh, Reclaim
<1> QED
  BY <1>1, <1>2, <1>3, OthersWait DEF WaitInv

\* Time passes for the directory and for every call alike.
LEMMA WaitTick ==
  ASSUME TypeOK, WaitInv, Tick
  PROVE  WaitInv'
<1> SUFFICES ASSUME NEW v \in Writers PROVE WaitOf(v)'
  BY DEF WaitInv
<1>1. /\ dirAge \in Ages /\ waited[v] \in Ages /\ tries[v] \in 0 .. Retries
      /\ due[v] \in BOOLEAN /\ WaitOf(v)
  BY DEF TypeOK, WaitInv
<1>2. /\ pc'[v] = pc[v] /\ tries'[v] = tries[v]
      /\ dirAge' \in {dirAge, Older(dirAge)}
      /\ due'[v] = (due[v] \/ pc[v] = "waiting")
      /\ waited'[v] = IF Calling(v) THEN Older(waited[v]) ELSE waited[v]
  BY DEF Tick
<1>3. CASE Calling(v)
  <2>1. Calling(v)' /\ due'[v]
    BY <1>1, <1>2, <1>3 DEF Calling, WaitOf
  <2>2. waited'[v] = Older(waited[v]) /\ tries[v] <= Stale /\ waited[v] >= tries[v] - 1
    BY <1>1, <1>2, <1>3, Thresholds DEF WaitOf, Ages, Retries, Stale
  <2>3. Older(waited[v]) >= tries[v]
    BY <1>1, <2>2, Thresholds DEF Older, Ages
  <2>4. dirAge <= waited[v] => dirAge' <= Older(waited[v])
    BY <1>1, <1>2, Thresholds DEF Older, Ages
  <2> QED
    BY <1>1, <1>2, <2>1, <2>2, <2>3, <2>4 DEF WaitOf
<1>4. CASE ~Calling(v)
  BY <1>1, <1>2, <1>4 DEF WaitOf, Calling
<1> QED
  BY <1>3, <1>4

LEMMA WaitInvStep == TypeOK /\ WaitInv /\ [Next]_vars => WaitInv'
<1> SUFFICES ASSUME TypeOK, WaitInv, [Next]_vars PROVE WaitInv'
  OBVIOUS
<1>1. ASSUME NEW w \in env.writers, WriterStep(w) PROVE WaitInv'
  BY <1>1, WaitStep, Thresholds DEF TypeOK
<1>2. CASE UNCHANGED vars
  BY <1>2 DEF vars, WaitInv, WaitOf, Calling
<1> QED
  BY <1>1, <1>2, WaitTick DEF Next

\* lock.ts, retries and stale from one LOCK_TIMEOUT_MS: a call reports ELOCKED only if the
\* directory was made or refreshed since it began, whatever heartbeats, reclaims and
\* crashes do, for any writers and any timeout.
THEOREM DeadHoldersDoNotFailCalls == Spec => ElockedOnlyIfAlive
<1> DEFINE Alive ==
      \A w \in Writers : pc[w] # "elocked" /\ pc'[w] = "elocked" => dirAge <= waited[w]
<1>1. Init => WaitInv
  BY DEF Init, WaitInv, WaitOf, Calling
<1>2. TypeOK /\ WaitInv /\ [Next]_vars => [Alive]_vars
  <2> SUFFICES ASSUME TypeOK, WaitInv, Next, NEW w \in Writers,
                      pc[w] # "elocked", pc'[w] = "elocked"
               PROVE  dirAge <= waited[w]
    OBVIOUS
  <2>1. ~Tick
    BY DEF Tick
  <2>2. PICK v \in env.writers : WriterStep(v)
    BY <2>1 DEF Next
  <2>3. v \in Writers
    BY Thresholds DEF TypeOK
  <2>4. \/ FindFresh(w) /\ ~(tries[w] < Retries)
        \/ pc[w] = "recreating"
    BY <2>2, <2>3 DEF WriterStep, Attempt, Request, Acquire, FindFresh, Reclaim, SeeStale,
       RemoveStale, Recreate, CreateDir, FailAttempt, Heartbeat, Release, Exit, Crash, Stop,
       Restart, TypeOK
  <2>5. CASE FindFresh(w) /\ ~(tries[w] < Retries)
    <3>1. /\ dirAge <= Stale /\ dirAge \in Nat /\ waited[w] \in Nat
          /\ tries[w] \in 0 .. Retries /\ Retries = Stale
      BY <2>5 DEF FindFresh, Fresh, TypeOK, Ages, Retries, Stale
    <3>2. waited[w] >= tries[w]
      BY <2>5, <3>1 DEF FindFresh, WaitInv, WaitOf, Calling
    <3> QED
      BY <2>5, <3>1, <3>2, Thresholds
  <2>6. CASE pc[w] = "recreating"
    BY <2>6 DEF WaitInv, WaitOf
  <2> QED
    BY <2>4, <2>5, <2>6
<1> QED
  BY <1>1, <1>2, WaitInvStep, TypeCorrect, PTL DEF Spec, ElockedOnlyIfAlive

(***************************************************************************)
(* The gate.                                                               *)
(***************************************************************************)

\* Type correctness: in particular the count never exceeds the sessions that
\* ended, although two lanes may write back what both have read.
THEOREM GateTypeCorrect == GateSpec => []GateTypeOK
<1>1. GateInit => GateTypeOK
  <2>1. GateInit => lost \in BOOLEAN
    BY DEF GateInit
  <2> QED
    BY <2>1, BoundAssumption DEF GateInit, GateTypeOK, Doings, Times, States, ZeroState, State, Never
<1>2. GateTypeOK /\ [GateNext]_gateVars => GateTypeOK'
  <2> SUFFICES ASSUME GateTypeOK, [GateNext]_gateVars PROVE GateTypeOK'
    OBVIOUS
  <2> USE BoundAssumption
  <2>1. CASE HourPasses
    BY <2>1 DEF GateTypeOK, HourPasses, Times, States
  <2>2. ASSUME NEW l \in Lanes, BumpRead(l) PROVE GateTypeOK'
    BY <2>2 DEF GateTypeOK, BumpRead, Goto, Doings, States
  <2>3. ASSUME NEW l \in Lanes, BumpWrite(l) PROVE GateTypeOK'
    <3>1. /\ doing[l] = "bumping"
          /\ seen[l] \in States
          /\ seen[l].sessionsSince < sessions
      BY <2>3 DEF GateTypeOK, BumpWrite, Goto
    <3>2. file' \in States /\ file'.sessionsSince <= sessions
      BY <2>3, <3>1 DEF GateTypeOK, BumpWrite, States, State
    <3>3. lost' \in BOOLEAN
      BY <2>3 DEF BumpWrite
    <3>4. /\ doing' = [doing EXCEPT ![l] = "free"]
          /\ ended' = ended + 1
          /\ UNCHANGED <<now, seen, sessions, stamps, failures, forced>>
      BY <2>3 DEF BumpWrite, Goto
    <3>5. doing' \in [Lanes -> Doings] /\ \A m \in Lanes : doing'[m] = "bumping" => doing[m] = "bumping"
      BY <3>4 DEF GateTypeOK, Doings
    <3>6. ended' \in Nat
      BY <3>4 DEF GateTypeOK
    <3> QED
      BY <3>2, <3>3, <3>4, <3>5, <3>6 DEF GateTypeOK
  <2>4. ASSUME NEW l \in Lanes, Idle(l) \/ StartPass(l) PROVE GateTypeOK'
    <3>1. CASE Idle(l)
      <4>1. seen' \in [Lanes -> States] /\ doing' \in [Lanes -> Doings]
        BY <3>1 DEF GateTypeOK, Idle, Goto, Doings
      <4>2. \A m \in Lanes : doing'[m] = "bumping" => doing[m] = "bumping" /\ seen'[m] = seen[m]
        BY <3>1 DEF GateTypeOK, Idle, Goto
      <4> QED
        BY <3>1, <4>1, <4>2 DEF GateTypeOK, Idle
    <3>2. CASE StartPass(l)
      BY <3>2 DEF GateTypeOK, StartPass, Goto, Doings
    <3> QED
      BY <2>4, <3>1, <3>2
  <2>5. ASSUME NEW l \in Lanes, Demand(l) PROVE GateTypeOK'
    BY <2>5 DEF GateTypeOK, Demand, Goto, Doings
  <2>6. ASSUME NEW l \in Lanes, LockTimeout(l) \/ PassFails(l) \/ LaneDies(l) PROVE GateTypeOK'
    <3>1. doing' = [doing EXCEPT ![l] = "free"]
      BY <2>6 DEF LockTimeout, PassFails, LaneDies, Goto
    <3>2. failures' \in 0 .. MaxFailures
      BY <2>6 DEF GateTypeOK, LockTimeout, PassFails, LaneDies, Fail
    <3>3. UNCHANGED <<now, file, seen, sessions, ended, stamps, lost, forced>>
      BY <2>6 DEF LockTimeout, PassFails, LaneDies
    <3> QED
      BY <3>1, <3>2, <3>3 DEF GateTypeOK, Doings
  <2>7. ASSUME NEW l \in Lanes, PassOk(l) PROVE GateTypeOK'
    <3>1. file' \in States /\ file'.sessionsSince <= sessions
      BY <2>7 DEF GateTypeOK, PassOk, States, State, Times
    <3> QED
      BY <2>7, <3>1 DEF GateTypeOK, PassOk, Goto, Doings
  <2>8. CASE UNCHANGED gateVars
    BY <2>8 DEF GateTypeOK, gateVars
  <2> QED
    BY <2>1, <2>2, <2>3, <2>4, <2>5, <2>6, <2>7, <2>8 DEF GateNext, Proceed
<1> QED
  BY <1>1, <1>2, PTL DEF GateSpec

\* dream-state.ts:24: whatever the lanes do to each other, the stamp in the file is
\* the time of a pass that completed.
THEOREM StampsAreOfPasses == GateSpec => []StampIsOfAPass
<1> DEFINE Inv == StampIsOfAPass /\ SeenStampsAreOfPasses
<1>1. GateInit => Inv
  BY DEF GateInit, StampIsOfAPass, SeenStampsAreOfPasses, ZeroState, State
<1>2. GateTypeOK /\ Inv /\ [GateNext]_gateVars => Inv'
  <2> SUFFICES ASSUME GateTypeOK, Inv, [GateNext]_gateVars PROVE Inv'
    OBVIOUS
  <2>1. CASE UNCHANGED <<file, seen, stamps>>
    BY <2>1 DEF StampIsOfAPass, SeenStampsAreOfPasses
  <2>2. ASSUME NEW l \in Lanes, BumpRead(l) PROVE Inv'
    BY <2>2 DEF BumpRead, StampIsOfAPass, SeenStampsAreOfPasses, GateTypeOK
  <2>3. ASSUME NEW l \in Lanes, BumpWrite(l) PROVE Inv'
    BY <2>3 DEF BumpWrite, StampIsOfAPass, SeenStampsAreOfPasses, State
  <2>4. ASSUME NEW l \in Lanes, Idle(l) PROVE Inv'
    BY <2>4 DEF Idle, StampIsOfAPass, SeenStampsAreOfPasses, GateTypeOK
  <2>5. ASSUME NEW l \in Lanes, PassOk(l) PROVE Inv'
    BY <2>5 DEF PassOk, StampIsOfAPass, SeenStampsAreOfPasses, State
  <2> QED
    BY <2>1, <2>2, <2>3, <2>4, <2>5
       DEF GateNext, Proceed, HourPasses, Demand, StartPass, LockTimeout, PassFails, LaneDies, gateVars
<1> QED
  BY <1>1, <1>2, GateTypeCorrect, PTL DEF GateSpec

------------------------------------------------------------------------------
(***************************************************************************)
(* What the file says.                                                     *)
(***************************************************************************)

\* The gate was open for what a lane has read of the file when it asked, and it
\* does not close by time.
GatedWasDue == \A l \in Lanes : doing[l] = "gated" => Due(seen[l], now)

StampsArePast == \A t \in stamps : t <= now

ExactInv == CountIsExact /\ StampIsExact /\ GatedWasDue /\ StampsArePast

LEMMA LatestIsNew ==
  ASSUME NEW S \in SUBSET Nat, NEW t \in Nat, \A u \in S : u <= t
  PROVE  Latest(S \cup {t}) = t
<1>1. \E v \in S \cup {t} : \A u \in S \cup {t} : u <= v
  OBVIOUS
<1>2. \A v \in S \cup {t} : (\A u \in S \cup {t} : u <= v) => v = t
  OBVIOUS
<1> QED
  BY <1>1, <1>2 DEF Latest

\* An open gate stays open while time passes.
LEMMA DueIsStable ==
  ASSUME NEW s \in States, NEW t \in Nat, Due(s, t)
  PROVE  Due(s, t + 1)
BY ThresholdAssumption, BoundAssumption DEF Due, States, Times, Never

LEMMA ExactInit == GateInit => ExactInv
BY DEF GateInit, ExactInv, CountIsExact, StampIsExact, GatedWasDue, StampsArePast, Latest,
       ZeroState, State

LEMMA ExactStep ==
  ASSUME GateTypeOK, ExactInv, [GateNext]_gateVars
  PROVE  ExactInv'
<1> DEFINE Exact == CountIsExact /\ StampIsExact
<1>1. CASE HourPasses
  <2>1. Exact'
    BY <1>1 DEF HourPasses, ExactInv, CountIsExact, StampIsExact
  <2>2. GatedWasDue'
    <3> SUFFICES ASSUME NEW l \in Lanes, doing'[l] = "gated" PROVE Due(seen[l], now + 1)
      BY <1>1 DEF HourPasses, GatedWasDue
    <3>1. seen[l] \in States /\ now \in Nat /\ Due(seen[l], now)
      BY <1>1 DEF HourPasses, ExactInv, GatedWasDue, GateTypeOK
    <3> QED
      BY <3>1, DueIsStable
  <2>3. StampsArePast'
    BY <1>1, BoundAssumption DEF HourPasses, ExactInv, StampsArePast, GateTypeOK
  <2> QED
    BY <2>1, <2>2, <2>3 DEF ExactInv
<1>2. ASSUME NEW l \in Lanes, BumpRead(l) PROVE ExactInv'
  <2>1. \A m \in Lanes : doing'[m] = "gated" => doing[m] = "gated" /\ seen'[m] = seen[m]
    BY <1>2 DEF BumpRead, Goto, GateTypeOK
  <2> QED
    BY <1>2, <2>1 DEF BumpRead, ExactInv, CountIsExact, StampIsExact, GatedWasDue,
                      StampsArePast
<1>3. ASSUME NEW l \in Lanes, BumpWrite(l) PROVE ExactInv'
  <2>1. \A m \in Lanes : doing'[m] = "gated" => doing[m] = "gated"
    BY <1>3 DEF BumpWrite, Goto, GateTypeOK
  <2>2. ~lost' => ~lost /\ seen[l] = file
    BY <1>3 DEF BumpWrite
  <2>3. Exact'
    BY <1>3, <2>2 DEF BumpWrite, ExactInv, CountIsExact, StampIsExact, State
  <2> QED
    BY <1>3, <2>1, <2>3 DEF BumpWrite, ExactInv, GatedWasDue, StampsArePast
<1>4. ASSUME NEW l \in Lanes, Idle(l) PROVE ExactInv'
  <2>1. ASSUME NEW m \in Lanes, doing'[m] = "gated" PROVE Due(seen'[m], now)
    <3>1. CASE m = l
      BY <1>4, <3>1 DEF Idle, GateTypeOK
    <3>2. CASE m # l
      BY <1>4, <2>1, <3>2 DEF Idle, Goto, ExactInv, GatedWasDue, GateTypeOK
    <3> QED
      BY <3>1, <3>2
  <2> QED
    BY <1>4, <2>1 DEF Idle, ExactInv, CountIsExact, StampIsExact, GatedWasDue,
                      StampsArePast
<1>5. ASSUME NEW l \in Lanes,
             Demand(l) \/ StartPass(l) \/ LockTimeout(l) \/ PassFails(l) \/ LaneDies(l)
      PROVE  ExactInv'
  <2>1. \A m \in Lanes : doing'[m] = "gated" => doing[m] = "gated"
    BY <1>5 DEF Demand, StartPass, LockTimeout, PassFails, LaneDies, Goto, GateTypeOK
  <2>2. UNCHANGED <<file, seen, ended, stamps, lost, now>>
    BY <1>5 DEF Demand, StartPass, LockTimeout, PassFails, LaneDies
  <2> QED
    BY <2>1, <2>2 DEF ExactInv, CountIsExact, StampIsExact, GatedWasDue, StampsArePast
<1>6. ASSUME NEW l \in Lanes, PassOk(l) PROVE ExactInv'
  <2>1. \A m \in Lanes : doing'[m] = "gated" => doing[m] = "gated"
    BY <1>6 DEF PassOk, Goto, GateTypeOK
  <2>2. stamps \in SUBSET Nat /\ now \in Nat /\ \A u \in stamps : u <= now
    BY BoundAssumption DEF GateTypeOK, ExactInv, StampsArePast
  <2>3. Latest(stamps \cup {now}) = now
    BY <2>2, LatestIsNew
  <2>4. Exact'
    BY <1>6, <2>3 DEF PassOk, CountIsExact, StampIsExact, State, Latest
  <2>5. StampsArePast'
    BY <1>6, <2>2 DEF PassOk, StampsArePast
  <2> QED
    BY <1>6, <2>1, <2>4, <2>5 DEF PassOk, ExactInv, GatedWasDue
<1>7. CASE UNCHANGED gateVars
  BY <1>7 DEF gateVars, ExactInv, CountIsExact, StampIsExact, GatedWasDue, StampsArePast
<1> QED
  BY <1>1, <1>2, <1>3, <1>4, <1>5, <1>6, <1>7 DEF GateNext, Proceed

\* dream-state.ts:23-26: for any number of lanes, the file holds the number of sessions
\* counted since the last completed pass and the time of that pass, unless a lane has
\* since then written over a state it had not read; even then the stamp is that of a pass
\* that completed.
THEOREM StatesAreExact == GateSpec => []StateIsExact
<1>1. GateTypeOK /\ ExactInv /\ [GateNext]_gateVars => ExactInv'
  BY ExactStep
<1>2. GateTypeOK /\ StampIsOfAPass /\ ExactInv => StateIsExact
  BY DEF ExactInv, StateIsExact
<1> QED
  BY <1>1, <1>2, ExactInit, GateTypeCorrect, StampsAreOfPasses, PTL DEF GateSpec

\* dream: a pass that the gate has let through begins behind an open gate, unless
\* another lane has written the file in between.
THEOREM PassesAreDue == GateSpec => DuePassOnly
<1>1. GateTypeOK /\ ExactInv /\ [GateNext]_gateVars => ExactInv'
  BY ExactStep
<1>2. ExactInv =>
        \A l \in Lanes :
          doing[l] = "gated" /\ doing'[l] = "dreaming" /\ seen[l] = file => Due(file, now)
  BY DEF ExactInv, GatedWasDue
<1> QED
  BY <1>1, <1>2, ExactInit, GateTypeCorrect, PTL DEF GateSpec, DuePassOnly

(***************************************************************************)
(* The order of a plan.                                                    *)
(***************************************************************************)

\* A total order, as the set of its pairs.
TotalOn(R, S) ==
  /\ \A x \in S : <<x, x>> \notin R
  /\ \A x, y, z \in S : <<x, y>> \in R /\ <<y, z>> \in R => <<x, z>> \in R
  /\ \A x, y \in S : x = y \/ <<x, y>> \in R \/ <<y, x>> \in R

\* A finite set can be put in order: an element's place is the number of those that come
\* no later.  The sequence has every element once.
LEMMA OrderExists ==
  ASSUME NEW S, IsFiniteSet(S), NEW R, TotalOn(R, S)
  PROVE  \E s \in [1 .. Cardinality(S) -> S] :
           \A i, j \in 1 .. Cardinality(S) : i < j => <<s[i], s[j]>> \in R
<1> DEFINE n == Cardinality(S)
           NoLater(e) == {f \in S : f = e \/ <<f, e>> \in R}
           r == [e \in S |-> Cardinality(NoLater(e))]
           s == [i \in 1 .. n |-> CHOOSE e \in S : r[e] = i]
<1>1. n \in Nat /\ IsFiniteSet(1 .. n) /\ Cardinality(1 .. n) = n
  BY FS_CardinalityType, FS_Interval
<1>2. ASSUME NEW e \in S
      PROVE  /\ IsFiniteSet(NoLater(e)) /\ Cardinality(NoLater(e)) \in Nat
             /\ r[e] = Cardinality(NoLater(e)) /\ r[e] \in 1 .. n
  <2>1. NoLater(e) \in SUBSET S /\ e \in NoLater(e)
    OBVIOUS
  <2> HIDE DEF NoLater
  <2>2. IsFiniteSet(NoLater(e)) /\ Cardinality(NoLater(e)) <= Cardinality(S)
    BY <2>1, FS_Subset
  <2>3. Cardinality(NoLater(e)) \in Nat
    BY <2>2, FS_CardinalityType
  <2>4. Cardinality(NoLater(e)) # 0
    BY <2>1, <2>2, FS_EmptySet
  <2>5. r[e] = Cardinality(NoLater(e))
    OBVIOUS
  <2> QED
    BY <1>1, <2>2, <2>3, <2>4, <2>5
<1>3. ASSUME NEW e \in S, NEW f \in S, <<e, f>> \in R PROVE r[e] < r[f]
  <2>1. NoLater(e) \in SUBSET NoLater(f) /\ f \notin NoLater(e) /\ f \in NoLater(f)
    BY <1>3 DEF TotalOn
  <2>2. /\ IsFiniteSet(NoLater(f))
        /\ r[f] = Cardinality(NoLater(f)) /\ r[e] = Cardinality(NoLater(e))
        /\ r[e] \in Nat /\ r[f] \in Nat
    BY <1>2, <1>1
  <2> HIDE DEF NoLater, r
  <2>3. Cardinality(NoLater(e)) <= Cardinality(NoLater(f))
        /\ (Cardinality(NoLater(e)) = Cardinality(NoLater(f)) => NoLater(e) = NoLater(f))
    BY <2>1, <2>2, FS_Subset
  <2> QED
    BY <2>1, <2>2, <2>3
<1>4. r \in [S -> 1 .. n]
  BY <1>2
<1> HIDE DEF NoLater, r
<1>5. ASSUME NEW e \in S, NEW f \in S, r[e] = r[f] PROVE e = f
  <2>1. r[e] \in Nat /\ r[f] \in Nat
    BY <1>1, <1>2
  <2>2. ~(<<e, f>> \in R) /\ ~(<<f, e>> \in R)
    BY <1>3, <1>5, <2>1
  <2> QED
    BY <2>2 DEF TotalOn
<1>6. r \in Injection(S, 1 .. n)
  BY <1>4, <1>5 DEF Injection, IsInjective
<1>7. r \in Surjection(S, 1 .. n)
  BY <1>1, <1>6, FS_Injection
<1>8. ASSUME NEW i \in 1 .. n PROVE s[i] \in S /\ r[s[i]] = i
  <2>1. \E e \in S : r[e] = i
    BY <1>7 DEF Surjection
  <2> QED
    BY <2>1
<1>9. s \in [1 .. n -> S]
  BY <1>8
<1> HIDE DEF s
<1>10. ASSUME NEW i \in 1 .. n, NEW j \in 1 .. n, i < j PROVE <<s[i], s[j]>> \in R
  <2>1. s[i] \in S /\ s[j] \in S /\ r[s[i]] = i /\ r[s[j]] = j
    BY <1>8
  <2>2. s[i] # s[j]
    BY <1>1, <1>10, <2>1
  <2>3. ~(<<s[j], s[i]>> \in R)
    BY <1>1, <1>3, <1>10, <2>1
  <2> QED
    BY <2>1, <2>2, <2>3 DEF TotalOn
<1> QED
  BY <1>9, <1>10

\* A sequence in order has every element of the set, and each once.
LEMMA OrderedIsComplete ==
  ASSUME NEW S, IsFiniteSet(S), NEW R, TotalOn(R, S),
         NEW s \in [1 .. Cardinality(S) -> S],
         \A i, j \in 1 .. Cardinality(S) : i < j => <<s[i], s[j]>> \in R
  PROVE  /\ Cardinality(S) \in Nat
         /\ \A x \in S : \E i \in 1 .. Cardinality(S) : s[i] = x
         /\ \A i, j \in 1 .. Cardinality(S) : i < j => s[i] # s[j]
<1> DEFINE n == Cardinality(S)
<1>1. n \in Nat /\ IsFiniteSet(1 .. n) /\ Cardinality(1 .. n) = n
  BY FS_CardinalityType, FS_Interval
<1>2. ASSUME NEW i \in 1 .. n, NEW j \in 1 .. n, i < j PROVE s[i] # s[j]
  BY <1>2 DEF TotalOn
<1>3. ASSUME NEW i \in 1 .. n, NEW j \in 1 .. n, s[i] = s[j] PROVE i = j
  <2>1. ~(i < j) /\ ~(j < i)
    BY <1>2, <1>3
  <2> QED
    BY <1>1, <2>1
<1> HIDE DEF n
<1>4. s \in Injection(1 .. n, S)
  BY <1>3 DEF Injection, IsInjective, n
<1>5. s \in Surjection(1 .. n, S)
  BY <1>1, <1>4, FS_Injection DEF n
<1> QED
  BY <1>1, <1>2, <1>5 DEF Surjection, n

\* The set of what a store may be.
StoreSet == [Paths -> Docs \cup {NoFile}]

\* The order of paths is total.
LEMMA BeforeIsTotal ==
  ASSUME NEW S \in SUBSET Paths
  PROVE  TotalOn({x \in S \X S : Before(x[1], x[2])}, S)
<1>1. \A p \in S : p.dir \in Nat /\ p.name \in Nat /\ p = [dir |-> p.dir, name |-> p.name]
  <2> SUFFICES ASSUME NEW p \in S
               PROVE  p.dir \in Nat /\ p.name \in Nat /\ p = [dir |-> p.dir, name |-> p.name]
    OBVIOUS
  <2>1. p \in [dir : Types \cup {RootDir}, name : Names]
    BY DEF Paths
  <2>2. Types \cup {RootDir} \subseteq Nat /\ Names \subseteq Nat
    BY StoreAssumption DEF RootDir
  <2> QED
    BY <2>1, <2>2
<1>2. \A p \in S : ~Before(p, p)
  BY <1>1 DEF Before
<1>3. ASSUME NEW p \in S, NEW q \in S, NEW t \in S, Before(p, q), Before(q, t)
      PROVE  Before(p, t)
  BY <1>1, <1>3 DEF Before
<1>4. ASSUME NEW p \in S, NEW q \in S PROVE p = q \/ Before(p, q) \/ Before(q, p)
  BY <1>1 DEF Before
<1> QED
  BY <1>2, <1>3, <1>4 DEF TotalOn

\* Misplaced files in order.
LEMMA BeforeOrder ==
  ASSUME NEW S \in SUBSET Paths, IsFiniteSet(S)
  PROVE  /\ Cardinality(S) \in Nat
         /\ InOrder(S, Before) \in [1 .. Cardinality(S) -> S]
         /\ \A i, j \in 1 .. Cardinality(S) :
              i < j => Before(InOrder(S, Before)[i], InOrder(S, Before)[j])
         /\ \A x \in S : \E i \in 1 .. Cardinality(S) : InOrder(S, Before)[i] = x
         /\ \A i, j \in 1 .. Cardinality(S) :
              i < j => InOrder(S, Before)[i] # InOrder(S, Before)[j]
<1> DEFINE R == {x \in S \X S : Before(x[1], x[2])}
           s == InOrder(S, Before)
<1>1. TotalOn(R, S)
  BY BeforeIsTotal
<1> HIDE DEF R
<1>2. \E t \in [1 .. Cardinality(S) -> S] :
         \A i, j \in 1 .. Cardinality(S) : i < j => <<t[i], t[j]>> \in R
  BY <1>1, OrderExists
<1>3. \E t \in [1 .. Cardinality(S) -> S] :
         \A i, j \in 1 .. Cardinality(S) : i < j => Before(t[i], t[j])
  BY <1>2 DEF R
<1>4. /\ s \in [1 .. Cardinality(S) -> S]
      /\ \A i, j \in 1 .. Cardinality(S) : i < j => Before(s[i], s[j])
  BY <1>3 DEF InOrder
<1>5. \A i, j \in 1 .. Cardinality(S) : i < j => <<s[i], s[j]>> \in R
  BY <1>4 DEF R
<1> HIDE DEF s
<1>6. /\ Cardinality(S) \in Nat
      /\ \A x \in S : \E i \in 1 .. Cardinality(S) : s[i] = x
      /\ \A i, j \in 1 .. Cardinality(S) : i < j => s[i] # s[j]
  BY <1>1, <1>4, <1>5, OrderedIsComplete
<1> QED
  BY <1>4, <1>6 DEF s

(***************************************************************************)
(* The plan for a store.                                                   *)
(***************************************************************************)

\* What a plan may ask for.
OpSet == [kind : {"relocate", "delete-duplicate"}, path : Paths,
          toType : Types \cup {NoType}]

LEMMA PartsOfStore ==
  ASSUME NEW f \in StoreSet, IsFiniteSet(Stored(f))
  PROVE  /\ Stored(f) \in SUBSET Paths
         /\ Misplaced(f) \in SUBSET Paths /\ IsFiniteSet(Misplaced(f))
         /\ Redundant(f) \in SUBSET Paths /\ IsFiniteSet(Redundant(f))
         /\ \A p : Copies(f, p) \in SUBSET Paths /\ IsFiniteSet(Copies(f, p))
<1>1. Stored(f) \in SUBSET Paths
  BY DEF Stored
<1>2. Misplaced(f) \in SUBSET Stored(f) /\ Redundant(f) \in SUBSET Stored(f)
        /\ \A p : Copies(f, p) \in SUBSET Stored(f)
  BY DEF Misplaced, Redundant, Copies
<1> QED
  BY <1>1, <1>2, FS_Subset

\* A group of copies has a first one.
LEMMA FirstCopyIsFirst ==
  ASSUME NEW f \in StoreSet, IsFiniteSet(Stored(f)), NEW p \in Stored(f)
  PROVE  /\ FirstCopy(f, p) \in Copies(f, p)
         /\ FirstCopy(f, p) \in Paths
         /\ \A q \in Copies(f, p) : ~Before(q, FirstCopy(f, p))
<1> DEFINE S == Copies(f, p)
<1>1. S \in SUBSET Paths /\ IsFiniteSet(S) /\ p \in S
  BY PartsOfStore DEF Copies
<1> HIDE DEF S
<1>2. PICK s : /\ s \in [1 .. Cardinality(S) -> S] /\ Cardinality(S) \in Nat
               /\ \A i, j \in 1 .. Cardinality(S) : i < j => Before(s[i], s[j])
               /\ \A x \in S : \E i \in 1 .. Cardinality(S) : s[i] = x
  BY <1>1, BeforeOrder
<1>3. 1 \in 1 .. Cardinality(S) /\ s[1] \in S
  BY <1>1, <1>2
<1>4. TotalOn({x \in S \X S : Before(x[1], x[2])}, S)
  BY <1>1, BeforeIsTotal
<1>5. ASSUME NEW q \in S PROVE ~Before(q, s[1])
  <2>1. q = s[1] \/ Before(s[1], q)
    <3>1. PICK i \in 1 .. Cardinality(S) : s[i] = q
      BY <1>2
    <3>2. i = 1 \/ 1 < i
      BY <1>2
    <3> QED
      BY <1>2, <1>3, <3>1, <3>2
  <2> QED
    BY <1>3, <1>4, <2>1 DEF TotalOn
<1>6. \E q \in S : \A r \in S : ~Before(r, q)
  BY <1>3, <1>5
<1>7. FirstCopy(f, p) \in S /\ \A q \in S : ~Before(q, FirstCopy(f, p))
  BY <1>6 DEF FirstCopy, S
<1> QED
  BY <1>1, <1>7 DEF S

\* The first copy stays.
LEMMA FirstCopyStays ==
  ASSUME NEW f \in StoreSet, IsFiniteSet(Stored(f)), NEW p \in Stored(f)
  PROVE  FirstCopy(f, p) \notin Redundant(f)
<1>1. f[FirstCopy(f, p)].body = f[p].body
  BY FirstCopyIsFirst DEF Copies
<1>2. Copies(f, FirstCopy(f, p)) = Copies(f, p)
  BY <1>1 DEF Copies
<1> QED
  BY <1>2, FirstCopyIsFirst DEF Redundant

\* The order of deletions is total.
LEMMA PlannedOrder ==
  ASSUME NEW f \in StoreSet, IsFiniteSet(Stored(f))
  PROVE  LET S == Redundant(f)
             s == InOrder(S, LAMBDA p, q : PlannedBefore(f, p, q))
         IN  /\ Cardinality(S) \in Nat
             /\ s \in [1 .. Cardinality(S) -> S]
             /\ \A x \in S : \E i \in 1 .. Cardinality(S) : s[i] = x
             /\ \A i, j \in 1 .. Cardinality(S) : i < j => s[i] # s[j]
<1> DEFINE S == Redundant(f)
           R == {x \in S \X S : PlannedBefore(f, x[1], x[2])}
           s == InOrder(S, LAMBDA p, q : PlannedBefore(f, p, q))
<1>1. S \in SUBSET Paths /\ IsFiniteSet(S)
  BY PartsOfStore
<1>2. \A p \in S : FirstCopy(f, p) \in Paths
  BY FirstCopyIsFirst DEF Redundant
<1>3. \A p \in Paths : p.dir \in Nat /\ p.name \in Nat /\ p = [dir |-> p.dir, name |-> p.name]
  <2> SUFFICES ASSUME NEW p \in Paths
               PROVE  p.dir \in Nat /\ p.name \in Nat /\ p = [dir |-> p.dir, name |-> p.name]
    OBVIOUS
  <2>1. p \in [dir : Types \cup {RootDir}, name : Names]
    BY DEF Paths
  <2>2. Types \cup {RootDir} \subseteq Nat /\ Names \subseteq Nat
    BY StoreAssumption DEF RootDir
  <2> QED
    BY <2>1, <2>2
<1> HIDE DEF S
<1>4. \A p \in Paths : ~Before(p, p)
  BY <1>3 DEF Before
<1>5. \A p, q, t \in Paths : Before(p, q) /\ Before(q, t) => Before(p, t)
  BY <1>3 DEF Before
<1>6. \A p, q \in Paths : p = q \/ Before(p, q) \/ Before(q, p)
  BY <1>3 DEF Before
<1>7. \A p \in S : ~PlannedBefore(f, p, p)
  BY <1>1, <1>2, <1>4 DEF PlannedBefore
<1>8. \A p, q, t \in S :
        PlannedBefore(f, p, q) /\ PlannedBefore(f, q, t) => PlannedBefore(f, p, t)
  BY <1>1, <1>2, <1>5 DEF PlannedBefore
<1>9. \A p, q \in S : p = q \/ PlannedBefore(f, p, q) \/ PlannedBefore(f, q, p)
  BY <1>1, <1>2, <1>6 DEF PlannedBefore
<1>10. TotalOn(R, S)
  BY <1>7, <1>8, <1>9 DEF TotalOn
<1> HIDE DEF R
<1>11. \E t \in [1 .. Cardinality(S) -> S] :
         \A i, j \in 1 .. Cardinality(S) : i < j => <<t[i], t[j]>> \in R
  BY <1>1, <1>10, OrderExists
<1>12. \E t \in [1 .. Cardinality(S) -> S] :
         \A i, j \in 1 .. Cardinality(S) : i < j => PlannedBefore(f, t[i], t[j])
  BY <1>11 DEF R
<1>13. /\ s \in [1 .. Cardinality(S) -> S]
       /\ \A i, j \in 1 .. Cardinality(S) : i < j => PlannedBefore(f, s[i], s[j])
  BY <1>12, Zenon DEF InOrder
<1>14. \A i, j \in 1 .. Cardinality(S) : i < j => <<s[i], s[j]>> \in R
  BY <1>13 DEF R
<1> HIDE DEF s
<1>15. /\ Cardinality(S) \in Nat
       /\ \A x \in S : \E i \in 1 .. Cardinality(S) : s[i] = x
       /\ \A i, j \in 1 .. Cardinality(S) : i < j => s[i] # s[j]
  BY <1>1, <1>10, <1>13, <1>14, OrderedIsComplete
<1> QED
  BY <1>13, <1>15, Zenon DEF s, S

\* The relocations of a plan.
LEMMA RelocationsFacts ==
  ASSUME NEW f \in StoreSet, IsFiniteSet(Stored(f))
  PROVE  /\ RelocationsOf(f) \in Seq(OpSet)
         /\ \A i \in 1 .. Len(RelocationsOf(f)) :
              \E p \in Misplaced(f) : RelocationsOf(f)[i] = Relocate(p, f[p].type)
         /\ \A p \in Misplaced(f) :
              \E i \in 1 .. Len(RelocationsOf(f)) : RelocationsOf(f)[i] = Relocate(p, f[p].type)
         /\ \A i, j \in 1 .. Len(RelocationsOf(f)) :
              i < j => RelocationsOf(f)[i].path # RelocationsOf(f)[j].path
<1> DEFINE S == Misplaced(f)
           s == InOrder(S, Before)
           n == Cardinality(S)
<1>1. S \in SUBSET Paths /\ IsFiniteSet(S)
  BY PartsOfStore
<1>2. /\ n \in Nat /\ s \in [1 .. n -> S]
      /\ \A x \in S : \E i \in 1 .. n : s[i] = x
      /\ \A i, j \in 1 .. n : i < j => s[i] # s[j]
  BY <1>1, BeforeOrder
<1>3. ASSUME NEW p \in S PROVE f[p].type \in Types \cup {NoType}
  BY <1>3 DEF Misplaced, Stored, Exists, StoreSet, Docs
<1>4. RelocationsOf(f) = [i \in 1 .. n |-> Relocate(s[i], f[s[i]].type)]
  BY <1>2 DEF RelocationsOf
<1> HIDE DEF n, s, S
<1>5. ASSUME NEW i \in 1 .. n PROVE Relocate(s[i], f[s[i]].type) \in OpSet
  BY <1>1, <1>2, <1>3 DEF Relocate, OpSet
<1>6. RelocationsOf(f) \in [1 .. n -> OpSet]
  BY <1>4, <1>5
<1>7. Len(RelocationsOf(f)) = n /\ RelocationsOf(f) \in Seq(OpSet)
  BY <1>2, <1>6
<1>8. ASSUME NEW i \in 1 .. n
      PROVE  s[i] \in S /\ RelocationsOf(f)[i] = Relocate(s[i], f[s[i]].type)
               /\ RelocationsOf(f)[i].path = s[i]
  BY <1>2, <1>4 DEF Relocate
<1> QED
  BY <1>2, <1>7, <1>8 DEF S

\* The deletions of a plan.
LEMMA DeletionsFacts ==
  ASSUME NEW f \in StoreSet, IsFiniteSet(Stored(f))
  PROVE  /\ DeletionsOf(f) \in Seq(OpSet)
         /\ \A i \in 1 .. Len(DeletionsOf(f)) :
              \E p \in Redundant(f) : DeletionsOf(f)[i] = DeleteDuplicate(p)
         /\ \A p \in Redundant(f) :
              \E i \in 1 .. Len(DeletionsOf(f)) : DeletionsOf(f)[i] = DeleteDuplicate(p)
         /\ \A i, j \in 1 .. Len(DeletionsOf(f)) :
              i < j => DeletionsOf(f)[i].path # DeletionsOf(f)[j].path
<1> DEFINE S == Redundant(f)
           s == InOrder(S, LAMBDA p, q : PlannedBefore(f, p, q))
           n == Cardinality(S)
<1>1. S \in SUBSET Paths
  BY PartsOfStore
<1>2. /\ n \in Nat /\ s \in [1 .. n -> S]
      /\ \A x \in S : \E i \in 1 .. n : s[i] = x
      /\ \A i, j \in 1 .. n : i < j => s[i] # s[j]
  BY PlannedOrder, Zenon
<1>4. DeletionsOf(f) = [i \in 1 .. n |-> DeleteDuplicate(s[i])]
  BY <1>2, Zenon DEF DeletionsOf
<1> HIDE DEF n, s, S
<1>5. ASSUME NEW i \in 1 .. n PROVE DeleteDuplicate(s[i]) \in OpSet
  BY <1>1, <1>2 DEF DeleteDuplicate, OpSet
<1>6. DeletionsOf(f) \in [1 .. n -> OpSet]
  BY <1>4, <1>5
<1>7. Len(DeletionsOf(f)) = n /\ DeletionsOf(f) \in Seq(OpSet)
  BY <1>2, <1>6
<1>8. ASSUME NEW i \in 1 .. n
      PROVE  s[i] \in S /\ DeletionsOf(f)[i] = DeleteDuplicate(s[i])
               /\ DeletionsOf(f)[i].path = s[i]
  BY <1>2, <1>4 DEF DeleteDuplicate
<1> QED
  BY <1>2, <1>7, <1>8 DEF S

\* A plan has the relocation of each misplaced file once, then the deletion of each
\* redundant file once, and nothing else.
PlanOf(f, plan) ==
  /\ plan \in Seq(OpSet)
  /\ \A i \in DOMAIN plan :
       \/ \E p \in Misplaced(f) : plan[i] = Relocate(p, f[p].type)
       \/ \E p \in Redundant(f) : plan[i] = DeleteDuplicate(p)
  /\ \A p \in Misplaced(f) : \E i \in DOMAIN plan : plan[i] = Relocate(p, f[p].type)
  /\ \A p \in Redundant(f) : \E i \in DOMAIN plan : plan[i] = DeleteDuplicate(p)
  /\ \A i, j \in DOMAIN plan : i < j =>
       /\ plan[j].kind = "relocate" => plan[i].kind = "relocate"
       /\ plan[i].kind = plan[j].kind => plan[i].path # plan[j].path

LEMMA PlanFacts ==
  ASSUME NEW f \in StoreSet, IsFiniteSet(Stored(f))
  PROVE  PlanOf(f, PlanDeterministic(f))
<1> DEFINE a == RelocationsOf(f)
           b == DeletionsOf(f)
           c == PlanDeterministic(f)
<1>1. /\ a \in Seq(OpSet)
      /\ \A i \in 1 .. Len(a) : \E p \in Misplaced(f) : a[i] = Relocate(p, f[p].type)
      /\ \A p \in Misplaced(f) : \E i \in 1 .. Len(a) : a[i] = Relocate(p, f[p].type)
      /\ \A i, j \in 1 .. Len(a) : i < j => a[i].path # a[j].path
  BY RelocationsFacts
<1>2. /\ b \in Seq(OpSet)
      /\ \A i \in 1 .. Len(b) : \E p \in Redundant(f) : b[i] = DeleteDuplicate(p)
      /\ \A p \in Redundant(f) : \E i \in 1 .. Len(b) : b[i] = DeleteDuplicate(p)
      /\ \A i, j \in 1 .. Len(b) : i < j => b[i].path # b[j].path
  BY DeletionsFacts
<1>3. c = a \o b
  BY DEF PlanDeterministic
<1> HIDE DEF a, b, c
<1>4. c \in Seq(OpSet) /\ Len(c) = Len(a) + Len(b) /\ DOMAIN c = 1 .. Len(a) + Len(b)
        /\ Len(a) \in Nat /\ Len(b) \in Nat
  BY <1>1, <1>2, <1>3
<1>5. ASSUME NEW i \in 1 .. Len(a) PROVE i \in DOMAIN c /\ c[i] = a[i]
  BY <1>1, <1>2, <1>3, <1>4
<1>6. ASSUME NEW i \in 1 .. Len(b) PROVE i + Len(a) \in DOMAIN c /\ c[i + Len(a)] = b[i]
  BY <1>1, <1>2, <1>3, <1>4
<1>7. ASSUME NEW i \in DOMAIN c
      PROVE  i \in 1 .. Len(a) \/ (i > Len(a) /\ i - Len(a) \in 1 .. Len(b) /\ c[i] = b[i - Len(a)])
  BY <1>1, <1>2, <1>3, <1>4
<1>8. ASSUME NEW i \in 1 .. Len(a) PROVE a[i].kind = "relocate"
  <2>1. PICK p \in Misplaced(f) : a[i] = Relocate(p, f[p].type)
    BY <1>1
  <2> QED
    BY <2>1 DEF Relocate
<1>9. ASSUME NEW i \in 1 .. Len(b) PROVE b[i].kind = "delete-duplicate"
  <2>1. PICK p \in Redundant(f) : b[i] = DeleteDuplicate(p)
    BY <1>2
  <2> QED
    BY <2>1 DEF DeleteDuplicate
<1>10. ASSUME NEW i \in DOMAIN c
       PROVE  \/ \E p \in Misplaced(f) : c[i] = Relocate(p, f[p].type)
              \/ \E p \in Redundant(f) : c[i] = DeleteDuplicate(p)
  <2>1. CASE i \in 1 .. Len(a)
    <3>1. PICK p \in Misplaced(f) : a[i] = Relocate(p, f[p].type)
      BY <1>1, <2>1
    <3>2. c[i] = a[i]
      BY <1>5, <2>1
    <3> QED
      BY <3>1, <3>2
  <2>2. CASE i \notin 1 .. Len(a)
    <3>1. i - Len(a) \in 1 .. Len(b) /\ c[i] = b[i - Len(a)]
      BY <1>7, <2>2
    <3>2. PICK p \in Redundant(f) : b[i - Len(a)] = DeleteDuplicate(p)
      BY <1>2, <3>1
    <3> QED
      BY <3>1, <3>2
  <2> QED
    BY <2>1, <2>2
<1>11. ASSUME NEW p \in Misplaced(f)
       PROVE  \E i \in DOMAIN c : c[i] = Relocate(p, f[p].type)
  BY <1>1, <1>5
<1>12. ASSUME NEW p \in Redundant(f)
       PROVE  \E i \in DOMAIN c : c[i] = DeleteDuplicate(p)
  BY <1>2, <1>6
<1>13. ASSUME NEW i \in DOMAIN c, NEW j \in DOMAIN c, i < j
       PROVE  /\ c[j].kind = "relocate" => c[i].kind = "relocate"
              /\ c[i].kind = c[j].kind => c[i].path # c[j].path
  <2>1. CASE i \in 1 .. Len(a) /\ j \in 1 .. Len(a)
    BY <1>1, <1>5, <1>8, <1>13, <2>1
  <2>2. CASE i \in 1 .. Len(a) /\ j \notin 1 .. Len(a)
    BY <1>5, <1>7, <1>8, <1>9, <2>2
  <2>3. CASE i \notin 1 .. Len(a) /\ j \notin 1 .. Len(a)
    <3>1. /\ i - Len(a) \in 1 .. Len(b) /\ c[i] = b[i - Len(a)]
          /\ j - Len(a) \in 1 .. Len(b) /\ c[j] = b[j - Len(a)]
          /\ i - Len(a) < j - Len(a)
      BY <1>4, <1>7, <1>13, <2>3
    <3> QED
      BY <1>2, <1>9, <3>1
  <2>4. CASE i \notin 1 .. Len(a) /\ j \in 1 .. Len(a)
    BY <1>4, <1>13, <2>4
  <2> QED
    BY <2>1, <2>2, <2>3, <2>4
<1> QED
  BY <1>4, <1>10, <1>11, <1>12, <1>13 DEF PlanOf, c

(***************************************************************************)
(* The pass.                                                               *)
(***************************************************************************)

\* Types, and finitely many files.
PassTypes ==
  /\ files \in StoreSet /\ IsFiniteSet(Stored(files))
  /\ phase \in {"idle", "ops", "moving", "root"}
  /\ ops \in Seq(OpSet)
  /\ moving \in Docs \cup {NoFile}
  /\ apart \in BOOLEAN
  /\ passes \in 0 .. MaxPasses /\ (phase # "idle" => passes < MaxPasses)
  /\ crashes \in 0 .. MaxCrashes

\* What is left of a plan: relocations of files that are there, each once, then deletions,
\* each once.  The first may have been taken out.
PlanInv ==
  /\ phase \notin {"ops", "moving"} => ops = <<>>
  /\ phase = "moving" <=> moving # NoFile
  /\ phase = "moving" =>
       ops # <<>> /\ ops[1].kind = "relocate" /\ files[ops[1].path] = NoFile
  /\ \A i \in DOMAIN ops : ops[i].kind = "relocate" =>
       /\ ops[i].toType \in Types
       /\ (phase = "moving" => i > 1) => files[ops[i].path].type # NoType
  /\ \A i, j \in DOMAIN ops : i < j =>
       /\ ops[j].kind = "relocate" => ops[i].kind = "relocate"
       /\ ops[i].kind = ops[j].kind => ops[i].path # ops[j].path

\* A relocation is still to come for each misplaced file; after a completed pass none is
\* misplaced or in the root, so that a second one only deletes copies, all of them.
FitInv ==
  /\ phase \in {"ops", "moving"} =>
       \A p \in Misplaced(files) :
         \E i \in DOMAIN ops : ops[i].kind = "relocate" /\ ops[i].path = p
  /\ phase = "root" => Misplaced(files) = {}
  /\ passes >= 1 =>
       /\ Misplaced(files) = {} /\ Stray = {}
       /\ \A i \in DOMAIN ops : ops[i].kind = "delete-duplicate"
       /\ phase = "ops" => \A p \in Redundant(files) : \E i \in DOMAIN ops : ops[i].path = p
       /\ phase = "root" => Redundant(files) = {}
  /\ passes >= 2 => Redundant(files) = {}

\* In a store whose files are apart nothing lands on a file, and another copy of what is
\* to be deleted stays where it is.
ApartInv ==
  apart /\ phase # "idle" =>
    /\ \A p, q \in Stored(files) : p.name = q.name => p = q
    /\ phase = "moving" => \A p \in Stored(files) : p.name # ops[1].path.name
    /\ \A i, j \in DOMAIN ops : i # j => ops[i].path # ops[j].path
    /\ \A i \in DOMAIN ops : ops[i].kind = "delete-duplicate" =>
         /\ ops[i].path \in Stored(files)
         /\ \E c \in Stored(files) :
              /\ files[c].body = files[ops[i].path].body
              /\ \A j \in DOMAIN ops : ops[j].path # c

PassInv == PassTypes /\ PlanInv /\ FitInv /\ ApartInv

\* An operation has a path and one of two kinds.
LEMMA OpIsTyped ==
  ASSUME NEW s \in Seq(OpSet), NEW i \in DOMAIN s
  PROVE  /\ s[i] \in OpSet /\ s[i].path \in Paths
         /\ s[i].kind = "relocate" \/ s[i].kind = "delete-duplicate"
<1>1. s[i] \in OpSet
  OBVIOUS
<1> QED
  BY <1>1 DEF OpSet

\* What is left of a plan after its first operation.
LEMMA RestOfPlan ==
  ASSUME NEW s \in Seq(OpSet), s # <<>>
  PROVE  /\ Tail(s) \in Seq(OpSet) /\ Head(s) = s[1]
         /\ 1 \in DOMAIN s /\ s[1] \in OpSet
         /\ \A i \in DOMAIN s : i \in Nat /\ i >= 1
         /\ \A i \in DOMAIN Tail(s) :
              i \in Nat /\ i >= 1 /\ i + 1 \in DOMAIN s /\ Tail(s)[i] = s[i + 1]
         /\ \A i \in DOMAIN s : i # 1 => i - 1 \in DOMAIN Tail(s) /\ Tail(s)[i - 1] = s[i]
<1>1. Len(s) \in Nat /\ Len(s) >= 1 /\ DOMAIN s = 1 .. Len(s)
  OBVIOUS
<1>2. Tail(s) \in Seq(OpSet) /\ Len(Tail(s)) = Len(s) - 1
        /\ DOMAIN Tail(s) = 1 .. Len(s) - 1
  BY <1>1
<1>3. \A i \in 1 .. Len(s) - 1 : Tail(s)[i] = s[i + 1]
  BY <1>1
<1>4. Head(s) = s[1] /\ s[1] \in OpSet
  BY <1>1
<1>5. ASSUME NEW i \in DOMAIN s, i # 1
      PROVE  i - 1 \in DOMAIN Tail(s) /\ Tail(s)[i - 1] = s[i]
  <2>1. i - 1 \in 1 .. Len(s) - 1 /\ (i - 1) + 1 = i
    BY <1>1, <1>5
  <2> QED
    BY <1>2, <1>3, <2>1
<1> QED
  BY <1>1, <1>2, <1>3, <1>4, <1>5

\* A file that is removed.
LEMMA DeleteFacts ==
  ASSUME NEW f \in StoreSet, IsFiniteSet(Stored(f)), NEW p \in Paths, NEW g, g = Delete(f, p)
  PROVE  /\ g \in StoreSet /\ IsFiniteSet(Stored(g))
         /\ Stored(g) = Stored(f) \ {p}
         /\ g[p] = NoFile
         /\ \A q \in Paths : q # p => g[q] = f[q]
         /\ Misplaced(g) = Misplaced(f) \ {p}
         /\ Redundant(g) \subseteq Redundant(f) \ {p}
<1>1. /\ g \in StoreSet /\ g[p] = NoFile
      /\ \A q \in Paths : q # p => g[q] = f[q]
  BY DEF StoreSet, Delete
<1>2. Stored(g) = Stored(f) \ {p}
  BY <1>1 DEF Stored, Exists
<1>3. IsFiniteSet(Stored(g))
  BY <1>2, FS_Subset
<1>4. Stored(f) \subseteq Paths
  BY DEF Stored
<1>5. Misplaced(g) = Misplaced(f) \ {p}
  BY <1>1, <1>2, <1>4 DEF Misplaced
<1>6. ASSUME NEW q \in Stored(g) PROVE Copies(g, q) \subseteq Copies(f, q)
  BY <1>1, <1>2, <1>4 DEF Copies
<1>7. Redundant(g) \subseteq Redundant(f) \ {p}
  BY <1>2, <1>6 DEF Redundant
<1> QED
  BY <1>1, <1>2, <1>3, <1>5, <1>7

\* A file that is written to the directory of its type.
LEMMA WriteFacts ==
  ASSUME NEW f \in StoreSet, IsFiniteSet(Stored(f)), NEW p \in Paths, NEW doc \in Docs,
         doc.type = p.dir, doc.type \in Types, NEW g, g = Write(f, p, doc)
  PROVE  /\ g \in StoreSet /\ IsFiniteSet(Stored(g))
         /\ Stored(g) = Stored(f) \cup {p}
         /\ g[p] = doc
         /\ \A q \in Paths : q # p => g[q] = f[q]
         /\ Misplaced(g) = Misplaced(f) \ {p}
<1>1. /\ g \in StoreSet /\ g[p] = doc
      /\ \A q \in Paths : q # p => g[q] = f[q]
  BY DEF StoreSet, Write
<1>2. doc # NoFile
  BY StoreAssumption DEF NoFile, NoType
<1>3. Stored(g) = Stored(f) \cup {p}
  BY <1>1, <1>2 DEF Stored, Exists
<1>4. IsFiniteSet(Stored(g))
  BY <1>3, FS_AddElement
<1>5. Stored(f) \subseteq Paths
  BY DEF Stored
<1>6. Misplaced(g) = Misplaced(f) \ {p}
  BY <1>1, <1>3, <1>5 DEF Misplaced
<1> QED
  BY <1>1, <1>3, <1>4, <1>6

\* The lock is granted and the plan made.
LEMMA PlanStep ==
  ASSUME PassInv, Plan
  PROVE  PassInv'
<1>1. PlanOf(files, ops')
  BY PlanFacts DEF PassInv, PassTypes, Plan
<1>2. /\ phase = "idle" /\ phase' = "ops" /\ passes < MaxPasses
      /\ UNCHANGED <<files, moving, passes, crashes>> /\ apart' = Apart(files)
  BY DEF Plan
<1>3. files \in StoreSet /\ IsFiniteSet(Stored(files)) /\ ops' \in Seq(OpSet)
  BY <1>1 DEF PassInv, PassTypes, PlanOf
<1>4. /\ \A p \in Misplaced(files) : files[p].type \in Types /\ files[p].type # NoType
      /\ Misplaced(files) \in SUBSET Paths
      /\ Redundant(files) \subseteq Stored(files)
  BY <1>3, StoreAssumption
     DEF Misplaced, Stored, Exists, StoreSet, Docs, NoFile, NoType, Redundant
<1>5. ASSUME NEW i \in DOMAIN ops'
      PROVE  \/ /\ ops'[i].kind = "relocate" /\ ops'[i].path \in Misplaced(files)
                /\ ops'[i].toType = files[ops'[i].path].type
             \/ /\ ops'[i].kind = "delete-duplicate" /\ ops'[i].path \in Redundant(files)
  <2>1. CASE \E p \in Misplaced(files) : ops'[i] = Relocate(p, files[p].type)
    BY <2>1 DEF Relocate
  <2>2. CASE \E p \in Redundant(files) : ops'[i] = DeleteDuplicate(p)
    BY <2>2 DEF DeleteDuplicate
  <2> QED
    BY <1>1, <2>1, <2>2 DEF PlanOf
<1>6. PassTypes'
  <2>1. apart' \in BOOLEAN
    BY <1>2 DEF Apart
  <2> QED
    BY <1>2, <1>3, <2>1 DEF PassInv, PassTypes
<1>7. PlanInv'
  <2>1. ASSUME NEW i \in DOMAIN ops', ops'[i].kind = "relocate"
        PROVE  ops'[i].toType \in Types /\ files[ops'[i].path].type # NoType
    BY <1>4, <1>5, <2>1
  <2>2. \A i, j \in DOMAIN ops' : i < j =>
          /\ ops'[j].kind = "relocate" => ops'[i].kind = "relocate"
          /\ ops'[i].kind = ops'[j].kind => ops'[i].path # ops'[j].path
    BY <1>1 DEF PlanOf
  <2> QED
    BY <1>2, <2>1, <2>2 DEF PassInv, PlanInv
<1>8. FitInv'
  <2>1. ASSUME NEW p \in Misplaced(files)
        PROVE  \E i \in DOMAIN ops' : ops'[i].kind = "relocate" /\ ops'[i].path = p
    <3>1. PICK i \in DOMAIN ops' : ops'[i] = Relocate(p, files[p].type)
      BY <1>1 DEF PlanOf
    <3> QED
      BY <3>1 DEF Relocate
  <2>2. ASSUME NEW p \in Redundant(files)
        PROVE  \E i \in DOMAIN ops' : ops'[i].path = p
    <3>1. PICK i \in DOMAIN ops' : ops'[i] = DeleteDuplicate(p)
      BY <1>1 DEF PlanOf
    <3> QED
      BY <3>1 DEF DeleteDuplicate
  <2>3. passes >= 1 => Misplaced(files) = {} /\ Stray = {}
    BY DEF PassInv, FitInv
  <2>4. passes >= 1 => \A i \in DOMAIN ops' : ops'[i].kind = "delete-duplicate"
    BY <1>5, <2>3
  <2>5. passes >= 2 => Redundant(files) = {}
    BY DEF PassInv, FitInv
  <2>6. Stray' = Stray
    BY <1>2 DEF Stray
  <2> QED
    BY <1>2, <2>1, <2>2, <2>3, <2>4, <2>5, <2>6 DEF FitInv
<1>9. ApartInv'
  <2> SUFFICES ASSUME Apart(files) PROVE ApartInv'
    BY <1>2 DEF ApartInv
  <2>1. /\ \A p, q \in Stored(files) : p.name = q.name => p = q
        /\ \A p \in Redundant(files) : Misplaced(files) \cap Copies(files, p) = {}
    BY DEF Apart
  <2>2. \A p \in Redundant(files) : p \in Copies(files, p)
    BY <1>4 DEF Copies
  <2>3. ASSUME NEW i \in DOMAIN ops', NEW j \in DOMAIN ops', i # j
        PROVE  ops'[i].path # ops'[j].path
    <3>1. i < j \/ j < i
      BY <1>3, <2>3
    <3>2. CASE ops'[i].kind = ops'[j].kind
      BY <1>1, <3>1, <3>2 DEF PlanOf
    <3>3. CASE ops'[i].kind # ops'[j].kind
      BY <1>5, <2>1, <2>2, <3>3
    <3> QED
      BY <3>2, <3>3
  <2>4. ASSUME NEW i \in DOMAIN ops', ops'[i].kind = "delete-duplicate"
        PROVE  /\ ops'[i].path \in Stored(files)
               /\ \E c \in Stored(files) :
                    /\ files[c].body = files[ops'[i].path].body
                    /\ \A j \in DOMAIN ops' : ops'[j].path # c
    <3> DEFINE p == ops'[i].path
               c == FirstCopy(files, p)
    <3>1. p \in Redundant(files) /\ p \in Stored(files)
      BY <1>4, <1>5, <2>4
    <3>2. c \in Copies(files, p) /\ c \notin Redundant(files)
      BY <1>3, <3>1, FirstCopyIsFirst, FirstCopyStays
    <3>3. c \notin Misplaced(files)
      BY <2>1, <3>1, <3>2
    <3>4. c \in Stored(files) /\ files[c].body = files[p].body
      BY <3>2 DEF Copies
    <3>5. \A j \in DOMAIN ops' : ops'[j].path # c
      BY <1>5, <3>2, <3>3
    <3> QED
      BY <3>1, <3>4, <3>5
  <2> QED
    BY <1>2, <2>1, <2>3, <2>4 DEF ApartInv
<1> QED
  BY <1>6, <1>7, <1>8, <1>9 DEF PassInv

\* A copy is deleted.
LEMMA RemoveStep ==
  ASSUME PassInv, RemoveDuplicate
  PROVE  PassInv'
<1> DEFINE p == ops[1].path
<1>1. /\ phase = "ops" /\ ops # <<>> /\ ops[1].kind = "delete-duplicate"
      /\ files' = Delete(files, p) /\ ops' = Tail(ops)
      /\ UNCHANGED <<phase, moving, apart, passes, crashes>>
  BY RestOfPlan DEF RemoveDuplicate, NextOp, PassInv, PassTypes
<1>2. files \in StoreSet /\ IsFiniteSet(Stored(files)) /\ ops \in Seq(OpSet)
  BY DEF PassInv, PassTypes
<1>3. /\ ops' \in Seq(OpSet)
      /\ 1 \in DOMAIN ops /\ ops[1] \in OpSet
      /\ \A i \in DOMAIN ops : i \in Nat /\ i >= 1
      /\ \A i \in DOMAIN ops' :
           i \in Nat /\ i >= 1 /\ i + 1 \in DOMAIN ops /\ ops'[i] = ops[i + 1]
      /\ \A i \in DOMAIN ops : i # 1 => i - 1 \in DOMAIN ops' /\ ops'[i - 1] = ops[i]
  BY <1>1, <1>2, RestOfPlan
<1>4. p \in Paths
  BY <1>3 DEF OpSet
<1> HIDE DEF p
<1>5. /\ files' \in StoreSet /\ IsFiniteSet(Stored(files'))
      /\ Stored(files') = Stored(files) \ {p}
      /\ files'[p] = NoFile
      /\ \A q \in Paths : q # p => files'[q] = files[q]
      /\ Misplaced(files') = Misplaced(files) \ {p}
      /\ Redundant(files') \subseteq Redundant(files) \ {p}
  BY <1>1, <1>2, <1>4, DeleteFacts
<1>6. PassTypes'
  BY <1>1, <1>3, <1>5 DEF PassInv, PassTypes
<1>7. \A i \in DOMAIN ops' : ops'[i].kind # "relocate"
  <2> SUFFICES ASSUME NEW i \in DOMAIN ops' PROVE ops'[i].kind # "relocate"
    OBVIOUS
  <2>1. i + 1 \in DOMAIN ops /\ ops'[i] = ops[i + 1] /\ 1 < i + 1
    BY <1>3
  <2> QED
    BY <1>1, <1>3, <2>1 DEF PassInv, PlanInv
<1>8. ASSUME NEW i \in DOMAIN ops', NEW j \in DOMAIN ops', i < j
      PROVE  ops'[i].kind = ops'[j].kind => ops'[i].path # ops'[j].path
  <2>1. /\ i + 1 \in DOMAIN ops /\ ops'[i] = ops[i + 1]
        /\ j + 1 \in DOMAIN ops /\ ops'[j] = ops[j + 1] /\ i + 1 < j + 1
    BY <1>3, <1>8
  <2> QED
    BY <2>1 DEF PassInv, PlanInv
<1>9. PlanInv'
  BY <1>1, <1>7, <1>8 DEF PassInv, PlanInv
<1>10. ASSUME NEW q \in Paths, q # p, NEW i \in DOMAIN ops, ops[i].path = q
       PROVE  \E j \in DOMAIN ops' : ops'[j] = ops[i]
  <2>1. i # 1
    BY <1>10 DEF p
  <2> QED
    BY <1>3, <2>1
<1>11. FitInv'
  <2>1. Misplaced(files) \subseteq Paths /\ Redundant(files) \subseteq Paths
    BY DEF Misplaced, Redundant, Stored
  <2>2. ASSUME NEW q \in Misplaced(files')
        PROVE  \E i \in DOMAIN ops' : ops'[i].kind = "relocate" /\ ops'[i].path = q
    <3>1. q \in Misplaced(files) /\ q # p
      BY <1>5
    <3>2. PICK i \in DOMAIN ops : ops[i].kind = "relocate" /\ ops[i].path = q
      BY <1>1, <3>1 DEF PassInv, FitInv
    <3>3. PICK j \in DOMAIN ops' : ops'[j] = ops[i]
      BY <1>10, <2>1, <3>1, <3>2
    <3> QED
      BY <3>2, <3>3
  <2>3. passes >= 1 => Misplaced(files') = {}
    BY <1>5 DEF PassInv, FitInv
  <2>4. passes >= 1 => Stray' = {}
    <3>1. Stray' \subseteq Stray
      BY <1>5 DEF Stray, Stored
    <3> QED
      BY <3>1 DEF PassInv, FitInv
  <2>5. \A i \in DOMAIN ops' : ops'[i].kind = "delete-duplicate"
    BY <1>3, <1>7, OpIsTyped
  <2>6. ASSUME passes >= 1, NEW q \in Redundant(files')
        PROVE  \E i \in DOMAIN ops' : ops'[i].path = q
    <3>1. q \in Redundant(files) /\ q # p
      BY <1>5
    <3>2. PICK i \in DOMAIN ops : ops[i].path = q
      BY <1>1, <2>6, <3>1 DEF PassInv, FitInv
    <3>3. PICK j \in DOMAIN ops' : ops'[j] = ops[i]
      BY <1>10, <2>1, <3>1, <3>2
    <3> QED
      BY <3>2, <3>3
  <2>7. passes >= 2 => Redundant(files') = {}
    BY <1>5 DEF PassInv, FitInv
  <2> QED
    BY <1>1, <2>2, <2>3, <2>4, <2>5, <2>6, <2>7 DEF FitInv
<1>12. ApartInv'
  <2> SUFFICES ASSUME apart PROVE ApartInv'
    BY <1>1 DEF ApartInv
  <2>1. \A q, r \in Stored(files') : q.name = r.name => q = r
    BY <1>1, <1>5 DEF PassInv, ApartInv
  <2>2. ASSUME NEW i \in DOMAIN ops', NEW j \in DOMAIN ops', i # j
        PROVE  ops'[i].path # ops'[j].path
    <3>1. /\ i + 1 \in DOMAIN ops /\ ops'[i] = ops[i + 1]
          /\ j + 1 \in DOMAIN ops /\ ops'[j] = ops[j + 1] /\ i + 1 # j + 1
      BY <1>3, <2>2
    <3> QED
      BY <1>1, <3>1 DEF PassInv, ApartInv
  <2>3. ASSUME NEW i \in DOMAIN ops', ops'[i].kind = "delete-duplicate"
        PROVE  /\ ops'[i].path \in Stored(files')
               /\ \E c \in Stored(files') :
                    /\ files'[c].body = files'[ops'[i].path].body
                    /\ \A j \in DOMAIN ops' : ops'[j].path # c
    <3>1. i + 1 \in DOMAIN ops /\ ops'[i] = ops[i + 1] /\ i + 1 # 1
      BY <1>3
    <3>2. ops'[i].path \in Stored(files) /\ ops'[i].path # p
      BY <1>1, <1>3, <2>3, <3>1 DEF PassInv, ApartInv, p
    <3>3. PICK c \in Stored(files) :
            /\ files[c].body = files[ops'[i].path].body
            /\ \A j \in DOMAIN ops : ops[j].path # c
      BY <1>1, <2>3, <3>1 DEF PassInv, ApartInv
    <3>4. c # p
      BY <1>3, <3>3 DEF p
    <3>5. \A j \in DOMAIN ops' : ops'[j].path # c
      BY <1>3, <3>3
    <3>6. c \in Paths /\ ops'[i].path \in Paths
      BY <3>2 DEF Stored
    <3> QED
      BY <1>5, <3>2, <3>3, <3>4, <3>5, <3>6
  <2> QED
    BY <1>1, <2>1, <2>2, <2>3 DEF ApartInv
<1> QED
  BY <1>6, <1>9, <1>11, <1>12 DEF PassInv

\* A misplaced file is taken out.
LEMMA TakeOutStep ==
  ASSUME PassInv, TakeOut
  PROVE  PassInv'
<1> DEFINE p == ops[1].path
<1>1. /\ phase = "ops" /\ phase' = "moving" /\ ops # <<>> /\ ops[1].kind = "relocate"
      /\ moving' = files[p] /\ files' = Delete(files, p)
      /\ UNCHANGED <<ops, apart, passes, crashes>>
  BY RestOfPlan DEF TakeOut, NextOp, PassInv, PassTypes
<1>2. files \in StoreSet /\ IsFiniteSet(Stored(files)) /\ ops \in Seq(OpSet)
  BY DEF PassInv, PassTypes
<1>3. 1 \in DOMAIN ops /\ ops[1] \in OpSet /\ \A i \in DOMAIN ops : i \in Nat /\ i >= 1
  BY <1>1, <1>2, RestOfPlan
<1>4. p \in Paths /\ files[p].type # NoType
  BY <1>1, <1>3 DEF OpSet, PassInv, PlanInv
<1> HIDE DEF p
<1>5. /\ files' \in StoreSet /\ IsFiniteSet(Stored(files'))
      /\ Stored(files') = Stored(files) \ {p}
      /\ files'[p] = NoFile
      /\ \A q \in Paths : q # p => files'[q] = files[q]
      /\ Misplaced(files') = Misplaced(files) \ {p}
      /\ Redundant(files') \subseteq Redundant(files) \ {p}
  BY <1>1, <1>2, <1>4, DeleteFacts
<1>6. moving' # NoFile /\ moving' \in Docs \cup {NoFile} /\ p \in Stored(files)
  BY <1>1, <1>2, <1>4 DEF NoFile, StoreSet, Stored, Exists
<1>7. PassTypes'
  BY <1>1, <1>2, <1>5, <1>6 DEF PassInv, PassTypes
<1>8. ASSUME NEW i \in DOMAIN ops, ops[i].kind = "relocate", i > 1
      PROVE  files'[ops[i].path].type # NoType
  <2>1. ops[i].path # p
    BY <1>1, <1>3, <1>8 DEF PassInv, PlanInv, p
  <2>2. files[ops[i].path].type # NoType
    BY <1>1, <1>8 DEF PassInv, PlanInv
  <2>3. ops[i].path \in Paths
    BY <1>2, OpIsTyped
  <2> QED
    BY <1>5, <2>1, <2>2, <2>3
<1>9. PlanInv'
  BY <1>1, <1>5, <1>6, <1>8 DEF PassInv, PlanInv, p
<1>10. FitInv'
  <2>1. passes = 0
    BY <1>1, <1>3 DEF PassInv, PassTypes, FitInv
  <2> QED
    BY <1>1, <1>5, <2>1 DEF PassInv, FitInv
<1>11. ApartInv'
  <2> SUFFICES ASSUME apart PROVE ApartInv'
    BY <1>1 DEF ApartInv
  <2>1. \A q, r \in Stored(files') : q.name = r.name => q = r
    BY <1>1, <1>5 DEF PassInv, ApartInv
  <2>2. \A q \in Stored(files') : q.name # p.name
    BY <1>1, <1>5, <1>6 DEF PassInv, ApartInv
  <2>3. ASSUME NEW i \in DOMAIN ops, ops[i].kind = "delete-duplicate"
        PROVE  /\ ops[i].path \in Stored(files')
               /\ \E c \in Stored(files') :
                    /\ files'[c].body = files'[ops[i].path].body
                    /\ \A j \in DOMAIN ops : ops[j].path # c
    <3>1. ops[i].path \in Stored(files) /\ ops[i].path # p
      BY <1>1, <1>3, <2>3 DEF PassInv, ApartInv, p
    <3>2. PICK c \in Stored(files) :
            /\ files[c].body = files[ops[i].path].body
            /\ \A j \in DOMAIN ops : ops[j].path # c
      BY <1>1, <2>3 DEF PassInv, ApartInv
    <3>3. c # p
      BY <1>3, <3>2 DEF p
    <3>4. c \in Paths /\ ops[i].path \in Paths
      BY <3>1 DEF Stored
    <3> QED
      BY <1>5, <3>1, <3>2, <3>3, <3>4
  <2>4. \A i, j \in DOMAIN ops : i # j => ops[i].path # ops[j].path
    BY <1>1 DEF PassInv, ApartInv
  <2> QED
    BY <1>1, <2>1, <2>2, <2>3, <2>4 DEF ApartInv, p
<1> QED
  BY <1>7, <1>9, <1>10, <1>11 DEF PassInv

\* Where a file is put in: in the directory of its type, and in a store whose files are
\* apart on no file.
LEMMA PutInPlaces ==
  ASSUME PassInv, PutIn
  PROVE  LET t == InType(ops[1].path, ops[1].toType)
             doc == [type |-> ops[1].toType, body |-> Redacted[moving.body]]
         IN  /\ t \in Paths /\ doc \in Docs /\ doc.type = t.dir /\ t.dir \in Types
             /\ moving \in Docs /\ doc.body = Redacted[moving.body]
             /\ files' = Write(files, t, doc)
             /\ apart => t \notin Stored(files) /\ \A q \in Stored(files) : q.name # t.name
<1>1. /\ phase = "moving" /\ ops # <<>> /\ ops[1].kind = "relocate" /\ ops \in Seq(OpSet)
      /\ moving \in Docs
  BY DEF PutIn, PassInv, PassTypes, PlanInv
<1>2. 1 \in DOMAIN ops /\ ops[1] \in OpSet /\ Head(ops) = ops[1]
  BY <1>1, RestOfPlan
<1>3. ops[1].toType \in Types /\ ops[1].path.name \in Names
  BY <1>1, <1>2 DEF PassInv, PlanInv, OpSet, Paths
<1>4. InType(ops[1].path, ops[1].toType)
        = [dir |-> ops[1].toType, name |-> ops[1].path.name]
  BY DEF InType
<1>5. InType(ops[1].path, ops[1].toType) \in Paths
  BY <1>3, <1>4 DEF Paths
<1>6. [type |-> ops[1].toType, body |-> Redacted[moving.body]] \in Docs
        /\ [type |-> ops[1].toType, body |-> Redacted[moving.body]].type = ops[1].toType
        /\ [type |-> ops[1].toType, body |-> Redacted[moving.body]].body = Redacted[moving.body]
  BY <1>1, <1>3, StoreAssumption DEF Docs
<1>7. apart => \A q \in Stored(files) : q.name # ops[1].path.name
  BY <1>1 DEF PassInv, ApartInv
<1>8. files' = Write(files, InType(ops[1].path, ops[1].toType),
                     [type |-> ops[1].toType, body |-> Redacted[moving.body]])
  BY <1>2 DEF PutIn
<1> QED
  BY <1>1, <1>3, <1>4, <1>5, <1>6, <1>7, <1>8

\* It is put in.
LEMMA PutInStep ==
  ASSUME PassInv, PutIn
  PROVE  PassInv'
<1>1. PICK t, doc : /\ t \in Paths /\ doc \in Docs /\ doc.type = t.dir /\ t.dir \in Types
                    /\ files' = Write(files, t, doc)
                    /\ apart => t \notin Stored(files) /\ \A q \in Stored(files) : q.name # t.name
  BY PutInPlaces
<1>2. /\ phase = "moving" /\ phase' = "ops" /\ ops # <<>> /\ ops[1].kind = "relocate"
      /\ files[ops[1].path] = NoFile
      /\ moving' = NoFile /\ ops' = Tail(ops) /\ UNCHANGED <<apart, passes, crashes>>
  BY DEF PutIn, PassInv, PlanInv
<1>3. files \in StoreSet /\ IsFiniteSet(Stored(files)) /\ ops \in Seq(OpSet)
  BY DEF PassInv, PassTypes
<1>4. /\ ops' \in Seq(OpSet)
      /\ 1 \in DOMAIN ops /\ ops[1] \in OpSet
      /\ \A i \in DOMAIN ops : i \in Nat /\ i >= 1
      /\ \A i \in DOMAIN ops' :
           i \in Nat /\ i >= 1 /\ i + 1 \in DOMAIN ops /\ ops'[i] = ops[i + 1]
      /\ \A i \in DOMAIN ops : i # 1 => i - 1 \in DOMAIN ops' /\ ops'[i - 1] = ops[i]
  BY <1>2, <1>3, RestOfPlan
<1>5. /\ files' \in StoreSet /\ IsFiniteSet(Stored(files'))
      /\ Stored(files') = Stored(files) \cup {t}
      /\ files'[t] = doc
      /\ \A q \in Paths : q # t => files'[q] = files[q]
      /\ Misplaced(files') = Misplaced(files) \ {t}
  BY <1>1, <1>3, WriteFacts
<1>6. PassTypes'
  BY <1>2, <1>4, <1>5 DEF PassInv, PassTypes
<1>7. ASSUME NEW i \in DOMAIN ops', ops'[i].kind = "relocate"
      PROVE  ops'[i].toType \in Types /\ files'[ops'[i].path].type # NoType
  <2>1. i + 1 \in DOMAIN ops /\ ops'[i] = ops[i + 1] /\ i + 1 > 1
    BY <1>4
  <2>2. ops'[i].toType \in Types /\ files[ops'[i].path].type # NoType
    BY <1>7, <2>1 DEF PassInv, PlanInv
  <2>3. ops'[i].path \in Paths
    BY <1>4, OpIsTyped
  <2>4. doc.type # NoType
    BY <1>1, StoreAssumption DEF NoType
  <2> QED
    BY <1>5, <2>2, <2>3, <2>4
<1>8. ASSUME NEW i \in DOMAIN ops', NEW j \in DOMAIN ops', i < j
      PROVE  /\ ops'[j].kind = "relocate" => ops'[i].kind = "relocate"
             /\ ops'[i].kind = ops'[j].kind => ops'[i].path # ops'[j].path
  <2>1. /\ i + 1 \in DOMAIN ops /\ ops'[i] = ops[i + 1]
        /\ j + 1 \in DOMAIN ops /\ ops'[j] = ops[j + 1] /\ i + 1 < j + 1
    BY <1>4, <1>8
  <2> QED
    BY <2>1 DEF PassInv, PlanInv
<1>9. PlanInv'
  BY <1>2, <1>7, <1>8 DEF PlanInv
<1>10. FitInv'
  <2>1. passes = 0
    BY <1>2, <1>4 DEF PassInv, PassTypes, FitInv
  <2>2. ASSUME NEW q \in Misplaced(files')
        PROVE  \E i \in DOMAIN ops' : ops'[i].kind = "relocate" /\ ops'[i].path = q
    <3>1. q \in Misplaced(files) /\ q \in Stored(files)
      BY <1>5 DEF Misplaced
    <3>2. PICK i \in DOMAIN ops : ops[i].kind = "relocate" /\ ops[i].path = q
      BY <1>2, <3>1 DEF PassInv, FitInv
    <3>3. i # 1
      BY <1>2, <3>1, <3>2 DEF Stored, Exists
    <3> QED
      BY <1>4, <3>2, <3>3
  <2> QED
    BY <1>2, <2>1, <2>2 DEF FitInv
<1>11. ApartInv'
  <2> SUFFICES ASSUME apart PROVE ApartInv'
    BY <1>2 DEF ApartInv
  <2>1. \A q, r \in Stored(files') : q.name = r.name => q = r
    BY <1>1, <1>2, <1>5 DEF PassInv, ApartInv
  <2>2. ASSUME NEW i \in DOMAIN ops', NEW j \in DOMAIN ops', i # j
        PROVE  ops'[i].path # ops'[j].path
    <3>1. /\ i + 1 \in DOMAIN ops /\ ops'[i] = ops[i + 1]
          /\ j + 1 \in DOMAIN ops /\ ops'[j] = ops[j + 1] /\ i + 1 # j + 1
      BY <1>4, <2>2
    <3> QED
      BY <1>2, <3>1 DEF PassInv, ApartInv
  <2>3. ASSUME NEW i \in DOMAIN ops', ops'[i].kind = "delete-duplicate"
        PROVE  /\ ops'[i].path \in Stored(files')
               /\ \E c \in Stored(files') :
                    /\ files'[c].body = files'[ops'[i].path].body
                    /\ \A j \in DOMAIN ops' : ops'[j].path # c
    <3>1. i + 1 \in DOMAIN ops /\ ops'[i] = ops[i + 1]
      BY <1>4
    <3>2. ops'[i].path \in Stored(files)
      BY <1>2, <2>3, <3>1 DEF PassInv, ApartInv
    <3>3. PICK c \in Stored(files) :
            /\ files[c].body = files[ops'[i].path].body
            /\ \A j \in DOMAIN ops : ops[j].path # c
      BY <1>2, <2>3, <3>1 DEF PassInv, ApartInv
    <3>4. c # t /\ ops'[i].path # t
      BY <1>1, <3>2
    <3>5. \A j \in DOMAIN ops' : ops'[j].path # c
      BY <1>4, <3>3
    <3>6. c \in Paths /\ ops'[i].path \in Paths
      BY <3>2 DEF Stored
    <3> QED
      BY <1>5, <3>2, <3>3, <3>4, <3>5, <3>6
  <2> QED
    BY <1>2, <2>1, <2>2, <2>3 DEF ApartInv
<1> QED
  BY <1>6, <1>9, <1>10, <1>11 DEF PassInv

\* A pass that dies or is refused leaves its plan.
LEMMA AbandonStep ==
  ASSUME PassInv, Abandon, crashes' \in 0 .. MaxCrashes
  PROVE  PassInv'
<1>1. /\ phase' = "idle" /\ ops' = <<>> /\ moving' = NoFile
      /\ UNCHANGED <<files, apart, passes>>
  BY DEF Abandon
<1>2. ops' \in Seq(OpSet) /\ DOMAIN ops' = {}
  BY <1>1
<1>3. Stray' = Stray
  BY <1>1 DEF Stray
<1>4. PassTypes'
  BY <1>1, <1>2 DEF PassInv, PassTypes
<1>5. PlanInv'
  BY <1>1, <1>2 DEF PlanInv
<1>6. FitInv'
  BY <1>1, <1>2, <1>3 DEF PassInv, FitInv
<1>7. ApartInv'
  BY <1>1 DEF ApartInv
<1> QED
  BY <1>4, <1>5, <1>6, <1>7 DEF PassInv

\* The plan is done: what was misplaced is not, and in a later pass no copy is left.
LEMMA StartRootStep ==
  ASSUME PassInv, StartRootFiles
  PROVE  PassInv'
<1>1. /\ phase = "ops" /\ phase' = "root" /\ ops = <<>> /\ DOMAIN ops = {}
      /\ UNCHANGED <<files, ops, moving, apart, passes, crashes>>
  BY DEF StartRootFiles
<1>2. Stray' = Stray
  BY <1>1 DEF Stray
<1>3. PassTypes'
  BY <1>1 DEF PassInv, PassTypes
<1>4. PlanInv'
  BY <1>1 DEF PassInv, PlanInv
<1>5. FitInv'
  BY <1>1, <1>2 DEF PassInv, FitInv
<1>6. ApartInv'
  BY <1>1 DEF PassInv, ApartInv
<1> QED
  BY <1>3, <1>4, <1>5, <1>6 DEF PassInv

\* A file of the root with a type: where it goes, and how.
RootFile(p, t) ==
  /\ p \in Stored(files) /\ p.dir = RootDir /\ files[p].type # NoType
  /\ t \in Paths /\ t.dir = files[p].type /\ t.name = p.name /\ t # p
  /\ files[p] \in Docs /\ t.dir \in Types

LEMMA StrayGoes ==
  ASSUME PassInv, RelocateRootFile
  PROVE  \E p, t \in Paths :
           /\ RootFile(p, t)
           /\ \/ files' = Delete(Write(files, t, files[p]), p)
              \/ t \in Stored(files) /\ files' = Delete(files, p)
<1>1. files \in StoreSet
  BY DEF PassInv, PassTypes
<1>2. PICK p \in Stray :
        \/ files' = Delete(Write(files, InType(p, files[p].type), files[p]), p)
        \/ Exists(files, InType(p, files[p].type)) /\ files' = Delete(files, p)
  BY DEF RelocateRootFile
<1> DEFINE t == InType(p, files[p].type)
<1>3. p \in Stored(files) /\ p.dir = RootDir /\ files[p].type # NoType /\ p \in Paths
  BY <1>2 DEF Stray, Stored
<1>4. files[p] \in Docs
  BY <1>1, <1>3 DEF StoreSet, Stored, Exists
<1>5. files[p].type \in Types /\ p.name \in Names
  BY <1>3, <1>4 DEF Docs, Paths
<1>6. t = [dir |-> files[p].type, name |-> p.name]
  BY DEF InType
<1> HIDE DEF t
<1>7. t \in Paths /\ t.dir = files[p].type /\ t.name = p.name
  BY <1>5, <1>6 DEF Paths
<1>8. t # p
  BY <1>3, <1>7 DEF RootDir, NoType
<1>9. RootFile(p, t)
  BY <1>3, <1>4, <1>5, <1>7, <1>8 DEF RootFile
<1>10. \/ files' = Delete(Write(files, t, files[p]), p)
       \/ t \in Stored(files) /\ files' = Delete(files, p)
  BY <1>2, <1>7 DEF t, Stored
<1> QED
  BY <1>3, <1>7, <1>9, <1>10

\* A root file moves; only in a first pass.
LEMMA RootStep ==
  ASSUME PassInv, RelocateRootFile
  PROVE  PassInv'
<1>1. PICK p \in Paths, t \in Paths :
        /\ RootFile(p, t)
        /\ \/ files' = Delete(Write(files, t, files[p]), p)
           \/ t \in Stored(files) /\ files' = Delete(files, p)
  BY StrayGoes
<1>2. /\ phase = "root" /\ ops = <<>> /\ DOMAIN ops = {}
      /\ UNCHANGED <<phase, ops, moving, apart, passes, crashes>>
  BY DEF RelocateRootFile, PassInv, PlanInv
<1>3. files \in StoreSet /\ IsFiniteSet(Stored(files)) /\ Misplaced(files) = {}
  BY <1>2 DEF PassInv, PassTypes, FitInv
<1>4. passes = 0
  <2>1. p \in Stray
    BY <1>1 DEF RootFile, Stray
  <2> QED
    BY <2>1 DEF PassInv, PassTypes, FitInv
<1>5. /\ files' \in StoreSet /\ IsFiniteSet(Stored(files')) /\ Misplaced(files') = {}
      /\ Stored(files') \subseteq (Stored(files) \cup {t}) \ {p}
  <2>1. CASE files' = Delete(Write(files, t, files[p]), p)
    <3> DEFINE g == Write(files, t, files[p])
    <3>1. /\ g \in StoreSet /\ IsFiniteSet(Stored(g)) /\ Stored(g) = Stored(files) \cup {t}
          /\ Misplaced(g) = Misplaced(files) \ {t}
      BY <1>1, <1>3, WriteFacts DEF RootFile
    <3> HIDE DEF g
    <3>2. /\ files' \in StoreSet /\ IsFiniteSet(Stored(files'))
          /\ Stored(files') = Stored(g) \ {p} /\ Misplaced(files') = Misplaced(g) \ {p}
      BY <2>1, <3>1, DeleteFacts DEF g
    <3> QED
      BY <1>3, <3>1, <3>2
  <2>2. CASE files' = Delete(files, p)
    BY <1>3, <2>2, DeleteFacts
  <2> QED
    BY <1>1, <2>1, <2>2
<1>6. PassTypes'
  BY <1>2, <1>5 DEF PassInv, PassTypes
<1>7. PlanInv'
  BY <1>2 DEF PassInv, PlanInv
<1>8. FitInv'
  BY <1>2, <1>4, <1>5 DEF FitInv
<1>9. ApartInv'
  <2> SUFFICES ASSUME apart,
                      NEW q \in Stored(files'), NEW r \in Stored(files'), q.name = r.name
               PROVE  q = r
    BY <1>2 DEF ApartInv
  <2>1. \A a, b \in Stored(files) : a.name = b.name => a = b
    BY <1>2 DEF PassInv, ApartInv
  <2>2. ASSUME NEW a \in Stored(files'), a # t PROVE a.name # t.name
    BY <1>1, <1>5, <2>1, <2>2 DEF RootFile
  <2> QED
    BY <1>5, <2>1, <2>2
<1> QED
  BY <1>6, <1>7, <1>8, <1>9 DEF PassInv

\* A pass is completed.
LEMMA FinishStep ==
  ASSUME PassInv, Finish
  PROVE  PassInv'
<1>1. /\ phase = "root" /\ phase' = "idle" /\ Stray = {} /\ passes' = passes + 1
      /\ ops = <<>> /\ DOMAIN ops = {}
      /\ UNCHANGED <<files, ops, moving, apart, crashes>>
  BY DEF Finish, PassInv, PlanInv
<1>2. Stray' = Stray
  BY <1>1 DEF Stray
<1>3. passes \in Nat /\ passes' \in 0 .. MaxPasses
  BY <1>1, StoreAssumption DEF PassInv, PassTypes
<1>4. PlanInv'
  BY <1>1 DEF PassInv, PlanInv
<1>5. FitInv'
  BY <1>1, <1>2, <1>3 DEF PassInv, FitInv
<1>6. ApartInv'
  BY <1>1 DEF ApartInv
<1> QED
  BY <1>1, <1>3, <1>4, <1>5, <1>6 DEF PassInv, PassTypes

\* The invariant of a pass holds from any store of finitely many files, whatever dies or
\* is refused.
LEMMA PassInvariant == PrepassSpec => []PassInv
<1>1. PrepassInit => PassInv
  <2> SUFFICES ASSUME PrepassInit PROVE PassInv
    OBVIOUS
  <2>0. PICK S \in SUBSET Paths :
          /\ IsFiniteSet(S)
          /\ \E doc \in [S -> Docs] :
               files = [p \in Paths |-> IF p \in S THEN doc[p] ELSE NoFile]
    BY DEF PrepassInit
  <2>1. PICK doc \in [S -> Docs] :
          IsFiniteSet(S) /\ files = [p \in Paths |-> IF p \in S THEN doc[p] ELSE NoFile]
    BY <2>0
  <2>2. files \in StoreSet
    BY <2>1 DEF StoreSet
  <2>3. Stored(files) \subseteq S
    BY <2>1 DEF Stored, Exists
  <2>4. IsFiniteSet(Stored(files))
    BY <2>1, <2>3, FS_Subset
  <2>5. /\ phase = "idle" /\ ops = <<>> /\ moving = NoFile /\ apart = FALSE
        /\ passes = 0 /\ crashes = 0 /\ DOMAIN ops = {} /\ ops \in Seq(OpSet)
    BY DEF PrepassInit
  <2>6. apart \in BOOLEAN /\ moving \in Docs \cup {NoFile}
    BY <2>5
  <2>7. passes \in 0 .. MaxPasses /\ crashes \in 0 .. MaxCrashes
    BY <2>5, StoreAssumption
  <2>8. PassTypes
    BY <2>2, <2>4, <2>5, <2>6, <2>7 DEF PassTypes
  <2> QED
    BY <2>5, <2>8 DEF PassInv, PlanInv, FitInv, ApartInv
<1>2. PassInv /\ [PrepassNext]_prepassVars => PassInv'
  <2> SUFFICES ASSUME PassInv, [PrepassNext]_prepassVars PROVE PassInv'
    OBVIOUS
  <2>1. CASE PutInThrows
    <3>1. Abandon /\ crashes' \in 0 .. MaxCrashes
      BY <2>1 DEF PutInThrows, PassInv, PassTypes
    <3> QED
      BY <3>1, AbandonStep
  <2>2. CASE PrepassCrash
    <3>1. Abandon /\ crashes' \in 0 .. MaxCrashes
      BY <2>2, StoreAssumption DEF PrepassCrash, PassInv, PassTypes
    <3> QED
      BY <3>1, AbandonStep
  <2>3. CASE UNCHANGED prepassVars
    <3>1. UNCHANGED <<files, phase, ops, moving, apart, passes, crashes>>
      BY <2>3 DEF prepassVars
    <3>2. Stray' = Stray
      BY <3>1 DEF Stray
    <3>3. PassTypes' /\ PlanInv'
      BY <3>1 DEF PassInv, PassTypes, PlanInv
    <3>4. FitInv'
      BY <3>1, <3>2 DEF PassInv, FitInv
    <3>5. ApartInv'
      BY <3>1 DEF PassInv, ApartInv
    <3> QED
      BY <3>3, <3>4, <3>5 DEF PassInv
  <2> QED
    BY <2>1, <2>2, <2>3, PlanStep, RemoveStep, TakeOutStep, PutInStep, StartRootStep,
       RootStep, FinishStep DEF PrepassNext
<1> QED
  BY <1>1, <1>2, PTL DEF PrepassSpec

\* dream.ts: "the deterministic pre-pass is idempotent".  From any store, and however many
\* passes die or are refused in between, two completed passes leave nothing to do.
THEOREM TwoPassesSuffice == PrepassSpec => []IdempotentAfterTwo
<1>1. PassInv => PrepassTypeOK
  <2> SUFFICES ASSUME PassInv PROVE PrepassTypeOK
    OBVIOUS
  <2>1. /\ files \in [Paths -> Docs \cup {NoFile}]
        /\ ops \in Seq([kind : {"relocate", "delete-duplicate"}, path : Paths,
                        toType : Types \cup {NoType}])
    BY DEF PassInv, PassTypes, StoreSet, OpSet
  <2>2. ops # <<>> => Head(ops) = ops[1] /\ 1 \in DOMAIN ops
    BY RestOfPlan DEF PassInv, PassTypes
  <2>3. phase = "moving" => ops # <<>> /\ Head(ops).kind = "relocate"
    BY <2>2 DEF PassInv, PlanInv
  <2>4. NextOp("relocate") => files[Head(ops).path].type # NoType
    BY <2>2 DEF NextOp, PassInv, PlanInv
  <2>5. phase = "moving" <=> moving # NoFile
    BY DEF PassInv, PlanInv
  <2> QED
    BY <2>1, <2>3, <2>4, <2>5 DEF PrepassTypeOK, PassInv, PassTypes
<1>2. PassInv => (phase = "idle" /\ passes >= 2 => PlanDeterministic(files) = <<>>)
  <2> SUFFICES ASSUME PassInv, passes >= 2 PROVE PlanDeterministic(files) = <<>>
    OBVIOUS
  <2> DEFINE plan == PlanDeterministic(files)
  <2>1. Misplaced(files) = {} /\ Redundant(files) = {}
    BY DEF PassInv, PassTypes, FitInv
  <2>2. PlanOf(files, plan)
    BY PlanFacts DEF PassInv, PassTypes
  <2> HIDE DEF plan
  <2>3. plan \in Seq(OpSet) /\ DOMAIN plan = {}
    BY <2>1, <2>2 DEF PlanOf
  <2>4. plan = <<>>
    BY <2>3
  <2> QED
    BY <2>4 DEF plan
<1> QED
  BY <1>1, <1>2, PassInvariant, PTL DEF IdempotentAfterTwo

\* dream.ts:6-8.  Whatever the types and the copies of a store whose files are apart: no
\* step of a pass over it takes the last copy of a body away, unless the process dies or
\* a write is refused between the two halves of a relocation.
THEOREM NoBodyIsLost == PrepassSpec => BodiesAreKept
<1> DEFINE Kept == apart /\ Undisturbed => Known \subseteq Known'
<1>1. PassInv /\ [PrepassNext]_prepassVars => [Kept]_prepassVars
  <2> SUFFICES ASSUME PassInv, PrepassNext, apart, Undisturbed PROVE Known \subseteq Known'
    OBVIOUS
  <2>1. /\ phase # "idle" /\ crashes' = crashes
        /\ moving = NoFile \/ moving.body \notin Rejected
        /\ files \in StoreSet /\ IsFiniteSet(Stored(files)) /\ ops \in Seq(OpSet)
    BY DEF Undisturbed, PassInv, PassTypes
  <2>2. CASE UNCHANGED <<files, moving>>
    BY <2>2 DEF Known
  <2>3. CASE RemoveDuplicate
    <3> DEFINE p == ops[1].path
    <3>1. /\ ops # <<>> /\ ops[1].kind = "delete-duplicate" /\ 1 \in DOMAIN ops
          /\ files' = Delete(files, p) /\ UNCHANGED moving
      BY <2>1, <2>3, RestOfPlan DEF RemoveDuplicate, NextOp
    <3>2. PICK c \in Stored(files) : files[c].body = files[p].body /\ c # p
      BY <2>1, <3>1 DEF PassInv, ApartInv
    <3>3. p \in Paths
      BY <2>1, <3>1, OpIsTyped
    <3>4. /\ Stored(files') = Stored(files) \ {p}
          /\ \A q \in Paths : q # p => files'[q] = files[q]
      BY <2>1, <3>1, <3>3, DeleteFacts
    <3> HIDE DEF p
    <3>5. ASSUME NEW q \in Stored(files)
          PROVE  \E r \in Stored(files') : files'[r].body = files[q].body
      <4>1. c \in Stored(files') /\ files'[c] = files[c]
        BY <3>2, <3>4 DEF Stored
      <4>2. q # p => q \in Stored(files') /\ files'[q] = files[q]
        BY <3>4 DEF Stored
      <4> QED
        BY <3>2, <4>1, <4>2
    <3> QED
      BY <3>1, <3>5 DEF Known
  <2>4. CASE TakeOut
    <3> DEFINE p == ops[1].path
    <3>1. /\ phase = "ops" /\ ops # <<>> /\ 1 \in DOMAIN ops /\ ops[1].kind = "relocate"
          /\ files' = Delete(files, p) /\ moving' = files[p]
      BY <2>1, <2>4, RestOfPlan DEF TakeOut, NextOp
    <3>2. p \in Paths /\ files[p].type # NoType
      BY <2>1, <3>1, OpIsTyped DEF PassInv, PlanInv
    <3>3. /\ Stored(files') = Stored(files) \ {p}
          /\ \A q \in Paths : q # p => files'[q] = files[q]
      BY <2>1, <3>1, <3>2, DeleteFacts
    <3>4. moving = NoFile /\ moving' # NoFile
      BY <3>1, <3>2 DEF PassInv, PlanInv, NoFile
    <3> HIDE DEF p
    <3>5. ASSUME NEW q \in Stored(files), q # p
          PROVE  q \in Stored(files') /\ files'[q].body = files[q].body
      BY <3>3, <3>5 DEF Stored
    <3> QED
      BY <3>1, <3>4, <3>5 DEF Known
  <2>5. CASE PutIn
    <3>1. PICK t, doc : /\ t \in Paths /\ doc \in Docs /\ doc.type = t.dir /\ t.dir \in Types
                        /\ moving \in Docs /\ doc.body = Redacted[moving.body]
                        /\ files' = Write(files, t, doc) /\ t \notin Stored(files)
      BY <2>5, PutInPlaces
    <3>2. /\ Stored(files') = Stored(files) \cup {t} /\ files'[t] = doc
          /\ \A q \in Paths : q # t => files'[q] = files[q]
      BY <2>1, <3>1, WriteFacts
    <3>3. ASSUME NEW q \in Stored(files)
          PROVE  q \in Stored(files') /\ files'[q].body = files[q].body
      BY <3>1, <3>2 DEF Stored
    <3>4. Redacted[doc.body] = Redacted[moving.body]
      BY <3>1, StoreAssumption DEF Docs
    <3> QED
      BY <3>1, <3>2, <3>3, <3>4 DEF Known
  <2>6. CASE RelocateRootFile
    <3>1. PICK p \in Paths, t \in Paths :
            /\ RootFile(p, t)
            /\ \/ files' = Delete(Write(files, t, files[p]), p)
               \/ t \in Stored(files) /\ files' = Delete(files, p)
      BY <2>6, StrayGoes
    <3>2. t \notin Stored(files)
      BY <2>1, <3>1 DEF PassInv, ApartInv, RootFile
    <3> DEFINE g == Write(files, t, files[p])
    <3>3. /\ g \in StoreSet /\ IsFiniteSet(Stored(g)) /\ Stored(g) = Stored(files) \cup {t}
          /\ g[t] = files[p] /\ \A q \in Paths : q # t => g[q] = files[q]
      BY <2>1, <3>1, WriteFacts DEF RootFile
    <3>4. files' = Delete(g, p)
      BY <3>1, <3>2
    <3> HIDE DEF g
    <3>5. /\ Stored(files') = Stored(g) \ {p}
          /\ \A q \in Paths : q # p => files'[q] = g[q]
      <4>1. g \in StoreSet /\ IsFiniteSet(Stored(g)) /\ p \in Paths
        BY <3>1, <3>3
      <4>2. /\ Stored(Delete(g, p)) = Stored(g) \ {p}
            /\ \A q \in Paths : q # p => Delete(g, p)[q] = g[q]
        BY ONLY <4>1, DeleteFacts
      <4> QED
        BY ONLY <3>4, <4>2
    <3>6. t # p
      BY <3>1 DEF RootFile
    <3>7. ASSUME NEW q \in Stored(files)
          PROVE  \E r \in Stored(files') : files'[r].body = files[q].body
      <4>1. t \in Stored(files') /\ files'[t] = files[p]
        BY <3>3, <3>5, <3>6
      <4>2. q # p => q \in Stored(files') /\ files'[q] = files[q]
        BY <3>2, <3>3, <3>5 DEF Stored
      <4> QED
        BY <4>1, <4>2
    <3>8. UNCHANGED moving
      BY <2>6 DEF RelocateRootFile
    <3> QED
      BY <3>7, <3>8 DEF Known
  <2>7. CASE PutInThrows
    BY <2>1, <2>7 DEF PutInThrows, PassInv, PlanInv
  <2>8. CASE PrepassCrash
    BY <2>1, <2>8 DEF PrepassCrash, PassInv, PassTypes
  <2>9. CASE Plan \/ StartRootFiles \/ Finish
    BY <2>2, <2>9 DEF Plan, StartRootFiles, Finish
  <2> QED
    BY <2>3, <2>4, <2>5, <2>6, <2>7, <2>8, <2>9 DEF PrepassNext
<1> QED
  BY <1>1, PassInvariant, PTL DEF PrepassSpec, BodiesAreKept
==============================================================================
