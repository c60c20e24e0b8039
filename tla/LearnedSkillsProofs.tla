------------------------- MODULE LearnedSkillsProofs -------------------------
(***************************************************************************)
(* Theorems about LearnedSkills, for any number of evolvers, skills and    *)
(* texts: types, and that a publication leaves alone what its agent has    *)
(* not changed.                                                            *)
(***************************************************************************)
EXTENDS LearnedSkills, FiniteSetTheorems, WellFoundedInduction, TLAPS

\* A change of the tree has a name.
LEMMA ChangeHasName == ASSUME NEW b, NEW t PROVE AnyChange(b, t) \subseteq Names
BY DEF AnyChange, DeletedIn, ChangedIn

\* A changed file of one directory leaves a tree of directories.
LEMMA UpdateIsTree ==
  ASSUME NEW t \in Trees, NEW n \in Names, NEW f \in Files, NEW x \in Texts \cup {None}
  PROVE  [t EXCEPT ![n][f] = x] \in Trees
<1>1. t[n] \in Dirs
  BY DEF Trees
<1>2. [t[n] EXCEPT ![f] = x] \in Dirs
  BY <1>1 DEF Dirs
<1> QED
  BY <1>2 DEF Trees

\* An error and the restores it brings about keep the types.
LEMMA ThrowIsTyped ==
  ASSUME TypeOK, NEW e \in Evolvers, NEW n \in 0 .. 2, Throw(e, n),
         UNCHANGED <<live, job, runs, foreign, crashes>>,
         faults' \in 0 .. MaxFaults
  PROVE  TypeOK'
<1>1. /\ pc' \in [Evolvers -> Rest \cup {"list", "stage", "snapshot", "agent", "glob",
                                          "finalize", "publish", "clear", "copy"}]
      /\ todo' \in [Evolvers -> SUBSET Skills]
      /\ left' \in [Evolvers -> SUBSET (Names \X Files)]
      /\ rollbacks' \in [Evolvers -> 0 .. 2]
  BY DEF TypeOK, Throw, Goto, Rest
<1>2. scope' \in [Evolvers -> SUBSET Names]
  BY DEF TypeOK, Throw
<1>3. ASSUME NEW d \in Evolvers, Elsewhere \in scope'[d] PROVE rollbacks'[d] > 0
  BY <1>3 DEF TypeOK, Throw
<1> QED
  BY <1>1, <1>2, <1>3 DEF TypeOK, job

\* Type correctness of LearnedSkills: a publication is about skills alone, and only a
\* rollback touches the rest of the tree.
THEOREM TypeCorrect == Spec => []TypeOK
<1> USE StoreAssumption
<1>1. Init => TypeOK
  <2> SUFFICES ASSUME Init PROVE TypeOK
    OBVIOUS
  <2>1. Empty \in Trees
    BY DEF Empty, Trees, Gone, Dirs
  <2> QED
    BY <2>1 DEF Init, TypeOK, Rest
<1>2. TypeOK /\ [Next]_vars => TypeOK'
  <2> SUFFICES ASSUME TypeOK, [Next]_vars PROVE TypeOK'
    OBVIOUS
  <2>1. ASSUME NEW e \in Evolvers, ReadCatalog(e) PROVE TypeOK'
    <3>1. Catalogued(live) \in SUBSET Skills
      BY DEF Catalogued
    <3> QED
      BY <2>1, <3>1 DEF TypeOK, ReadCatalog, Goto, progress
  <2>2. ASSUME NEW e \in Evolvers, ListBefore(e) \/ CopyToStage(e) \/ CopyToSnapshot(e)
        PROVE  TypeOK'
    BY <2>2 DEF TypeOK, ListBefore, CopyToStage, CopyToSnapshot, Goto, progress, counts
  <2>3. ASSUME NEW e \in Evolvers, AgentEnds(e) PROVE TypeOK'
    BY <2>3 DEF TypeOK, AgentEnds, Goto, progress, counts
  <2>4. ASSUME NEW e \in Evolvers, AgentThrows(e) \/ FinalizeRefuses(e) PROVE TypeOK'
    <3>1. Throw(e, 1) /\ UNCHANGED <<live, job, runs, foreign, faults, crashes>>
      BY <2>4 DEF AgentThrows, FinalizeRefuses, counts
    <3>2. faults' \in 0 .. MaxFaults
      BY <3>1 DEF TypeOK
    <3> QED
      BY <3>1, <3>2, ThrowIsTyped
  <2>5. ASSUME NEW e \in Evolvers, DeriveDeleted(e) PROVE TypeOK'
    <3>1. PICK found : deleted' = [deleted EXCEPT ![e] = catalog[e] \ found]
      BY <2>5 DEF DeriveDeleted
    <3>2. deleted' \in [Evolvers -> SUBSET Skills]
      BY <3>1 DEF TypeOK
    <3> QED
      BY <2>5, <3>2 DEF TypeOK, DeriveDeleted, Goto, progress, counts
  <2>6. ASSUME NEW e \in Evolvers, FinalizeAccepts(e) PROVE TypeOK'
    <3>1. AnyChange(before[e], stage[e]) \subseteq Skills
      BY <2>6, ChangeHasName DEF FinalizeAccepts, Publishable, Names
    <3> QED
      BY <2>6, <3>1 DEF TypeOK, FinalizeAccepts, Goto, job, counts
  <2>7. ASSUME NEW e \in Evolvers, PublishNext(e) PROVE TypeOK'
    <3>1. PICK n \in Skills : Replace(e, n)
      BY <2>7 DEF PublishNext
    <3>2. scope' = [scope EXCEPT ![e] = {n}] /\ Elsewhere \notin {n}
      BY <3>1 DEF Replace, Elsewhere
    <3>3. scope' \in [Evolvers -> SUBSET Names]
      BY <3>2 DEF TypeOK, Names
    <3>4. \A d \in Evolvers : Elsewhere \in scope'[d] => rollbacks'[d] > 0
      BY <3>1, <3>2 DEF TypeOK, Replace
    <3> QED
      BY <3>1, <3>3, <3>4 DEF TypeOK, Replace, Goto, job, counts
  <2>8. ASSUME NEW e \in Evolvers, PublishRefuses(e) PROVE TypeOK'
    <3>1. Throw(e, 2) /\ UNCHANGED <<live, job, runs, foreign, faults, crashes>>
      BY <2>8 DEF PublishRefuses, counts
    <3>2. faults' \in 0 .. MaxFaults
      BY <3>1 DEF TypeOK
    <3> QED
      BY <3>1, <3>2, ThrowIsTyped
  <2>9. ASSUME NEW e \in Evolvers, ClearFile(e) PROVE TypeOK'
    <3>1. PICK n \in scope[e], f \in Files : live' = [live EXCEPT ![n][f] = None]
      BY <2>9 DEF ClearFile
    <3>2. live' \in Trees
      BY <3>1, UpdateIsTree DEF TypeOK
    <3> QED
      BY <2>9, <3>2 DEF TypeOK, ClearFile, job, progress, counts
  <2>10. ASSUME NEW e \in Evolvers, Cleared(e) PROVE TypeOK'
    <3>1. left' \in [Evolvers -> SUBSET (Names \X Files)]
      BY <2>10 DEF TypeOK, Cleared
    <3> QED
      BY <2>10, <3>1 DEF TypeOK, Cleared, Goto, job, counts
  <2>11. ASSUME NEW e \in Evolvers, CopyFile(e) PROVE TypeOK'
    <3>1. PICK nf \in left[e] :
            /\ live' = [live EXCEPT ![nf[1]][nf[2]] = Source(e)[nf[1]][nf[2]]]
            /\ left' = [left EXCEPT ![e] = @ \ {nf}]
      BY <2>11 DEF CopyFile
    <3>2. nf[1] \in Names /\ nf[2] \in Files
      BY <3>1 DEF TypeOK
    <3>3. Source(e) \in Trees
      BY DEF TypeOK, Source
    <3>4. Source(e)[nf[1]] \in Dirs
      BY <3>2, <3>3 DEF Trees
    <3>5. Source(e)[nf[1]][nf[2]] \in Texts \cup {None}
      BY <3>2, <3>4 DEF Dirs
    <3>6. live' \in Trees
      BY <3>1, <3>2, <3>5, UpdateIsTree DEF TypeOK
    <3> QED
      BY <2>11, <3>1, <3>6 DEF TypeOK, CopyFile, job, counts
  <2>12. ASSUME NEW e \in Evolvers, Copied(e) PROVE TypeOK'
    <3>1. CASE rollbacks[e] = 0
      BY <2>12, <3>1 DEF TypeOK, Copied, Goto, job, counts
    <3>2. CASE rollbacks[e] # 0
      <4>1. /\ rollbacks' = [rollbacks EXCEPT ![e] = @ - 1]
            /\ scope' = [scope EXCEPT ![e] = IF rollbacks[e] = 1 THEN {} ELSE Names]
            /\ Goto(e, IF rollbacks[e] = 1 THEN "failed" ELSE "clear")
            /\ UNCHANGED <<live, job, todo, left, counts>>
        BY <2>12, <3>2 DEF Copied
      <4>2. rollbacks' \in [Evolvers -> 0 .. 2]
        BY <4>1, <3>2 DEF TypeOK
      <4>3. scope' \in [Evolvers -> SUBSET Names]
        BY <4>1 DEF TypeOK
      <4>4. \A d \in Evolvers : Elsewhere \in scope'[d] => rollbacks'[d] > 0
        BY <4>1, <3>2 DEF TypeOK
      <4> QED
        BY <4>1, <4>2, <4>3, <4>4 DEF TypeOK, Goto, Rest, job, counts
    <3> QED
      BY <3>1, <3>2
  <2>13. ASSUME NEW e \in Evolvers, Published(e) PROVE TypeOK'
    BY <2>13 DEF TypeOK, Published, Goto, Rest, job, progress, counts
  <2>14. ASSUME NEW e \in Evolvers, FileFault(e) PROVE TypeOK'
    <3> DEFINE n == IF rollbacks[e] = 0 THEN 2 ELSE rollbacks[e] - 1
    <3>1. Throw(e, n) /\ UNCHANGED <<live, job, runs, foreign, crashes>>
      BY <2>14 DEF FileFault
    <3>2. n \in 0 .. 2
      BY DEF TypeOK
    <3>3. faults' \in 0 .. MaxFaults
      BY <2>14 DEF TypeOK, FileFault
    <3> HIDE DEF n
    <3> QED
      BY <3>1, <3>2, <3>3, ThrowIsTyped
  <2>15. ASSUME NEW e \in Evolvers, Crash(e) PROVE TypeOK'
    BY <2>15 DEF TypeOK, Crash, Goto, Rest, job
  <2>16. CASE ForeignEdit
    <3>1. PICK n \in Skills, dir \in Dirs : live' = [live EXCEPT ![n] = dir]
      BY <2>16 DEF ForeignEdit
    <3>2. live' \in Trees
      BY <3>1 DEF TypeOK, Trees, Names
    <3> QED
      BY <2>16, <3>2 DEF TypeOK, ForeignEdit, job, progress
  <2>17. CASE UNCHANGED vars
    BY <2>17 DEF TypeOK, vars, job, progress, counts
  <2> QED
    BY <2>1, <2>2, <2>3, <2>4, <2>5, <2>6, <2>7, <2>8, <2>9, <2>10, <2>11, <2>12,
       <2>13, <2>14, <2>15, <2>16, <2>17 DEF Next, Step
<1> QED
  BY <1>1, <1>2, PTL DEF Spec

------------------------------------------------------------------------------
\* However many evolvers, other writers and crashes interleave: while an evolver
\* publishes, what it removes and copies belongs to skills its agent has changed.
THEOREM PublicationInvariant == Spec => []PublicationInv
<1>1. Init => PublicationInv
  BY DEF Init, PublicationInv, Rest
<1>2. TypeOK /\ PublicationInv /\ [Next]_vars => PublicationInv'
  <2> SUFFICES ASSUME TypeOK, PublicationInv, [Next]_vars PROVE PublicationInv'
    OBVIOUS
  <2>1. ASSUME NEW e \in Evolvers, NEW n \in 0 .. 2, Throw(e, n), UNCHANGED job
        PROVE  PublicationInv'
    BY <2>1 DEF TypeOK, PublicationInv, Throw, Goto, Changed, job
  <2>2. ASSUME NEW e \in Evolvers, ReadCatalog(e) PROVE PublicationInv'
    BY <2>2 DEF TypeOK, PublicationInv, ReadCatalog, Goto, Changed, Rest, progress
  <2>3. ASSUME NEW e \in Evolvers,
               ListBefore(e) \/ CopyToStage(e) \/ CopyToSnapshot(e)
        PROVE  PublicationInv'
    <3>1. /\ pc[e] \in {"list", "stage", "snapshot"}
          /\ \A d \in Evolvers \ {e} : Changed(d)' = Changed(d) /\ pc'[d] = pc[d]
          /\ pc'[e] \in {"stage", "snapshot", "agent"}
          /\ UNCHANGED progress
      BY <2>3 DEF TypeOK, ListBefore, CopyToStage, CopyToSnapshot, Goto, Changed
    <3> QED
      BY <3>1 DEF PublicationInv, progress
  <2>4. ASSUME NEW e \in Evolvers, AgentEnds(e) PROVE PublicationInv'
    <3>1. /\ pc[e] = "agent" /\ pc'[e] = "glob"
          /\ \A d \in Evolvers \ {e} : Changed(d)' = Changed(d) /\ pc'[d] = pc[d]
          /\ UNCHANGED progress
      BY <2>4 DEF TypeOK, AgentEnds, Goto, Changed
    <3> QED
      BY <3>1 DEF PublicationInv, progress
  <2>5. ASSUME NEW e \in Evolvers, DeriveDeleted(e) PROVE PublicationInv'
    BY <2>5 DEF TypeOK, PublicationInv, DeriveDeleted, Goto, Changed, progress
  <2>6. ASSUME NEW e \in Evolvers, FinalizeAccepts(e) PROVE PublicationInv'
    BY <2>6 DEF TypeOK, PublicationInv, FinalizeAccepts, Goto, Changed, job
  <2>7. ASSUME NEW e \in Evolvers, PublishNext(e) PROVE PublicationInv'
    <3>1. PICK n \in Skills : Replace(e, n)
      BY <2>7 DEF PublishNext
    <3>2. n \in Changed(e) /\ left[e] = {} /\ rollbacks[e] = 0
      BY <3>1 DEF PublicationInv, Replace, IsNext
    <3>3. UNCHANGED <<before, stage, left, rollbacks>>
      BY <3>1 DEF Replace, job
    <3>4. /\ todo' = [todo EXCEPT ![e] = @ \ {n}]
          /\ scope' = [scope EXCEPT ![e] = {n}]
          /\ pc' = [pc EXCEPT ![e] = "clear"]
      BY <3>1 DEF Replace, Goto
    <3> QED
      BY <3>2, <3>3, <3>4 DEF TypeOK, PublicationInv, Changed
  <2>8. ASSUME NEW e \in Evolvers, ClearFile(e) PROVE PublicationInv'
    BY <2>8 DEF PublicationInv, ClearFile, Changed, job, progress
  <2>9. ASSUME NEW e \in Evolvers, Cleared(e) PROVE PublicationInv'
    BY <2>9 DEF TypeOK, PublicationInv, Cleared, Goto, Changed, job
  <2>10. ASSUME NEW e \in Evolvers, CopyFile(e) PROVE PublicationInv'
    BY <2>10 DEF TypeOK, PublicationInv, CopyFile, Changed, job
  <2>11. ASSUME NEW e \in Evolvers, Copied(e) PROVE PublicationInv'
    <3>1. CASE rollbacks[e] = 0
      <4>1. /\ left[e] = {}
            /\ scope' = [scope EXCEPT ![e] = {}]
            /\ pc' = [pc EXCEPT ![e] = "publish"]
            /\ UNCHANGED <<before, stage, todo, left, rollbacks>>
        BY <2>11, <3>1 DEF Copied, Goto, job
      <4> QED
        BY <4>1, <3>1 DEF TypeOK, PublicationInv, Changed
    <3>2. CASE rollbacks[e] = 1
      <4>1. /\ left[e] = {}
            /\ rollbacks' = [rollbacks EXCEPT ![e] = 0]
            /\ scope' = [scope EXCEPT ![e] = {}]
            /\ pc' = [pc EXCEPT ![e] = "failed"]
            /\ UNCHANGED <<before, stage, todo, left>>
        BY <2>11, <3>2 DEF Copied, Goto, job
      <4>2. todo[e] = {}
        BY <3>2 DEF TypeOK, PublicationInv
      <4>3. ASSUME NEW d \in Evolvers, d # e
            PROVE  /\ rollbacks'[d] = rollbacks[d] /\ scope'[d] = scope[d]
                   /\ pc'[d] = pc[d] /\ todo'[d] = todo[d] /\ left'[d] = left[d]
        BY <4>1, <4>3 DEF TypeOK
      <4>4. rollbacks'[e] = 0 /\ scope'[e] = {} /\ pc'[e] = "failed" /\ left'[e] = {}
        BY <4>1 DEF TypeOK
      <4> QED
        BY <4>1, <4>2, <4>3, <4>4 DEF PublicationInv, Changed
    <3>3. CASE rollbacks[e] = 2
      <4>1. /\ left[e] = {}
            /\ rollbacks' = [rollbacks EXCEPT ![e] = 1]
            /\ scope' = [scope EXCEPT ![e] = Names]
            /\ pc' = [pc EXCEPT ![e] = "clear"]
            /\ UNCHANGED <<before, stage, todo, left>>
        BY <2>11, <3>3 DEF Copied, Goto, job
      <4>2. todo[e] = {}
        BY <3>3 DEF TypeOK, PublicationInv
      <4>3. ASSUME NEW d \in Evolvers, d # e
            PROVE  /\ rollbacks'[d] = rollbacks[d] /\ scope'[d] = scope[d]
                   /\ pc'[d] = pc[d] /\ todo'[d] = todo[d] /\ left'[d] = left[d]
        BY <4>1, <4>3 DEF TypeOK
      <4>4. rollbacks'[e] = 1 /\ scope'[e] = Names /\ pc'[e] = "clear" /\ left'[e] = {}
        BY <4>1 DEF TypeOK
      <4> QED
        BY <4>1, <4>2, <4>3, <4>4 DEF PublicationInv, Changed
    <3>4. rollbacks[e] \in {0, 1, 2}
      BY DEF TypeOK
    <3> QED
      BY <3>1, <3>2, <3>3, <3>4
  <2>12. ASSUME NEW e \in Evolvers, Published(e) PROVE PublicationInv'
    BY <2>12 DEF TypeOK, PublicationInv, Published, Goto, Changed, job, progress
  <2>13. ASSUME NEW e \in Evolvers, Crash(e) PROVE PublicationInv'
    BY <2>13 DEF TypeOK, PublicationInv, Crash, Goto, Changed, job
  <2>14. CASE ForeignEdit \/ UNCHANGED vars
    BY <2>14 DEF PublicationInv, ForeignEdit, Changed, job, progress, vars
  <2>15. ASSUME NEW e \in Evolvers,
                AgentThrows(e) \/ FinalizeRefuses(e) \/ PublishRefuses(e)
         PROVE  PublicationInv'
    BY <2>15, <2>1 DEF AgentThrows, FinalizeRefuses, PublishRefuses
  <2>16. ASSUME NEW e \in Evolvers, FileFault(e) PROVE PublicationInv'
    <3> DEFINE n == IF rollbacks[e] = 0 THEN 2 ELSE rollbacks[e] - 1
    <3>1. Throw(e, n) /\ UNCHANGED job
      BY <2>16 DEF FileFault
    <3>2. n \in 0 .. 2
      BY DEF TypeOK
    <3> HIDE DEF n
    <3> QED
      BY <3>1, <3>2, <2>1
  <2> QED
    BY <2>2, <2>3, <2>4, <2>5, <2>6, <2>7, <2>8, <2>9, <2>10, <2>11, <2>12, <2>13,
       <2>14, <2>15, <2>16 DEF Next, Step
<1> QED
  BY <1>1, <1>2, TypeCorrect, PTL DEF Spec

\* The publication of an evolver leaves every skill alone that its agent has not changed:
\* work of other evolvers and of people on other skills survives it.
THEOREM PublicationsAreLocal == Spec => PublicationIsLocal
<1> DEFINE Local ==
      \A n \in Names : live'[n] # live[n] =>
        \/ foreign' # foreign
        \/ \E e \in Evolvers :
             /\ pc[e] \in {"clear", "copy"}
             /\ rollbacks[e] > 0 \/ n \in Changed(e)
<1>1. TypeOK /\ PublicationInv /\ [Next]_vars => [Local]_vars
  <2> SUFFICES ASSUME TypeOK, PublicationInv, [Next]_vars, NEW n \in Names,
                      live'[n] # live[n]
               PROVE  \/ foreign' # foreign
                      \/ \E e \in Evolvers :
                           /\ pc[e] \in {"clear", "copy"}
                           /\ rollbacks[e] > 0 \/ n \in Changed(e)
    OBVIOUS
  <2>1. CASE ForeignEdit
    BY <2>1 DEF ForeignEdit, TypeOK
  <2>2. ASSUME NEW e \in Evolvers, ClearFile(e) \/ CopyFile(e)
        PROVE  /\ pc[e] \in {"clear", "copy"}
               /\ rollbacks[e] > 0 \/ n \in Changed(e)
    <3>1. pc[e] \in {"clear", "copy"}
      BY <2>2 DEF ClearFile, CopyFile
    <3>2. n \in scope[e]
      <4>1. CASE ClearFile(e)
        BY <4>1 DEF ClearFile, TypeOK, Trees
      <4>2. CASE CopyFile(e)
        BY <4>2 DEF CopyFile, TypeOK, Trees, PublicationInv
      <4> QED
        BY <2>2, <4>1, <4>2
    <3>3. rollbacks[e] > 0 \/ rollbacks[e] = 0
      BY DEF TypeOK
    <3> QED
      BY <3>1, <3>2, <3>3 DEF PublicationInv
  <2>3. CASE UNCHANGED live
    BY <2>3
  <2> QED
    BY <2>1, <2>2, <2>3
       DEF Next, Step, ReadCatalog, ListBefore, CopyToStage, CopyToSnapshot, AgentEnds,
           AgentThrows, DeriveDeleted, FinalizeRefuses, FinalizeAccepts, PublishNext,
           Replace, PublishRefuses, Cleared, Copied, Published, FileFault, Crash, vars
<1> QED
  BY <1>1, TypeCorrect, PublicationInvariant, PTL DEF Spec, PublicationIsLocal

------------------------------------------------------------------------------
(***************************************************************************)
(* A store with a single evolver.                                          *)
(***************************************************************************)

SoleEvolver == \A d, e \in Evolvers : d = e

\* What the tree holds at each point of a run: before the publication what the
\* checkpoint found, in it the stage except for what is still to be replaced, and in the
\* copy of a directory the files that have been copied.
ProgressOf(e) ==
  /\ pc[e] \in {"stage", "snapshot", "agent", "glob", "finalize"} => live = before[e]
  /\ pc[e] \in {"agent", "glob", "finalize", "publish", "clear", "copy"} =>
       snapshot[e] = before[e]
  /\ pc[e] \in {"publish", "clear", "copy"} /\ rollbacks[e] = 0 =>
       \A n \in Names \ (todo[e] \cup scope[e]) : live[n] = stage[e][n]
  /\ rollbacks[e] > 0 => scope[e] = Names
  /\ pc[e] = "copy" =>
       \A n \in scope[e], f \in Files :
         live[n][f] = IF <<n, f>> \in left[e] THEN None ELSE Source(e)[n][f]
  /\ pc[e] = "ok" => live = stage[e]
  /\ pc[e] = "failed" => live = before[e]

ProgressInv == foreign = 0 => \A e \in Evolvers : ProgressOf(e)

\* Trees are equal when their files are.
LEMMA TreesAreEqual ==
  ASSUME NEW s \in Trees, NEW t \in Trees,
         \A n \in Names, f \in Files : s[n][f] = t[n][f]
  PROVE  s = t
<1>1. ASSUME NEW n \in Names PROVE s[n] = t[n]
  <2>1. s[n] \in [Files -> Texts \cup {None}] /\ t[n] \in [Files -> Texts \cup {None}]
    BY DEF Trees, Dirs
  <2> QED
    BY <2>1
<1> QED
  BY <1>1 DEF Trees

\* A name without a change has the same directory on both sides.
LEMMA NoChangeIsEqual ==
  ASSUME NEW b \in Trees, NEW t \in Trees, NEW n \in Names, n \notin AnyChange(b, t)
  PROVE  b[n] = t[n]
<1>1. b[n] \in [Files -> Texts \cup {None}] /\ t[n] \in [Files -> Texts \cup {None}]
  BY DEF Trees, Dirs
<1>2. ASSUME NEW f \in Files PROVE b[n][f] = t[n][f]
  BY DEF AnyChange, DeletedIn, ChangedIn
<1> QED
  BY <1>1, <1>2

\* An error leaves the tree to its restores.
LEMMA ThrowKeepsProgress ==
  ASSUME TypeOK, NEW e \in Evolvers, ProgressOf(e), NEW n \in 0 .. 2, Throw(e, n),
         pc[e] \in {"agent", "finalize", "publish", "clear", "copy"},
         UNCHANGED <<live, job>>
  PROVE  ProgressOf(e)'
<1>1. /\ pc'[e] = IF n = 0 THEN "torn" ELSE "clear"
      /\ scope'[e] = IF n = 0 THEN {} ELSE Names
      /\ rollbacks'[e] = n
  BY DEF TypeOK, Throw, Goto
<1>2. UNCHANGED <<live, before, snapshot, stage>>
  BY DEF job
<1> QED
  BY <1>1, <1>2 DEF ProgressOf

\* With one evolver the tree is at every step what its progress says.
LEMMA SoleEvolverProgress ==
  ASSUME SoleEvolver
  PROVE  Spec => []ProgressInv
<1>1. Init => ProgressInv
  BY DEF Init, ProgressInv, ProgressOf
<1>2. TypeOK /\ TypeOK' /\ PublicationInv /\ ProgressInv /\ [Next]_vars => ProgressInv'
  <2> SUFFICES ASSUME TypeOK, TypeOK', PublicationInv, ProgressInv, [Next]_vars,
                      foreign' = 0, NEW e \in Evolvers
               PROVE  ProgressOf(e)'
    BY DEF ProgressInv
  <2>18. foreign = 0 /\ ~ForeignEdit
    <3>1. CASE ForeignEdit
      BY <3>1 DEF ForeignEdit, TypeOK
    <3>2. CASE ~ForeignEdit
      BY <3>2 DEF Next, Step, ReadCatalog, ListBefore, CopyToStage, CopyToSnapshot,
            AgentEnds, AgentThrows, DeriveDeleted, FinalizeRefuses, FinalizeAccepts,
            PublishNext, Replace, PublishRefuses, ClearFile, Cleared, CopyFile, Copied,
            Published, FileFault, Crash, counts, vars
    <3> QED
      BY <3>1, <3>2
  <2>0. ProgressOf(e) /\ (\A d \in Evolvers : d = e)
    BY <2>18 DEF ProgressInv, SoleEvolver
  <2>1. CASE ReadCatalog(e)
    BY <2>0, <2>1 DEF TypeOK, ProgressOf, PublicationInv, ReadCatalog, Goto, Rest, progress
  <2>2. CASE ListBefore(e)
    BY <2>0, <2>2 DEF TypeOK, ProgressOf, PublicationInv, ListBefore, Goto, progress
  <2>3. CASE CopyToStage(e)
    BY <2>0, <2>3 DEF TypeOK, ProgressOf, PublicationInv, CopyToStage, Goto, progress
  <2>4. CASE CopyToSnapshot(e)
    BY <2>0, <2>4 DEF TypeOK, ProgressOf, PublicationInv, CopyToSnapshot, Goto, progress
  <2>5. CASE AgentEnds(e)
    <3>1. pc[e] = "agent" /\ pc'[e] = "glob" /\ UNCHANGED <<live, before, snapshot, progress>>
      BY <2>5 DEF TypeOK, AgentEnds, Goto
    <3>2. rollbacks'[e] = 0
      BY <3>1 DEF PublicationInv, progress
    <3> QED
      BY <2>0, <3>1, <3>2 DEF ProgressOf
  <2>6. CASE AgentThrows(e) \/ FinalizeRefuses(e)
    <3>1. pc[e] \in {"agent", "finalize"} /\ Throw(e, 1) /\ UNCHANGED <<live, job>>
      BY <2>6 DEF AgentThrows, FinalizeRefuses
    <3> QED
      BY <2>0, <3>1, ThrowKeepsProgress
  <2>7. CASE DeriveDeleted(e)
    <3>1. /\ pc[e] = "glob" /\ pc'[e] = "finalize"
          /\ UNCHANGED <<live, before, snapshot, progress>>
      BY <2>7 DEF TypeOK, DeriveDeleted, Goto
    <3>2. rollbacks'[e] = 0
      BY <3>1 DEF PublicationInv, progress
    <3> QED
      BY <2>0, <3>1, <3>2 DEF ProgressOf
  <2>8. CASE FinalizeAccepts(e)
    <3>1. /\ pc[e] = "finalize" /\ pc'[e] = "publish" /\ live = before[e]
          /\ todo'[e] = AnyChange(before[e], stage[e])
          /\ UNCHANGED <<live, before, stage, snapshot, scope, rollbacks>>
      BY <2>8 DEF TypeOK, FinalizeAccepts, Goto, job
    <3>2. rollbacks[e] = 0
      BY <3>1 DEF PublicationInv
    <3>3. ASSUME NEW n \in Names \ todo'[e] PROVE live[n] = stage[e][n]
      BY <3>1, NoChangeIsEqual DEF TypeOK
    <3> QED
      BY <2>0, <3>1, <3>2, <3>3 DEF ProgressOf
  <2>9. CASE PublishNext(e)
    <3>1. PICK n \in Skills : Replace(e, n)
      BY <2>9 DEF PublishNext
    <3>2. /\ pc[e] = "publish" /\ pc'[e] = "clear"
          /\ todo'[e] = todo[e] \ {n} /\ scope'[e] = {n}
          /\ UNCHANGED <<live, before, stage, snapshot, rollbacks>>
      BY <3>1 DEF TypeOK, Replace, Goto, job
    <3>3. rollbacks[e] = 0 /\ scope[e] = {}
      BY <3>2 DEF PublicationInv
    <3> QED
      BY <2>0, <3>2, <3>3 DEF ProgressOf
  <2>10. CASE PublishRefuses(e)
    <3>1. pc[e] = "publish" /\ Throw(e, 2) /\ UNCHANGED <<live, job>>
      BY <2>10 DEF PublishRefuses
    <3> QED
      BY <2>0, <3>1, ThrowKeepsProgress
  <2>11. CASE ClearFile(e)
    <3>1. /\ pc[e] = "clear" /\ pc'[e] = "clear"
          /\ UNCHANGED <<before, stage, snapshot, todo, scope, rollbacks>>
      BY <2>11 DEF ClearFile, job, progress
    <3>2. \A n \in Names \ scope[e] : live'[n] = live[n]
      BY <2>11 DEF ClearFile, TypeOK, Trees
    <3> QED
      BY <2>0, <3>1, <3>2 DEF ProgressOf
  <2>12. CASE Cleared(e)
    <3>1. /\ pc[e] = "clear" /\ pc'[e] = "copy"
          /\ \A n \in scope[e] : live[n] = Gone
          /\ left'[e] = {nf \in scope[e] \X Files : Source(e)[nf[1]][nf[2]] # None}
          /\ UNCHANGED <<live, before, stage, snapshot, todo, scope, rollbacks>>
      BY <2>12 DEF TypeOK, Cleared, Goto, job
    <3>2. Source(e)' = Source(e)
      BY <3>1 DEF Source
    <3>3. ASSUME NEW n \in scope[e], NEW f \in Files
          PROVE  live[n][f] = IF <<n, f>> \in left'[e] THEN None ELSE Source(e)[n][f]
      BY <3>1 DEF Gone
    <3> QED
      BY <2>0, <3>1, <3>2, <3>3 DEF ProgressOf
  <2>13. CASE CopyFile(e)
    <3>1. PICK nf \in left[e] :
            /\ live' = [live EXCEPT ![nf[1]][nf[2]] = Source(e)[nf[1]][nf[2]]]
            /\ left' = [left EXCEPT ![e] = @ \ {nf}]
      BY <2>13 DEF CopyFile
    <3>2. /\ pc[e] = "copy" /\ pc'[e] = "copy"
          /\ UNCHANGED <<before, stage, snapshot, todo, scope, rollbacks>>
          /\ left'[e] = left[e] \ {nf}
      BY <2>13, <3>1 DEF CopyFile, job, TypeOK
    <3>3. nf \in scope[e] \X Files /\ scope[e] \subseteq Names
      BY <3>1 DEF PublicationInv, TypeOK
    <3>4. nf = <<nf[1], nf[2]>> /\ nf[1] \in scope[e] /\ nf[2] \in Files
      BY <3>3
    <3>5. Source(e)' = Source(e)
      BY <3>2 DEF Source
    <3>6. \A n \in Names \ scope[e] : live'[n] = live[n]
      BY <3>1, <3>4 DEF TypeOK, Trees
    <3>7. ASSUME NEW n \in scope[e], NEW f \in Files
          PROVE  live'[n][f] = IF <<n, f>> \in left'[e] THEN None ELSE Source(e)[n][f]
      <4>1. live[n][f] = IF <<n, f>> \in left[e] THEN None ELSE Source(e)[n][f]
        BY <2>0, <3>2 DEF ProgressOf
      <4>2. n \in Names /\ live[n] \in Dirs /\ live \in Trees
        BY <3>3 DEF TypeOK, Trees
      <4>3. CASE n = nf[1] /\ f = nf[2]
        BY <3>1, <3>2, <3>4, <4>2, <4>3 DEF Trees, Dirs
      <4>4. CASE ~(n = nf[1] /\ f = nf[2])
        <5>1. live'[n][f] = live[n][f]
          BY <3>1, <3>3, <3>4, <4>2, <4>4 DEF Trees, Dirs
        <5>2. <<n, f>> \in left'[e] <=> <<n, f>> \in left[e]
          BY <3>2, <3>4, <4>4
        <5> QED
          BY <4>1, <5>1, <5>2
      <4> QED
        BY <4>3, <4>4
    <3> QED
      BY <2>0, <3>2, <3>5, <3>6, <3>7 DEF ProgressOf
  <2>14. CASE Copied(e)
    <3>1. /\ pc[e] = "copy" /\ left[e] = {} /\ scope[e] \subseteq Names
          /\ UNCHANGED <<live, before, stage, snapshot, todo>>
      BY <2>14 DEF Copied, job, TypeOK
    <3>2. ASSUME NEW n \in scope[e], NEW f \in Files PROVE live[n][f] = Source(e)[n][f]
      BY <2>0, <3>1 DEF ProgressOf
    <3>3. CASE rollbacks[e] = 0
      <4>1. pc'[e] = "publish" /\ scope'[e] = {} /\ rollbacks'[e] = 0
        BY <2>14, <3>3 DEF TypeOK, Copied, Goto
      <4>2. ASSUME NEW n \in scope[e] PROVE live[n] = stage[e][n]
        <5>1. /\ live[n] \in [Files -> Texts \cup {None}]
              /\ stage[e][n] \in [Files -> Texts \cup {None}]
          BY <3>1 DEF TypeOK, Trees, Dirs
        <5>2. \A f \in Files : live[n][f] = stage[e][n][f]
          BY <3>2, <3>3 DEF Source
        <5> QED
          BY <5>1, <5>2
      <4> QED
        BY <2>0, <3>1, <3>3, <4>1, <4>2 DEF ProgressOf
    <3>4. CASE rollbacks[e] = 1
      <4>1. pc'[e] = "failed" /\ scope'[e] = {} /\ rollbacks'[e] = 0
        BY <2>14, <3>4 DEF TypeOK, Copied, Goto
      <4>2. scope[e] = Names /\ Source(e) = snapshot[e] /\ snapshot[e] = before[e]
        BY <2>0, <3>1, <3>4 DEF ProgressOf, Source
      <4>3. live = before[e]
        BY <3>2, <4>2, TreesAreEqual DEF TypeOK
      <4> QED
        BY <3>1, <4>1, <4>3 DEF ProgressOf
    <3>5. CASE rollbacks[e] = 2
      <4>1. pc'[e] = "clear" /\ scope'[e] = Names /\ rollbacks'[e] = 1
        BY <2>14, <3>5 DEF TypeOK, Copied, Goto
      <4> QED
        BY <2>0, <3>1, <4>1 DEF ProgressOf
    <3>6. rollbacks[e] \in {0, 1, 2}
      BY DEF TypeOK
    <3> QED
      BY <3>3, <3>4, <3>5, <3>6
  <2>15. CASE Published(e)
    <3>1. /\ pc[e] = "publish" /\ pc'[e] = "ok" /\ todo[e] = {}
          /\ UNCHANGED <<live, before, stage, snapshot, progress>>
      BY <2>15 DEF TypeOK, Published, Goto, job
    <3>2. scope[e] = {} /\ rollbacks[e] = 0
      BY <3>1 DEF PublicationInv
    <3>3. live = stage[e]
      BY <2>0, <3>1, <3>2 DEF ProgressOf, TypeOK, Trees
    <3> QED
      BY <3>1, <3>2, <3>3 DEF ProgressOf, progress
  <2>16. CASE FileFault(e)
    <3> DEFINE n == IF rollbacks[e] = 0 THEN 2 ELSE rollbacks[e] - 1
    <3>1. pc[e] \in {"clear", "copy"} /\ Throw(e, n) /\ UNCHANGED <<live, job>>
      BY <2>16 DEF FileFault
    <3>2. n \in 0 .. 2
      BY DEF TypeOK
    <3> HIDE DEF n
    <3> QED
      BY <2>0, <3>1, <3>2, ThrowKeepsProgress
  <2>17. CASE Crash(e)
    <3>1. pc'[e] = "idle" /\ rollbacks'[e] = 0
      BY <2>17 DEF TypeOK, Crash, Goto
    <3> QED
      BY <3>1 DEF ProgressOf
  <2>19. CASE UNCHANGED vars
    BY <2>0, <2>19 DEF ProgressOf, Source, vars, job, progress
  <2>20. PICK d \in Evolvers : Step(d) \/ UNCHANGED vars
    BY <2>18 DEF Next
  <2>21. d = e
    BY <2>0
  <2> QED
    BY <2>1, <2>2, <2>3, <2>4, <2>5, <2>6, <2>7, <2>8, <2>9, <2>10, <2>11, <2>12, <2>13,
       <2>14, <2>15, <2>16, <2>17, <2>19, <2>20, <2>21 DEF Step
<1> QED
  BY <1>1, <1>2, TypeCorrect, PublicationInvariant, PTL DEF Spec

\* A store with one evolver: when skill evolution returns, all that its agent did is in
\* the tree, and when it throws and its rollback does not, nothing is, as long as nobody
\* else edits the tree; whatever the agent did, and however often file operations failed
\* or the process died.
THEOREM SoleEvolverIsAtomic ==
  ASSUME SoleEvolver
  PROVE  Spec => []AllOrNothing
<1>1. ProgressInv => AllOrNothing
  BY DEF ProgressInv, ProgressOf, AllOrNothing
<1> QED
  BY <1>1, SoleEvolverProgress, PTL

------------------------------------------------------------------------------
(***************************************************************************)
(* What a run reads and what it leaves.                                    *)
(***************************************************************************)

\* A run knows the catalog of the tree it started from, which was readable, and what
\* it has published of its stage is readable too.
CatalogOf(e) ==
  /\ pc[e] = "list" => catalog[e] = Catalogued(live) /\ Readable(live)
  /\ pc[e] \notin {"idle", "list", "torn"} =>
       catalog[e] = Catalogued(before[e]) /\ Readable(before[e])
  /\ pc[e] \in {"publish", "clear", "copy", "ok"} /\ rollbacks[e] = 0 =>
       /\ Publishable(before[e], stage[e], deleted[e])
       /\ \A n \in Skills \ todo[e] : stage[e][n] = Gone \/ Valid(stage[e][n])

CatalogInv == foreign = 0 => \A e \in Evolvers : CatalogOf(e)

\* Only a foreign edit counts as one.
LEMMA ForeignIsCounted ==
  ASSUME TypeOK, [Next]_vars, foreign' = 0
  PROVE  foreign = 0 /\ ~ForeignEdit
<1>1. CASE ForeignEdit
  BY <1>1 DEF ForeignEdit, TypeOK
<1>2. CASE ~ForeignEdit
  BY <1>2 DEF Next, Step, ReadCatalog, ListBefore, CopyToStage, CopyToSnapshot,
        AgentEnds, AgentThrows, DeriveDeleted, FinalizeRefuses, FinalizeAccepts,
        PublishNext, Replace, PublishRefuses, ClearFile, Cleared, CopyFile, Copied,
        Published, FileFault, Crash, counts, vars
<1> QED
  BY <1>1, <1>2

\* An error forgets what was to be published.
LEMMA ThrowKeepsCatalog ==
  ASSUME TypeOK, NEW e \in Evolvers, CatalogOf(e), NEW n \in 0 .. 2, Throw(e, n),
         pc[e] \in {"agent", "finalize", "publish", "clear", "copy"}, UNCHANGED job
  PROVE  CatalogOf(e)'
<1>1. pc'[e] = (IF n = 0 THEN "torn" ELSE "clear") /\ rollbacks'[e] = n
  BY DEF TypeOK, Throw, Goto
<1>2. UNCHANGED <<catalog, before>>
  BY DEF job
<1> QED
  BY <1>1, <1>2 DEF CatalogOf

\* With one evolver nothing else moves the tree between its catalog and its checkpoint.
LEMMA SoleEvolverCatalog ==
  ASSUME SoleEvolver
  PROVE  Spec => []CatalogInv
<1>1. Init => CatalogInv
  BY DEF Init, CatalogInv, CatalogOf
<1>2. TypeOK /\ PublicationInv /\ ProgressInv /\ CatalogInv /\ [Next]_vars => CatalogInv'
  <2> SUFFICES ASSUME TypeOK, PublicationInv, ProgressInv, CatalogInv, [Next]_vars,
                      foreign' = 0, NEW e \in Evolvers
               PROVE  CatalogOf(e)'
    BY DEF CatalogInv
  <2>1. foreign = 0 /\ ~ForeignEdit
    BY ForeignIsCounted
  <2>2. CatalogOf(e) /\ ProgressOf(e) /\ (\A d \in Evolvers : d = e)
    BY <2>1 DEF CatalogInv, ProgressInv, SoleEvolver
  <2>3. CASE ReadCatalog(e)
    <3>1. /\ pc'[e] = "list" /\ catalog'[e] = Catalogued(live) /\ Readable(live)
          /\ live' = live
      BY <2>3 DEF TypeOK, ReadCatalog, Goto
    <3> QED
      BY <3>1 DEF CatalogOf
  <2>4. CASE ListBefore(e)
    <3>1. /\ pc[e] = "list" /\ pc'[e] = "stage" /\ before'[e] = live
          /\ catalog' = catalog
      BY <2>4 DEF TypeOK, ListBefore, Goto
    <3> QED
      BY <2>2, <3>1 DEF CatalogOf
  <2>5. CASE CopyToStage(e) \/ CopyToSnapshot(e) \/ AgentEnds(e) \/ DeriveDeleted(e)
    <3>1. /\ pc[e] \in {"stage", "snapshot", "agent", "glob"}
          /\ pc'[e] \in {"snapshot", "agent", "glob", "finalize"}
          /\ UNCHANGED <<catalog, before>>
      BY <2>5 DEF TypeOK, CopyToStage, CopyToSnapshot, AgentEnds, DeriveDeleted, Goto
    <3> QED
      BY <2>2, <3>1 DEF CatalogOf
  <2>6. CASE AgentThrows(e) \/ FinalizeRefuses(e) \/ PublishRefuses(e)
    <3>1. /\ pc[e] \in {"agent", "finalize", "publish"} /\ UNCHANGED job
          /\ Throw(e, 1) \/ Throw(e, 2)
      BY <2>6 DEF AgentThrows, FinalizeRefuses, PublishRefuses
    <3> QED
      BY <2>2, <3>1, ThrowKeepsCatalog
  <2>7. CASE FinalizeAccepts(e)
    <3>1. /\ pc[e] = "finalize" /\ pc'[e] = "publish"
          /\ todo'[e] = AnyChange(before[e], stage[e])
          /\ Publishable(before[e], stage[e], deleted[e])
          /\ UNCHANGED <<catalog, before, stage, deleted>>
      BY <2>7 DEF TypeOK, FinalizeAccepts, Goto, job
    <3>2. catalog[e] = Catalogued(before[e]) /\ Readable(before[e])
      BY <2>2, <3>1 DEF CatalogOf
    <3>3. ASSUME NEW n \in Skills \ todo'[e] PROVE stage[e][n] = Gone \/ Valid(stage[e][n])
      <4>1. before[e][n] = stage[e][n]
        BY <3>1, NoChangeIsEqual DEF TypeOK, Names
      <4> QED
        BY <3>2, <4>1 DEF Readable, Catalogued
    <3> QED
      BY <3>1, <3>2, <3>3 DEF CatalogOf
  <2>8. CASE PublishNext(e)
    <3>1. PICK n \in Skills :
            /\ n \in DeletedIn(before[e], stage[e]) \/ Valid(stage[e][n])
            /\ Replace(e, n)
      BY <2>8 DEF PublishNext
    <3>2. /\ pc[e] = "publish" /\ pc'[e] = "clear" /\ todo'[e] = todo[e] \ {n}
          /\ UNCHANGED <<catalog, before, stage, deleted, rollbacks>>
      BY <3>1 DEF TypeOK, Replace, Goto, job
    <3>3. rollbacks[e] = 0
      BY <3>2 DEF PublicationInv
    <3>4. stage[e][n] = Gone \/ Valid(stage[e][n])
      BY <2>2, <3>1, <3>2, <3>3 DEF CatalogOf, Publishable
    <3> QED
      BY <2>2, <3>2, <3>3, <3>4 DEF CatalogOf
  <2>9. CASE ClearFile(e) \/ Cleared(e) \/ CopyFile(e)
    <3>1. /\ pc[e] \in {"clear", "copy"} /\ pc'[e] \in {"clear", "copy"}
          /\ UNCHANGED <<catalog, before, stage, deleted, todo, rollbacks>>
      BY <2>9 DEF TypeOK, ClearFile, Cleared, CopyFile, Goto, job, progress
    <3> QED
      BY <2>2, <3>1 DEF CatalogOf
  <2>10. CASE Copied(e)
    <3>1. /\ pc[e] = "copy" /\ UNCHANGED <<catalog, before, stage, deleted, todo>>
          /\ rollbacks[e] \in {0, 1, 2}
      BY <2>10 DEF TypeOK, Copied, job
    <3>2. \/ pc'[e] = "publish" /\ rollbacks[e] = 0 /\ rollbacks'[e] = 0
          \/ pc'[e] = "failed"
          \/ pc'[e] = "clear" /\ rollbacks'[e] = 1
      BY <2>10, <3>1 DEF TypeOK, Copied, Goto
    <3> QED
      BY <2>2, <3>1, <3>2 DEF CatalogOf
  <2>11. CASE Published(e)
    <3>1. /\ pc[e] = "publish" /\ pc'[e] = "ok"
          /\ UNCHANGED <<catalog, before, stage, deleted, todo, rollbacks>>
      BY <2>11 DEF TypeOK, Published, Goto, job, progress
    <3> QED
      BY <2>2, <3>1 DEF CatalogOf
  <2>12. CASE FileFault(e)
    <3> DEFINE n == IF rollbacks[e] = 0 THEN 2 ELSE rollbacks[e] - 1
    <3>1. pc[e] \in {"clear", "copy"} /\ Throw(e, n) /\ UNCHANGED job
      BY <2>12 DEF FileFault
    <3>2. n \in 0 .. 2
      BY DEF TypeOK
    <3> HIDE DEF n
    <3> QED
      BY <2>2, <3>1, <3>2, ThrowKeepsCatalog
  <2>13. CASE Crash(e)
    <3>1. pc'[e] = "idle"
      BY <2>13 DEF TypeOK, Crash, Goto
    <3> QED
      BY <3>1 DEF CatalogOf
  <2>14. CASE UNCHANGED vars
    BY <2>2, <2>14 DEF CatalogOf, vars, job, progress
  <2>15. PICK d \in Evolvers : Step(d) \/ UNCHANGED vars
    BY <2>1 DEF Next
  <2>16. d = e
    BY <2>2
  <2> QED
    BY <2>3, <2>4, <2>5, <2>6, <2>7, <2>8, <2>9, <2>10, <2>11, <2>12, <2>13, <2>14,
       <2>15, <2>16 DEF Step
<1> QED
  BY <1>1, <1>2, TypeCorrect, PublicationInvariant, SoleEvolverProgress, PTL DEF Spec

\* A store with one evolver can be read whenever it is not at work on it: what it
\* publishes is valid, what it does not publish was, and a failed publication is taken
\* back; unless someone else edits the tree or the process dies.
THEOREM SoleEvolverIsReadable ==
  ASSUME SoleEvolver
  PROVE  Spec => []ReadableAtRest
<1> DEFINE Busy == {"publish", "clear", "copy", "torn"}
<1>1. Init => ReadableAtRest
  BY DEF Init, ReadableAtRest
<1>2. TypeOK /\ PublicationInv /\ ProgressInv /\ CatalogInv /\ ReadableAtRest
        /\ [Next]_vars => ReadableAtRest'
  <2> SUFFICES ASSUME TypeOK, PublicationInv, ProgressInv, CatalogInv, ReadableAtRest,
                      [Next]_vars, foreign' = 0, crashes' = 0,
                      \A e \in Evolvers : pc'[e] \notin Busy
               PROVE  Readable(live')
    BY DEF ReadableAtRest, Readable, Catalogued
  <2>1. foreign = 0 /\ ~ForeignEdit
    BY ForeignIsCounted
  <2>2. ASSUME NEW e \in Evolvers, Crash(e) PROVE FALSE
    BY <2>2 DEF Crash, TypeOK
  <2>3. CASE UNCHANGED vars
    BY <2>1, <2>3 DEF ReadableAtRest, vars, counts
  <2>4. ASSUME NEW e \in Evolvers, Step(e) PROVE Readable(live')
    <3>1. crashes = 0
      BY <2>2, <2>4 DEF Step, ReadCatalog, ListBefore, CopyToStage, CopyToSnapshot,
            AgentEnds, AgentThrows, DeriveDeleted, FinalizeRefuses, FinalizeAccepts,
            PublishNext, Replace, PublishRefuses, ClearFile, Cleared, CopyFile, Copied,
            Published, FileFault, counts
    <3>2. ProgressOf(e) /\ CatalogOf(e) /\ (\A d \in Evolvers : d = e)
      BY <2>1 DEF ProgressInv, CatalogInv, SoleEvolver
    <3>3. pc'[e] \notin Busy
      OBVIOUS
    <3>4. CASE pc[e] \notin Busy /\ live' = live
      BY <2>1, <3>1, <3>2, <3>4 DEF ReadableAtRest
    <3>5. CASE ReadCatalog(e)
      BY <3>5 DEF ReadCatalog
    <3>6. CASE ListBefore(e) \/ CopyToStage(e) \/ CopyToSnapshot(e) \/ AgentEnds(e)
               \/ DeriveDeleted(e)
      <4>1. pc[e] \notin Busy /\ live' = live
        BY <3>6 DEF ListBefore, CopyToStage, CopyToSnapshot, AgentEnds, DeriveDeleted
      <4> QED
        BY <3>4, <4>1
    <3>7. CASE AgentThrows(e) \/ FinalizeRefuses(e) \/ PublishRefuses(e) \/ FileFault(e)
      <4>1. \E n : Throw(e, n)
        BY <3>7 DEF AgentThrows, FinalizeRefuses, PublishRefuses, FileFault
      <4>2. pc'[e] \in {"torn", "clear"}
        BY <4>1 DEF TypeOK, Throw, Goto
      <4> QED
        BY <3>3, <4>2
    <3>8. CASE FinalizeAccepts(e) \/ PublishNext(e) \/ Cleared(e)
      <4>1. pc'[e] \in {"publish", "clear", "copy"}
        BY <3>8 DEF TypeOK, FinalizeAccepts, PublishNext, Replace, Cleared, Goto
      <4> QED
        BY <3>3, <4>1
    <3>9. CASE ClearFile(e) \/ CopyFile(e)
      BY <3>3, <3>9 DEF ClearFile, CopyFile
    <3>10. CASE Copied(e)
      <4>1. /\ pc[e] = "copy" /\ left[e] = {} /\ live' = live
            /\ rollbacks[e] \in {0, 1, 2}
        BY <3>10 DEF TypeOK, Copied
      <4>2. rollbacks[e] = 1
        BY <3>3, <3>10, <4>1 DEF TypeOK, Copied, Goto
      <4>3. /\ scope[e] = Names /\ Source(e) = snapshot[e] /\ snapshot[e] = before[e]
            /\ \A n \in Names, f \in Files : live[n][f] = Source(e)[n][f]
        BY <3>2, <4>1, <4>2 DEF ProgressOf, Source
      <4>4. live = before[e]
        BY <4>3, TreesAreEqual DEF TypeOK
      <4>5. Readable(before[e])
        BY <3>2, <4>1 DEF CatalogOf
      <4> QED
        BY <4>1, <4>4, <4>5
    <3>11. CASE Published(e)
      <4>1. /\ pc[e] = "publish" /\ todo[e] = {} /\ live' = live
        BY <3>11 DEF Published
      <4>2. scope[e] = {} /\ rollbacks[e] = 0
        BY <4>1 DEF PublicationInv
      <4>3. live = stage[e]
        BY <3>2, <4>1, <4>2 DEF ProgressOf, TypeOK, Trees
      <4>4. \A n \in Skills : stage[e][n] = Gone \/ Valid(stage[e][n])
        BY <3>2, <4>1, <4>2 DEF CatalogOf
      <4> QED
        BY <4>1, <4>3, <4>4 DEF Readable, Catalogued
    <3> QED
      BY <2>2, <2>4, <3>5, <3>6, <3>7, <3>8, <3>9, <3>10, <3>11 DEF Step
  <2> QED
    BY <2>1, <2>3, <2>4 DEF Next
<1> QED
  BY <1>1, <1>2, TypeCorrect, PublicationInvariant, SoleEvolverProgress,
     SoleEvolverCatalog, PTL DEF Spec

------------------------------------------------------------------------------
(***************************************************************************)
(* The coordination of a run.                                              *)
(***************************************************************************)

\* GLOB_LIMIT is no less than the number of skills, so that the list of staged skills
\* is complete.
GlobSeesAll == IsFiniteSet(Skills) /\ Cardinality(Skills) <= GlobLimit

\* The skills that a run declares as merged are those of its catalog whose SKILL.md is
\* no longer in the stage.
MergedInv ==
  \A e \in Evolvers :
    pc[e] \in {"finalize", "publish", "clear", "copy", "ok"} /\ rollbacks[e] = 0 =>
      deleted[e] = {n \in catalog[e] : stage[e][n]["SKILL.md"] = None}

\* A complete list has every staged skill.
LEMMA GlobIsComplete ==
  ASSUME GlobSeesAll, NEW tree
  PROVE  Globbed(tree) = {{n \in Skills : tree[n]["SKILL.md"] # None}}
<1> DEFINE found == {n \in Skills : tree[n]["SKILL.md"] # None}
<1>1. found \in SUBSET Skills
  OBVIOUS
<1> HIDE DEF found
<1>2. Cardinality(found) <= Cardinality(Skills) /\ IsFiniteSet(found)
  BY <1>1, FS_Subset DEF GlobSeesAll
<1>3. Cardinality(found) \in Nat /\ Cardinality(Skills) \in Nat
  BY <1>2, FS_CardinalityType DEF GlobSeesAll
<1>4. Cardinality(found) <= GlobLimit
  BY <1>2, <1>3, StoreAssumption DEF GlobSeesAll
<1> QED
  BY <1>4 DEF Globbed, found

\* What is declared as merged is what is missing, for any number of evolvers.
LEMMA MergedIsMissing ==
  ASSUME GlobSeesAll
  PROVE  Spec => []MergedInv
<1>1. Init => MergedInv
  BY DEF Init, MergedInv
<1>2. TypeOK /\ PublicationInv /\ MergedInv /\ [Next]_vars => MergedInv'
  <2> SUFFICES ASSUME TypeOK, PublicationInv, MergedInv, [Next]_vars,
                      NEW d \in Evolvers,
                      pc'[d] \in {"finalize", "publish", "clear", "copy", "ok"},
                      rollbacks'[d] = 0
               PROVE  deleted'[d] = {n \in catalog'[d] : stage'[d][n]["SKILL.md"] = None}
    BY DEF MergedInv
  <2>1. CASE /\ pc[d] \in {"finalize", "publish", "clear", "copy", "ok"}
             /\ rollbacks[d] = 0
             /\ deleted'[d] = deleted[d] /\ catalog'[d] = catalog[d] /\ stage'[d] = stage[d]
    BY <2>1 DEF MergedInv
  <2>2. ASSUME NEW e \in Evolvers, Step(e), e # d
        PROVE  /\ pc'[d] = pc[d] /\ rollbacks'[d] = rollbacks[d]
               /\ deleted'[d] = deleted[d] /\ catalog'[d] = catalog[d]
               /\ stage'[d] = stage[d]
    BY <2>2 DEF TypeOK, Step, ReadCatalog, ListBefore, CopyToStage, CopyToSnapshot,
         AgentEnds, AgentThrows, DeriveDeleted, FinalizeRefuses, FinalizeAccepts,
         PublishNext, Replace, PublishRefuses, ClearFile, Cleared, CopyFile, Copied,
         Published, FileFault, Crash, Throw, Goto, job, progress
  <2>3. CASE DeriveDeleted(d)
    <3>1. PICK found \in Globbed(stage[d]) :
            deleted' = [deleted EXCEPT ![d] = catalog[d] \ found]
      BY <2>3 DEF DeriveDeleted
    <3>2. found = {n \in Skills : stage[d][n]["SKILL.md"] # None}
      BY <3>1, GlobIsComplete
    <3>3. deleted'[d] = catalog[d] \ found /\ catalog[d] \subseteq Skills
      BY <3>1 DEF TypeOK
    <3>4. UNCHANGED <<catalog, stage>>
      BY <2>3 DEF DeriveDeleted
    <3> QED
      BY <3>2, <3>3, <3>4
  <2>4. CASE ReadCatalog(d) \/ ListBefore(d) \/ CopyToStage(d) \/ CopyToSnapshot(d)
               \/ AgentEnds(d) \/ Crash(d)
    <3>1. pc'[d] \in {"list", "stage", "snapshot", "agent", "glob", "idle"}
      BY <2>4 DEF TypeOK, ReadCatalog, ListBefore, CopyToStage, CopyToSnapshot, AgentEnds,
           Crash, Goto
    <3> QED
      BY <3>1
  <2>5. CASE AgentThrows(d) \/ FinalizeRefuses(d) \/ PublishRefuses(d) \/ FileFault(d)
    <3>1. PICK n : Throw(d, n)
      BY <2>5 DEF AgentThrows, FinalizeRefuses, PublishRefuses, FileFault
    <3>2. pc'[d] = (IF n = 0 THEN "torn" ELSE "clear") /\ rollbacks'[d] = n
      BY <3>1 DEF TypeOK, Throw, Goto
    <3> QED
      BY <3>2
  <2>6. CASE FinalizeAccepts(d) \/ PublishNext(d) \/ ClearFile(d) \/ Cleared(d)
               \/ CopyFile(d) \/ Published(d)
    <3>1. /\ pc[d] \in {"finalize", "publish", "clear", "copy"}
          /\ UNCHANGED <<deleted, catalog, stage, rollbacks>>
      BY <2>6 DEF FinalizeAccepts, PublishNext, Replace, ClearFile, Cleared, CopyFile,
           Published, job, progress
    <3> QED
      BY <2>1, <3>1
  <2>7. CASE Copied(d)
    <3>1. pc[d] = "copy" /\ UNCHANGED <<deleted, catalog, stage>>
      BY <2>7 DEF Copied, job
    <3>2. rollbacks[d] \in {0, 1, 2}
      BY DEF TypeOK
    <3>3. rollbacks[d] = 0
      BY <2>7, <3>2 DEF TypeOK, Copied, Goto
    <3> QED
      BY <2>1, <3>1, <3>3
  <2>8. CASE ForeignEdit \/ UNCHANGED vars
    BY <2>1, <2>8 DEF ForeignEdit, vars, job, progress
  <2> QED
    BY <2>1, <2>2, <2>3, <2>4, <2>5, <2>6, <2>7, <2>8 DEF Next, Step
<1> QED
  BY <1>1, <1>2, TypeCorrect, PublicationInvariant, PTL DEF Spec

\* A nonempty set of names has a least one.
LEMMA MinIsMember ==
  ASSUME NEW S \in SUBSET Names, S # {}
  PROVE  Min(S) \in S
<1>1. IsWellFoundedOn(OpToRel(<, Nat), Nat)
  BY NatLessThanWellFounded
<1>2. S \subseteq Nat
  BY StoreAssumption DEF Names, Elsewhere
<1>3. PICK x \in S : \A y \in S : ~(<<y, x>> \in OpToRel(<, Nat))
  BY <1>1, <1>2, WFMin
<1>4. \A y \in S : ~(y < x)
  BY <1>2, <1>3 DEF OpToRel
<1>5. \A y \in S : x <= y
  BY <1>2, <1>4
<1> QED
  BY <1>5 DEF Min

\* What a run that accepts its publication has merged is what it has deleted.
LEMMA MergedAreDeleted ==
  ASSUME NEW b \in Trees, NEW t \in Trees, Readable(b), NEW m,
         m = {n \in Catalogued(b) : t[n]["SKILL.md"] = None}, Publishable(b, t, m)
  PROVE  m = DeletedIn(b, t) /\ \A n \in m : t[n] = Gone
<1>1. ASSUME NEW n \in m PROVE n \in DeletedIn(b, t)
  <2>1. n \in Skills /\ Valid(b[n])
    BY DEF Readable, Catalogued
  <2>2. b[n]["SKILL.md"] # None /\ "SKILL.md" \in Files
    BY <2>1, StoreAssumption DEF Valid, Files
  <2> QED
    BY <2>1, <2>2 DEF DeletedIn, Names
<1> QED
  BY <1>1 DEF Publishable

\* When a set is a singleton.
LEMMA SingletonByCount ==
  ASSUME NEW S, IsFiniteSet(S), NEW x \in S
  PROVE  Cardinality(S) \in Nat /\ Cardinality(S) # 0 /\ (Cardinality(S) = 1 <=> S = {x})
BY FS_CardinalityType, FS_EmptySet, FS_Singleton

\* What follows for what a run returns.
LEMMA CoordinationFollows ==
  ASSUME GlobSeesAll, TypeOK, NEW e \in Evolvers, Readable(before[e]),
         deleted[e] = {n \in Catalogued(before[e]) : stage[e][n]["SKILL.md"] = None},
         Publishable(before[e], stage[e], deleted[e])
  PROVE  /\ \A n \in MergedSkills(e) : stage[e][n] = Gone
         /\ MergedSkills(e) # {} => stage[e][TargetSkill(e)] # Gone
         /\ CoordinationAccepted(e)
         /\ ChangeSetAccepted(e) <=>
              \/ Cardinality(Changed(e)) <= 1
              \/ Cardinality(Survivors(e)) = 1 /\ deleted[e] # {}
<1> DEFINE C == Changed(e)
           S == Survivors(e)
           D == deleted[e]
<1>1. before[e] \in Trees /\ stage[e] \in Trees
  BY DEF TypeOK
<1>2. D = DeletedIn(before[e], stage[e]) /\ \A n \in D : stage[e][n] = Gone
  BY <1>1, MergedAreDeleted
<1>3. S = C \ D /\ D \subseteq C /\ C \subseteq Names
  BY <1>2, ChangeHasName DEF Survivors, Changed, AnyChange
<1>4. ASSUME NEW n \in S PROVE stage[e][n] # Gone
  <2>1. n \in ChangedIn(before[e], stage[e])
    BY <1>2, <1>3 DEF Changed, AnyChange
  <2> QED
    BY <2>1 DEF ChangedIn, Gone
<1>5. IsFiniteSet(C) /\ IsFiniteSet(S)
  <2>1. IsFiniteSet(Names)
    BY FS_AddElement DEF GlobSeesAll, Names
  <2> QED
    BY <1>3, <2>1, FS_Subset
<1>6. S # {} => Min(S) \in S
  BY <1>3, MinIsMember
<1>7. C # {} => Min(C) \in C
  BY <1>3, MinIsMember
<1>8. C = {} => Cardinality(C) = 0
  BY FS_EmptySet
<1>9. C # {} => TargetSkill(e) \in C /\ (S # {} => TargetSkill(e) \in S)
  BY <1>3, <1>6, <1>7 DEF TargetSkill
<1>10. S # {} => (Cardinality(S) = 1 <=> S = {TargetSkill(e)})
  BY <1>3, <1>5, <1>9, SingletonByCount
<1>11. C # {} => (Cardinality(C) <= 1 <=> C = {TargetSkill(e)})
  BY <1>5, <1>9, SingletonByCount
<1>12. /\ C = {} => Decision(e) = "noop"
       /\ C # {} /\ D # {} /\ S # {} => Decision(e) = "merge"
       /\ C # {} /\ (D = {} \/ S = {}) => Decision(e) \in {"update", "create"}
  BY DEF Decision
<1> HIDE DEF C, S, D
<1>13. CASE C = {}
  <2>1. Decision(e) = "noop" /\ MergedSkills(e) = {} /\ Cardinality(C) <= 1
    BY <1>8, <1>12, <1>13 DEF MergedSkills
  <2>2. ChangeSetAccepted(e)
    BY <1>13, <2>1 DEF ChangeSetAccepted, C
  <2> QED
    BY <2>1, <2>2 DEF CoordinationAccepted, C
<1>14. CASE C # {} /\ D # {} /\ S # {}
  <2>1. Decision(e) = "merge" /\ MergedSkills(e) = D /\ TargetSkill(e) \in S
    BY <1>9, <1>12, <1>14 DEF MergedSkills, D
  <2>2. ChangeSetAccepted(e) <=> C = {TargetSkill(e)} \cup D
    BY <2>1 DEF ChangeSetAccepted, C
  <2>3. C = {TargetSkill(e)} \cup D <=> Cardinality(S) = 1
    BY <1>3, <1>10, <1>14, <2>1
  <2>4. ~(Cardinality(C) <= 1)
    BY <1>3, <1>11, <1>14, <2>1
  <2> QED
    BY <1>2, <1>3, <1>4, <1>14, <2>1, <2>2, <2>3, <2>4 DEF CoordinationAccepted, C, S, D
<1>15. CASE C # {} /\ (D = {} \/ S = {})
  <2>1. Decision(e) \in {"update", "create"} /\ MergedSkills(e) = {}
    BY <1>12, <1>15 DEF MergedSkills
  <2>2. ChangeSetAccepted(e) <=> C = {TargetSkill(e)}
    BY <2>1 DEF ChangeSetAccepted, C
  <2>3. ~(Cardinality(S) = 1 /\ D # {})
    BY <1>15, FS_EmptySet
  <2> QED
    BY <1>11, <1>15, <2>1, <2>2, <2>3 DEF CoordinationAccepted, C, S, D
<1> QED
  BY <1>13, <1>14, <1>15

\* A store with one evolver, and a glob tool that lists every skill: what a run tells the
\* dream about skills that were merged is true of the tree, and is accepted by both
\* validators for every change of one skill, and every merge into one.
THEOREM SoleEvolverTellsTheTruth ==
  ASSUME SoleEvolver, GlobSeesAll
  PROVE  Spec => []CoordinationIsTrue
<1>1. TypeOK /\ PublicationInv /\ ProgressInv /\ CatalogInv /\ MergedInv => CoordinationIsTrue
  <2> SUFFICES ASSUME TypeOK, PublicationInv, ProgressInv, CatalogInv, MergedInv,
                      foreign = 0, NEW e \in Evolvers, pc[e] = "ok"
               PROVE  /\ \A n \in MergedSkills(e) : live[n] = Gone
                      /\ MergedSkills(e) # {} => live[TargetSkill(e)] # Gone
                      /\ CoordinationAccepted(e)
                      /\ ChangeSetAccepted(e) <=>
                           \/ Cardinality(Changed(e)) <= 1
                           \/ Cardinality(Survivors(e)) = 1 /\ deleted[e] # {}
    BY DEF CoordinationIsTrue
  <2>1. rollbacks[e] = 0 /\ live = stage[e]
    BY DEF PublicationInv, ProgressInv, ProgressOf
  <2>2. /\ catalog[e] = Catalogued(before[e]) /\ Readable(before[e])
        /\ Publishable(before[e], stage[e], deleted[e])
    BY <2>1 DEF CatalogInv, CatalogOf
  <2>3. deleted[e] = {n \in catalog[e] : stage[e][n]["SKILL.md"] = None}
    BY <2>1 DEF MergedInv
  <2> QED
    BY <2>1, <2>2, <2>3, CoordinationFollows
<1> QED
  BY <1>1, TypeCorrect, PublicationInvariant, SoleEvolverProgress, SoleEvolverCatalog,
     MergedIsMissing, PTL
==============================================================================
