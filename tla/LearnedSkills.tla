---------------------------- MODULE LearnedSkills ----------------------------
(***************************************************************************)
(* Skill evolution over the learned-skill store: runSkillEvolutionAgent of *)
(* packages/sdk/src/skill-evolution-agent.ts and the store operations of   *)
(* packages/skills/src/learned-skill.ts it calls: the catalog, the         *)
(* checkpoint with its stage and its snapshot, finalize and rollback.      *)
(*                                                                         *)
(* Nothing locks skillsRoot.  An evolver is the skill evolution of one     *)
(* process, which its lifecycle queue serializes; evolvers of different    *)
(* processes, people who edit their skills, and the prompt builds that     *)
(* read the catalog interleave with it file by file.                       *)
(*                                                                         *)
(* A skill is a number in the order of the directory names; Elsewhere      *)
(* stands for all paths of the tree outside learned skill directories.  A  *)
(* directory has two files, SKILL.md and a supporting file, and is absent  *)
(* when it has neither.  A text is Rejected when                           *)
(* validateLearnedSkillDirectory refuses a package that contains it.       *)
(***************************************************************************)
EXTENDS Integers, FiniteSetsExt

CONSTANTS
  Evolvers,
  Skills,      \* 1 .. n
  Texts,       \* contents of files
  Rejected,
  None,        \* no file
  GlobLimit,   \* GLOB_LIMIT of file-tools.ts
  Strays,      \* the agent may write outside learned skill directories
  MaxRuns,     \* bound: skill evolutions begun
  MaxForeign,  \* bound: edits of the tree by others
  MaxFaults,   \* bound: file operations that fail
  MaxCrashes,  \* bound
  MaxMishaps   \* bound: edits by others, failures and crashes together

ASSUME StoreAssumption ==
  /\ Skills \subseteq Nat \ {0}
  /\ Rejected \subseteq Texts /\ None \notin Texts
  /\ GlobLimit \in Nat \ {0} /\ Strays \in BOOLEAN
  /\ MaxRuns \in Nat /\ MaxForeign \in Nat
  /\ MaxFaults \in Nat /\ MaxCrashes \in Nat /\ MaxMishaps \in Nat

Elsewhere == 0
Names == Skills \cup {Elsewhere}
Files == {"SKILL.md", "supporting"}
Dirs  == [Files -> Texts \cup {None}]
Trees == [Names -> Dirs]
Gone  == [f \in Files |-> None]
Empty == [n \in Names |-> Gone]

VARIABLES
  live,       \* skillsRoot
  pc,         \* where each evolver is
  catalog,    \* the skills it found before the checkpoint
  before,     \* beforeFiles of its manifest
  stage,      \* its stage
  snapshot,   \* its snapshot
  deleted,    \* catalogued skills it does not find in the stage
  todo,       \* changed names it has yet to publish
  scope,      \* names whose directories it is replacing
  left,       \* files it has yet to copy there
  rollbacks,  \* restores of the snapshot that it still owes
  runs, foreign, faults, crashes

job == <<catalog, before, stage, snapshot, deleted>>
progress == <<todo, scope, left, rollbacks>>
counts == <<runs, foreign, faults, crashes>>
vars == <<live, pc, job, progress, counts>>

(***************************************************************************)
(* Trees.                                                                  *)
(***************************************************************************)

Valid(dir) ==
  /\ dir["SKILL.md"] \in Texts \ Rejected
  /\ dir["supporting"] \notin Rejected

\* The entries of the catalog; one invalid directory and the read throws.
Catalogued(tree) == {n \in Skills : tree[n] # Gone}
Readable(tree) == \A n \in Catalogued(tree) : Valid(tree[n])

\* diffFingerprints, by the first segment of the path.
DeletedIn(b, t) == {n \in Names : \E f \in Files : b[n][f] # None /\ t[n][f] = None}
ChangedIn(b, t) == {n \in Names : \E f \in Files : t[n][f] # None /\ t[n][f] # b[n][f]}
AnyChange(b, t) == DeletedIn(b, t) \cup ChangedIn(b, t)

\* listStagedSkillNames: the directories with a SKILL.md, the GlobLimit newest of them.
Globbed(tree) ==
  LET found == {n \in Skills : tree[n]["SKILL.md"] # None}
  IN  IF Cardinality(found) <= GlobLimit THEN {found} ELSE kSubset(GlobLimit, found)

\* What finalize checks of the stage before it publishes: deletions are whole
\* directories and declared as merged, changes are inside learned skill directories.
Publishable(b, t, merged) ==
  /\ DeletedIn(b, t) \subseteq merged
  /\ \A n \in DeletedIn(b, t) : t[n] = Gone
  /\ Elsewhere \notin AnyChange(b, t)

(***************************************************************************)
(* Skill evolution.                                                        *)
(***************************************************************************)

Rest == {"idle", "ok", "failed", "torn"}

Init ==
  /\ live \in {t \in Trees : t[Elsewhere] = Gone /\ Readable(t)}
  /\ pc = [e \in Evolvers |-> "idle"]
  /\ catalog = [e \in Evolvers |-> {}]
  /\ before = [e \in Evolvers |-> Empty]
  /\ stage = [e \in Evolvers |-> Empty]
  /\ snapshot = [e \in Evolvers |-> Empty]
  /\ deleted = [e \in Evolvers |-> {}]
  /\ todo = [e \in Evolvers |-> {}]
  /\ scope = [e \in Evolvers |-> {}]
  /\ left = [e \in Evolvers |-> {}]
  /\ rollbacks = [e \in Evolvers |-> 0]
  /\ runs = 0 /\ foreign = 0 /\ faults = 0 /\ crashes = 0

Goto(e, l) == pc' = [pc EXCEPT ![e] = l]
MayMishap == foreign + faults + crashes < MaxMishaps

\* The catalog, when the read does not throw: then the run ends before it began.
ReadCatalog(e) ==
  /\ pc[e] \in Rest /\ runs < MaxRuns
  /\ Readable(live)
  /\ runs' = runs + 1
  /\ catalog' = [catalog EXCEPT ![e] = Catalogued(live)]
  /\ Goto(e, "list")
  /\ UNCHANGED <<live, before, stage, snapshot, deleted, progress, foreign, faults, crashes>>

\* The checkpoint: fingerprints, stage, snapshot, one after the other.
ListBefore(e) ==
  /\ pc[e] = "list"
  /\ before' = [before EXCEPT ![e] = live]
  /\ Goto(e, "stage")
  /\ UNCHANGED <<live, catalog, stage, snapshot, deleted, progress, counts>>

CopyToStage(e) ==
  /\ pc[e] = "stage"
  /\ stage' = [stage EXCEPT ![e] = live]
  /\ Goto(e, "snapshot")
  /\ UNCHANGED <<live, catalog, before, snapshot, deleted, progress, counts>>

CopyToSnapshot(e) ==
  /\ pc[e] = "snapshot"
  /\ snapshot' = [snapshot EXCEPT ![e] = live]
  /\ Goto(e, "agent")
  /\ UNCHANGED <<live, catalog, before, stage, deleted, progress, counts>>

\* Fault: nobody catches the error.
ThrowUncaught(e, n) ==
  /\ Goto(e, "failed")
  /\ todo' = [todo EXCEPT ![e] = {}]
  /\ scope' = [scope EXCEPT ![e] = {}]
  /\ left' = [left EXCEPT ![e] = {}]
  /\ UNCHANGED rollbacks

\* An error, and the n times the snapshot is restored on its way out: by the catch
\* of finalize around the publication, and by that of runSkillEvolutionAgent around
\* everything after the checkpoint.
Throw(e, n) ==
  /\ Goto(e, IF n = 0 THEN "torn" ELSE "clear")
  /\ todo' = [todo EXCEPT ![e] = {}]
  /\ scope' = [scope EXCEPT ![e] = IF n = 0 THEN {} ELSE Names]
  /\ left' = [left EXCEPT ![e] = {}]
  /\ rollbacks' = [rollbacks EXCEPT ![e] = n]

\* The agent has edited the stage.
AgentEnds(e) ==
  /\ pc[e] = "agent"
  /\ \E edited \in Trees :
       /\ ~Strays => edited[Elsewhere] = stage[e][Elsewhere]
       /\ stage' = [stage EXCEPT ![e] = edited]
  /\ Goto(e, "glob")
  /\ UNCHANGED <<live, catalog, before, snapshot, deleted, progress, counts>>

AgentThrows(e) ==
  /\ pc[e] = "agent"
  /\ Throw(e, 1)
  /\ UNCHANGED <<live, job, counts>>

\* What the catalog had and the stage has not is declared as merged.
DeriveDeleted(e) ==
  /\ pc[e] = "glob"
  /\ \E found \in Globbed(stage[e]) :
       deleted' = [deleted EXCEPT ![e] = catalog[e] \ found]
  /\ Goto(e, "finalize")
  /\ UNCHANGED <<live, catalog, before, stage, snapshot, progress, counts>>

FinalizeRefuses(e) ==
  /\ pc[e] = "finalize"
  /\ live # before[e] \/ ~Publishable(before[e], stage[e], deleted[e])
  /\ Throw(e, 1)
  /\ UNCHANGED <<live, job, counts>>

FinalizeAccepts(e) ==
  /\ pc[e] = "finalize"
  /\ live = before[e] /\ Publishable(before[e], stage[e], deleted[e])
  /\ todo' = [todo EXCEPT ![e] = AnyChange(before[e], stage[e])]
  /\ Goto(e, "publish")
  /\ UNCHANGED <<live, job, scope, left, rollbacks, counts>>

IsNext(e, n) == n \in todo[e] /\ \A m \in todo[e] : n <= m

\* Fault: the publication of a skill replaces the whole tree.
ReplaceAll(e, n) ==
  /\ pc[e] = "publish" /\ IsNext(e, n)
  /\ todo' = [todo EXCEPT ![e] = @ \ {n}]
  /\ scope' = [scope EXCEPT ![e] = Skills]
  /\ Goto(e, "clear")
  /\ UNCHANGED <<live, job, left, rollbacks, counts>>

Replace(e, n) ==
  /\ pc[e] = "publish" /\ IsNext(e, n)
  /\ todo' = [todo EXCEPT ![e] = @ \ {n}]
  /\ scope' = [scope EXCEPT ![e] = {n}]
  /\ Goto(e, "clear")
  /\ UNCHANGED <<live, job, left, rollbacks, counts>>

\* Fault: what is published is not validated.
PublishUnvalidated(e) == \E n \in Skills : Replace(e, n)

\* Fault: a deleted skill is passed over.
PublishSurvivors(e) ==
  \/ \E n \in Skills \ DeletedIn(before[e], stage[e]) : Valid(stage[e][n]) /\ Replace(e, n)
  \/ \E n \in DeletedIn(before[e], stage[e]) :
       /\ pc[e] = "publish" /\ IsNext(e, n)
       /\ todo' = [todo EXCEPT ![e] = @ \ {n}]
       /\ UNCHANGED <<live, pc, job, scope, left, rollbacks, counts>>

\* The next directory by name: a deleted one is removed, another one is validated,
\* removed and copied from the stage.
PublishNext(e) ==
  \E n \in Skills :
    /\ n \in DeletedIn(before[e], stage[e]) \/ Valid(stage[e][n])
    /\ Replace(e, n)

\* An invalid one ends the publication of those before it.
PublishRefuses(e) ==
  /\ pc[e] = "publish"
  /\ \E n \in Skills :
       /\ IsNext(e, n)
       /\ n \notin DeletedIn(before[e], stage[e]) /\ ~Valid(stage[e][n])
  /\ Throw(e, 2)
  /\ UNCHANGED <<live, job, counts>>

\* rm and copyTree work file by file, for a publication and for a rollback.
Source(e) == IF rollbacks[e] > 0 THEN snapshot[e] ELSE stage[e]

ClearFile(e) ==
  /\ pc[e] = "clear"
  /\ \E n \in scope[e], f \in Files :
       /\ live[n][f] # None
       /\ live' = [live EXCEPT ![n][f] = None]
  /\ UNCHANGED <<pc, job, progress, counts>>

Cleared(e) ==
  /\ pc[e] = "clear"
  /\ \A n \in scope[e] : live[n] = Gone
  /\ left' = [left EXCEPT ![e] = {nf \in scope[e] \X Files : Source(e)[nf[1]][nf[2]] # None}]
  /\ Goto(e, "copy")
  /\ UNCHANGED <<live, job, todo, scope, rollbacks, counts>>

CopyFile(e) ==
  /\ pc[e] = "copy"
  /\ \E nf \in left[e] :
       /\ live' = [live EXCEPT ![nf[1]][nf[2]] = Source(e)[nf[1]][nf[2]]]
       /\ left' = [left EXCEPT ![e] = @ \ {nf}]
  /\ UNCHANGED <<pc, job, todo, scope, rollbacks, counts>>

Copied(e) ==
  /\ pc[e] = "copy" /\ left[e] = {}
  /\ IF rollbacks[e] = 0
     THEN /\ scope' = [scope EXCEPT ![e] = {}]
          /\ Goto(e, "publish")
          /\ UNCHANGED rollbacks
     ELSE /\ rollbacks' = [rollbacks EXCEPT ![e] = @ - 1]
          /\ scope' = [scope EXCEPT ![e] = IF rollbacks[e] = 1 THEN {} ELSE Names]
          /\ Goto(e, IF rollbacks[e] = 1 THEN "failed" ELSE "clear")
  /\ UNCHANGED <<live, job, todo, left, counts>>

Published(e) ==
  /\ pc[e] = "publish" /\ todo[e] = {}
  /\ Goto(e, "ok")
  /\ UNCHANGED <<live, job, progress, counts>>

\* A file operation fails: in a publication the snapshot is restored twice, in the
\* first of two restores the second still runs, in the last one it stays as it is.
FileFault(e) ==
  /\ pc[e] \in {"clear", "copy"} /\ faults < MaxFaults /\ MayMishap
  /\ faults' = faults + 1
  /\ Throw(e, IF rollbacks[e] = 0 THEN 2 ELSE rollbacks[e] - 1)
  /\ UNCHANGED <<live, job, runs, foreign, crashes>>

\* The process dies.  Nothing looks at an old checkpoint again.
Crash(e) ==
  /\ pc[e] \notin Rest /\ crashes < MaxCrashes /\ MayMishap
  /\ crashes' = crashes + 1
  /\ Goto(e, "idle")
  /\ todo' = [todo EXCEPT ![e] = {}]
  /\ scope' = [scope EXCEPT ![e] = {}]
  /\ left' = [left EXCEPT ![e] = {}]
  /\ rollbacks' = [rollbacks EXCEPT ![e] = 0]
  /\ UNCHANGED <<live, job, runs, foreign, faults>>

\* Someone else writes, replaces or removes a skill, and leaves it valid.
ForeignEdit ==
  /\ foreign < MaxForeign /\ MayMishap
  /\ foreign' = foreign + 1
  /\ \E n \in Skills, dir \in Dirs :
       /\ dir = Gone \/ Valid(dir)
       /\ dir # live[n]
       /\ live' = [live EXCEPT ![n] = dir]
  /\ UNCHANGED <<pc, job, progress, runs, faults, crashes>>

Step(e) ==
  \/ ReadCatalog(e)
  \/ ListBefore(e)
  \/ CopyToStage(e)
  \/ CopyToSnapshot(e)
  \/ AgentEnds(e)
  \/ AgentThrows(e)
  \/ DeriveDeleted(e)
  \/ FinalizeRefuses(e)
  \/ FinalizeAccepts(e)
  \/ PublishNext(e)
  \/ PublishRefuses(e)
  \/ ClearFile(e)
  \/ Cleared(e)
  \/ CopyFile(e)
  \/ Copied(e)
  \/ Published(e)
  \/ FileFault(e)
  \/ Crash(e)

Next == ForeignEdit \/ \E e \in Evolvers : Step(e)

Spec == Init /\ [][Next]_vars

------------------------------------------------------------------------------
(***************************************************************************)
(* What a run returns: the changed skills, and the coordination that       *)
(* deriveCoordination infers from them for the dream.                      *)
(***************************************************************************)

Changed(e) == AnyChange(before[e], stage[e])
Survivors(e) == Changed(e) \ deleted[e]

Decision(e) ==
  IF Changed(e) = {} THEN "noop"
  ELSE IF deleted[e] # {} /\ Survivors(e) # {} THEN "merge"
  ELSE IF Min(Changed(e)) \in catalog[e] THEN "update" ELSE "create"

TargetSkill(e) == IF Survivors(e) # {} THEN Min(Survivors(e)) ELSE Min(Changed(e))
MergedSkills(e) == IF Decision(e) = "merge" THEN deleted[e] ELSE {}

\* validateSkillEvolutionCoordination.
CoordinationAccepted(e) ==
  /\ Decision(e) = "merge" => MergedSkills(e) # {} /\ TargetSkill(e) \notin MergedSkills(e)
  /\ Decision(e) # "merge" => MergedSkills(e) = {}

\* validateSkillEvolutionChangeSet, which the loop itself does not call.
ChangeSetAccepted(e) ==
  CASE Decision(e) = "noop"  -> Changed(e) = {}
    [] Decision(e) = "merge" -> Changed(e) = {TargetSkill(e)} \cup MergedSkills(e)
    [] OTHER                 -> Changed(e) = {TargetSkill(e)}

(***************************************************************************)
(* Properties.                                                             *)
(***************************************************************************)

\* The types, and that a stray path is replaced by rollbacks only.
TypeOK ==
  /\ live \in Trees
  /\ pc \in [Evolvers -> Rest \cup {"list", "stage", "snapshot", "agent", "glob",
                                    "finalize", "publish", "clear", "copy"}]
  /\ catalog \in [Evolvers -> SUBSET Skills]
  /\ before \in [Evolvers -> Trees]
  /\ stage \in [Evolvers -> Trees]
  /\ snapshot \in [Evolvers -> Trees]
  /\ deleted \in [Evolvers -> SUBSET Skills]
  /\ todo \in [Evolvers -> SUBSET Skills]
  /\ scope \in [Evolvers -> SUBSET Names]
  /\ \A e \in Evolvers : Elsewhere \in scope[e] => rollbacks[e] > 0
  /\ left \in [Evolvers -> SUBSET (Names \X Files)]
  /\ rollbacks \in [Evolvers -> 0 .. 2]
  /\ runs \in 0 .. MaxRuns /\ foreign \in 0 .. MaxForeign
  /\ faults \in 0 .. MaxFaults /\ crashes \in 0 .. MaxCrashes

\* "failures roll back to the snapshot": when a run returns, all that the agent
\* changed is in the tree, and when it throws, nothing is, provided that nobody else
\* has edited the tree.
AllOrNothing ==
  foreign = 0 =>
    \A e \in Evolvers :
      /\ pc[e] = "ok" => live = stage[e]
      /\ pc[e] = "failed" => live = before[e]

\* While no evolver replaces directories, every skill of the tree is a valid package, so
\* that the catalog can be read, unless someone else edited the tree, the process died
\* in a publication, or a rollback has failed.
ReadableAtRest ==
  /\ foreign = 0 /\ crashes = 0
  /\ \A e \in Evolvers : pc[e] \notin {"publish", "clear", "copy", "torn"}
  => Readable(live)

\* skill-evolution-agent.ts:471: the coordination is inferred from the change set and
\* agrees with it.  When a run returns, the skills named as merged are gone and the skill
\* they were merged into is there, unless someone else has edited the tree; and both
\* validators accept what it returns if the agent changed one skill, or one that it
\* left and those it merged into that one.  (They refuse the rest, which is returned
\* all the same.)
CoordinationIsTrue ==
  foreign = 0 =>
    \A e \in Evolvers : pc[e] = "ok" =>
      /\ \A n \in MergedSkills(e) : live[n] = Gone
      /\ MergedSkills(e) # {} => live[TargetSkill(e)] # Gone
      /\ CoordinationAccepted(e)
      /\ ChangeSetAccepted(e) <=>
           \/ Cardinality(Changed(e)) <= 1
           \/ Cardinality(Survivors(e)) = 1 /\ deleted[e] # {}

\* However evolvers, other writers and crashes interleave, a skill changes only by the
\* hand of someone else, in a rollback, or in the publication of an evolver whose
\* agent has changed it.
PublicationIsLocal ==
  [][\A n \in Names : live'[n] # live[n] =>
       \/ foreign' # foreign
       \/ \E e \in Evolvers :
            /\ pc[e] \in {"clear", "copy"}
            /\ rollbacks[e] > 0 \/ n \in Changed(e)]_vars

\* The invariant behind it: a publication works on changed skills only, and what a run
\* works on is empty outside the publication and the rollbacks.
PublicationInv ==
  \A e \in Evolvers :
    /\ todo[e] \subseteq Changed(e)
    /\ rollbacks[e] = 0 => scope[e] \subseteq Changed(e)
    /\ left[e] \subseteq scope[e] \X Files
    /\ pc[e] \notin {"publish", "clear", "copy"} \/ rollbacks[e] > 0 => todo[e] = {}
    /\ pc[e] \notin {"clear", "copy"} => scope[e] = {} /\ rollbacks[e] = 0
    /\ pc[e] # "copy" => left[e] = {}
==============================================================================
