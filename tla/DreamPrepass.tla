---------------------------- MODULE DreamPrepass ----------------------------
(***************************************************************************)
(* The deterministic pre-pass of a dream: planDeterministic and            *)
(* applyDreamOps of packages/core/src/dream.ts over the findings of        *)
(* packages/core/src/health.ts, the file operations of                     *)
(* packages/core/src/storage.ts they use, and relocateRootFiles of         *)
(* packages/core/src/extract.ts, which ends every pass.  The pass holds    *)
(* the root lock, so no other writer interferes; the process may die       *)
(* between two file operations.  The consolidation agent, which runs       *)
(* between the two halves, is left out: its writes are its own.            *)
(*                                                                         *)
(* A memory is a path, a declared type and a body.  Types, and the         *)
(* directories named after them, are numbers in the order of their names;  *)
(* NoType is a file without valid frontmatter, RootDir the memory root,    *)
(* whose files sort before those of the type directories.                  *)
(***************************************************************************)
EXTENDS Integers, Sequences, FiniteSets

CONSTANTS
  Types,      \* 1 .. n
  Names,      \* 1 .. n
  Bodies,     \* bodies, up to the white space that normalizeBody removes
  Rejected,   \* bodies of memories that writeMemoryDocument refuses to write
  Redacted,   \* what writeMemoryDocument makes of a body: private spans are redacted
  MaxFiles,   \* bound: memories in the initial store
  MaxCrashes, \* bound
  MaxPasses   \* bound

ASSUME StoreAssumption ==
  /\ Types \subseteq Nat \ {0} /\ Names \subseteq Nat
  /\ Rejected \subseteq Bodies
  /\ Redacted \in [Bodies -> Bodies] /\ \A b \in Bodies : Redacted[Redacted[b]] = Redacted[b]
  /\ MaxFiles \in Nat /\ MaxCrashes \in Nat /\ MaxPasses \in Nat

NoType  == 0
RootDir == 0
Paths   == [dir : Types \cup {RootDir}, name : Names]
Docs    == [type : Types \cup {NoType}, body : Bodies]
NoFile  == [type |-> NoType]

VARIABLES
  files,   \* the memory root
  phase,   \* where the pass is
  ops,     \* what is left of its plan
  moving,  \* the document of the relocation under way
  apart,   \* no two files were in each other's way when the pass began
  passes,  \* passes completed
  crashes

prepassVars == <<files, phase, ops, moving, apart, passes, crashes>>

(***************************************************************************)
(* The store.                                                              *)
(***************************************************************************)

Exists(f, p) == f[p] # NoFile
Stored(f) == {p \in Paths : Exists(f, p)}

Write(f, p, doc) == [f EXCEPT ![p] = doc]
Delete(f, p) == [f EXCEPT ![p] = NoFile]

Before(p, q) == p.dir < q.dir \/ (p.dir = q.dir /\ p.name < q.name)

\* The paths of S, each once, in the order of a comparison.  (SetToSortSeq of the
\* community modules gives the same; the provers have no definition of its SortSeq.)
InOrder(S, Precedes(_, _)) ==
  CHOOSE s \in [1 .. Cardinality(S) -> S] :
    \A i, j \in 1 .. Cardinality(S) : i < j => Precedes(s[i], s[j])

InType(p, t) == [dir |-> t, name |-> p.name]

(***************************************************************************)
(* The plan.                                                               *)
(***************************************************************************)

\* path-type-mismatch: files of a type directory that declare another type.
Misplaced(f) ==
  {p \in Stored(f) : p.dir # RootDir /\ f[p].type # NoType /\ f[p].type # p.dir}

\* duplicate-content: every file of the memory root counts, with or without valid
\* frontmatter; the first path of a group is kept.
Copies(f, p) == {q \in Stored(f) : f[q].body = f[p].body}

\* Fault: the plan has every copy deleted.
RedundantAll(f) == {p \in Stored(f) : Copies(f, p) # {p}}

Redundant(f) == {p \in Stored(f) : \E q \in Copies(f, p) : Before(q, p)}

\* The group of a redundant file is known by its first path: findings of a kind
\* are sorted by it.
FirstCopy(f, p) == CHOOSE q \in Copies(f, p) : \A r \in Copies(f, p) : ~Before(r, q)

PlannedBefore(f, p, q) ==
  \/ Before(FirstCopy(f, p), FirstCopy(f, q))
  \/ FirstCopy(f, p) = FirstCopy(f, q) /\ Before(p, q)

Relocate(p, t) == [kind |-> "relocate", path |-> p, toType |-> t]
DeleteDuplicate(p) == [kind |-> "delete-duplicate", path |-> p, toType |-> NoType]

RelocationsOf(f) ==
  LET paths == InOrder(Misplaced(f), Before)
  IN  [i \in DOMAIN paths |-> Relocate(paths[i], f[paths[i]].type)]

DeletionsOf(f) ==
  LET paths == InOrder(Redundant(f), LAMBDA p, q : PlannedBefore(f, p, q))
  IN  [i \in DOMAIN paths |-> DeleteDuplicate(paths[i])]

\* planDeterministic: mismatches come first in the order of the findings.
PlanDeterministic(f) == RelocationsOf(f) \o DeletionsOf(f)

(***************************************************************************)
(* The pass.                                                               *)
(***************************************************************************)

\* Files are in each other's way when they have the same name, so that a relocation
\* may land on one of them, or when a copy is also misplaced.
Apart(f) ==
  /\ \A p, q \in Stored(f) : p.name = q.name => p = q
  /\ Misplaced(f) \cap UNION {Copies(f, p) : p \in Redundant(f)} = {}

PrepassInit ==
  /\ \E S \in SUBSET Paths :
       /\ IsFiniteSet(S) /\ Cardinality(S) \in 1 .. MaxFiles
       /\ \E doc \in [S -> Docs] :
            files = [p \in Paths |-> IF p \in S THEN doc[p] ELSE NoFile]
  /\ phase = "idle"
  /\ ops = <<>>
  /\ moving = NoFile
  /\ apart = FALSE
  /\ passes = 0
  /\ crashes = 0

\* The pass has the lock: scan, findings, plan.
Plan ==
  /\ phase = "idle" /\ passes < MaxPasses
  /\ phase' = "ops"
  /\ ops' = PlanDeterministic(files)
  /\ apart' = Apart(files)
  /\ UNCHANGED <<files, moving, passes, crashes>>

NextOp(kind) == phase = "ops" /\ ops # <<>> /\ Head(ops).kind = kind

\* deleteMemoryDocument; a path that is gone is no error.
RemoveDuplicate ==
  /\ NextOp("delete-duplicate")
  /\ files' = Delete(files, Head(ops).path)
  /\ ops' = Tail(ops)
  /\ UNCHANGED <<phase, moving, apart, passes, crashes>>

\* relocate: read the document, delete the file ...  (A relocation whose document is
\* gone is skipped by the code; PrepassTypeOK says that this does not arise.)
TakeOut ==
  /\ NextOp("relocate")
  /\ moving' = files[Head(ops).path]
  /\ files' = Delete(files, Head(ops).path)
  /\ phase' = "moving"
  /\ UNCHANGED <<ops, apart, passes, crashes>>

\* Fault: the document keeps the type of the directory it came from.
PutInMistyped ==
  /\ phase = "moving" /\ moving.body \notin Rejected
  /\ LET op == Head(ops)
     IN  files' = Write(files, InType(op.path, op.toType),
                        [type |-> op.path.dir, body |-> Redacted[moving.body]])
  /\ moving' = NoFile
  /\ ops' = Tail(ops)
  /\ phase' = "ops"
  /\ UNCHANGED <<apart, passes, crashes>>

\* ... and write it to the directory of its type, over what is there, private spans
\* redacted.
PutIn ==
  /\ phase = "moving" /\ moving.body \notin Rejected
  /\ LET op == Head(ops)
     IN  files' = Write(files, InType(op.path, op.toType),
                        [type |-> op.toType, body |-> Redacted[moving.body]])
  /\ moving' = NoFile
  /\ ops' = Tail(ops)
  /\ phase' = "ops"
  /\ UNCHANGED <<apart, passes, crashes>>

\* The pass is over without being completed.
Abandon ==
  /\ phase' = "idle"
  /\ ops' = <<>>
  /\ moving' = NoFile
  /\ UNCHANGED <<files, apart, passes>>

\* writeMemoryDocument throws, and so does the pass.
PutInThrows ==
  /\ phase = "moving" /\ moving.body \in Rejected
  /\ Abandon
  /\ UNCHANGED crashes

PrepassCrash ==
  /\ phase # "idle" /\ crashes < MaxCrashes
  /\ crashes' = crashes + 1
  /\ Abandon

StartRootFiles ==
  /\ phase = "ops" /\ ops = <<>>
  /\ phase' = "root"
  /\ UNCHANGED <<files, ops, moving, apart, passes, crashes>>

Stray == {p \in Stored(files) : p.dir = RootDir /\ files[p].type # NoType}

\* relocateRootFiles: a file of the root moves to the directory of its type; where
\* there is one of that name, the newer of the two stays.
RelocateRootFile ==
  /\ phase = "root"
  /\ \E p \in Stray :
       LET target == InType(p, files[p].type)
       IN  \/ files' = Delete(Write(files, target, files[p]), p)
           \/ Exists(files, target) /\ files' = Delete(files, p)
  /\ UNCHANGED <<phase, ops, moving, apart, passes, crashes>>

\* The index is rebuilt and the lock released.
Finish ==
  /\ phase = "root" /\ Stray = {}
  /\ phase' = "idle"
  /\ passes' = passes + 1
  /\ UNCHANGED <<files, ops, moving, apart, crashes>>

PrepassNext ==
  \/ Plan
  \/ RemoveDuplicate
  \/ TakeOut
  \/ PutIn
  \/ PutInThrows
  \/ StartRootFiles
  \/ RelocateRootFile
  \/ Finish
  \/ PrepassCrash

PrepassSpec == PrepassInit /\ [][PrepassNext]_prepassVars

------------------------------------------------------------------------------
(***************************************************************************)
(* Properties.                                                             *)
(***************************************************************************)

PrepassTypeOK ==
  /\ files \in [Paths -> Docs \cup {NoFile}]
  /\ phase \in {"idle", "ops", "moving", "root"}
  /\ ops \in Seq([kind : {"relocate", "delete-duplicate"}, path : Paths,
                  toType : Types \cup {NoType}])
  /\ moving \in Docs \cup {NoFile}
  /\ phase = "moving" <=> moving # NoFile
  /\ phase = "moving" => ops # <<>> /\ Head(ops).kind = "relocate"
  /\ NextOp("relocate") => files[Head(ops).path].type # NoType
  /\ apart \in BOOLEAN
  /\ passes \in 0 .. MaxPasses
  /\ crashes \in 0 .. MaxCrashes

\* What the bodies that are on disk, or in the hands of the relocation under way, say
\* outside of private spans.
Known == {Redacted[files[p].body] : p \in Stored(files)}
           \cup (IF moving = NoFile THEN {} ELSE {Redacted[moving.body]})

\* A step of the pass that neither dies nor has its write refused.
Undisturbed ==
  phase # "idle" /\ crashes' = crashes /\ (moving = NoFile \/ moving.body \notin Rejected)

\* dream.ts:6-8: the structural fixes remove copies and move files.  In a pass over a
\* store whose files are apart, no undisturbed step takes the last copy of a body away;
\* a relocation may redact its private spans.
BodiesAreKept == [][apart /\ Undisturbed => Known \subseteq Known']_prepassVars

\* dream.ts:88: "delete all but the first (sorted) path" - the deletion of a copy
\* leaves another one, whatever the store.
LastCopyIsKept ==
  [][NextOp("delete-duplicate") => Known \subseteq Known']_prepassVars

\* dream.ts: "the deterministic pre-pass is idempotent" - two completed passes leave
\* nothing to do for the next one (one does not: the root files it relocates last may
\* bring new work in).
IdempotentAfterTwo ==
  PrepassTypeOK /\ (phase = "idle" /\ passes >= 2 => PlanDeterministic(files) = <<>>)
==============================================================================
