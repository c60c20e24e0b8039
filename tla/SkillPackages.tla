----------------------------- MODULE SkillPackages -----------------------------
(***************************************************************************)
(* The single-skill interface of packages/skills/src/learned-skill.ts: a   *)
(* package of files is validated, staged by checkpointLearnedSkill,        *)
(* published by finalizeLearnedSkillCheckpoint and taken back by           *)
(* rollbackLearnedSkillCheckpoint.  The store that skill evolution uses is *)
(* the subject of LearnedSkills.                                           *)
(*                                                                         *)
(* A file is gone, or given as text or as bytes, of a size ("zero",        *)
(* "some", "over": more than MAX_SUPPORTING_FILE_BYTES), with or without a *)
(* forbidden public name, and of a version.  SKILL.md is a path; so are    *)
(* the paths of supporting files and those that are not allowed.  Beside   *)
(* the skill's directory the root holds one other file.                    *)
(***************************************************************************)
EXTENDS Integers, FiniteSets

CONSTANTS
  Supporting, \* paths under references/, templates/, scripts/ or assets/
  Unsafe      \* other paths, and sensitive file names

Skill == "SKILL.md"
Paths == {Skill} \cup Supporting \cup Unsafe
Gone  == [form |-> "gone"]
File(form, size, named, version) ==
  [form |-> form, size |-> size, named |-> named, version |-> version]

FilesOf(dir) == {p \in Paths : dir[p] # Gone}

(***************************************************************************)
(* Validation.                                                             *)
(***************************************************************************)

\* assertAllowedSkillPath, assertSafeFileName, normalizeContent and the checks of
\* normalizeFiles.
FileAccepted(p, f) ==
  /\ p \notin Unsafe
  /\ p = Skill => f.form = "text" /\ f.size # "zero"
  /\ p \in Supporting => f.size = "some"
  /\ f.form = "text" => ~f.named

\* validateLearnedSkillPackage.
PackageAccepted(dir) ==
  /\ dir[Skill] # Gone
  /\ \A p \in FilesOf(dir) : FileAccepted(p, dir[p])

\* readSkillDirectoryFiles: only SKILL.md is read as text.
ReadBack(dir) ==
  [p \in Paths |-> IF dir[p] = Gone THEN Gone
                   ELSE [dir[p] EXCEPT !.form = IF p = Skill THEN "text" ELSE "bytes"]]

\* validateLearnedSkillDirectory.
DirectoryAccepted(dir) == PackageAccepted(ReadBack(dir))

\* The bytes of a file, which fingerprints compare.
Bytes(f) == IF f = Gone THEN f ELSE [f EXCEPT !.form = "bytes"]

(***************************************************************************)
(* Checkpoint, finalize, rollback of a root [own, other].                  *)
(***************************************************************************)

\* checkpointLearnedSkill: the package staged, the fingerprints of the root, and the
\* target as a snapshot.
Checkpoint(root, package) == [staged |-> package, before |-> root]

\* Fault: what stands in the target directory is not looked at.
DiffersOutside(root, now) == {p \in {"other"} : Bytes(root.other) # Bytes(now.other)}

\* diffFingerprints: the files that differ, deleted ones included.
Differs(root, now) ==
  {p \in Paths : Bytes(root.own[p]) # Bytes(now.own[p])}
  \cup {p \in {"other"} : Bytes(root.other) # Bytes(now.other)}

\* The checks before anything is copied.
Untouched(root, now) == Differs(root, now) = {}

\* copyTree of the staged files over the target; files that the package does not have stay,
\* and it may fail when it has copied some.  No lock is held: another process may change the
\* root meanwhile.  It leaves `meanwhile`; of the copied files, those of `after` it changes
\* after they were copied, and what it makes of the others is overwritten.
Published(cp, meanwhile) ==
  [own   |-> [p \in Paths |-> IF p \in meanwhile.copied \ meanwhile.after THEN cp.staged[p]
                              ELSE meanwhile.own[p]],
   other |-> meanwhile.other]

Copied(cp, meanwhile) == FilesOf(cp.staged) \subseteq meanwhile.copied

Deleted(root, now) == FilesOf(root.own) \ FilesOf(now.own)

\* finalizeLearnedSkillCheckpoint: refused before the copy leaves the root alone; after it
\* only files that are gone and changes outside the target are refused, and the root stays
\* as it is then.
Finalize(cp, now, meanwhile) ==
  LET root    == Published(cp, meanwhile)
      refused == \/ ~Copied(cp, meanwhile)
                 \/ Deleted(cp.before, root) # {}
                 \/ "other" \in Differs(cp.before, root)
  IN  CASE ~Untouched(cp.before, now) -> [ok |-> FALSE, root |-> now, changed |-> {}]
        [] Untouched(cp.before, now) /\ refused -> [ok |-> FALSE, root |-> root, changed |-> {}]
        [] OTHER -> [ok |-> TRUE, root |-> root, changed |-> Differs(cp.before, root)]

\* Fault: the snapshot is copied over what was published.
RollbackCopies(cp, now) ==
  [now EXCEPT !.own = [p \in Paths |->
     IF cp.before.own[p] # Gone THEN cp.before.own[p] ELSE now.own[p]]]

\* rollbackLearnedSkillCheckpoint: the target is removed, and restored if it existed.
Rollback(cp, now) == [now EXCEPT !.own = cp.before.own]

(***************************************************************************)
(* Property.                                                               *)
(***************************************************************************)

\* An accepted package is refused if anything in the root changed between the checkpoint and
\* the check of finalize, and then nothing is copied.  A change between that check and the
\* end of the copy is not always seen: what it makes of a file that is yet to be copied is
\* lost.  But a success means that the whole package is there, but for what was changed after
\* it was copied; that the other file is as at the checkpoint and no file of then is gone;
\* that every difference is reported; and, where no one else touched the directory, that the
\* skill is in the catalog if what it was published over was, and only its own files changed.
\* A rollback brings back what was there before, also when the publication was refused too
\* late or stopped halfway.
PackageIsPublished(root, package, now, meanwhile) ==
  LET cp     == Checkpoint(root, package)
      result == Finalize(cp, now, meanwhile)
  IN  PackageAccepted(package) =>
        /\ Differs(root, now) # {} => ~result.ok /\ result.root = now
        /\ result.ok =>
             /\ \A p \in FilesOf(package) \ meanwhile.after : result.root.own[p] = package[p]
             /\ FilesOf(root.own) \subseteq FilesOf(result.root.own)
             /\ Bytes(result.root.other) = Bytes(root.other)
             /\ \A p \in Paths : Bytes(result.root.own[p]) # Bytes(root.own[p]) <=> p \in result.changed
             /\ meanwhile.own = now.own /\ meanwhile.after = {} =>
                  /\ DirectoryAccepted(root.own) \/ FilesOf(root.own) = {} =>
                       DirectoryAccepted(result.root.own)
                  /\ result.changed \subseteq FilesOf(package)
        /\ Differs(root, now) = {} =>
             Rollback(cp, result.root) = [own |-> root.own, other |-> result.root.other]
==============================================================================
