---------------------------- MODULE MCMemoryStore ----------------------------
(***************************************************************************)
(* Model-checking instance of MemoryStore: two memories and an index that  *)
(* shows one.  Two prompt builds race one writer; or two writers, of        *)
(* which one may die, follow each other.                                   *)
(***************************************************************************)
EXTENDS MemoryStore, TLC

Scope(mode, paths, writes, sessions, crashes, prompts) ==
  [mode |-> mode, paths |-> paths, writes |-> writes, sessions |-> sessions,
   crashes |-> crashes, prompts |-> prompts]

\* Every path is read as it is; or those of one memory are not, in any line (a comma in
\* its file name) or in one line (a description).
Exactly == [n \in Names |-> [line \in Lines |-> n]]

Wrongly(n, lines, path) ==
  [Exactly EXCEPT ![n] = [line \in Lines |-> IF line \in lines THEN path ELSE n]]

SomeWrongly ==
  UNION {{Wrongly(n, Lines, path) : path \in {"absent", "present"} \cup (Names \ {n})}
         \cup {Wrongly(n, {line}, path) : line \in Lines,
                                          path \in {"refused", "unparsed"} \cup (Names \ {n})} :
           n \in Names}

SmallScopes ==
  {Scope("auto", Exactly, 1, 1, 0, 2), Scope("off", Exactly, 2, 2, 1, 0),
   Scope("required", Exactly, 1, 1, 0, 1), Scope("unserved", Exactly, 0, 1, 0, 1)}
  \cup {Scope("auto", paths, 0, 1, 0, 2) : paths \in SomeWrongly}

Symmetry == Permutations(Lines) \cup Permutations(Prompts) \cup Permutations(Names)
==============================================================================
