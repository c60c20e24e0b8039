-------------------------- MODULE MemoryStoreProofs --------------------------
EXTENDS MemoryStore, FiniteSetTheorems, TLAPS

(***************************************************************************)
(* Sorting and truncating.                                                 *)
(***************************************************************************)

\* The set of what a walk may return of a file.
EntrySet == [name : Names, line : Lines, mtime : Nat]

Descending(s)  == \A i, j \in DOMAIN s : i < j => s[i].mtime > s[j].mtime
NamesDiffer(s) == \A i, j \in DOMAIN s : s[i].name = s[j].name => i = j
Distinct(S)    == \A e, f \in S : (e.name = f.name \/ e.mtime = f.mtime) => e = f

\* Entries of different mtimes can be put in order: an entry's place is the number of
\* the entries that are no older.
LEMMA OrderExists ==
  ASSUME NEW S, IsFiniteSet(S), \A e \in S : e.mtime \in Nat,
         \A e, f \in S : e.mtime = f.mtime => e = f
  PROVE  \E s \in [1 .. Cardinality(S) -> S] : Descending(s)
<1> DEFINE n == Cardinality(S)
           NoOlder(e) == {f \in S : f.mtime >= e.mtime}
           r == [e \in S |-> Cardinality(NoOlder(e))]
           s == [i \in 1 .. n |-> CHOOSE e \in S : r[e] = i]
<1>1. n \in Nat /\ IsFiniteSet(1 .. n) /\ Cardinality(1 .. n) = n
  BY FS_CardinalityType, FS_Interval
<1>2. ASSUME NEW e \in S
      PROVE  /\ IsFiniteSet(NoOlder(e)) /\ Cardinality(NoOlder(e)) \in Nat
             /\ r[e] = Cardinality(NoOlder(e)) /\ r[e] \in 1 .. n
  <2>1. NoOlder(e) \in SUBSET S /\ e \in NoOlder(e)
    OBVIOUS
  <2> HIDE DEF NoOlder
  <2>2. IsFiniteSet(NoOlder(e)) /\ Cardinality(NoOlder(e)) <= Cardinality(S)
    BY <2>1, FS_Subset
  <2>3. Cardinality(NoOlder(e)) \in Nat
    BY <2>2, FS_CardinalityType
  <2>4. Cardinality(NoOlder(e)) # 0
    BY <2>1, <2>2, FS_EmptySet
  <2>5. r[e] = Cardinality(NoOlder(e))
    OBVIOUS
  <2> QED
    BY <1>1, <2>2, <2>3, <2>4, <2>5
<1>3. ASSUME NEW e \in S, NEW f \in S, e.mtime > f.mtime PROVE r[e] < r[f]
  <2>1. NoOlder(e) \in SUBSET NoOlder(f) /\ f \notin NoOlder(e) /\ f \in NoOlder(f)
    BY <1>3
  <2>2. IsFiniteSet(NoOlder(f)) /\ r[f] = Cardinality(NoOlder(f)) /\ r[e] = Cardinality(NoOlder(e))
        /\ r[e] \in Nat /\ r[f] \in Nat
    BY <1>2, <1>1
  <2> HIDE DEF NoOlder, r
  <2>3. Cardinality(NoOlder(e)) <= Cardinality(NoOlder(f))
        /\ (Cardinality(NoOlder(e)) = Cardinality(NoOlder(f)) => NoOlder(e) = NoOlder(f))
    BY <2>1, <2>2, FS_Subset
  <2> QED
    BY <2>1, <2>2, <2>3
<1>4. r \in [S -> 1 .. n]
  BY <1>2
<1> HIDE DEF NoOlder, r
<1>5. ASSUME NEW e \in S, NEW f \in S, r[e] = r[f] PROVE e = f
  <2>1. r[e] \in Nat /\ r[f] \in Nat
    BY <1>1, <1>2
  <2>2. ~(e.mtime > f.mtime) /\ ~(f.mtime > e.mtime)
    BY <1>3, <1>5, <2>1
  <2> QED
    BY <2>2
<1>6. r \in Injection(S, 1 .. n)
  BY <1>4, <1>5 DEF Injection, IsInjective
<1>7. r \in Surjection(S, 1 .. n)
  BY <1>1, <1>6, FS_Injection
<1>8. ASSUME NEW i \in 1 .. n PROVE s[i] \in S /\ r[s[i]] = i
  <2>1. \E e \in S : r[e] = i
    BY <1>7 DEF Surjection
  <2> QED
    BY <2>1
<1>9. s \in [1 .. n -> S] /\ DOMAIN s = 1 .. n
  BY <1>8
<1> HIDE DEF s
<1>10. ASSUME NEW i \in 1 .. n, NEW j \in 1 .. n, i < j PROVE s[i].mtime > s[j].mtime
  <2>1. s[i] \in S /\ s[j] \in S /\ r[s[i]] = i /\ r[s[j]] = j
    BY <1>8
  <2>2. s[i].mtime # s[j].mtime
    BY <1>1, <1>10, <2>1
  <2>3. ~(s[j].mtime > s[i].mtime)
    BY <1>1, <1>3, <1>10, <2>1
  <2> QED
    BY <2>1, <2>2, <2>3
<1> QED
  BY <1>9, <1>10 DEF Descending

\* NewestFirst lists a set of entries, each once and newest first.
LEMMA NewestFirstFacts ==
  ASSUME NEW S \in SUBSET EntrySet, IsFiniteSet(S), Distinct(S)
  PROVE  /\ NewestFirst(S) \in Seq(EntrySet)
         /\ Len(NewestFirst(S)) = Cardinality(S)
         /\ ToSet(NewestFirst(S)) = S
         /\ Descending(NewestFirst(S)) /\ NamesDiffer(NewestFirst(S))
<1> DEFINE n == Cardinality(S)
           s == NewestFirst(S)
<1>1. n \in Nat /\ IsFiniteSet(1 .. n) /\ Cardinality(1 .. n) = n
  BY FS_CardinalityType, FS_Interval
<1>2. (\A e \in S : e.mtime \in Nat) /\ (\A e, f \in S : e.mtime = f.mtime => e = f)
  BY DEF EntrySet, Distinct
<1>3. \E t \in [1 .. n -> S] : Descending(t)
  BY <1>2, OrderExists
<1>4. s \in [1 .. n -> S] /\ Descending(s)
  BY <1>3 DEF NewestFirst, Descending
<1> HIDE DEF n, s
<1>5. DOMAIN s = 1 .. n /\ \A i \in 1 .. n : s[i] \in S
  BY <1>4
<1>6. s \in Seq(EntrySet) /\ Len(s) = n
  BY <1>1, <1>4
<1>7. ASSUME NEW i \in 1 .. n, NEW j \in 1 .. n, s[i] = s[j] PROVE i = j
  <2>1. ~(i < j) /\ ~(j < i)
    BY <1>2, <1>4, <1>5, <1>7 DEF Descending
  <2> QED
    BY <1>1, <2>1
<1>8. s \in Injection(1 .. n, S)
  BY <1>4, <1>7 DEF Injection, IsInjective
<1>9. s \in Surjection(1 .. n, S)
  BY <1>1, <1>8, FS_Injection DEF n
<1>10. ToSet(s) = S
  BY <1>5, <1>9 DEF ToSet, Surjection
<1>11. NamesDiffer(s)
  BY <1>5, <1>7 DEF NamesDiffer, Distinct
<1> QED
  BY <1>4, <1>6, <1>10, <1>11 DEF s, n

\* Cap keeps the first entries, and all of them if they are no more.
LEMMA CapFacts ==
  ASSUME NEW T, NEW s \in Seq(T), NEW n \in Nat \ {0}
  PROVE  /\ Cap(s, n) \in Seq(T)
         /\ n <= Len(s) => Len(Cap(s, n)) = n
         /\ ~(n <= Len(s)) => Len(Cap(s, n)) = Len(s)
         /\ \A i \in 1 .. Len(Cap(s, n)) : Cap(s, n)[i] = s[i]
         /\ Len(s) <= n => Cap(s, n) = s
         /\ ToSet(Cap(s, n)) \subseteq ToSet(s)
<1> DEFINE m == Min({n, Len(s)})
<1>1. Len(s) \in Nat /\ DOMAIN s = 1 .. Len(s) /\ \A i \in 1 .. Len(s) : s[i] \in T
  OBVIOUS
<1>0. n \in Nat /\ n >= 1
  OBVIOUS
<1>2. (n <= Len(s) => m = n) /\ (~(n <= Len(s)) => m = Len(s))
  <2>1. \E x \in {n, Len(s)} : \A y \in {n, Len(s)} : x =< y
    BY <1>1
  <2>2. m \in {n, Len(s)} /\ \A y \in {n, Len(s)} : m =< y
    BY <2>1 DEF Min
  <2> QED
    BY <1>1, <2>2
<1>3. Cap(s, n) = SubSeq(s, 1, m)
  BY DEF Cap
<1> HIDE DEF m
<1>4. m \in Nat /\ m <= Len(s)
  BY <1>0, <1>1, <1>2
<1>5. Len(Cap(s, n)) = m /\ DOMAIN Cap(s, n) = 1 .. m /\ \A i \in 1 .. m : Cap(s, n)[i] = s[i]
  BY <1>1, <1>3, <1>4
<1>6. Cap(s, n) \in Seq(T)
  BY <1>1, <1>3, <1>4
<1>7. Len(s) <= n => Cap(s, n) = s
  <2>1. SUFFICES ASSUME Len(s) <= n PROVE Cap(s, n) = s
    OBVIOUS
  <2>2. m = Len(s)
    BY <1>0, <1>1, <1>2, <2>1
  <2> QED
    BY <1>1, <1>5, <1>6, <2>2
<1>8. ToSet(Cap(s, n)) \subseteq ToSet(s)
  BY <1>1, <1>4, <1>5 DEF ToSet
<1> QED
  BY <1>2, <1>5, <1>6, <1>7, <1>8

\* What Cap leaves out of a sorted list is older than all it keeps, and it keeps as many
\* as it may.
LEMMA CapKeepsNewest ==
  ASSUME NEW s \in Seq(EntrySet), NEW n \in Nat \ {0}, Descending(s),
         NEW e \in ToSet(s) \ ToSet(Cap(s, n))
  PROVE  /\ Cardinality(ToSet(Cap(s, n))) = n
         /\ \A f \in ToSet(Cap(s, n)) : f.mtime > e.mtime
<1> DEFINE c == Cap(s, n)
<1>1. Len(s) \in Nat /\ DOMAIN s = 1 .. Len(s) /\ \A i \in 1 .. Len(s) : s[i] \in EntrySet
  OBVIOUS
<1>0. n \in Nat /\ n >= 1
  OBVIOUS
<1>2. PICK j \in 1 .. Len(s) : e = s[j]
  BY <1>1 DEF ToSet
<1>3. /\ c \in Seq(EntrySet) /\ (n <= Len(s) => Len(c) = n) /\ (~(n <= Len(s)) => Len(c) = Len(s))
      /\ \A i \in 1 .. Len(c) : c[i] = s[i]
      /\ Len(s) <= n => c = s
  BY CapFacts
<1> HIDE DEF c
<1>4. DOMAIN c = 1 .. Len(c) /\ Len(c) \in Nat
  BY <1>3
<1>5. e \notin ToSet(c)
  BY DEF c
<1>6. ~(j <= Len(c))
  <2>1. SUFFICES ASSUME j <= Len(c) PROVE FALSE
    OBVIOUS
  <2>2. j \in 1 .. Len(c)
    BY <1>1, <1>4, <2>1
  <2>3. c[j] = e /\ j \in DOMAIN c
    BY <1>2, <1>3, <1>4, <2>2
  <2> QED
    BY <1>5, <2>3 DEF ToSet
<1>7. Len(c) = n /\ n < j /\ n <= Len(s)
  <2>1. j \in Nat /\ j <= Len(s)
    BY <1>1
  <2>2. Len(c) # Len(s)
    BY <1>1, <1>4, <1>6, <2>1
  <2>3. n <= Len(s) /\ Len(c) = n
    BY <1>0, <1>1, <1>3, <2>2
  <2> QED
    BY <1>0, <1>6, <2>1, <2>3
<1>8. ASSUME NEW i \in 1 .. n PROVE c[i] = s[i] /\ s[i].mtime > e.mtime
  <2>1. i \in 1 .. Len(s) /\ i \in 1 .. Len(c) /\ i < j
    BY <1>0, <1>1, <1>7
  <2>2. c[i] = s[i]
    BY <1>3, <2>1
  <2>3. s[i].mtime > s[j].mtime
    BY <1>1, <2>1 DEF Descending
  <2> QED
    BY <1>2, <2>2, <2>3
<1>9. \A f \in ToSet(c) : f.mtime > e.mtime
  BY <1>4, <1>7, <1>8 DEF ToSet
<1>10. ASSUME NEW i \in 1 .. n, NEW k \in 1 .. n, c[i] = c[k] PROVE i = k
  <2>1. ASSUME NEW x \in 1 .. n, NEW y \in 1 .. n, x < y PROVE c[x] # c[y]
    <3>0. x \in 1 .. Len(s) /\ y \in 1 .. Len(s)
      BY <1>0, <1>1, <1>7
    <3>1. s[x].mtime > s[y].mtime /\ s[x].mtime \in Nat /\ s[y].mtime \in Nat
      BY <1>1, <2>1, <3>0 DEF Descending, EntrySet
    <3> QED
      BY <1>8, <3>1
  <2> QED
    BY <1>10, <2>1
<1>11. c \in [1 .. n -> ToSet(c)] /\ \A x \in ToSet(c) : \E i \in 1 .. n : c[i] = x
  BY <1>3, <1>4, <1>7 DEF ToSet
<1>12. c \in Bijection(1 .. n, ToSet(c))
  BY <1>10, <1>11 DEF Bijection, Injection, Surjection, IsInjective
<1>13. IsFiniteSet(1 .. n) /\ Cardinality(1 .. n) = n
  BY FS_Interval
<1>14. Cardinality(ToSet(c)) = n
  BY <1>12, <1>13, FS_Bijection DEF ExistsBijection
<1> QED
  BY <1>9, <1>14 DEF c

\* The first of a sorted list is the newest, and Cap keeps it.
LEMMA CapKeepsFirst ==
  ASSUME NEW s \in Seq(EntrySet), NEW n \in Nat \ {0}, Descending(s), NEW e \in ToSet(s)
  PROVE  \E f \in ToSet(Cap(s, n)) : f.mtime >= e.mtime
<1>1. Len(s) \in Nat /\ DOMAIN s = 1 .. Len(s) /\ \A i \in 1 .. Len(s) : s[i] \in EntrySet
  OBVIOUS
<1>0. n \in Nat /\ n >= 1
  OBVIOUS
<1>2. PICK j \in 1 .. Len(s) : e = s[j]
  BY <1>1 DEF ToSet
<1>3. s[1].mtime >= e.mtime
  <2>1. s[1] \in EntrySet /\ s[j] \in EntrySet /\ 1 \in DOMAIN s /\ j \in DOMAIN s
    BY <1>1, <1>2
  <2>2. 1 < j => s[1].mtime > s[j].mtime
    BY <2>1 DEF Descending
  <2>3. j = 1 \/ 1 < j
    BY <1>1, <1>2
  <2>4. s[1].mtime \in Nat /\ s[j].mtime \in Nat
    BY <2>1 DEF EntrySet
  <2> QED
    BY <1>2, <2>2, <2>3, <2>4
<1>4. 1 \in 1 .. Len(Cap(s, n)) /\ Cap(s, n)[1] = s[1] /\ DOMAIN Cap(s, n) = 1 .. Len(Cap(s, n))
  BY <1>1, <1>2, CapFacts
<1> QED
  BY <1>3, <1>4 DEF ToSet

(***************************************************************************)
(* The files.                                                              *)
(***************************************************************************)

\* The types of the files and of the writer.  A file is of the set FileSet, what a walk
\* returns of it of EntrySet.
FileSet  == [line : Lines \cup {Torn}, mtime : Nat]
Files    == [Names -> {NoFile} \cup FileSet]
PathTables == [Names -> [Lines -> Names \cup Misread]]

BudgetSet ==
  [mode : {"auto", "required", "unserved", "off"}, paths : PathTables,
   writes : Nat, sessions : Nat, crashes : Nat, prompts : Nat]

\* The mode and the paths that are read never change.
SameSetup == budget'.mode = budget.mode /\ budget'.paths = budget.paths

\* The stages of an extraction: the first relocation, the agent, the second relocation,
\* and the ways it ends; then those of a save.
Starting  == [kind : {"extract"}, at : {"relocate", "copy"}, round : {1}]
Learning  == [kind : {"extract"}, at : {"agent", "sync"}, since : Nat,
              before : Seq(EntrySet), crowded : BOOLEAN]
Finishing == [kind : {"extract"}, at : {"relocate", "copy"}, since : Nat,
              before : Seq(EntrySet), crowded : BOOLEAN, round : {2}]
Skipped   == [kind : {"extract"}, at : {"release"}, round : {1}, result : {"skipped"}]
Failed    == [kind : {"extract"}, at : {"release"}, since : Nat,
              before : Seq(EntrySet), crowded : BOOLEAN, result : {"failed"}]
Finished  == [kind : {"extract"}, at : {"release"}, since : Nat, before : Seq(EntrySet),
              crowded : BOOLEAN, round : {2}, result : {"completed", "skipped"}]
Archiving == [kind : {"save"}, at : {"archive"}, archives : SUBSET Names, changed : BOOLEAN]
Refused   == [kind : {"save"}, at : {"saved"}, changed : BOOLEAN]
Saved     == [kind : {"save"}, at : {"saved"}, changed : {TRUE}, wrote : EntrySet]
RefusedOver == [kind : {"save"}, at : {"release"}, changed : BOOLEAN,
                result : {"completed", "skipped"}]
SavedOver   == [kind : {"save"}, at : {"release"}, changed : {TRUE}, wrote : EntrySet,
                result : {"completed", "skipped"}]

WriterSet ==
  {Free} \cup Starting \cup Learning \cup Finishing \cup Skipped \cup Failed \cup Finished
    \cup Archiving \cup Refused \cup Saved \cup RefusedOver \cup SavedOver

StoreTypes ==
  /\ clock \in Nat
  /\ typed \in Files /\ root \in Files
  /\ due \in [Names -> Lines \cup {NoFile}]
  /\ removed \subseteq Names /\ damaged \subseteq Names
  /\ writer \in WriterSet
  /\ budget \in BudgetSet

\* A file is not NoFile.
LEMMA FileFacts ==
  /\ NoFile \notin FileSet /\ NoFile \notin Lines /\ Torn \notin Lines
  /\ \A line \in Lines \cup {Torn}, t \in Nat :
       File(line, t) \in FileSet /\ File(line, t) # NoFile
         /\ File(line, t).line = line /\ File(line, t).mtime = t
  /\ IsFiniteSet(Names)
  /\ MaxLines \in Nat \ {0} /\ Limit \in Nat \ {0} /\ ScanCap \in Nat \ {0}
BY MemoryStoreAssumption DEF FileSet, File

\* What a directory holds of a memory.
LEMMA DirFacts ==
  ASSUME NEW dir \in Files, NEW n \in Names, dir[n] # NoFile
  PROVE  dir[n] \in FileSet /\ dir[n].line \in Lines \cup {Torn} /\ dir[n].mtime \in Nat
BY DEF Files, FileSet

\* What a walk returns of the type directory.
LEMMA EntriesFacts ==
  ASSUME NEW dir \in Files
  PROVE  /\ Readable(dir) \subseteq Names /\ IsFiniteSet(Readable(dir))
         /\ \A n \in Readable(dir) :
              /\ dir[n] # NoFile /\ dir[n].line \in Lines /\ dir[n].mtime \in Nat
              /\ Entry(n, dir[n]) \in Entries(dir)
         /\ Entries(dir) \in SUBSET EntrySet /\ IsFiniteSet(Entries(dir))
         /\ \A e \in Entries(dir) :
              /\ e.name \in Readable(dir) /\ e = Entry(e.name, dir[e.name])
              /\ e.line = dir[e.name].line /\ e.mtime = dir[e.name].mtime
         /\ Cardinality(Entries(dir)) <= Cardinality(Readable(dir))
<1>1. Readable(dir) \subseteq Names /\ IsFiniteSet(Readable(dir))
  <2>1. Readable(dir) \in SUBSET Names
    BY DEF Readable, Present
  <2> QED
    BY <2>1, FileFacts, FS_Subset
<1>2. ASSUME NEW n \in Readable(dir)
      PROVE  /\ dir[n] # NoFile /\ dir[n].line \in Lines /\ dir[n].mtime \in Nat
             /\ Entry(n, dir[n]) \in Entries(dir)
  <2>1. n \in Names /\ dir[n] # NoFile /\ dir[n].line # Torn
    BY DEF Readable, Present
  <2> QED
    BY <2>1, DirFacts DEF Entries
<1>3. ASSUME NEW e \in Entries(dir)
      PROVE  /\ e.name \in Readable(dir) /\ e = Entry(e.name, dir[e.name])
             /\ e.line = dir[e.name].line /\ e.mtime = dir[e.name].mtime
             /\ e \in EntrySet
  <2>1. PICK n \in Readable(dir) : e = Entry(n, dir[n])
    BY DEF Entries
  <2>2. e = [name |-> n, line |-> dir[n].line, mtime |-> dir[n].mtime]
    BY <2>1 DEF Entry
  <2>3. n \in Names /\ dir[n].line \in Lines /\ dir[n].mtime \in Nat
    BY <1>1, <1>2
  <2>4. e.name = n /\ e.line = dir[n].line /\ e.mtime = dir[n].mtime /\ e \in EntrySet
    BY <2>2, <2>3 DEF EntrySet
  <2> QED
    BY <2>1, <2>4
<1>4. IsFiniteSet(Entries(dir)) /\ Cardinality(Entries(dir)) <= Cardinality(Readable(dir))
  <2> DEFINE f == [n \in Readable(dir) |-> Entry(n, dir[n])]
  <2>1. f \in Surjection(Readable(dir), Entries(dir))
    BY <1>2, <1>3 DEF Surjection
  <2> HIDE DEF f
  <2> QED
    BY <1>1, <2>1, FS_Surjection
<1> QED
  BY <1>1, <1>2, <1>3, <1>4

\* Nothing is newer than the clock.  What lies in the root was written in one piece.
StampInv ==
  \A n \in Names :
    /\ typed[n] # NoFile => typed[n].mtime >= 1 /\ typed[n].mtime <= clock
    /\ root[n] # NoFile =>
         root[n].mtime >= 1 /\ root[n].mtime <= clock /\ root[n].line # Torn

\* A write makes the newest file: no two memories have files of the same mtime.
StampsDiffer ==
  \A m, n \in Names : m # n =>
    /\ typed[m] # NoFile /\ typed[n] # NoFile => typed[m].mtime # typed[n].mtime
    /\ root[m] # NoFile /\ root[n] # NoFile => root[m].mtime # root[n].mtime
    /\ typed[m] # NoFile /\ root[n] # NoFile => typed[m].mtime # root[n].mtime

\* The copy in progress is of an older file in the root over the newest file of all.  A
\* file is torn while it is copied, or it is damaged.
Copying == writer.at = "copy"

CopyInv ==
  Copying =>
    \E n \in Names :
      /\ root[n] # NoFile /\ typed[n] # NoFile
      /\ typed[n].mtime = clock /\ root[n].mtime < clock
      /\ typed[n].line \in {Torn, root[n].line}

TornInv ==
  \A n \in Names \ damaged :
    typed[n] # NoFile /\ typed[n].line = Torn => Copying /\ typed[n].mtime = clock

\* The newest of the files that can be read holds what was written last.
Holds(f) == f # NoFile /\ f.line # Torn

DueOf(n) ==
  /\ due[n] = NoFile => ~Holds(typed[n]) /\ ~Holds(root[n])
  /\ due[n] # NoFile => Holds(typed[n]) \/ Holds(root[n])
  /\ Holds(typed[n]) /\ (Holds(root[n]) => typed[n].mtime >= root[n].mtime) =>
       typed[n].line = due[n]
  /\ Holds(root[n]) /\ (Holds(typed[n]) => root[n].mtime >= typed[n].mtime) =>
       root[n].line = due[n]

DueInv == \A n \in Names \ damaged : DueOf(n)

FileInv == StoreTypes /\ StampInv /\ StampsDiffer /\ CopyInv /\ TornInv /\ DueInv

\* The stage of a writer tells what its record holds.
LEMMA Stages ==
  ASSUME NEW w \in WriterSet
  PROVE  /\ w.at = "free" <=> w = Free
         /\ w.at \in {"relocate", "copy"} => w \in Starting \cup Finishing
         /\ w.at \in {"relocate", "copy"} /\ w.round = 1 => w \in Starting
         /\ w.at \in {"relocate", "copy"} /\ w.round = 2 => w \in Finishing
         /\ w.at \in {"agent", "sync"} => w \in Learning
         /\ w.at = "archive" => w \in Archiving
         /\ w.at = "saved" => w \in Refused \cup Saved
         /\ w.at = "release" => w \in Skipped \cup Failed \cup Finished \cup RefusedOver \cup SavedOver
         /\ w.at \in {"free", "relocate", "copy", "agent", "sync", "archive", "saved", "release"}
         /\ w = Free \/ w.kind \in {"extract", "save"}
<1>1. Free.at = "free"
  BY DEF Free
<1>2. w \in Starting => w.at \in {"relocate", "copy"} /\ w.round = 1 /\ w.kind = "extract"
  BY DEF Starting
<1>3. w \in Finishing => w.at \in {"relocate", "copy"} /\ w.round = 2 /\ w.kind = "extract"
  BY DEF Finishing
<1>4. w \in Learning => w.at \in {"agent", "sync"} /\ w.kind = "extract"
  BY DEF Learning
<1>5. w \in Skipped \cup Failed \cup Finished => w.at = "release" /\ w.kind = "extract"
  BY DEF Skipped, Failed, Finished
<1>6. w \in Archiving => w.at = "archive" /\ w.kind = "save"
  BY DEF Archiving
<1>7. w \in Refused \cup Saved => w.at = "saved" /\ w.kind = "save"
  BY DEF Refused, Saved
<1>8. w \in RefusedOver \cup SavedOver => w.at = "release" /\ w.kind = "save"
  BY DEF RefusedOver, SavedOver
<1>9. \/ w = Free \/ w \in Starting \/ w \in Learning \/ w \in Finishing
      \/ w \in Skipped \cup Failed \cup Finished
      \/ w \in Archiving \/ w \in Refused \cup Saved \/ w \in RefusedOver \cup SavedOver
  BY DEF WriterSet
<1> QED
  BY <1>1, <1>2, <1>3, <1>4, <1>5, <1>6, <1>7, <1>8, <1>9

\* A writer that goes on within its stage, and one that releases the lock.
LEMMA StartingMoves ==
  ASSUME NEW w \in Starting, NEW at \in {"relocate", "copy"}
  PROVE  [w EXCEPT !.at = at] \in Starting /\ [w EXCEPT !.at = at].at = at
BY DEF Starting

LEMMA FinishingMoves ==
  ASSUME NEW w \in Finishing, NEW at \in {"relocate", "copy"}
  PROVE  /\ [w EXCEPT !.at = at] \in Finishing /\ [w EXCEPT !.at = at].at = at
         /\ [w EXCEPT !.at = at].since = w.since /\ [w EXCEPT !.at = at].before = w.before
         /\ [w EXCEPT !.at = at].crowded = w.crowded
BY DEF Finishing

LEMMA LearningMoves ==
  ASSUME NEW w \in Learning, NEW at \in {"agent", "sync"}
  PROVE  /\ [w EXCEPT !.at = at] \in Learning /\ [w EXCEPT !.at = at].at = at
         /\ [w EXCEPT !.at = at].since = w.since /\ [w EXCEPT !.at = at].before = w.before
         /\ [w EXCEPT !.at = at].crowded = w.crowded
BY DEF Learning

LEMMA LearningEnds ==
  ASSUME NEW w \in Learning, NEW v, v = [w EXCEPT !.at = "relocate"] ++ [round |-> 2]
  PROVE  /\ v \in Finishing /\ v.at = "relocate"
         /\ v.since = w.since /\ v.before = w.before /\ v.crowded = w.crowded
BY DEF Learning, Finishing, ++

(***************************************************************************)
(* What the steps do to the files.                                         *)
(***************************************************************************)

FilesStay == UNCHANGED <<typed, root, clock, due, removed>>

Writes(n, line) ==
  /\ clock' = clock + 1
  /\ typed' = [typed EXCEPT ![n] = File(line, clock + 1)]
  /\ due' = [due EXCEPT ![n] = line]
  /\ UNCHANGED <<root, removed, damaged>>

WritesToRoot(n, line) ==
  /\ clock' = clock + 1
  /\ root' = [root EXCEPT ![n] = File(line, clock + 1)]
  /\ due' = [due EXCEPT ![n] = line]
  /\ UNCHANGED <<typed, removed, damaged>>

Removes(n) ==
  /\ typed' = [typed EXCEPT ![n] = NoFile]
  /\ due' = [due EXCEPT ![n] = IF root[n] = NoFile THEN NoFile ELSE root[n].line]
  /\ removed \subseteq removed' /\ removed' \subseteq removed \cup {n}
  /\ typed[n] # NoFile => n \in removed'
  /\ UNCHANGED <<root, clock, damaged>>

Moves(n) ==
  /\ root[n] # NoFile /\ typed[n] = NoFile
  /\ typed' = [typed EXCEPT ![n] = root[n]]
  /\ root' = [root EXCEPT ![n] = NoFile]
  /\ UNCHANGED <<clock, due, removed, damaged>>

Drops(n) ==
  /\ RootIsOlder(n)
  /\ root' = [root EXCEPT ![n] = NoFile]
  /\ UNCHANGED <<typed, clock, due, removed, damaged>>

CopyBegins(n) ==
  /\ root[n] # NoFile /\ typed[n] # NoFile /\ ~RootIsOlder(n)
  /\ clock' = clock + 1
  /\ typed' = [typed EXCEPT ![n] = File(Torn, clock + 1)]
  /\ UNCHANGED <<root, due, removed, damaged>>

CopyGoesOn(n) ==
  /\ root[n] # NoFile /\ typed[n] # NoFile /\ typed[n].mtime = clock
  /\ typed[n].line = Torn
  /\ typed' = [typed EXCEPT ![n].line = root[n].line]
  /\ UNCHANGED <<root, clock, due, removed, damaged>>

CopyEnds(n) ==
  /\ root[n] # NoFile /\ typed[n] # NoFile /\ typed[n].mtime = clock
  /\ typed[n].line # Torn
  /\ root' = [root EXCEPT ![n] = NoFile]
  /\ UNCHANGED <<typed, clock, due, removed, damaged>>

\* Each action of a writer is one of them: it is copying from CopyBegins to CopyEnds.

FileStep ==
  \/ FilesStay /\ UNCHANGED damaged /\ (Copying' <=> Copying)
  \/ FilesStay /\ damaged' = damaged \cup (Present(typed) \ Readable(typed)) /\ ~Copying'
  \/ ~Copying /\ ~Copying' /\ \E n \in Names, line \in Lines : Writes(n, line) \/ WritesToRoot(n, line)
  \/ ~Copying /\ ~Copying' /\ \E n \in Names : Removes(n) \/ Moves(n) \/ Drops(n)
  \/ ~Copying /\ Copying' /\ \E n \in Names : CopyBegins(n)
  \/ Copying /\ Copying' /\ \E n \in Names : CopyGoesOn(n)
  \/ Copying /\ ~Copying' /\ \E n \in Names : CopyEnds(n)

\* The type of the writer after each of its actions, and what it remembers.
WriterMoves ==
  /\ writer' \in WriterSet
  /\ budget' \in BudgetSet /\ SameSetup

LEMMA BudgetSpent ==
  ASSUME NEW b \in BudgetSet
  PROVE  /\ b.sessions > 0 => [b EXCEPT !.sessions = @ - 1] \in BudgetSet
                                /\ [b EXCEPT !.sessions = @ - 1].mode = b.mode
                                /\ [b EXCEPT !.sessions = @ - 1].paths = b.paths
         /\ b.writes > 0 => [b EXCEPT !.writes = @ - 1] \in BudgetSet
                              /\ [b EXCEPT !.writes = @ - 1].mode = b.mode
                              /\ [b EXCEPT !.writes = @ - 1].paths = b.paths
         /\ b.crashes > 0 => [b EXCEPT !.crashes = @ - 1] \in BudgetSet
                               /\ [b EXCEPT !.crashes = @ - 1].mode = b.mode
                               /\ [b EXCEPT !.crashes = @ - 1].paths = b.paths
         /\ b.prompts > 0 => [b EXCEPT !.prompts = @ - 1] \in BudgetSet
                               /\ [b EXCEPT !.prompts = @ - 1].mode = b.mode
                               /\ [b EXCEPT !.prompts = @ - 1].paths = b.paths
BY DEF BudgetSet

\* The relocation at the start of an extraction and at its end.
LEMMA RelocationSteps ==
  ASSUME StoreTypes, NEW n \in Names,
         RelocateFree(n) \/ RelocateOlder(n) \/ RelocateCopy(n) \/ RelocateCopied(n)
  PROVE  /\ FileStep /\ WriterMoves
         /\ UNCHANGED <<index, cache>>
         /\ writer \in Starting => writer' \in Starting
         /\ writer \in Finishing => writer' \in Finishing /\ writer'.since = writer.since
              /\ writer'.before = writer.before /\ writer'.crowded = writer.crowded
         /\ writer \in Starting \cup Finishing
<1>0. writer \in WriterSet /\ budget \in BudgetSet
  BY DEF StoreTypes
<1>1. writer.at \in {"relocate", "copy"} /\ writer \in Starting \cup Finishing
  <2>1. writer.at \in {"relocate", "copy"}
    BY DEF RelocateFree, RelocateOlder, RelocateCopy, RelocateCopied
  <2> QED
    BY <1>0, <2>1, Stages
<1>2. writer' = writer \/ \E at \in {"relocate", "copy"} : writer' = [writer EXCEPT !.at = at]
  BY DEF RelocateFree, RelocateOlder, RelocateCopy, RelocateCopied
<1>3. /\ writer \in Starting => writer' \in Starting
      /\ writer \in Finishing => writer' \in Finishing /\ writer'.since = writer.since
           /\ writer'.before = writer.before /\ writer'.crowded = writer.crowded
  <2>1. CASE writer' = writer
    BY <2>1
  <2>2. ASSUME NEW at \in {"relocate", "copy"}, writer' = [writer EXCEPT !.at = at]
        PROVE  /\ writer \in Starting => writer' \in Starting
               /\ writer \in Finishing => writer' \in Finishing /\ writer'.since = writer.since
                    /\ writer'.before = writer.before /\ writer'.crowded = writer.crowded
    <3> DEFINE w == [writer EXCEPT !.at = at]
    <3>1. writer \in Starting => w \in Starting
      BY StartingMoves
    <3>2. writer \in Finishing => w \in Finishing /\ w.since = writer.since
            /\ w.before = writer.before /\ w.crowded = writer.crowded
      BY FinishingMoves
    <3>3. writer' = w
      BY <2>2
    <3> HIDE DEF w
    <3> QED
      BY <3>1, <3>2, <3>3
  <2> QED
    BY <1>2, <2>1, <2>2
<1>4. budget' = budget /\ UNCHANGED <<index, cache>>
  BY DEF RelocateFree, RelocateOlder, RelocateCopy, RelocateCopied
<1>5. WriterMoves
  BY <1>0, <1>1, <1>3, <1>4 DEF SameSetup, WriterMoves, WriterSet
<1>6. ASSUME writer' = [writer EXCEPT !.at = "copy"] PROVE Copying'
  BY <1>1, <1>6, StartingMoves, FinishingMoves DEF Copying
<1>7. ASSUME writer' = [writer EXCEPT !.at = "relocate"] PROVE ~Copying'
  BY <1>1, <1>7, StartingMoves, FinishingMoves DEF Copying
<1>8. FileStep
  <2>1. CASE RelocateFree(n)
    <3>1. Moves(n) /\ ~Copying /\ ~Copying'
      BY <2>1 DEF RelocateFree, Moves, Copying
    <3> QED
      BY <3>1 DEF FileStep
  <2>2. CASE RelocateOlder(n)
    <3>1. Drops(n) /\ ~Copying /\ ~Copying'
      BY <2>2 DEF RelocateOlder, Drops, Copying
    <3> QED
      BY <3>1 DEF FileStep
  <2>3. CASE RelocateCopy(n)
    <3>1. CopyBegins(n) /\ ~Copying /\ Copying'
      BY <1>6, <2>3 DEF RelocateCopy, CopyBegins, Copying
    <3> QED
      BY <3>1 DEF FileStep
  <2>4. CASE RelocateCopied(n)
    <3>1. Copying
      BY <2>4 DEF RelocateCopied, Copying
    <3>2. CASE typed[n].line = Torn
      <4>1. CopyGoesOn(n) /\ writer' = writer
        BY <2>4, <3>2 DEF RelocateCopied, CopyGoesOn
      <4> QED
        BY <3>1, <4>1 DEF FileStep, Copying
    <3>3. CASE typed[n].line # Torn
      <4>1. CopyEnds(n) /\ ~Copying'
        BY <1>7, <2>4, <3>3 DEF RelocateCopied, CopyEnds
      <4> QED
        BY <3>1, <4>1 DEF FileStep
    <3> QED
      BY <3>2, <3>3
  <2> QED
    BY <2>1, <2>2, <2>3, <2>4
<1> QED
  BY <1>1, <1>3, <1>4, <1>5, <1>8

\* What a writer's step does to the rest: prompt builds are told of each change of the
\* type directory, and MEMORY.md is left alone or rewritten from a walk of it.
OthersStep ==
  /\ Watch(typed') \/ (prompt' = prompt /\ typed' = typed)
  /\ index' = index \/ (typed' = typed /\ index' = NewestFirst(Entries(typed)))
  /\ cache' = cache

WriterStep == FileStep /\ WriterMoves /\ OthersStep

\* The memories of the type directory differ in name and mtime.
LEMMA EntriesDiffer ==
  ASSUME typed \in Files, StampsDiffer
  PROVE  Distinct(Entries(typed)) /\ NewestFirst(Entries(typed)) \in Seq(EntrySet)
<1>1. ASSUME NEW e \in Entries(typed), NEW f \in Entries(typed), e.name = f.name \/ e.mtime = f.mtime
      PROVE  e = f
  <2>1. /\ e.name \in Names /\ typed[e.name] # NoFile /\ e.mtime = typed[e.name].mtime
        /\ f.name \in Names /\ typed[f.name] # NoFile /\ f.mtime = typed[f.name].mtime
        /\ e = Entry(e.name, typed[e.name]) /\ f = Entry(f.name, typed[f.name])
    BY EntriesFacts
  <2>2. e.name = f.name
    BY <1>1, <2>1 DEF StampsDiffer
  <2> QED
    BY <2>1, <2>2
<1>2. Distinct(Entries(typed))
  BY <1>1 DEF Distinct
<1> QED
  BY <1>2, EntriesFacts, NewestFirstFacts

LEMMA WriteSteps ==
  ASSUME StoreTypes, NEW n \in Names, NEW line \in Lines, NEW request \in Requests,
         AgentWrite(n, line, request) \/ AgentEdit(n, line, request)
  PROVE  /\ WriterStep /\ Writes(n, line)
         /\ writer \in Learning /\ writer' \in Learning /\ writer'.since = writer.since
         /\ writer'.before = writer.before /\ writer'.crowded = writer.crowded
<1>0. writer \in WriterSet /\ budget \in BudgetSet
  BY DEF StoreTypes
<1>1. /\ writer.at = "agent" /\ Store(n, line) /\ writer' = [writer EXCEPT !.at = "sync"]
      /\ UNCHANGED <<root, index, cache, removed, damaged>>
  BY DEF AgentWrite, AgentEdit
<1>2. writer \in Learning
  BY <1>0, <1>1, Stages
<1>3. /\ writer' \in Learning /\ writer'.at = "sync" /\ writer'.since = writer.since
      /\ writer'.before = writer.before /\ writer'.crowded = writer.crowded
  BY <1>1, <1>2, LearningMoves
<1>4. Writes(n, line) /\ Watch(typed') /\ budget.writes > 0 /\ budget' = [budget EXCEPT !.writes = @ - 1]
  BY <1>1 DEF Store, Writes
<1>5. WriterMoves
  BY <1>0, <1>3, <1>4, BudgetSpent DEF SameSetup, WriterMoves, WriterSet
<1>6. FileStep
  BY <1>1, <1>3, <1>4 DEF FileStep, Copying
<1> QED
  BY <1>1, <1>2, <1>3, <1>4, <1>5, <1>6 DEF WriterStep, OthersStep

LEMMA CommandSteps ==
  ASSUME StoreTypes, NEW n \in Names, NEW ok \in BOOLEAN,
         BashRemove(n, ok) \/ \E line \in Lines, dir \in {"typed", "root"} : BashWrite(n, line, dir, ok)
  PROVE  /\ WriterStep
         /\ Removes(n) \/ \E line \in Lines : Writes(n, line) \/ WritesToRoot(n, line)
         /\ writer \in Learning /\ writer' \in Learning /\ writer'.since = writer.since
         /\ writer'.before = writer.before /\ writer'.crowded = writer.crowded
<1>0. writer \in WriterSet /\ budget \in BudgetSet
  BY DEF StoreTypes
<1>1. writer.at = "agent" /\ AfterCommand(ok) /\ Watch(typed') /\ UNCHANGED <<index, cache>>
  BY DEF BashRemove, BashWrite
<1>2. writer \in Learning
  BY <1>0, <1>1, Stages
<1>3. /\ writer' \in Learning /\ ~Copying /\ ~Copying' /\ writer'.since = writer.since
      /\ writer'.before = writer.before /\ writer'.crowded = writer.crowded
  <2>1. CASE writer' = writer
    BY <1>1, <1>2, <2>1 DEF Copying
  <2>2. CASE writer' = [writer EXCEPT !.at = "sync"]
    BY <1>1, <1>2, <2>2, LearningMoves DEF Copying
  <2> QED
    BY <1>1, <2>1, <2>2 DEF AfterCommand
<1>4. CASE BashRemove(n, ok)
  <2>1. Removes(n) /\ budget' = budget
    BY <1>4 DEF BashRemove, Removes
  <2>2. WriterMoves
    BY <1>0, <1>3, <2>1 DEF SameSetup, WriterMoves, WriterSet
  <2>3. FileStep
    BY <1>3, <2>1 DEF FileStep
  <2> QED
    BY <1>1, <1>2, <1>3, <2>1, <2>2, <2>3 DEF WriterStep, OthersStep
<1>5. ASSUME NEW line \in Lines, NEW dir \in {"typed", "root"}, BashWrite(n, line, dir, ok)
      PROVE  /\ WriterStep
             /\ Writes(n, line) \/ WritesToRoot(n, line)
  <2>1. Writes(n, line) \/ WritesToRoot(n, line)
    BY <1>5 DEF BashWrite, Writes, WritesToRoot
  <2>2. budget.writes > 0 /\ budget' = [budget EXCEPT !.writes = @ - 1]
    BY <1>5 DEF BashWrite
  <2>3. WriterMoves
    BY <1>0, <1>3, <2>2, BudgetSpent DEF SameSetup, WriterMoves, WriterSet
  <2>4. FileStep
    BY <1>3, <2>1 DEF FileStep
  <2> QED
    BY <1>1, <2>1, <2>3, <2>4 DEF WriterStep, OthersStep
<1> QED
  BY <1>2, <1>3, <1>4, <1>5

LEMMA ArchiveSteps ==
  ASSUME StoreTypes, NEW n \in Names, SaveArchive(n)
  PROVE  /\ WriterStep /\ Removes(n)
         /\ writer \in Archiving /\ writer' \in Archiving
<1>0. writer \in WriterSet /\ budget \in BudgetSet
  BY DEF StoreTypes
<1>1. writer.at = "archive" /\ Removes(n) /\ Watch(typed') /\ UNCHANGED <<index, cache, budget>>
  BY DEF SaveArchive, Removes
<1>2. writer \in Archiving
  BY <1>0, <1>1, Stages
<1>3. writer' = [writer EXCEPT !.archives = @ \ {n}, !.changed = @ \/ typed[n] # NoFile]
  BY DEF SaveArchive
<1>4. writer' \in Archiving
  BY <1>2, <1>3 DEF Archiving
<1>5. ~Copying /\ ~Copying'
  BY <1>2, <1>4 DEF Copying, Archiving
<1>6. WriterMoves /\ FileStep
  BY <1>0, <1>1, <1>4, <1>5 DEF SameSetup, WriterMoves, WriterSet, FileStep
<1> QED
  BY <1>1, <1>2, <1>4, <1>6 DEF WriterStep, OthersStep

LEMMA SaveSteps ==
  ASSUME StoreTypes, NEW n \in Names, NEW line \in Lines, NEW request \in Requests,
         SaveWrite(n, line, request)
  PROVE  /\ WriterStep /\ Writes(n, line)
         /\ writer \in Archiving /\ writer' \in Saved
         /\ writer'.wrote = Entry(n, typed'[n])
<1>0. writer \in WriterSet /\ budget \in BudgetSet /\ clock \in Nat /\ typed \in Files
  BY DEF StoreTypes
<1>1. writer.at = "archive" /\ Store(n, line) /\ UNCHANGED <<root, index, cache, removed, damaged>>
      /\ writer' = [kind |-> "save", at |-> "saved", changed |-> TRUE, wrote |-> Entry(n, typed'[n])]
  BY DEF SaveWrite
<1>2. writer \in Archiving
  BY <1>0, <1>1, Stages
<1>3. Writes(n, line) /\ Watch(typed') /\ budget.writes > 0 /\ budget' = [budget EXCEPT !.writes = @ - 1]
  BY <1>1 DEF Store, Writes
<1>4. Entry(n, typed'[n]) \in EntrySet
  <2>1. typed'[n] = File(line, clock + 1)
    BY <1>0, <1>3 DEF Writes, Files
  <2>2. typed'[n].line = line /\ typed'[n].mtime = clock + 1
    BY <1>0, <2>1, FileFacts
  <2> QED
    BY <1>0, <2>2 DEF Entry, EntrySet
<1>5. writer' \in Saved /\ writer'.wrote = Entry(n, typed'[n]) /\ ~Copying /\ ~Copying'
  BY <1>1, <1>4 DEF Saved, Copying
<1>6. WriterMoves
  BY <1>0, <1>3, <1>5, BudgetSpent DEF SameSetup, WriterMoves, WriterSet
<1>7. FileStep
  BY <1>3, <1>5 DEF FileStep
<1> QED
  BY <1>1, <1>2, <1>3, <1>5, <1>6, <1>7 DEF WriterStep, OthersStep

\* The steps of a writer that leave the files alone.
Quiet == FilesStay /\ damaged' = damaged /\ prompt' = prompt

LEMMA QuietIsStep ==
  ASSUME StoreTypes, Quiet, writer' \in WriterSet, ~Copying, ~Copying',
         budget' \in BudgetSet, SameSetup,
         index' = index \/ index' = NewestFirst(Entries(typed)), cache' = cache
  PROVE  WriterStep
BY DEF SameSetup, WriterStep, FileStep, WriterMoves, OthersStep, Quiet, FilesStay

LEMMA BeginSteps ==
  ASSUME StoreTypes, ExtractBegin \/ \E archives \in SUBSET Names : SaveBegin(archives)
  PROVE  /\ WriterStep /\ Quiet
         /\ writer = Free /\ writer' \in Starting \cup Archiving
<1>0. writer \in WriterSet /\ budget \in BudgetSet
  BY DEF StoreTypes
<1>1. /\ writer = Free /\ Quiet /\ budget.sessions > 0
      /\ budget' = [budget EXCEPT !.sessions = @ - 1] /\ UNCHANGED <<index, cache>>
  BY DEF ExtractBegin, SaveBegin, Quiet, FilesStay
<1>2. writer' \in Starting \cup Archiving /\ writer'.at \in {"relocate", "archive"}
  <2>1. CASE ExtractBegin
    BY <2>1 DEF ExtractBegin, Starting
  <2>2. ASSUME NEW archives \in SUBSET Names, SaveBegin(archives)
        PROVE  writer' \in Archiving /\ writer'.at = "archive"
    BY <2>2 DEF SaveBegin, Archiving
  <2> QED
    BY <2>1, <2>2
<1>3. ~Copying /\ ~Copying'
  BY <1>1, <1>2 DEF Copying, Free
<1>4. writer' \in WriterSet
  BY <1>2 DEF WriterSet
<1>5. budget' \in BudgetSet /\ SameSetup
  BY <1>0, <1>1, BudgetSpent DEF SameSetup
<1> QED
  BY <1>1, <1>2, <1>3, <1>4, <1>5, QuietIsStep

LEMMA SkipSteps ==
  ASSUME StoreTypes, SelectNothing
  PROVE  WriterStep /\ Quiet /\ writer' \in Skipped
<1>0. writer \in WriterSet /\ budget \in BudgetSet
  BY DEF StoreTypes
<1>1. /\ writer.at = "relocate" /\ writer.round = 1 /\ writer' = Release("skipped")
      /\ Quiet /\ UNCHANGED <<index, cache, budget>>
  BY DEF SelectNothing, Quiet, FilesStay
<1>2. writer \in Starting
  BY <1>0, <1>1, Stages
<1>3. writer' \in Skipped
  BY <1>1, <1>2 DEF Release, ++, Starting, Skipped
<1>4. ~Copying /\ ~Copying'
  BY <1>1, <1>3 DEF Copying, Skipped
<1>5. writer' \in WriterSet
  BY <1>3 DEF WriterSet
<1> QED
  BY <1>0, <1>1, <1>3, <1>4, <1>5, QuietIsStep DEF SameSetup

LEMMA WindowSteps ==
  ASSUME StoreTypes, StampsDiffer, SelectWindow
  PROVE  /\ WriterStep /\ Quiet /\ Present(root) = {}
         /\ writer' \in Learning /\ writer'.since = clock
         /\ writer'.before = Cap(NewestFirst(Entries(typed)), ScanCap)
         /\ writer'.crowded <=> Cardinality(Readable(typed)) > ScanCap
<1>0. writer \in WriterSet /\ budget \in BudgetSet /\ clock \in Nat /\ typed \in Files
  BY DEF StoreTypes
<1> DEFINE before == Cap(NewestFirst(Entries(typed)), ScanCap)
           crowded == Cardinality(Readable(typed)) > ScanCap
<1>1. /\ writer.at = "relocate" /\ Present(root) = {}
      /\ writer' = [kind |-> "extract", at |-> "agent", since |-> clock, before |-> before,
                    crowded |-> crowded]
      /\ Quiet /\ UNCHANGED <<index, cache, budget>>
  BY DEF SelectWindow, Quiet, FilesStay
<1>2. before \in Seq(EntrySet) /\ crowded \in BOOLEAN
  <2>1. NewestFirst(Entries(typed)) \in Seq(EntrySet) /\ ScanCap \in Nat \ {0}
    BY <1>0, EntriesDiffer, FileFacts
  <2>2. before \in Seq(EntrySet)
    BY <2>1, CapFacts
  <2> QED
    BY <2>2
<1> HIDE DEF before, crowded
<1>3. writer' \in Learning /\ writer'.since = clock /\ writer'.before = before
      /\ (writer'.crowded <=> crowded) /\ writer'.at = "agent"
  BY <1>0, <1>1, <1>2 DEF Learning
<1>4. ~Copying /\ ~Copying'
  BY <1>1, <1>3 DEF Copying
<1>5. writer' \in WriterSet
  BY <1>3 DEF WriterSet
<1>6. WriterStep
  BY <1>0, <1>1, <1>4, <1>5, QuietIsStep DEF SameSetup
<1> QED
  BY <1>1, <1>3, <1>6 DEF before, crowded

LEMMA AgentSteps ==
  ASSUME StoreTypes, ToolSync \/ AgentThrows \/ AgentDone
  PROVE  /\ WriterStep /\ Quiet /\ writer \in Learning
         /\ writer' \in Failed \cup Learning \cup Finishing
         /\ writer' \notin Failed =>
              /\ writer'.since = writer.since /\ writer'.before = writer.before
              /\ writer'.crowded = writer.crowded
<1>0. writer \in WriterSet /\ budget \in BudgetSet
  BY DEF StoreTypes
<1>1. /\ writer.at \in {"agent", "sync"} /\ Quiet /\ UNCHANGED <<cache, budget>>
      /\ index' = index \/ index' = NewestFirst(Entries(typed))
  BY DEF ToolSync, AgentThrows, AgentDone, Quiet, FilesStay
<1>2. writer \in Learning
  BY <1>0, <1>1, Stages
<1>3. /\ writer' \in Failed \cup Learning \cup Finishing /\ writer'.at # "copy"
      /\ writer' \notin Failed =>
           /\ writer'.since = writer.since /\ writer'.before = writer.before
           /\ writer'.crowded = writer.crowded
  <2>1. CASE ToolSync
    <3>1. writer' = [writer EXCEPT !.at = "agent"]
      BY <2>1 DEF ToolSync
    <3> QED
      BY <1>2, <3>1, LearningMoves
  <2>2. CASE AgentThrows
    <3>1. writer' = Release("failed")
      BY <2>2 DEF AgentThrows
    <3>2. writer' \in Failed /\ writer'.at = "release"
      BY <1>2, <3>1 DEF Release, ++, Learning, Failed
    <3> QED
      BY <3>2
  <2>3. CASE AgentDone
    <3>1. writer' = [writer EXCEPT !.at = "relocate"] ++ [round |-> 2]
      BY <2>3 DEF AgentDone
    <3> QED
      BY <1>2, <3>1, LearningEnds
  <2> QED
    BY <2>1, <2>2, <2>3
<1>4. ~Copying /\ ~Copying'
  BY <1>1, <1>3 DEF Copying
<1>5. writer' \in WriterSet
  BY <1>3 DEF WriterSet
<1> QED
  BY <1>0, <1>1, <1>2, <1>3, <1>4, <1>5, QuietIsStep DEF SameSetup

LEMMA FinishSteps ==
  ASSUME StoreTypes, ExtractFinish
  PROVE  /\ WriterStep /\ Quiet /\ writer \in Finishing /\ writer' \in Finished
         /\ writer'.since = writer.since /\ writer'.crowded = writer.crowded
         /\ writer'.result = "completed" <=>
              CountChanges(writer.before, Cap(NewestFirst(Entries(typed)), ScanCap)) > 0
<1>0. writer \in WriterSet /\ budget \in BudgetSet
  BY DEF StoreTypes
<1> DEFINE count == CountChanges(writer.before, Cap(NewestFirst(Entries(typed)), ScanCap))
           result == IF count > 0 THEN "completed" ELSE "skipped"
<1>1. /\ writer.at = "relocate" /\ writer.round = 2 /\ Quiet /\ UNCHANGED <<cache, budget>>
      /\ index' = NewestFirst(Entries(typed))
      /\ writer' = Release(result)
  BY DEF ExtractFinish, Quiet, FilesStay
<1>2. writer \in Finishing
  BY <1>0, <1>1, Stages
<1>3. result \in {"completed", "skipped"} /\ (result = "completed" <=> count > 0)
  OBVIOUS
<1> HIDE DEF result, count
<1>4. writer' \in Finished /\ writer'.since = writer.since /\ writer'.crowded = writer.crowded
      /\ writer'.result = result /\ writer'.at = "release"
  BY <1>1, <1>2, <1>3 DEF Release, ++, Finishing, Finished
<1>5. ~Copying /\ ~Copying'
  BY <1>1, <1>4 DEF Copying
<1>6. writer' \in WriterSet
  BY <1>4 DEF WriterSet
<1>7. WriterStep
  BY <1>0, <1>1, <1>5, <1>6, QuietIsStep DEF SameSetup
<1> QED
  BY <1>1, <1>2, <1>3, <1>4, <1>7 DEF count

LEMMA RefusalSteps ==
  ASSUME StoreTypes, NEW request \in Requests, SaveRefused(request)
  PROVE  WriterStep /\ Quiet /\ writer' \in Refused
<1>0. writer \in WriterSet /\ budget \in BudgetSet
  BY DEF StoreTypes
<1>1. /\ writer.at = "archive" /\ Quiet /\ UNCHANGED <<index, cache, budget>>
      /\ writer' = [kind |-> "save", at |-> "saved", changed |-> writer.changed]
  BY DEF SaveRefused, Quiet, FilesStay
<1>2. writer \in Archiving
  BY <1>0, <1>1, Stages
<1>3. writer' \in Refused
  BY <1>1, <1>2 DEF Archiving, Refused
<1>4. ~Copying /\ ~Copying'
  BY <1>1, <1>3 DEF Copying, Refused
<1>5. writer' \in WriterSet
  BY <1>3 DEF WriterSet
<1> QED
  BY <1>0, <1>1, <1>3, <1>4, <1>5, QuietIsStep DEF SameSetup

LEMMA SyncSteps ==
  ASSUME StoreTypes, SaveSync
  PROVE  /\ WriterStep /\ Quiet
         /\ writer \in Refused => writer' \in RefusedOver
         /\ writer \in Saved => writer' \in SavedOver /\ writer'.wrote = writer.wrote
         /\ writer \in Refused \cup Saved
         /\ writer'.changed = writer.changed
         /\ writer'.result = "completed" <=> writer.changed
<1>0. writer \in WriterSet /\ budget \in BudgetSet
  BY DEF StoreTypes
<1> DEFINE result == IF writer.changed THEN "completed" ELSE "skipped"
<1>1. /\ writer.at = "saved" /\ Quiet /\ UNCHANGED <<cache, budget>>
      /\ index' = NewestFirst(Entries(typed))
      /\ writer' = Release(result)
  BY DEF SaveSync, Quiet, FilesStay
<1>2. writer \in Refused \cup Saved
  BY <1>0, <1>1, Stages
<1>3. result \in {"completed", "skipped"} /\ (result = "completed" <=> writer.changed)
  BY <1>2 DEF Refused, Saved
<1> HIDE DEF result
<1>4. /\ writer \in Refused => writer' \in RefusedOver
      /\ writer \in Saved => writer' \in SavedOver /\ writer'.wrote = writer.wrote
      /\ writer'.changed = writer.changed /\ writer'.result = result /\ writer'.at = "release"
  BY <1>1, <1>2, <1>3 DEF Release, ++, Refused, Saved, RefusedOver, SavedOver
<1>5. ~Copying /\ ~Copying'
  BY <1>1, <1>4 DEF Copying
<1>6. writer' \in WriterSet
  BY <1>2, <1>4 DEF WriterSet
<1>7. WriterStep
  BY <1>0, <1>1, <1>5, <1>6, QuietIsStep DEF SameSetup
<1> QED
  BY <1>1, <1>2, <1>3, <1>4, <1>7

LEMMA UnlockSteps ==
  ASSUME StoreTypes, Unlock
  PROVE  WriterStep /\ Quiet /\ writer' = Free
<1>0. writer \in WriterSet /\ budget \in BudgetSet
  BY DEF StoreTypes
<1>1. writer.at = "release" /\ writer' = Free /\ Quiet /\ UNCHANGED <<index, cache, budget>>
  BY DEF Unlock, Quiet, FilesStay
<1>2. ~Copying /\ ~Copying'
  BY <1>1 DEF Copying, Free
<1>3. writer' \in WriterSet
  BY <1>1 DEF WriterSet
<1> QED
  BY <1>0, <1>1, <1>2, <1>3, QuietIsStep DEF SameSetup

LEMMA DeathSteps ==
  ASSUME StoreTypes, WriterDies
  PROVE  /\ WriterStep /\ FilesStay /\ prompt' = prompt /\ writer' = Free
         /\ damaged' = damaged \cup (Present(typed) \ Readable(typed))
<1>0. writer \in WriterSet /\ budget \in BudgetSet
  BY DEF StoreTypes
<1>1. /\ FilesStay /\ prompt' = prompt /\ writer' = Free /\ UNCHANGED <<index, cache>>
      /\ damaged' = damaged \cup (Present(typed) \ Readable(typed))
      /\ budget.crashes > 0 /\ budget' = [budget EXCEPT !.crashes = @ - 1]
  BY DEF WriterDies, FilesStay
<1>2. ~Copying' /\ writer' \in WriterSet
  BY <1>1 DEF Copying, Free, WriterSet
<1>3. budget' \in BudgetSet /\ SameSetup
  BY <1>0, <1>1, BudgetSpent DEF SameSetup
<1> QED
  BY <1>1, <1>2, <1>3 DEF SameSetup, WriterStep, FileStep, WriterMoves, OthersStep, FilesStay

\* What every step of a writer does.
LEMMA WriterSteps == StoreTypes /\ StampsDiffer /\ WriterNext => WriterStep
<1> SUFFICES ASSUME StoreTypes, StampsDiffer, WriterNext PROVE WriterStep
  OBVIOUS
<1>1. ASSUME NEW n \in Names,
             RelocateFree(n) \/ RelocateOlder(n) \/ RelocateCopy(n) \/ RelocateCopied(n)
      PROVE  WriterStep
  <2>1. FileStep /\ WriterMoves /\ UNCHANGED <<index, cache>>
    BY <1>1, RelocationSteps
  <2>2. Watch(typed') \/ (prompt' = prompt /\ typed' = typed)
    BY <1>1 DEF RelocateFree, RelocateOlder, RelocateCopy, RelocateCopied
  <2> QED
    BY <2>1, <2>2 DEF WriterStep, OthersStep
<1>2. ASSUME NEW n \in Names, NEW line \in Lines, NEW request \in Requests,
             AgentWrite(n, line, request) \/ AgentEdit(n, line, request)
      PROVE  WriterStep
  BY <1>2, WriteSteps
<1>3. ASSUME NEW n \in Names, NEW line \in Lines, NEW dir \in {"typed", "root"}, NEW ok \in BOOLEAN,
             BashWrite(n, line, dir, ok)
      PROVE  WriterStep
  BY <1>3, CommandSteps
<1>4. ASSUME NEW n \in Names, NEW ok \in BOOLEAN, BashRemove(n, ok) PROVE WriterStep
  BY <1>4, CommandSteps
<1>5. ASSUME NEW n \in Names, SaveArchive(n) PROVE WriterStep
  BY <1>5, ArchiveSteps
<1>6. ASSUME NEW n \in Names, NEW line \in Lines, NEW request \in Requests, SaveWrite(n, line, request)
      PROVE  WriterStep
  BY <1>6, SaveSteps
<1>7. ASSUME NEW archives \in SUBSET Names, SaveBegin(archives) PROVE WriterStep
  BY <1>7, BeginSteps
<1>8. ASSUME NEW request \in Requests, SaveRefused(request) PROVE WriterStep
  BY <1>8, RefusalSteps
<1>9. ExtractBegin => WriterStep
  BY BeginSteps
<1>10. SelectNothing \/ SelectWindow => WriterStep
  BY SkipSteps, WindowSteps
<1>11. ToolSync \/ AgentThrows \/ AgentDone \/ ExtractFinish => WriterStep
  BY AgentSteps, FinishSteps
<1>12. SaveSync \/ Unlock \/ WriterDies => WriterStep
  BY SyncSteps, UnlockSteps, DeathSteps
<1> QED
  BY <1>1, <1>2, <1>3, <1>4, <1>5, <1>6, <1>7, <1>8, <1>9, <1>10, <1>11, <1>12 DEF WriterNext

(***************************************************************************)
(* The files keep what was written last.                                   *)
(***************************************************************************)

\* The types of what a step does to the files.
FileTypes ==
  /\ clock \in Nat /\ typed \in Files /\ root \in Files
  /\ due \in [Names -> Lines \cup {NoFile}]
  /\ removed \subseteq Names /\ damaged \subseteq Names

LEMMA StepTypes == StoreTypes /\ StampInv /\ FileStep /\ WriterMoves => StoreTypes'
<1> SUFFICES ASSUME StoreTypes, StampInv, FileStep, WriterMoves PROVE StoreTypes'
  OBVIOUS
<1>1. FileTypes
  BY DEF StoreTypes, FileTypes
<1>2. writer' \in WriterSet /\ budget' \in BudgetSet
  BY DEF SameSetup, WriterMoves
<1> SUFFICES FileTypes'
  BY <1>2 DEF StoreTypes, FileTypes
<1> USE DEF FileTypes
<1>3. CASE FilesStay /\ UNCHANGED damaged
  BY <1>1, <1>3 DEF FilesStay
<1>4. CASE FilesStay /\ damaged' = damaged \cup (Present(typed) \ Readable(typed))
  BY <1>1, <1>4 DEF FilesStay, Present
<1>5. ASSUME NEW n \in Names, NEW line \in Lines, Writes(n, line) \/ WritesToRoot(n, line)
      PROVE  FileTypes'
  <2>1. File(line, clock + 1) \in FileSet
    BY <1>1, FileFacts
  <2> QED
    BY <1>1, <1>5, <2>1 DEF Writes, WritesToRoot, Files
<1>6. ASSUME NEW n \in Names, Removes(n) PROVE FileTypes'
  <2>1. root[n] # NoFile => root[n].line \in Lines
    BY <1>1, DirFacts DEF StampInv
  <2> QED
    BY <1>1, <1>6, <2>1 DEF Removes, Files
<1>7. ASSUME NEW n \in Names, Moves(n) \/ Drops(n) \/ CopyEnds(n) PROVE FileTypes'
  BY <1>1, <1>7 DEF Moves, Drops, CopyEnds, Files
<1>8. ASSUME NEW n \in Names, CopyBegins(n) PROVE FileTypes'
  <2>1. File(Torn, clock + 1) \in FileSet
    BY <1>1, FileFacts
  <2> QED
    BY <1>1, <1>8, <2>1 DEF CopyBegins, Files
<1>9. ASSUME NEW n \in Names, CopyGoesOn(n) PROVE FileTypes'
  <2>1. root[n].line \in Lines \cup {Torn} /\ typed[n] \in FileSet
    BY <1>1, <1>9, DirFacts DEF CopyGoesOn
  <2>2. [typed[n] EXCEPT !.line = root[n].line] \in FileSet
    BY <2>1 DEF FileSet
  <2>3. typed' = [typed EXCEPT ![n] = [typed[n] EXCEPT !.line = root[n].line]]
    BY <1>9 DEF CopyGoesOn
  <2> QED
    BY <1>1, <1>9, <2>2, <2>3 DEF CopyGoesOn, Files
<1> QED
  BY <1>3, <1>4, <1>5, <1>6, <1>7, <1>8, <1>9 DEF FileStep

\* Nothing is lost, and only one file is torn.
Kept == StampInv /\ StampsDiffer /\ CopyInv /\ TornInv /\ DueInv

LEMMA WritesKeep ==
  ASSUME FileTypes, Kept, NEW n \in Names, NEW line \in Lines, Writes(n, line), ~Copying, ~Copying'
  PROVE  Kept'
<1>1. /\ clock \in Nat /\ clock' = clock + 1 /\ root' = root /\ damaged' = damaged
      /\ typed'[n] = File(line, clock + 1) /\ due'[n] = line
      /\ \A m \in Names : m # n => typed'[m] = typed[m] /\ due'[m] = due[m]
  BY DEF FileTypes, Files, Writes
<1>2. typed'[n] # NoFile /\ typed'[n].line = line /\ typed'[n].mtime = clock + 1
      /\ line # Torn /\ line # NoFile
  BY <1>1, FileFacts
<1>3. \A m \in Names : /\ typed[m] # NoFile => typed[m].mtime \in Nat
                       /\ root[m] # NoFile => root[m].mtime \in Nat
  BY DirFacts DEF FileTypes
<1>4. StampInv'
  BY <1>1, <1>2, <1>3 DEF Kept, StampInv
<1>5. StampsDiffer'
  BY <1>1, <1>2, <1>3 DEF Kept, StampsDiffer, StampInv
<1>6. CopyInv' /\ TornInv'
  BY <1>1, <1>2 DEF Kept, CopyInv, TornInv
<1>7. DueInv'
  <2>1. ASSUME NEW m \in Names \ damaged, m # n PROVE DueOf(m)'
    BY <1>1, <2>1 DEF Kept, DueInv, DueOf, Holds
  <2>2. DueOf(n)'
    <3>1. root[n] # NoFile => ~(root[n].mtime >= clock + 1)
      BY <1>1, <1>3 DEF Kept, StampInv
    <3> QED
      BY <1>1, <1>2, <3>1 DEF DueOf, Holds
  <2> QED
    BY <1>1, <2>1, <2>2 DEF DueInv
<1> QED
  BY <1>4, <1>5, <1>6, <1>7 DEF Kept

LEMMA WritesToRootKeep ==
  ASSUME FileTypes, Kept, NEW n \in Names, NEW line \in Lines, WritesToRoot(n, line),
         ~Copying, ~Copying'
  PROVE  Kept'
<1>1. /\ clock \in Nat /\ clock' = clock + 1 /\ typed' = typed /\ damaged' = damaged
      /\ root'[n] = File(line, clock + 1) /\ due'[n] = line
      /\ \A m \in Names : m # n => root'[m] = root[m] /\ due'[m] = due[m]
  BY DEF FileTypes, Files, WritesToRoot
<1>2. root'[n] # NoFile /\ root'[n].line = line /\ root'[n].mtime = clock + 1
      /\ line # Torn /\ line # NoFile
  BY <1>1, FileFacts
<1>3. \A m \in Names : /\ typed[m] # NoFile => typed[m].mtime \in Nat
                       /\ root[m] # NoFile => root[m].mtime \in Nat
  BY DirFacts DEF FileTypes
<1>4. StampInv'
  BY <1>1, <1>2, <1>3 DEF Kept, StampInv
<1>5. StampsDiffer'
  BY <1>1, <1>2, <1>3 DEF Kept, StampsDiffer, StampInv
<1>6. CopyInv' /\ TornInv'
  BY <1>1, <1>2 DEF Kept, CopyInv, TornInv
<1>7. DueInv'
  <2>1. ASSUME NEW m \in Names \ damaged, m # n PROVE DueOf(m)'
    BY <1>1, <2>1 DEF Kept, DueInv, DueOf, Holds
  <2>2. DueOf(n)'
    <3>1. typed[n] # NoFile => ~(typed[n].mtime >= clock + 1)
      BY <1>1, <1>3 DEF Kept, StampInv
    <3> QED
      BY <1>1, <1>2, <3>1 DEF DueOf, Holds
  <2> QED
    BY <1>1, <2>1, <2>2 DEF DueInv
<1> QED
  BY <1>4, <1>5, <1>6, <1>7 DEF Kept

LEMMA RemovesKeep ==
  ASSUME FileTypes, Kept, NEW n \in Names, Removes(n), ~Copying, ~Copying'
  PROVE  Kept'
<1>1. /\ clock' = clock /\ root' = root /\ damaged' = damaged
      /\ typed'[n] = NoFile
      /\ due'[n] = IF root[n] = NoFile THEN NoFile ELSE root[n].line
      /\ \A m \in Names : m # n => typed'[m] = typed[m] /\ due'[m] = due[m]
  BY DEF FileTypes, Files, Removes
<1>2. root[n] # NoFile => root[n].line # Torn /\ root[n].line # NoFile
  BY DirFacts, FileFacts DEF Kept, StampInv, FileTypes
<1>3. StampInv' /\ StampsDiffer' /\ CopyInv' /\ TornInv'
  BY <1>1 DEF Kept, StampInv, StampsDiffer, CopyInv, TornInv
<1>4. DueInv'
  <2>1. ASSUME NEW m \in Names \ damaged, m # n PROVE DueOf(m)'
    BY <1>1, <2>1 DEF Kept, DueInv, DueOf, Holds
  <2>2. DueOf(n)'
    BY <1>1, <1>2 DEF DueOf, Holds
  <2> QED
    BY <1>1, <2>1, <2>2 DEF DueInv
<1> QED
  BY <1>3, <1>4 DEF Kept

LEMMA MovesKeep ==
  ASSUME FileTypes, Kept, NEW n \in Names, Moves(n), ~Copying, ~Copying'
  PROVE  Kept'
<1>1. /\ clock' = clock /\ due' = due /\ damaged' = damaged
      /\ typed[n] = NoFile /\ root[n] # NoFile /\ typed'[n] = root[n] /\ root'[n] = NoFile
      /\ \A m \in Names : m # n => typed'[m] = typed[m] /\ root'[m] = root[m]
  BY DEF FileTypes, Files, Moves
<1>2. StampInv' /\ CopyInv' /\ TornInv'
  BY <1>1 DEF Kept, StampInv, CopyInv, TornInv
<1>3. StampsDiffer'
  BY <1>1 DEF Kept, StampsDiffer
<1>4. DueInv'
  <2>1. ASSUME NEW m \in Names \ damaged, m # n PROVE DueOf(m)'
    BY <1>1, <2>1 DEF Kept, DueInv, DueOf, Holds
  <2>2. n \notin damaged => DueOf(n)'
    BY <1>1 DEF Kept, DueInv, DueOf, Holds
  <2> QED
    BY <1>1, <2>1, <2>2 DEF DueInv
<1> QED
  BY <1>2, <1>3, <1>4 DEF Kept

\* The file in the type directory is newer, and it is not torn or the memory is damaged.
LEMMA DropsKeep ==
  ASSUME FileTypes, Kept, NEW n \in Names, Drops(n), ~Copying, ~Copying'
  PROVE  Kept'
<1>1. /\ clock' = clock /\ due' = due /\ damaged' = damaged /\ typed' = typed
      /\ typed[n] # NoFile /\ root[n] # NoFile /\ root[n].mtime < typed[n].mtime
      /\ root'[n] = NoFile
      /\ \A m \in Names : m # n => root'[m] = root[m]
  BY DEF FileTypes, Files, Drops, RootIsOlder
<1>2. StampInv' /\ StampsDiffer' /\ CopyInv' /\ TornInv'
  BY <1>1 DEF Kept, StampInv, StampsDiffer, CopyInv, TornInv
<1>3. DueInv'
  <2>1. ASSUME NEW m \in Names \ damaged, m # n PROVE DueOf(m)'
    BY <1>1, <2>1 DEF Kept, DueInv, DueOf, Holds
  <2>2. n \notin damaged => DueOf(n)'
    <3>1. typed[n].mtime \in Nat /\ root[n].mtime \in Nat
      BY <1>1, DirFacts DEF FileTypes
    <3>2. n \notin damaged => Holds(typed[n]) /\ DueOf(n)
      BY <1>1 DEF Kept, TornInv, Holds, DueInv
    <3> QED
      BY <1>1, <3>1, <3>2 DEF DueOf, Holds
  <2> QED
    BY <1>1, <2>1, <2>2 DEF DueInv
<1> QED
  BY <1>2, <1>3 DEF Kept

LEMMA CopyBeginsKeeps ==
  ASSUME FileTypes, Kept, NEW n \in Names, CopyBegins(n), ~Copying, Copying'
  PROVE  Kept'
<1>1. /\ clock \in Nat /\ clock' = clock + 1 /\ due' = due /\ damaged' = damaged /\ root' = root
      /\ typed[n] # NoFile /\ root[n] # NoFile
      /\ typed'[n] = File(Torn, clock + 1)
      /\ \A m \in Names : m # n => typed'[m] = typed[m]
  BY DEF FileTypes, Files, CopyBegins
<1>2. typed'[n] # NoFile /\ typed'[n].line = Torn /\ typed'[n].mtime = clock + 1
  BY <1>1, FileFacts
<1>3. \A m \in Names : /\ typed[m] # NoFile => typed[m].mtime \in Nat
                       /\ root[m] # NoFile => root[m].mtime \in Nat
  BY DirFacts DEF FileTypes
<1>4. ~(root[n].mtime < typed[n].mtime)
  BY <1>1 DEF CopyBegins, RootIsOlder
<1>5. StampInv'
  BY <1>1, <1>2, <1>3 DEF Kept, StampInv
<1>6. StampsDiffer'
  BY <1>1, <1>2, <1>3 DEF Kept, StampsDiffer, StampInv
<1>7. CopyInv'
  BY <1>1, <1>2, <1>3 DEF Kept, CopyInv, StampInv
<1>8. TornInv'
  BY <1>1, <1>2 DEF Kept, TornInv
<1>9. DueInv'
  <2>1. ASSUME NEW m \in Names \ damaged, m # n PROVE DueOf(m)'
    BY <1>1, <2>1 DEF Kept, DueInv, DueOf, Holds
  <2>2. n \notin damaged => DueOf(n)'
    <3>1. n \notin damaged => Holds(typed[n]) /\ DueOf(n)
      BY <1>1 DEF Kept, TornInv, Holds, DueInv
    <3>2. Holds(root[n]) /\ root[n].mtime >= typed[n].mtime
      BY <1>1, <1>3, <1>4 DEF Kept, StampInv, Holds
    <3> QED
      BY <1>1, <1>2, <3>1, <3>2 DEF DueOf, Holds
  <2> QED
    BY <1>1, <2>1, <2>2 DEF DueInv
<1> QED
  BY <1>5, <1>6, <1>7, <1>8, <1>9 DEF Kept

\* It is the memory being copied: no other has a file as new.
LEMMA CopiedFile ==
  ASSUME FileTypes, Kept, NEW n \in Names, Copying, root[n] # NoFile, typed[n] # NoFile,
         typed[n].mtime = clock
  PROVE  /\ root[n].mtime < clock /\ root[n].mtime \in Nat /\ clock \in Nat
         /\ typed[n].line \in {Torn, root[n].line}
         /\ \A m \in Names : m # n /\ typed[m] # NoFile => typed[m].mtime # clock
<1>1. PICK k \in Names : /\ root[k] # NoFile /\ typed[k] # NoFile
                         /\ typed[k].mtime = clock /\ root[k].mtime < clock
                         /\ typed[k].line \in {Torn, root[k].line}
  BY DEF Kept, CopyInv
<1>2. k = n
  BY <1>1 DEF Kept, StampsDiffer
<1> QED
  BY <1>1, <1>2, DirFacts DEF Kept, StampsDiffer, FileTypes

LEMMA CopyGoesOnKeeps ==
  ASSUME FileTypes, Kept, NEW n \in Names, CopyGoesOn(n), Copying, Copying'
  PROVE  Kept'
<1>1. /\ clock' = clock /\ due' = due /\ damaged' = damaged /\ root' = root
      /\ typed[n] # NoFile /\ root[n] # NoFile /\ typed[n].line = Torn /\ typed[n].mtime = clock
      /\ typed'[n] = [typed[n] EXCEPT !.line = root[n].line]
      /\ \A m \in Names : m # n => typed'[m] = typed[m]
  BY DEF FileTypes, Files, CopyGoesOn
<1>2. typed'[n] \in FileSet /\ typed'[n].line = root[n].line /\ typed'[n].mtime = clock
  <2>1. typed[n] \in FileSet /\ root[n].line \in Lines \cup {Torn}
    BY <1>1, DirFacts DEF FileTypes
  <2> QED
    BY <1>1, <2>1 DEF FileSet
<1>3. typed'[n] # NoFile /\ root[n].line # Torn
  BY <1>1, <1>2, FileFacts DEF Kept, StampInv
<1>4. root[n].mtime < clock /\ root[n].mtime \in Nat /\ clock \in Nat
  BY <1>1, CopiedFile
<1>5. StampInv' /\ TornInv'
  BY <1>1, <1>2, <1>3, <1>4 DEF Kept, StampInv, TornInv
<1>6. \A m \in Names : /\ typed'[m] # NoFile <=> typed[m] # NoFile
                       /\ typed[m] # NoFile => typed'[m].mtime = typed[m].mtime
  BY <1>1, <1>2, <1>3
<1>7. StampsDiffer'
  BY <1>1, <1>6 DEF Kept, StampsDiffer
<1>8. CopyInv'
  BY <1>1, <1>2, <1>3, <1>4 DEF Kept, CopyInv
<1>9. DueInv'
  <2>1. ASSUME NEW m \in Names \ damaged, m # n PROVE DueOf(m)'
    BY <1>1, <2>1 DEF Kept, DueInv, DueOf, Holds
  <2>2. n \notin damaged => DueOf(n)'
    <3>1. n \notin damaged => DueOf(n)
      BY DEF Kept, DueInv
    <3> QED
      BY <1>1, <1>2, <1>3, <1>4, <3>1 DEF DueOf, Holds
  <2> QED
    BY <1>1, <2>1, <2>2 DEF DueInv
<1> QED
  BY <1>5, <1>7, <1>8, <1>9 DEF Kept

LEMMA CopyEndsKeeps ==
  ASSUME FileTypes, Kept, NEW n \in Names, CopyEnds(n), Copying, ~Copying'
  PROVE  Kept'
<1>1. /\ clock' = clock /\ due' = due /\ damaged' = damaged /\ typed' = typed
      /\ typed[n] # NoFile /\ root[n] # NoFile /\ typed[n].line # Torn /\ typed[n].mtime = clock
      /\ root'[n] = NoFile
      /\ \A m \in Names : m # n => root'[m] = root[m]
  BY DEF FileTypes, Files, CopyEnds
<1>2. /\ root[n].mtime < clock /\ root[n].mtime \in Nat /\ clock \in Nat
      /\ \A m \in Names : m # n /\ typed[m] # NoFile => typed[m].mtime # clock
  BY <1>1, CopiedFile
<1>3. StampInv' /\ StampsDiffer' /\ CopyInv'
  BY <1>1 DEF Kept, StampInv, StampsDiffer, CopyInv
<1>4. TornInv'
  BY <1>1, <1>2 DEF Kept, TornInv
<1>5. DueInv'
  <2>1. ASSUME NEW m \in Names \ damaged, m # n PROVE DueOf(m)'
    BY <1>1, <2>1 DEF Kept, DueInv, DueOf, Holds
  <2>2. n \notin damaged => DueOf(n)'
    BY <1>1, <1>2 DEF Kept, DueInv, DueOf, Holds
  <2> QED
    BY <1>1, <2>1, <2>2 DEF DueInv
<1> QED
  BY <1>3, <1>4, <1>5 DEF Kept

LEMMA FilesKept == FileTypes /\ Kept /\ FileStep => Kept'
<1> SUFFICES ASSUME FileTypes, Kept, FileStep PROVE Kept'
  OBVIOUS
<1>1. CASE FilesStay /\ UNCHANGED damaged /\ (Copying' <=> Copying)
  <2>1. UNCHANGED <<typed, root, clock, due, damaged>>
    BY <1>1 DEF FilesStay
  <2>2. StampInv' /\ StampsDiffer' /\ CopyInv' /\ TornInv'
    BY <1>1, <2>1 DEF Kept, StampInv, StampsDiffer, CopyInv, TornInv
  <2>3. DueInv'
    BY <2>1 DEF Kept, DueInv, DueOf
  <2> QED
    BY <2>2, <2>3 DEF Kept
<1>2. CASE FilesStay /\ damaged' = damaged \cup (Present(typed) \ Readable(typed)) /\ ~Copying'
  <2>1. UNCHANGED <<typed, root, clock, due>> /\ damaged \subseteq damaged'
    BY <1>2 DEF FilesStay
  <2>2. StampInv' /\ StampsDiffer' /\ CopyInv'
    BY <1>2, <2>1 DEF Kept, StampInv, StampsDiffer, CopyInv
  <2>3. TornInv'
    BY <1>2, <2>1 DEF TornInv, Present, Readable
  <2>4. DueInv'
    BY <2>1 DEF Kept, DueInv, DueOf
  <2> QED
    BY <2>2, <2>3, <2>4 DEF Kept
<1>3. ASSUME NEW n \in Names, NEW line \in Lines, Writes(n, line) \/ WritesToRoot(n, line),
             ~Copying, ~Copying'
      PROVE  Kept'
  BY <1>3, WritesKeep, WritesToRootKeep
<1>4. ASSUME NEW n \in Names, Removes(n) \/ Moves(n) \/ Drops(n), ~Copying, ~Copying'
      PROVE  Kept'
  BY <1>4, RemovesKeep, MovesKeep, DropsKeep
<1>5. ASSUME NEW n \in Names, CopyBegins(n), ~Copying, Copying' PROVE Kept'
  BY <1>5, CopyBeginsKeeps
<1>6. ASSUME NEW n \in Names, CopyGoesOn(n), Copying, Copying' PROVE Kept'
  BY <1>6, CopyGoesOnKeeps
<1>7. ASSUME NEW n \in Names, CopyEnds(n), Copying, ~Copying' PROVE Kept'
  BY <1>7, CopyEndsKeeps
<1> QED
  BY <1>1, <1>2, <1>3, <1>4, <1>5, <1>6, <1>7 DEF FileStep

LEMMA FileInit == Init => FileInv
<1> SUFFICES ASSUME Init PROVE FileInv
  OBVIOUS
<1>1. PICK present \in SUBSET Names, lines \in [Names -> Lines],
           mtimes \in {m \in [Names -> 1 .. Cardinality(Names)] : IsInjective(m)} :
        /\ typed = [n \in Names |-> IF n \in present THEN File(lines[n], mtimes[n]) ELSE NoFile]
        /\ due = [n \in Names |-> IF n \in present THEN lines[n] ELSE NoFile]
  BY DEF Init
<1>2. /\ root = [n \in Names |-> NoFile] /\ clock = Cardinality(Names) /\ writer = Free
      /\ removed = {} /\ damaged = {} /\ budget \in Scopes
  BY DEF Init
<1>3. clock \in Nat
  BY <1>2, FileFacts, FS_CardinalityType
<1>4. ASSUME NEW n \in Names
      PROVE  /\ lines[n] \in Lines /\ mtimes[n] \in Nat /\ mtimes[n] >= 1 /\ mtimes[n] <= clock
             /\ \A m \in Names : m # n => mtimes[m] # mtimes[n]
  BY <1>2, <1>3 DEF IsInjective
<1>5. ASSUME NEW n \in Names
      PROVE  /\ root[n] = NoFile
             /\ n \notin present => typed[n] = NoFile /\ due[n] = NoFile
             /\ n \in present =>
                  /\ typed[n] = File(lines[n], mtimes[n]) /\ typed[n] \in FileSet
                  /\ typed[n] # NoFile /\ typed[n].line = lines[n]
                  /\ typed[n].mtime = mtimes[n] /\ due[n] = lines[n]
                  /\ lines[n] # Torn /\ lines[n] # NoFile
  <2>1. /\ File(lines[n], mtimes[n]) \in FileSet /\ File(lines[n], mtimes[n]) # NoFile
        /\ File(lines[n], mtimes[n]).line = lines[n] /\ File(lines[n], mtimes[n]).mtime = mtimes[n]
        /\ lines[n] # Torn /\ lines[n] # NoFile
    BY <1>4, FileFacts
  <2> QED
    BY <1>1, <1>2, <2>1
<1>6. typed \in Files /\ root \in Files /\ due \in [Names -> Lines \cup {NoFile}]
  <2>1. \A n \in Names : typed[n] \in {NoFile} \cup FileSet /\ due[n] \in Lines \cup {NoFile}
    BY <1>4, <1>5
  <2>2. typed = [n \in Names |-> typed[n]] /\ due = [n \in Names |-> due[n]]
    BY <1>1
  <2>3. root \in Files
    BY <1>2 DEF Files
  <2> QED
    BY <2>1, <2>2, <2>3 DEF Files
<1>7. StoreTypes
  BY <1>2, <1>3, <1>6, MemoryStoreAssumption DEF StoreTypes, WriterSet, BudgetSet, PathTables
<1>8. StampInv /\ StampsDiffer
  BY <1>4, <1>5 DEF StampInv, StampsDiffer
<1>9. CopyInv /\ TornInv
  BY <1>2, <1>5 DEF CopyInv, TornInv, Copying, Free
<1>10. DueInv
  BY <1>5 DEF DueInv, DueOf, Holds
<1> QED
  BY <1>7, <1>8, <1>9, <1>10 DEF FileInv

\* Prompt builds leave the memory files and the writer alone.
LEMMA PromptsLeaveFiles ==
  ASSUME PromptNext, budget \in BudgetSet
  PROVE  /\ UNCHANGED <<typed, root, clock, writer, due, removed, damaged>>
         /\ budget' \in BudgetSet /\ SameSetup
<1>1. PICK p \in Prompts :
        \/ PromptStart(p) \/ (\E n \in Names : PromptScan(p, n)) \/ PromptSync(p)
        \/ (\E query \in BOOLEAN : PromptFull(p, query)) \/ PromptUnserved(p) \/ PromptRecords(p)
        \/ PromptLookup(p) \/ EmbeddingFails(p) \/ QueryFails(p)
        \/ (\E selected \in SUBSET (IF prompt[p].at = "store" THEN ToSet(prompt[p].lines) ELSE {}) :
              PromptSearch(p, selected))
        \/ PromptStat(p) \/ PromptReturn(p)
  BY DEF PromptNext
<1>2. CASE PromptStart(p)
  <2>1. budget.prompts > 0 /\ budget' = [budget EXCEPT !.prompts = @ - 1]
        /\ UNCHANGED <<typed, root, clock, writer, due, removed, damaged>>
    BY <1>2 DEF PromptStart
  <2> QED
    BY <2>1, BudgetSpent DEF SameSetup
<1>3. CASE ~PromptStart(p)
  <2>1. UNCHANGED <<typed, root, clock, writer, due, removed, damaged, budget>>
    BY <1>1, <1>3 DEF PromptScan, PromptSync, PromptFull, PromptUnserved, PromptRecords, PromptLookup,
      EmbeddingFails, QueryFails, PromptSearch, PromptStat, PromptReturn
  <2> QED
    BY <2>1 DEF SameSetup
<1> QED
  BY <1>2, <1>3

LEMMA FileNext == FileInv /\ [Next]_vars => FileInv'
<1> SUFFICES ASSUME FileInv, [Next]_vars PROVE FileInv'
  OBVIOUS
<1>1. StoreTypes /\ FileTypes /\ Kept
  BY DEF FileInv, StoreTypes, FileTypes, Kept
<1>2. CASE WriterNext
  <2>1. FileStep /\ WriterMoves
    BY <1>1, <1>2, WriterSteps DEF Kept, WriterStep
  <2>2. StoreTypes' /\ Kept'
    BY <1>1, <2>1, StepTypes, FilesKept DEF Kept
  <2> QED
    BY <2>2 DEF FileInv, Kept
<1>3. CASE PromptNext \/ UNCHANGED vars
  <2>1. UNCHANGED <<typed, root, clock, writer, due, removed, damaged>> /\ budget' \in BudgetSet
    <3>1. budget \in BudgetSet
      BY <1>1 DEF StoreTypes
    <3> QED
      BY <1>3, <3>1, PromptsLeaveFiles DEF vars
  <2> QED
    BY <2>1 DEF FileInv, StoreTypes, StampInv, StampsDiffer, CopyInv, TornInv, DueInv, DueOf, Copying
<1> QED
  BY <1>2, <1>3 DEF Next

\* The inductive invariant of the memory files: no two have the same age, one at a time is
\* being copied, and the newest that can be read holds what was written last.
THEOREM FilesInvariant == Spec => []FileInv
BY FileInit, FileNext, PTL DEF Spec

(***************************************************************************)
(* What a writer reports.                                                  *)
(***************************************************************************)

\* An extraction that has called its agent: what it had listed before was as old as since
\* or older, what lies in the root is newer, and unless there was too much to list, the
\* list has all that is still there and as old.
Listed(w) ==
  /\ w.since <= clock
  /\ \A i \in DOMAIN w.before : w.before[i].mtime <= w.since
  /\ \A n \in Names : root[n] # NoFile => root[n].mtime > w.since
  /\ ~w.crowded =>
       \A n \in Names : Holds(typed[n]) /\ typed[n].mtime <= w.since =>
         \E i \in DOMAIN w.before :
           w.before[i].name = n /\ w.before[i].mtime >= typed[n].mtime

ListedInv == writer \in Learning \cup Finishing => Listed(writer)

\* A save whose write was accepted finds its memory as it wrote it.
WroteInv == writer \in Saved => writer.wrote \in Entries(typed)

ReportInv == ListedInv /\ WroteInv /\ ResultIsTrue

\* A writer is in one stage only.
LEMMA OneStage ==
  ASSUME NEW w
  PROVE  /\ w \in Learning \cup Finishing =>
              /\ w \notin Saved /\ w.at # "release"
              /\ w.since \in Nat /\ w.before \in Seq(EntrySet) /\ w.crowded \in BOOLEAN
         /\ w \in Starting \cup Archiving \cup Refused \cup {Free} =>
              w \notin Learning \cup Finishing /\ w \notin Saved /\ w.at # "release"
         /\ w \in Saved => w \notin Learning \cup Finishing /\ w.at # "release"
                             /\ w.wrote \in EntrySet /\ w.changed = TRUE
         /\ w \in Skipped \cup Failed \cup Finished \cup RefusedOver \cup SavedOver =>
              w \notin Learning \cup Finishing /\ w \notin Saved /\ w.at = "release"
<1>1. w \in Learning \cup Finishing => w.at \in {"agent", "sync", "relocate", "copy"}
        /\ w.kind = "extract"
        /\ w.since \in Nat /\ w.before \in Seq(EntrySet) /\ w.crowded \in BOOLEAN
  BY DEF Learning, Finishing
<1>2. w \in Starting \cup Archiving \cup Refused \cup {Free} =>
        w.at # "release" /\ w \notin Learning \cup Finishing /\ w \notin Saved
  <2>1. w \in Starting => "since" \notin DOMAIN w /\ w.at # "release" /\ "wrote" \notin DOMAIN w
    BY DEF Starting
  <2>2. w \in Archiving \cup Refused => "since" \notin DOMAIN w /\ w.at # "release" /\ "wrote" \notin DOMAIN w
    BY DEF Archiving, Refused
  <2>3. w = Free => "since" \notin DOMAIN w /\ w.at # "release" /\ "wrote" \notin DOMAIN w
    BY DEF Free
  <2>4. w \in Learning \cup Finishing => "since" \in DOMAIN w
    BY DEF Learning, Finishing
  <2>5. w \in Saved => "wrote" \in DOMAIN w
    BY DEF Saved
  <2> QED
    BY <2>1, <2>2, <2>3, <2>4, <2>5
<1>3. w \in Saved => w.at = "saved" /\ w.wrote \in EntrySet /\ w.changed = TRUE
  BY DEF Saved
<1>4. w \in Skipped \cup Failed \cup Finished \cup RefusedOver \cup SavedOver => w.at = "release"
  BY DEF Skipped, Failed, Finished, RefusedOver, SavedOver
<1> QED
  BY <1>1, <1>2, <1>3, <1>4

\* What is as old as since has been there as it is.
LEMMA OldStays ==
  ASSUME FileTypes, Kept, FileStep, NEW since \in Nat, since <= clock,
         \A n \in Names : root[n] # NoFile => root[n].mtime > since
  PROVE  /\ \A n \in Names : root'[n] # NoFile => root'[n].mtime > since
         /\ \A n \in Names : Holds(typed'[n]) /\ typed'[n].mtime <= since =>
              Holds(typed[n]) /\ typed'[n].mtime = typed[n].mtime
         /\ since <= clock'
<1> DEFINE Old(n) == Holds(typed'[n]) /\ typed'[n].mtime <= since =>
                       Holds(typed[n]) /\ typed'[n].mtime = typed[n].mtime
           New(n) == root'[n] # NoFile => root'[n].mtime > since
           Good == since <= clock' /\ \A n \in Names : Old(n) /\ New(n)
<1> SUFFICES Good
  OBVIOUS
<1>0. clock \in Nat
  BY DEF FileTypes
<1>1. CASE FilesStay
  BY <1>1 DEF FilesStay
<1>2. ASSUME NEW n \in Names, NEW line \in Lines, Writes(n, line) PROVE Good
  <2>1. /\ clock' = clock + 1 /\ root' = root /\ typed'[n] = File(line, clock + 1)
        /\ \A m \in Names : m # n => typed'[m] = typed[m]
    BY <1>2 DEF Writes, FileTypes, Files
  <2>2. typed'[n].mtime = clock + 1
    BY <1>0, <2>1, FileFacts
  <2> QED
    BY <1>0, <2>1, <2>2
<1>3. ASSUME NEW n \in Names, NEW line \in Lines, WritesToRoot(n, line) PROVE Good
  <2>1. /\ clock' = clock + 1 /\ typed' = typed /\ root'[n] = File(line, clock + 1)
        /\ \A m \in Names : m # n => root'[m] = root[m]
    BY <1>3 DEF WritesToRoot, FileTypes, Files
  <2>2. root'[n].mtime = clock + 1
    BY <1>0, <2>1, FileFacts
  <2> QED
    BY <1>0, <2>1, <2>2
<1>4. ASSUME NEW n \in Names, Removes(n) PROVE Good
  <2>1. /\ clock' = clock /\ root' = root /\ typed'[n] = NoFile
        /\ \A m \in Names : m # n => typed'[m] = typed[m]
    BY <1>4 DEF Removes, FileTypes, Files
  <2> QED
    BY <2>1 DEF Holds
<1>5. ASSUME NEW n \in Names, Moves(n) PROVE Good
  <2>1. /\ clock' = clock /\ root[n] # NoFile /\ typed'[n] = root[n] /\ root'[n] = NoFile
        /\ \A m \in Names : m # n => typed'[m] = typed[m] /\ root'[m] = root[m]
    BY <1>5 DEF Moves, FileTypes, Files
  <2>2. ~(root[n].mtime <= since)
    BY <2>1, DirFacts DEF FileTypes
  <2> QED
    BY <2>1, <2>2
<1>6. ASSUME NEW n \in Names, Drops(n) \/ CopyEnds(n) PROVE Good
  <2>1. /\ clock' = clock /\ typed' = typed /\ root'[n] = NoFile
        /\ \A m \in Names : m # n => root'[m] = root[m]
    BY <1>6 DEF Drops, CopyEnds, FileTypes, Files
  <2> QED
    BY <2>1
<1>7. ASSUME NEW n \in Names, CopyBegins(n) PROVE Good
  <2>1. /\ clock' = clock + 1 /\ root' = root /\ typed'[n] = File(Torn, clock + 1)
        /\ \A m \in Names : m # n => typed'[m] = typed[m]
    BY <1>7 DEF CopyBegins, FileTypes, Files
  <2>2. typed'[n].mtime = clock + 1
    BY <1>0, <2>1, FileFacts
  <2> QED
    BY <1>0, <2>1, <2>2
<1>8. ASSUME NEW n \in Names, CopyGoesOn(n), Copying PROVE Good
  <2>1. /\ clock' = clock /\ root' = root /\ root[n] # NoFile
        /\ typed[n] # NoFile /\ typed[n].mtime = clock
        /\ typed'[n] = [typed[n] EXCEPT !.line = root[n].line]
        /\ \A m \in Names : m # n => typed'[m] = typed[m]
    BY <1>8 DEF CopyGoesOn, FileTypes, Files
  <2>2. root[n].mtime < clock /\ root[n].mtime \in Nat
    BY <1>8, <2>1, CopiedFile
  <2>3. typed'[n].mtime = clock
    <3>1. typed[n] \in FileSet
      BY <2>1, DirFacts DEF FileTypes
    <3> QED
      BY <2>1, <3>1 DEF FileSet
  <2>4. ~(typed'[n].mtime <= since)
    BY <1>0, <2>1, <2>2, <2>3
  <2> QED
    BY <1>0, <2>1, <2>4
<1> QED
  BY <1>1, <1>2, <1>3, <1>4, <1>5, <1>6, <1>7, <1>8 DEF FileStep

LEMMA ListGoesOn ==
  ASSUME FileTypes, Kept, FileStep, writer \in Learning \cup Finishing, Listed(writer),
         writer'.since = writer.since, writer'.before = writer.before,
         writer'.crowded = writer.crowded
  PROVE  Listed(writer)'
<1>1. writer.since \in Nat
  BY OneStage
<1>2. /\ \A n \in Names : root'[n] # NoFile => root'[n].mtime > writer.since
      /\ \A n \in Names : Holds(typed'[n]) /\ typed'[n].mtime <= writer.since =>
           Holds(typed[n]) /\ typed'[n].mtime = typed[n].mtime
      /\ writer.since <= clock'
  BY <1>1, OldStays DEF Listed
<1> QED
  BY <1>2 DEF Listed

\* The list begins with all that can be read, unless that is too much.
LEMMA ListBegins ==
  ASSUME StoreTypes, StampInv, StampsDiffer, SelectWindow
  PROVE  Listed(writer)'
<1> DEFINE sorted == NewestFirst(Entries(typed))
<1>1. /\ FilesStay /\ Present(root) = {}
      /\ writer'.since = clock
      /\ writer'.before = Cap(sorted, ScanCap)
      /\ writer'.crowded <=> Cardinality(Readable(typed)) > ScanCap
  BY WindowSteps DEF Quiet
<1>2. typed \in Files /\ clock \in Nat /\ ScanCap \in Nat \ {0}
  BY FileFacts DEF StoreTypes
<1>3. /\ sorted \in Seq(EntrySet) /\ Len(sorted) = Cardinality(Entries(typed))
      /\ ToSet(sorted) = Entries(typed)
  <2>1. Entries(typed) \in SUBSET EntrySet /\ IsFiniteSet(Entries(typed)) /\ Distinct(Entries(typed))
    BY <1>2, EntriesFacts, EntriesDiffer
  <2> QED
    BY <2>1, NewestFirstFacts
<1> HIDE DEF sorted
<1>4. /\ Cap(sorted, ScanCap) \in Seq(EntrySet)
      /\ Len(sorted) <= ScanCap => Cap(sorted, ScanCap) = sorted
      /\ ToSet(Cap(sorted, ScanCap)) \subseteq Entries(typed)
  BY <1>2, <1>3, CapFacts
<1>5. \A i \in DOMAIN writer'.before : writer'.before[i].mtime <= clock
  <2>1. ASSUME NEW i \in DOMAIN writer'.before PROVE writer'.before[i].mtime <= clock
    <3>1. writer'.before[i] \in Entries(typed)
      BY <1>1, <1>4 DEF ToSet
    <3> DEFINE e == writer'.before[i]
    <3>2. e.name \in Names /\ typed[e.name] # NoFile /\ e.mtime = typed[e.name].mtime
      BY <1>2, <3>1, EntriesFacts
    <3> QED
      BY <3>2 DEF StampInv
  <2> QED
    BY <2>1
<1>6. \A n \in Names : root'[n] = NoFile
  BY <1>1 DEF Present, FilesStay
<1>7. ASSUME ~writer'.crowded, NEW n \in Names, Holds(typed[n])
      PROVE  \E i \in DOMAIN writer'.before :
               writer'.before[i].name = n /\ writer'.before[i].mtime >= typed[n].mtime
  <2>1. n \in Readable(typed)
    BY <1>7 DEF Readable, Present, Holds
  <2>2. Entry(n, typed[n]) \in Entries(typed) /\ typed[n].mtime \in Nat
    BY <1>2, <2>1, EntriesFacts
  <2>3. Len(sorted) <= ScanCap
    <3>1. Cardinality(Entries(typed)) <= Cardinality(Readable(typed))
          /\ Cardinality(Entries(typed)) \in Nat /\ Cardinality(Readable(typed)) \in Nat
      BY <1>2, EntriesFacts, FS_CardinalityType
    <3> QED
      BY <1>1, <1>2, <1>3, <1>7, <3>1
  <2>4. writer'.before = sorted
    BY <1>1, <1>4, <2>3
  <2>5. PICK i \in DOMAIN writer'.before : writer'.before[i] = Entry(n, typed[n])
    BY <1>3, <2>2, <2>4 DEF ToSet
  <2> QED
    BY <2>2, <2>5 DEF Entry
<1> QED
  BY <1>1, <1>2, <1>5, <1>6, <1>7 DEF Listed, FilesStay

\* The pass changed something if and only if the newest file is newer than since, or it is
\* one of those that were too many to list before.
LEMMA FinishIsTrue ==
  ASSUME FileInv, ExtractFinish, writer \in Finishing, Listed(writer)
  PROVE  ResultIsTrue'
<1> DEFINE sorted == NewestFirst(Entries(typed))
           before == writer.before
           after == Cap(sorted, ScanCap)
           Counts(e) == \A b \in ToSet(before) : b.name = e.name => e.mtime > b.mtime
           changed == {e \in ToSet(after) : Counts(e)}
<1>1. /\ FilesStay /\ writer' \in Finished
      /\ writer'.since = writer.since /\ writer'.crowded = writer.crowded
      /\ writer'.result = "completed" <=> Cardinality(changed) > 0
  BY FinishSteps DEF FileInv, Quiet, CountChanges
<1>2. typed \in Files /\ ScanCap \in Nat \ {0} /\ writer.since \in Nat /\ before \in Seq(EntrySet)
  BY FileFacts, OneStage DEF FileInv, StoreTypes
<1>3. /\ sorted \in Seq(EntrySet) /\ ToSet(sorted) = Entries(typed) /\ Descending(sorted)
      /\ IsFiniteSet(Entries(typed))
  <2>1. Entries(typed) \in SUBSET EntrySet /\ IsFiniteSet(Entries(typed)) /\ Distinct(Entries(typed))
    BY <1>2, EntriesFacts, EntriesDiffer DEF FileInv
  <2> QED
    BY <2>1, NewestFirstFacts
<1> HIDE DEF sorted, Counts
<1>4. ToSet(after) \in SUBSET Entries(typed)
  BY <1>2, <1>3, CapFacts
<1>5. IsFiniteSet(changed) /\ Cardinality(changed) \in Nat /\ (Cardinality(changed) = 0 <=> changed = {})
  <2>1. changed \in SUBSET Entries(typed)
    BY <1>4
  <2> HIDE DEF changed
  <2>2. IsFiniteSet(changed)
    BY <1>3, <2>1, FS_Subset
  <2> QED
    BY <2>2, FS_CardinalityType, FS_EmptySet
<1>6. writer'.result = "completed" <=> \E e \in ToSet(after) : Counts(e)
  <2>1. changed # {} <=> \E e \in ToSet(after) : Counts(e)
    OBVIOUS
  <2> HIDE DEF changed
  <2> QED
    BY <1>1, <1>5, <2>1
<1> HIDE DEF after, before, changed
<1>7. ASSUME NEW e \in Entries(typed), e.mtime > writer.since PROVE writer'.result = "completed"
  <2>1. PICK f \in ToSet(after) : f.mtime >= e.mtime
    BY <1>2, <1>3, CapKeepsFirst DEF after
  <2>2. f \in Entries(typed) /\ f.mtime \in Nat /\ e.mtime \in Nat
    BY <1>2, <1>4, <2>1, EntriesFacts
  <2>3. ASSUME NEW b \in ToSet(before) PROVE f.mtime > b.mtime
    <3>1. PICK i \in DOMAIN before : b = before[i]
      BY DEF ToSet
    <3>2. b.mtime <= writer.since
      BY <3>1 DEF Listed, before
    <3>3. b \in EntrySet
      BY <1>2, <3>1
    <3>4. b.mtime \in Nat
      BY <3>3 DEF EntrySet
    <3> QED
      BY <1>2, <1>7, <2>1, <2>2, <3>2, <3>4
  <2> QED
    BY <1>6, <2>1, <2>3 DEF Counts
<1>8. ASSUME writer'.result = "completed", ~writer.crowded
      PROVE  \E n \in Readable(typed) : typed[n].mtime > writer.since
  <2>1. PICK e \in ToSet(after) : Counts(e)
    BY <1>6, <1>8
  <2>2. /\ e.name \in Readable(typed) /\ e.name \in Names /\ e.mtime = typed[e.name].mtime
        /\ e.mtime \in Nat /\ Holds(typed[e.name])
    BY <1>2, <1>4, <2>1, EntriesFacts DEF Holds, Readable, Present
  <2>3. CASE e.mtime <= writer.since
    <3>1. PICK i \in DOMAIN before : before[i].name = e.name /\ before[i].mtime >= e.mtime
      BY <1>8, <2>2, <2>3 DEF Listed, before
    <3>2. before[i] \in ToSet(before) /\ before[i] \in EntrySet
      BY <1>2, <3>1 DEF ToSet
    <3>3. e.mtime > before[i].mtime /\ before[i].mtime \in Nat
      BY <2>1, <3>1, <3>2 DEF Counts, EntrySet
    <3> QED
      BY <2>2, <3>1, <3>3
  <2>4. CASE ~(e.mtime <= writer.since)
    BY <1>2, <2>2, <2>4
  <2> QED
    BY <2>3, <2>4
<1>9. (\E n \in Readable(typed) : typed[n].mtime > writer.since) => writer'.result = "completed"
  <2>1. ASSUME NEW n \in Readable(typed), typed[n].mtime > writer.since
        PROVE  writer'.result = "completed"
    <3>1. Entry(n, typed[n]) \in Entries(typed) /\ Entry(n, typed[n]).mtime = typed[n].mtime
      BY <1>2, EntriesFacts DEF Entry
    <3> QED
      BY <1>7, <2>1, <3>1
  <2> QED
    BY <2>1
<1>10. typed' = typed /\ Readable(typed)' = Readable(typed)
  BY <1>1 DEF FilesStay, Readable, Present
<1>11. writer'.kind = "extract"
  BY <1>1 DEF Finished
<1> QED
  BY <1>1, <1>8, <1>9, <1>10, <1>11 DEF ResultIsTrue

LEMMA SyncIsTrue ==
  ASSUME FileInv, WroteInv, SaveSync
  PROVE  ResultIsTrue'
<1>1. /\ FilesStay /\ writer \in Refused \cup Saved
      /\ writer \in Refused => writer' \in RefusedOver
      /\ writer \in Saved => writer' \in SavedOver /\ writer'.wrote = writer.wrote
      /\ writer'.changed = writer.changed
      /\ writer'.result = "completed" <=> writer.changed
  BY SyncSteps DEF FileInv, Quiet
<1>2. writer \in Refused => "wrote" \notin DOMAIN writer' /\ writer'.kind = "save"
  BY <1>1 DEF RefusedOver
<1>3. writer \in Saved => "wrote" \in DOMAIN writer' /\ writer'.kind = "save"
        /\ writer'.changed = TRUE
  BY <1>1 DEF SavedOver
<1>4. Entries(typed)' = Entries(typed)
  BY <1>1 DEF FilesStay, Entries, Readable, Present
<1> QED
  BY <1>1, <1>2, <1>3, <1>4 DEF WroteInv, ResultIsTrue

\* A writer in a stage that reports nothing, and one whose report says nothing.
LEMMA NoReport ==
  ASSUME writer' \in Starting \cup Archiving \cup Refused \cup {Free} \cup Skipped \cup Failed
  PROVE  ReportInv'
<1>1. writer' \notin Learning \cup Finishing /\ writer' \notin Saved
  BY OneStage
<1>2. ListedInv' /\ WroteInv'
  BY <1>1 DEF ListedInv, WroteInv
<1>3. writer' \in Skipped => writer'.kind = "extract" /\ "since" \notin DOMAIN writer'
  BY DEF Skipped
<1>4. writer' \in Failed => writer'.kind = "extract" /\ writer'.result = "failed"
  BY DEF Failed
<1>5. writer' \in Starting \cup Archiving \cup Refused \cup {Free} => writer'.at # "release"
  BY OneStage
<1>6. ResultIsTrue'
  BY <1>3, <1>4, <1>5 DEF ResultIsTrue
<1> QED
  BY <1>2, <1>6 DEF ReportInv

\* One that goes on with what it has listed.
LEMMA StillListed ==
  ASSUME FileInv, ReportInv, FileStep, writer \in Learning \cup Finishing,
         writer' \in Learning \cup Finishing,
         writer'.since = writer.since, writer'.before = writer.before,
         writer'.crowded = writer.crowded
  PROVE  ReportInv'
<1>1. Listed(writer)'
  BY ListGoesOn DEF FileInv, ReportInv, ListedInv, FileTypes, StoreTypes, Kept
<1>2. writer' \notin Saved /\ writer'.at # "release"
  BY OneStage
<1> QED
  BY <1>1, <1>2 DEF ReportInv, ListedInv, WroteInv, ResultIsTrue

LEMMA ReportNext == FileInv /\ ReportInv /\ [Next]_vars => ReportInv'
<1> SUFFICES ASSUME FileInv, ReportInv, [Next]_vars PROVE ReportInv'
  OBVIOUS
<1>0. StoreTypes /\ StampInv /\ StampsDiffer
  BY DEF FileInv
<1>1. ASSUME NEW n \in Names,
             RelocateFree(n) \/ RelocateOlder(n) \/ RelocateCopy(n) \/ RelocateCopied(n)
      PROVE  ReportInv'
  <2>1. /\ FileStep /\ writer \in Starting \cup Finishing
        /\ writer \in Starting => writer' \in Starting
        /\ writer \in Finishing => writer' \in Finishing /\ writer'.since = writer.since
             /\ writer'.before = writer.before /\ writer'.crowded = writer.crowded
    BY <1>0, <1>1, RelocationSteps
  <2> QED
    BY <2>1, NoReport, StillListed
<1>2. ASSUME NEW n \in Names, NEW line \in Lines, NEW request \in Requests,
             AgentWrite(n, line, request) \/ AgentEdit(n, line, request)
      PROVE  ReportInv'
  <2>1. /\ FileStep /\ writer \in Learning /\ writer' \in Learning /\ writer'.since = writer.since
        /\ writer'.before = writer.before /\ writer'.crowded = writer.crowded
    BY <1>0, <1>2, WriteSteps DEF WriterStep
  <2> QED
    BY <2>1, StillListed
<1>3. ASSUME NEW n \in Names, NEW ok \in BOOLEAN,
             BashRemove(n, ok) \/ \E line \in Lines, dir \in {"typed", "root"} : BashWrite(n, line, dir, ok)
      PROVE  ReportInv'
  <2>1. /\ FileStep /\ writer \in Learning /\ writer' \in Learning /\ writer'.since = writer.since
        /\ writer'.before = writer.before /\ writer'.crowded = writer.crowded
    BY <1>0, <1>3, CommandSteps DEF WriterStep
  <2> QED
    BY <2>1, StillListed
<1>4. ASSUME NEW n \in Names, SaveArchive(n) PROVE ReportInv'
  BY <1>0, <1>4, ArchiveSteps, NoReport
<1>5. ASSUME NEW n \in Names, NEW line \in Lines, NEW request \in Requests, SaveWrite(n, line, request)
      PROVE  ReportInv'
  <2>1. writer' \in Saved /\ Writes(n, line) /\ writer'.wrote = Entry(n, typed'[n])
    BY <1>0, <1>5, SaveSteps
  <2>2. typed'[n] = File(line, clock + 1) /\ clock \in Nat
    BY <1>0, <2>1 DEF Writes, StoreTypes, Files
  <2>3. n \in Readable(typed)'
    BY <2>2, FileFacts DEF Readable, Present
  <2>4. writer'.wrote \in Entries(typed)'
    BY <2>1, <2>3 DEF Entries
  <2>5. writer' \notin Learning \cup Finishing /\ writer'.at # "release"
    BY <2>1, OneStage
  <2> QED
    BY <2>4, <2>5 DEF ReportInv, ListedInv, WroteInv, ResultIsTrue
<1>6. CASE ExtractBegin \/ \E archives \in SUBSET Names : SaveBegin(archives)
  BY <1>0, <1>6, BeginSteps, NoReport
<1>7. CASE SelectNothing
  BY <1>0, <1>7, SkipSteps, NoReport
<1>8. CASE SelectWindow
  <2>1. Listed(writer)' /\ writer' \in Learning
    BY <1>0, <1>8, ListBegins, WindowSteps
  <2>2. writer' \notin Saved /\ writer'.at # "release"
    BY <2>1, OneStage
  <2> QED
    BY <2>1, <2>2 DEF ReportInv, ListedInv, WroteInv, ResultIsTrue
<1>9. CASE ToolSync \/ AgentThrows \/ AgentDone
  <2>1. /\ FileStep /\ writer \in Learning /\ writer' \in Failed \cup Learning \cup Finishing
        /\ writer' \notin Failed => writer'.since = writer.since /\ writer'.before = writer.before
             /\ writer'.crowded = writer.crowded
    BY <1>0, <1>9, AgentSteps DEF WriterStep
  <2> QED
    BY <2>1, NoReport, StillListed
<1>10. CASE ExtractFinish
  <2>1. writer \in Finishing /\ writer' \in Finished
    BY <1>0, <1>10, FinishSteps
  <2>2. writer' \notin Learning \cup Finishing /\ writer' \notin Saved
    BY <2>1, OneStage
  <2>3. ResultIsTrue'
    BY <1>10, <2>1, FinishIsTrue DEF ReportInv, ListedInv
  <2> QED
    BY <2>2, <2>3 DEF ReportInv, ListedInv, WroteInv
<1>11. ASSUME NEW request \in Requests, SaveRefused(request) PROVE ReportInv'
  BY <1>0, <1>11, RefusalSteps, NoReport
<1>12. CASE SaveSync
  <2>1. writer' \in RefusedOver \cup SavedOver
    BY <1>0, <1>12, SyncSteps
  <2>2. writer' \notin Learning \cup Finishing /\ writer' \notin Saved
    BY <2>1, OneStage
  <2>3. ResultIsTrue'
    BY <1>12, SyncIsTrue DEF ReportInv
  <2> QED
    BY <2>2, <2>3 DEF ReportInv, ListedInv, WroteInv
<1>13. CASE Unlock \/ WriterDies
  BY <1>0, <1>13, UnlockSteps, DeathSteps, NoReport
<1>14. CASE PromptNext \/ UNCHANGED vars
  <2>1. UNCHANGED <<typed, root, clock, writer>>
    BY <1>0, <1>14, PromptsLeaveFiles DEF StoreTypes, vars
  <2> QED
    BY <2>1 DEF ReportInv, ListedInv, Listed, WroteInv, ResultIsTrue, Entries, Readable, Present
<1> QED
  BY <1>1, <1>2, <1>3, <1>4, <1>5, <1>6, <1>7, <1>8, <1>9, <1>10, <1>11, <1>12, <1>13, <1>14
    DEF Next, WriterNext

\* What a writer reports when it releases the lock is true, for any number of memories,
\* whatever agents write, edit and remove between its two scans.
THEOREM ReportsAreTrue == Spec => []ResultIsTrue
<1>1. Init => ReportInv
  <2> SUFFICES ASSUME writer = Free PROVE ReportInv
    BY DEF Init
  <2>1. writer \notin Learning \cup Finishing /\ writer \notin Saved /\ writer.at # "release"
    BY OneStage
  <2> QED
    BY <2>1 DEF ReportInv, ListedInv, WroteInv, ResultIsTrue
<1>2. ReportInv => ResultIsTrue
  BY DEF ReportInv
<1> QED
  BY <1>1, <1>2, ReportNext, FilesInvariant, PTL DEF Spec

(***************************************************************************)
(* The prompt builds.                                                      *)
(***************************************************************************)

\* The stages of a prompt build.
Walking   == [at : {"scan"}, alone : BOOLEAN, seen : SUBSET EntrySet, always : SUBSET EntrySet,
              todo : SUBSET Names, got : SUBSET EntrySet]
Reading   == [at : {"read"}, alone : BOOLEAN, seen : SUBSET EntrySet, always : SUBSET EntrySet]
Looking   == [at : {"lookup"}, alone : BOOLEAN, seen : SUBSET EntrySet, always : SUBSET EntrySet,
              lines : Seq(EntrySet)]
Storing   == [at : {"store"}, alone : BOOLEAN, seen : SUBSET EntrySet, always : SUBSET EntrySet,
              lines : Seq(EntrySet), vectors : SUBSET [path : Names \cup Misread, of : Lines]]
Selecting == [at : {"stat"}, alone : BOOLEAN, seen : SUBSET EntrySet, always : SUBSET EntrySet,
              selected : SUBSET EntrySet, todo : SUBSET EntrySet]
Answered  == [at : {"full", "picked"}, alone : BOOLEAN, seen : SUBSET EntrySet,
              always : SUBSET EntrySet, shown : Seq(EntrySet)]
Threw     == [at : {"threw"}, selected : SUBSET EntrySet]

LiveSet   == Walking \cup Reading \cup Looking \cup Storing \cup Selecting
PromptSet == LiveSet \cup {NoPrompt} \cup Answered \cup Threw

\* The stage of a prompt build is told by its at; a running one says what it has seen.
LEMMA LiveStages ==
  ASSUME NEW r \in LiveSet
  PROVE  /\ r.at \in {"scan", "read", "lookup", "store", "stat"}
         /\ r.alone \in BOOLEAN /\ r.seen \in SUBSET EntrySet /\ r.always \in SUBSET EntrySet
         /\ "seen" \in DOMAIN r /\ "alone" \in DOMAIN r
         /\ r.at = "scan" => r \in Walking
         /\ r.at = "read" => r \in Reading
         /\ r.at = "lookup" => r \in Looking
         /\ r.at = "store" => r \in Storing
         /\ r.at = "stat" => r \in Selecting
         /\ r \in Walking => r.at = "scan"
         /\ r \in Reading => r.at = "read"
         /\ r \in Looking => r.at = "lookup"
         /\ r \in Storing => r.at = "store"
         /\ r \in Selecting => r.at = "stat"
         /\ r \notin Answered /\ r \notin Threw /\ r # NoPrompt
<1>1. r \in Walking => /\ r.at = "scan" /\ "seen" \in DOMAIN r /\ "alone" \in DOMAIN r
                       /\ r.alone \in BOOLEAN /\ r.seen \in SUBSET EntrySet /\ r.always \in SUBSET EntrySet
  BY DEF Walking
<1>2. r \in Reading => /\ r.at = "read" /\ "seen" \in DOMAIN r /\ "alone" \in DOMAIN r
                       /\ r.alone \in BOOLEAN /\ r.seen \in SUBSET EntrySet /\ r.always \in SUBSET EntrySet
  BY DEF Reading
<1>3. r \in Looking => /\ r.at = "lookup" /\ "seen" \in DOMAIN r /\ "alone" \in DOMAIN r
                       /\ r.alone \in BOOLEAN /\ r.seen \in SUBSET EntrySet /\ r.always \in SUBSET EntrySet
  BY DEF Looking
<1>4. r \in Storing => /\ r.at = "store" /\ "seen" \in DOMAIN r /\ "alone" \in DOMAIN r
                       /\ r.alone \in BOOLEAN /\ r.seen \in SUBSET EntrySet /\ r.always \in SUBSET EntrySet
  BY DEF Storing
<1>5. r \in Selecting => /\ r.at = "stat" /\ "seen" \in DOMAIN r /\ "alone" \in DOMAIN r
                         /\ r.alone \in BOOLEAN /\ r.seen \in SUBSET EntrySet /\ r.always \in SUBSET EntrySet
  BY DEF Selecting
<1>6. r \in Answered \/ r \in Threw \/ r = NoPrompt =>
        r.at \in {"full", "picked", "threw", "none"}
  BY DEF Answered, Threw, NoPrompt
<1>7. r \in Walking \/ r \in Reading \/ r \in Looking \/ r \in Storing \/ r \in Selecting
  BY DEF LiveSet
<1> QED
  BY <1>1, <1>2, <1>3, <1>4, <1>5, <1>6, <1>7

LEMMA OverStages ==
  ASSUME NEW r \in PromptSet, r \notin LiveSet
  PROVE  /\ r.at \in {"none", "full", "picked", "threw"}
         /\ r.at = "none" <=> r = NoPrompt
         /\ r.at \in {"full", "picked"} <=> r \in Answered
         /\ r.at = "threw" <=> r \in Threw
         /\ r \notin Walking /\ r \notin Reading /\ r \notin Looking /\ r \notin Storing
         /\ r \notin Selecting
<1>1. /\ r \in Answered => r.at \in {"full", "picked"}
      /\ r \in Threw => r.at = "threw"
      /\ r = NoPrompt => r.at = "none"
  BY DEF Answered, Threw, NoPrompt
<1>2. r \in Answered \/ r \in Threw \/ r = NoPrompt
  BY DEF PromptSet
<1> QED
  BY <1>1, <1>2 DEF LiveSet

\* What a walk has found: it is not newer than the clock, and it is still there or it has
\* been removed; and no other memory has a file of the same mtime.
Young(S) == \A e \in S : e.mtime >= 1 /\ e.mtime <= clock
Known(S) == \A e \in S : typed[e.name] # NoFile \/ e.name \in removed
Owned(S) ==
  \A e \in S, n \in Names :
    /\ typed[n] # NoFile /\ typed[n].mtime = e.mtime => n = e.name
    /\ root[n] # NoFile /\ root[n].mtime = e.mtime => n = e.name

\* A list is sorted, and of memories that are there or were removed.
Sorted(s) == Descending(s) /\ NamesDiffer(s) /\ Known(ToSet(s))

\* What a build that is alone has seen is what there is and was.
Overlap(r) ==
  /\ r.always \subseteq r.seen /\ Young(r.seen)
  /\ r.alone => r.always \subseteq Entries(typed) /\ Entries(typed) \subseteq r.seen

Walked(r) ==
  /\ Young(r.got) /\ Known(r.got) /\ Owned(r.got) /\ Distinct(r.got) /\ IsFiniteSet(r.got)
  /\ \A e \in r.got : e.name \notin r.todo
  /\ r.alone => r.got \subseteq r.seen /\ \A e \in r.always : e.name \in r.todo \/ e \in r.got

\* A list S holds what was there all the time, and nothing that never was.
Covers(r, S) == r.alone => r.always \subseteq S /\ S \subseteq r.seen

OwnVectors(r) ==
  /\ \A e \in Records(r.lines) : \E v \in r.vectors : v.path = Path(e)
  /\ \A e \in Records(r.lines), v \in r.vectors : v.path = Path(e) /\ Unshared(e) => v.of = e.line

Chosen(r) ==
  /\ Known(r.selected) /\ Distinct(r.selected) /\ IsFiniteSet(r.selected)
  /\ r.todo \subseteq r.selected
  /\ r.alone => r.selected \subseteq r.seen

Exact(r) ==
  r.alone =>
    /\ ToSet(r.shown) \subseteq r.seen
    /\ r.at = "full" =>
         \A e \in r.always \ ToSet(r.shown) :
           /\ Cardinality(ToSet(r.shown)) = MaxLines
           /\ \A f \in ToSet(r.shown) : f.mtime > e.mtime

PromptOK(r) ==
  /\ r \in PromptSet
  /\ r \in LiveSet => Overlap(r)
  /\ r \in Walking => Walked(r)
  /\ r \in Reading => Covers(r, ToSet(index))
  /\ r \in Looking \cup Storing => Sorted(r.lines) /\ Covers(r, ToSet(r.lines))
  /\ r \in Storing => OwnVectors(r)
  /\ r \in Selecting => Chosen(r)
  /\ r \in Answered => Exact(r)
  /\ r \in Threw /\ budget.mode = "auto" => \E e \in r.selected : e.name \in removed \/ Path(e) # e.name

\* MEMORY.md is sorted, the cache has the vectors of its own lines, and a build that is
\* alone is alone.
IndexInv == index \in Seq(EntrySet) /\ Young(ToSet(index)) /\ Sorted(index)
CacheInv ==
  /\ cache \subseteq [name : Names, line : Lines, of : Lines]
  /\ \A c \in cache : Unshared(c) => c.of = c.line
AloneInv ==
  \A p, q \in Prompts :
    p # q /\ prompt[p] \in LiveSet /\ prompt[p].alone => prompt[q] \notin LiveSet

PromptInv ==
  /\ prompt \in [Prompts -> PromptSet]
  /\ \A p \in Prompts, r \in PromptSet : prompt[p] = r => PromptOK(r)
  /\ IndexInv /\ CacheInv /\ AloneInv

\* What a step may do to the files that a prompt build has seen: a memory is not gone
\* unless it was removed, and a file of a new mtime is newer than all.
StoreMoves ==
  /\ clock' \in Nat /\ clock' >= clock
  /\ removed \subseteq removed'
  /\ \A n \in Names :
       /\ typed[n] # NoFile => typed'[n] # NoFile \/ n \in removed'
       /\ typed'[n] # NoFile =>
            \/ typed'[n].mtime > clock
            \/ typed[n] # NoFile /\ typed'[n].mtime = typed[n].mtime
            \/ root[n] # NoFile /\ typed'[n].mtime = root[n].mtime
       /\ root'[n] # NoFile =>
            \/ root'[n].mtime > clock
            \/ root[n] # NoFile /\ root'[n].mtime = root[n].mtime

LEMMA FilesMove ==
  ASSUME FileTypes, FileStep
  PROVE  StoreMoves
<1>0. clock \in Nat
  BY DEF FileTypes
<1>1. CASE FilesStay
  BY <1>0, <1>1 DEF FilesStay, StoreMoves
<1>2. ASSUME NEW n \in Names, NEW line \in Lines, Writes(n, line) PROVE StoreMoves
  <2>1. /\ clock' = clock + 1 /\ root' = root /\ typed'[n] = File(line, clock + 1)
        /\ \A m \in Names : m # n => typed'[m] = typed[m]
        /\ removed' = removed
    BY <1>2 DEF Writes, FileTypes, Files
  <2>2. typed'[n].mtime = clock + 1 /\ typed'[n] # NoFile
    BY <1>0, <2>1, FileFacts
  <2> QED
    BY <1>0, <2>1, <2>2 DEF StoreMoves
<1>3. ASSUME NEW n \in Names, NEW line \in Lines, WritesToRoot(n, line) PROVE StoreMoves
  <2>1. /\ clock' = clock + 1 /\ typed' = typed /\ root'[n] = File(line, clock + 1)
        /\ \A m \in Names : m # n => root'[m] = root[m]
        /\ removed' = removed
    BY <1>3 DEF WritesToRoot, FileTypes, Files
  <2>2. root'[n].mtime = clock + 1
    BY <1>0, <2>1, FileFacts
  <2> QED
    BY <1>0, <2>1, <2>2 DEF StoreMoves
<1>4. ASSUME NEW n \in Names, Removes(n) PROVE StoreMoves
  <2>1. /\ clock' = clock /\ root' = root /\ typed'[n] = NoFile
        /\ \A m \in Names : m # n => typed'[m] = typed[m]
        /\ removed \subseteq removed' /\ (typed[n] # NoFile => n \in removed')
    BY <1>4 DEF Removes, FileTypes, Files
  <2> QED
    BY <1>0, <2>1 DEF StoreMoves
<1>5. ASSUME NEW n \in Names, Moves(n) PROVE StoreMoves
  <2>1. /\ clock' = clock /\ root[n] # NoFile /\ typed[n] = NoFile
        /\ typed'[n] = root[n] /\ root'[n] = NoFile
        /\ \A m \in Names : m # n => typed'[m] = typed[m] /\ root'[m] = root[m]
        /\ removed' = removed
    BY <1>5 DEF Moves, FileTypes, Files
  <2> QED
    BY <1>0, <2>1 DEF StoreMoves
<1>6. ASSUME NEW n \in Names, Drops(n) \/ CopyEnds(n) PROVE StoreMoves
  <2>1. /\ clock' = clock /\ typed' = typed /\ root'[n] = NoFile
        /\ \A m \in Names : m # n => root'[m] = root[m]
        /\ removed' = removed
    BY <1>6 DEF Drops, CopyEnds, FileTypes, Files
  <2> QED
    BY <1>0, <2>1 DEF StoreMoves
<1>7. ASSUME NEW n \in Names, CopyBegins(n) PROVE StoreMoves
  <2>1. /\ clock' = clock + 1 /\ root' = root /\ typed'[n] = File(Torn, clock + 1)
        /\ \A m \in Names : m # n => typed'[m] = typed[m]
        /\ removed' = removed
    BY <1>7 DEF CopyBegins, FileTypes, Files
  <2>2. typed'[n].mtime = clock + 1 /\ typed'[n] # NoFile
    BY <1>0, <2>1, FileFacts
  <2> QED
    BY <1>0, <2>1, <2>2 DEF StoreMoves
<1>8. ASSUME NEW n \in Names, CopyGoesOn(n) PROVE StoreMoves
  <2>1. /\ clock' = clock /\ root' = root /\ typed[n] # NoFile
        /\ typed'[n] = [typed[n] EXCEPT !.line = root[n].line]
        /\ \A m \in Names : m # n => typed'[m] = typed[m]
        /\ removed' = removed /\ root[n] # NoFile
    BY <1>8 DEF CopyGoesOn, FileTypes, Files
  <2>2. typed[n] \in FileSet /\ root[n].line \in Lines \cup {Torn}
    BY <2>1, DirFacts DEF FileTypes
  <2>3. typed'[n] \in FileSet /\ typed'[n].mtime = typed[n].mtime
    BY <2>1, <2>2 DEF FileSet
  <2>4. typed'[n] # NoFile
    BY <2>3, FileFacts
  <2>5. /\ clock' = clock /\ root' = root /\ removed' = removed /\ typed[n] # NoFile
        /\ \A m \in Names : m # n => typed'[m] = typed[m]
    BY <2>1
  <2> QED
    BY <1>0, <2>3, <2>4, <2>5 DEF StoreMoves
<1>9. (\E n \in Names, line \in Lines : Writes(n, line) \/ WritesToRoot(n, line)) => StoreMoves
  BY <1>2, <1>3
<1>10. (\E n \in Names : Removes(n) \/ Moves(n) \/ Drops(n)) => StoreMoves
  BY <1>4, <1>5, <1>6
<1>11. (\E n \in Names : CopyBegins(n)) \/ (\E n \in Names : CopyGoesOn(n))
         \/ (\E n \in Names : CopyEnds(n)) => StoreMoves
  BY <1>6, <1>7, <1>8
<1> QED
  BY <1>1, <1>9, <1>10, <1>11 DEF FileStep

\* So what holds of a set of entries that were seen goes on to hold.
LEMMA SetsKeep ==
  ASSUME StoreMoves, clock \in Nat, NEW S \in SUBSET EntrySet
  PROVE  /\ Young(S) => Young(S)'
         /\ Known(S) => Known(S)'
         /\ Young(S) /\ Owned(S) => Owned(S)'
<1>1. \A e \in S : e.mtime \in Nat /\ e.name \in Names
  BY DEF EntrySet
<1>2. Young(S) => Young(S)'
  BY <1>1 DEF Young, StoreMoves
<1>3. Known(S) => Known(S)'
  BY <1>1 DEF Known, StoreMoves
<1>4. ASSUME Young(S), Owned(S) PROVE Owned(S)'
  <2>1. ASSUME NEW e \in S, NEW n \in Names, typed'[n] # NoFile, typed'[n].mtime = e.mtime PROVE n = e.name
    <3>1. ~(typed'[n].mtime > clock)
      BY <1>1, <1>4, <2>1 DEF Young
    <3> QED
      BY <1>4, <2>1, <3>1 DEF Owned, StoreMoves
  <2>2. ASSUME NEW e \in S, NEW n \in Names, root'[n] # NoFile, root'[n].mtime = e.mtime PROVE n = e.name
    <3>1. ~(root'[n].mtime > clock)
      BY <1>1, <1>4, <2>2 DEF Young
    <3> QED
      BY <1>4, <2>2, <3>1 DEF Owned, StoreMoves
  <2> QED
    BY <2>1, <2>2 DEF Owned
<1> QED
  BY <1>2, <1>3, <1>4

\* What a walk finds now.
EntriesGood ==
  /\ Entries(typed) \in SUBSET EntrySet /\ IsFiniteSet(Entries(typed))
  /\ Young(Entries(typed)) /\ Known(Entries(typed)) /\ Owned(Entries(typed))
  /\ Distinct(Entries(typed))

LEMMA EntriesAre == StoreTypes /\ StampInv /\ StampsDiffer => EntriesGood
<1> SUFFICES ASSUME StoreTypes, StampInv, StampsDiffer PROVE EntriesGood
  OBVIOUS
<1>0. typed \in Files
  BY DEF StoreTypes
<1>1. Entries(typed) \in SUBSET EntrySet /\ IsFiniteSet(Entries(typed)) /\ Distinct(Entries(typed))
  BY <1>0, EntriesFacts, EntriesDiffer
<1>2. \A e \in Entries(typed) :
        e.name \in Names /\ typed[e.name] # NoFile /\ e.mtime = typed[e.name].mtime
  BY <1>0, EntriesFacts
<1>3. Young(Entries(typed)) /\ Known(Entries(typed))
  BY <1>2 DEF Young, Known, StampInv
<1>4. Owned(Entries(typed))
  BY <1>2 DEF Owned, StampsDiffer
<1> QED
  BY <1>1, <1>3, <1>4 DEF EntriesGood

\* The list of what a walk finds now.
LEMMA ListIs ==
  ASSUME EntriesGood
  PROVE  /\ NewestFirst(Entries(typed)) \in Seq(EntrySet)
         /\ ToSet(NewestFirst(Entries(typed))) = Entries(typed)
         /\ Descending(NewestFirst(Entries(typed))) /\ NamesDiffer(NewestFirst(Entries(typed)))
BY NewestFirstFacts DEF EntriesGood

\* A prompt build that nobody tells anything, and one that is told what there is now.
\* The paths that are read in the lines stay what they are.
LEMMA PathsStay ==
  ASSUME SameSetup
  PROVE  /\ \A e : Path(e)' = Path(e) /\ (Unshared(e)' <=> Unshared(e))
         /\ \A l : Records(l)' = Records(l)
<1>1. \A e : Path(e)' = Path(e) /\ (Unshared(e)' <=> Unshared(e))
  BY DEF SameSetup, Path, Unshared
<1>2. \A l : Records(l)' = Records(l)
  BY <1>1 DEF Records
<1> QED
  BY <1>1, <1>2

LEMMA QuietPrompt ==
  ASSUME StoreMoves, clock \in Nat, SameSetup,
         NEW r, PromptOK(r),
         r \in LiveSet /\ r.alone => typed' = typed,
         r \in Reading => Covers(r, ToSet(index'))
  PROVE  PromptOK(r)'
<1>0. r \in PromptSet
  BY DEF PromptOK
<1>1. ASSUME r \in LiveSet PROVE Overlap(r)'
  <2>1. Overlap(r) /\ r.seen \in SUBSET EntrySet
    BY <1>1, LiveStages DEF PromptOK
  <2>2. Young(r.seen)'
    BY <2>1, SetsKeep DEF Overlap
  <2>3. r.alone => Entries(typed') = Entries(typed)
    BY <1>1
  <2> QED
    BY <2>1, <2>2, <2>3 DEF Overlap
<1>2. ASSUME r \in Walking PROVE Walked(r)'
  <2>1. Walked(r) /\ r.got \in SUBSET EntrySet
    BY <1>2 DEF PromptOK, Walking
  <2>2. Young(r.got)' /\ Known(r.got)' /\ Owned(r.got)'
    BY <2>1, SetsKeep DEF Walked
  <2> QED
    BY <2>1, <2>2 DEF Walked
<1>3. ASSUME r \in Reading PROVE Covers(r, ToSet(index))'
  BY <1>3 DEF Covers
<1>4. ASSUME r \in Looking \cup Storing PROVE Sorted(r.lines)' /\ Covers(r, ToSet(r.lines))'
  <2>1. Sorted(r.lines) /\ Covers(r, ToSet(r.lines)) /\ r.lines \in Seq(EntrySet)
    BY <1>4 DEF PromptOK, Looking, Storing
  <2>2. ToSet(r.lines) \in SUBSET EntrySet
    BY <2>1 DEF ToSet
  <2>3. Known(ToSet(r.lines))'
    BY <2>1, <2>2, SetsKeep DEF Sorted
  <2> QED
    BY <2>1, <2>3 DEF Sorted, Covers
<1>5. ASSUME r \in Storing PROVE OwnVectors(r)'
  BY <1>5, PathsStay DEF PromptOK, OwnVectors
<1>6. ASSUME r \in Selecting PROVE Chosen(r)'
  <2>1. Chosen(r) /\ r.selected \in SUBSET EntrySet
    BY <1>6 DEF PromptOK, Selecting
  <2>2. Known(r.selected)'
    BY <2>1, SetsKeep DEF Chosen
  <2> QED
    BY <2>1, <2>2 DEF Chosen
<1>7. ASSUME r \in Answered PROVE Exact(r)'
  BY <1>7 DEF PromptOK, Exact
<1>8. ASSUME r \in Threw, budget'.mode = "auto"
      PROVE  \E e \in r.selected : e.name \in removed' \/ Path(e)' # e.name
  BY <1>8, PathsStay DEF PromptOK, StoreMoves, SameSetup
<1> QED
  BY <1>0, <1>1, <1>2, <1>3, <1>4, <1>5, <1>6, <1>7, <1>8 DEF PromptOK

\* A running prompt build that stays in its stage: all that its walk, its search or its
\* selection has found it keeps.
SameStage(r, s) ==
  /\ s \in LiveSet /\ s.at = r.at
  /\ r \in Walking => s.got = r.got /\ s.todo = r.todo
  /\ r \in Looking \cup Storing => s.lines = r.lines
  /\ r \in Storing => s.vectors = r.vectors
  /\ r \in Selecting => s.selected = r.selected /\ s.todo = r.todo

LEMMA StagePrompt ==
  ASSUME StoreMoves, SameSetup, clock \in Nat, NEW r \in LiveSet, PromptOK(r), NEW s, SameStage(r, s),
         Overlap(s)',
         s.alone = TRUE => r.alone = TRUE /\ s.always \subseteq r.always /\ r.seen \subseteq s.seen,
         r \in Reading => Covers(r, ToSet(index'))
  PROVE  PromptOK(s)'
<1>1. /\ s \in LiveSet /\ s.alone \in BOOLEAN
      /\ s \in Walking => r \in Walking /\ s.got = r.got /\ s.todo = r.todo
      /\ s \in Reading => r \in Reading
      /\ s \in Looking \cup Storing => r \in Looking \cup Storing /\ s.lines = r.lines
      /\ s \in Storing => r \in Storing /\ s.vectors = r.vectors
      /\ s \in Selecting => r \in Selecting /\ s.selected = r.selected /\ s.todo = r.todo
  <2>1. s \in LiveSet /\ s.at = r.at
    BY DEF SameStage
  <2>2. /\ s \in Walking <=> r \in Walking
        /\ s \in Reading <=> r \in Reading
        /\ s \in Looking <=> r \in Looking
        /\ s \in Storing <=> r \in Storing
        /\ s \in Selecting <=> r \in Selecting
    BY <2>1, LiveStages
  <2> QED
    BY <2>1, <2>2, LiveStages DEF SameStage
<1>2. s \in PromptSet /\ s \notin Answered /\ s \notin Threw
  BY <1>1, LiveStages DEF PromptSet
<1>3. s.alone => r.alone /\ s.always \subseteq r.always /\ r.seen \subseteq s.seen
  BY <1>1
<1>4. ASSUME s \in Walking PROVE Walked(s)'
  <2>1. Walked(r) /\ r.got \in SUBSET EntrySet /\ s.got = r.got /\ s.todo = r.todo
    BY <1>1, <1>4 DEF PromptOK, Walking
  <2>2. Young(r.got)' /\ Known(r.got)' /\ Owned(r.got)'
    BY <2>1, SetsKeep DEF Walked
  <2> QED
    BY <1>3, <2>1, <2>2 DEF Walked
<1>5. ASSUME s \in Reading PROVE Covers(s, ToSet(index))'
  BY <1>1, <1>3, <1>5 DEF Covers
<1>6. ASSUME s \in Looking \cup Storing PROVE Sorted(s.lines)' /\ Covers(s, ToSet(s.lines))'
  <2>1. /\ Sorted(r.lines) /\ Covers(r, ToSet(r.lines)) /\ r.lines \in Seq(EntrySet)
        /\ s.lines = r.lines
    BY <1>1, <1>6 DEF PromptOK, Looking, Storing
  <2>2. ToSet(r.lines) \in SUBSET EntrySet
    BY <2>1 DEF ToSet
  <2>3. Known(ToSet(r.lines))'
    BY <2>1, <2>2, SetsKeep DEF Sorted
  <2> QED
    BY <1>3, <2>1, <2>3 DEF Sorted, Covers
<1>7. ASSUME s \in Storing PROVE OwnVectors(s)'
  BY <1>1, <1>7, PathsStay DEF PromptOK, OwnVectors
<1>8. ASSUME s \in Selecting PROVE Chosen(s)'
  <2>1. /\ Chosen(r) /\ r.selected \in SUBSET EntrySet
        /\ s.selected = r.selected /\ s.todo = r.todo
    BY <1>1, <1>8 DEF PromptOK, Selecting
  <2>2. Known(r.selected)'
    BY <2>1, SetsKeep DEF Chosen
  <2> QED
    BY <1>3, <2>1, <2>2 DEF Chosen
<1> QED
  BY <1>1, <1>2, <1>4, <1>5, <1>6, <1>7, <1>8 DEF PromptOK

\* What a running prompt build is told: what there is now, or that it is no longer alone.
Told(r, E) == [r EXCEPT !.seen = @ \cup E, !.always = @ \cap E]
Joined(r)  == [r EXCEPT !.alone = FALSE, !.seen = {}, !.always = {}]

LEMMA ToldStays ==
  ASSUME NEW r \in LiveSet, NEW E \in SUBSET EntrySet, NEW s, s = Told(r, E)
  PROVE  /\ SameStage(r, s) /\ s.alone = r.alone
         /\ s.seen = r.seen \cup E /\ s.always = r.always \cap E
<1>1. CASE r \in Walking
  <2>1. /\ s \in Walking /\ s.at = r.at /\ s.alone = r.alone
        /\ s.seen = r.seen \cup E /\ s.always = r.always \cap E /\ s.got = r.got /\ s.todo = r.todo
    BY <1>1 DEF Walking, Told
  <2> QED
    BY <1>1, <2>1, LiveStages DEF LiveSet, SameStage
<1>2. CASE r \in Reading
  <2>1. /\ s \in Reading /\ s.at = r.at /\ s.alone = r.alone
        /\ s.seen = r.seen \cup E /\ s.always = r.always \cap E
    BY <1>2 DEF Reading, Told
  <2> QED
    BY <1>2, <2>1, LiveStages DEF LiveSet, SameStage
<1>3. CASE r \in Looking
  <2>1. /\ s \in Looking /\ s.at = r.at /\ s.alone = r.alone
        /\ s.seen = r.seen \cup E /\ s.always = r.always \cap E /\ s.lines = r.lines
    BY <1>3 DEF Looking, Told
  <2> QED
    BY <1>3, <2>1, LiveStages DEF LiveSet, SameStage
<1>4. CASE r \in Storing
  <2>1. /\ s \in Storing /\ s.at = r.at /\ s.alone = r.alone
        /\ s.seen = r.seen \cup E /\ s.always = r.always \cap E /\ s.lines = r.lines /\ s.vectors = r.vectors
    BY <1>4 DEF Storing, Told
  <2> QED
    BY <1>4, <2>1, LiveStages DEF LiveSet, SameStage
<1>5. CASE r \in Selecting
  <2>1. /\ s \in Selecting /\ s.at = r.at /\ s.alone = r.alone
        /\ s.seen = r.seen \cup E /\ s.always = r.always \cap E /\ s.selected = r.selected /\ s.todo = r.todo
    BY <1>5 DEF Selecting, Told
  <2> QED
    BY <1>5, <2>1, LiveStages DEF LiveSet, SameStage
<1> QED
  BY <1>1, <1>2, <1>3, <1>4, <1>5 DEF LiveSet

LEMMA JoinedStays ==
  ASSUME NEW r \in LiveSet, NEW s, s = Joined(r)
  PROVE  /\ SameStage(r, s) /\ s.alone = FALSE
         /\ s.seen = {} /\ s.always = {}
<1>1. CASE r \in Walking
  <2>1. /\ s \in Walking /\ s.at = r.at /\ s.alone = FALSE
        /\ s.seen = {} /\ s.always = {} /\ s.got = r.got /\ s.todo = r.todo
    BY <1>1 DEF Walking, Joined
  <2> QED
    BY <1>1, <2>1, LiveStages DEF LiveSet, SameStage
<1>2. CASE r \in Reading
  <2>1. /\ s \in Reading /\ s.at = r.at /\ s.alone = FALSE
        /\ s.seen = {} /\ s.always = {}
    BY <1>2 DEF Reading, Joined
  <2> QED
    BY <1>2, <2>1, LiveStages DEF LiveSet, SameStage
<1>3. CASE r \in Looking
  <2>1. /\ s \in Looking /\ s.at = r.at /\ s.alone = FALSE
        /\ s.seen = {} /\ s.always = {} /\ s.lines = r.lines
    BY <1>3 DEF Looking, Joined
  <2> QED
    BY <1>3, <2>1, LiveStages DEF LiveSet, SameStage
<1>4. CASE r \in Storing
  <2>1. /\ s \in Storing /\ s.at = r.at /\ s.alone = FALSE
        /\ s.seen = {} /\ s.always = {} /\ s.lines = r.lines /\ s.vectors = r.vectors
    BY <1>4 DEF Storing, Joined
  <2> QED
    BY <1>4, <2>1, LiveStages DEF LiveSet, SameStage
<1>5. CASE r \in Selecting
  <2>1. /\ s \in Selecting /\ s.at = r.at /\ s.alone = FALSE
        /\ s.seen = {} /\ s.always = {} /\ s.selected = r.selected /\ s.todo = r.todo
    BY <1>5 DEF Selecting, Joined
  <2> QED
    BY <1>5, <2>1, LiveStages DEF LiveSet, SameStage
<1> QED
  BY <1>1, <1>2, <1>3, <1>4, <1>5 DEF LiveSet

LEMMA WatchedPrompt ==
  ASSUME StoreMoves, SameSetup, clock \in Nat,
         NEW r \in LiveSet, PromptOK(r), r.alone = TRUE,
         NEW E \in SUBSET EntrySet, Entries(typed') = E, Young(E)',
         r \in Reading => Covers(r, ToSet(index')),
         NEW s, s = Told(r, E)
  PROVE  PromptOK(s)' /\ s \in LiveSet /\ s.alone = r.alone
<1>1. /\ SameStage(r, s) /\ s.alone = r.alone
      /\ s.seen = r.seen \cup E /\ s.always = r.always \cap E
  BY ToldStays
<1>2. Overlap(s)'
  <2>1. Overlap(r) /\ r.seen \in SUBSET EntrySet
    BY LiveStages DEF PromptOK
  <2>2. Young(r.seen)'
    BY <2>1, SetsKeep DEF Overlap
  <2>3. Young(s.seen)'
    BY <1>1, <2>2 DEF Young
  <2> QED
    BY <1>1, <2>1, <2>3 DEF Overlap
<1> QED
  BY <1>1, <1>2, StagePrompt DEF SameStage

LEMMA JoinedPrompt ==
  ASSUME StoreMoves, SameSetup, clock \in Nat, NEW r \in LiveSet, PromptOK(r), index' = index,
         NEW s, s = Joined(r)
  PROVE  PromptOK(s)' /\ s \in LiveSet /\ s.alone = FALSE
<1>1. /\ SameStage(r, s) /\ s.alone = FALSE /\ s.seen = {} /\ s.always = {}
  BY JoinedStays
<1>2. Overlap(s)'
  BY <1>1 DEF Overlap, Young
<1>3. r \in Reading => Covers(r, ToSet(index'))
  BY DEF PromptOK
<1> QED
  BY <1>1, <1>2, <1>3, StagePrompt DEF SameStage

\* A writer's step, prompt build by prompt build.
LEMMA WatchDoes ==
  ASSUME prompt \in [Prompts -> PromptSet], Watch(typed'), NEW p \in Prompts
  PROVE  /\ DOMAIN prompt' = Prompts
         /\ prompt[p] \in LiveSet /\ prompt[p].alone = TRUE =>
              prompt'[p] = Told(prompt[p], Entries(typed'))
         /\ ~(prompt[p] \in LiveSet /\ prompt[p].alone = TRUE) => prompt'[p] = prompt[p]
<1> DEFINE told(q) == "seen" \in DOMAIN prompt[q] /\ prompt[q].alone /\ ~Over(q)
<1>1. prompt' = [q \in Prompts |-> IF told(q) THEN Told(prompt[q], Entries(typed')) ELSE prompt[q]]
  BY DEF Watch, Told
<1> HIDE DEF told
<1>2. told(p) <=> prompt[p] \in LiveSet /\ prompt[p].alone = TRUE
  <2>1. prompt[p] \in PromptSet
    OBVIOUS
  <2>2. CASE prompt[p] \in LiveSet
    <3>1. "seen" \in DOMAIN prompt[p] /\ ~Over(p) /\ prompt[p].alone \in BOOLEAN
      BY <2>2, LiveStages DEF Over
    <3> QED
      BY <2>2, <3>1 DEF told
  <2>3. CASE prompt[p] \notin LiveSet
    <3>1. prompt[p] = NoPrompt \/ Over(p)
      BY <2>1, <2>3, OverStages DEF Over
    <3>2. "seen" \notin DOMAIN NoPrompt
      BY DEF NoPrompt
    <3> QED
      BY <2>3, <3>1, <3>2 DEF told
  <2> QED
    BY <2>2, <2>3
<1> QED
  BY <1>1, <1>2

LEMMA ListsKeep ==
  ASSUME StoreMoves, clock \in Nat, IndexInv, index' = index
  PROVE  IndexInv'
<1> DEFINE S == ToSet(index)
<1>1. S \in SUBSET EntrySet
  BY DEF IndexInv, ToSet
<1>2. Young(S) /\ Known(S)
  BY DEF IndexInv, Sorted
<1>3. /\ \A e \in S : e.mtime >= 1 /\ e.mtime <= clock'
      /\ \A e \in S : typed'[e.name] # NoFile \/ e.name \in removed'
  <2>1. ASSUME NEW T \in SUBSET EntrySet, T = S
        PROVE  /\ \A e \in T : e.mtime >= 1 /\ e.mtime <= clock'
               /\ \A e \in T : typed'[e.name] # NoFile \/ e.name \in removed'
    <3>1. Young(T) /\ Known(T)
      BY <1>2, <2>1
    <3>2. Young(T)' /\ Known(T)'
      BY <3>1, SetsKeep
    <3> QED
      BY <3>2 DEF Young, Known
  <2> QED
    BY <1>1, <2>1
<1> QED
  BY <1>3 DEF IndexInv, Sorted, Young, Known

\* MEMORY.md is rewritten with what a walk found.
LEMMA ListIsNew ==
  ASSUME NEW S \in SUBSET EntrySet, IsFiniteSet(S), Distinct(S), Young(S), Known(S),
         index' = NewestFirst(S), UNCHANGED <<typed, clock, removed>>
  PROVE  IndexInv' /\ ToSet(index') = S
<1>1. /\ index' \in Seq(EntrySet) /\ ToSet(index') = S
      /\ Descending(index') /\ NamesDiffer(index')
  BY NewestFirstFacts
<1> QED
  BY <1>1 DEF IndexInv, Sorted, Young, Known

LEMMA PromptsWatch ==
  ASSUME StoreTypes, Kept, EntriesGood, EntriesGood', StoreTypes', WriterStep, PromptInv
  PROVE  PromptInv'
<1>0. /\ prompt \in [Prompts -> PromptSet] /\ (\A p \in Prompts, r \in PromptSet : prompt[p] = r => PromptOK(r))
      /\ IndexInv /\ CacheInv /\ AloneInv
  BY DEF PromptInv
<1>1. StoreMoves /\ clock \in Nat
  BY FilesMove DEF StoreTypes, FileTypes, WriterStep
<1>2. /\ Watch(typed') \/ (prompt' = prompt /\ typed' = typed)
      /\ index' = index \/ (typed' = typed /\ index' = NewestFirst(Entries(typed)))
      /\ cache' = cache /\ SameSetup
  BY DEF SameSetup, WriterStep, OthersStep, WriterMoves
<1>3. IndexInv' /\ (index' = index \/ (typed' = typed /\ ToSet(index') = Entries(typed)))
  <2>1. CASE index' = index
    BY <1>0, <1>1, <2>1, ListsKeep
  <2>2. CASE typed' = typed /\ index' = NewestFirst(Entries(typed))
    <3>1. ToSet(index') = Entries(typed) /\ index' \in Seq(EntrySet)
          /\ Descending(index') /\ NamesDiffer(index')
      BY <2>2, ListIs
    <3>2. Entries(typed') = Entries(typed)
      BY <2>2
    <3>3. \A e \in Entries(typed') : e.mtime >= 1 /\ e.mtime <= clock'
      BY DEF EntriesGood, Young
    <3>4. \A e \in Entries(typed') : typed'[e.name] # NoFile \/ e.name \in removed'
      BY DEF EntriesGood, Known
    <3> QED
      BY <2>2, <3>1, <3>2, <3>3, <3>4 DEF IndexInv, Sorted, Young, Known
  <2> QED
    BY <1>2, <2>1, <2>2
<1>4. CacheInv'
  BY <1>0, <1>2, PathsStay DEF CacheInv
<1>5. ASSUME NEW p \in Prompts
      PROVE  /\ prompt'[p] \in PromptSet
             /\ \A s \in PromptSet : prompt'[p] = s => PromptOK(s)'
             /\ prompt'[p] \in LiveSet <=> prompt[p] \in LiveSet
             /\ prompt[p] \in LiveSet => prompt'[p].alone = prompt[p].alone
  <2>0. PICK r \in PromptSet : r = prompt[p] /\ PromptOK(r)
    BY <1>0
  <2>1. ASSUME r \in Reading PROVE Covers(r, ToSet(index'))
    <3>1. CASE index' = index
      BY <2>0, <2>1, <3>1 DEF PromptOK
    <3>2. CASE ToSet(index') = Entries(typed)
      BY <2>0, <2>1, <3>2 DEF PromptOK, LiveSet, Overlap, Covers
    <3> QED
      BY <1>3, <3>1, <3>2
  <2>2. CASE r \in LiveSet /\ r.alone = TRUE /\ Watch(typed')
    <3>1. PICK E \in SUBSET EntrySet : E = Entries(typed')
      BY DEF EntriesGood
    <3>2. Young(E)'
      <4>1. \A e \in Entries(typed') : e.mtime >= 1 /\ e.mtime <= clock'
        BY DEF EntriesGood, Young
      <4> QED
        BY <3>1, <4>1 DEF Young
    <3>3. PICK s : s = Told(r, E)
      OBVIOUS
    <3>4. PromptOK(s)' /\ s \in LiveSet /\ s.alone = r.alone
      BY <1>1, <1>2, <2>0, <2>1, <2>2, <3>1, <3>2, <3>3, WatchedPrompt
    <3>5. prompt'[p] = s
      BY <1>0, <2>0, <2>2, <3>1, <3>3, WatchDoes
    <3> QED
      BY <2>0, <2>2, <3>4, <3>5 DEF PromptSet
  <2>3. CASE ~(r \in LiveSet /\ r.alone = TRUE /\ Watch(typed'))
    <3>1. prompt'[p] = r
      BY <1>0, <1>2, <2>0, <2>3, WatchDoes
    <3>2. r \in LiveSet /\ r.alone => typed' = typed
      BY <1>2, <2>3, LiveStages
    <3>3. PromptOK(r)'
      BY <1>1, <1>2, <2>0, <2>1, <3>2, QuietPrompt
    <3> QED
      BY <2>0, <3>1, <3>3
  <2> QED
    BY <2>2, <2>3
<1>6. DOMAIN prompt' = Prompts /\ prompt' = [p \in Prompts |-> prompt'[p]]
  BY <1>0, <1>2 DEF Watch
<1>7. prompt' \in [Prompts -> PromptSet]
  <2>1. \A p \in Prompts : prompt'[p] \in PromptSet
    BY <1>5
  <2> QED
    BY <1>6, <2>1
<1>8. AloneInv'
  <2> SUFFICES ASSUME NEW p \in Prompts, NEW q \in Prompts, p # q, prompt'[p] \in LiveSet,
                      prompt'[p].alone
               PROVE  prompt'[q] \notin LiveSet
    BY DEF AloneInv
  <2>1. prompt[p] \in LiveSet /\ prompt[p].alone = prompt'[p].alone
    BY <1>5
  <2>2. prompt[q] \notin LiveSet
    BY <1>0, <2>1 DEF AloneInv
  <2> QED
    BY <1>5, <2>2
<1> QED
  BY <1>3, <1>4, <1>5, <1>7, <1>8 DEF PromptInv

\* A step of one prompt build: the others are told nothing, and none of them is alone if
\* MEMORY.md is rewritten under it.
FilesRest == UNCHANGED <<typed, root, clock, removed>> /\ SameSetup

LEMMA RestMoves == clock \in Nat /\ FilesRest => StoreMoves
BY DEF SameSetup, FilesRest, StoreMoves

LEMMA OnePrompt ==
  ASSUME PromptInv, clock \in Nat, FilesRest, NEW p \in Prompts, NEW s \in PromptSet,
         prompt' = [prompt EXCEPT ![p] = s], PromptOK(s)',
         s \in LiveSet => prompt[p] \in LiveSet /\ s.alone = prompt[p].alone,
         index' = index \/ prompt[p] \in LiveSet,
         IndexInv', CacheInv'
  PROVE  PromptInv'
<1>0. /\ prompt \in [Prompts -> PromptSet]
      /\ \A q \in Prompts, r \in PromptSet : prompt[q] = r => PromptOK(r)
      /\ AloneInv /\ StoreMoves
  BY RestMoves DEF PromptInv
<1>1. /\ prompt' \in [Prompts -> PromptSet] /\ prompt'[p] = s
      /\ \A q \in Prompts : q # p => prompt'[q] = prompt[q]
  BY <1>0
<1>2. ASSUME NEW q \in Prompts, NEW r \in PromptSet, prompt'[q] = r PROVE PromptOK(r)'
  <2>1. CASE q = p
    BY <1>1, <1>2, <2>1
  <2>2. CASE q # p
    <3>1. prompt[q] = r /\ PromptOK(r)
      BY <1>0, <1>1, <1>2, <2>2
    <3>2. ASSUME r \in Reading PROVE Covers(r, ToSet(index'))
      <4>1. CASE index' = index
        BY <3>1, <3>2, <4>1 DEF PromptOK
      <4>2. CASE prompt[p] \in LiveSet
        <5>1. r \in LiveSet
          BY <3>2 DEF LiveSet
        <5>2. ~r.alone
          BY <1>0, <2>2, <3>1, <4>2, <5>1 DEF AloneInv
        <5> QED
          BY <5>2 DEF Covers
      <4> QED
        BY <4>1, <4>2
    <3>3. typed' = typed /\ SameSetup
      BY DEF SameSetup, FilesRest
    <3> QED
      BY <1>0, <3>1, <3>2, <3>3, QuietPrompt
  <2> QED
    BY <2>1, <2>2
<1>3. AloneInv'
  <2> SUFFICES ASSUME NEW q \in Prompts, NEW r \in Prompts, q # r, prompt'[q] \in LiveSet,
                      prompt'[q].alone
               PROVE  prompt'[r] \notin LiveSet
    BY DEF AloneInv
  <2>1. prompt[q] \in LiveSet /\ prompt[q].alone = prompt'[q].alone
    BY <1>1
  <2>2. prompt[r] \notin LiveSet
    BY <1>0, <2>1 DEF AloneInv
  <2> QED
    BY <1>1, <2>2
<1> QED
  BY <1>1, <1>2, <1>3 DEF PromptInv

\* MEMORY.md and the cache are left alone.
LEMMA ListsRest ==
  ASSUME PromptInv, clock \in Nat, FilesRest
  PROVE  /\ index' = index => IndexInv'
         /\ cache' = cache => CacheInv'
<1>1. IndexInv /\ CacheInv /\ StoreMoves
  BY RestMoves DEF PromptInv
<1>2. index' = index => IndexInv'
  BY <1>1, ListsKeep
<1>3. cache' = cache => CacheInv'
  BY <1>1, PathsStay DEF CacheInv, FilesRest
<1> QED
  BY <1>2, <1>3

\* The ways a prompt build ends.
LEMMA ThrewOK ==
  ASSUME NEW S \in SUBSET EntrySet, NEW s, s = [at |-> "threw", selected |-> S],
         budget'.mode = "auto" => \E e \in S : e.name \in removed' \/ Path(e)' # e.name
  PROVE  s \in PromptSet /\ s \notin LiveSet /\ PromptOK(s)'
<1>1. s \in Threw /\ s.selected = S /\ s \in PromptSet
  BY DEF Threw, PromptSet
<1>2. s \notin LiveSet
  BY <1>1, LiveStages
<1>3. s \notin Answered
  BY <1>1 DEF Threw, Answered
<1> QED
  BY <1>1, <1>2, <1>3 DEF PromptOK, LiveSet

LEMMA AnsweredOK ==
  ASSUME NEW s \in Answered, Exact(s)
  PROVE  s \in PromptSet /\ s \notin LiveSet /\ PromptOK(s)'
<1>1. s \in PromptSet /\ s \notin LiveSet
  BY LiveStages DEF PromptSet
<1>2. s \notin Threw
  BY DEF Threw, Answered
<1>3. Exact(s)'
  BY DEF Exact
<1> QED
  BY <1>1, <1>2, <1>3 DEF PromptOK, LiveSet

LEMMA AnswerIs ==
  ASSUME NEW p \in Prompts, NEW r \in LiveSet, prompt[p] = r, NEW how \in {"full", "picked"},
         NEW l \in Seq(EntrySet), NEW s, s = State(p, how) ++ [shown |-> l]
  PROVE  /\ s \in Answered /\ s.at = how /\ s.shown = l
         /\ s.alone = r.alone /\ s.seen = r.seen /\ s.always = r.always
<1>1. s = [at |-> how, alone |-> r.alone, seen |-> r.seen, always |-> r.always] ++ [shown |-> l]
  BY DEF State
<1>2. r.alone \in BOOLEAN /\ r.seen \in SUBSET EntrySet /\ r.always \in SUBSET EntrySet
  BY LiveStages
<1>3. s = [at |-> how, alone |-> r.alone, seen |-> r.seen, always |-> r.always, shown |-> l]
  BY <1>1 DEF ++
<1> QED
  BY <1>2, <1>3 DEF Answered

\* A list that covers what the build saw, cut off after MaxLines.
LEMMA FullIsExact ==
  ASSUME NEW p \in Prompts, NEW r \in LiveSet, prompt[p] = r,
         NEW l \in Seq(EntrySet), Descending(l), Covers(r, ToSet(l)),
         NEW s, s = State(p, "full") ++ [shown |-> Cap(l, MaxLines)]
  PROVE  s \in PromptSet /\ s \notin LiveSet /\ PromptOK(s)'
<1>0. MaxLines \in Nat \ {0}
  BY FileFacts
<1> DEFINE c == Cap(l, MaxLines)
<1>1. c \in Seq(EntrySet) /\ ToSet(c) \subseteq ToSet(l)
  BY <1>0, CapFacts
<1>2. \A e \in ToSet(l) \ ToSet(c) :
        Cardinality(ToSet(c)) = MaxLines /\ \A f \in ToSet(c) : f.mtime > e.mtime
  BY <1>0, CapKeepsNewest
<1> HIDE DEF c
<1>3. s = State(p, "full") ++ [shown |-> c]
  BY DEF c
<1>4. /\ s \in Answered /\ s.shown = c
      /\ s.alone = r.alone /\ s.seen = r.seen /\ s.always = r.always
  BY <1>1, <1>3, AnswerIs
<1>5. Exact(s)
  BY <1>1, <1>2, <1>4 DEF Exact, Covers
<1> QED
  BY <1>4, <1>5, AnsweredOK

\* The actions of a prompt build.
LEMMA PromptStages ==
  ASSUME PromptInv, NEW p \in Prompts
  PROVE  \E r \in PromptSet :
           /\ prompt[p] = r /\ PromptOK(r)
           /\ r.at = "scan" => r \in Walking /\ r \in LiveSet
           /\ r.at = "read" => r \in Reading /\ r \in LiveSet
           /\ r.at = "lookup" => r \in Looking /\ r \in LiveSet
           /\ r.at = "store" => r \in Storing /\ r \in LiveSet
           /\ r.at = "stat" => r \in Selecting /\ r \in LiveSet
           /\ Over(p) => r \notin LiveSet
           /\ r \notin LiveSet => Over(p) \/ r = NoPrompt
<1>1. PICK r \in PromptSet : prompt[p] = r /\ PromptOK(r)
  BY DEF PromptInv
<1>2. CASE r \in LiveSet
  BY <1>1, <1>2, LiveStages DEF Over
<1>3. CASE r \notin LiveSet
  BY <1>1, <1>3, OverStages DEF Over
<1> QED
  BY <1>2, <1>3

Walks(r, n, S) == [r EXCEPT !.todo = @ \ {n}, !.got = @ \cup S]

LEMMA WalkGoesOn ==
  ASSUME NEW r \in Walking, NEW n, NEW S \in SUBSET EntrySet, NEW s, s = Walks(r, n, S)
  PROVE  /\ s \in Walking /\ s \in PromptSet /\ s \in LiveSet /\ r \in LiveSet
         /\ s.todo = r.todo \ {n} /\ s.got = r.got \cup S
         /\ s.alone = r.alone /\ s.seen = r.seen /\ s.always = r.always
BY DEF Walks, Walking, LiveSet, PromptSet

LEMMA ScanKeeps ==
  ASSUME StoreTypes, EntriesGood, PromptInv, NEW p \in Prompts, NEW n \in Names, PromptScan(p, n)
  PROVE  PromptInv'
<1>0. /\ clock \in Nat /\ FilesRest /\ index' = index /\ cache' = cache
      /\ prompt[p].at = "scan" /\ n \in prompt[p].todo
  BY DEF SameSetup, PromptScan, StoreTypes, FilesRest
<1>1. PICK r \in PromptSet : prompt[p] = r /\ PromptOK(r) /\ r \in Walking /\ r \in LiveSet
  BY <1>0, PromptStages
<1>a. PICK S : S = {e \in Entries(typed) : e.name = n}
  OBVIOUS
<1>b. PICK s : s = Walks(r, n, S)
  OBVIOUS
<1>2. prompt' = [prompt EXCEPT ![p] = s]
  <2>1. prompt' = [prompt EXCEPT ![p].todo = @ \ {n}, ![p].got = @ \cup S]
    BY <1>a DEF PromptScan
  <2>2. prompt \in [Prompts -> PromptSet]
    BY DEF PromptInv
  <2> QED
    BY <1>1, <1>b, <2>1, <2>2 DEF Walks
<1>3. S \in SUBSET EntrySet /\ S \subseteq Entries(typed) /\ \A e \in S : e.name = n
  BY <1>a DEF EntriesGood
<1>4. \A e \in Entries(typed) : e.name = n => e \in S
  BY <1>a
<1>5. IsFiniteSet(S)
  BY <1>3, FS_Subset DEF EntriesGood
<1>6. /\ s \in Walking /\ s \in PromptSet /\ s \in LiveSet
      /\ s.todo = r.todo \ {n} /\ s.got = r.got \cup S
      /\ s.alone = r.alone /\ s.seen = r.seen /\ s.always = r.always
  BY <1>1, <1>b, <1>3, WalkGoesOn
<1>7. Overlap(r) /\ Walked(r) /\ n \in r.todo /\ r.got \in SUBSET EntrySet
  BY <1>0, <1>1 DEF PromptOK, Walking
<1>8. Young(s.got) /\ Known(s.got) /\ Owned(s.got) /\ IsFiniteSet(s.got)
  <2>1. Young(S) /\ Known(S) /\ Owned(S)
    BY <1>3 DEF EntriesGood, Young, Known, Owned
  <2>2. Young(s.got) /\ Known(s.got) /\ Owned(s.got)
    BY <1>6, <1>7, <2>1 DEF Walked, Young, Known, Owned
  <2>3. IsFiniteSet(s.got)
    <3>1. IsFiniteSet(r.got \cup S)
      BY <1>5, <1>7, FS_Union DEF Walked
    <3> QED
      BY <1>6, <3>1
  <2> QED
    BY <2>2, <2>3
<1>9. Distinct(s.got)
  <2>1. ASSUME NEW e \in S, NEW f \in r.got PROVE e.name # f.name /\ e.mtime # f.mtime
    <3>1. e.name = n /\ f.name # n
      BY <1>3, <1>7, <2>1 DEF Walked
    <3>2. typed[n] # NoFile /\ e.mtime = typed[n].mtime
      BY <1>3, <2>1, <3>1, EntriesFacts DEF StoreTypes
    <3> QED
      BY <1>7, <2>1, <3>1, <3>2 DEF Walked, Owned
  <2>2. Distinct(S)
    BY <1>3 DEF EntriesGood, Distinct
  <2> QED
    BY <1>6, <1>7, <2>1, <2>2 DEF Walked, Distinct
<1>10. Walked(s)
  <2>1. \A e \in s.got : e.name \notin s.todo
    BY <1>3, <1>6, <1>7 DEF Walked
  <2>2. ASSUME s.alone PROVE s.got \subseteq s.seen /\ \A e \in s.always : e.name \in s.todo \/ e \in s.got
    BY <1>3, <1>4, <1>6, <1>7, <2>2 DEF Walked, Overlap
  <2> QED
    BY <1>8, <1>9, <2>1, <2>2 DEF Walked
<1>11. Overlap(s)
  BY <1>6, <1>7 DEF Overlap
<1>12. PromptOK(s)'
  <2>1. Walked(s)' /\ Overlap(s)'
    BY <1>0, <1>10, <1>11 DEF SameSetup, FilesRest, Walked, Overlap, Young, Known, Owned
  <2> QED
    BY <1>6, <2>1, LiveStages DEF PromptOK
<1>13. IndexInv' /\ CacheInv'
  BY <1>0, ListsRest
<1> QED
  BY <1>0, <1>1, <1>2, <1>6, <1>12, <1>13, OnePrompt

LEMMA SyncKeeps ==
  ASSUME StoreTypes, EntriesGood, PromptInv, NEW p \in Prompts, PromptSync(p)
  PROVE  PromptInv'
<1>0. /\ clock \in Nat /\ FilesRest /\ cache' = cache
      /\ prompt[p].at = "scan" /\ prompt[p].todo = {}
      /\ index' = NewestFirst(prompt[p].got)
  BY DEF SameSetup, PromptSync, StoreTypes, FilesRest
<1>1. PICK r \in PromptSet : prompt[p] = r /\ PromptOK(r) /\ r \in Walking /\ r \in LiveSet
  BY <1>0, PromptStages
<1>a. PICK s : s = State(p, "read")
  OBVIOUS
<1>2. prompt' = [prompt EXCEPT ![p] = s]
  BY <1>a DEF PromptSync
<1>3. /\ s \in Reading /\ s \in PromptSet /\ s \in LiveSet
      /\ s.alone = r.alone /\ s.seen = r.seen /\ s.always = r.always
  <2>1. r.alone \in BOOLEAN /\ r.seen \in SUBSET EntrySet /\ r.always \in SUBSET EntrySet
    BY <1>1, LiveStages
  <2>2. s = [at |-> "read", alone |-> r.alone, seen |-> r.seen, always |-> r.always]
    BY <1>1, <1>a DEF State
  <2> QED
    BY <2>1, <2>2 DEF Reading, LiveSet, PromptSet
<1>4. /\ Overlap(r) /\ Walked(r) /\ r.todo = {} /\ r.got \in SUBSET EntrySet
  BY <1>0, <1>1 DEF PromptOK, Walking
<1>5. IndexInv' /\ ToSet(index') = r.got
  BY <1>0, <1>1, <1>4, ListIsNew DEF SameSetup, Walked, FilesRest
<1>6. Covers(s, ToSet(index'))
  BY <1>3, <1>4, <1>5 DEF Walked, Covers
<1>7. PromptOK(s)'
  <2>1. Overlap(s)'
    BY <1>0, <1>3, <1>4 DEF SameSetup, FilesRest, Overlap, Young
  <2>2. Covers(s, ToSet(index))'
    BY <1>6 DEF Covers
  <2> QED
    BY <1>3, <2>1, <2>2, LiveStages DEF PromptOK
<1>8. CacheInv'
  BY <1>0, ListsRest
<1> QED
  BY <1>0, <1>1, <1>2, <1>3, <1>5, <1>7, <1>8, OnePrompt

LEMMA FullKeeps ==
  ASSUME StoreTypes, PromptInv, NEW p \in Prompts, NEW query \in BOOLEAN, PromptFull(p, query)
  PROVE  PromptInv'
<1>0. /\ clock \in Nat /\ FilesRest /\ cache' = cache /\ index' = index
      /\ prompt[p].at = "read"
  BY DEF SameSetup, PromptFull, StoreTypes, FilesRest
<1>1. PICK r \in PromptSet : prompt[p] = r /\ PromptOK(r) /\ r \in Reading /\ r \in LiveSet
  BY <1>0, PromptStages
<1>a. PICK s : s = State(p, "full") ++ [shown |-> Cap(index, MaxLines)]
  OBVIOUS
<1>2. prompt' = [prompt EXCEPT ![p] = s]
  BY <1>a DEF PromptFull, Fallback, Answer
<1>3. index \in Seq(EntrySet) /\ Descending(index)
  BY DEF PromptInv, IndexInv, Sorted
<1>4. s \in PromptSet /\ s \notin LiveSet /\ PromptOK(s)'
  <2>1. Covers(r, ToSet(index))
    BY <1>1 DEF PromptOK
  <2>2. PICK l \in Seq(EntrySet) : l = index
    BY <1>3
  <2>3. s = State(p, "full") ++ [shown |-> Cap(l, MaxLines)]
    BY <1>a, <2>2
  <2> QED
    BY <1>1, <1>3, <2>1, <2>2, <2>3, FullIsExact
<1>5. IndexInv' /\ CacheInv'
  BY <1>0, ListsRest
<1> QED
  BY <1>0, <1>2, <1>4, <1>5, OnePrompt

LEMMA UnservedKeeps ==
  ASSUME StoreTypes, PromptInv, NEW p \in Prompts, PromptUnserved(p)
  PROVE  PromptInv'
<1>0. /\ clock \in Nat /\ FilesRest /\ cache' = cache /\ index' = index
      /\ budget'.mode = "unserved"
  BY DEF SameSetup, PromptUnserved, StoreTypes, FilesRest
<1>a. PICK s : s = [at |-> "threw", selected |-> {}]
  OBVIOUS
<1>1. prompt' = [prompt EXCEPT ![p] = s]
  BY <1>a DEF PromptUnserved, Throw
<1>2. s \in PromptSet /\ s \notin LiveSet /\ PromptOK(s)'
  BY <1>0, <1>a, ThrewOK
<1>3. IndexInv' /\ CacheInv'
  BY <1>0, ListsRest
<1> QED
  BY <1>0, <1>1, <1>2, <1>3, OnePrompt

\* The lines that are searched are those of MEMORY.md.
LEMMA RecordsKeep ==
  ASSUME StoreTypes, PromptInv, NEW p \in Prompts, PromptRecords(p)
  PROVE  PromptInv'
<1>0. /\ clock \in Nat /\ FilesRest /\ cache' = cache /\ index' = index
      /\ prompt[p].at = "read"
  BY DEF SameSetup, PromptRecords, StoreTypes, FilesRest
<1>1. PICK r \in PromptSet : prompt[p] = r /\ PromptOK(r) /\ r \in Reading /\ r \in LiveSet
  BY <1>0, PromptStages
<1>a. PICK s : s = State(p, "lookup") ++ [lines |-> index]
  OBVIOUS
<1>2. prompt' = [prompt EXCEPT ![p] = s]
  BY <1>a DEF PromptRecords
<1>3. index \in Seq(EntrySet) /\ Sorted(index)
  BY DEF PromptInv, IndexInv
<1>4. /\ s \in Looking /\ s \in PromptSet /\ s \in LiveSet /\ s.lines = index
      /\ s.alone = r.alone /\ s.seen = r.seen /\ s.always = r.always
  <2>1. r.alone \in BOOLEAN /\ r.seen \in SUBSET EntrySet /\ r.always \in SUBSET EntrySet
    BY <1>1, LiveStages
  <2>2. s = [at |-> "lookup", alone |-> r.alone, seen |-> r.seen, always |-> r.always,
             lines |-> index]
    BY <1>1, <1>a DEF State, ++
  <2> QED
    BY <1>3, <2>1, <2>2 DEF Looking, LiveSet, PromptSet
<1>5. Overlap(s)' /\ Covers(s, ToSet(s.lines))' /\ Sorted(s.lines)'
  <2>1. Overlap(r) /\ Covers(r, ToSet(index))
    BY <1>1 DEF PromptOK
  <2> QED
    BY <1>0, <1>3, <1>4, <2>1 DEF SameSetup, FilesRest, Overlap, Young, Covers, Sorted, Known
<1>6. PromptOK(s)'
  BY <1>4, <1>5, LiveStages DEF PromptOK
<1>7. IndexInv' /\ CacheInv'
  BY <1>0, ListsRest
<1> QED
  BY <1>0, <1>1, <1>2, <1>4, <1>6, <1>7, OnePrompt

\* The memories of a sorted list differ, and there are finitely many.
LEMMA SortedSet ==
  ASSUME NEW l \in Seq(EntrySet), Sorted(l), NEW S \in SUBSET ToSet(l)
  PROVE  S \in SUBSET EntrySet /\ Known(S) /\ Distinct(S) /\ IsFiniteSet(S)
<1>1. Len(l) \in Nat /\ DOMAIN l = 1 .. Len(l) /\ \A i \in 1 .. Len(l) : l[i] \in EntrySet
  OBVIOUS
<1>2. S \in SUBSET EntrySet
  BY <1>1 DEF ToSet
<1>3. Known(S)
  BY DEF Sorted, Known
<1>4. ASSUME NEW e \in S, NEW f \in S, e.name = f.name \/ e.mtime = f.mtime PROVE e = f
  <2>1. PICK i \in 1 .. Len(l), j \in 1 .. Len(l) : e = l[i] /\ f = l[j]
    BY <1>1, <1>4 DEF ToSet
  <2>2. e.mtime \in Nat /\ f.mtime \in Nat
    BY <1>2 DEF EntrySet
  <2>3. i < j => e.mtime > f.mtime
    BY <1>1, <2>1 DEF Sorted, Descending
  <2>4. j < i => f.mtime > e.mtime
    BY <1>1, <2>1 DEF Sorted, Descending
  <2>5. e.name = f.name => i = j
    BY <1>1, <2>1 DEF Sorted, NamesDiffer
  <2> QED
    BY <1>4, <2>1, <2>2, <2>3, <2>4, <2>5
<1>5. IsFiniteSet(ToSet(l))
  <2> DEFINE f == [i \in 1 .. Len(l) |-> l[i]]
  <2>1. f \in Surjection(1 .. Len(l), ToSet(l))
    BY <1>1 DEF Surjection, ToSet
  <2>2. IsFiniteSet(1 .. Len(l))
    BY <1>1, FS_Interval
  <2> HIDE DEF f
  <2> QED
    BY <2>1, <2>2, FS_Surjection
<1>6. IsFiniteSet(S)
  BY <1>5, FS_Subset
<1> QED
  BY <1>2, <1>3, <1>4, <1>6 DEF Distinct

\* Of several memories one is the oldest.
LEMMA OldestIs ==
  ASSUME NEW S \in SUBSET EntrySet, IsFiniteSet(S), Distinct(S), NEW e \in S
  PROVE  \E f \in S : \A g \in S : g.mtime >= f.mtime
<1>1. PICK s \in Seq(EntrySet) : ToSet(s) = S /\ Descending(s)
  BY NewestFirstFacts
<1>2. Len(s) \in Nat /\ DOMAIN s = 1 .. Len(s)
  OBVIOUS
<1>3. \A g \in S : \E i \in 1 .. Len(s) : g = s[i]
  BY <1>1, <1>2 DEF ToSet
<1>4. Len(s) \in 1 .. Len(s)
  BY <1>2, <1>3
<1>5. s[Len(s)] \in S
  BY <1>1, <1>2, <1>4 DEF ToSet
<1>6. ASSUME NEW g \in S PROVE g.mtime >= s[Len(s)].mtime
  <2>1. PICK i \in 1 .. Len(s) : g = s[i]
    BY <1>3
  <2>2. i < Len(s) => g.mtime > s[Len(s)].mtime
    BY <1>1, <1>2, <1>4, <2>1 DEF Descending
  <2>3. g.mtime \in Nat /\ s[Len(s)].mtime \in Nat
    BY <1>5 DEF EntrySet
  <2> QED
    BY <1>2, <2>1, <2>2, <2>3
<1> QED
  BY <1>5, <1>6

\* For the path of every record there is one that is the last with it.
LEMMA LastIs ==
  ASSUME NEW S \in SUBSET EntrySet, IsFiniteSet(S), Distinct(S), NEW e \in S
  PROVE  \E f \in Lasts(S) : Path(f) = Path(e)
<1>1. PICK T : T = {f \in S : Path(f) = Path(e)}
  OBVIOUS
<1>2. T \in SUBSET EntrySet /\ T \subseteq S /\ e \in T
  BY <1>1
<1>3. IsFiniteSet(T)
  BY <1>2, FS_Subset
<1>4. Distinct(T)
  BY <1>2 DEF Distinct
<1>5. PICK f \in T : \A g \in T : g.mtime >= f.mtime
  BY <1>2, <1>3, <1>4, OldestIs
<1> QED
  BY <1>1, <1>5 DEF Lasts

\* The vectors of a search: those of the missing records, and those of the cache for
\* the paths of no missing one.
Embedded(records) == {[path |-> Path(e), of |-> e.line] : e \in Lasts(Missing(records))}
Reused(records)   == {c \in Cached(records) : \A e \in Missing(records) : Path(e) # Path(c)}
Vectors(records)  == {[path |-> Path(c), of |-> c.of] : c \in Reused(records)} \cup Embedded(records)

\* The paths that are read.
LEMMA PathIs ==
  ASSUME budget \in BudgetSet, NEW e, e.name \in Names, e.line \in Lines
  PROVE  Path(e) \in Names \cup Misread
BY DEF Path, BudgetSet, PathTables

LEMMA VectorsAre ==
  ASSUME CacheInv, budget \in BudgetSet, NEW l \in Seq(EntrySet), Sorted(l),
         NEW R, R = Records(l), NEW V, V = Vectors(R)
  PROVE  /\ V \in SUBSET [path : Names \cup Misread, of : Lines]
         /\ \A e \in R : \E v \in V : v.path = Path(e)
         /\ \A e \in R, v \in V : v.path = Path(e) /\ Unshared(e) => v.of = e.line
<1>1. R \in SUBSET EntrySet /\ Distinct(R) /\ IsFiniteSet(R)
  BY SortedSet DEF Records
<1>2. /\ \A e \in R : e.name \in Names /\ e.line \in Lines
      /\ \A e, f \in R : e.name = f.name => e = f
  BY <1>1 DEF EntrySet, Distinct
<1>3. \A c \in cache : c.name \in Names /\ c.line \in Lines /\ c.of \in Lines
  BY DEF CacheInv
<1>4. ASSUME NEW v \in V
      PROVE  \/ \E c \in Reused(R) : v = [path |-> Path(c), of |-> c.of]
             \/ \E e \in Lasts(Missing(R)) : v = [path |-> Path(e), of |-> e.line]
  BY <1>4 DEF Vectors, Embedded
<1>5. ASSUME NEW c \in Reused(R)
      PROVE  /\ c \in cache /\ [path |-> Path(c), of |-> c.of] \in V
             /\ \E e \in R : Hit(c, e)
  BY <1>5 DEF Vectors, Reused, Cached
<1>6. ASSUME NEW e \in Lasts(Missing(R))
      PROVE  e \in R /\ [path |-> Path(e), of |-> e.line] \in V
  BY <1>6 DEF Vectors, Embedded, Lasts, Missing
<1>7. ASSUME NEW v \in V PROVE v \in [path : Names \cup Misread, of : Lines]
  <2>1. CASE \E c \in Reused(R) : v = [path |-> Path(c), of |-> c.of]
    <3>1. PICK c \in Reused(R) : v = [path |-> Path(c), of |-> c.of]
      BY <2>1
    <3>2. Path(c) \in Names \cup Misread /\ c.of \in Lines
      BY <1>3, <1>5, PathIs
    <3> QED
      BY <3>1, <3>2
  <2>2. CASE \E e \in Lasts(Missing(R)) : v = [path |-> Path(e), of |-> e.line]
    <3>1. PICK e \in Lasts(Missing(R)) : v = [path |-> Path(e), of |-> e.line]
      BY <2>2
    <3>2. Path(e) \in Names \cup Misread /\ e.line \in Lines
      BY <1>2, <1>6, PathIs
    <3> QED
      BY <3>1, <3>2
  <2> QED
    BY <1>4, <2>1, <2>2
<1>8. ASSUME NEW e \in R PROVE \E v \in V : v.path = Path(e)
  <2>1. CASE \E f \in Missing(R) : Path(f) = Path(e)
    <3>1. PICK f \in Missing(R) : Path(f) = Path(e)
      BY <2>1
    <3>2. PICK M : M = Missing(R)
      OBVIOUS
    <3>3. M \in SUBSET R
      BY <3>2 DEF Missing
    <3>4. M \in SUBSET EntrySet /\ IsFiniteSet(M) /\ Distinct(M)
      BY <1>1, <3>3, FS_Subset DEF Distinct
    <3>5. PICK g \in Lasts(M) : Path(g) = Path(e)
      BY <3>1, <3>2, <3>4, LastIs
    <3> QED
      BY <1>6, <3>2, <3>5
  <2>2. CASE \A f \in Missing(R) : Path(f) # Path(e)
    <3>1. PICK c \in cache : Hit(c, e)
      BY <1>8, <2>2 DEF Missing
    <3>2. Path(c) = Path(e)
      BY <3>1 DEF Hit
    <3>3. c \in Reused(R)
      BY <1>8, <2>2, <3>1, <3>2 DEF Reused, Cached
    <3> QED
      BY <1>5, <3>2, <3>3
  <2> QED
    BY <2>1, <2>2
<1>9. ASSUME NEW e \in R, NEW v \in V, v.path = Path(e), Unshared(e) PROVE v.of = e.line
  <2>0. ASSUME NEW f \in R, Path(f) = Path(e) PROVE f = e
    <3>1. budget.paths[f.name][f.line] = Path(e)
      BY <2>0 DEF Path
    <3>2. f.name = e.name
      BY <1>2, <1>9, <3>1 DEF Unshared
    <3> QED
      BY <1>2, <3>2
  <2>1. CASE \E c \in Reused(R) : v = [path |-> Path(c), of |-> c.of]
    <3>1. PICK c \in Reused(R) : v = [path |-> Path(c), of |-> c.of]
      BY <2>1
    <3>2. PICK f \in R : Hit(c, f)
      BY <1>5
    <3>3. c.name = f.name /\ c.line = f.line /\ Path(c) = Path(f) /\ Path(f) = Path(e)
      BY <1>9, <3>1, <3>2 DEF Hit
    <3>4. f = e
      BY <2>0, <3>3
    <3>5. Unshared(c)
      BY <1>9, <3>3, <3>4 DEF Unshared
    <3>6. c.of = c.line
      BY <1>5, <3>5 DEF CacheInv
    <3> QED
      BY <3>1, <3>3, <3>4, <3>6
  <2>2. CASE \E f \in Lasts(Missing(R)) : v = [path |-> Path(f), of |-> f.line]
    <3>1. PICK f \in Lasts(Missing(R)) : v = [path |-> Path(f), of |-> f.line]
      BY <2>2
    <3>2. f = e
      BY <1>6, <1>9, <2>0, <3>1
    <3> QED
      BY <3>1, <3>2
  <2> QED
    BY <1>4, <2>1, <2>2
<1> QED
  BY <1>7, <1>8, <1>9

LEMMA LookupKeeps ==
  ASSUME StoreTypes, PromptInv, NEW p \in Prompts, PromptLookup(p)
  PROVE  PromptInv'
<1>0. /\ clock \in Nat /\ FilesRest /\ index' = index /\ cache' = cache /\ budget' = budget
      /\ prompt[p].at = "lookup" /\ budget \in BudgetSet
  BY DEF SameSetup, PromptLookup, StoreTypes, FilesRest
<1>1. PICK r \in PromptSet : prompt[p] = r /\ PromptOK(r) /\ r \in Looking /\ r \in LiveSet
  BY <1>0, PromptStages
<1>2. CacheInv /\ prompt \in [Prompts -> PromptSet]
  BY DEF PromptInv
<1>3. r.lines \in Seq(EntrySet) /\ Sorted(r.lines)
  BY <1>1 DEF Looking, PromptOK
<1>a. PICK V : V = Vectors(Records(r.lines))
  OBVIOUS
<1>b. PICK s : s = State(p, "store") ++ [lines |-> r.lines, vectors |-> V]
  OBVIOUS
<1>4. prompt' = [prompt EXCEPT ![p] = s]
  BY <1>1, <1>2, <1>a, <1>b DEF PromptLookup, Vectors, Embedded, Reused
<1>5. /\ V \in SUBSET [path : Names \cup Misread, of : Lines]
      /\ \A e \in Records(r.lines) : \E v \in V : v.path = Path(e)
      /\ \A e \in Records(r.lines), v \in V : v.path = Path(e) /\ Unshared(e) => v.of = e.line
  BY <1>0, <1>2, <1>3, <1>a, VectorsAre
<1>6. /\ s \in Storing /\ s \in PromptSet /\ s \in LiveSet /\ s.lines = r.lines /\ s.vectors = V
      /\ s.alone = r.alone /\ s.seen = r.seen /\ s.always = r.always
  <2>1. r.alone \in BOOLEAN /\ r.seen \in SUBSET EntrySet /\ r.always \in SUBSET EntrySet
    BY <1>1, LiveStages
  <2>2. s = [at |-> "store", alone |-> r.alone, seen |-> r.seen, always |-> r.always,
             lines |-> r.lines, vectors |-> V]
    BY <1>1, <1>b DEF State, ++
  <2> QED
    BY <1>3, <1>5, <2>1, <2>2 DEF Storing, LiveSet, PromptSet
<1>7. Overlap(s)' /\ Covers(s, ToSet(s.lines))' /\ Sorted(s.lines)'
  <2>1. Overlap(r) /\ Covers(r, ToSet(r.lines)) /\ Sorted(r.lines)
    BY <1>1 DEF PromptOK
  <2> QED
    BY <1>0, <1>6, <2>1 DEF FilesRest, Overlap, Young, Covers, Sorted, Known
<1>8. OwnVectors(s)'
  <2>1. OwnVectors(s)
    BY <1>5, <1>6 DEF OwnVectors
  <2> QED
    BY <1>0, <2>1 DEF OwnVectors, Records, Path, Unshared
<1>9. PromptOK(s)'
  BY <1>6, <1>7, <1>8, LiveStages DEF PromptOK
<1>10. IndexInv' /\ CacheInv'
  BY <1>0, ListsRest
<1> QED
  BY <1>0, <1>1, <1>4, <1>6, <1>9, <1>10, OnePrompt

\* The cache that a search leaves has the vectors of the lines it searched.
LEMMA StoredIsOwn ==
  ASSUME PromptInv, NEW p \in Prompts, NEW r \in Storing, prompt[p] = r, PromptOK(r),
         StoreVectors(p), budget' = budget
  PROVE  CacheInv'
<1>1. r.lines \in Seq(EntrySet) /\ r.vectors \in SUBSET [path : Names \cup Misread, of : Lines]
  BY DEF Storing
<1>2. OwnVectors(r)
  BY DEF PromptOK
<1>4. \A e \in ToSet(r.lines) : e.name \in Names /\ e.line \in Lines
  <2>1. ToSet(r.lines) \in SUBSET EntrySet
    BY <1>1 DEF ToSet
  <2> QED
    BY <2>1 DEF EntrySet
<1>5. ASSUME NEW c \in cache'
      PROVE  c \in [name : Names, line : Lines, of : Lines] /\ (Unshared(c) => c.of = c.line)
  <2>1. PICK ev \in Lasts(Records(r.lines)) \X r.vectors :
          /\ ev[2].path = Path(ev[1])
          /\ c = [name |-> ev[1].name, line |-> ev[1].line, of |-> ev[2].of]
    BY <1>5 DEF StoreVectors
  <2>2. PICK e \in Lasts(Records(r.lines)), v \in r.vectors : e = ev[1] /\ v = ev[2]
    BY <2>1
  <2>3. v.path = Path(e) /\ c = [name |-> e.name, line |-> e.line, of |-> v.of]
    BY <2>1, <2>2
  <2>4. e \in Records(r.lines) /\ e \in ToSet(r.lines)
    BY <2>2 DEF Lasts, Records
  <2>5. Unshared(c) => Unshared(e)
    BY <2>3 DEF Unshared, Path
  <2>6. Unshared(e) => v.of = e.line
    BY <1>2, <2>2, <2>3, <2>4 DEF OwnVectors
  <2> QED
    BY <1>1, <1>4, <2>2, <2>3, <2>4, <2>5, <2>6
<1>6. \A c : Unshared(c)' = Unshared(c)
  BY DEF Unshared, Path
<1> QED
  BY <1>5, <1>6 DEF CacheInv

\* A search that fails shows the lines it was to search, or throws if it is required.
LEMMA GiveUpOK ==
  ASSUME NEW p \in Prompts, NEW r \in Looking \cup Storing, prompt[p] = r, PromptOK(r),
         budget' = budget, GiveUp(p)
  PROVE  \E s \in PromptSet :
           s \notin LiveSet /\ PromptOK(s)' /\ prompt' = [prompt EXCEPT ![p] = s]
<1>0. r \in LiveSet /\ r.lines \in Seq(EntrySet)
  BY DEF LiveSet, Looking, Storing
<1>1. CASE budget.mode = "required"
  <2>1. PICK s : s = [at |-> "threw", selected |-> {}]
    OBVIOUS
  <2>2. prompt' = [prompt EXCEPT ![p] = s]
    BY <1>1, <2>1 DEF GiveUp, Throw
  <2>3. s \in PromptSet /\ s \notin LiveSet /\ PromptOK(s)'
    BY <1>1, <2>1, ThrewOK
  <2> QED
    BY <2>2, <2>3
<1>2. CASE budget.mode # "required"
  <2>1. PICK s : s = State(p, "full") ++ [shown |-> Cap(r.lines, MaxLines)]
    OBVIOUS
  <2>2. prompt' = [prompt EXCEPT ![p] = s]
    BY <1>2, <2>1 DEF GiveUp, Fallback, Answer
  <2>3. Descending(r.lines) /\ Covers(r, ToSet(r.lines))
    BY DEF PromptOK, Sorted
  <2>4. s \in PromptSet /\ s \notin LiveSet /\ PromptOK(s)'
    BY <1>0, <2>1, <2>3, FullIsExact
  <2> QED
    BY <2>2, <2>4
<1> QED
  BY <1>1, <1>2

LEMMA FailuresKeep ==
  ASSUME StoreTypes, PromptInv, NEW p \in Prompts, EmbeddingFails(p) \/ QueryFails(p)
  PROVE  PromptInv'
<1>0. /\ clock \in Nat /\ FilesRest /\ budget' = budget /\ index' = index /\ GiveUp(p)
      /\ cache' = cache \/ (prompt[p].at = "store" /\ StoreVectors(p))
      /\ prompt[p].at \in {"lookup", "store"}
  BY DEF SameSetup, EmbeddingFails, QueryFails, StoreTypes, FilesRest
<1>1. PICK r \in PromptSet : /\ prompt[p] = r /\ PromptOK(r) /\ r \in Looking \cup Storing
                             /\ r.at = "store" => r \in Storing
  BY <1>0, PromptStages
<1>2. PICK s \in PromptSet :
        s \notin LiveSet /\ PromptOK(s)' /\ prompt' = [prompt EXCEPT ![p] = s]
  BY <1>0, <1>1, GiveUpOK
<1>3. IndexInv'
  BY <1>0, ListsRest
<1>4. CacheInv'
  <2>1. CASE cache' = cache
    BY <1>0, <2>1, ListsRest
  <2>2. CASE prompt[p].at = "store" /\ StoreVectors(p)
    BY <1>0, <1>1, <2>2, StoredIsOwn
  <2> QED
    BY <1>0, <2>1, <2>2
<1> QED
  BY <1>0, <1>2, <1>3, <1>4, OnePrompt

LEMMA SearchKeeps ==
  ASSUME StoreTypes, PromptInv, NEW p \in Prompts, NEW selected \in SUBSET ToSet(prompt[p].lines),
         PromptSearch(p, selected)
  PROVE  PromptInv'
<1>0. /\ clock \in Nat /\ FilesRest /\ index' = index /\ budget' = budget
      /\ prompt[p].at = "store" /\ StoreVectors(p)
  BY DEF SameSetup, PromptSearch, StoreTypes, FilesRest
<1>1. PICK r \in PromptSet : prompt[p] = r /\ PromptOK(r) /\ r \in Storing /\ r \in LiveSet
  BY <1>0, PromptStages
<1>a. PICK s : s = State(p, "stat") ++ [selected |-> selected, todo |-> selected]
  OBVIOUS
<1>2. prompt' = [prompt EXCEPT ![p] = s]
  BY <1>a DEF PromptSearch
<1>3. r.lines \in Seq(EntrySet) /\ Sorted(r.lines) /\ Covers(r, ToSet(r.lines)) /\ Overlap(r)
  BY <1>1 DEF Storing, PromptOK
<1>4. selected \in SUBSET ToSet(r.lines)
  BY <1>1
<1>5. selected \in SUBSET EntrySet /\ Known(selected) /\ Distinct(selected) /\ IsFiniteSet(selected)
  BY <1>3, <1>4, SortedSet
<1>6. /\ s \in Selecting /\ s \in PromptSet /\ s \in LiveSet
      /\ s.selected = selected /\ s.todo = selected
      /\ s.alone = r.alone /\ s.seen = r.seen /\ s.always = r.always
  <2>1. r.alone \in BOOLEAN /\ r.seen \in SUBSET EntrySet /\ r.always \in SUBSET EntrySet
    BY <1>1, LiveStages
  <2>2. s = [at |-> "stat", alone |-> r.alone, seen |-> r.seen, always |-> r.always,
             selected |-> selected, todo |-> selected]
    BY <1>1, <1>a DEF State, ++
  <2> QED
    BY <1>5, <2>1, <2>2 DEF Selecting, LiveSet, PromptSet
<1>7. Overlap(s)' /\ Chosen(s)'
  <2>1. Overlap(s)'
    BY <1>0, <1>3, <1>6 DEF SameSetup, FilesRest, Overlap, Young
  <2>2. Known(s.selected)'
    BY <1>0, <1>5, <1>6 DEF SameSetup, FilesRest, Known
  <2>3. s.alone => s.selected \subseteq s.seen
    BY <1>3, <1>4, <1>6 DEF Covers
  <2> QED
    BY <1>5, <1>6, <2>1, <2>2, <2>3 DEF Chosen
<1>8. PromptOK(s)'
  BY <1>6, <1>7, LiveStages DEF PromptOK
<1>9. IndexInv' /\ CacheInv'
  BY <1>0, <1>1, ListsRest, StoredIsOwn
<1> QED
  BY <1>0, <1>1, <1>2, <1>6, <1>8, <1>9, OnePrompt

\* A selected path that fails is not the memory's own or its file was removed; if none
\* fails, what was selected is shown.
LEMMA StatKeeps ==
  ASSUME StoreTypes, PromptInv, NEW p \in Prompts, PromptStat(p)
  PROVE  PromptInv'
<1>0. /\ clock \in Nat /\ FilesRest /\ index' = index /\ cache' = cache
      /\ prompt[p].at = "stat"
  BY DEF SameSetup, PromptStat, StoreTypes, FilesRest
<1>1. PICK r \in PromptSet : prompt[p] = r /\ PromptOK(r) /\ r \in Selecting /\ r \in LiveSet
  BY <1>0, PromptStages
<1>2. /\ Overlap(r) /\ Chosen(r)
      /\ r.selected \in SUBSET EntrySet /\ r.todo \in SUBSET EntrySet
  BY <1>1 DEF PromptOK, Selecting
<1>3. IndexInv' /\ CacheInv'
  BY <1>0, ListsRest
<1>4. prompt \in [Prompts -> PromptSet]
  BY DEF PromptInv
<1>5. CASE r.todo = {}
  <2>1. PICK l : l = NewestFirst(r.selected)
    OBVIOUS
  <2>2. l \in Seq(EntrySet) /\ ToSet(l) = r.selected
    BY <1>2, <2>1, NewestFirstFacts DEF Chosen
  <2>3. PICK s : s = State(p, "picked") ++ [shown |-> l]
    OBVIOUS
  <2>4. prompt' = [prompt EXCEPT ![p] = s]
    BY <1>1, <1>5, <2>1, <2>3 DEF PromptStat, Answer
  <2>5. /\ s \in Answered /\ s.at = "picked" /\ s.shown = l
        /\ s.alone = r.alone /\ s.seen = r.seen /\ s.always = r.always
    BY <1>1, <2>2, <2>3, AnswerIs
  <2>6. Exact(s)
    BY <1>2, <2>2, <2>5 DEF Exact, Chosen
  <2>7. s \in PromptSet /\ s \notin LiveSet /\ PromptOK(s)'
    BY <2>5, <2>6, AnsweredOK
  <2> QED
    BY <1>0, <1>3, <2>4, <2>7, OnePrompt
<1>6. ASSUME NEW e \in r.todo, Fails(Path(e)), Throw(p, r.selected) PROVE PromptInv'
  <2>1. PICK s : s = [at |-> "threw", selected |-> r.selected]
    OBVIOUS
  <2>2. prompt' = [prompt EXCEPT ![p] = s]
    BY <1>6, <2>1 DEF Throw
  <2>3. e \in r.selected /\ (e.name \in removed' \/ Path(e)' # e.name)
    <3>1. Path(e)' = Path(e)
      BY <1>0 DEF SameSetup, FilesRest, Path
    <3>2. e \in r.selected /\ e.name \in Names /\ removed' = removed
      BY <1>0, <1>2, <1>6 DEF Chosen, FilesRest, EntrySet
    <3>3. Path(e) = e.name => typed[e.name] = NoFile
      BY <1>6, <3>2, MemoryStoreAssumption DEF Fails, Misread
    <3>4. typed[e.name] # NoFile \/ e.name \in removed
      BY <1>2, <3>2 DEF Chosen, Known
    <3> QED
      BY <3>1, <3>2, <3>3, <3>4
  <2>4. s \in PromptSet /\ s \notin LiveSet /\ PromptOK(s)'
    BY <1>2, <2>1, <2>3, ThrewOK
  <2> QED
    BY <1>0, <1>3, <2>2, <2>4, OnePrompt
<1>7. ASSUME NEW e \in r.todo, prompt' = [prompt EXCEPT ![p].todo = @ \ {e}] PROVE PromptInv'
  <2>1. PICK s : s = [r EXCEPT !.todo = @ \ {e}]
    OBVIOUS
  <2>2. prompt' = [prompt EXCEPT ![p] = s]
    BY <1>1, <1>4, <1>7, <2>1
  <2>3. /\ s \in Selecting /\ s.selected = r.selected /\ s.todo = r.todo \ {e}
        /\ s.alone = r.alone /\ s.seen = r.seen /\ s.always = r.always
    BY <1>1, <2>1 DEF Selecting
  <2>4. s \in LiveSet /\ s \in PromptSet
    BY <2>3 DEF LiveSet, PromptSet
  <2>5. Overlap(s)' /\ Chosen(s)'
    BY <1>0, <1>2, <2>3 DEF SameSetup, FilesRest, Overlap, Young, Chosen, Known
  <2>6. PromptOK(s)'
    BY <2>3, <2>4, <2>5, LiveStages DEF PromptOK
  <2> QED
    BY <1>0, <1>1, <1>3, <2>2, <2>3, <2>4, <2>6, OnePrompt
<1>8. r.todo # {} => \E e \in r.todo :
        \/ Fails(Path(e)) /\ Throw(p, r.selected)
        \/ prompt' = [prompt EXCEPT ![p].todo = @ \ {e}]
  BY <1>1 DEF PromptStat
<1> QED
  BY <1>5, <1>6, <1>7, <1>8

LEMMA ReturnKeeps ==
  ASSUME StoreTypes, PromptInv, NEW p \in Prompts, PromptReturn(p)
  PROVE  PromptInv'
<1>0. /\ clock \in Nat /\ FilesRest /\ index' = index /\ cache' = cache
  BY DEF SameSetup, PromptReturn, StoreTypes, FilesRest
<1>1. PICK s : s = NoPrompt
  OBVIOUS
<1>2. prompt' = [prompt EXCEPT ![p] = s]
  BY <1>1 DEF PromptReturn
<1>3. s \in PromptSet /\ s \notin LiveSet
  BY <1>1, LiveStages DEF PromptSet
<1>4. s \notin Answered /\ s \notin Threw
  BY <1>1 DEF NoPrompt, Answered, Threw
<1>5. PromptOK(s)'
  BY <1>3, <1>4 DEF PromptOK, LiveSet
<1>6. IndexInv' /\ CacheInv'
  BY <1>0, ListsRest
<1> QED
  BY <1>0, <1>2, <1>3, <1>5, <1>6, OnePrompt

\* A prompt build that starts is alone if no other is running, and none is alone after it.
LEMMA StartKeeps ==
  ASSUME StoreTypes, EntriesGood, PromptInv, NEW p \in Prompts, PromptStart(p)
  PROVE  PromptInv'
<1>0. /\ clock \in Nat /\ FilesRest /\ StoreMoves /\ index' = index /\ cache' = cache
      /\ prompt[p] = NoPrompt
  <2>1. clock \in Nat /\ budget \in BudgetSet
    BY DEF StoreTypes
  <2>2. budget.prompts > 0 /\ budget' = [budget EXCEPT !.prompts = @ - 1]
    BY DEF PromptStart
  <2>3. SameSetup
    BY <2>1, <2>2, BudgetSpent DEF SameSetup
  <2>4. FilesRest /\ index' = index /\ cache' = cache /\ prompt[p] = NoPrompt
    BY <2>3 DEF SameSetup, PromptStart, FilesRest
  <2> QED
    BY <2>1, <2>4, RestMoves
<1>1. PICK others : others = {q \in Prompts : prompt[q] # NoPrompt /\ ~Over(q)}
  OBVIOUS
<1>2. PICK known : known = IF others = {} THEN Entries(typed) ELSE {}
  OBVIOUS
<1>3. PICK s : s = [at |-> "scan", todo |-> Present(typed), got |-> {},
                    seen |-> known, always |-> known, alone |-> others = {}]
  OBVIOUS
<1>4. prompt' = [q \in Prompts |-> IF q = p THEN s ELSE IF q \in others THEN Joined(prompt[q]) ELSE prompt[q]]
  BY <1>1, <1>2, <1>3 DEF PromptStart, Joined
<1>5. /\ prompt \in [Prompts -> PromptSet]
      /\ \A q \in Prompts, r \in PromptSet : prompt[q] = r => PromptOK(r)
  BY DEF PromptInv
<1>6. \A q \in Prompts : q \in others <=> prompt[q] \in LiveSet
  <2>1. ASSUME NEW q \in Prompts PROVE q \in others <=> prompt[q] \in LiveSet
    <3>1. PICK r \in PromptSet : /\ prompt[q] = r /\ (Over(q) => r \notin LiveSet)
                                 /\ r \notin LiveSet => Over(q) \/ r = NoPrompt
      BY PromptStages
    <3>2. NoPrompt \notin LiveSet
      BY LiveStages
    <3> QED
      BY <1>1, <3>1, <3>2
  <2> QED
    BY <2>1
<1>7. /\ s \in Walking /\ s.got = {} /\ s.todo = Present(typed) /\ s.seen = known
      /\ s.always = known /\ (s.alone = TRUE <=> others = {})
  <2>1. Present(typed) \in SUBSET Names
    BY DEF Present
  <2>2. known \in SUBSET EntrySet
    BY <1>2 DEF EntriesGood
  <2>3. PICK alone \in BOOLEAN : alone <=> others = {}
    OBVIOUS
  <2>4. s = [at |-> "scan", todo |-> Present(typed), got |-> {}, seen |-> known,
             always |-> known, alone |-> alone]
    BY <1>3, <2>3
  <2>5. s \in Walking
    BY <2>1, <2>2, <2>4 DEF Walking
  <2> QED
    BY <2>3, <2>4, <2>5
<1>8. s \in LiveSet /\ s \in PromptSet
  BY <1>7 DEF LiveSet, PromptSet
<1>9. PromptOK(s)'
  <2>1. \A e \in Entries(typed) : e.name \in Present(typed)
    BY EntriesFacts DEF StoreTypes, Readable
  <2>2. IsFiniteSet({})
    BY FS_EmptySet
  <2>3. Walked(s)
    BY <1>2, <1>7, <2>1, <2>2 DEF Walked, Young, Known, Owned, Distinct
  <2>4. Overlap(s)
    BY <1>2, <1>7 DEF Overlap, EntriesGood, Young
  <2>5. Walked(s)' /\ Overlap(s)'
    BY <1>0, <2>3, <2>4 DEF SameSetup, FilesRest, Walked, Overlap, Young, Known, Owned
  <2> QED
    BY <1>7, <1>8, <2>5, LiveStages DEF PromptOK
<1>10. ASSUME NEW q \in Prompts, q # p
       PROVE  /\ prompt'[q] \in PromptSet
              /\ \A r \in PromptSet : prompt'[q] = r => PromptOK(r)'
              /\ prompt'[q] \in LiveSet <=> q \in others
              /\ prompt'[q] \in LiveSet => prompt'[q].alone = FALSE
  <2>1. PICK r \in PromptSet : prompt[q] = r /\ PromptOK(r)
    BY <1>5
  <2>2. CASE q \in others
    <3>1. r \in LiveSet
      BY <1>6, <2>1, <2>2
    <3>2. PICK t : t = Joined(r)
      OBVIOUS
    <3>3. PromptOK(t)' /\ t \in LiveSet /\ t.alone = FALSE
      BY <1>0, <2>1, <3>1, <3>2, JoinedPrompt DEF FilesRest
    <3>4. prompt'[q] = t
      BY <1>4, <1>10, <2>1, <2>2, <3>2
    <3> QED
      BY <2>2, <3>3, <3>4 DEF PromptSet
  <2>3. CASE q \notin others
    <3>1. prompt'[q] = r /\ r \notin LiveSet
      BY <1>4, <1>6, <1>10, <2>1, <2>3
    <3>2. r \notin Reading
      BY <3>1 DEF LiveSet
    <3>3. SameSetup
      BY <1>0 DEF SameSetup, FilesRest
    <3>4. PromptOK(r)'
      BY <1>0, <2>1, <3>1, <3>2, <3>3, QuietPrompt
    <3> QED
      BY <2>3, <3>1, <3>4
  <2> QED
    BY <2>2, <2>3
<1>11. prompt'[p] = s /\ DOMAIN prompt' = Prompts
  BY <1>4
<1>12. prompt' \in [Prompts -> PromptSet]
  <2>1. \A q \in Prompts : prompt'[q] \in PromptSet
    BY <1>8, <1>10, <1>11
  <2>2. prompt' = [q \in Prompts |-> prompt'[q]]
    BY <1>4
  <2> QED
    BY <2>1, <2>2
<1>13. AloneInv'
  <2> SUFFICES ASSUME NEW q \in Prompts, NEW r \in Prompts, q # r, prompt'[q] \in LiveSet,
                      prompt'[q].alone
               PROVE  prompt'[r] \notin LiveSet
    BY DEF AloneInv
  <2>1. q = p
    BY <1>10
  <2>2. others = {}
    BY <1>7, <1>11, <2>1
  <2> QED
    BY <1>10, <2>1, <2>2
<1>14. IndexInv' /\ CacheInv'
  BY <1>0, ListsRest
<1>15. ASSUME NEW q \in Prompts, NEW r \in PromptSet, prompt'[q] = r PROVE PromptOK(r)'
  BY <1>9, <1>10, <1>11, <1>15
<1> QED
  BY <1>12, <1>13, <1>14, <1>15 DEF PromptInv

LEMMA PromptNextKeeps ==
  ASSUME StoreTypes, EntriesGood, PromptInv, PromptNext
  PROVE  PromptInv'
<1>1. PICK p \in Prompts :
        \/ PromptStart(p) \/ (\E n \in Names : PromptScan(p, n)) \/ PromptSync(p)
        \/ (\E query \in BOOLEAN : PromptFull(p, query)) \/ PromptUnserved(p) \/ PromptRecords(p)
        \/ PromptLookup(p) \/ EmbeddingFails(p) \/ QueryFails(p)
        \/ (\E selected \in SUBSET (IF prompt[p].at = "store" THEN ToSet(prompt[p].lines) ELSE {}) :
              PromptSearch(p, selected))
        \/ PromptStat(p) \/ PromptReturn(p)
  BY DEF PromptNext
<1>2. CASE PromptStart(p) \/ PromptSync(p) \/ \E n \in Names : PromptScan(p, n)
  BY <1>2, StartKeeps, SyncKeeps, ScanKeeps
<1>3. CASE PromptUnserved(p) \/ PromptRecords(p) \/ \E query \in BOOLEAN : PromptFull(p, query)
  BY <1>3, UnservedKeeps, RecordsKeep, FullKeeps
<1>4. CASE PromptLookup(p) \/ EmbeddingFails(p) \/ QueryFails(p)
  BY <1>4, LookupKeeps, FailuresKeep
<1>5. ASSUME NEW selected \in SUBSET (IF prompt[p].at = "store" THEN ToSet(prompt[p].lines) ELSE {}),
             PromptSearch(p, selected)
      PROVE  PromptInv'
  <2>1. prompt[p].at = "store"
    BY <1>5 DEF PromptSearch
  <2>2. selected \in SUBSET ToSet(prompt[p].lines)
    BY <1>5, <2>1
  <2> QED
    BY <1>5, <2>2, SearchKeeps
<1>6. CASE PromptStat(p) \/ PromptReturn(p)
  BY <1>6, StatKeeps, ReturnKeeps
<1> QED
  BY <1>1, <1>2, <1>3, <1>4, <1>5, <1>6

LEMMA PromptInit == Init /\ FileInv => PromptInv
<1> SUFFICES ASSUME Init, FileInv PROVE PromptInv
  OBVIOUS
<1>1. EntriesGood
  BY EntriesAre DEF FileInv
<1>2. /\ index \in {<<>>, NewestFirst(Entries(typed))} /\ cache = {}
      /\ prompt = [p \in Prompts |-> NoPrompt]
  BY DEF Init
<1>3. IndexInv
  <2>1. CASE index = <<>>
    BY <2>1 DEF IndexInv, Young, Sorted, Known, Descending, NamesDiffer, ToSet
  <2>2. CASE index = NewestFirst(Entries(typed))
    <3>1. index \in Seq(EntrySet) /\ ToSet(index) = Entries(typed) /\ Descending(index) /\ NamesDiffer(index)
      BY <1>1, <2>2, ListIs
    <3> QED
      BY <1>1, <3>1 DEF EntriesGood, IndexInv, Sorted
  <2> QED
    BY <1>2, <2>1, <2>2
<1>4. NoPrompt \notin LiveSet /\ NoPrompt \notin Answered /\ NoPrompt \notin Threw
  <2>1. NoPrompt \notin LiveSet
    BY LiveStages
  <2> QED
    BY <2>1 DEF NoPrompt, Answered, Threw
<1>5. NoPrompt \in PromptSet /\ PromptOK(NoPrompt)
  BY <1>4 DEF PromptOK, PromptSet, LiveSet
<1>6. \A p \in Prompts : prompt[p] = NoPrompt
  BY <1>2
<1>7. prompt \in [Prompts -> PromptSet]
  BY <1>2, <1>5
<1>8. ASSUME NEW p \in Prompts, NEW r \in PromptSet, prompt[p] = r PROVE PromptOK(r)
  <2>1. r = NoPrompt
    BY <1>6, <1>8
  <2> QED
    BY <1>5, <2>1
<1>9. CacheInv /\ AloneInv
  BY <1>2, <1>4, <1>6 DEF CacheInv, AloneInv
<1> QED
  BY <1>3, <1>7, <1>8, <1>9 DEF PromptInv

LEMMA PromptStep == FileInv /\ FileInv' /\ PromptInv /\ [Next]_vars => PromptInv'
<1> SUFFICES ASSUME FileInv, FileInv', PromptInv, [Next]_vars PROVE PromptInv'
  OBVIOUS
<1>1. EntriesGood /\ EntriesGood'
  <2>1. FileInv => EntriesGood
    BY EntriesAre DEF FileInv
  <2>2. FileInv' => EntriesGood'
    <3>1. StoreTypes' /\ StampInv' /\ StampsDiffer'
      BY DEF FileInv
    <3> QED
      BY <3>1, EntriesAre, PTL
  <2> QED
    BY <2>1, <2>2
<1>2. StoreTypes /\ StoreTypes' /\ Kept /\ StampsDiffer
  BY DEF FileInv, Kept
<1>3. CASE WriterNext
  <2>1. WriterStep
    BY <1>2, <1>3, WriterSteps
  <2> QED
    BY <1>1, <1>2, <2>1, PromptsWatch
<1>4. CASE PromptNext
  BY <1>1, <1>2, <1>4, PromptNextKeeps
<1>5. CASE UNCHANGED vars
  BY <1>5 DEF vars, PromptInv, PromptOK, IndexInv, CacheInv, AloneInv, Overlap, Walked, Covers, Sorted,
    Chosen, OwnVectors, Exact, Young, Known, Owned, Records, Path, Unshared
<1> QED
  BY <1>3, <1>4, <1>5 DEF Next

\* The inductive invariant of MEMORY.md, the vector cache and the prompt builds.
THEOREM PromptsInvariant == Spec => [](FileInv /\ PromptInv)
<1>1. FileInv /\ PromptInv /\ [Next]_vars => (FileInv /\ PromptInv)'
  BY FileNext, PromptStep
<1>2. Init => FileInv /\ PromptInv
  BY FileInit, PromptInit
<1> QED
  BY <1>1, <1>2, PTL DEF Spec

\* The prompt builds that the properties speak of.
LEMMA PromptsAre ==
  ASSUME PromptInv, NEW p \in Prompts
  PROVE  \E r \in PromptSet :
           /\ prompt[p] = r /\ PromptOK(r)
           /\ r.at = "store" => r \in Storing
           /\ r.at \in {"full", "picked"} => r \in Answered
           /\ r.at = "threw" => r \in Threw
           /\ r # NoPrompt /\ ~Over(p) => r \in LiveSet
<1>1. PICK r \in PromptSet : prompt[p] = r /\ PromptOK(r)
  BY DEF PromptInv
<1>2. CASE r \in LiveSet
  BY <1>1, <1>2, LiveStages
<1>3. CASE r \notin LiveSet
  BY <1>1, <1>3, OverStages DEF Over
<1> QED
  BY <1>2, <1>3

\* A prompt build that overlaps no other one shows what there is, for any number of memories
\* and of prompt builds and any bound on the lines: what MEMORY.md held before does not
\* matter, nor what writers do meanwhile.
THEOREM LonePromptsAreExact == Spec => []LonePromptIsExact
<1>1. PromptInv => LonePromptIsExact
  <2> SUFFICES ASSUME PromptInv, NEW p \in Prompts, prompt[p].at \in {"full", "picked"}, prompt[p].alone
               PROVE  /\ ToSet(prompt[p].shown) \subseteq prompt[p].seen
                      /\ prompt[p].at = "full" =>
                           \A e \in prompt[p].always \ ToSet(prompt[p].shown) :
                             /\ Cardinality(ToSet(prompt[p].shown)) = MaxLines
                             /\ \A f \in ToSet(prompt[p].shown) : f.mtime > e.mtime
    BY DEF LonePromptIsExact
  <2>1. PICK r \in PromptSet : prompt[p] = r /\ PromptOK(r) /\ r \in Answered
    BY PromptsAre
  <2> QED
    BY <2>1 DEF PromptOK, Exact
<1> QED
  BY <1>1, PromptsInvariant, PTL

\* A prompt build in the default mode fails only for a line that it selected: its file was
\* removed or its path is read wrongly, whatever the paths are that the parser of the index
\* reads in the lines.
THEOREM AutoThrowsForRemoved == Spec => []AutoThrowsOnlyForRemoved
<1>1. PromptInv => AutoThrowsOnlyForRemoved
  <2> SUFFICES ASSUME PromptInv, NEW p \in Prompts, prompt[p].at = "threw", budget.mode = "auto"
               PROVE  \E e \in prompt[p].selected : e.name \in removed \/ Path(e) # e.name
    BY DEF AutoThrowsOnlyForRemoved
  <2>1. PICK r \in PromptSet : prompt[p] = r /\ PromptOK(r) /\ r \in Threw
    BY PromptsAre
  <2> QED
    BY <2>1 DEF PromptOK
<1> QED
  BY <1>1, PromptsInvariant, PTL

\* A search has a vector for each of its records, and it is the one of the record's line
\* unless lines of two memories may be read as having the same path, whatever other prompt
\* builds put into the cache and whatever paths the parser reads.
THEOREM VectorsAreOwn == Spec => []VectorsAreOfTheirLines
<1>1. PromptInv => VectorsAreOfTheirLines
  <2> SUFFICES ASSUME PromptInv, NEW p \in Prompts, prompt[p].at = "store",
                      NEW e \in Records(prompt[p].lines)
               PROVE  LET vectors == {v \in prompt[p].vectors : v.path = Path(e)}
                      IN  vectors # {} /\ (Unshared(e) => \A v \in vectors : v.of = e.line)
    BY DEF VectorsAreOfTheirLines
  <2>1. PICK r \in PromptSet : prompt[p] = r /\ PromptOK(r) /\ r \in Storing
    BY PromptsAre
  <2> QED
    BY <2>1 DEF PromptOK, OwnVectors
<1> QED
  BY <1>1, PromptsInvariant, PTL

LEMMA TypesHold == FileInv /\ PromptInv => TypeOK
<1> SUFFICES ASSUME FileInv, PromptInv PROVE TypeOK
  OBVIOUS
<1> DEFINE entries == [name : Names, line : Lines, mtime : 1 .. clock]
<1>0. StoreTypes /\ StampInv /\ clock \in Nat
  BY DEF FileInv, StoreTypes
<1>1. /\ typed \in [Names -> {NoFile} \cup [line : Lines \cup {Torn}, mtime : 1 .. clock]]
      /\ root \in [Names -> {NoFile} \cup [line : Lines \cup {Torn}, mtime : 1 .. clock]]
  <2>1. ASSUME NEW dir \in Files,
               \A n \in Names : dir[n] # NoFile => dir[n].mtime >= 1 /\ dir[n].mtime <= clock
        PROVE  dir \in [Names -> {NoFile} \cup [line : Lines \cup {Torn}, mtime : 1 .. clock]]
    <3>1. ASSUME NEW n \in Names, dir[n] # NoFile
          PROVE  dir[n] \in [line : Lines \cup {Torn}, mtime : 1 .. clock]
      <4>1. PICK f \in FileSet : dir[n] = f /\ f.mtime \in Nat /\ f.mtime >= 1 /\ f.mtime <= clock
        BY <2>1, <3>1, DirFacts
      <4>2. f.mtime \in 1 .. clock
        BY <1>0, <4>1
      <4>3. f \in [line : Lines \cup {Torn}, mtime : 1 .. clock]
        BY <4>2 DEF FileSet
      <4> QED
        BY <4>1, <4>3
    <3>2. \A n \in Names : dir[n] \in {NoFile} \cup [line : Lines \cup {Torn}, mtime : 1 .. clock]
      BY <3>1
    <3> QED
      BY <3>2 DEF Files
  <2> QED
    BY <1>0, <2>1 DEF StoreTypes, StampInv
<1>2. ASSUME NEW S \in SUBSET EntrySet, Young(S) PROVE S \subseteq entries
  <2>1. ASSUME NEW e \in S PROVE e \in entries
    <3>1. e \in EntrySet /\ e.mtime >= 1 /\ e.mtime <= clock
      BY <1>2 DEF Young
    <3>2. e.mtime \in 1 .. clock
      BY <1>0, <3>1 DEF EntrySet
    <3> QED
      BY <3>1, <3>2 DEF EntrySet
  <2> QED
    BY <2>1
<1> HIDE DEF entries
<1>3. index \in Seq(entries) /\ \A i, j \in DOMAIN index : index[i].name = index[j].name => i = j
  <2>1. index \in Seq(EntrySet) /\ Young(ToSet(index)) /\ NamesDiffer(index)
    BY DEF PromptInv, IndexInv, Sorted
  <2>2. ToSet(index) \in SUBSET EntrySet
    BY <2>1 DEF ToSet
  <2>3. ToSet(index) \subseteq entries
    BY <1>2, <2>1, <2>2
  <2>4. \A i \in 1 .. Len(index) : index[i] \in entries
    BY <2>1, <2>3 DEF ToSet
  <2>5. index \in Seq(entries)
    BY <2>1, <2>4
  <2> QED
    BY <2>1, <2>5 DEF NamesDiffer
<1>4. writer = Free \/ writer.kind \in {"extract", "save"}
  BY <1>0, Stages DEF StoreTypes
<1>5. ASSUME NEW p \in Prompts, prompt[p] # NoPrompt, ~Over(p)
      PROVE  prompt[p].always \subseteq prompt[p].seen /\ prompt[p].seen \subseteq entries
  <2>1. PICK r \in PromptSet : prompt[p] = r /\ PromptOK(r) /\ r \in LiveSet
    BY <1>5, PromptsAre
  <2>2. Overlap(r) /\ r.seen \in SUBSET EntrySet
    BY <2>1, LiveStages DEF PromptOK
  <2> QED
    BY <1>2, <2>1, <2>2 DEF Overlap
<1>6. /\ cache \subseteq [name : Names, line : Lines, of : Lines]
      /\ due \in [Names -> Lines \cup {NoFile}]
      /\ removed \subseteq Names /\ damaged \subseteq Names
  BY <1>0 DEF StoreTypes, PromptInv, CacheInv
<1> QED
  BY <1>1, <1>3, <1>4, <1>5, <1>6 DEF TypeOK, entries

LEMMA NewestHolds == StampInv /\ StoreTypes /\ DueInv => 
  \A n \in Names \ damaged :
    LET copies == {f \in {typed[n], root[n]} : f # NoFile /\ f.line # Torn}
    IN  IF due[n] = NoFile THEN copies = {}
        ELSE /\ copies # {}
             /\ \A f \in copies : (\A g \in copies : f.mtime >= g.mtime) => f.line = due[n]
<1> SUFFICES ASSUME StampInv, StoreTypes, DueInv, NEW n \in Names \ damaged,
                    NEW copies, copies = {f \in {typed[n], root[n]} : f # NoFile /\ f.line # Torn}
             PROVE  IF due[n] = NoFile THEN copies = {}
                    ELSE /\ copies # {}
                         /\ \A f \in copies : (\A g \in copies : f.mtime >= g.mtime) => f.line = due[n]
  OBVIOUS
<1>1. /\ typed[n] \in copies <=> Holds(typed[n])
      /\ root[n] \in copies <=> Holds(root[n])
      /\ \A f \in copies : f = typed[n] \/ f = root[n]
  BY DEF Holds
<1>2. DueOf(n)
  BY DEF DueInv
<1> QED
  BY <1>1, <1>2 DEF DueOf

\* What was written last of a memory is what its newest file holds, for any number of
\* memories and whatever writers, relocations and crashes do, unless a writer died while
\* it was overwriting that file.
THEOREM NewestStays == Spec => []NewestIsKept
<1>1. FileInv /\ PromptInv => NewestIsKept
  BY TypesHold, NewestHolds DEF FileInv, NewestIsKept
<1> QED
  BY <1>1, PromptsInvariant, PTL
=============================================================================
