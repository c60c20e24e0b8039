---------------------------- MODULE OperatorsProofs ----------------------------
(***************************************************************************)
(* Theorems about the modules that have no state of their own, for every   *)
(* input of their types: which lines a pass shows and appends, what the    *)
(* hosts' transcripts become, what the read tools answer, what an install  *)
(* makes of a config file and what becomes of a skill's package.  For each *)
(* there is the fact for every input, and then what the run checks.        *)
(***************************************************************************)
EXTENDS Operators, WellFoundedInduction, FiniteSetTheorems, TLAPS

\* An input says of which module it is.
LEMMA InputKinds ==
  ASSUME InputInit
  PROVE  /\ input.of = "trace" => TraceInput
         /\ input.of = "messages" => MessagesInput
         /\ input.of = "read" => ReadInput
         /\ input.of = "search" => SearchInput
         /\ input.of = "install" => InstallInput
         /\ input.of = "package" => PackageInput
<1>1. TraceInput => input.of = "trace"
  BY DEF TraceInput
<1>2. MessagesInput => input.of = "messages"
  BY DEF MessagesInput
<1>3. ReadInput => input.of = "read"
  BY DEF ReadInput
<1>4. SearchInput => input.of = "search"
  BY DEF SearchInput
<1>5. InstallInput => input.of = "install"
  BY DEF InstallInput
<1>6. PackageInput => input.of = "package"
  <2> SUFFICES ASSUME NEW package, NEW own, NEW now, NEW meanwhile,
                      PackageOver(package, own, now, meanwhile)
               PROVE  input.of = "package"
    BY DEF PackageInput
  <2> QED
    BY DEF PackageOver
<1> QED
  BY <1>1, <1>2, <1>3, <1>4, <1>5, <1>6 DEF InputInit

(***************************************************************************)
(* The windows of a pass.                                                  *)
(***************************************************************************)

USE WindowAssumption

LEMMA SubSeqFacts ==
  ASSUME NEW T, NEW q \in Seq(T), NEW a \in 1 .. Len(q) + 1, NEW b \in 0 .. Len(q), a <= b + 1
  PROVE  /\ SubSeq(q, a, b) \in Seq(T) /\ Len(SubSeq(q, a, b)) = b - a + 1
         /\ \A i \in 1 .. b - a + 1 : SubSeq(q, a, b)[i] = q[a + i - 1]
OBVIOUS

LEMMA LastNFacts ==
  ASSUME NEW T, NEW q \in Seq(T), NEW n \in Nat
  PROVE  LET k == IF n < Len(q) THEN n ELSE Len(q)
         IN  /\ LastN(q, n) \in Seq(T) /\ Len(LastN(q, n)) = k
             /\ \A i \in 1 .. k : LastN(q, n)[i] = q[Len(q) - k + i]
<1> DEFINE k == IF n < Len(q) THEN n ELSE Len(q)
<1>0. Len(q) \in Nat
  OBVIOUS
<1>1. k \in 0 .. Len(q) /\ LastN(q, n) = SubSeq(q, Len(q) - k + 1, Len(q))
  <2>1. CASE n < Len(q)
    BY <1>0, <2>1 DEF LastN
  <2>2. CASE ~(n < Len(q))
    BY <1>0, <2>2 DEF LastN
  <2> QED
    BY <2>1, <2>2
<1> HIDE DEF k
<1>2. Len(q) - k + 1 \in 1 .. Len(q) + 1 /\ Len(q) \in 0 .. Len(q)
  BY <1>0, <1>1
<1>3. /\ LastN(q, n) \in Seq(T) /\ Len(LastN(q, n)) = Len(q) - (Len(q) - k + 1) + 1
      /\ \A i \in 1 .. Len(q) - (Len(q) - k + 1) + 1 :
           LastN(q, n)[i] = q[(Len(q) - k + 1) + i - 1]
  BY <1>1, <1>2, SubSeqFacts
<1>4. Len(q) \in Nat
  OBVIOUS
<1>5. LastN(q, n) \in Seq(T) /\ Len(LastN(q, n)) = k
  BY <1>1, <1>3, <1>4
<1>6. ASSUME NEW i \in 1 .. k PROVE LastN(q, n)[i] = q[Len(q) - k + i]
  BY <1>1, <1>3, <1>4
<1> QED
  BY <1>5, <1>6 DEF k

\* Where the new messages begin, and where those begin that fit into a window.
From(m, c) == IF FirstRun(m, c) THEN 0 ELSE c + 1
WindowFrom(m, c) ==
  IF From(m, c) < Len(m) - MaxMessages THEN Len(m) - MaxMessages ELSE From(m, c)

LEMMA UnprocessedFacts ==
  ASSUME NEW T, NEW m \in Seq(T), NEW c \in Int
  PROVE  /\ From(m, c) \in 0 .. Len(m)
         /\ Unprocessed(m, c) \in Seq(T) /\ Len(Unprocessed(m, c)) = Len(m) - From(m, c)
         /\ \A i \in 1 .. Len(m) - From(m, c) : Unprocessed(m, c)[i] = m[From(m, c) + i]
<1>1. Len(m) \in Nat
  OBVIOUS
<1>2. CASE FirstRun(m, c)
  BY <1>1, <1>2 DEF From, Unprocessed
<1>3. CASE ~FirstRun(m, c)
  <2>1. c \in 0 .. Len(m) - 1 /\ c + 2 \in 1 .. Len(m) + 1 /\ Len(m) \in 0 .. Len(m)
    BY <1>1, <1>3 DEF FirstRun
  <2>2. From(m, c) = c + 1 /\ Unprocessed(m, c) = SubSeq(m, c + 2, Len(m))
    BY <1>3 DEF From, Unprocessed
  <2>3. /\ SubSeq(m, c + 2, Len(m)) \in Seq(T)
        /\ Len(SubSeq(m, c + 2, Len(m))) = Len(m) - (c + 2) + 1
        /\ \A i \in 1 .. Len(m) - (c + 2) + 1 :
             SubSeq(m, c + 2, Len(m))[i] = m[(c + 2) + i - 1]
    BY <2>1, SubSeqFacts
  <2> QED
    BY <1>1, <2>1, <2>2, <2>3
<1> QED
  BY <1>2, <1>3

LEMMA WindowFromFacts ==
  ASSUME NEW T, NEW m \in Seq(T), NEW c \in Int
  PROVE  /\ WindowFrom(m, c) \in From(m, c) .. Len(m) /\ From(m, c) \in Nat /\ Len(m) \in Nat
         /\ WindowFrom(m, c) >= Len(m) - MaxMessages
         /\ From(m, c) < Len(m) => WindowFrom(m, c) < Len(m)
<1>1. From(m, c) \in 0 .. Len(m)
  BY UnprocessedFacts
<1>2. Len(m) \in Nat
  OBVIOUS
<1> QED
  BY <1>1, <1>2 DEF WindowFrom

LEMMA TracedFacts ==
  ASSUME NEW T, NEW m \in Seq(T), NEW c \in Int
  PROVE  LET t == SelectForTrace(m, c)
             w == WindowFrom(m, c)
         IN  /\ t \in Seq(T) /\ Len(t) = Len(m) - w
             /\ \A i \in 1 .. Len(m) - w : t[i] = m[w + i]
<1> DEFINE u == Unprocessed(m, c)
           f == From(m, c)
           k == IF MaxMessages < Len(u) THEN MaxMessages ELSE Len(u)
<1>0. Len(m) \in Nat
  OBVIOUS
<1> HIDE DEF u, f, k
<1>1. f \in 0 .. Len(m) /\ u \in Seq(T) /\ Len(u) = Len(m) - f
      /\ \A i \in 1 .. Len(m) - f : u[i] = m[f + i]
  BY UnprocessedFacts DEF u, f
<1>2. SelectForTrace(m, c) = LastN(u, MaxMessages)
  BY DEF SelectForTrace, u
<1>3. WindowFrom(m, c) = Len(m) - k /\ k \in 0 .. Len(u)
  BY <1>0, <1>1 DEF WindowFrom, f, k
<1>4. LastN(u, MaxMessages) \in Seq(T) /\ Len(LastN(u, MaxMessages)) = k
      /\ \A i \in 1 .. k : LastN(u, MaxMessages)[i] = u[Len(u) - k + i]
  BY <1>1, LastNFacts DEF k
<1>5. ASSUME NEW i \in 1 .. k
      PROVE  LastN(u, MaxMessages)[i] = m[(Len(m) - k) + i]
  <2>1. Len(u) - k + i \in 1 .. Len(m) - f /\ f + (Len(u) - k + i) = Len(m) - k + i
    BY <1>0, <1>1, <1>3
  <2> QED
    BY <1>1, <1>4, <2>1
<1>6. Len(m) - WindowFrom(m, c) = k
  BY <1>0, <1>1, <1>3
<1> QED
  BY <1>2, <1>3, <1>4, <1>5, <1>6

LEMMA MinOfThree ==
  ASSUME NEW a \in Int, NEW b \in Int, NEW c \in Int
  PROVE  Min({a, b, c}) \in {a, b, c} /\ Min({a, b, c}) <= a /\ Min({a, b, c}) <= b
         /\ Min({a, b, c}) <= c
<1>1. \E x \in {a, b, c} : \A y \in {a, b, c} : x <= y
  <2>1. CASE a <= b /\ a <= c
    BY <2>1
  <2>2. CASE b <= a /\ b <= c
    BY <2>2
  <2>3. CASE c <= a /\ c <= b
    BY <2>3
  <2> QED
    BY <2>1, <2>2, <2>3
<1>2. Min({a, b, c}) \in {a, b, c} /\ \A y \in {a, b, c} : Min({a, b, c}) <= y
  BY <1>1 DEF Min
<1> QED
  BY <1>2

\* The window is an end of the session that holds the traced messages and, before them,
\* some that were processed.
LEMMA WindowFacts ==
  ASSUME NEW T, NEW m \in Seq(T), NEW c \in Int
  PROVE  LET w == SelectForExtraction(m, c)
         IN  /\ w \in Seq(T)
             /\ (w = <<>>) <=> From(m, c) = Len(m)
             /\ From(m, c) < Len(m) =>
                  \E v \in Nat :
                    /\ v <= WindowFrom(m, c) /\ v >= Len(m) - MaxMessages
                    /\ Len(w) = Len(m) - v
                    /\ \A i \in 1 .. Len(m) - v : w[i] = m[v + i]
<1> DEFINE w == SelectForExtraction(m, c)
           new == Unprocessed(m, c)
           f == From(m, c)
           room == MaxMessages - Len(new)
           context == Min({ContextSize, c + 1, room})
           Goal == /\ w \in Seq(T)
                   /\ (w = <<>>) <=> f = Len(m)
                   /\ f < Len(m) =>
                        \E v \in Nat :
                          /\ v <= WindowFrom(m, c) /\ v >= Len(m) - MaxMessages
                          /\ Len(w) = Len(m) - v
                          /\ \A i \in 1 .. Len(m) - v : w[i] = m[v + i]
<1>0. Len(m) \in Nat /\ MaxMessages \in Nat /\ MaxMessages > 0 /\ ContextSize \in Nat
  OBVIOUS
<1>1. f \in 0 .. Len(m) /\ new \in Seq(T) /\ Len(new) = Len(m) - f
  BY UnprocessedFacts
<1>2. WindowFrom(m, c) \in f .. Len(m) /\ WindowFrom(m, c) >= Len(m) - MaxMessages
      /\ (f < Len(m) => WindowFrom(m, c) < Len(m))
  BY WindowFromFacts
<1>3. w = IF new = <<>> THEN <<>>
          ELSE IF FirstRun(m, c) \/ room <= 0 THEN LastN(new, MaxMessages)
          ELSE SubSeq(m, c + 2 - context, Len(m))
  BY DEF SelectForExtraction
<1>4. (new = <<>>) <=> f = Len(m)
  BY <1>0, <1>1
<1>5. context <= ContextSize /\ context <= c + 1 /\ context <= room
      /\ context \in {ContextSize, c + 1, room} /\ context \in Int
  <2>1. ContextSize \in Int /\ c + 1 \in Int /\ room \in Int
    BY <1>0, <1>1
  <2> HIDE DEF room
  <2> QED
    BY <2>1, MinOfThree
<1>6. SelectForTrace(m, c) = LastN(new, MaxMessages)
  BY DEF SelectForTrace
<1>7. f = IF FirstRun(m, c) THEN 0 ELSE c + 1
  BY DEF From
<1>71. WindowFrom(m, c) = IF f < Len(m) - MaxMessages THEN Len(m) - MaxMessages ELSE f
  BY DEF WindowFrom
<1> HIDE DEF w, new, f, context
<1>8. ASSUME new = <<>> PROVE Goal
  <2>1. w = <<>> /\ f = Len(m)
    BY <1>3, <1>4, <1>8
  <2> QED
    BY <2>1, <1>0
<1>9. ASSUME new # <<>> /\ (FirstRun(m, c) \/ room <= 0) PROVE Goal
  <2> DEFINE v == WindowFrom(m, c)
  <2>1. w = SelectForTrace(m, c)
    BY <1>3, <1>6, <1>9
  <2>2. w \in Seq(T) /\ Len(w) = Len(m) - v /\ \A i \in 1 .. Len(m) - v : w[i] = m[v + i]
    BY <2>1, TracedFacts
  <2>3. f < Len(m)
    BY <1>0, <1>1, <1>4, <1>9
  <2>4. v \in Nat /\ v <= v /\ v >= Len(m) - MaxMessages /\ v < Len(m)
    BY <1>0, <1>1, <1>2, <2>3
  <2>5. w # <<>>
    BY <1>0, <2>2, <2>4
  <2> HIDE DEF v
  <2>6. \E x \in Nat : x <= v /\ x >= Len(m) - MaxMessages /\ Len(w) = Len(m) - x
                          /\ \A i \in 1 .. Len(m) - x : w[i] = m[x + i]
    BY <2>2, <2>4
  <2> QED
    BY <1>0, <2>2, <2>3, <2>5, <2>6 DEF v
<1>10. ASSUME new # <<>> /\ ~(FirstRun(m, c) \/ room <= 0) PROVE Goal
  <2> DEFINE v == c + 1 - context
  <2>1. f = c + 1 /\ f < Len(m) /\ c >= 0
    BY <1>0, <1>1, <1>4, <1>7, <1>10 DEF FirstRun
  <2>2. room > 0 /\ room = MaxMessages - (Len(m) - f)
    BY <1>0, <1>1, <1>10
  <2>3. WindowFrom(m, c) = c + 1
    BY <1>0, <1>71, <2>1, <2>2
  <2>4. context >= 0
    BY <1>0, <1>5, <2>1, <2>2
  <2>5. v \in Nat /\ v <= WindowFrom(m, c) /\ v >= Len(m) - MaxMessages /\ v < Len(m)
    BY <1>0, <1>5, <2>1, <2>2, <2>3, <2>4
  <2>6. w = SubSeq(m, v + 1, Len(m))
    <3>1. c + 2 - context = v + 1
      BY <1>5
    <3> QED
      BY <3>1, <1>3, <1>10
  <2> HIDE DEF v
  <2>7. v + 1 \in 1 .. Len(m) + 1 /\ Len(m) \in 0 .. Len(m) /\ v + 1 <= Len(m) + 1 /\ v \in Int
    BY <1>0, <2>1, <2>3, <2>5
  <2>8. /\ w \in Seq(T) /\ Len(w) = Len(m) - (v + 1) + 1
        /\ \A i \in 1 .. Len(m) - (v + 1) + 1 : w[i] = m[(v + 1) + i - 1]
    BY <2>6, <2>7, SubSeqFacts
  <2>9. Len(w) = Len(m) - v
    BY <1>0, <2>7, <2>8
  <2>10. ASSUME NEW i \in 1 .. Len(m) - v PROVE w[i] = m[v + i]
    <3>1. i \in 1 .. Len(m) - (v + 1) + 1 /\ (v + 1) + i - 1 = v + i
      BY <1>0, <2>7
    <3> QED
      BY <2>8, <3>1
  <2>11. w # <<>>
    BY <1>0, <2>5, <2>9
  <2>12. \E x \in Nat :
           /\ x <= WindowFrom(m, c) /\ x >= Len(m) - MaxMessages /\ Len(w) = Len(m) - x
           /\ \A i \in 1 .. Len(m) - x : w[i] = m[x + i]
    BY <2>5, <2>9, <2>10
  <2> QED
    BY <1>0, <2>1, <2>8, <2>11, <2>12
<1> HIDE DEF Goal
<1>11. Goal
  BY <1>8, <1>9, <1>10
<1> QED
  BY <1>11 DEF Goal, w, f

\* A set of numbers has a least one.
LEMMA LeastOf ==
  ASSUME NEW S, S \subseteq Nat, S # {}
  PROVE \E x \in S : \A y \in S : x <= y
<1>1. IsWellFoundedOn(OpToRel(<, Nat), Nat)
  BY NatLessThanWellFounded
<1>2. PICK x \in S : \A y \in S : ~(<<y, x>> \in OpToRel(<, Nat))
  BY <1>1, WFMin
<1>3. \A y \in S : ~(y < x)
  BY <1>2 DEF OpToRel
<1>4. \A y \in S : x <= y
  <2> SUFFICES ASSUME NEW y \in S PROVE x <= y
    OBVIOUS
  <2>1. x \in Nat /\ y \in Nat /\ ~(y < x)
    BY <1>3
  <2> QED
    BY <2>1
<1> QED
  BY <1>4

\* A bounded set of numbers has a greatest one.
LEMMA MaxOfBounded ==
  ASSUME NEW S, S \subseteq Nat, S # {}, NEW n \in Nat, \A x \in S : x <= n
  PROVE  Max(S) \in S /\ \A y \in S : y <= Max(S)
<1> DEFINE T == {n - x : x \in S}
<1>1. T \subseteq Nat /\ T # {}
  OBVIOUS
<1>2. PICK t \in T : \A y \in T : t <= y
  BY <1>1, LeastOf
<1>3. PICK x \in S : t = n - x
  OBVIOUS
<1>4. \A y \in S : x >= y
  <2> SUFFICES ASSUME NEW y \in S PROVE x >= y
    OBVIOUS
  <2>1. n - x <= n - y
    BY <1>2, <1>3
  <2> QED
    BY <2>1
<1>5. \E z \in S : \A y \in S : z >= y
  BY <1>4
<1> QED
  BY <1>5 DEF Max

\* What a lemma about a sequence says of its elements.
LEMMA SetOfEnd ==
  ASSUME NEW T, NEW m \in Seq(T), NEW t \in Seq(T), NEW w \in 0 .. Len(m),
         Len(t) = Len(m) - w, \A i \in 1 .. Len(m) - w : t[i] = m[w + i]
  PROVE  ToSet(t) = {m[i] : i \in w + 1 .. Len(m)}
<1>1. Len(m) \in Nat /\ DOMAIN t = 1 .. Len(m) - w
  OBVIOUS
<1>2. ASSUME NEW i \in DOMAIN t PROVE t[i] \in {m[j] : j \in w + 1 .. Len(m)}
  <2>1. w + i \in w + 1 .. Len(m) /\ t[i] = m[w + i]
    BY <1>1
  <2> QED
    BY <2>1
<1>3. ASSUME NEW j \in w + 1 .. Len(m) PROVE m[j] \in ToSet(t)
  <2>1. j - w \in DOMAIN t /\ w + (j - w) = j
    BY <1>1
  <2>2. t[j - w] = m[j]
    BY <1>1, <2>1
  <2> QED
    BY <2>1, <2>2 DEF ToSet
<1> QED
  BY <1>2, <1>3 DEF ToSet

LEMMA TracedSet ==
  ASSUME NEW T, NEW m \in Seq(T), NEW c \in Int
  PROVE  ToSet(SelectForTrace(m, c)) = {m[i] : i \in WindowFrom(m, c) + 1 .. Len(m)}
<1> DEFINE t == SelectForTrace(m, c)
           w == WindowFrom(m, c)
<1>1. w \in From(m, c) .. Len(m) /\ From(m, c) \in Nat
  BY WindowFromFacts
<1>2. t \in Seq(T) /\ Len(t) = Len(m) - w /\ \A i \in 1 .. Len(m) - w : t[i] = m[w + i]
  BY TracedFacts
<1>3. Len(m) \in Nat
  OBVIOUS
<1> HIDE DEF t, w
<1>4. w \in 0 .. Len(m)
  BY <1>1, <1>3
<1>5. ToSet(t) = {m[i] : i \in w + 1 .. Len(m)}
  BY <1>2, <1>4, SetOfEnd
<1> QED
  BY <1>5 DEF t, w

\* The window holds the newest of the new messages and, of the processed ones, only some
\* of the newest; Skipped are the new messages before the window.
LEMMA WindowSet ==
  ASSUME NEW T, NEW m \in Seq(T), NEW c \in Int
  PROVE  LET w == SelectForExtraction(m, c)
         IN  /\ \A i \in WindowFrom(m, c) + 1 .. Len(m) : m[i] \in ToSet(w)
             /\ \A x \in ToSet(w) : \E i \in 1 .. Len(m) : x = m[i] /\ i > Len(m) - MaxMessages
<1> DEFINE w == SelectForExtraction(m, c)
           f == From(m, c)
<1>0. Len(m) \in Nat /\ f \in 0 .. Len(m) /\ WindowFrom(m, c) \in f .. Len(m)
  BY WindowFromFacts, UnprocessedFacts
<1> HIDE DEF w, f
<1>1. w \in Seq(T) /\ ((w = <<>>) <=> f = Len(m))
  BY WindowFacts DEF w, f
<1>2. CASE f = Len(m)
  <2>1. ToSet(w) = {} /\ WindowFrom(m, c) + 1 .. Len(m) = {}
    BY <1>0, <1>1, <1>2 DEF ToSet
  <2> QED
    BY <2>1 DEF w
<1>3. CASE f < Len(m)
  <2>1. PICK v \in Nat :
          /\ v <= WindowFrom(m, c) /\ v >= Len(m) - MaxMessages /\ Len(w) = Len(m) - v
          /\ \A i \in 1 .. Len(m) - v : w[i] = m[v + i]
    BY <1>3, WindowFacts DEF w, f
  <2>2. v \in 0 .. Len(m)
    BY <1>0, <2>1
  <2>3. ToSet(w) = {m[i] : i \in v + 1 .. Len(m)}
    <3>1. w \in Seq(T) /\ m \in Seq(T)
      BY <1>1
    <3>2. Len(w) = Len(m) - v
      BY <2>1
    <3>3. \A i \in 1 .. Len(m) - v : w[i] = m[v + i]
      BY <2>1
    <3> HIDE <1>1, <1>2, <1>3
    <3> QED
      BY <3>1, <3>2, <3>3, <2>2, SetOfEnd, SMTT(30)
  <2>4. \A i \in WindowFrom(m, c) + 1 .. Len(m) : i \in v + 1 .. Len(m)
    BY <1>0, <2>1
  <2>5. \A i \in v + 1 .. Len(m) : i \in 1 .. Len(m) /\ i > Len(m) - MaxMessages
    BY <1>0, <2>1
  <2> QED
    BY <2>3, <2>4, <2>5 DEF w
<1> QED
  BY <1>0, <1>2, <1>3

Skipped(m, c) ==
  LET new == Unprocessed(m, c) IN ToSet(SubSeq(new, 1, Len(new) - MaxMessages))

LEMMA SkippedSet ==
  ASSUME NEW T, NEW m \in Seq(T), NEW c \in Int
  PROVE  /\ \A i \in From(m, c) + 1 .. WindowFrom(m, c) : m[i] \in Skipped(m, c)
         /\ Skipped(m, c) \subseteq T
<1> DEFINE new == Unprocessed(m, c)
           f == From(m, c)
           n == Len(new) - MaxMessages
           q == SubSeq(new, 1, n)
<1>1. f \in 0 .. Len(m) /\ new \in Seq(T) /\ Len(new) = Len(m) - f
      /\ \A i \in 1 .. Len(m) - f : new[i] = m[f + i]
  BY UnprocessedFacts
<1>2. Len(m) \in Nat /\ MaxMessages \in Nat
  OBVIOUS
<1>3. WindowFrom(m, c) = IF f < Len(m) - MaxMessages THEN Len(m) - MaxMessages ELSE f
  BY DEF WindowFrom
<1>4. Skipped(m, c) = ToSet(q)
  BY DEF Skipped
<1> HIDE DEF new, f, q
<1>5. q \in Seq(T) /\ (n > 0 => Len(q) = n /\ \A i \in 1 .. n : q[i] = new[i])
  <2>1. CASE n > 0
    <3> HIDE DEF n
    <3>1. 1 \in 1 .. Len(new) + 1 /\ n \in 0 .. Len(new) /\ n \in Int
      BY <1>1, <1>2, <2>1 DEF n
    <3>2. q \in Seq(T) /\ Len(q) = n - 1 + 1 /\ \A i \in 1 .. n - 1 + 1 : q[i] = new[1 + i - 1]
      BY <1>1, <3>1, <2>1, SubSeqFacts DEF q
    <3> QED
      BY <3>1, <3>2
  <2>2. CASE ~(n > 0)
    <3>1. q = <<>>
      BY <1>1, <1>2, <2>2 DEF q
    <3> QED
      BY <3>1, <2>2
  <2> QED
    BY <2>1, <2>2
<1>6. ASSUME NEW i \in f + 1 .. WindowFrom(m, c) PROVE m[i] \in ToSet(q)
  <2>1. WindowFrom(m, c) = Len(m) - MaxMessages /\ n > 0 /\ i - f \in 1 .. n
        /\ i - f \in 1 .. Len(m) - f /\ f + (i - f) = i
    BY <1>1, <1>2, <1>3
  <2>2. q[i - f] = new[i - f] /\ new[i - f] = m[f + (i - f)] /\ i - f \in DOMAIN q
    BY <1>1, <1>5, <2>1
  <2> QED
    BY <2>1, <2>2 DEF ToSet
<1> QED
  BY <1>4, <1>5, <1>6 DEF ToSet, f

(***************************************************************************)
(* The trace.                                                              *)
(***************************************************************************)

LEMMA MinOfTwo ==
  ASSUME NEW a \in Int, NEW b \in Int
  PROVE  Min({a, b}) \in {a, b} /\ Min({a, b}) <= a /\ Min({a, b}) <= b
<1>1. \E x \in {a, b} : \A y \in {a, b} : x <= y
  <2>1. CASE a <= b
    BY <2>1
  <2>2. CASE b <= a
    BY <2>2
  <2> QED
    BY <2>1, <2>2
<1>2. Min({a, b}) \in {a, b} /\ \A y \in {a, b} : Min({a, b}) <= y
  BY <1>1 DEF Min
<1> QED
  BY <1>2

Overlaps(q, t, n) == n <= Len(q) /\ n <= Len(t) /\ SubSeq(t, 1, n) = LastN(q, n)

LEMMA OverlapFacts ==
  ASSUME NEW T, NEW q \in Seq(T), NEW t \in Seq(T)
  PROVE  /\ Overlap(q, t) \in Nat /\ Overlap(q, t) <= Len(q) /\ Overlap(q, t) <= Len(t)
         /\ Overlap(q, t) > 0 => Overlaps(q, t, Overlap(q, t))
         /\ \A n \in Nat \ {0} : Overlaps(q, t, n) => n <= Overlap(q, t)
<1> DEFINE b == Min({Len(q), Len(t)})
           S == {n \in 1 .. b : SubSeq(t, 1, n) = LastN(q, n)}
<1>1. Len(q) \in Nat /\ Len(t) \in Nat
  OBVIOUS
<1>2. b \in Nat /\ b <= Len(q) /\ b <= Len(t) /\ b \in {Len(q), Len(t)}
  <2>1. Len(q) \in Int /\ Len(t) \in Int
    BY <1>1
  <2>2. b \in {Len(q), Len(t)} /\ b <= Len(q) /\ b <= Len(t)
    BY <2>1, MinOfTwo
  <2> QED
    BY <1>1, <2>2
<1>3. Overlap(q, t) = IF S = {} THEN 0 ELSE Max(S)
  BY DEF Overlap
<1> HIDE DEF b
<1>4. S \subseteq Nat /\ \A x \in S : x <= b
  BY <1>2
<1>5. S # {} => Max(S) \in S /\ \A y \in S : y <= Max(S)
  <2> HIDE DEF S
  <2> QED
    BY <1>2, <1>4, MaxOfBounded
<1>6. \A n \in S : n \in Nat /\ n > 0 /\ Overlaps(q, t, n)
  BY <1>1, <1>2 DEF Overlaps
<1>7. \A n \in Nat \ {0} : Overlaps(q, t, n) => n \in S
  BY <1>1, <1>2 DEF Overlaps
<1> HIDE DEF S
<1>8. CASE S = {}
  <2>1. Overlap(q, t) = 0
    BY <1>3, <1>8
  <2> QED
    BY <1>1, <1>7, <1>8, <2>1
<1>9. CASE S # {}
  <2>1. Overlap(q, t) \in S /\ \A y \in S : y <= Overlap(q, t)
    BY <1>3, <1>5, <1>9
  <2>2. Overlap(q, t) \in Nat /\ Overlaps(q, t, Overlap(q, t))
    BY <1>6, <2>1
  <2> QED
    BY <1>1, <1>7, <2>1, <2>2 DEF Overlaps
<1> QED
  BY <1>8, <1>9

LEMMA OverlapElements ==
  ASSUME NEW T, NEW q \in Seq(T), NEW t \in Seq(T), NEW n \in Nat \ {0}, Overlaps(q, t, n)
  PROVE  /\ n <= Len(q) /\ n <= Len(t)
         /\ \A i \in 1 .. n : t[i] = q[Len(q) - n + i]
<1>1. Len(q) \in Nat /\ Len(t) \in Nat /\ n \in Nat /\ n > 0
  OBVIOUS
<1>2. n <= Len(q) /\ n <= Len(t) /\ SubSeq(t, 1, n) = LastN(q, n)
  BY DEF Overlaps
<1>3. 1 \in 1 .. Len(t) + 1 /\ n \in 0 .. Len(t) /\ 1 <= n + 1
  BY <1>1, <1>2
<1>4. \A i \in 1 .. n - 1 + 1 : SubSeq(t, 1, n)[i] = t[1 + i - 1]
  BY <1>3, SubSeqFacts
<1>5. \A i \in 1 .. n : SubSeq(t, 1, n)[i] = t[i]
  BY <1>1, <1>4
<1> DEFINE k == IF n < Len(q) THEN n ELSE Len(q)
<1>6. \A i \in 1 .. k : LastN(q, n)[i] = q[Len(q) - k + i]
  BY LastNFacts
<1>7. k = n
  BY <1>1, <1>2
<1> QED
  BY <1>2, <1>5, <1>6, <1>7

LEMMA SameSequence ==
  ASSUME NEW T, NEW a \in Seq(T), NEW b \in Seq(T), Len(a) = Len(b),
         \A i \in 1 .. Len(a) : a[i] = b[i]
  PROVE  a = b
OBVIOUS

LEMMA OverlapIs ==
  ASSUME NEW T, NEW q \in Seq(T), NEW t \in Seq(T), NEW n \in Nat \ {0},
         n <= Len(q), n <= Len(t), \A i \in 1 .. n : t[i] = q[Len(q) - n + i]
  PROVE  Overlaps(q, t, n)
<1>1. Len(q) \in Nat /\ Len(t) \in Nat /\ n \in Nat /\ n > 0
  OBVIOUS
<1>3. 1 \in 1 .. Len(t) + 1 /\ n \in 0 .. Len(t) /\ 1 <= n + 1
  BY <1>1
<1>4. SubSeq(t, 1, n) \in Seq(T) /\ Len(SubSeq(t, 1, n)) = n - 1 + 1
      /\ \A i \in 1 .. n - 1 + 1 : SubSeq(t, 1, n)[i] = t[1 + i - 1]
  BY <1>3, SubSeqFacts
<1>5. Len(SubSeq(t, 1, n)) = n /\ \A i \in 1 .. n : SubSeq(t, 1, n)[i] = t[i]
  BY <1>1, <1>4
<1> DEFINE k == IF n < Len(q) THEN n ELSE Len(q)
<1>6. LastN(q, n) \in Seq(T) /\ Len(LastN(q, n)) = k
      /\ \A i \in 1 .. k : LastN(q, n)[i] = q[Len(q) - k + i]
  BY LastNFacts
<1>7. k = n
  BY <1>1
<1> DEFINE a == SubSeq(t, 1, n)
           b == LastN(q, n)
<1>8. a \in Seq(T) /\ b \in Seq(T) /\ Len(a) = Len(b) /\ Len(a) = n
  BY <1>4, <1>5, <1>6, <1>7
<1>9. \A i \in 1 .. n : a[i] = b[i]
  BY <1>5, <1>6, <1>7
<1> HIDE DEF a, b, k
<1>10. a = b
  <2>1. \A i \in 1 .. Len(a) : a[i] = b[i]
    BY <1>8, <1>9
  <2> QED
    BY <1>8, <2>1, SameSequence
<1> QED
  BY <1>10 DEF Overlaps, a, b

LEMMA NewLinesFacts ==
  ASSUME NEW T, NEW q \in Seq(T), NEW t \in Seq(T)
  PROVE  LET n == Overlap(q, t)
             a == NewLines(q, t)
         IN  /\ a \in Seq(T) /\ Len(a) = Len(t) - n
             /\ \A i \in 1 .. Len(t) - n : a[i] = t[n + i]
<1> DEFINE n == Overlap(q, t)
           a == NewLines(q, t)
<1>1. n \in Nat /\ n <= Len(t)
  BY OverlapFacts
<1>2. a = SubSeq(t, n + 1, Len(t))
  BY DEF NewLines
<1> HIDE DEF n, a
<1>3. Len(t) \in Nat
  OBVIOUS
<1>4. n + 1 \in 1 .. Len(t) + 1 /\ Len(t) \in 0 .. Len(t) /\ n + 1 <= Len(t) + 1
  BY <1>1, <1>3
<1>5. a \in Seq(T) /\ Len(a) = Len(t) - (n + 1) + 1
      /\ \A i \in 1 .. Len(t) - (n + 1) + 1 : a[i] = t[(n + 1) + i - 1]
  BY <1>2, <1>4, SubSeqFacts
<1>6. Len(t) - (n + 1) + 1 = Len(t) - n /\ \A i \in 1 .. Len(t) - n : (n + 1) + i - 1 = n + i
  BY <1>1, <1>3
<1> QED
  BY <1>5, <1>6 DEF n, a

LEMMA ConcatFacts ==
  ASSUME NEW T, NEW q \in Seq(T), NEW a \in Seq(T)
  PROVE  /\ q \o a \in Seq(T) /\ Len(q \o a) = Len(q) + Len(a)
         /\ DOMAIN (q \o a) = 1 .. Len(q) + Len(a) /\ Len(q) \in Nat /\ Len(a) \in Nat
         /\ \A i \in 1 .. Len(q) : (q \o a)[i] = q[i]
         /\ \A i \in 1 .. Len(a) : (q \o a)[Len(q) + i] = a[i]
OBVIOUS

\* The trace grows at its end, by the traced messages that do not end it already.
LEMMA AppendTraceFacts ==
  ASSUME NEW T, NEW q \in Seq(T), NEW t \in Seq(T)
  PROVE  LET n == Overlap(q, t)
             r == AppendTrace(q, t)
         IN  /\ r \in Seq(T) /\ Len(r) = Len(q) + (Len(t) - n)
             /\ \A i \in 1 .. Len(q) : r[i] = q[i]
             /\ \A i \in 1 .. Len(t) - n : r[Len(q) + i] = t[n + i]
             /\ ToSet(r) = ToSet(q) \cup ToSet(t)
<1> DEFINE n == Overlap(q, t)
           r == AppendTrace(q, t)
           a == NewLines(q, t)
<1>1. a \in Seq(T) /\ Len(a) = Len(t) - n /\ \A i \in 1 .. Len(t) - n : a[i] = t[n + i]
  BY NewLinesFacts
<1>2. n \in Nat /\ n <= Len(q) /\ n <= Len(t) /\ (n > 0 => Overlaps(q, t, n))
  BY OverlapFacts
<1>3. r = q \o a
  BY DEF AppendTrace
<1> HIDE DEF n, r, a
<1>4. Len(q) \in Nat /\ Len(t) \in Nat /\ DOMAIN q = 1 .. Len(q) /\ DOMAIN t = 1 .. Len(t)
  OBVIOUS
<1>5. r \in Seq(T) /\ Len(r) = Len(q) + (Len(t) - n) /\ DOMAIN r = 1 .. Len(r)
  <2>1. a \in Seq(T) /\ Len(a) = Len(t) - n
    BY <1>1
  <2>2. r \in Seq(T) /\ Len(r) = Len(q) + Len(a) /\ DOMAIN r = 1 .. Len(q) + Len(a)
    BY <1>3, <2>1, ConcatFacts
  <2> QED
    BY <2>1, <2>2
<1>6. \A i \in 1 .. Len(q) : r[i] = q[i]
  <2>1. a \in Seq(T)
    BY <1>1
  <2> QED
    BY <1>3, <2>1, ConcatFacts
<1>7. \A i \in 1 .. Len(t) - n : r[Len(q) + i] = t[n + i]
  <2>1. a \in Seq(T) /\ Len(a) = Len(t) - n
    BY <1>1
  <2>2. \A i \in 1 .. Len(a) : r[Len(q) + i] = a[i]
    BY <1>3, <2>1, ConcatFacts
  <2> QED
    BY <1>1, <2>1, <2>2
<1>8. ASSUME NEW i \in DOMAIN r PROVE r[i] \in ToSet(q) \cup ToSet(t)
  <2>1. CASE i <= Len(q)
    BY <1>4, <1>5, <1>6, <2>1 DEF ToSet
  <2>2. CASE ~(i <= Len(q))
    <3>1. i - Len(q) \in 1 .. Len(t) - n /\ n + (i - Len(q)) \in DOMAIN t
          /\ Len(q) + (i - Len(q)) = i
      BY <1>2, <1>4, <1>5, <2>2
    <3>2. r[i] = t[n + (i - Len(q))]
      BY <1>7, <3>1
    <3> QED
      BY <3>1, <3>2 DEF ToSet
  <2> QED
    BY <2>1, <2>2
<1>9. ASSUME NEW i \in DOMAIN q PROVE q[i] \in ToSet(r)
  <2>1. i \in DOMAIN r /\ r[i] = q[i]
    BY <1>2, <1>4, <1>5, <1>6
  <2> QED
    BY <2>1 DEF ToSet
<1>10. ASSUME NEW i \in DOMAIN t PROVE t[i] \in ToSet(r)
  <2>1. CASE i <= n
    <3>1. n > 0 /\ n \in Nat \ {0}
      BY <1>2, <1>4, <2>1
    <3>2. \A j \in 1 .. n : t[j] = q[Len(q) - n + j]
      BY <1>2, <3>1, OverlapElements
    <3>3. t[i] = q[Len(q) - n + i] /\ Len(q) - n + i \in DOMAIN q
      BY <1>2, <1>4, <2>1, <3>2
    <3> QED
      BY <1>9, <3>3
  <2>2. CASE ~(i <= n)
    <3>1. i - n \in 1 .. Len(t) - n /\ n + (i - n) = i /\ Len(q) + (i - n) \in DOMAIN r
      <4>1. i \in Nat /\ i <= Len(t) /\ n < i
        BY <1>2, <1>4, <2>2
      <4>2. i - n \in 1 .. Len(t) - n /\ n + (i - n) = i
        BY <1>2, <1>4, <4>1
      <4>3. Len(q) + (i - n) \in 1 .. Len(q) + (Len(t) - n)
        BY <1>2, <1>4, <4>1
      <4> QED
        BY <1>5, <4>2, <4>3
    <3>2. r[Len(q) + (i - n)] = t[i]
      BY <1>7, <3>1
    <3> QED
      BY <3>1, <3>2 DEF ToSet
  <2> QED
    BY <2>1, <2>2
<1>11. ToSet(r) = ToSet(q) \cup ToSet(t)
  BY <1>8, <1>9, <1>10 DEF ToSet
<1> QED
  BY <1>5, <1>6, <1>7, <1>11 DEF r, n

(***************************************************************************)
(* What the run checks: TraceOfAPass.                                      *)
(***************************************************************************)

LEMMA EndIs ==
  ASSUME NEW T, NEW m \in Seq(T), NEW w \in Seq(T), Len(w) <= Len(m),
         \A i \in 1 .. Len(w) : w[i] = m[Len(m) - Len(w) + i]
  PROVE  w = LastN(m, Len(w))
<1> DEFINE n == Len(w)
           e == LastN(m, n)
<1>1. n \in Nat /\ Len(m) \in Nat
  OBVIOUS
<1>2. e \in Seq(T) /\ Len(e) = n /\ \A i \in 1 .. n : e[i] = m[Len(m) - n + i]
  <2> DEFINE k == IF n < Len(m) THEN n ELSE Len(m)
  <2>1. e \in Seq(T) /\ Len(e) = k /\ \A i \in 1 .. k : e[i] = m[Len(m) - k + i]
    BY <1>1, LastNFacts
  <2>2. k = n
    BY <1>1
  <2> QED
    BY <2>1, <2>2
<1>3. \A i \in 1 .. Len(w) : w[i] = e[i]
  BY <1>2
<1> HIDE DEF e
<1> QED
  BY <1>2, <1>3, SameSequence DEF e

LEMMA ReverseFacts ==
  ASSUME NEW T, NEW s \in Seq(T)
  PROVE  /\ Reverse(s) \in Seq(T) /\ Len(Reverse(s)) = Len(s)
         /\ \A i \in 1 .. Len(s) : Reverse(s)[i] = s[Len(s) - i + 1]
<1>1. Len(s) \in Nat /\ \A i \in 1 .. Len(s) : Len(s) - i + 1 \in 1 .. Len(s)
  OBVIOUS
<1>2. Reverse(s) = [i \in 1 .. Len(s) |-> s[Len(s) - i + 1]]
  BY DEF Reverse
<1>3. \A i \in 1 .. Len(s) : s[Len(s) - i + 1] \in T
  BY <1>1
<1>4. Reverse(s) \in [1 .. Len(s) -> T]
  BY <1>2, <1>3
<1> QED
  BY <1>1, <1>2, <1>4

LEMMA PrefixIs ==
  ASSUME NEW T, NEW s \in Seq(T), NEW t \in Seq(T)
  PROVE  IsPrefix(s, t) <=> Len(s) <= Len(t) /\ \A i \in 1 .. Len(s) : s[i] = t[i]
<1>1. Len(s) \in Nat /\ Len(t) \in Nat
  OBVIOUS
<1>2. ASSUME Len(s) <= Len(t)
      PROVE  SubSeq(s, 1, Len(s)) = SubSeq(t, 1, Len(s)) <=> \A i \in 1 .. Len(s) : s[i] = t[i]
  <2> DEFINE a == SubSeq(s, 1, Len(s))
             b == SubSeq(t, 1, Len(s))
  <2>1. 1 \in 1 .. Len(s) + 1 /\ 1 \in 1 .. Len(t) + 1 /\ Len(s) \in 0 .. Len(s)
        /\ Len(s) \in 0 .. Len(t) /\ 1 <= Len(s) + 1
    BY <1>1, <1>2
  <2>2. a \in Seq(T) /\ Len(a) = Len(s) - 1 + 1 /\ \A i \in 1 .. Len(s) - 1 + 1 : a[i] = s[1 + i - 1]
    BY <2>1, SubSeqFacts
  <2>3. b \in Seq(T) /\ Len(b) = Len(s) - 1 + 1 /\ \A i \in 1 .. Len(s) - 1 + 1 : b[i] = t[1 + i - 1]
    BY <2>1, SubSeqFacts
  <2> HIDE DEF a, b
  <2>4. Len(a) = Len(s) /\ \A i \in 1 .. Len(s) : a[i] = s[i]
    BY <1>1, <2>2
  <2>5. Len(b) = Len(s) /\ \A i \in 1 .. Len(s) : b[i] = t[i]
    BY <1>1, <2>3
  <2>6. a = b => \A i \in 1 .. Len(s) : s[i] = t[i]
    BY <2>4, <2>5
  <2>7. ASSUME \A i \in 1 .. Len(s) : s[i] = t[i]
        PROVE  a = b
    <3>1. \A i \in 1 .. Len(a) : a[i] = b[i]
      BY <2>4, <2>5, <2>7
    <3>2. a \in Seq(T) /\ b \in Seq(T) /\ Len(a) = Len(b)
      BY <2>2, <2>3, <2>4, <2>5
    <3> QED
      BY <3>1, <3>2, SameSequence
  <2> QED
    BY <2>6, <2>7 DEF a, b
<1> QED
  BY <1>2 DEF IsPrefix

LEMMA SuffixIs ==
  ASSUME NEW T, NEW s \in Seq(T), NEW t \in Seq(T)
  PROVE  IsSuffix(s, t) <=>
           Len(s) <= Len(t) /\ \A i \in 1 .. Len(s) : s[i] = t[Len(t) - Len(s) + i]
<1> DEFINE a == Reverse(s)
           b == Reverse(t)
<1>1. Len(s) \in Nat /\ Len(t) \in Nat
  OBVIOUS
<1>2. a \in Seq(T) /\ Len(a) = Len(s) /\ \A i \in 1 .. Len(s) : a[i] = s[Len(s) - i + 1]
  BY ReverseFacts
<1>3. b \in Seq(T) /\ Len(b) = Len(t) /\ \A i \in 1 .. Len(t) : b[i] = t[Len(t) - i + 1]
  BY ReverseFacts
<1>4. IsSuffix(s, t) <=> IsPrefix(a, b)
  BY DEF IsSuffix
<1> HIDE DEF a, b
<1>5. IsPrefix(a, b) <=> Len(a) <= Len(b) /\ \A i \in 1 .. Len(a) : a[i] = b[i]
  BY <1>2, <1>3, PrefixIs
<1>6. ASSUME Len(s) <= Len(t), \A i \in 1 .. Len(s) : a[i] = b[i], NEW i \in 1 .. Len(s)
      PROVE  s[i] = t[Len(t) - Len(s) + i]
  <2>1. Len(s) - i + 1 \in 1 .. Len(s) /\ Len(s) - i + 1 \in 1 .. Len(t)
        /\ Len(s) - (Len(s) - i + 1) + 1 = i
        /\ Len(t) - (Len(s) - i + 1) + 1 = Len(t) - Len(s) + i
    BY <1>1, <1>6
  <2>2. a[Len(s) - i + 1] = b[Len(s) - i + 1]
    BY <1>6, <2>1
  <2>3. a[Len(s) - i + 1] = s[i]
    BY <1>2, <2>1
  <2>4. b[Len(s) - i + 1] = t[Len(t) - Len(s) + i]
    BY <1>3, <2>1
  <2> QED
    BY <2>2, <2>3, <2>4
<1>7. ASSUME Len(s) <= Len(t), \A i \in 1 .. Len(s) : s[i] = t[Len(t) - Len(s) + i],
             NEW i \in 1 .. Len(s)
      PROVE  a[i] = b[i]
  <2>1. Len(s) - i + 1 \in 1 .. Len(s) /\ i \in 1 .. Len(t)
        /\ Len(t) - Len(s) + (Len(s) - i + 1) = Len(t) - i + 1
    BY <1>1, <1>7
  <2>2. s[Len(s) - i + 1] = t[Len(t) - i + 1]
    BY <1>7, <2>1
  <2> QED
    BY <1>2, <1>3, <2>1, <2>2
<1> QED
  BY <1>2, <1>3, <1>4, <1>5, <1>6, <1>7

\* How many messages the window of a pass holds.
Wanted(m, c) ==
  LET new == Len(m) - From(m, c)
  IN  IF new = 0 THEN 0 ELSE Min({MaxMessages, new + ContextSize, Len(m)})

LEMMA WindowLength ==
  ASSUME NEW T, NEW m \in Seq(T), NEW c \in Int
  PROVE  /\ Len(SelectForExtraction(m, c)) = Wanted(m, c)
         /\ SelectForExtraction(m, c) = LastN(m, Wanted(m, c))
         /\ Wanted(m, c) \in 0 .. Len(m)
         /\ Wanted(m, c) - (Len(m) - WindowFrom(m, c)) \in 0 .. ContextSize
         /\ \A i \in 1 .. Wanted(m, c) :
              SelectForExtraction(m, c)[i] = m[Len(m) - Wanted(m, c) + i]
<1> DEFINE w   == SelectForExtraction(m, c)
           new == Unprocessed(m, c)
           f   == From(m, c)
           n   == Wanted(m, c)
           room == MaxMessages - Len(new)
           context == Min({ContextSize, c + 1, room})
           least == Min({MaxMessages, (Len(m) - f) + ContextSize, Len(m)})
<1>0. Len(m) \in Nat /\ MaxMessages \in Nat /\ MaxMessages > 0 /\ ContextSize \in Nat
  OBVIOUS
<1>1. f \in 0 .. Len(m) /\ new \in Seq(T) /\ Len(new) = Len(m) - f
  BY UnprocessedFacts
<1>2. w \in Seq(T) /\ ((w = <<>>) <=> f = Len(m))
      /\ (f < Len(m) => \E v \in Nat :
            /\ v <= WindowFrom(m, c) /\ v >= Len(m) - MaxMessages
            /\ Len(w) = Len(m) - v /\ \A i \in 1 .. Len(m) - v : w[i] = m[v + i])
  BY WindowFacts
<1>3. n = IF Len(m) - f = 0 THEN 0 ELSE least
  BY DEF Wanted
<1>4. least \in {MaxMessages, (Len(m) - f) + ContextSize, Len(m)} /\ least <= MaxMessages
      /\ least <= (Len(m) - f) + ContextSize /\ least <= Len(m)
  <2>1. MaxMessages \in Int /\ (Len(m) - f) + ContextSize \in Int /\ Len(m) \in Int
    BY <1>0, <1>1
  <2> QED
    BY <2>1, MinOfThree
<1>5. w = IF new = <<>> THEN <<>>
          ELSE IF FirstRun(m, c) \/ room <= 0 THEN LastN(new, MaxMessages)
          ELSE SubSeq(m, c + 2 - context, Len(m))
  BY DEF SelectForExtraction
<1>6. WindowFrom(m, c) = IF f < Len(m) - MaxMessages THEN Len(m) - MaxMessages ELSE f
  BY DEF WindowFrom
<1>7. f = IF FirstRun(m, c) THEN 0 ELSE c + 1
  BY DEF From
<1>8. new = <<>> <=> f = Len(m)
  BY <1>0, <1>1
<1>9. SelectForTrace(m, c) = LastN(new, MaxMessages)
  BY DEF SelectForTrace
<1> HIDE DEF w, new, f, n, least, context
<1>10. Len(w) = n
  <2>1. CASE f = Len(m)
    BY <1>0, <1>1, <1>2, <1>3, <2>1
  <2>2. CASE f < Len(m) /\ (FirstRun(m, c) \/ room <= 0)
    <3>1. Len(w) = Len(m) - WindowFrom(m, c)
      <4>1. w = SelectForTrace(m, c)
        BY <1>5, <1>8, <1>9, <1>1, <1>0, <2>2
      <4> QED
        BY <4>1, TracedFacts
    <3>2. FirstRun(m, c) => f = 0
      BY <1>7
    <3>3. room <= 0 => Len(m) - f >= MaxMessages
      BY <1>0, <1>1
    <3>4. n = least
      BY <1>0, <1>1, <1>3, <2>2
    <3>5. CASE FirstRun(m, c)
      <4>1. f = 0
        BY <3>2, <3>5
      <4>2. CASE MaxMessages < Len(m)
        <5>1. WindowFrom(m, c) = Len(m) - MaxMessages
          BY <1>0, <1>6, <4>1, <4>2
        <5> QED
          BY <1>0, <1>4, <3>1, <3>4, <4>1, <4>2, <5>1
      <4>3. CASE ~(MaxMessages < Len(m))
        <5>1. WindowFrom(m, c) = 0
          BY <1>0, <1>6, <4>1, <4>3
        <5> QED
          BY <1>0, <1>4, <3>1, <3>4, <4>1, <4>3, <5>1
      <4> QED
        BY <4>2, <4>3
    <3>6. CASE room <= 0
      <4>1. Len(w) = MaxMessages
        BY <1>0, <1>1, <1>6, <3>1, <3>3, <3>6
      <4> QED
        BY <1>0, <1>1, <1>4, <3>3, <3>4, <3>6, <4>1
    <3> QED
      BY <2>2, <3>5, <3>6
  <2>3. CASE f < Len(m) /\ ~FirstRun(m, c) /\ ~(room <= 0)
    <3>1. f = c + 1 /\ c >= 0
      BY <1>7, <2>3 DEF FirstRun
    <3>2. room > 0 /\ room = MaxMessages - (Len(m) - f)
      BY <1>0, <1>1, <2>3
    <3>3. context <= ContextSize /\ context <= c + 1 /\ context <= room
          /\ context \in {ContextSize, c + 1, room}
      <4>1. ContextSize \in Int /\ c + 1 \in Int /\ room \in Int
        BY <1>0, <1>1
      <4> HIDE DEF room
      <4> QED
        BY <4>1, MinOfThree DEF context
    <3>4. context \in Int /\ context >= 0
      BY <1>0, <3>1, <3>2, <3>3
    <3>5. w = SubSeq(m, c + 2 - context, Len(m))
      <4>1. new # <<>>
        BY <1>0, <1>1, <1>8, <2>3
      <4> HIDE DEF room
      <4> QED
        BY <1>5, <2>3, <4>1
    <3> HIDE DEF room
    <3>6. c + 2 - context \in 1 .. Len(m) + 1 /\ Len(m) \in 0 .. Len(m)
          /\ c + 2 - context <= Len(m) + 1
      BY <1>0, <1>1, <2>3, <3>1, <3>3, <3>4
    <3>7. Len(w) = Len(m) - (c + 2 - context) + 1
      BY <3>5, <3>6, SubSeqFacts
    <3>8. n = least
      BY <1>0, <1>1, <1>3, <2>3
    <3>9. Len(w) = (Len(m) - f) + context
      BY <1>0, <3>1, <3>4, <3>7
    <3> QED
      BY <1>0, <1>1, <1>4, <3>1, <3>2, <3>3, <3>4, <3>8, <3>9
  <2> QED
    BY <1>0, <1>1, <2>1, <2>2, <2>3
<1>11. n \in 0 .. Len(m)
  BY <1>0, <1>1, <1>3, <1>4
<1>12. \A i \in 1 .. n : w[i] = m[Len(m) - n + i]
  <2>1. CASE f = Len(m)
    BY <1>0, <1>3, <2>1
  <2>2. CASE f < Len(m)
    <3>1. PICK v \in Nat : /\ Len(w) = Len(m) - v
                           /\ \A i \in 1 .. Len(m) - v : w[i] = m[v + i]
      BY <1>2, <2>2
    <3>2. v = Len(m) - n /\ Len(m) - v = n
      BY <1>0, <1>10, <1>11, <3>1
    <3> QED
      BY <3>1, <3>2
  <2> QED
    BY <1>0, <1>1, <2>1, <2>2
<1>13. w = LastN(m, n)
  <2>1. Len(w) <= Len(m) /\ \A i \in 1 .. Len(w) : w[i] = m[Len(m) - Len(w) + i]
    BY <1>0, <1>10, <1>11, <1>12
  <2>2. w \in Seq(T)
    BY <1>2
  <2>3. w = LastN(m, Len(w))
    BY <2>1, <2>2, EndIs
  <2> QED
    BY <1>10, <2>3
<1>14. n - (Len(m) - WindowFrom(m, c)) \in 0 .. ContextSize
  <2>1. CASE f = Len(m)
    BY <1>0, <1>3, <1>6, <2>1
  <2>2. CASE f < Len(m) /\ f < Len(m) - MaxMessages
    <3>1. n = least /\ WindowFrom(m, c) = Len(m) - MaxMessages
      BY <1>0, <1>1, <1>3, <1>6, <2>2
    <3> QED
      BY <1>0, <1>1, <1>4, <2>2, <3>1
  <2>3. CASE f < Len(m) /\ ~(f < Len(m) - MaxMessages)
    <3>1. n = least /\ WindowFrom(m, c) = f
      BY <1>0, <1>1, <1>3, <1>6, <2>3
    <3> QED
      BY <1>0, <1>1, <1>4, <2>3, <3>1
  <2> QED
    BY <1>0, <1>1, <2>1, <2>2, <2>3
<1> QED
  BY <1>10, <1>11, <1>12, <1>13, <1>14 DEF w, n

\* The trace ends with the messages of the pass, and no shorter one that keeps its lines
\* does.
LEMMA ShortestTrace ==
  ASSUME NEW T, NEW q \in Seq(T), NEW t \in Seq(T)
  PROVE  /\ IsPrefix(q, AppendTrace(q, t)) /\ IsSuffix(t, AppendTrace(q, t))
         /\ \A k \in Len(q) .. Len(AppendTrace(q, t)) - 1 :
              ~IsSuffix(t, SubSeq(AppendTrace(q, t), 1, k))
<1> DEFINE n == Overlap(q, t)
           r == AppendTrace(q, t)
<1>0. Len(q) \in Nat /\ Len(t) \in Nat
  OBVIOUS
<1>1. /\ r \in Seq(T) /\ Len(r) = Len(q) + (Len(t) - n)
      /\ \A i \in 1 .. Len(q) : r[i] = q[i]
      /\ \A i \in 1 .. Len(t) - n : r[Len(q) + i] = t[n + i]
      /\ ToSet(r) = ToSet(q) \cup ToSet(t)
  BY AppendTraceFacts
<1>2. /\ n \in Nat /\ n <= Len(q) /\ n <= Len(t)
      /\ n > 0 => Overlaps(q, t, n)
      /\ \A k \in Nat \ {0} : Overlaps(q, t, k) => k <= n
  BY OverlapFacts
<1> HIDE DEF n, r
<1>3. IsPrefix(q, r)
  <2>1. Len(q) <= Len(r)
    BY <1>0, <1>1, <1>2
  <2> QED
    BY <1>1, <2>1, PrefixIs
<1>4. IsSuffix(t, r)
  <2>1. Len(t) <= Len(r) /\ Len(r) - Len(t) = Len(q) - n
    BY <1>0, <1>1, <1>2
  <2>2. ASSUME NEW i \in 1 .. Len(t)
        PROVE  t[i] = r[Len(r) - Len(t) + i]
    <3>1. CASE i <= n
      <4>1. n \in Nat \ {0} /\ i \in 1 .. n
        BY <1>0, <1>2, <3>1
      <4>2. t[i] = q[Len(q) - n + i]
        BY <1>2, <4>1, OverlapElements
      <4>3. Len(q) - n + i \in 1 .. Len(q) /\ Len(r) - Len(t) + i = Len(q) - n + i
        BY <1>0, <1>2, <2>1, <4>1
      <4> QED
        BY <1>1, <4>2, <4>3
    <3>2. CASE ~(i <= n)
      <4>1. i - n \in 1 .. Len(t) - n /\ n + (i - n) = i
            /\ Len(r) - Len(t) + i = Len(q) + (i - n)
        BY <1>0, <1>2, <2>1, <3>2
      <4> QED
        BY <1>1, <4>1
    <3> QED
      BY <3>1, <3>2
  <2> QED
    BY <1>1, <2>1, <2>2, SuffixIs
<1>5. ASSUME NEW k \in Len(q) .. Len(r) - 1, IsSuffix(t, SubSeq(r, 1, k))
      PROVE  FALSE
  <2> DEFINE s == SubSeq(r, 1, k)
             d == k - Len(q)
             o == Len(t) - d
  <2>1. k \in Nat /\ Len(r) \in Nat /\ d \in Nat /\ d < Len(t) - n /\ o \in Nat \ {0} /\ o > n
    BY <1>0, <1>1, <1>2
  <2>2. 1 \in 1 .. Len(r) + 1 /\ k \in 0 .. Len(r) /\ 1 <= k + 1
    BY <1>0, <1>1, <2>1
  <2>3. s \in Seq(T) /\ Len(s) = k - 1 + 1 /\ \A i \in 1 .. k - 1 + 1 : s[i] = r[1 + i - 1]
    BY <1>1, <2>2, SubSeqFacts
  <2> HIDE DEF s
  <2>4. s \in Seq(T) /\ Len(s) = k /\ \A i \in 1 .. k : s[i] = r[i]
    BY <2>1, <2>3
  <2>5. Len(t) <= k /\ \A i \in 1 .. Len(t) : t[i] = s[k - Len(t) + i]
    <3>1. IsSuffix(t, s)
      BY <1>5 DEF s
    <3>2. s \in Seq(T) /\ Len(s) = k
      BY <2>4
    <3> QED
      BY <3>1, <3>2, SuffixIs
  <2>6. o <= Len(q) /\ o <= Len(t)
    BY <1>0, <2>1, <2>5
  <2>7. ASSUME NEW i \in 1 .. o
        PROVE  t[i] = q[Len(q) - o + i]
    <3>1. /\ i \in 1 .. Len(t) /\ k - Len(t) + i = Len(q) - o + i
          /\ Len(q) - o + i \in 1 .. Len(q) /\ Len(q) - o + i \in 1 .. k
      BY <1>0, <2>1, <2>6
    <3> HIDE DEF o, d
    <3> QED
      BY <1>1, <2>4, <2>5, <3>1
  <2> HIDE DEF o, d
  <2>8. Overlaps(q, t, o)
    BY <2>1, <2>6, <2>7, OverlapIs
  <2> QED
    BY <1>2, <2>1, <2>8
<1> QED
  BY <1>3, <1>4, <1>5 DEF r

\* However long a session and its trace are and whatever the cursor says: a pass shows the
\* shortest suffix that it should, and a trace grows by no line too many and ends with
\* the messages of the pass (extract.ts).
THEOREM TracesOfPasses == InputSpec => []TraceOfAPass
<1>1. InputInit => TraceOfAPass
  <2> SUFFICES ASSUME InputInit, input.of = "trace"
               PROVE  TraceOfAPass
    BY DEF TraceOfAPass
  <2>1. TraceInput
    BY InputKinds
  <2>2. PICK msgs \in BoundedSeq(Texts, MaxLen), lines \in BoundedSeq(Texts, MaxLen),
             cursor \in -1 .. MaxLen :
          input = [of |-> "trace", msgs |-> msgs, cursor |-> cursor, lines |-> lines]
    BY <2>1 DEF TraceInput
  <2>3. \A s \in BoundedSeq(Texts, MaxLen) : s \in Seq(Texts)
    BY DEF BoundedSeq, SeqOf
  <2>4. msgs \in Seq(Texts) /\ lines \in Seq(Texts) /\ cursor \in Int
    BY <2>3
  <2>5. input.msgs = msgs /\ input.lines = lines /\ input.cursor = cursor
    BY <2>2
  <2> DEFINE new    == IF cursor \in 0 .. Len(msgs) - 1 THEN Len(msgs) - (cursor + 1)
                       ELSE Len(msgs)
             wanted == IF new = 0 THEN 0
                       ELSE Min({MaxMessages, new + ContextSize, Len(msgs)})
             window == SelectForExtraction(msgs, cursor)
             traced == SelectForTrace(msgs, cursor)
             from   == WindowFrom(msgs, cursor)
  <2>6. Len(msgs) \in Nat
    BY <2>4
  <2>7. new = Len(msgs) - From(msgs, cursor)
    <3>1. CASE FirstRun(msgs, cursor)
      <4>1. From(msgs, cursor) = 0
        BY <3>1 DEF From
      <4>2. cursor \notin 0 .. Len(msgs) - 1
        BY <2>4, <2>6, <3>1 DEF FirstRun
      <4> QED
        BY <2>4, <2>6, <4>1, <4>2
    <3>2. CASE ~FirstRun(msgs, cursor)
      <4>1. From(msgs, cursor) = cursor + 1
        BY <3>2 DEF From
      <4>2. cursor \in 0 .. Len(msgs) - 1
        BY <2>4, <2>6, <3>2 DEF FirstRun
      <4> QED
        BY <2>4, <2>6, <4>1, <4>2
    <3> QED
      BY <3>1, <3>2
  <2>8. wanted = Wanted(msgs, cursor)
    BY <2>7 DEF Wanted
  <2>9. /\ window = LastN(msgs, wanted) /\ Len(window) = wanted /\ wanted \in 0 .. Len(msgs)
        /\ wanted - (Len(msgs) - from) \in 0 .. ContextSize
        /\ \A i \in 1 .. wanted : window[i] = msgs[Len(msgs) - wanted + i]
    <3> DEFINE n == Wanted(msgs, cursor)
    <3>1. /\ Len(window) = n /\ window = LastN(msgs, n) /\ n \in 0 .. Len(msgs)
          /\ n - (Len(msgs) - from) \in 0 .. ContextSize
          /\ \A i \in 1 .. n : window[i] = msgs[Len(msgs) - n + i]
      BY <2>4, WindowLength
    <3> HIDE DEF n, window, from, wanted
    <3>2. wanted = n
      BY <2>8 DEF n
    <3> QED
      BY <3>1, <3>2
  <2>10. window \in Seq(Texts) /\ (window = <<>> <=> From(msgs, cursor) = Len(msgs))
    BY <2>4, WindowFacts
  <2>11. /\ traced \in Seq(Texts) /\ Len(traced) = Len(msgs) - from
         /\ \A i \in 1 .. Len(msgs) - from : traced[i] = msgs[from + i]
    BY <2>4, TracedFacts
  <2>12. /\ from \in From(msgs, cursor) .. Len(msgs) /\ From(msgs, cursor) \in Nat
         /\ From(msgs, cursor) < Len(msgs) => from < Len(msgs)
    BY <2>4, WindowFromFacts
  <2> HIDE DEF new, wanted, window, traced, from
  <2>13. ContextSize \in Nat
    OBVIOUS
  <2>14. IsSuffix(traced, window)
    <3>1. Len(traced) <= Len(window)
      BY <2>6, <2>9, <2>11, <2>12, <2>13
    <3>2. ASSUME NEW i \in 1 .. Len(traced)
          PROVE  traced[i] = window[Len(window) - Len(traced) + i]
      <4>1. /\ Len(window) - Len(traced) + i \in 1 .. wanted
            /\ Len(msgs) - wanted + (Len(window) - Len(traced) + i) = from + i
            /\ i \in 1 .. Len(msgs) - from
        BY <2>6, <2>9, <2>11, <2>12, <2>13
      <4> QED
        BY <2>9, <2>11, <4>1
    <3> QED
      BY <2>10, <2>11, <3>1, <3>2, SuffixIs
  <2>15. Len(window) - Len(traced) <= ContextSize
    BY <2>6, <2>9, <2>11, <2>12, <2>13
  <2>16. window = <<>> <=> traced = <<>>
    <3>1. traced = <<>> <=> from = Len(msgs)
      BY <2>6, <2>11, <2>12
    <3>2. from = Len(msgs) <=> From(msgs, cursor) = Len(msgs)
      BY <2>6, <2>12
    <3> QED
      BY <2>10, <3>1, <3>2
  <2>17. /\ IsPrefix(lines, AppendTrace(lines, msgs)) /\ IsSuffix(msgs, AppendTrace(lines, msgs))
         /\ \A n \in Len(lines) .. Len(AppendTrace(lines, msgs)) - 1 :
              ~IsSuffix(msgs, SubSeq(AppendTrace(lines, msgs), 1, n))
    BY <2>4, ShortestTrace
  <2>18. window = LastN(msgs, wanted)
    BY <2>9
  <2> QED
    BY <2>5, <2>14, <2>15, <2>16, <2>17, <2>18
    DEF TraceOfAPass, new, wanted, window, traced
<1>2. TraceOfAPass /\ [InputNext]_input => TraceOfAPass'
  BY DEF InputNext, TraceOfAPass
<1> QED
  BY <1>1, <1>2, PTL DEF InputSpec

HIDE WindowAssumption

(***************************************************************************)
(* The transcripts of the hosts.                                           *)
(***************************************************************************)

Words   == {"none", "blank", "words"}
Outputs == Words \cup {"", Undefined}

PartRecords ==
  {p \in [kind : CallKinds \cup {"tool_result"}, id : Int, output : Outputs] :
     p.kind = "tool_result" => p.output \in Words}

MessageRecords ==
  [role : {"user", "assistant", "system", "tool", "toolResult"}, text : Words,
   toolCallId : Int, tool_call_id : Int, parts : Seq(PartRecords)]

LEMMA TrimFacts ==
  ASSUME NEW t
  PROVE  /\ Trim(t) \in {"", "words"} /\ Trim(t) # Undefined
         /\ Trim(Trim(t)) = Trim(t)
         /\ Trim(t) # "" <=> t = "words"
BY DEF Trim, Undefined

LEMMA MessageFacts ==
  ASSUME NEW raw \in Seq(MessageRecords), NEW i \in DOMAIN raw
  PROVE  /\ raw[i] \in MessageRecords /\ raw[i].text \in Words /\ raw[i].text # Undefined
         /\ raw[i].parts \in Seq(PartRecords)
         /\ \A k \in DOMAIN raw[i].parts : raw[i].parts[k] \in PartRecords
<1>1. raw[i] \in MessageRecords
  OBVIOUS
<1>2. raw[i].text \in Words /\ raw[i].parts \in Seq(PartRecords)
  BY <1>1 DEF MessageRecords
<1>3. \A k \in DOMAIN raw[i].parts : raw[i].parts[k] \in PartRecords
  BY <1>2
<1>4. raw[i].text # Undefined
  BY <1>2 DEF Words, Undefined
<1> QED
  BY <1>1, <1>2, <1>3, <1>4

LEMMA GreatestOf ==
  ASSUME NEW T, NEW s \in Seq(T), NEW S \in SUBSET DOMAIN s, S # {}
  PROVE  Max(S) \in S
<1>1. DOMAIN s = 1 .. Len(s) /\ Len(s) \in Nat
  OBVIOUS
<1>2. S \subseteq Nat /\ \A x \in S : x <= Len(s)
  BY <1>1
<1> QED
  BY <1>1, <1>2, MaxOfBounded

\* A reading in closed form: the messages with words or with calls at the given places, and
\* outputs for these.
KeptOf(raw, calls) ==
  {i \in DOMAIN raw : Speaks(raw[i]) /\ (Trim(raw[i].text) # "" \/ calls[i] # {})}

At(calls, out, i) == [k \in calls[i] |-> out[i][k]]

Reading(raw, calls, out) == [i \in KeptOf(raw, calls) |-> Folded(raw[i], At(calls, out, i))]

LEMMA FoldedFacts ==
  ASSUME NEW m, NEW calls
  PROVE  /\ Folded(m, calls).role = m.role /\ Folded(m, calls).text = Trim(m.text)
         /\ Folded(m, calls).calls = calls
         /\ Speaks(Folded(m, calls)) <=> Speaks(m)
         /\ NotEmpty(Folded(m, calls)) <=> Trim(m.text) # "" \/ DOMAIN calls # {}
         /\ [Folded(m, calls) EXCEPT !.text = Trim(Folded(m, calls).text)] = Folded(m, calls)
<1>1. Trim(Trim(m.text)) = Trim(m.text)
  BY TrimFacts
<1> QED
  BY <1>1 DEF Folded, NotEmpty, Speaks

LEMMA ReadingAt ==
  ASSUME NEW raw, NEW calls, NEW out, NEW i \in KeptOf(raw, calls)
  PROVE  /\ i \in DOMAIN raw /\ Speaks(raw[i])
         /\ Reading(raw, calls, out)[i] = Folded(raw[i], At(calls, out, i))
         /\ Reading(raw, calls, out)[i].role = raw[i].role
         /\ Reading(raw, calls, out)[i].text = Trim(raw[i].text)
         /\ Reading(raw, calls, out)[i].calls = At(calls, out, i)
         /\ DOMAIN At(calls, out, i) = calls[i]
         /\ Speaks(Reading(raw, calls, out)[i]) /\ NotEmpty(Reading(raw, calls, out)[i])
<1> DEFINE c == At(calls, out, i)
           r == Reading(raw, calls, out)[i]
<1>1. i \in DOMAIN raw /\ Speaks(raw[i]) /\ (Trim(raw[i].text) # "" \/ calls[i] # {})
  BY DEF KeptOf
<1>2. r = Folded(raw[i], c)
  BY DEF Reading
<1>3. DOMAIN c = calls[i]
  BY DEF At
<1> HIDE DEF c, r
<1>4. /\ r.role = raw[i].role /\ r.text = Trim(raw[i].text) /\ r.calls = c
      /\ Speaks(r) /\ NotEmpty(r)
  BY <1>1, <1>2, <1>3, FoldedFacts
<1> QED
  BY <1>1, <1>2, <1>3, <1>4 DEF c, r

\* toExtractionMessages leaves such a reading alone.
LEMMA ExtractionKeeps ==
  ASSUME NEW raw, NEW calls, NEW out
  PROVE  ToExtraction(Reading(raw, calls, out)) = Reading(raw, calls, out)
<1> DEFINE f == Reading(raw, calls, out)
           D == KeptOf(raw, calls)
           trimmed(m) == [m EXCEPT !.text = Trim(m.text)]
<1>1. f = [i \in D |-> f[i]] /\ DOMAIN f = D
  BY DEF Reading
<1>2. ASSUME NEW i \in D
      PROVE  Speaks(f[i]) /\ NotEmpty(f[i]) /\ trimmed(f[i]) = f[i]
  <2>1. i \in KeptOf(raw, calls)
    OBVIOUS
  <2>2. Speaks(f[i]) /\ NotEmpty(f[i]) /\ f[i] = Folded(raw[i], At(calls, out, i))
    BY <2>1, ReadingAt
  <2> HIDE DEF f
  <2>3. [f[i] EXCEPT !.text = Trim(f[i].text)] = f[i]
    <3>1. f[i] = [role |-> raw[i].role, text |-> Trim(raw[i].text), calls |-> At(calls, out, i)]
      BY <2>2 DEF Folded
    <3>2. Trim(Trim(raw[i].text)) = Trim(raw[i].text)
      BY TrimFacts
    <3> QED
      BY <3>1, <3>2
  <2> QED
    BY <2>2, <2>3
<1>3. ToExtraction(f) =
        [i \in {j \in DOMAIN f : Speaks(f[j]) /\ NotEmpty(trimmed(f[j]))} |-> trimmed(f[i])]
  BY DEF ToExtraction
<1> HIDE DEF f, D, trimmed
<1>4. {j \in DOMAIN f : Speaks(f[j]) /\ NotEmpty(trimmed(f[j]))} = D
  BY <1>1, <1>2
<1>5. ToExtraction(f) = f
  BY <1>1, <1>2, <1>3, <1>4
<1> QED
  BY <1>5 DEF f

\* A reading in closed form keeps all.
LEMMA ReadingKeepsAll ==
  ASSUME NEW raw, NEW calls, NEW out
  PROVE  KeepsAll(raw, Reading(raw, calls, out), calls)
<1>1. DOMAIN Reading(raw, calls, out) = KeptOf(raw, calls)
  BY DEF Reading
<1>2. KeptOf(raw, calls) =
        {i \in DOMAIN raw : Speaks(raw[i]) /\ (raw[i].text = "words" \/ calls[i] # {})}
  BY TrimFacts DEF KeptOf
<1>3. ASSUME NEW i \in KeptOf(raw, calls)
      PROVE  /\ Reading(raw, calls, out)[i].role = raw[i].role
             /\ Reading(raw, calls, out)[i].text = Trim(raw[i].text)
             /\ DOMAIN Reading(raw, calls, out)[i].calls = calls[i]
  <2>1. /\ Reading(raw, calls, out)[i].role = raw[i].role
        /\ Reading(raw, calls, out)[i].text = Trim(raw[i].text)
        /\ Reading(raw, calls, out)[i].calls = At(calls, out, i)
        /\ DOMAIN At(calls, out, i) = calls[i]
    BY ReadingAt
  <2> QED
    BY <2>1
<1> QED
  BY <1>1, <1>2, <1>3 DEF KeepsAll

Worded(output) == IF output = Undefined THEN Undefined ELSE Trim(output)

LEMMA SameReadings ==
  ASSUME NEW raw, NEW calls, NEW a, NEW b,
         \A i \in KeptOf(raw, calls) : \A k \in calls[i] : Worded(a[i][k]) = Worded(b[i][k])
  PROVE  SameWords(Reading(raw, calls, a)) = SameWords(Reading(raw, calls, b))
<1> DEFINE w(m) == [m EXCEPT !.calls =
                      [k \in DOMAIN m.calls |->
                         IF m.calls[k] = Undefined THEN Undefined ELSE Trim(m.calls[k])]]
           f == Reading(raw, calls, a)
           g == Reading(raw, calls, b)
<1>1. DOMAIN f = KeptOf(raw, calls) /\ DOMAIN g = KeptOf(raw, calls)
  BY DEF Reading
<1>2. SameWords(f) = [i \in DOMAIN f |-> w(f[i])] /\ SameWords(g) = [i \in DOMAIN g |-> w(g[i])]
  BY DEF SameWords
<1>3. ASSUME NEW i \in KeptOf(raw, calls)
      PROVE  w(f[i]) = w(g[i])
  <2> DEFINE c == At(calls, a, i)
             d == At(calls, b, i)
  <2>1. f[i] = [role |-> raw[i].role, text |-> Trim(raw[i].text), calls |-> c]
        /\ g[i] = [role |-> raw[i].role, text |-> Trim(raw[i].text), calls |-> d]
    <3>1. f[i] = Folded(raw[i], c)
      BY ReadingAt
    <3>2. g[i] = Folded(raw[i], d)
      BY ReadingAt
    <3> QED
      BY <3>1, <3>2 DEF Folded
  <2>2. DOMAIN c = calls[i] /\ DOMAIN d = calls[i]
        /\ \A k \in calls[i] : Worded(c[k]) = Worded(d[k])
    BY DEF At
  <2> HIDE DEF f, g, c, d
  <2>3. [k \in DOMAIN c |-> IF c[k] = Undefined THEN Undefined ELSE Trim(c[k])]
          = [k \in DOMAIN d |-> IF d[k] = Undefined THEN Undefined ELSE Trim(d[k])]
    BY <2>2 DEF Worded
  <2>4. w(f[i]) = [role |-> raw[i].role, text |-> Trim(raw[i].text),
                   calls |-> [k \in DOMAIN c |-> IF c[k] = Undefined THEN Undefined ELSE Trim(c[k])]]
    BY <2>1
  <2>5. w(g[i]) = [role |-> raw[i].role, text |-> Trim(raw[i].text),
                   calls |-> [k \in DOMAIN d |-> IF d[k] = Undefined THEN Undefined ELSE Trim(d[k])]]
    BY <2>1
  <2> QED
    BY <2>3, <2>4, <2>5
<1> HIDE DEF f, g, w
<1>4. SameWords(f) = SameWords(g)
  BY <1>1, <1>2, <1>3
<1> QED
  BY <1>4 DEF f, g

\* What hostMessagesToMemFlywheelMessages makes of host messages, which keep the messages with
\* words or calls, their words, and the ids of the calls.
HostOutputs(raw, host) == [i \in DOMAIN raw |-> [k \in DOMAIN raw[i].parts |-> Output(host, raw[i].parts[k].id)]]

LEMMA HostReading ==
  ASSUME NEW raw, NEW host, NEW calls,
         \A i \in KeptOf(raw, calls) : i \in DOMAIN host,
         \A i \in DOMAIN host :
           /\ i \in DOMAIN raw
           /\ Speaks(host[i]) => /\ Speaks(raw[i]) /\ host[i].role = raw[i].role
                                 /\ Trim(host[i].text) = Trim(raw[i].text)
                                 /\ host[i].calls = [k \in calls[i] |-> raw[i].parts[k].id]
           /\ Speaks(raw[i]) => Speaks(host[i]),
         \A i \in DOMAIN raw : /\ calls[i] \subseteq DOMAIN raw[i].parts
                               /\ calls[i] # {} => raw[i].role = "assistant"
  PROVE  ToMemFlywheel(host) = Reading(raw, calls, HostOutputs(raw, host))
<1> DEFINE of(m)   == IF m.role = "assistant" THEN DOMAIN m.calls ELSE {}
           fold(m) == Folded(m, [k \in of(m) |-> OutputOf(host, m.calls[k])])
           out     == HostOutputs(raw, host)
           read    == Reading(raw, calls, out)
           D       == KeptOf(raw, calls)
<1>1. ToMemFlywheel(host) =
        [i \in {j \in DOMAIN host : Speaks(host[j]) /\ NotEmpty(fold(host[j]))} |-> fold(host[i])]
  BY DEF ToMemFlywheel
<1>2. ASSUME NEW i \in DOMAIN host, Speaks(host[i])
      PROVE  /\ fold(host[i]) = Folded(raw[i], At(calls, out, i))
             /\ NotEmpty(fold(host[i])) <=> i \in D
  <2>1. /\ i \in DOMAIN raw /\ Speaks(raw[i]) /\ host[i].role = raw[i].role
        /\ Trim(host[i].text) = Trim(raw[i].text)
        /\ host[i].calls = [k \in calls[i] |-> raw[i].parts[k].id]
        /\ calls[i] \subseteq DOMAIN raw[i].parts
        /\ calls[i] # {} => raw[i].role = "assistant"
    BY <1>2
  <2>2. DOMAIN host[i].calls = calls[i] /\ \A k \in calls[i] : host[i].calls[k] = raw[i].parts[k].id
    BY <2>1
  <2>3. of(host[i]) = calls[i]
    BY <2>1, <2>2
  <2>4. \A k \in calls[i] : OutputOf(host, host[i].calls[k]) = out[i][k]
    <3> SUFFICES ASSUME NEW k \in calls[i]
                 PROVE  OutputOf(host, host[i].calls[k]) = out[i][k]
      OBVIOUS
    <3>1. out[i][k] = Output(host, raw[i].parts[k].id)
      BY <2>1 DEF HostOutputs
    <3> QED
      BY <2>2, <3>1 DEF OutputOf
  <2>5. [k \in of(host[i]) |-> OutputOf(host, host[i].calls[k])] = At(calls, out, i)
    BY <2>3, <2>4 DEF At
  <2>6. fold(host[i]) = Folded(host[i], [k \in of(host[i]) |-> OutputOf(host, host[i].calls[k])])
    OBVIOUS
  <2> HIDE DEF of, fold, out
  <2>7. fold(host[i]) = Folded(raw[i], At(calls, out, i))
    BY <2>1, <2>5, <2>6 DEF Folded
  <2>8. /\ DOMAIN At(calls, out, i) = calls[i]
        /\ fold(host[i]).text = Trim(raw[i].text) /\ fold(host[i]).calls = At(calls, out, i)
    BY <2>7 DEF At, Folded
  <2>9. NotEmpty(fold(host[i])) <=> Trim(raw[i].text) # "" \/ calls[i] # {}
    BY <2>8 DEF NotEmpty
  <2> QED
    BY <2>1, <2>7, <2>9 DEF KeptOf
<1>3. read = [i \in D |-> Folded(raw[i], At(calls, out, i))]
  BY DEF Reading
<1>4. \A i \in D : i \in DOMAIN host /\ Speaks(host[i])
  BY DEF KeptOf
<1> HIDE DEF fold, out, read, D
<1>5. {j \in DOMAIN host : Speaks(host[j]) /\ NotEmpty(fold(host[j]))} = D
  BY <1>2, <1>4
<1>6. ToMemFlywheel(host) = [i \in D |-> fold(host[i])]
  BY <1>1, <1>5
<1>7. \A i \in D : fold(host[i]) = Folded(raw[i], At(calls, out, i))
  BY <1>2, <1>4
<1> QED
  BY <1>3, <1>6, <1>7 DEF read, out

\* The outputs of a host's messages are texts of the results that name the call.
LEMMA LastOutput ==
  ASSUME NEW raw \in Seq(MessageRecords), NEW host, NEW id, NEW at,
         at \subseteq DOMAIN raw, at # {}, id # 0, Results(host, id) = at,
         \A i \in at : host[i].text # Undefined /\ Trim(host[i].text) = Trim(raw[i].text)
  PROVE  /\ Max(at) \in at /\ Output(host, id) # Undefined
         /\ Trim(Output(host, id)) = Trim(raw[Max(at)].text)
<1>1. Max(at) \in at
  BY GreatestOf
<1>2. Output(host, id) = host[Max(at)].text
  BY DEF Output
<1> QED
  BY <1>1, <1>2

LEMMA OwnOutputs ==
  ASSUME NEW raw \in Seq(MessageRecords), NEW host, NEW id, NEW at,
         at \subseteq DOMAIN raw, id # 0 => Results(host, id) = at,
         id # 0 => \A i \in at : host[i].text # Undefined /\ Trim(host[i].text) = Trim(raw[i].text)
  PROVE  IsOneOf(Output(host, id), MessageTexts(raw, id, at))
<1>1. CASE id = 0 \/ at = {}
  <2>1. Output(host, id) = Undefined /\ MessageTexts(raw, id, at) = {}
    BY <1>1 DEF Output, MessageTexts
  <2> QED
    BY <1>1, <2>1 DEF IsOneOf
<1>2. CASE id # 0 /\ at # {}
  <2>1. /\ Max(at) \in at /\ Output(host, id) # Undefined
        /\ Trim(Output(host, id)) = Trim(raw[Max(at)].text)
    BY <1>2, LastOutput
  <2>2. raw[Max(at)].text \in MessageTexts(raw, id, at)
    BY <1>2, <2>1 DEF MessageTexts
  <2> QED
    BY <2>1, <2>2 DEF IsOneOf
<1> QED
  BY <1>1, <1>2

\* Pi's readings.
PiPlaces(raw)       == CallPlaces(raw, {"toolCall"}, FALSE)
OpenClawPlaces(raw) == CallPlaces(raw, CallKinds, FALSE)
AdapterPlaces(raw)  == CallPlaces(raw, CallKinds \ {"toolCall"}, TRUE)

PiAt(raw, id) == {i \in DOMAIN raw : raw[i].role = "toolResult" /\ raw[i].toolCallId = id}

OpenClawAt(raw, id) ==
  {i \in DOMAIN raw : raw[i].role \in {"tool", "toolResult"} /\ OpenClawId(raw[i]) = id}

LEMMA PlacesFacts ==
  ASSUME NEW raw, NEW kinds, NEW i \in DOMAIN raw
  PROVE  /\ CallPlaces(raw, kinds, TRUE)[i] = CallsAt(raw[i], kinds)
         /\ CallPlaces(raw, kinds, FALSE)[i] = {k \in CallsAt(raw[i], kinds) : raw[i].parts[k].id # 0}
BY DEF CallPlaces, CallsAt

LEMMA PiRead ==
  ASSUME NEW raw \in Seq(MessageRecords)
  PROVE  ToMemFlywheel(FromPi(raw)) = Reading(raw, PiPlaces(raw), HostOutputs(raw, FromPi(raw)))
<1> DEFINE host  == FromPi(raw)
           calls == PiPlaces(raw)
<1>1. \A i \in KeptOf(raw, calls) : i \in DOMAIN host
  BY DEF KeptOf, FromPi
<1>2. ASSUME NEW i \in DOMAIN host
      PROVE  /\ i \in DOMAIN raw
             /\ Speaks(host[i]) => /\ Speaks(raw[i]) /\ host[i].role = raw[i].role
                                   /\ Trim(host[i].text) = Trim(raw[i].text)
                                   /\ host[i].calls = [k \in calls[i] |-> raw[i].parts[k].id]
             /\ Speaks(raw[i]) => Speaks(host[i])
  <2>1. i \in DOMAIN raw /\ host[i] = HostMessage(raw[i], raw[i].text, raw[i].toolCallId, PiCalls(raw[i]))
    BY DEF FromPi
  <2>2. PiCalls(raw[i]) = calls[i]
    BY <2>1, PlacesFacts DEF PiCalls, PiPlaces
  <2> HIDE DEF host, calls
  <2> QED
    BY <2>1, <2>2 DEF HostMessage, Speaks
<1>3. \A i \in DOMAIN raw : /\ calls[i] \subseteq DOMAIN raw[i].parts
                            /\ calls[i] # {} => raw[i].role = "assistant"
  BY DEF PiPlaces, CallPlaces
<1> HIDE DEF host, calls
<1>4. ToMemFlywheel(host) = Reading(raw, calls, HostOutputs(raw, host))
  BY <1>1, <1>2, <1>3, HostReading
<1> QED
  BY <1>4 DEF host, calls

LEMMA PiResults ==
  ASSUME NEW raw \in Seq(MessageRecords), NEW id
  PROVE  /\ Results(FromPi(raw), id) = PiAt(raw, id)
         /\ \A i \in PiAt(raw, id) : /\ FromPi(raw)[i].text # Undefined
                                     /\ Trim(FromPi(raw)[i].text) = Trim(raw[i].text)
<1>1. ASSUME NEW i \in DOMAIN FromPi(raw)
      PROVE  /\ i \in DOMAIN raw
             /\ FromPi(raw)[i].role = "tool" <=> raw[i].role = "toolResult"
             /\ FromPi(raw)[i].id = raw[i].toolCallId /\ FromPi(raw)[i].text = raw[i].text
  <2>1. i \in DOMAIN raw /\ (raw[i].role = "toolResult" \/ Speaks(raw[i]))
        /\ FromPi(raw)[i] = HostMessage(raw[i], raw[i].text, raw[i].toolCallId, PiCalls(raw[i]))
    BY DEF FromPi
  <2> QED
    BY <2>1 DEF HostMessage, Speaks
<1>2. \A i \in DOMAIN raw : raw[i].role = "toolResult" => i \in DOMAIN FromPi(raw)
  BY DEF FromPi
<1>3. Results(FromPi(raw), id) = PiAt(raw, id)
  BY <1>1, <1>2 DEF Results, PiAt
<1>4. \A i \in PiAt(raw, id) : raw[i].text # Undefined /\ FromPi(raw)[i].text = raw[i].text
  BY <1>1, <1>2, MessageFacts DEF PiAt
<1> QED
  BY <1>3, <1>4

\* The reading of OpenClaw's port.
LEMMA OpenClawRead ==
  ASSUME NEW raw \in Seq(MessageRecords)
  PROVE  ToMemFlywheel(FromOpenClaw(raw))
           = Reading(raw, OpenClawPlaces(raw), HostOutputs(raw, FromOpenClaw(raw)))
<1> DEFINE host  == FromOpenClaw(raw)
           calls == OpenClawPlaces(raw)
<1>1. ASSUME NEW i \in DOMAIN raw
      PROVE  OpenClawCalls(raw[i]) = calls[i]
  BY PlacesFacts DEF OpenClawCalls, OpenClawPlaces
<1>2. \A i \in KeptOf(raw, calls) : i \in DOMAIN host
  BY <1>1 DEF KeptOf, FromOpenClaw, OpenClawKeeps
<1>3. ASSUME NEW i \in DOMAIN host
      PROVE  /\ i \in DOMAIN raw
             /\ Speaks(host[i]) => /\ Speaks(raw[i]) /\ host[i].role = raw[i].role
                                   /\ Trim(host[i].text) = Trim(raw[i].text)
                                   /\ host[i].calls = [k \in calls[i] |-> raw[i].parts[k].id]
             /\ Speaks(raw[i]) => Speaks(host[i])
  <2>1. i \in DOMAIN raw
        /\ host[i] = HostMessage(raw[i], Trim(raw[i].text), OpenClawId(raw[i]), OpenClawCalls(raw[i]))
    BY DEF FromOpenClaw
  <2>2. OpenClawCalls(raw[i]) = calls[i]
    BY <1>1, <2>1
  <2>3. Trim(Trim(raw[i].text)) = Trim(raw[i].text)
    BY TrimFacts
  <2> HIDE DEF host, calls
  <2> QED
    BY <2>1, <2>2, <2>3 DEF HostMessage, Speaks
<1>4. \A i \in DOMAIN raw : /\ calls[i] \subseteq DOMAIN raw[i].parts
                            /\ calls[i] # {} => raw[i].role = "assistant"
  BY DEF OpenClawPlaces, CallPlaces
<1> HIDE DEF host, calls
<1>5. ToMemFlywheel(host) = Reading(raw, calls, HostOutputs(raw, host))
  BY <1>2, <1>3, <1>4, HostReading
<1> QED
  BY <1>5 DEF host, calls

LEMMA OpenClawResults ==
  ASSUME NEW raw \in Seq(MessageRecords), NEW id
  PROVE  /\ id # 0 => Results(FromOpenClaw(raw), id) = OpenClawAt(raw, id)
         /\ id # 0 => \A i \in OpenClawAt(raw, id) :
                        /\ FromOpenClaw(raw)[i].text # Undefined
                        /\ Trim(FromOpenClaw(raw)[i].text) = Trim(raw[i].text)
<1>1. ASSUME NEW i \in DOMAIN FromOpenClaw(raw)
      PROVE  /\ i \in DOMAIN raw
             /\ FromOpenClaw(raw)[i].role = "tool" <=> raw[i].role \in {"tool", "toolResult"}
             /\ FromOpenClaw(raw)[i].id = OpenClawId(raw[i])
             /\ FromOpenClaw(raw)[i].text = Trim(raw[i].text)
  <2>1. i \in DOMAIN raw /\ OpenClawKeeps(raw[i])
        /\ FromOpenClaw(raw)[i]
             = HostMessage(raw[i], Trim(raw[i].text), OpenClawId(raw[i]), OpenClawCalls(raw[i]))
    BY DEF FromOpenClaw
  <2>2. Speaks(raw[i]) \/ raw[i].role \in {"tool", "toolResult"}
    BY <2>1 DEF OpenClawKeeps
  <2> HIDE DEF Speaks
  <2>3. FromOpenClaw(raw)[i]
          = [role |-> IF Speaks(raw[i]) THEN raw[i].role ELSE "tool", text |-> Trim(raw[i].text),
             id |-> OpenClawId(raw[i]), calls |-> [k \in OpenClawCalls(raw[i]) |-> raw[i].parts[k].id]]
    BY <2>1 DEF HostMessage
  <2>4. /\ FromOpenClaw(raw)[i].role = IF Speaks(raw[i]) THEN raw[i].role ELSE "tool"
        /\ FromOpenClaw(raw)[i].text = Trim(raw[i].text)
        /\ FromOpenClaw(raw)[i].id = OpenClawId(raw[i])
    BY <2>3
  <2> QED
    BY <2>1, <2>2, <2>4 DEF Speaks
<1>2. \A i \in DOMAIN raw : raw[i].role \in {"tool", "toolResult"} /\ OpenClawId(raw[i]) # 0
                              => i \in DOMAIN FromOpenClaw(raw)
  BY DEF FromOpenClaw, OpenClawKeeps
<1>3. id # 0 => Results(FromOpenClaw(raw), id) = OpenClawAt(raw, id)
  BY <1>1, <1>2 DEF Results, OpenClawAt
<1>4. id # 0 => \A i \in OpenClawAt(raw, id) : FromOpenClaw(raw)[i].text = Trim(raw[i].text)
  BY <1>1, <1>2 DEF OpenClawAt
<1>5. \A t : Trim(t) # Undefined /\ Trim(Trim(t)) = Trim(t)
  BY TrimFacts
<1> QED
  BY <1>3, <1>4, <1>5

\* The reading of the shared adapter.
AdapterOutputs(raw) ==
  [i \in DOMAIN raw |-> [k \in DOMAIN raw[i].parts |->
     IF raw[i].parts[k].kind = "toolCalls" THEN raw[i].parts[k].output
     ELSE AdapterOutput(raw, raw[i].parts[k].id)]]

LEMMA AdapterRead ==
  ASSUME NEW raw \in Seq(MessageRecords)
  PROVE  Normalize(raw) = Reading(raw, AdapterPlaces(raw), AdapterOutputs(raw))
<1> DEFINE calls == AdapterPlaces(raw)
           out   == AdapterOutputs(raw)
           value(i) == Folded(raw[i], At(calls, out, i))
<1>1. ASSUME NEW i \in DOMAIN raw
      PROVE  AdapterCalls(raw[i]) = calls[i] /\ calls[i] \subseteq DOMAIN raw[i].parts
  <2>1. CallKinds \ {"toolCall"} = {"toolCalls", "tool_calls", "tool_use"}
    BY DEF CallKinds
  <2> QED
    BY <2>1 DEF AdapterCalls, AdapterPlaces, CallPlaces, CallsAt
<1>2. ASSUME NEW i \in DOMAIN raw
      PROVE  Normal(raw, raw[i]) = value(i) /\ (NotEmpty(value(i)) <=> Trim(raw[i].text) # "" \/ calls[i] # {})
  <2> DEFINE c == At(calls, out, i)
             d == [k \in AdapterCalls(raw[i]) |->
                     IF raw[i].parts[k].kind = "toolCalls" THEN raw[i].parts[k].output
                     ELSE AdapterOutput(raw, raw[i].parts[k].id)]
  <2>1. Normal(raw, raw[i]) = Folded(raw[i], d)
    BY DEF Normal
  <2>2. \A k \in calls[i] : out[i][k] = IF raw[i].parts[k].kind = "toolCalls" THEN raw[i].parts[k].output
                                        ELSE AdapterOutput(raw, raw[i].parts[k].id)
    BY <1>1 DEF AdapterOutputs
  <2>3. c = d
    <3> HIDE DEF calls, out
    <3> QED
      BY <1>1, <2>2 DEF At
  <2>4. /\ DOMAIN c = calls[i] /\ value(i) = Folded(raw[i], c)
        /\ value(i).text = Trim(raw[i].text) /\ value(i).calls = c
    BY DEF At, Folded
  <2> HIDE DEF c, d, calls, value
  <2>5. NotEmpty(value(i)) <=> Trim(raw[i].text) # "" \/ calls[i] # {}
    BY <2>4 DEF NotEmpty
  <2> QED
    BY <2>1, <2>3, <2>4, <2>5
<1>3. Normalize(raw) =
        [i \in {j \in DOMAIN raw : Speaks(raw[j]) /\ NotEmpty(Normal(raw, raw[j]))} |->
           Normal(raw, raw[i])]
  BY DEF Normalize
<1>4. Reading(raw, calls, out) = [i \in KeptOf(raw, calls) |-> value(i)]
  BY DEF Reading
<1> HIDE DEF calls, out, value
<1>5. {j \in DOMAIN raw : Speaks(raw[j]) /\ NotEmpty(Normal(raw, raw[j]))} = KeptOf(raw, calls)
  BY <1>2 DEF KeptOf
<1>6. \A i \in KeptOf(raw, calls) : Normal(raw, raw[i]) = value(i)
  BY <1>2 DEF KeptOf
<1>7. Normalize(raw) = Reading(raw, calls, out)
  BY <1>3, <1>4, <1>5, <1>6
<1> QED
  BY <1>7 DEF calls, out

LEMMA AdapterOwn ==
  ASSUME NEW raw \in Seq(MessageRecords), NEW id
  PROVE  IsOneOf(AdapterOutput(raw, id), AdapterTexts(raw, id))
<1> DEFINE at == AdapterResults(raw, id)
           m  == raw[Max(at)]
<1>1. CASE id = 0
  BY <1>1 DEF AdapterOutput, AdapterTexts, MessageTexts, PartTexts, IsOneOf
<1>2. CASE id # 0 /\ at = {}
  <2>1. \A i \in DOMAIN raw : /\ ~(raw[i].role = "tool" /\ raw[i].tool_call_id = id)
                              /\ ResultParts(raw[i], id) = {}
    BY <1>2 DEF AdapterResults
  <2>2. MessageTexts(raw, id, {i \in DOMAIN raw : raw[i].role = "tool" /\ raw[i].tool_call_id = id}) = {}
    BY <1>2, <2>1 DEF MessageTexts
  <2>3. PartTexts(raw, id) = {}
    BY <1>2, <2>1 DEF PartTexts
  <2> QED
    BY <1>2, <2>2, <2>3 DEF AdapterOutput, AdapterTexts, IsOneOf
<1>3. CASE id # 0 /\ at # {}
  <2>1. Max(at) \in at
    BY <1>3, GreatestOf DEF AdapterResults
  <2>2. Max(at) \in DOMAIN raw
    BY <2>1 DEF AdapterResults
  <2>3. AdapterOutput(raw, id)
          = IF ResultParts(m, id) = {} THEN m.text ELSE m.parts[Max(ResultParts(m, id))].output
    BY <1>3 DEF AdapterOutput
  <2> SUFFICES AdapterOutput(raw, id) \in AdapterTexts(raw, id) /\ AdapterOutput(raw, id) # Undefined
    BY DEF IsOneOf
  <2>4. CASE ResultParts(m, id) = {}
    <3>1. m.role = "tool" /\ m.tool_call_id = id
      BY <2>1, <2>4 DEF AdapterResults
    <3>2. m.text \in MessageTexts(raw, id, {i \in DOMAIN raw : raw[i].role = "tool" /\ raw[i].tool_call_id = id})
      BY <1>3, <2>2, <3>1 DEF MessageTexts
    <3>3. m.text # Undefined
      BY <2>2, MessageFacts
    <3> HIDE DEF m
    <3> QED
      BY <2>3, <2>4, <3>2, <3>3 DEF AdapterTexts
  <2>5. CASE ResultParts(m, id) # {}
    <3> DEFINE k == Max(ResultParts(m, id))
    <3>1. /\ m.parts \in Seq(PartRecords) /\ ResultParts(m, id) \subseteq DOMAIN m.parts
          /\ \A j \in DOMAIN m.parts : m.parts[j] \in PartRecords
      BY <2>2, MessageFacts DEF ResultParts
    <3>2. k \in ResultParts(m, id)
      BY <2>5, <3>1, GreatestOf
    <3>3. m.parts[k] \in PartRecords /\ m.parts[k].kind = "tool_result"
      BY <3>1, <3>2 DEF ResultParts
    <3>4. m.parts[k].output # Undefined
      BY <3>3 DEF PartRecords, Words, Undefined
    <3>5. m.parts[k].output \in PartTexts(raw, id)
      BY <1>3, <2>2, <3>2 DEF PartTexts
    <3> HIDE DEF m, k
    <3> QED
      BY <2>3, <2>5, <3>4, <3>5 DEF AdapterTexts, k
  <2> QED
    BY <2>4, <2>5
<1> QED
  BY <1>1, <1>2, <1>3

\* A Pi transcript: OpenClaw's port and Pi's name the same calls and the same results.
LEMMA PiIsReadAlike ==
  ASSUME NEW raw \in Seq(MessageRecords), OfPi(raw)
  PROVE  SameWords(Reading(raw, PiPlaces(raw), HostOutputs(raw, FromPi(raw))))
           = SameWords(Reading(raw, OpenClawPlaces(raw), HostOutputs(raw, FromOpenClaw(raw))))
<1> DEFINE calls == PiPlaces(raw)
           a == HostOutputs(raw, FromPi(raw))
           b == HostOutputs(raw, FromOpenClaw(raw))
<1>1. PiPlaces(raw) = OpenClawPlaces(raw)
  <2>1. ASSUME NEW i \in DOMAIN raw, NEW k \in DOMAIN raw[i].parts
        PROVE  raw[i].parts[k].kind \in {"toolCall"} <=> raw[i].parts[k].kind \in CallKinds
    BY DEF OfPi, CallKinds
  <2>2. \A i \in DOMAIN raw :
          {k \in DOMAIN raw[i].parts : /\ raw[i].role = "assistant" /\ raw[i].parts[k].kind \in {"toolCall"}
                                       /\ FALSE \/ raw[i].parts[k].id # 0}
          = {k \in DOMAIN raw[i].parts : /\ raw[i].role = "assistant" /\ raw[i].parts[k].kind \in CallKinds
                                         /\ FALSE \/ raw[i].parts[k].id # 0}
    BY <2>1
  <2> QED
    BY <2>2 DEF PiPlaces, OpenClawPlaces, CallPlaces
<1>2. ASSUME NEW id
      PROVE  Worded(Output(FromPi(raw), id)) = Worded(Output(FromOpenClaw(raw), id))
  <2>1. PiAt(raw, id) = OpenClawAt(raw, id)
    <3>1. \A i \in DOMAIN raw : raw[i].role # "tool" /\ raw[i].tool_call_id = 0
      BY DEF OfPi
    <3>2. \A i \in DOMAIN raw : OpenClawId(raw[i]) = raw[i].toolCallId
      BY <3>1 DEF OpenClawId
    <3> QED
      BY <3>1, <3>2 DEF PiAt, OpenClawAt
  <2> DEFINE at == PiAt(raw, id)
  <2>2. at \subseteq DOMAIN raw
    BY DEF PiAt
  <2>3. /\ Results(FromPi(raw), id) = at
        /\ \A i \in at : FromPi(raw)[i].text # Undefined /\ Trim(FromPi(raw)[i].text) = Trim(raw[i].text)
    BY PiResults
  <2>4. /\ id # 0 => Results(FromOpenClaw(raw), id) = at
        /\ id # 0 => \A i \in at : /\ FromOpenClaw(raw)[i].text # Undefined
                                   /\ Trim(FromOpenClaw(raw)[i].text) = Trim(raw[i].text)
    BY <2>1, OpenClawResults
  <2> HIDE DEF at
  <2>5. CASE id = 0 \/ at = {}
    <3>1. Output(FromPi(raw), id) = Undefined /\ Output(FromOpenClaw(raw), id) = Undefined
      BY <2>3, <2>4, <2>5 DEF Output
    <3> QED
      BY <3>1
  <2>6. CASE id # 0 /\ at # {}
    <3>1. Output(FromPi(raw), id) # Undefined /\ Trim(Output(FromPi(raw), id)) = Trim(raw[Max(at)].text)
      BY <2>2, <2>3, <2>6, LastOutput
    <3>2. Output(FromOpenClaw(raw), id) # Undefined
          /\ Trim(Output(FromOpenClaw(raw), id)) = Trim(raw[Max(at)].text)
      BY <2>2, <2>4, <2>6, LastOutput
    <3> QED
      BY <3>1, <3>2 DEF Worded
  <2> QED
    BY <2>5, <2>6
<1>3. \A i \in KeptOf(raw, calls) : \A k \in calls[i] : Worded(a[i][k]) = Worded(b[i][k])
  <2> SUFFICES ASSUME NEW i \in KeptOf(raw, calls), NEW k \in calls[i]
               PROVE  Worded(a[i][k]) = Worded(b[i][k])
    OBVIOUS
  <2>1. i \in DOMAIN raw /\ k \in DOMAIN raw[i].parts
    BY DEF KeptOf, PiPlaces, CallPlaces
  <2>2. /\ a[i][k] = Output(FromPi(raw), raw[i].parts[k].id)
        /\ b[i][k] = Output(FromOpenClaw(raw), raw[i].parts[k].id)
    BY <2>1 DEF HostOutputs
  <2> HIDE DEF a, b
  <2> QED
    BY <1>2, <2>2
<1> HIDE DEF calls, a, b
<1>4. SameWords(Reading(raw, calls, a)) = SameWords(Reading(raw, calls, b))
  BY <1>3, SameReadings
<1> QED
  BY <1>1, <1>4 DEF calls, a, b

\* A transcript of OpenAI's shape: OpenClaw's port and the adapter do.
LEMMA OpenAIIsReadAlike ==
  ASSUME NEW raw \in Seq(MessageRecords), OfOpenAI(raw)
  PROVE  SameWords(Reading(raw, OpenClawPlaces(raw), HostOutputs(raw, FromOpenClaw(raw))))
           = SameWords(Reading(raw, AdapterPlaces(raw), AdapterOutputs(raw)))
<1> DEFINE calls == OpenClawPlaces(raw)
           a == HostOutputs(raw, FromOpenClaw(raw))
           b == AdapterOutputs(raw)
<1>1. \A i \in DOMAIN raw :
        /\ raw[i].role # "toolResult" /\ raw[i].toolCallId = 0
        /\ \A k \in DOMAIN raw[i].parts : /\ raw[i].parts[k].kind \in {"tool_calls", "tool_use"}
                                          /\ raw[i].parts[k].id # 0
  BY DEF OfOpenAI
<1>2. OpenClawPlaces(raw) = AdapterPlaces(raw)
  <2>1. {"tool_calls", "tool_use"} \subseteq CallKinds /\ {"tool_calls", "tool_use"} \subseteq CallKinds \ {"toolCall"}
    BY DEF CallKinds
  <2>2. \A i \in DOMAIN raw :
          {k \in DOMAIN raw[i].parts : /\ raw[i].role = "assistant" /\ raw[i].parts[k].kind \in CallKinds
                                       /\ FALSE \/ raw[i].parts[k].id # 0}
          = {k \in DOMAIN raw[i].parts : /\ raw[i].role = "assistant"
                                         /\ raw[i].parts[k].kind \in CallKinds \ {"toolCall"}
                                         /\ TRUE \/ raw[i].parts[k].id # 0}
    BY <1>1, <2>1
  <2> QED
    BY <2>2 DEF OpenClawPlaces, AdapterPlaces, CallPlaces
<1>3. ASSUME NEW id
      PROVE  Worded(Output(FromOpenClaw(raw), id)) = Worded(AdapterOutput(raw, id))
  <2> DEFINE at == OpenClawAt(raw, id)
  <2>1. \A i \in DOMAIN raw : ResultParts(raw[i], id) = {}
    BY <1>1 DEF ResultParts
  <2>2. AdapterResults(raw, id) = at
    <3>1. \A i \in DOMAIN raw : OpenClawId(raw[i]) = raw[i].tool_call_id
      BY <1>1 DEF OpenClawId
    <3> QED
      BY <1>1, <2>1, <3>1 DEF AdapterResults, OpenClawAt
  <2>3. at \subseteq DOMAIN raw
    BY DEF OpenClawAt
  <2>4. /\ id # 0 => Results(FromOpenClaw(raw), id) = at
        /\ id # 0 => \A i \in at : /\ FromOpenClaw(raw)[i].text # Undefined
                                   /\ Trim(FromOpenClaw(raw)[i].text) = Trim(raw[i].text)
    BY OpenClawResults
  <2> HIDE DEF at
  <2>5. CASE id = 0 \/ at = {}
    <3>1. Output(FromOpenClaw(raw), id) = Undefined /\ AdapterOutput(raw, id) = Undefined
      BY <2>2, <2>4, <2>5 DEF Output, AdapterOutput
    <3> QED
      BY <3>1
  <2>6. CASE id # 0 /\ at # {}
    <3>1. Output(FromOpenClaw(raw), id) # Undefined /\ Max(at) \in at
          /\ Trim(Output(FromOpenClaw(raw), id)) = Trim(raw[Max(at)].text)
      BY <2>3, <2>4, <2>6, LastOutput
    <3>2. AdapterOutput(raw, id) = raw[Max(at)].text
      BY <2>1, <2>2, <2>3, <2>6, <3>1 DEF AdapterOutput
    <3>3. raw[Max(at)].text # Undefined
      BY <2>3, <3>1, MessageFacts
    <3> QED
      BY <3>1, <3>2, <3>3 DEF Worded
  <2> QED
    BY <2>5, <2>6
<1>4. \A i \in KeptOf(raw, calls) : \A k \in calls[i] : Worded(a[i][k]) = Worded(b[i][k])
  <2> SUFFICES ASSUME NEW i \in KeptOf(raw, calls), NEW k \in calls[i]
               PROVE  Worded(a[i][k]) = Worded(b[i][k])
    OBVIOUS
  <2>1. i \in DOMAIN raw /\ k \in DOMAIN raw[i].parts
    BY DEF KeptOf, OpenClawPlaces, CallPlaces
  <2>2. raw[i].parts[k].kind # "toolCalls"
    BY <1>1, <2>1
  <2>3. /\ a[i][k] = Output(FromOpenClaw(raw), raw[i].parts[k].id)
        /\ b[i][k] = AdapterOutput(raw, raw[i].parts[k].id)
    BY <2>1, <2>2 DEF HostOutputs, AdapterOutputs
  <2> HIDE DEF a, b
  <2> QED
    BY <1>3, <2>3
<1> HIDE DEF calls, a, b
<1>5. SameWords(Reading(raw, calls, a)) = SameWords(Reading(raw, calls, b))
  BY <1>4, SameReadings
<1> QED
  BY <1>2, <1>5 DEF calls, a, b

\* Normalizing twice is normalizing once.
LEMMA NormalForGood ==
  ASSUME NEW raw \in Seq(MessageRecords)
  PROVE  Normalize(AsTranscript(Normalize(raw))) = Normalize(raw)
<1> DEFINE calls == AdapterPlaces(raw)
           out   == AdapterOutputs(raw)
           N     == Normalize(raw)
           T     == AsTranscript(N)
           D     == KeptOf(raw, calls)
<1>1. N = Reading(raw, calls, out) /\ DOMAIN N = D /\ N = [i \in D |-> N[i]]
  BY AdapterRead DEF Reading
<1>2. ASSUME NEW i \in D
      PROVE  /\ N[i] = [role |-> raw[i].role, text |-> Trim(raw[i].text), calls |-> At(calls, out, i)]
             /\ Speaks(N[i]) /\ NotEmpty(N[i])
             /\ DOMAIN N[i].calls # {} => raw[i].role = "assistant"
  <2>1. /\ i \in DOMAIN raw /\ Reading(raw, calls, out)[i] = Folded(raw[i], At(calls, out, i))
        /\ DOMAIN At(calls, out, i) = calls[i]
        /\ Speaks(Reading(raw, calls, out)[i]) /\ NotEmpty(Reading(raw, calls, out)[i])
    BY ReadingAt
  <2>2. calls[i] # {} => raw[i].role = "assistant"
    BY <2>1 DEF AdapterPlaces, CallPlaces
  <2> HIDE DEF calls, out, N
  <2>3. N[i] = Folded(raw[i], At(calls, out, i)) /\ Speaks(N[i]) /\ NotEmpty(N[i])
    BY <1>1, <2>1
  <2>4. N[i] = [role |-> raw[i].role, text |-> Trim(raw[i].text), calls |-> At(calls, out, i)]
    BY <2>3 DEF Folded
  <2> QED
    BY <2>1, <2>2, <2>3, <2>4
<1> HIDE DEF N, D
<1>3. DOMAIN T = D
  BY <1>1 DEF AsTranscript
<1>4. ASSUME NEW i \in D
      PROVE  Normal(T, T[i]) = N[i] /\ Speaks(T[i])
  <2> DEFINE c == At(calls, out, i)
             g == [k \in AdapterCalls(T[i]) |->
                     IF T[i].parts[k].kind = "toolCalls" THEN T[i].parts[k].output
                     ELSE AdapterOutput(T, T[i].parts[k].id)]
  <2>1. N[i] = [role |-> raw[i].role, text |-> Trim(raw[i].text), calls |-> c]
        /\ Speaks(N[i]) /\ (DOMAIN c # {} => raw[i].role = "assistant")
        /\ c = [k \in DOMAIN c |-> c[k]]
    BY <1>2 DEF At
  <2>2. T[i] = [role |-> N[i].role, text |-> N[i].text, toolCallId |-> 0, tool_call_id |-> 0,
                parts |-> [k \in DOMAIN N[i].calls |->
                             [kind |-> "toolCalls", id |-> 0, output |-> N[i].calls[k]]]]
    BY <1>1 DEF AsTranscript
  <2> HIDE DEF c, T
  <2>3. /\ N[i].role = raw[i].role /\ N[i].text = Trim(raw[i].text) /\ N[i].calls = c
    BY <2>1
  <2>4. /\ T[i].role = raw[i].role /\ T[i].text = Trim(raw[i].text)
        /\ T[i].parts = [k \in DOMAIN c |-> [kind |-> "toolCalls", id |-> 0, output |-> c[k]]]
    BY <2>2, <2>3
  <2>5. /\ DOMAIN T[i].parts = DOMAIN c
        /\ \A k \in DOMAIN c : T[i].parts[k].kind = "toolCalls" /\ T[i].parts[k].output = c[k]
    BY <2>4
  <2>6. AdapterCalls(T[i]) = DOMAIN c
    BY <2>1, <2>4, <2>5 DEF AdapterCalls, CallsAt
  <2>7. g = c
    BY <2>1, <2>5, <2>6
  <2>8. Normal(T, T[i]) = Folded(T[i], g)
    BY DEF Normal
  <2> HIDE DEF g
  <2>9. Trim(Trim(raw[i].text)) = Trim(raw[i].text)
    BY TrimFacts
  <2>10. Normal(T, T[i]) = [role |-> raw[i].role, text |-> Trim(raw[i].text), calls |-> c]
    BY <2>4, <2>7, <2>8, <2>9 DEF Folded
  <2> QED
    BY <2>1, <2>3, <2>4, <2>10 DEF Speaks
<1>5. Normalize(T) =
        [i \in {j \in DOMAIN T : Speaks(T[j]) /\ NotEmpty(Normal(T, T[j]))} |-> Normal(T, T[i])]
  BY DEF Normalize
<1> HIDE DEF T
<1>6. {j \in DOMAIN T : Speaks(T[j]) /\ NotEmpty(Normal(T, T[j]))} = D
  BY <1>2, <1>3, <1>4
<1>7. Normalize(T) = [i \in D |-> N[i]]
  BY <1>4, <1>5, <1>6
<1>8. Normalize(T) = N
  BY <1>1, <1>7
<1> QED
  BY <1>8 DEF N, T

\* For every transcript.
LEMMA AnyTranscriptIsRead ==
  ASSUME NEW raw \in Seq(MessageRecords)
  PROVE  HostsAgree(raw)
<1> DEFINE piOut       == HostOutputs(raw, FromPi(raw))
           openClawOut == HostOutputs(raw, FromOpenClaw(raw))
           adapterOut  == AdapterOutputs(raw)
           pi          == Reading(raw, PiPlaces(raw), piOut)
           openclaw    == Reading(raw, OpenClawPlaces(raw), openClawOut)
           adapter     == Reading(raw, AdapterPlaces(raw), adapterOut)
<1>1. /\ ToExtraction(ToMemFlywheel(FromPi(raw))) = pi
      /\ ToExtraction(ToMemFlywheel(FromOpenClaw(raw))) = openclaw
      /\ ToExtraction(Normalize(raw)) = adapter
  BY PiRead, OpenClawRead, AdapterRead, ExtractionKeeps
<1>2. FromPiScribe(raw) = ToMemFlywheel(FromPi(raw))
  BY DEF FromPiScribe, ToMemFlywheel, OutputOf
<1>3. /\ OfPi(raw) => SameWords(pi) = SameWords(openclaw)
      /\ OfOpenAI(raw) => SameWords(openclaw) = SameWords(adapter)
  BY PiIsReadAlike, OpenAIIsReadAlike
<1>4. /\ KeepsAll(raw, pi, PiPlaces(raw)) /\ KeepsAll(raw, openclaw, OpenClawPlaces(raw))
      /\ KeepsAll(raw, adapter, AdapterPlaces(raw))
  BY ReadingKeepsAll
<1>5. ASSUME NEW i \in DOMAIN pi, NEW k \in DOMAIN pi[i].calls
      PROVE  IsOneOf(pi[i].calls[k], PiTexts(raw, raw[i].parts[k].id))
  <2> DEFINE id == raw[i].parts[k].id
  <2>1. i \in KeptOf(raw, PiPlaces(raw))
    BY DEF Reading
  <2>2. pi[i].calls = At(PiPlaces(raw), piOut, i) /\ DOMAIN pi[i].calls = PiPlaces(raw)[i]
        /\ i \in DOMAIN raw
    BY <2>1, ReadingAt
  <2>3. k \in DOMAIN raw[i].parts /\ pi[i].calls[k] = piOut[i][k]
    BY <2>2 DEF PiPlaces, CallPlaces, At
  <2>4. pi[i].calls[k] = Output(FromPi(raw), id)
    BY <2>2, <2>3 DEF HostOutputs
  <2>5. PiAt(raw, id) \subseteq DOMAIN raw /\ PiTexts(raw, id) = MessageTexts(raw, id, PiAt(raw, id))
    BY DEF PiAt, PiTexts
  <2>6. /\ Results(FromPi(raw), id) = PiAt(raw, id)
        /\ \A j \in PiAt(raw, id) : /\ FromPi(raw)[j].text # Undefined
                                    /\ Trim(FromPi(raw)[j].text) = Trim(raw[j].text)
    BY PiResults
  <2> HIDE DEF id, pi
  <2>7. IsOneOf(Output(FromPi(raw), id), MessageTexts(raw, id, PiAt(raw, id)))
    BY <2>5, <2>6, OwnOutputs
  <2> QED
    BY <2>4, <2>5, <2>7 DEF id
<1>6. ASSUME NEW i \in DOMAIN openclaw, NEW k \in DOMAIN openclaw[i].calls
      PROVE  IsOneOf(openclaw[i].calls[k], OpenClawTexts(raw, raw[i].parts[k].id))
  <2> DEFINE id == raw[i].parts[k].id
  <2>1. i \in KeptOf(raw, OpenClawPlaces(raw))
    BY DEF Reading
  <2>2. openclaw[i].calls = At(OpenClawPlaces(raw), openClawOut, i)
        /\ DOMAIN openclaw[i].calls = OpenClawPlaces(raw)[i] /\ i \in DOMAIN raw
    BY <2>1, ReadingAt
  <2>3. k \in DOMAIN raw[i].parts /\ openclaw[i].calls[k] = openClawOut[i][k]
    BY <2>2 DEF OpenClawPlaces, CallPlaces, At
  <2>4. openclaw[i].calls[k] = Output(FromOpenClaw(raw), id)
    BY <2>2, <2>3 DEF HostOutputs
  <2>5. OpenClawAt(raw, id) \subseteq DOMAIN raw
        /\ OpenClawTexts(raw, id) = MessageTexts(raw, id, OpenClawAt(raw, id))
    BY DEF OpenClawAt, OpenClawTexts
  <2>6. /\ id # 0 => Results(FromOpenClaw(raw), id) = OpenClawAt(raw, id)
        /\ id # 0 => \A j \in OpenClawAt(raw, id) :
                       /\ FromOpenClaw(raw)[j].text # Undefined
                       /\ Trim(FromOpenClaw(raw)[j].text) = Trim(raw[j].text)
    BY OpenClawResults
  <2> HIDE DEF id, openclaw
  <2>7. IsOneOf(Output(FromOpenClaw(raw), id), MessageTexts(raw, id, OpenClawAt(raw, id)))
    BY <2>5, <2>6, OwnOutputs
  <2> QED
    BY <2>4, <2>5, <2>7 DEF id
<1>7. ASSUME NEW i \in DOMAIN adapter, NEW k \in DOMAIN adapter[i].calls
      PROVE  IF raw[i].parts[k].kind = "toolCalls" THEN adapter[i].calls[k] = raw[i].parts[k].output
             ELSE IsOneOf(adapter[i].calls[k], AdapterTexts(raw, raw[i].parts[k].id))
  <2>1. i \in KeptOf(raw, AdapterPlaces(raw))
    BY DEF Reading
  <2>2. adapter[i].calls = At(AdapterPlaces(raw), adapterOut, i)
        /\ DOMAIN adapter[i].calls = AdapterPlaces(raw)[i] /\ i \in DOMAIN raw
    BY <2>1, ReadingAt
  <2>3. k \in DOMAIN raw[i].parts /\ adapter[i].calls[k] = adapterOut[i][k]
    BY <2>2 DEF AdapterPlaces, CallPlaces, At
  <2>4. adapter[i].calls[k] = IF raw[i].parts[k].kind = "toolCalls" THEN raw[i].parts[k].output
                              ELSE AdapterOutput(raw, raw[i].parts[k].id)
    BY <2>2, <2>3 DEF AdapterOutputs
  <2> HIDE DEF adapter
  <2> QED
    BY <2>4, AdapterOwn
<1>8. Normalize(AsTranscript(Normalize(raw))) = Normalize(raw)
  BY NormalForGood
<1> HIDE DEF pi, openclaw, adapter, piOut, openClawOut, adapterOut
<1> QED
  BY <1>1, <1>2, <1>3, <1>4, <1>5, <1>6, <1>7, <1>8
  DEF HostsAgree, PiPlaces, OpenClawPlaces, AdapterPlaces

LEMMA MessagesTyped ==
  ASSUME NEW m \in Messages
  PROVE  m \in MessageRecords
<1>1. <<>> \in Seq(PartRecords)
  OBVIOUS
<1>2. \A kind \in CallKinds, id \in Int : Part(kind, id, Undefined) \in PartRecords
  BY DEF Part, PartRecords, Outputs, CallKinds
<1>3. \A kind \in CallKinds \cup {"tool_result"}, id \in Int, text \in Words :
        Part(kind, id, text) \in PartRecords
  BY DEF Part, PartRecords, Outputs
<1>4. /\ "toolCall" \in CallKinds /\ "tool_use" \in CallKinds /\ "tool_calls" \in CallKinds
      /\ "toolCalls" \in CallKinds /\ "words" \in Words /\ "blank" \in Words
  BY DEF CallKinds, Words
<1>5. \A x, y \in PartRecords : <<x>> \in Seq(PartRecords) /\ <<x, y>> \in Seq(PartRecords)
  OBVIOUS
<1>6. \A parts \in CallLists : parts \in Seq(PartRecords)
  <2> SUFFICES ASSUME NEW parts \in CallLists
               PROVE  parts \in Seq(PartRecords)
    OBVIOUS
  <2> DEFINE call(kind, id) == Part(kind, id, Undefined)
             done(output)   == Part("toolCalls", 2, output)
  <2>1. \A kind \in CallKinds, id \in 0 .. 2 : call(kind, id) \in PartRecords
    BY <1>2
  <2>2. done("words") \in PartRecords /\ done(Undefined) \in PartRecords
        /\ Part("tool_result", 1, "words") \in PartRecords
    BY <1>2, <1>3, <1>4
  <2>3. \/ parts = <<>>
        \/ \E kind \in {"toolCall", "tool_use"}, id \in 0 .. 1 : parts = <<call(kind, id)>>
        \/ parts \in {<<call("toolCall", 1), call("toolCall", 2)>>, <<call("tool_calls", 2)>>,
                      <<call("tool_calls", 0), call("tool_use", 2)>>,
                      <<call("tool_use", 2), call("toolCall", 1)>>,
                      <<call("tool_use", 1), Part("tool_result", 1, "words")>>,
                      <<done("words")>>, <<done(Undefined), call("tool_use", 1)>>}
    BY DEF CallLists
  <2> HIDE DEF call, done
  <2>4. /\ call("toolCall", 0) \in PartRecords /\ call("toolCall", 1) \in PartRecords
        /\ call("toolCall", 2) \in PartRecords /\ call("tool_calls", 2) \in PartRecords
        /\ call("tool_calls", 0) \in PartRecords /\ call("tool_use", 2) \in PartRecords
        /\ call("tool_use", 1) \in PartRecords /\ call("tool_use", 0) \in PartRecords
    BY <1>4, <2>1
  <2>5. CASE parts = <<>>
    BY <1>1, <2>5
  <2>6. CASE \E kind \in {"toolCall", "tool_use"}, id \in 0 .. 1 : parts = <<call(kind, id)>>
    <3>1. PICK kind \in {"toolCall", "tool_use"}, id \in 0 .. 1 : parts = <<call(kind, id)>>
      BY <2>6
    <3>2. call(kind, id) \in PartRecords
      BY <1>4, <2>1
    <3> QED
      BY <1>5, <3>1, <3>2
  <2>7. CASE parts \in {<<call("toolCall", 1), call("toolCall", 2)>>, <<call("tool_calls", 2)>>,
                        <<call("tool_calls", 0), call("tool_use", 2)>>,
                        <<call("tool_use", 2), call("toolCall", 1)>>,
                        <<call("tool_use", 1), Part("tool_result", 1, "words")>>,
                        <<done("words")>>, <<done(Undefined), call("tool_use", 1)>>}
    BY <1>5, <2>2, <2>4, <2>7
  <2> QED
    BY <2>3, <2>5, <2>6, <2>7
<1>7. <<Part("tool_result", 1, "words")>> \in Seq(PartRecords)
      /\ <<Part("tool_result", 2, "blank")>> \in Seq(PartRecords)
  BY <1>3, <1>4, <1>5
<1>8. \A role \in {"user", "assistant", "system", "tool", "toolResult"}, text \in Words,
         ids \in ToolIds \cup ToolResultIds, parts \in Seq(PartRecords) :
        Message(role, text, ids, parts) \in MessageRecords
  BY DEF Message, MessageRecords, ToolIds, ToolResultIds
<1>9. /\ <<0, 0>> \in ToolIds \cup ToolResultIds /\ <<0, 2>> \in ToolIds \cup ToolResultIds
      /\ "none" \in Words
  BY DEF ToolIds, ToolResultIds, Words
<1>10. PICK role \in {"user", "assistant", "system", "tool", "toolResult"}, text \in Words,
            ids \in ToolIds \cup ToolResultIds, parts \in Seq(PartRecords) :
         m = Message(role, text, ids, parts)
  <2>1. CASE m = Message("system", "words", <<0, 0>>, <<>>)
    BY <1>1, <1>4, <1>9, <2>1
  <2>2. CASE m \in {Message("user", text, <<0, 0>>, parts) :
                      text \in {"none", "words"},
                      parts \in {<<>>, <<Part("tool_result", 1, "words")>>,
                                 <<Part("tool_result", 2, "blank")>>}}
    <3>1. PICK text \in {"none", "words"},
               parts \in {<<>>, <<Part("tool_result", 1, "words")>>,
                          <<Part("tool_result", 2, "blank")>>} :
            m = Message("user", text, <<0, 0>>, parts)
      BY <2>2
    <3>2. text \in Words
      BY <1>4, <1>9, Zenon
    <3>3. parts \in Seq(PartRecords)
      BY <1>1, <1>7, Zenon
    <3> QED
      BY <1>9, <3>1, <3>2, <3>3
  <2>3. CASE m \in {Message("assistant", text, <<0, 0>>, parts) :
                      text \in {"blank", "words"}, parts \in CallLists}
    <3>1. PICK text \in {"blank", "words"}, parts \in CallLists :
            m = Message("assistant", text, <<0, 0>>, parts)
      BY <2>3
    <3>2. text \in Words /\ parts \in Seq(PartRecords)
      BY <1>4, <1>6
    <3> QED
      BY <1>9, <3>1, <3>2
  <2>4. CASE m = Message("tool", "words", <<0, 2>>, <<Part("tool_result", 2, "blank")>>)
    BY <1>4, <1>7, <1>9, <2>4
  <2>5. CASE m \in {Message("tool", text, ids, <<>>) : text \in {"blank", "words"}, ids \in ToolIds}
    <3>1. PICK text \in {"blank", "words"}, ids \in ToolIds : m = Message("tool", text, ids, <<>>)
      BY <2>5
    <3>2. text \in Words /\ ids \in ToolIds \cup ToolResultIds
      BY <1>4
    <3> QED
      BY <1>1, <3>1, <3>2
  <2>6. CASE m \in {Message("toolResult", text, ids, <<>>) :
                      text \in {"blank", "words"}, ids \in ToolResultIds}
    <3>1. PICK text \in {"blank", "words"}, ids \in ToolResultIds :
            m = Message("toolResult", text, ids, <<>>)
      BY <2>6
    <3>2. text \in Words /\ ids \in ToolIds \cup ToolResultIds
      BY <1>4
    <3> QED
      BY <1>1, <3>1, <3>2
  <2> QED
    BY <2>1, <2>2, <2>3, <2>4, <2>5, <2>6 DEF Messages
<1> QED
  BY <1>8, <1>10

\* However long the transcript is and whatever it mixes: each reading keeps its words and the
\* calls of the kinds that it knows, with the outputs of results that name them; Pi's two are
\* one, and the readings agree where the shapes that they know meet (pi-port.ts,
\* openclaw-port.ts, make-adapter.ts).
THEOREM AnyHostIsAlwaysRead == InputSpec => []AnyHostIsRead
<1>1. InputInit => AnyHostIsRead
  <2> SUFFICES ASSUME InputInit, input.of = "messages"
               PROVE  HostsAgree(input.raw)
    BY DEF AnyHostIsRead
  <2>1. MessagesInput
    BY InputKinds
  <2>2. PICK raw \in BoundedSeq(Messages, MaxTranscript) : input = [of |-> "messages", raw |-> raw]
    BY <2>1 DEF MessagesInput
  <2>3. raw \in Seq(MessageRecords)
    <3>1. PICK n \in 0 .. MaxTranscript : raw \in [1 .. n -> Messages]
      BY DEF BoundedSeq, SeqOf
    <3>2. n \in Nat
      OBVIOUS
    <3>3. raw \in [1 .. n -> MessageRecords]
      BY <3>1, MessagesTyped
    <3> QED
      BY <3>2, <3>3
  <2> QED
    BY <2>2, <2>3, AnyTranscriptIsRead
<1>2. AnyHostIsRead /\ [InputNext]_input => AnyHostIsRead'
  BY DEF InputNext, AnyHostIsRead
<1> QED
  BY <1>1, <1>2, PTL DEF InputSpec

(***************************************************************************)
(* The answers of the read tools.                                          *)
(***************************************************************************)

\* What a footer says: nothing or the next offset.
LEMMA AnswerAt ==
  ASSUME NEW T, NEW node, node.content \in Seq(T), node.kind \in {"file", "directory"},
         NEW limit \in Nat \ {0}, NEW offset \in 1 .. Len(node.content)
  PROVE  \E upto \in offset .. Len(node.content) :
           LET answer == Read(node, offset, limit)
           IN  /\ answer.shows = SubSeq(node.content, offset, upto)
               /\ Len(answer.shows) = upto - offset + 1 /\ Len(answer.shows) <= limit
               /\ answer.next = IF upto < Len(node.content) THEN upto + 1 ELSE End
<1> DEFINE s    == node.content
           n    == Len(s)
           upto == Min({(offset - 1) + limit, n})
           shown == SubSeq(s, offset, upto)
           answer == Read(node, offset, limit)
<1>0. n \in Nat /\ limit \in Nat /\ limit > 0 /\ offset \in Nat /\ offset > 0 /\ offset <= n
  OBVIOUS
<1>1. upto \in {(offset - 1) + limit, n} /\ upto <= (offset - 1) + limit /\ upto <= n
  <2>1. (offset - 1) + limit \in Int /\ n \in Int
    BY <1>0
  <2> HIDE DEF n
  <2> QED
    BY <2>1, MinOfTwo
<1> HIDE DEF upto
<1>2. upto \in offset .. n /\ upto - offset + 1 <= limit
  BY <1>0, <1>1
<1>3. offset \in 1 .. n + 1 /\ upto \in 0 .. n /\ offset <= upto + 1
  BY <1>0, <1>2
<1>4. Len(shown) = upto - offset + 1
  BY <1>3, SubSeqFacts
<1>5. Slice(s, offset - 1, limit) = shown
  <2>1. (offset - 1) + 1 = offset
    BY <1>0
  <2>2. Slice(s, offset - 1, limit) = SubSeq(s, (offset - 1) + 1, Min({(offset - 1) + limit, Len(s)}))
    BY DEF Slice
  <2>3. Min({(offset - 1) + limit, Len(s)}) = upto
    BY DEF upto
  <2> QED
    BY <2>1, <2>2, <2>3
<1> HIDE DEF shown, s, n
<1>6. CASE node.kind = "directory"
  <2>1. answer = ReadDirectory(s, offset, limit)
    BY <1>0, <1>6 DEF Read, s
  <2>2. answer.shows = shown /\ answer.next = IF offset - 1 + Len(shown) < n
                                              THEN offset + Len(shown) ELSE End
    BY <1>5, <2>1 DEF ReadDirectory, n
  <2>3. offset - 1 + Len(shown) = upto /\ offset + Len(shown) = upto + 1
    BY <1>0, <1>2, <1>4
  <2> HIDE DEF answer
  <2>4. answer.next = IF upto < n THEN upto + 1 ELSE End
    BY <2>2, <2>3
  <2> QED
    BY <1>2, <1>4, <2>2, <2>4 DEF answer, shown, s, n
<1>7. CASE node.kind = "file"
  <2>1. answer = ReadFile(s, offset, limit)
    BY <1>0, <1>7 DEF Read, s
  <2>2. answer.shows = shown /\ answer.next = IF offset - 1 + Len(shown) < n
                                              THEN offset - 1 + Len(shown) + 1 ELSE End
    BY <1>0, <1>5, <2>1 DEF ReadFile, n
  <2>3. offset - 1 + Len(shown) = upto
    BY <1>0, <1>2, <1>4
  <2> HIDE DEF answer
  <2>4. answer.next = IF upto < n THEN upto + 1 ELSE End
    BY <2>2, <2>3
  <2> QED
    BY <1>2, <1>4, <2>2, <2>4 DEF answer, shown, s, n
<1> QED
  BY <1>6, <1>7

\* Past the end a file gives an error and a directory nothing.
LEMMA AnswerPastTheEnd ==
  ASSUME NEW T, NEW node, node.content \in Seq(T), node.kind \in {"file", "directory"},
         NEW limit \in Nat \ {0}
  PROVE  LET answer == Read(node, Len(node.content) + 1, limit)
         IN  /\ node.kind = "file" => answer.next = Error.next
             /\ node.kind = "directory" => answer.shows = <<>> /\ answer.next = End
<1> DEFINE s == node.content
           n == Len(s)
           answer == Read(node, n + 1, limit)
<1>0. n \in Nat /\ limit \in Nat /\ limit > 0
  OBVIOUS
<1>1. CASE node.kind = "file"
  <2>1. answer = ReadFile(s, n + 1, limit)
    BY <1>0, <1>1 DEF Read
  <2>2. answer = Error
    BY <1>0, <2>1 DEF ReadFile
  <2> QED
    BY <1>1, <2>2
<1>2. CASE node.kind = "directory"
  <2> DEFINE upto == Min({n + limit, n})
  <2>1. upto \in {n + limit, n} /\ upto <= n
    <3>1. n + limit \in Int /\ n \in Int
      BY <1>0
    <3> HIDE DEF n
    <3> QED
      BY <3>1, MinOfTwo
  <2>2. upto = n
    BY <1>0, <2>1
  <2>3. Slice(s, n, limit) = SubSeq(s, n + 1, n)
    BY <2>2 DEF Slice
  <2>4. SubSeq(s, n + 1, n) = <<>>
    OBVIOUS
  <2>5. answer = ReadDirectory(s, n + 1, limit)
    BY <1>0, <1>2 DEF Read
  <2>6. n + 1 - 1 = n
    BY <1>0
  <2>7. Slice(s, n + 1 - 1, limit) = <<>>
    BY <2>3, <2>4, <2>6
  <2> HIDE DEF n, s
  <2>8. answer.shows = <<>> /\ answer.next = IF n + 1 - 1 + 0 < n THEN n + 1 + 0 ELSE End
    BY <2>5, <2>7 DEF ReadDirectory, n
  <2> QED
    BY <1>0, <1>2, <2>8 DEF n, s
<1> QED
  BY <1>1, <1>2

\* An offset that the footers lead to is that of a line or an entry, or the first of an
\* empty directory.
LEMMA OffsetsAreLines ==
  ASSUME NEW T, NEW node, node.content \in Seq(T), node.kind \in {"file", "directory"},
         node.kind = "file" => Len(node.content) > 0,
         NEW limit \in Nat \ {0},
         NEW r \in Seq(1 .. Len(node.content) + 1), Follows(node, limit, 1, r),
         NEW k \in DOMAIN r
  PROVE  \/ r[k] \in 1 .. Len(node.content)
         \/ Len(node.content) = 0 /\ r[k] = 1 /\ node.kind = "directory"
<1> DEFINE n == Len(node.content)
<1>0. n \in Nat /\ DOMAIN r = 1 .. Len(r) /\ Len(r) \in Nat
      /\ \A i \in DOMAIN r : r[i] \in 1 .. n + 1
  OBVIOUS
<1>1. r[1] = 1 /\ \A i \in DOMAIN r : i < Len(r) => Read(node, r[i], limit).next = r[i + 1]
  BY DEF Follows
<1> HIDE DEF n
<1>2. CASE k = 1
  <2>1. n = 0 => node.kind = "directory"
    BY DEF n
  <2> QED
    BY <1>0, <1>1, <1>2, <2>1 DEF n
<1>3. CASE k # 1
  <2> DEFINE j == k - 1
  <2>1. j \in DOMAIN r /\ j < Len(r) /\ j + 1 = k
    BY <1>0, <1>3
  <2>2. Read(node, r[j], limit).next = r[k] /\ r[k] \in 1 .. n + 1 /\ r[j] \in 1 .. n + 1
    BY <1>0, <1>1, <2>1
  <2> HIDE DEF j
  <2>3. CASE r[j] \in 1 .. n
    <3>1. PICK upto \in r[j] .. n :
            Read(node, r[j], limit).next = IF upto < n THEN upto + 1 ELSE End
      BY <2>3, AnswerAt DEF n
    <3> QED
      BY <1>0, <2>2, <2>3, <3>1 DEF End, n
  <2>4. CASE r[j] = n + 1
    <3>1. Read(node, r[j], limit).next \in {Error.next, End}
      BY <2>4, AnswerPastTheEnd DEF n
    <3> QED
      BY <1>0, <2>2, <3>1 DEF Error, End
  <2> QED
    BY <1>0, <2>2, <2>3, <2>4
<1> QED
  BY <1>2, <1>3

\* From every line there is a reading to the end.
HasReading(node, limit, offset) ==
  \E r \in Seq(1 .. Len(node.content) + 1) :
    Len(r) <= Len(node.content) + 1 - offset /\ Follows(node, limit, offset, r)

LEMMA OneAnswer ==
  ASSUME NEW node, NEW limit, NEW offset, Read(node, offset, limit).next = End
  PROVE  Follows(node, limit, offset, <<offset>>)
<1>1. <<offset>> # <<>> /\ <<offset>>[1] = offset /\ DOMAIN <<offset>> = {1} /\ Len(<<offset>>) = 1
  OBVIOUS
<1> QED
  BY <1>1 DEF Follows

LEMMA OneMoreAnswer ==
  ASSUME NEW node, NEW limit, NEW T, NEW offset \in T, NEW r \in Seq(T),
         NEW next, Read(node, offset, limit).next = next, Follows(node, limit, next, r)
  PROVE  Follows(node, limit, offset, <<offset>> \o r)
<1> DEFINE q == <<offset>> \o r
<1>1. r # <<>> /\ r[1] = next
      /\ \A k \in DOMAIN r :
           /\ k < Len(r) => Read(node, r[k], limit).next = r[k + 1]
           /\ k = Len(r) => Read(node, r[k], limit).next \in {End, Error.next}
  <2>1. \A k \in DOMAIN r : k = Len(r) => ~(k < Len(r))
    OBVIOUS
  <2> QED
    BY <2>1 DEF Follows
<1>2. Len(r) \in Nat /\ Len(r) > 0 /\ DOMAIN r = 1 .. Len(r)
  BY <1>1
<1>3. /\ q \in Seq(T) /\ Len(q) = 1 + Len(r) /\ DOMAIN q = 1 .. 1 + Len(r)
      /\ q[1] = offset /\ \A i \in 1 .. Len(r) : q[1 + i] = r[i]
  <2>1. <<offset>> \in Seq(T) /\ Len(<<offset>>) = 1 /\ <<offset>>[1] = offset
    OBVIOUS
  <2> HIDE <1>1, <1>2
  <2> QED
    BY <2>1, ConcatFacts
<1> HIDE DEF q
<1>4. ASSUME NEW k \in DOMAIN q
      PROVE  LET then == Read(node, q[k], limit).next
             IN  IF k < Len(q) THEN then = q[k + 1] ELSE then \in {End, Error.next}
  <2>1. CASE k = 1
    <3>1. q[1] = offset /\ q[1 + 1] = r[1] /\ 1 < Len(q)
      BY <1>2, <1>3
    <3> QED
      BY <1>1, <2>1, <3>1
  <2>2. CASE k # 1
    <3> DEFINE j == k - 1
    <3>1. j \in DOMAIN r /\ j \in 1 .. Len(r) /\ k = 1 + j /\ (k < Len(q) <=> j < Len(r))
          /\ (~(j < Len(r)) => j = Len(r)) /\ (j < Len(r) => j + 1 \in 1 .. Len(r))
      BY <1>2, <1>3, <2>2
    <3> HIDE DEF j
    <3>2. q[k] = r[j] /\ (j < Len(r) => q[1 + (j + 1)] = r[j + 1] /\ k + 1 = 1 + (j + 1))
      BY <1>3, <3>1
    <3> QED
      BY <1>1, <3>1, <3>2
  <2> QED
    BY <2>1, <2>2
<1>5. q # <<>>
  BY <1>2, <1>3
<1> QED
  BY <1>3, <1>4, <1>5 DEF Follows, q

LEMMA EveryLineHasAReading ==
  ASSUME NEW T, NEW node, node.content \in Seq(T), node.kind \in {"file", "directory"},
         NEW limit \in Nat \ {0}, NEW offset \in 1 .. Len(node.content)
  PROVE  HasReading(node, limit, offset)
<1> DEFINE n     == Len(node.content)
           lost  == {o \in 1 .. n : ~HasReading(node, limit, o)}
           after == {n - o : o \in lost}
<1>0. n \in Nat
  OBVIOUS
<1>1. SUFFICES ASSUME lost # {}
               PROVE  FALSE
  OBVIOUS
<1>2. after \subseteq Nat /\ after # {}
  <2>1. \A o \in lost : o \in 1 .. n
    OBVIOUS
  <2> HIDE DEF lost, n
  <2>2. \A o \in lost : n - o \in Nat
    BY <1>0, <2>1
  <2> QED
    BY <1>1, <2>2
<1>3. PICK d \in after : \A e \in after : d <= e
  <2> HIDE DEF after
  <2> QED
    BY <1>2, LeastOf
<1>4. PICK o \in lost : d = n - o
  OBVIOUS
<1>5. o \in 1 .. n /\ ~HasReading(node, limit, o)
  OBVIOUS
<1>6. \A p \in 1 .. n : p > o => HasReading(node, limit, p)
  <2> SUFFICES ASSUME NEW p \in 1 .. n, p > o, ~HasReading(node, limit, p)
               PROVE  FALSE
    OBVIOUS
  <2>1. n - p \in after
    OBVIOUS
  <2>2. d <= n - p
    BY <1>3, <2>1
  <2> QED
    BY <1>0, <1>4, <1>5, <2>2
<1> HIDE DEF lost, after
<1>7. PICK upto \in o .. n :
        Read(node, o, limit).next = IF upto < n THEN upto + 1 ELSE End
  BY <1>5, AnswerAt
<1> HIDE DEF n
<1>8. CASE ~(upto < n)
  <2>1. Follows(node, limit, o, <<o>>)
    BY <1>7, <1>8, OneAnswer
  <2>2. <<o>> \in Seq(1 .. n + 1) /\ Len(<<o>>) = 1 /\ 1 <= n + 1 - o
    <3>1. o \in 1 .. n + 1 /\ 1 <= n + 1 - o
      BY <1>0, <1>5
    <3> QED
      BY <3>1
  <2> QED
    BY <1>5, <2>1, <2>2 DEF HasReading, n
<1>9. CASE upto < n
  <2>1. upto + 1 \in 1 .. n /\ upto + 1 > o /\ o \in 1 .. n + 1 /\ upto \in Nat /\ o \in Nat
    BY <1>0, <1>5, <1>7, <1>9
  <2>2. PICK r \in Seq(1 .. n + 1) :
          Len(r) <= n + 1 - (upto + 1) /\ Follows(node, limit, upto + 1, r)
    BY <1>6, <2>1 DEF HasReading, n
  <2>3. Follows(node, limit, o, <<o>> \o r)
    BY <1>7, <1>9, <2>1, <2>2, OneMoreAnswer
  <2>4. <<o>> \in Seq(1 .. n + 1) /\ Len(<<o>>) = 1
    BY <2>1
  <2>5. <<o>> \o r \in Seq(1 .. n + 1) /\ Len(<<o>> \o r) = 1 + Len(r) /\ Len(r) \in Nat
    BY <2>4, ConcatFacts
  <2>6. 1 + Len(r) <= n + 1 - o
    BY <1>0, <1>7, <2>1, <2>2, <2>5
  <2> QED
    BY <1>5, <2>3, <2>5, <2>6 DEF HasReading, n
<1> QED
  BY <1>8, <1>9

LEMMA BoundedSeqIs ==
  ASSUME NEW T, NEW n \in Nat, NEW r
  PROVE  r \in BoundedSeq(T, n) <=> r \in Seq(T) /\ Len(r) <= n
<1>1. ASSUME r \in BoundedSeq(T, n)
      PROVE  r \in Seq(T) /\ Len(r) <= n
  <2>1. PICK m \in 0 .. n : r \in [1 .. m -> T]
    BY <1>1 DEF BoundedSeq, SeqOf
  <2>2. m \in Nat
    OBVIOUS
  <2>3. r \in Seq(T) /\ Len(r) = m
    BY <2>1, <2>2
  <2> QED
    BY <2>3
<1>2. ASSUME r \in Seq(T), Len(r) <= n
      PROVE  r \in BoundedSeq(T, n)
  <2>1. Len(r) \in 0 .. n /\ r \in [1 .. Len(r) -> T]
    BY <1>2
  <2> QED
    BY <2>1 DEF BoundedSeq, SeqOf
<1> QED
  BY <1>1, <1>2

\* For every file that is not empty, every directory and every limit.
LEMMA FootersAlwaysTile ==
  ASSUME NEW T, NEW node, node.content \in Seq(T), node.kind \in {"file", "directory"},
         node.kind = "file" => Len(node.content) > 0,
         NEW limit \in Nat \ {0}
  PROVE  FootersTile(node, limit)
<1> DEFINE n        == Len(node.content)
           readings == {r \in BoundedSeq(1 .. n + 1, n + 1) : Follows(node, limit, 1, r)}
<1>0. n \in Nat
  OBVIOUS
<1>1. readings # {}
  <2>1. CASE n > 0
    <3>1. 1 \in 1 .. n
      BY <1>0, <2>1
    <3>2. PICK r \in Seq(1 .. n + 1) : Len(r) <= n + 1 - 1 /\ Follows(node, limit, 1, r)
      BY <3>1, EveryLineHasAReading DEF HasReading
    <3> HIDE DEF n
    <3>3. Len(r) <= n + 1 /\ n + 1 \in Nat
      BY <1>0, <3>2
    <3>4. r \in BoundedSeq(1 .. n + 1, n + 1)
      BY <3>3, BoundedSeqIs
    <3> QED
      BY <3>2, <3>4 DEF n
  <2>2. CASE ~(n > 0)
    <3>1. n = 0 /\ node.kind = "directory"
      BY <1>0, <2>2
    <3>2. Read(node, 1, limit).next = End
      BY <3>1, AnswerPastTheEnd
    <3>3. Follows(node, limit, 1, <<1>>)
      BY <3>2, OneAnswer
    <3> HIDE DEF n
    <3>4. <<1>> \in Seq(1 .. n + 1) /\ Len(<<1>>) <= n + 1 /\ n + 1 \in Nat
      BY <3>1
    <3>5. <<1>> \in BoundedSeq(1 .. n + 1, n + 1)
      BY <3>4, BoundedSeqIs
    <3> QED
      BY <3>3, <3>5 DEF n
  <2> QED
    BY <2>1, <2>2
<1>2. ASSUME NEW r \in readings, NEW k \in DOMAIN r
      PROVE  LET answer == Read(node, r[k], limit)
                 last   == k = Len(r)
             IN  /\ answer.shows = SubSeq(node.content, r[k], IF last THEN n ELSE r[k + 1] - 1)
                 /\ last => answer.next = End
                 /\ Len(answer.shows) <= limit
  <2> DEFINE answer == Read(node, r[k], limit)
  <2>1. r \in Seq(1 .. n + 1) /\ Follows(node, limit, 1, r)
    <3>1. r \in BoundedSeq(1 .. n + 1, n + 1) /\ Follows(node, limit, 1, r)
      OBVIOUS
    <3>2. n + 1 \in Nat
      BY <1>0
    <3> HIDE DEF n
    <3> QED
      BY <3>1, <3>2, BoundedSeqIs
  <2>2. r[k] \in 1 .. n \/ (n = 0 /\ r[k] = 1 /\ node.kind = "directory")
    BY <2>1, OffsetsAreLines
  <2>3. /\ DOMAIN r = 1 .. Len(r) /\ Len(r) \in Nat /\ k \in Nat /\ k <= Len(r)
        /\ \A i \in DOMAIN r : r[i] \in 1 .. n + 1
    BY <2>1
  <2>4. IF k < Len(r) THEN answer.next = r[k + 1] ELSE answer.next \in {End, Error.next}
    BY <2>1 DEF Follows
  <2> HIDE DEF n, readings
  <2>5. CASE r[k] \in 1 .. n
    <3>1. PICK upto \in r[k] .. n :
            /\ answer.shows = SubSeq(node.content, r[k], upto) /\ Len(answer.shows) <= limit
            /\ answer.next = IF upto < n THEN upto + 1 ELSE End
      BY <2>5, AnswerAt DEF n
    <3> HIDE DEF answer
    <3>2. CASE k = Len(r)
      <4>1. answer.next \in {End, Error.next}
        BY <2>3, <2>4, <3>2
      <4>2. upto = n /\ answer.next = End
        BY <1>0, <2>5, <3>1, <4>1 DEF End, Error
      <4> QED
        BY <3>1, <3>2, <4>2 DEF answer, n
    <3>3. CASE k # Len(r)
      <4>1. k < Len(r) /\ k + 1 \in DOMAIN r
        BY <2>3, <3>3
      <4>2. answer.next = r[k + 1] /\ r[k + 1] \in 1 .. n + 1
        BY <2>3, <2>4, <4>1
      <4>3. upto = r[k + 1] - 1
        BY <1>0, <2>5, <3>1, <4>2 DEF End
      <4> QED
        BY <3>1, <3>3, <4>3 DEF answer, n
    <3> QED
      BY <3>2, <3>3
  <2>6. CASE n = 0 /\ r[k] = 1 /\ node.kind = "directory"
    <3>1. answer.shows = <<>> /\ answer.next = End
      BY <2>6, AnswerPastTheEnd DEF n
    <3> HIDE DEF answer
    <3>2. k = Len(r)
      <4>1. CASE k < Len(r)
        <5>1. answer.next = r[k + 1] /\ r[k + 1] \in 1 .. n + 1
          BY <2>3, <2>4, <4>1
        <5> QED
          BY <1>0, <3>1, <5>1 DEF End
      <4> QED
        BY <2>3, <4>1
    <3>3. SubSeq(node.content, 1, 0) = <<>>
      OBVIOUS
    <3>4. Len(answer.shows) <= limit
      BY <3>1
    <3> QED
      BY <2>6, <3>1, <3>2, <3>3, <3>4 DEF answer, n
  <2> QED
    BY <2>2, <2>5, <2>6
<1> HIDE DEF readings
<1>3. readings = {r \in BoundedSeq(1 .. Len(node.content) + 1, Len(node.content) + 1) :
                    Follows(node, limit, 1, r)}
  BY DEF readings
<1> QED
  BY <1>1, <1>2, <1>3 DEF FootersTile


\* The matches that come before a match in the order of a search.
MatchType == [file : Int, line : Int, time : Int]

Ahead(M, m) == {n \in M : Before(n, m)}

LEMMA BeforeOrders ==
  ASSUME NEW M, M \subseteq MatchType
  PROVE  /\ \A m \in M : ~Before(m, m)
         /\ \A l, m, n \in M : Before(l, m) /\ Before(m, n) => Before(l, n)
         /\ \A m, n \in M : m # n => Before(m, n) \/ Before(n, m)
<1>1. \A m \in M : /\ m.file \in Int /\ m.line \in Int /\ m.time \in Int
                   /\ m = [file |-> m.file, line |-> m.line, time |-> m.time]
  BY DEF MatchType
<1>2. \A m, n \in M : m.file = n.file /\ m.line = n.line /\ m.time = n.time => m = n
  <2> SUFFICES ASSUME NEW m \in M, NEW n \in M, m.file = n.file, m.line = n.line, m.time = n.time
               PROVE  m = n
    OBVIOUS
  <2>1. /\ m = [file |-> m.file, line |-> m.line, time |-> m.time]
        /\ n = [file |-> n.file, line |-> n.line, time |-> n.time]
    BY <1>1
  <2> QED
    BY <2>1
<1>3. \A m \in M : ~Before(m, m)
  BY <1>1 DEF Before
<1>4. ASSUME NEW l \in M, NEW m \in M, NEW n \in M, Before(l, m), Before(m, n)
      PROVE  Before(l, n)
  BY <1>1, <1>4 DEF Before
<1>5. ASSUME NEW m \in M, NEW n \in M, m # n
      PROVE  Before(m, n) \/ Before(n, m)
  <2>1. m.file # n.file \/ m.line # n.line \/ m.time # n.time
    BY <1>2, <1>5
  <2> QED
    BY <1>1, <2>1 DEF Before
<1> QED
  BY <1>3, <1>4, <1>5

LEMMA AheadFacts ==
  ASSUME NEW M, M \subseteq MatchType, IsFiniteSet(M), NEW m \in M
  PROVE  /\ Ahead(M, m) \subseteq M /\ m \notin Ahead(M, m) /\ IsFiniteSet(Ahead(M, m))
         /\ Cardinality(Ahead(M, m)) \in Nat
         /\ Cardinality(Ahead(M, m) \cup {m}) = Cardinality(Ahead(M, m)) + 1
         /\ Cardinality(Ahead(M, m)) < Cardinality(M)
         /\ \A n \in M : Before(n, m) => Cardinality(Ahead(M, n)) < Cardinality(Ahead(M, m))
<1> DEFINE A == Ahead(M, m)
<1>1. A \subseteq M /\ m \notin A
  BY BeforeOrders DEF Ahead
<1>2. IsFiniteSet(A) /\ Cardinality(A) \in Nat
  BY <1>1, FS_Subset, FS_CardinalityType
<1>3. Cardinality(A \cup {m}) = Cardinality(A) + 1
  BY <1>1, <1>2, FS_AddElement
<1>4. Cardinality(A) < Cardinality(M)
  <2>1. A \cup {m} \subseteq M
    BY <1>1
  <2>2. Cardinality(A \cup {m}) <= Cardinality(M) /\ Cardinality(M) \in Nat
    BY <2>1, FS_Subset, FS_CardinalityType
  <2> HIDE DEF A
  <2> QED
    BY <1>2, <1>3, <2>2
<1>5. ASSUME NEW n \in M, Before(n, m)
      PROVE  Cardinality(Ahead(M, n)) < Cardinality(A)
  <2> DEFINE B == Ahead(M, n)
  <2>1. n \in A /\ B \subseteq A /\ n \notin B
    BY <1>5, BeforeOrders DEF Ahead
  <2>2. IsFiniteSet(B) /\ Cardinality(B) <= Cardinality(A) /\ Cardinality(B) \in Nat
    BY <1>2, <2>1, FS_Subset, FS_CardinalityType
  <2>3. Cardinality(B) # Cardinality(A)
    BY <1>2, <2>1, FS_Subset
  <2> HIDE DEF A, B
  <2> QED
    BY <1>2, <2>2, <2>3 DEF B
<1> QED
  BY <1>1, <1>2, <1>3, <1>4, <1>5

\* For every finite set of matches and every limit.
LEMMA CutsAreAlwaysTold ==
  ASSUME NEW M, M \subseteq MatchType, IsFiniteSet(M)
  PROVE  CutsAreTold(M)
<1> DEFINE L       == SearchLimit
           rank(m) == Cardinality(Ahead(M, m))
           shows   == {m \in M : rank(m) < L}
           size    == Cardinality(M)
<1>0. L \in Nat /\ L > 0 /\ size \in Nat
  BY SearchAssumption, FS_CardinalityType
<1>1. Search(M).shows = shows /\ (Search(M).hides <=> size > L)
  BY DEF Search, Ahead
<1>2. \A m \in M : /\ rank(m) \in Nat /\ rank(m) < size
                   /\ Cardinality(Ahead(M, m) \cup {m}) = rank(m) + 1
                   /\ \A n \in M : Before(n, m) => rank(n) < rank(m)
  BY AheadFacts
<1>3. shows \subseteq M /\ IsFiniteSet(shows) /\ Cardinality(shows) \in Nat
  <2>1. shows \subseteq M
    OBVIOUS
  <2> HIDE DEF shows
  <2> QED
    BY <2>1, FS_Subset, FS_CardinalityType
<1>4. /\ \A m \in shows : m \in M /\ rank(m) \in Nat /\ rank(m) <= L /\ rank(m) < L
      /\ \A m \in M \ shows : m \in M /\ rank(m) \in Nat /\ rank(m) >= L /\ rank(m) < size
      /\ \A m \in shows, n \in M \ shows : rank(m) < rank(n)
  <2>1. \A m \in M : rank(m) \in Nat /\ rank(m) < size
    BY <1>2
  <2> HIDE DEF rank, L, size
  <2> QED
    BY <1>0, <2>1
<1>5. Cardinality(shows) <= L
  <2>1. CASE shows = {}
    BY <1>0, <2>1, FS_EmptySet
  <2>2. CASE shows # {}
    <3> DEFINE R == {rank(m) : m \in shows}
    <3>1. R \subseteq Nat /\ R # {} /\ \A x \in R : x <= L
      <4>1. \A m \in shows : rank(m) \in Nat /\ rank(m) <= L
        BY <1>4
      <4> HIDE DEF rank, shows, L
      <4> QED
        BY <2>2, <4>1
    <3>2. PICK x \in R : \A y \in R : y <= x
      <4> HIDE DEF R
      <4> QED
        BY <1>0, <3>1, MaxOfBounded
    <3>3. PICK m \in shows : x = rank(m)
      OBVIOUS
    <3>4. ASSUME NEW n \in shows
          PROVE  n \in Ahead(M, m) \cup {m}
      <4>1. rank(n) <= rank(m) /\ n \in M /\ m \in M
        BY <3>2, <3>3
      <4>2. ~Before(m, n)
        <5>1. Before(m, n) => rank(m) < rank(n)
          BY <1>2, <4>1
        <5>2. rank(m) \in Nat /\ rank(n) \in Nat
          BY <1>2, <4>1
        <5> HIDE DEF rank
        <5> QED
          BY <4>1, <5>1, <5>2
      <4>3. n = m \/ Before(n, m)
        BY <4>1, <4>2, BeforeOrders
      <4> QED
        BY <4>1, <4>3 DEF Ahead
    <3>5. shows \subseteq Ahead(M, m) \cup {m} /\ Ahead(M, m) \cup {m} \subseteq M
      BY <3>4 DEF Ahead
    <3>6. IsFiniteSet(Ahead(M, m) \cup {m})
      BY <3>5, FS_Subset
    <3>7. Cardinality(shows) <= Cardinality(Ahead(M, m) \cup {m})
      BY <3>5, <3>6, FS_Subset
    <3>8. Cardinality(Ahead(M, m) \cup {m}) = rank(m) + 1 /\ rank(m) \in Nat /\ rank(m) < L
      BY <1>2
    <3> HIDE DEF rank, shows
    <3> QED
      BY <1>0, <1>3, <3>7, <3>8
  <2> QED
    BY <2>1, <2>2
<1>6. shows # M => Cardinality(shows) = L /\ size > L
  <2> SUFFICES ASSUME shows # M
               PROVE  Cardinality(shows) = L /\ size > L
    OBVIOUS
  <2> DEFINE rest == M \ shows
             R    == {rank(m) : m \in rest}
  <2>1. R \subseteq Nat /\ R # {}
    <3>1. \A m \in rest : rank(m) \in Nat
      BY <1>2
    <3>2. rest # {}
      BY <1>3
    <3> HIDE DEF rank, rest
    <3> QED
      BY <3>1, <3>2
  <2>2. PICK x \in R : \A y \in R : x <= y
    <3> HIDE DEF R
    <3> QED
      BY <2>1, LeastOf
  <2>3. PICK f \in rest : x = rank(f)
    OBVIOUS
  <2>4. f \in M /\ f \notin shows /\ rank(f) \in Nat /\ rank(f) >= L /\ rank(f) < size
    <3>1. f \in M \ shows
      OBVIOUS
    <3> HIDE DEF rank, shows, size, L
    <3> QED
      BY <1>4, <3>1
  <2>5. ASSUME NEW n \in Ahead(M, f)
        PROVE  n \in shows
    <3>1. n \in M /\ rank(n) < rank(f) /\ rank(n) \in Nat
      BY <1>2, <2>4 DEF Ahead
    <3>2. rank(n) \notin R
      <4> HIDE DEF rank, R
      <4> QED
        BY <2>2, <2>3, <2>4, <3>1
    <3> QED
      BY <3>1, <3>2
  <2>6. rank(f) <= Cardinality(shows)
    BY <1>3, <2>5, FS_Subset
  <2> HIDE DEF rank, shows, size
  <2> QED
    BY <1>0, <1>3, <1>5, <2>4, <2>6
<1>7. ASSUME NEW m \in shows, NEW n \in M \ shows
      PROVE  m.time >= n.time
  <2>1. rank(m) < rank(n) /\ rank(m) \in Nat /\ rank(n) \in Nat /\ m \in M /\ n \in M
    <3> HIDE DEF rank, shows, size, L
    <3> QED
      BY <1>4
  <2>2. ~Before(n, m) /\ m # n
    <3>1. Before(n, m) => rank(n) < rank(m)
      BY <1>2, <2>1
    <3> HIDE DEF rank
    <3> QED
      BY <2>1, <3>1
  <2>3. m.time \in Int /\ n.time \in Int
    BY <2>1 DEF MatchType
  <2> HIDE DEF rank, shows
  <2> QED
    BY <2>2, <2>3 DEF Before
<1>8. size > L => shows # M
  <2> HIDE DEF shows
  <2> QED
    BY <1>0, <1>5
<1> HIDE DEF shows, size
<1> QED
  BY <1>1, <1>6, <1>7, <1>8 DEF CutsAreTold

\* The matches that the searches are tried on.
LEMMA MatchesAreMatches ==
  ASSUME NEW times \in [1 .. 3 -> 1 .. 2], NEW where \in SUBSET ((1 .. 3) \X (1 .. 2))
  PROVE  Matches(times, where) \subseteq MatchType /\ IsFiniteSet(Matches(times, where))
<1> DEFINE match(w) == [file |-> w[1], line |-> w[2], time |-> times[w[1]]]
           M        == Matches(times, where)
           f        == [w \in where |-> match(w)]
<1>1. \A w \in where : w[1] \in 1 .. 3 /\ w[2] \in 1 .. 2
  OBVIOUS
<1>2. \A w \in where : match(w) \in MatchType
  BY <1>1 DEF MatchType
<1>3. M = {match(w) : w \in where}
  BY DEF Matches
<1>4. f \in Surjection(where, M)
  <2>1. f \in [where -> M]
    BY <1>3
  <2>2. \A m \in M : \E w \in where : f[w] = m
    BY <1>3
  <2> QED
    BY <2>1, <2>2 DEF Surjection
<1>5. IsFiniteSet(where)
  <2>1. IsFiniteSet(1 .. 3) /\ IsFiniteSet(1 .. 2)
    <3>1. 1 \in Int /\ 2 \in Int /\ 3 \in Int
      OBVIOUS
    <3> QED
      BY <3>1, FS_Interval
  <2>2. IsFiniteSet((1 .. 3) \X (1 .. 2))
    BY <2>1, FS_Product
  <2> QED
    BY <2>2, FS_Subset
<1>6. IsFiniteSet(M)
  <2> HIDE DEF f, M
  <2> QED
    BY <1>4, <1>5, FS_Surjection
<1> HIDE DEF match
<1>7. M \subseteq MatchType
  BY <1>2, <1>3
<1> QED
  BY <1>6, <1>7

\* Whatever the limits of the searches are and however long a file or a directory is:
\* following the footers of read shows every line once, and a search that is cut says so
\* and hides nothing newer (file-tools.ts).
THEOREM AnswersAreAlwaysComplete == InputSpec => []AnswersAreComplete
<1>1. ASSUME InputInit
      PROVE  AnswersAreComplete
  <2>1. ASSUME input.of = "read"
        PROVE  FootersTile(input.node, input.limit)
    <3>1. ReadInput
      BY <1>1, <2>1, InputKinds
    <3>2. PICK kind \in {"file", "directory"} : \E n \in 0 .. MaxLines, limit \in 1 .. MaxLines + 1 :
            /\ kind = "file" => n > 0
            /\ input = [of |-> "read", limit |-> limit,
                        node |-> [kind |-> kind, content |-> [i \in 1 .. n |-> i]]]
      BY <3>1 DEF ReadInput
    <3>3. PICK n \in 0 .. MaxLines, limit \in 1 .. MaxLines + 1 :
            /\ kind = "file" => n > 0
            /\ input = [of |-> "read", limit |-> limit,
                        node |-> [kind |-> kind, content |-> [i \in 1 .. n |-> i]]]
      BY <3>2
    <3> DEFINE content == [i \in 1 .. n |-> i]
               node    == [kind |-> kind, content |-> content]
    <3>4. n \in Nat /\ limit \in Nat \ {0}
      OBVIOUS
    <3>5. content \in Seq(Int) /\ Len(content) = n
      BY <3>4
    <3>6. input.node = node /\ input.limit = limit
      BY <3>3
    <3>7. node.content = content /\ node.kind = kind
      OBVIOUS
    <3> HIDE DEF content, node
    <3>8. FootersTile(node, limit)
      BY <3>3, <3>4, <3>5, <3>7, FootersAlwaysTile
    <3> QED
      BY <3>6, <3>8
  <2>2. ASSUME input.of = "search"
        PROVE  CutsAreTold(input.matches)
    <3>1. SearchInput
      BY <1>1, <2>2, InputKinds
    <3>2. PICK times \in [1 .. 3 -> 1 .. 2], where \in SUBSET ((1 .. 3) \X (1 .. 2)) :
            input = [of |-> "search", matches |-> Matches(times, where)]
      BY <3>1 DEF SearchInput
    <3>3. input.matches = Matches(times, where)
      BY <3>2
    <3>4. CutsAreTold(Matches(times, where))
      BY MatchesAreMatches, CutsAreAlwaysTold
    <3> QED
      BY <3>3, <3>4
  <2> QED
    BY <2>1, <2>2 DEF AnswersAreComplete
<1>2. AnswersAreComplete /\ [InputNext]_input => AnswersAreComplete'
  BY DEF AnswersAreComplete, InputNext
<1> QED
  BY <1>1, <1>2, PTL DEF InputSpec

(***************************************************************************)
(* Installing.                                                             *)
(***************************************************************************)

MarkerRecords == [version : Int, adapter : DOMAIN Lifecycle, bindings : Seq(STRING)]
IsFile(f) ==
  \/ f = Absent
  \/ f \in {[kind |-> k] : k \in {"directory", "unreadable", "invalid"}}
  \/ \E m \in {NoMarker, Malformed} \cup MarkerRecords : \E others : f = Object(m, others)

\* A marker record is no other marker, and the desired one is a record.
LEMMA DesiredFacts ==
  ASSUME NEW a \in DOMAIN Lifecycle
  PROVE  /\ Desired(a) \in MarkerRecords
         /\ Desired(a) # NoMarker /\ Desired(a) # Malformed
         /\ MarkersEqual(Desired(a), a)
<1>1. Lifecycle[a] \in Seq(STRING) /\ WiringVersion \in Int
  BY WiringAssumption
<1>2. Desired(a) \in MarkerRecords
  BY <1>1 DEF Desired, MarkerRecords
<1>3. "version" \in DOMAIN Desired(a) /\ "version" \notin DOMAIN NoMarker
      /\ "version" \notin DOMAIN Malformed
  BY DEF Desired, NoMarker, Malformed
<1>4. Desired(a) # NoMarker /\ Desired(a) # Malformed
  BY <1>3
<1>5. Desired(a).version = WiringVersion /\ Desired(a).adapter = a
      /\ Desired(a).bindings = Lifecycle[a]
  BY DEF Desired
<1> QED
  BY <1>2, <1>4, <1>5 DEF MarkersEqual

\* Markers are equal only if they are the same.
LEMMA EqualMarkers ==
  ASSUME NEW a \in DOMAIN Lifecycle, NEW m \in {NoMarker} \cup MarkerRecords, MarkersEqual(m, a)
  PROVE  m = Desired(a)
<1>1. m \in MarkerRecords /\ m.version = WiringVersion /\ m.adapter = a
      /\ Len(m.bindings) = Len(Lifecycle[a])
      /\ \A i \in DOMAIN Lifecycle[a] : m.bindings[i] = Lifecycle[a][i]
  BY DEF MarkersEqual
<1>2. Lifecycle[a] \in Seq(STRING) /\ m.bindings \in Seq(STRING)
  BY <1>1, WiringAssumption DEF MarkerRecords
<1>3. m.bindings = Lifecycle[a]
  BY <1>1, <1>2
<1>4. m = [version |-> m.version, adapter |-> m.adapter, bindings |-> m.bindings]
  BY <1>1 DEF MarkerRecords
<1> QED
  BY <1>1, <1>3, <1>4 DEF Desired

\* The three judges of a file agree.
JudgesAgree(f, a) ==
  /\ Plan(f, a) = "noop" <=> Verify(f, a) = {}
  /\ Doctor(f, a) = "ok" <=> Verify(f, a) = {}
  /\ Doctor(f, a) = "not-installed" <=> Plan(f, a) \in {"create-config", "add-wiring"}

LEMMA FileKinds ==
  ASSUME NEW f, IsFile(f)
  PROVE  \/ f = Absent /\ f.kind = "absent"
         \/ f.kind \in {"directory", "unreadable", "invalid"} /\ f # Absent
         \/ /\ f.kind = "object" /\ f # Absent
            /\ Existing(f) \in {NoMarker} \cup MarkerRecords
<1>1. CASE f = Absent
  BY <1>1 DEF Absent
<1>2. CASE f \in {[kind |-> k] : k \in {"directory", "unreadable", "invalid"}}
  BY <1>2 DEF Absent
<1>3. CASE \E m \in {NoMarker, Malformed} \cup MarkerRecords : \E others : f = Object(m, others)
  <2>0. PICK m \in {NoMarker, Malformed} \cup MarkerRecords : \E others : f = Object(m, others)
    BY <1>3
  <2>1. PICK others : f = Object(m, others)
    BY <2>0
  <2> HIDE DEF MarkerRecords
  <2>2. f.kind = "object" /\ f.marker = m /\ f.others = others
    BY <2>1 DEF Object
  <2>3. f # Absent
    BY <2>2 DEF Absent
  <2>4. Existing(f) \in {NoMarker} \cup MarkerRecords
    BY <2>2 DEF Existing
  <2> QED
    BY <2>2, <2>3, <2>4
<1> QED
  BY <1>1, <1>2, <1>3 DEF IsFile

LEMMA Judges ==
  ASSUME NEW a \in DOMAIN Lifecycle, NEW f, IsFile(f)
  PROVE  JudgesAgree(f, a)
<1>1. CASE f = Absent /\ f.kind = "absent"
  <2>1. ~Corrupt(f)
    BY <1>1 DEF Corrupt
  <2> QED
    BY <1>1, <2>1 DEF JudgesAgree, Plan, Verify, Doctor
<1>2. CASE f.kind \in {"directory", "unreadable", "invalid"} /\ f # Absent
  BY <1>2 DEF JudgesAgree, Plan, Verify, Doctor, Corrupt
<1>3. CASE /\ f.kind = "object" /\ f # Absent
           /\ Existing(f) \in {NoMarker} \cup MarkerRecords
  <2>1. ~Corrupt(f)
    BY <1>3 DEF Corrupt
  <2>2. CASE Existing(f) = NoMarker
    <3>1. ~MarkersEqual(Existing(f), a)
      BY <2>2 DEF MarkersEqual
    <3> QED
      BY <1>3, <2>1, <2>2, <3>1 DEF JudgesAgree, Plan, Verify, Doctor
  <2>3. CASE Existing(f) # NoMarker
    <3> DEFINE m == Existing(f)
    <3>1. MarkersEqual(m, a) => m.adapter = a /\ m.version = WiringVersion
      BY DEF MarkersEqual
    <3>2. Verify(f, a) = {p \in {"adapter", "version", "bindings"} :
                            CASE p = "adapter"  -> m.adapter # a
                              [] p = "version"  -> m.version # WiringVersion
                              [] p = "bindings" -> ~MarkersEqual(m, a)}
      BY <1>3, <2>1, <2>3 DEF Verify
    <3>3. Verify(f, a) = {} <=> MarkersEqual(m, a)
      <4>1. "bindings" \in Verify(f, a) <=> ~MarkersEqual(m, a)
        BY <3>2
      <4>2. "adapter" \in Verify(f, a) <=> m.adapter # a
        BY <3>2
      <4>3. "version" \in Verify(f, a) <=> m.version # WiringVersion
        BY <3>2
      <4>4. Verify(f, a) \subseteq {"adapter", "version", "bindings"}
        BY <3>2
      <4> QED
        BY <3>1, <4>1, <4>2, <4>3, <4>4
    <3> QED
      BY <1>3, <2>1, <2>3, <3>3 DEF JudgesAgree, Plan, Doctor
  <2> QED
    BY <2>2, <2>3
<1> QED
  BY <1>1, <1>2, <1>3, FileKinds

\* For every file and every adapter.
LEMMA InstallAlwaysConverges ==
  ASSUME NEW a \in DOMAIN Lifecycle, NEW f, IsFile(f)
  PROVE  InstallConverges(f, a)
<1> DEFINE after == Apply(f, a)
<1>1. CASE Plan(f, a) = "noop"
  <2>1. after = f
    BY <1>1 DEF Apply
  <2>2. Verify(f, a) = {}
    BY <1>1, Judges DEF JudgesAgree
  <2>3. ~Corrupt(f) /\ f # Absent /\ Existing(f) # NoMarker /\ MarkersEqual(Existing(f), a)
    BY <1>1 DEF Plan, MarkersEqual
  <2>4. f.kind = "object" /\ Existing(f) \in MarkerRecords
    BY <2>3, FileKinds DEF Corrupt
  <2>5. f.marker = Existing(f)
    BY <2>3 DEF Existing
  <2>6. f.marker = Desired(a)
    BY <2>3, <2>4, <2>5, EqualMarkers
  <2> QED
    BY <2>1, <2>2, <2>6, Judges DEF InstallConverges, JudgesAgree
<1>2. CASE f.kind = "directory"
  <2>1. after = f /\ f.kind # "object"
    BY <1>2 DEF Apply
  <2> QED
    BY <1>2, <2>1, Judges DEF InstallConverges, JudgesAgree
<1>3. CASE Plan(f, a) # "noop" /\ f.kind # "directory"
  <2> DEFINE others == IF f.kind = "object" THEN f.others ELSE {}
  <2>1. after = Object(Desired(a), others)
    BY <1>3 DEF Apply
  <2>3. IsFile(after)
    BY <2>1, DesiredFacts DEF IsFile
  <2>4. after.kind = "object" /\ after.marker = Desired(a) /\ after.others = others
    BY <2>1 DEF Object
  <2>5. after # Absent /\ ~Corrupt(after)
    BY <2>4 DEF Absent, Corrupt
  <2>6. Existing(after) = Desired(a)
    BY <2>4, DesiredFacts DEF Existing
  <2>7. Plan(after, a) = "noop"
    BY <2>5, <2>6, DesiredFacts DEF Plan
  <2>8. Apply(after, a) = after
    BY <2>7 DEF Apply
  <2>9. JudgesAgree(f, a) /\ JudgesAgree(after, a)
    BY <2>3, Judges
  <2>10. Verify(after, a) = {}
    BY <2>7, <2>9 DEF JudgesAgree
  <2> HIDE DEF after
  <2> QED
    BY <2>4, <2>8, <2>9, <2>10 DEF InstallConverges, JudgesAgree, after
<1> QED
  BY <1>1, <1>2, <1>3

\* Whatever the host's config file is and whatever adapter is installed: one install makes
\* a file that can be replaced right, the second changes nothing, and no key is lost
\* (adapter.ts).
THEOREM InstallsConverge == InputSpec => []InstallIsIdempotent
<1>1. InputInit => InstallIsIdempotent
  <2> SUFFICES ASSUME InputInit, input.of = "install"
               PROVE  InstallConverges(input.file, input.adapter)
    BY DEF InstallIsIdempotent
  <2>1. InstallInput
    BY InputKinds
  <2>2. PICK file \in ConfigFiles, a \in DOMAIN Lifecycle :
          input = [of |-> "install", file |-> file, adapter |-> a]
    BY <2>1 DEF InstallInput
  <2>3. IsFile(file)
    <3>1. Markers \subseteq {NoMarker, Malformed} \cup MarkerRecords
      <4> SUFFICES ASSUME NEW m \in Markers, m \notin {NoMarker, Malformed}
                   PROVE  m \in MarkerRecords
        OBVIOUS
      <4> DEFINE all == UNION {ToSet(Lifecycle[b]) : b \in DOMAIN Lifecycle}
      <4>1. m \in [version : {WiringVersion - 1, WiringVersion}, adapter : DOMAIN Lifecycle,
                  bindings : BoundedSeq(all, 2)]
        BY DEF Markers
      <4>2. m \in [version : Int, adapter : DOMAIN Lifecycle, bindings : BoundedSeq(all, 2)]
        BY <4>1, WiringAssumption
      <4>3. all \subseteq STRING
        BY WiringAssumption DEF ToSet
      <4>4. m.bindings \in BoundedSeq(all, 2)
        BY <4>2
      <4>5. m.bindings \in Seq(STRING)
        <5> HIDE DEF all
        <5>1. PICK n \in 0 .. 2 : m.bindings \in [1 .. n -> all]
          BY <4>4 DEF BoundedSeq, SeqOf
        <5>2. n \in Nat
          OBVIOUS
        <5>3. m.bindings \in [1 .. n -> STRING]
          BY <5>1, <4>3
        <5> QED
          BY <5>2, <5>3
      <4> QED
        BY <4>2, <4>5 DEF MarkerRecords
    <3>2. CASE file \in {Absent} \cup {[kind |-> k] : k \in {"directory", "unreadable", "invalid"}}
      BY <3>2 DEF IsFile
    <3>3. CASE file \in {Object(m, others) : m \in Markers, others \in SUBSET {"theme", "model"}}
      <4>1. PICK m \in Markers, others \in SUBSET {"theme", "model"} : file = Object(m, others)
        BY <3>3
      <4>2. m \in {NoMarker, Malformed} \cup MarkerRecords
        BY <3>1
      <4> QED
        BY <4>1, <4>2 DEF IsFile
    <3> QED
      BY <3>2, <3>3 DEF ConfigFiles
  <2> QED
    BY <2>2, <2>3, InstallAlwaysConverges
<1>2. InstallIsIdempotent /\ [InputNext]_input => InstallIsIdempotent'
  BY DEF InputNext, InstallIsIdempotent
<1> QED
  BY <1>1, <1>2, PTL DEF InputSpec

(***************************************************************************)
(* Publishing a skill.                                                     *)
(***************************************************************************)

FileRecords ==
  [form : {"text", "bytes"}, size : {"zero", "some", "over"}, named : BOOLEAN, version : Int]

Contents == {Gone} \cup FileRecords

\* What readSkillDirectoryFiles makes of a file.
ReadAs(p, f) == [f EXCEPT !.form = IF p = Skill THEN "text" ELSE "bytes"]

LEMMA NotGone ==
  ASSUME NEW f \in FileRecords
  PROVE  f # Gone
BY DEF FileRecords, Gone

\* A file read back is the file but for its form.
LEMMA ReadAsFacts ==
  ASSUME NEW f \in FileRecords, NEW p
  PROVE  /\ ReadAs(p, f) \in FileRecords
         /\ ReadAs(p, f).form = IF p = Skill THEN "text" ELSE "bytes"
         /\ ReadAs(p, f).size = f.size /\ ReadAs(p, f).named = f.named
         /\ ReadAs(p, f).version = f.version
BY DEF ReadAs, FileRecords

LEMMA BytesFacts ==
  ASSUME NEW f \in FileRecords
  PROVE  /\ Bytes(f) \in FileRecords
         /\ Bytes(f).size = f.size /\ Bytes(f).named = f.named /\ Bytes(f).version = f.version
<1>1. f # Gone
  BY NotGone
<1>2. Bytes(f) = [f EXCEPT !.form = "bytes"]
  BY <1>1 DEF Bytes
<1> QED
  BY <1>2 DEF FileRecords

\* Files of the same bytes are read back alike.
LEMMA SameBytes ==
  ASSUME NEW f \in Contents, NEW g \in Contents, Bytes(f) = Bytes(g), NEW p
  PROVE  /\ f = Gone <=> g = Gone
         /\ f # Gone => ReadAs(p, f) = ReadAs(p, g)
<1>1. CASE f = Gone
  <2>1. Bytes(g) = Gone
    BY <1>1 DEF Bytes
  <2>2. g \notin FileRecords
    BY <2>1, BytesFacts, NotGone
  <2> QED
    BY <1>1, <2>2 DEF Contents
<1>2. CASE f # Gone
  <2>1. f \in FileRecords
    BY <1>2 DEF Contents
  <2>2. g # Gone
    <3>1. Bytes(g) # Gone
      BY <2>1, BytesFacts, NotGone
    <3> QED
      BY <3>1 DEF Bytes
  <2>3. g \in FileRecords
    BY <2>2 DEF Contents
  <2>4. f.size = g.size /\ f.named = g.named /\ f.version = g.version
    BY <2>1, <2>3, BytesFacts
  <2>5. ReadAs(p, f) = ReadAs(p, g)
    BY <2>1, <2>3, <2>4 DEF ReadAs, FileRecords
  <2> QED
    BY <1>2, <2>2, <2>5
<1> QED
  BY <1>1, <1>2

LEMMA ReadBackAt ==
  ASSUME NEW dir \in [Paths -> Contents], NEW p \in Paths
  PROVE  /\ ReadBack(dir)[p] = IF dir[p] = Gone THEN Gone ELSE ReadAs(p, dir[p])
         /\ ReadBack(dir)[p] # Gone <=> dir[p] # Gone
<1>1. ReadBack(dir)[p] = IF dir[p] = Gone THEN Gone ELSE ReadAs(p, dir[p])
  BY DEF ReadBack, ReadAs
<1>2. dir[p] # Gone => dir[p] \in FileRecords
  BY DEF Contents
<1> QED
  BY <1>1, <1>2, ReadAsFacts, NotGone

\* A directory is accepted if SKILL.md is there and every file read back is.
LEMMA DirectoryAcceptedFiles ==
  ASSUME NEW dir \in [Paths -> Contents]
  PROVE  DirectoryAccepted(dir) <=>
           /\ dir[Skill] # Gone
           /\ \A p \in Paths : dir[p] # Gone => FileAccepted(p, ReadAs(p, dir[p]))
<1>1. Skill \in Paths
  BY DEF Paths
<1>2. FilesOf(ReadBack(dir)) = {p \in Paths : dir[p] # Gone}
  BY ReadBackAt DEF FilesOf
<1>3. \A p \in Paths : dir[p] # Gone => ReadBack(dir)[p] = ReadAs(p, dir[p])
  BY ReadBackAt
<1> QED
  BY <1>1, <1>2, <1>3, ReadBackAt DEF DirectoryAccepted, PackageAccepted

\* A file that was accepted is accepted when it is read back.
LEMMA AcceptedAgain ==
  ASSUME NEW p \in Paths, NEW f \in FileRecords, FileAccepted(p, f)
  PROVE  FileAccepted(p, ReadAs(p, f))
BY ReadAsFacts DEF FileAccepted

\* For every root and package, and every change of the root before the check and after it.
LEMMA AlwaysPublishedOrRefused ==
  ASSUME NEW own \in [Paths -> Contents], NEW package \in [Paths -> Contents],
         NEW dir \in [Paths -> Contents], NEW other, NEW that,
         NEW meanwhile, meanwhile.own \in [Paths -> Contents],
         meanwhile.copied \subseteq FilesOf(package)
  PROVE  PackageIsPublished([own |-> own, other |-> other], package,
                            [own |-> dir, other |-> that], meanwhile)
<1> DEFINE root   == [own |-> own, other |-> other]
           now    == [own |-> dir, other |-> that]
           cp     == Checkpoint(root, package)
           result == Finalize(cp, now, meanwhile)
           after  == Published(cp, meanwhile)
           diff   == Differs(root, after)
<1>1. cp.staged = package /\ cp.before = root
  BY DEF Checkpoint
<1>2. root.own = own /\ root.other = other /\ now.own = dir /\ now.other = that
  OBVIOUS
<1>3. /\ after = [own |-> after.own, other |-> meanwhile.other]
      /\ after.other = meanwhile.other
      /\ after.own = [p \in Paths |-> IF p \in meanwhile.copied \ meanwhile.after THEN package[p]
                                      ELSE meanwhile.own[p]]
  BY <1>1 DEF Published
<1>4. after.own \in [Paths -> Contents]
  BY <1>3
<1> SUFFICES ASSUME PackageAccepted(package)
             PROVE  /\ Differs(root, now) # {} => ~result.ok /\ result.root = now
                    /\ result.ok =>
                         /\ \A p \in FilesOf(package) \ meanwhile.after :
                              result.root.own[p] = package[p]
                         /\ FilesOf(own) \subseteq FilesOf(result.root.own)
                         /\ Bytes(result.root.other) = Bytes(other)
                         /\ \A p \in Paths : Bytes(result.root.own[p]) # Bytes(own[p])
                                               <=> p \in result.changed
                         /\ meanwhile.own = dir /\ meanwhile.after = {} =>
                              /\ DirectoryAccepted(own) \/ FilesOf(own) = {} =>
                                   DirectoryAccepted(result.root.own)
                              /\ result.changed \subseteq FilesOf(package)
                    /\ Differs(root, now) = {} =>
                         Rollback(cp, result.root) = [own |-> own, other |-> result.root.other]
  BY DEF PackageIsPublished
<1>5. CASE Differs(root, now) # {}
  <2>1. ~Untouched(cp.before, now)
    BY <1>1, <1>5 DEF Untouched
  <2>2. result = [ok |-> FALSE, root |-> now, changed |-> {}]
    BY <2>1 DEF Finalize
  <2>3. ~result.ok /\ result.root = now
    BY <2>2
  <2> QED
    BY <1>5, <2>3
<1>6. CASE Differs(root, now) = {}
  <2> DEFINE refused == \/ ~Copied(cp, meanwhile)
                        \/ Deleted(root, after) # {}
                        \/ "other" \in diff
  <2>1. Untouched(cp.before, now)
    BY <1>1, <1>6 DEF Untouched
  <2>2. result = IF refused THEN [ok |-> FALSE, root |-> after, changed |-> {}]
                 ELSE [ok |-> TRUE, root |-> after, changed |-> diff]
    <3>1. CASE refused
      BY <1>1, <2>1, <3>1 DEF Finalize
    <3>2. CASE ~refused
      BY <1>1, <2>1, <3>2 DEF Finalize
    <3> QED
      BY <3>1, <3>2
  <2>3. result.root = after /\ (result.ok => ~refused /\ result.changed = diff)
    BY <2>2
  <2>4. \A p \in Paths : Bytes(own[p]) = Bytes(dir[p])
    BY <1>2, <1>6 DEF Differs
  <2>5. ~refused => /\ FilesOf(package) \subseteq meanwhile.copied
                    /\ Deleted(root, after) = {} /\ "other" \notin diff
    BY <1>1 DEF Copied
  <2>6. "other" \notin diff => Bytes(after.other) = Bytes(other)
    BY <1>2 DEF Differs
  <2>7. "other" \notin diff => diff = {p \in Paths : Bytes(own[p]) # Bytes(after.own[p])}
    BY <1>2, <2>6 DEF Differs
  <2> HIDE DEF root, now, cp, result, after, diff, refused
  <2>8. Rollback(cp, after) = [own |-> own, other |-> after.other]
    <3>1. Rollback(cp, after) = [after EXCEPT !.own = own]
      BY <1>1, <1>2 DEF Rollback
    <3> QED
      BY <3>1, <1>3
  <2>9. ASSUME result.ok
        PROVE  /\ \A p \in FilesOf(package) \ meanwhile.after : after.own[p] = package[p]
               /\ FilesOf(own) \subseteq FilesOf(after.own)
               /\ Bytes(after.other) = Bytes(other)
               /\ \A p \in Paths : Bytes(after.own[p]) # Bytes(own[p]) <=> p \in diff
               /\ meanwhile.own = dir /\ meanwhile.after = {} =>
                    /\ DirectoryAccepted(own) \/ FilesOf(own) = {} => DirectoryAccepted(after.own)
                    /\ diff \subseteq FilesOf(package)
    <3>1. /\ FilesOf(package) \subseteq meanwhile.copied /\ Deleted(root, after) = {}
          /\ Bytes(after.other) = Bytes(other)
          /\ diff = {p \in Paths : Bytes(own[p]) # Bytes(after.own[p])}
      BY <2>3, <2>5, <2>6, <2>7, <2>9
    <3>2. \A p \in FilesOf(package) \ meanwhile.after : after.own[p] = package[p]
      BY <1>3, <3>1 DEF FilesOf
    <3>3. FilesOf(own) \subseteq FilesOf(after.own)
      BY <1>2, <3>1 DEF Deleted
    <3>4. ASSUME meanwhile.own = dir, meanwhile.after = {}
          PROVE  /\ DirectoryAccepted(own) \/ FilesOf(own) = {} => DirectoryAccepted(after.own)
                 /\ diff \subseteq FilesOf(package)
      <4>1. \A p \in Paths : /\ package[p] # Gone => after.own[p] = package[p]
                             /\ package[p] = Gone => after.own[p] = dir[p]
        BY <1>3, <3>1, <3>4 DEF FilesOf
      <4>2. diff \subseteq FilesOf(package)
        BY <2>4, <3>1, <4>1 DEF FilesOf
      <4>3. ASSUME DirectoryAccepted(own) \/ FilesOf(own) = {}
            PROVE  DirectoryAccepted(after.own)
        <5>1. Skill \in Paths /\ after.own[Skill] # Gone
          BY <4>1 DEF PackageAccepted, Paths
        <5>2. ASSUME NEW p \in Paths, after.own[p] # Gone
              PROVE  FileAccepted(p, ReadAs(p, after.own[p]))
          <6>1. CASE package[p] # Gone
            <7>1. FileAccepted(p, package[p]) /\ package[p] \in FileRecords
              BY <6>1 DEF PackageAccepted, FilesOf, Contents
            <7> QED
              BY <7>1, <6>1, <4>1, AcceptedAgain
          <6>2. CASE package[p] = Gone
            <7>1. after.own[p] = dir[p] /\ dir[p] # Gone
              BY <4>1, <5>2, <6>2
            <7>2. own[p] # Gone /\ ReadAs(p, own[p]) = ReadAs(p, dir[p])
              BY <7>1, <2>4, SameBytes
            <7>3. DirectoryAccepted(own)
              BY <4>3, <7>2 DEF FilesOf
            <7> QED
              BY <7>1, <7>2, <7>3, DirectoryAcceptedFiles
          <6> QED
            BY <6>1, <6>2
        <5> QED
          BY <1>4, <5>1, <5>2, DirectoryAcceptedFiles
      <4> QED
        BY <4>2, <4>3
    <3>5. \A p \in Paths : Bytes(after.own[p]) # Bytes(own[p]) <=> p \in diff
      BY <3>1
    <3> QED
      BY <3>1, <3>2, <3>3, <3>4, <3>5
  <2> QED
    BY <1>6, <2>3, <2>8, <2>9
<1> QED
  BY <1>5, <1>6

LEMMA FileIsContents ==
  ASSUME NEW form \in {"text", "bytes"}, NEW size \in {"zero", "some", "over"},
         NEW named \in BOOLEAN, NEW version \in Int
  PROVE  File(form, size, named, version) \in Contents
BY DEF File, Contents, FileRecords

LEMMA NewFilesAreContents ==
  ASSUME NEW p, NEW f \in NewFiles(p)
  PROVE  f \in Contents
BY FileIsContents DEF NewFiles, Contents

\* Whatever an agent has staged and another process changes: a publication is refused over a
\* change that came before its check; a success leaves the whole package but for what was
\* changed after its copy, loses no file and reports every difference; and a rollback gives
\* back what was there (learned-skill.ts).
THEOREM SkillsArePublishedOrRefused == InputSpec => []PublishedOrRefused
<1>1. InputInit => PublishedOrRefused
  <2> SUFFICES ASSUME InputInit, input.of = "package"
               PROVE  PackageIsPublished(input.root, input.package, input.now, input.meanwhile)
    BY DEF PublishedOrRefused
  <2> DEFINE one == File("bytes", "some", FALSE, 1)
  <2>1. PackageInput
    BY InputKinds
  <2>2. PICK package \in Directories(NewFiles), own \in Directories(OldFiles), other \in Others :
          \/ \E dir \in Changed(own) :
               PackageOver(package, own, [own |-> dir, other |-> other],
                           [own |-> dir, other |-> other, after |-> {}, copied |-> FilesOf(package)])
          \/ /\ PackageAccepted(package)
             /\ \E dir \in Changed(own), after \in {{}, Paths},
                   copied \in {{}, {Skill}, FilesOf(package)} :
                  PackageOver(package, own, [own |-> own, other |-> one],
                              [own |-> dir, other |-> other, after |-> after, copied |-> copied])
    BY <2>1 DEF PackageInput
  <2>3. Gone \in Contents
    BY DEF Contents
  <2>4. \A p \in Paths : NewFiles(p) \subseteq Contents
    BY NewFilesAreContents
  <2>5. \A p \in Paths : OldFiles(p) \subseteq Contents
    <3> SUFFICES ASSUME NEW p \in Paths, NEW x \in OldFiles(p), x # Gone
                 PROVE  x \in Contents
      BY <2>3
    <3>1. \E f \in {"text", "bytes"}, s \in {"zero", "some"}, n \in BOOLEAN, v \in 1 .. 2 :
            x = File(f, s, n, v)
      <4>1. 1 \in 1 .. 2 /\ 2 \in 1 .. 2
        OBVIOUS
      <4> QED
        BY <4>1, Zenon DEF OldFiles
    <3>2. PICK f \in {"text", "bytes"}, s \in {"zero", "some"}, n \in BOOLEAN, v \in 1 .. 2 :
            x = File(f, s, n, v)
      BY <3>1
    <3>3. s \in {"zero", "some", "over"} /\ v \in Int
      OBVIOUS
    <3> QED
      BY <3>2, <3>3, FileIsContents
  <2>6. package \in [Paths -> Contents]
    BY <2>4 DEF Directories
  <2>7. own \in [Paths -> Contents]
    BY <2>5 DEF Directories
  <2>8. \A dir \in Changed(own) : dir \in [Paths -> Contents]
    <3> DEFINE all == [Paths -> Contents]
    <3>1. File("bytes", "some", FALSE, 3) \in Contents
      BY DEF File, Contents, FileRecords
    <3>2. \A p \in Paths, f \in {Gone, File("bytes", "some", FALSE, 3)} : With(own, p, f) \in all
      BY <2>3, <2>7, <3>1 DEF With
    <3> HIDE DEF all
    <3>3. own \in all => \A dir \in Changed(own) : dir \in all
      BY <3>2 DEF Changed
    <3> QED
      BY <2>7, <3>3 DEF all
  <2> HIDE DEF one
  <2>9. PICK dir \in Changed(own), dirThen \in Changed(own), that \in {other, one},
             after \in {{}, Paths}, copied \in SUBSET FilesOf(package) :
          PackageOver(package, own, [own |-> dir, other |-> that],
                      [own |-> dirThen, other |-> other, after |-> after, copied |-> copied])
    <3>1. own \in Changed(own)
      BY DEF Changed
    <3>2. CASE \E dir \in Changed(own) :
                 PackageOver(package, own, [own |-> dir, other |-> other],
                             [own |-> dir, other |-> other, after |-> {}, copied |-> FilesOf(package)])
      BY <3>2
    <3>3. CASE /\ PackageAccepted(package)
               /\ \E dir \in Changed(own), after \in {{}, Paths},
                     copied \in {{}, {Skill}, FilesOf(package)} :
                    PackageOver(package, own, [own |-> own, other |-> one],
                                [own |-> dir, other |-> other, after |-> after, copied |-> copied])
      <4>1. PICK dir \in Changed(own), after \in {{}, Paths},
                 copied \in {{}, {Skill}, FilesOf(package)} :
              PackageOver(package, own, [own |-> own, other |-> one],
                          [own |-> dir, other |-> other, after |-> after, copied |-> copied])
        BY <3>3
      <4>2. Skill \in FilesOf(package)
        BY <3>3 DEF PackageAccepted, FilesOf, Paths
      <4>3. copied \subseteq FilesOf(package)
        BY <4>2
      <4> QED
        BY <3>1, <4>1, <4>3
    <3> QED
      BY <2>2, <3>2, <3>3
  <2> DEFINE root      == [own |-> own, other |-> one]
             now       == [own |-> dir, other |-> that]
             meanwhile == [own |-> dirThen, other |-> other, after |-> after, copied |-> copied]
  <2>10. input = [of |-> "package", package |-> package, root |-> root, now |-> now,
                  meanwhile |-> meanwhile]
    BY <2>9 DEF PackageOver, one
  <2>11. dir \in [Paths -> Contents] /\ dirThen \in [Paths -> Contents]
    BY <2>8, <2>9
  <2>12. meanwhile.own \in [Paths -> Contents] /\ meanwhile.copied \subseteq FilesOf(package)
    BY <2>9, <2>11
  <2>13. PackageIsPublished(root, package, now, meanwhile)
    <3> HIDE DEF meanwhile
    <3> QED
      BY <2>6, <2>7, <2>11, <2>12, AlwaysPublishedOrRefused
  <2>14. /\ input.root = root /\ input.package = package /\ input.now = now
         /\ input.meanwhile = meanwhile
    <3> HIDE DEF root, now, meanwhile
    <3> QED
      BY <2>10
  <2> QED
    BY <2>13, <2>14
<1>2. PublishedOrRefused /\ [InputNext]_input => PublishedOrRefused'
  BY DEF InputNext, PublishedOrRefused
<1> QED
  BY <1>1, <1>2, PTL DEF InputSpec
==============================================================================
