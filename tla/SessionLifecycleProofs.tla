------------------------ MODULE SessionLifecycleProofs ------------------------
(***************************************************************************)
(* Theorems about SessionLifecycle for any host, any number of sessions    *)
(* and messages and any window: nothing is left behind the cursor that no  *)
(* agent has seen, a session is dropped only when it is learned, a failed  *)
(* window is retried, and the trace is evidence for what was learned.      *)
(***************************************************************************)
EXTENDS SessionLifecycle, OperatorsProofs

(***************************************************************************)
(* What is appended to a trace in the order of the messages.               *)
(***************************************************************************)

USE WindowAssumption

Increasing(q) == \A i, j \in DOMAIN q : i < j => q[i] < q[j]

LEMMA InOrder ==
  ASSUME NEW q \in Seq(Nat), Increasing(q), NEW i \in DOMAIN q, NEW j \in DOMAIN q
  PROVE  /\ q[i] \in Nat /\ q[j] \in Nat /\ i \in Nat /\ j \in Nat
         /\ q[i] < q[j] => i < j
         /\ i <= j => q[i] <= q[j]
<1>1. q[i] \in Nat /\ q[j] \in Nat /\ i \in Nat /\ j \in Nat
  OBVIOUS
<1>2. i < j => q[i] < q[j]
  BY DEF Increasing
<1>3. j < i => q[j] < q[i]
  BY DEF Increasing
<1> QED
  BY <1>1, <1>2, <1>3

\* The lines of the trace that are not older than the first line to append are among the
\* lines to append, and those of them that are not newer than the trace are in the trace:
\* then what is appended is newer than the trace.
LEMMA OverlapIsLongest ==
  ASSUME NEW q \in Seq(Nat), NEW t \in Seq(Nat), Increasing(q), Increasing(t),
         \A x \in ToSet(t) : (\E y \in ToSet(q) : x <= y) => x \in ToSet(q),
         \A y \in ToSet(q) : t[1] <= y => y \in ToSet(t)
  PROVE  Overlap(q, t) < Len(t) /\ Len(q) > 0 => q[Len(q)] < t[Overlap(q, t) + 1]
<1> DEFINE n == Overlap(q, t)
<1>0. Len(q) \in Nat /\ Len(t) \in Nat /\ DOMAIN q = 1 .. Len(q) /\ DOMAIN t = 1 .. Len(t)
      /\ (\A i \in 1 .. Len(q) : q[i] \in Nat) /\ (\A i \in 1 .. Len(t) : t[i] \in Nat)
  OBVIOUS
<1>1. n \in Nat /\ n <= Len(t) /\ (\A k \in Nat \ {0} : Overlaps(q, t, k) => k <= n)
  BY OverlapFacts
<1> HIDE DEF n
<1> SUFFICES ASSUME n < Len(t), Len(q) > 0, ~(q[Len(q)] < t[n + 1]) PROVE FALSE
  BY DEF n
<1>2. t[n + 1] <= q[Len(q)] /\ n + 1 \in DOMAIN t /\ Len(q) \in DOMAIN q /\ 1 \in DOMAIN t
  BY <1>0, <1>1
<1>3. t[1] <= t[n + 1]
  BY <1>1, <1>2, InOrder
<1> DEFINE S == {i \in 1 .. Len(t) : t[i] <= q[Len(q)]}
<1>4. PICK k \in S : \A i \in S : i <= k
  <2>1. S \subseteq Nat /\ n + 1 \in S /\ \A x \in S : x <= Len(t)
    BY <1>0, <1>2
  <2> HIDE DEF S
  <2>2. Max(S) \in S /\ \A i \in S : i <= Max(S)
    BY <1>0, <2>1, MaxOfBounded
  <2> QED
    BY <2>2
<1>5. k \in DOMAIN t /\ k \in Nat /\ t[k] <= q[Len(q)] /\ n + 1 <= k
  BY <1>0, <1>2, <1>4
<1> HIDE DEF S
<1>6. \A y \in DOMAIN q : t[1] <= q[y] => \E r \in DOMAIN t : q[y] = t[r]
  BY DEF ToSet
<1>7. \A x \in DOMAIN t, y \in DOMAIN q : t[x] <= q[y] => \E p \in DOMAIN q : t[x] = q[p]
  <2> SUFFICES ASSUME NEW x \in DOMAIN t, NEW y \in DOMAIN q, t[x] <= q[y]
               PROVE  \E p \in DOMAIN q : t[x] = q[p]
    OBVIOUS
  <2>1. t[x] \in ToSet(t) /\ q[y] \in ToSet(q)
    BY DEF ToSet
  <2>2. t[x] \in ToSet(q)
    BY <2>1
  <2> QED
    BY <2>2 DEF ToSet
<1>8. t[k] = q[Len(q)]
  <2>1. t[1] <= q[Len(q)]
    BY <1>0, <1>2, <1>3
  <2>2. PICK r \in DOMAIN t : q[Len(q)] = t[r]
    BY <1>2, <1>6, <2>1
  <2>3. r \in S
    BY <1>0, <2>2 DEF S
  <2>4. r <= k
    BY <1>4, <2>3
  <2>5. t[r] <= t[k]
    BY <1>5, <2>4, InOrder
  <2> QED
    BY <1>0, <1>2, <1>5, <2>2, <2>5
<1> DEFINE Match(d) == d < Len(q) /\ t[k - d] = q[Len(q) - d]
           D == {d \in 0 .. k - 1 : ~Match(d)}
<1>9. D = {}
  <2> SUFFICES ASSUME D # {} PROVE FALSE
    OBVIOUS
  <2>1. PICK d \in D : \A e \in D : d <= e
    <3>1. D \subseteq Nat
      BY <1>5
    <3> HIDE DEF D
    <3> QED
      BY <3>1, LeastOf
  <2>2. d \in 0 .. k - 1 /\ ~Match(d) /\ d \in Nat
    BY <1>5, <2>1
  <2>3. d # 0
    BY <1>0, <1>2, <1>5, <1>8, <2>2
  <2> HIDE DEF D
  <2>4. d - 1 \in 0 .. k - 1 /\ d - 1 \notin D
    <3>1. d - 1 \in 0 .. k - 1 /\ ~(d <= d - 1)
      BY <1>5, <2>2, <2>3
    <3> QED
      BY <2>1, <3>1
  <2>5. d - 1 < Len(q) /\ t[k - (d - 1)] = q[Len(q) - (d - 1)]
    BY <2>4 DEF D
  <2> HIDE DEF Match
  <2>6. k - d \in DOMAIN t /\ k - (d - 1) \in DOMAIN t /\ k - d < k - (d - 1)
        /\ Len(q) - (d - 1) \in DOMAIN q
    <3>1. d \in Nat /\ d > 0 /\ d <= k - 1 /\ k <= Len(t)
      BY <1>0, <1>5, <2>2, <2>3
    <3>2. k - d \in 1 .. Len(t) /\ k - (d - 1) \in 1 .. Len(t) /\ k - d < k - (d - 1)
      <4>1. k \in Nat /\ Len(t) \in Nat
        BY <1>0, <1>5
      <4> QED
        BY <3>1, <4>1
    <3>3. Len(q) - (d - 1) \in 1 .. Len(q)
      BY <1>0, <2>5, <3>1
    <3> QED
      BY <1>0, <3>2, <3>3
  <2>7. t[k - d] < t[k - (d - 1)]
    BY <2>6 DEF Increasing
  <2>8. t[k - d] < q[Len(q) - (d - 1)]
    BY <2>5, <2>7
  <2>9. PICK p \in DOMAIN q : t[k - d] = q[p]
    <3>1. t[k - d] <= q[Len(q) - (d - 1)]
      BY <1>0, <2>6, <2>8
    <3> QED
      BY <1>7, <2>6, <3>1
  <2>10. p < Len(q) - (d - 1)
    BY <2>6, <2>8, <2>9, InOrder
  <2>11. p <= Len(q) - d /\ Len(q) - d \in DOMAIN q /\ d < Len(q)
         /\ Len(q) - d < Len(q) - (d - 1)
    BY <1>0, <2>2, <2>10
  <2>12. q[p] <= q[Len(q) - d] /\ q[Len(q) - d] < q[Len(q) - (d - 1)]
    <3>1. q[p] <= q[Len(q) - d]
      BY <2>11, InOrder
    <3>2. q[Len(q) - d] < q[Len(q) - (d - 1)]
      BY <2>6, <2>11 DEF Increasing
    <3> QED
      BY <3>1, <3>2
  <2>13. t[1] <= t[k - d]
    <3>1. 1 <= k - d
      BY <1>5, <2>2
    <3> QED
      BY <1>2, <2>6, <3>1, InOrder
  <2>14. PICK r \in DOMAIN t : q[Len(q) - d] = t[r]
    <3>1. t[1] <= q[Len(q) - d]
      BY <1>0, <1>2, <2>6, <2>9, <2>11, <2>12, <2>13
    <3> QED
      BY <1>6, <2>11, <3>1
  <2>15. t[r] < t[k - (d - 1)]
    BY <2>5, <2>12, <2>14
  <2>16. r < k - (d - 1)
    BY <2>6, <2>15, InOrder
  <2>17. r <= k - d
    BY <1>0, <1>5, <2>2, <2>16
  <2>18. t[r] <= t[k - d]
    BY <2>6, <2>17, InOrder
  <2>19. t[k - d] = q[Len(q) - d]
    BY <1>0, <2>6, <2>9, <2>11, <2>12, <2>14, <2>18
  <2> QED
    BY <2>2, <2>11, <2>19 DEF Match
<1>10. \A d \in 0 .. k - 1 : d < Len(q) /\ t[k - d] = q[Len(q) - d]
  BY <1>9
<1> HIDE DEF D, Match
<1>11. k <= Len(q) /\ k <= Len(t) /\ k \in Nat \ {0}
  <2>1. k - 1 \in 0 .. k - 1
    BY <1>0, <1>5
  <2>2. k - 1 < Len(q)
    BY <1>10, <2>1
  <2> QED
    BY <1>0, <1>5, <2>2
<1>12. ASSUME NEW i \in 1 .. k PROVE t[i] = q[Len(q) - k + i]
  <2>1. k - i \in 0 .. k - 1 /\ k - (k - i) = i /\ Len(q) - (k - i) = Len(q) - k + i
    BY <1>0, <1>5
  <2> QED
    BY <1>10, <2>1
<1>13. Overlaps(q, t, k)
  BY <1>11, <1>12, OverlapIs
<1> QED
  BY <1>1, <1>5, <1>11, <1>13

LEMMA AppendedNumbers ==
  ASSUME NEW q \in Seq(Nat), NEW t \in Seq(Nat)
  PROVE  LET n == Overlap(q, t)
             r == AppendTrace(q, t)
         IN  /\ r \in Seq(Nat) /\ Len(r) = Len(q) + (Len(t) - n)
             /\ \A i \in 1 .. Len(q) : r[i] = q[i]
             /\ \A i \in 1 .. Len(t) - n : r[Len(q) + i] = t[n + i]
             /\ ToSet(r) = ToSet(q) \cup ToSet(t)
<1> DEFINE n == Overlap(q, t)
           r == AppendTrace(q, t)
<1>1. /\ r \in Seq(Nat) /\ Len(r) = Len(q) + (Len(t) - n)
      /\ \A i \in 1 .. Len(q) : r[i] = q[i]
      /\ \A i \in 1 .. Len(t) - n : r[Len(q) + i] = t[n + i]
      /\ ToSet(r) = ToSet(q) \cup ToSet(t)
  BY AppendTraceFacts, ZenonT(30)
<1> HIDE DEF n, r
<1> QED
  BY <1>1 DEF n, r

LEMMA AppendInOrder ==
  ASSUME NEW q \in Seq(Nat), NEW t \in Seq(Nat), Increasing(q), Increasing(t),
         \A x \in ToSet(t) : (\E y \in ToSet(q) : x <= y) => x \in ToSet(q),
         \A y \in ToSet(q) : t[1] <= y => y \in ToSet(t)
  PROVE  Increasing(AppendTrace(q, t))
<1> DEFINE n == Overlap(q, t)
           r == AppendTrace(q, t)
<1>1. n < Len(t) /\ Len(q) > 0 => q[Len(q)] < t[n + 1]
  BY OverlapIsLongest
<1>2. n \in Nat /\ n <= Len(t)
  BY OverlapFacts
<1> HIDE DEF n, r
<1>3. r \in Seq(Nat) /\ Len(r) = Len(q) + (Len(t) - n)
      /\ (\A i \in 1 .. Len(q) : r[i] = q[i])
      /\ (\A i \in 1 .. Len(t) - n : r[Len(q) + i] = t[n + i])
  BY AppendedNumbers DEF n, r
<1>4. Len(q) \in Nat /\ Len(t) \in Nat /\ DOMAIN q = 1 .. Len(q) /\ DOMAIN t = 1 .. Len(t)
      /\ (\A i \in 1 .. Len(q) : q[i] \in Nat) /\ (\A i \in 1 .. Len(t) : t[i] \in Nat)
  OBVIOUS
<1>5. DOMAIN r = 1 .. Len(q) + (Len(t) - n)
  BY <1>3
<1>6. ASSUME NEW i \in Nat, NEW j \in Nat, 1 <= i, i < j, j <= Len(q) + (Len(t) - n)
      PROVE  r[i] < r[j]
  <2>1. CASE j <= Len(q)
    <3>1. i \in DOMAIN q /\ j \in DOMAIN q
      BY <1>4, <1>6, <2>1
    <3>2. r[i] = q[i] /\ r[j] = q[j]
      BY <1>3, <1>4, <3>1
    <3> QED
      BY <1>6, <3>1, <3>2 DEF Increasing
  <2>2. CASE i > Len(q)
    <3> DEFINE a == i - Len(q)
               b == j - Len(q)
    <3>1. a \in 1 .. Len(t) - n /\ b \in 1 .. Len(t) - n /\ Len(q) + a = i /\ Len(q) + b = j
          /\ n + a \in DOMAIN t /\ n + b \in DOMAIN t /\ n + a < n + b
      BY <1>2, <1>4, <1>5, <1>6, <2>2
    <3> HIDE DEF a, b
    <3>2. r[i] = t[n + a] /\ r[j] = t[n + b]
      BY <1>3, <3>1
    <3> QED
      BY <3>1, <3>2 DEF Increasing
  <2>3. CASE i <= Len(q) /\ j > Len(q)
    <3> DEFINE b == j - Len(q)
    <3>1. b \in 1 .. Len(t) - n /\ Len(q) + b = j /\ n + b \in DOMAIN t /\ n + 1 \in DOMAIN t
          /\ n + 1 <= n + b /\ i \in DOMAIN q /\ Len(q) \in DOMAIN q /\ i <= Len(q)
      BY <1>2, <1>4, <1>5, <1>6, <2>3
    <3> HIDE DEF b
    <3>2. r[i] = q[i] /\ r[j] = t[n + b]
      BY <1>3, <1>4, <3>1
    <3>3. q[i] <= q[Len(q)]
      BY <3>1, InOrder
    <3>4. t[n + 1] <= t[n + b]
      BY <3>1, InOrder
    <3>5. q[Len(q)] < t[n + 1]
      <4>1. n < Len(t) /\ Len(q) > 0
        <5>1. b \in Nat /\ 1 <= b /\ b <= Len(t) - n
          BY <1>2, <1>4, <3>1
        <5> QED
          BY <1>2, <1>4, <2>3, <1>6, <5>1
      <4> QED
        BY <1>1, <4>1
    <3> QED
      BY <1>4, <3>1, <3>2, <3>3, <3>4, <3>5
  <2> QED
    BY <1>2, <1>4, <1>5, <2>1, <2>2, <2>3
<1>7. \A i \in DOMAIN r : i \in Nat /\ 1 <= i /\ i <= Len(q) + (Len(t) - n)
  BY <1>2, <1>4, <1>5
<1>8. Increasing(r)
  BY <1>6, <1>7 DEF Increasing
<1> QED
  BY <1>8 DEF r

LEMMA ConcatSet ==
  ASSUME NEW T, NEW q \in Seq(T), NEW a \in Seq(T)
  PROVE  q \o a \in Seq(T) /\ ToSet(q \o a) = ToSet(q) \cup ToSet(a)
<1> DEFINE r == q \o a
<1>1. r \in Seq(T) /\ DOMAIN r = 1 .. Len(q) + Len(a) /\ Len(q) \in Nat /\ Len(a) \in Nat
      /\ (\A i \in 1 .. Len(q) : r[i] = q[i])
      /\ (\A i \in 1 .. Len(a) : r[Len(q) + i] = a[i])
  BY ConcatFacts
<1>2. DOMAIN q = 1 .. Len(q) /\ DOMAIN a = 1 .. Len(a)
  OBVIOUS
<1> HIDE DEF r
<1>3. ASSUME NEW i \in DOMAIN q PROVE q[i] \in ToSet(r)
  <2>1. i \in DOMAIN r /\ r[i] = q[i]
    BY <1>1, <1>2
  <2> QED
    BY <2>1 DEF ToSet
<1>4. ASSUME NEW i \in DOMAIN a PROVE a[i] \in ToSet(r)
  <2>1. Len(q) + i \in DOMAIN r /\ r[Len(q) + i] = a[i]
    BY <1>1, <1>2
  <2> QED
    BY <2>1 DEF ToSet
<1>5. ASSUME NEW i \in DOMAIN r PROVE r[i] \in ToSet(q) \cup ToSet(a)
  <2>1. CASE i <= Len(q)
    <3>1. i \in DOMAIN q
      BY <1>1, <1>2, <2>1
    <3> QED
      BY <1>1, <1>2, <3>1 DEF ToSet
  <2>2. CASE ~(i <= Len(q))
    <3>1. i - Len(q) \in DOMAIN a /\ Len(q) + (i - Len(q)) = i
      BY <1>1, <1>2, <2>2
    <3>2. r[i] = a[i - Len(q)]
      BY <1>1, <1>2, <3>1
    <3> QED
      BY <3>1, <3>2 DEF ToSet
  <2> QED
    BY <2>1, <2>2
<1> QED
  <2>1. r \in Seq(T) /\ ToSet(r) = ToSet(q) \cup ToSet(a)
    <3>1. ToSet(q) \cup ToSet(a) \subseteq ToSet(r)
      BY <1>3, <1>4 DEF ToSet
    <3>2. ToSet(r) \subseteq ToSet(q) \cup ToSet(a)
      BY <1>5 DEF ToSet
    <3> QED
      BY <1>1, <3>1, <3>2
  <2> QED
    BY <2>1 DEF r

\* Spans that are closed within their message leave the trace as it is.
LEMMA RedactFacts ==
  ASSUME NEW q \in Seq(Nat)
  PROVE  /\ Redact(q) \in Seq(Nat)
         /\ ToSet(Redact(q)) \subseteq ToSet(q) \cup {0}
         /\ SpansAreClosed /\ 0 \notin ToSet(q) => Redact(q) = q
<1> DEFINE spans == {p \in (DOMAIN q) \X (DOMAIN q) :
                       p[1] < p[2] /\ q[p[1]] = host.open /\ q[p[2]] = host.close}
           span == CHOOSE p \in spans : TRUE
           a == SubSeq(q, 1, span[1] - 1)
           b == SubSeq(q, span[2] + 1, Len(q))
<1>0. Len(q) \in Nat /\ DOMAIN q = 1 .. Len(q) /\ (\A i \in 1 .. Len(q) : q[i] \in Nat)
      /\ ToSet(q) = {q[i] : i \in DOMAIN q}
  BY DEF ToSet
<1>1. Redact(q) = IF spans = {} THEN q ELSE a \o <<Redacted>> \o b
  BY DEF Redact
<1>2. SpansAreClosed /\ 0 \notin ToSet(q) => spans = {}
  BY <1>0 DEF SpansAreClosed
<1>3. CASE spans = {}
  BY <1>0, <1>1, <1>3
<1>4. CASE spans # {}
  <2>1. span \in spans
    BY <1>4
  <2>2. span[1] \in 1 .. Len(q) /\ span[2] \in 1 .. Len(q)
    <3>1. spans \subseteq (DOMAIN q) \X (DOMAIN q)
      OBVIOUS
    <3> HIDE DEF spans, span
    <3>2. span \in (DOMAIN q) \X (DOMAIN q)
      BY <2>1, <3>1
    <3>3. span[1] \in DOMAIN q /\ span[2] \in DOMAIN q
      BY <3>2
    <3> QED
      BY <1>0, <3>3
  <2> DEFINE x == span[1] - 1
             y == span[2] + 1
  <2>3. x \in 0 .. Len(q) /\ x \in Nat /\ y \in 1 .. Len(q) + 1 /\ y \in Nat
    BY <1>0, <2>2
  <2>4. a = SubSeq(q, 1, x) /\ b = SubSeq(q, y, Len(q))
    OBVIOUS
  <2> HIDE DEF spans, span, x, y, a, b
  <2>5. a \in Seq(Nat) /\ Len(a) = x - 1 + 1
        /\ (\A i \in 1 .. x - 1 + 1 : a[i] = q[1 + i - 1])
    <3>1. 1 \in 1 .. Len(q) + 1 /\ 1 <= x + 1
      BY <1>0, <2>3
    <3> QED
      BY <2>3, <2>4, <3>1, SubSeqFacts
  <2>6. b \in Seq(Nat) /\ Len(b) = Len(q) - y + 1
        /\ (\A i \in 1 .. Len(q) - y + 1 : b[i] = q[y + i - 1])
    <3>1. Len(q) \in 0 .. Len(q) /\ y <= Len(q) + 1
      BY <1>0, <2>3
    <3> QED
      BY <2>3, <2>4, <3>1, SubSeqFacts
  <2>7. ToSet(a) \subseteq ToSet(q)
    <3>1. ASSUME NEW i \in DOMAIN a PROVE a[i] \in ToSet(q)
      <4>1. i \in 1 .. x - 1 + 1 /\ i \in DOMAIN q /\ 1 + i - 1 = i
        BY <1>0, <2>3, <2>5
      <4> QED
        BY <1>0, <2>5, <4>1
    <3> QED
      BY <3>1 DEF ToSet
  <2>8. ToSet(b) \subseteq ToSet(q)
    <3>0. DOMAIN b = 1 .. Len(q) - y + 1
      BY <2>6
    <3>1. ASSUME NEW i \in DOMAIN b PROVE b[i] \in ToSet(q)
      <4>1. i \in 1 .. Len(q) - y + 1 /\ y + i - 1 \in DOMAIN q
        BY <1>0, <2>3, <3>0
      <4> QED
        BY <1>0, <2>6, <4>1
    <3> QED
      BY <3>1 DEF ToSet
  <2> DEFINE z == <<Redacted>>
             c == a \o z
  <2>9. z \in Seq(Nat) /\ ToSet(z) = {0}
    BY DEF Redacted, ToSet
  <2>10. Redact(q) = c \o b
    BY <1>1, <1>4
  <2> HIDE DEF z
  <2>11. c \in Seq(Nat) /\ ToSet(c) = ToSet(a) \cup ToSet(z)
    BY <2>5, <2>9, ConcatSet
  <2> HIDE DEF c
  <2>12. c \o b \in Seq(Nat) /\ ToSet(c \o b) = ToSet(c) \cup ToSet(b)
    BY <2>6, <2>11, ConcatSet
  <2>13. ~(SpansAreClosed /\ 0 \notin ToSet(q))
    BY <1>2, <1>4 DEF spans
  <2> QED
    BY <2>7, <2>8, <2>9, <2>10, <2>11, <2>12, <2>13
<1> QED
  BY <1>3, <1>4

(***************************************************************************)
(* Types.                                                                  *)
(***************************************************************************)

USE HostsAssumption

Msg == Nat \ {0}

TaskType == [op : {"turn", "agentEnd", "sessionEnd"}, session : Sessions, msgs : Seq(Msg)]

LockingType == [phase : {"locking"}, op : {"turn", "agentEnd"}, session : Sessions]

AgentType ==
  [phase : {"agent"}, op : {"turn", "agentEnd"}, session : Sessions,
   window : Seq(Msg), traced : Seq(Msg), ref : [start : Int, end : Int]]

Types ==
  /\ host \in Hosts
  /\ live \subseteq Sessions
  /\ messages \in [Sessions -> Seq(Msg)]
  /\ cursor \in [Sessions -> Int]
  /\ \A s \in Sessions : cursor[s] >= NoCursor
  /\ trace \in [Sessions -> Seq(Nat)]
  /\ queue \in Seq(TaskType)
  /\ pass \in {Idle} \cup LockingType \cup AgentType
  /\ pass # Idle => pass.session \in live
  /\ \A s \in Sessions \ live : messages[s] = <<>>
  /\ sent \in [Sessions -> Nat]
  /\ \A s \in Sessions : sent[s] <= host.sends[s]
  /\ ended \subseteq Sessions
  /\ learned \in [Sessions -> SUBSET Nat]
  /\ skipped \in [Sessions -> SUBSET Nat]
  /\ owed \in [Sessions -> SUBSET Nat]
  /\ failures \in Nat /\ failures <= host.failures
  /\ crashes \in Nat /\ crashes <= host.crashes

LEMMA HostFields ==
  ASSUME host \in Hosts
  PROVE  /\ host.transcript \in BOOLEAN /\ host.durable \in BOOLEAN
         /\ host.reuses \in BOOLEAN /\ host.torn \in BOOLEAN
         /\ host.open \in Nat /\ host.close \in Nat /\ host.sends \in [Sessions -> Nat]
         /\ host.failures \in Nat /\ host.crashes \in Nat
<1>1. host \in [transcript : BOOLEAN, durable : BOOLEAN, reuses : BOOLEAN,
                torn : BOOLEAN, open : Nat, close : Nat,
                sends : [Sessions -> Nat], failures : Nat, crashes : Nat]
  OBVIOUS
<1> QED
  BY <1>1

LEMMA TaskFields ==
  ASSUME NEW t \in TaskType
  PROVE  t.op \in {"turn", "agentEnd", "sessionEnd"} /\ t.session \in Sessions
         /\ t.msgs \in Seq(Msg)
BY DEF TaskType

LEMMA EmptyIsSeq == <<>> \in Seq(Msg) /\ <<>> \in Seq(Nat) /\ Len(<<>>) = 0 /\ DOMAIN <<>> = {}
OBVIOUS

LEMMA NewTask ==
  ASSUME NEW s \in Sessions
  PROVE  /\ \A msgs \in Seq(Msg) :
              Turn(s, msgs) \in TaskType /\ Turn(s, msgs).op = "turn"
              /\ Turn(s, msgs).session = s /\ Turn(s, msgs).msgs = msgs
         /\ AgentEnd(s) \in TaskType /\ AgentEnd(s).op = "agentEnd"
         /\ AgentEnd(s).session = s /\ AgentEnd(s).msgs = <<>>
         /\ SessionEnd(s) \in TaskType /\ SessionEnd(s).op = "sessionEnd"
         /\ SessionEnd(s).session = s /\ SessionEnd(s).msgs = <<>>
BY EmptyIsSeq DEF Turn, AgentEnd, SessionEnd, TaskType

LEMMA PassFields ==
  ASSUME Types
  PROVE  /\ pass.phase \in {"idle", "locking", "agent"}
         /\ pass.phase = "idle" <=> pass = Idle
         /\ pass # Idle => /\ pass.op \in {"turn", "agentEnd"}
                           /\ pass.session \in Sessions /\ pass.session \in live
         /\ pass.phase = "agent" => /\ pass.window \in Seq(Msg) /\ pass.traced \in Seq(Msg)
                                    /\ pass.ref \in [start : Int, end : Int]
<1>1. pass \in {Idle} \cup LockingType \cup AgentType
  BY DEF Types
<1>2. CASE pass = Idle
  BY <1>2 DEF Idle
<1>3. CASE pass \in LockingType
  BY <1>3 DEF Idle, LockingType, Types
<1>4. CASE pass \in AgentType
  BY <1>4 DEF Idle, AgentType, Types
<1> QED
  BY <1>1, <1>2, <1>3, <1>4

LEMMA AppendFacts ==
  ASSUME NEW T, NEW q \in Seq(T), NEW x \in T
  PROVE  /\ Append(q, x) \in Seq(T) /\ Len(Append(q, x)) = Len(q) + 1
         /\ DOMAIN q = 1 .. Len(q) /\ Len(q) \in Nat
         /\ DOMAIN Append(q, x) = 1 .. Len(q) + 1
         /\ \A i \in DOMAIN q : Append(q, x)[i] = q[i]
         /\ Append(q, x)[Len(q) + 1] = x
OBVIOUS

LEMMA TailFacts ==
  ASSUME NEW T, NEW q \in Seq(T), q # <<>>
  PROVE  /\ Tail(q) \in Seq(T) /\ 1 \in DOMAIN q /\ Head(q) = q[1] /\ q[1] \in T
         /\ DOMAIN q = 1 .. Len(q) /\ Len(q) \in Nat
         /\ DOMAIN Tail(q) = 1 .. Len(q) - 1 /\ Len(Tail(q)) = Len(q) - 1
         /\ \A i \in 1 .. Len(q) - 1 : i + 1 \in DOMAIN q /\ Tail(q)[i] = q[i + 1]
OBVIOUS

\* What a turn hands over: the new messages, or all of them.
Handed(s, n) ==
  LET transcript == [i \in 1 .. sent[s] + n |-> i]
  IN  IF host.transcript THEN transcript ELSE LastN(transcript, n)

LEMMA HandedFacts ==
  ASSUME Types, NEW s \in Sessions, NEW n \in Msg
  PROVE  LET h == Handed(s, n)
         IN  /\ h \in Seq(Msg) /\ Len(h) = (IF host.transcript THEN sent[s] + n ELSE n)
             /\ \A i \in 1 .. Len(h) : h[i] = IF host.transcript THEN i ELSE sent[s] + i
<1> DEFINE k == sent[s] + n
           t == [i \in 1 .. k |-> i]
<1>1. sent[s] \in Nat /\ n \in Nat /\ n > 0 /\ k \in Nat
  BY DEF Types, Msg
<1>2. t \in Seq(Msg) /\ Len(t) = k /\ \A i \in 1 .. k : t[i] = i
  <2> HIDE DEF k
  <2> QED
    BY <1>1 DEF Msg
<1>3. n < k => LastN(t, n) \in Seq(Msg) /\ Len(LastN(t, n)) = n
               /\ \A i \in 1 .. n : LastN(t, n)[i] = t[k - n + i]
  <2> SUFFICES ASSUME n < k
               PROVE  LastN(t, n) \in Seq(Msg) /\ Len(LastN(t, n)) = n
                      /\ \A i \in 1 .. n : LastN(t, n)[i] = t[k - n + i]
    OBVIOUS
  <2> HIDE DEF t, k
  <2>1. t \in Seq(Msg)
    BY <1>2
  <2>2. LET j == IF n < Len(t) THEN n ELSE Len(t)
        IN  /\ LastN(t, n) \in Seq(Msg) /\ Len(LastN(t, n)) = j
            /\ \A i \in 1 .. j : LastN(t, n)[i] = t[Len(t) - j + i]
    BY <1>1, <2>1, LastNFacts
  <2> QED
    BY <1>2, <2>2
<1>4. ~(n < k) => LastN(t, n) \in Seq(Msg) /\ Len(LastN(t, n)) = n
                  /\ \A i \in 1 .. n : LastN(t, n)[i] = t[k - n + i]
  <2> SUFFICES ASSUME ~(n < k)
               PROVE  LastN(t, n) \in Seq(Msg) /\ Len(LastN(t, n)) = n
                      /\ \A i \in 1 .. n : LastN(t, n)[i] = t[k - n + i]
    OBVIOUS
  <2>0. k = n
    BY <1>1
  <2> HIDE DEF t, k
  <2>1. t \in Seq(Msg)
    BY <1>2
  <2>2. LET j == IF n < Len(t) THEN n ELSE Len(t)
        IN  /\ LastN(t, n) \in Seq(Msg) /\ Len(LastN(t, n)) = j
            /\ \A i \in 1 .. j : LastN(t, n)[i] = t[Len(t) - j + i]
    BY <1>1, <2>1, LastNFacts
  <2> QED
    BY <1>2, <2>0, <2>2
<1>5. \A i \in 1 .. n : k - n + i \in 1 .. k /\ k - n + i = sent[s] + i
  BY <1>1
<1>6. Handed(s, n) = IF host.transcript THEN t ELSE LastN(t, n)
  BY DEF Handed
<1> HIDE DEF t
<1>7. LastN(t, n) \in Seq(Msg) /\ Len(LastN(t, n)) = n
      /\ \A i \in 1 .. n : LastN(t, n)[i] = sent[s] + i
  BY <1>2, <1>3, <1>4, <1>5
<1>8. host.transcript \in BOOLEAN
  BY HostFields DEF Types
<1>9. CASE host.transcript
  BY <1>2, <1>6, <1>9
<1>10. CASE ~host.transcript
  BY <1>6, <1>7, <1>10
<1> QED
  BY <1>8, <1>9, <1>10

LEMMA TypesInit == Init => Types
<1> SUFFICES ASSUME Init PROVE Types
  OBVIOUS
<1>1. host \in Hosts /\ host.sends \in [Sessions -> Nat]
      /\ host.failures \in Nat /\ host.crashes \in Nat
  BY HostFields DEF Init
<1>2. <<>> \in Seq(Msg) /\ <<>> \in Seq(Nat) /\ <<>> \in Seq(TaskType)
  BY EmptyIsSeq
<1> QED
  BY <1>1, <1>2 DEF Init, Types, Idle, NoCursor

\* A task that returns leaves the queue to the next one, or to the end of its session.
LEMMA ReturnTypes ==
  ASSUME Types, pass # Idle, NEW ok, Return(ok)
  PROVE  pass' = Idle /\ queue' \in Seq(TaskType)
<1>1. pass.session \in Sessions /\ queue \in Seq(TaskType)
  BY PassFields DEF Types
<1>2. SessionEnd(pass.session) \in TaskType
  BY <1>1, NewTask
<1>3. Append(queue, SessionEnd(pass.session)) \in Seq(TaskType)
  BY <1>1, <1>2, AppendFacts
<1> QED
  BY <1>1, <1>3 DEF Return

LEMMA RedactedTypes ==
  ASSUME Types
  PROVE  /\ RedactedTraces \in [Sessions -> Seq(Nat)]
         /\ \A s \in Sessions : RedactedTraces[s] = Redact(trace[s])
<1>1. \A s \in Sessions : Redact(trace[s]) \in Seq(Nat)
  <2> SUFFICES ASSUME NEW s \in Sessions PROVE Redact(trace[s]) \in Seq(Nat)
    OBVIOUS
  <2>1. trace[s] \in Seq(Nat)
    BY DEF Types
  <2> DEFINE q == trace[s]
  <2> HIDE DEF q
  <2>2. q \in Seq(Nat)
    BY <2>1 DEF q
  <2>3. Redact(q) \in Seq(Nat)
    BY <2>2, RedactFacts
  <2> QED
    BY <2>3 DEF q
<1> QED
  BY <1>1 DEF RedactedTraces

LEMMA MsgIsNat == ASSUME NEW q \in Seq(Msg) PROVE q \in Seq(Nat) /\ ToSet(q) \subseteq Msg
BY DEF Msg, ToSet

LEMMA SelectTypes ==
  ASSUME Types, NEW s \in Sessions
  PROVE  /\ messages[s] \in Seq(Msg) /\ cursor[s] \in Int
         /\ SelectForTrace(messages[s], cursor[s]) \in Seq(Msg)
         /\ SelectForExtraction(messages[s], cursor[s]) \in Seq(Msg)
<1>1. messages[s] \in Seq(Msg) /\ cursor[s] \in Int
  BY DEF Types
<1> QED
  BY <1>1, TracedFacts, WindowFacts

LEMMA AppendedTypes ==
  ASSUME Types, NEW s \in Sessions
  PROVE  AppendTrace(RedactedTraces[s], SelectForTrace(messages[s], cursor[s])) \in Seq(Nat)
<1>1. RedactedTraces[s] \in Seq(Nat)
  BY RedactedTypes
<1>2. SelectForTrace(messages[s], cursor[s]) \in Seq(Nat)
  BY SelectTypes, MsgIsNat
<1> QED
  BY <1>1, <1>2, AppendTraceFacts

LEMMA RefType ==
  ASSUME NEW q \in Seq(Nat), NEW t \in Seq(Nat)
  PROVE  SourceRef(q, t) \in [start : Int, end : Int]
<1> DEFINE new == NewLines(q, t)
           n == Overlap(q, t)
<1>1. new \in Seq(Nat)
  BY NewLinesFacts
<1>2. n \in Nat
  BY OverlapFacts
<1>3. SourceRef(q, t) = [start |-> IF new # <<>> THEN Len(q) + 1 ELSE Len(q) - n + 1,
                         end |-> Len(q) + Len(new)]
  BY DEF SourceRef
<1> HIDE DEF new, n
<1>4. Len(q) \in Nat /\ Len(new) \in Nat
  BY <1>1
<1> QED
  BY <1>2, <1>3, <1>4

LEMMA TornTypes ==
  ASSUME Types, CrashInTraceWrite
  PROVE  trace' \in [Sessions -> Seq(Nat)]
<1> DEFINE s == pass.session
           new == SelectForTrace(messages[s], cursor[s])
           long == AppendTrace(RedactedTraces[s], new)
<1>1. pass.phase = "locking"
  BY DEF CrashInTraceWrite
<1>2. s \in Sessions
  BY <1>1, PassFields
<1>3. long \in Seq(Nat)
  BY <1>2, AppendedTypes
<1>4. PICK n \in 0 .. Len(long) : trace' = [RedactedTraces EXCEPT ![s] = SubSeq(long, 1, n)]
  BY <1>2, RedactedTypes DEF CrashInTraceWrite
<1> HIDE DEF long
<1>5. SubSeq(long, 1, n) \in Seq(Nat)
  <2>1. Len(long) \in Nat
    BY <1>3
  <2>2. 1 \in 1 .. Len(long) + 1 /\ n \in 0 .. Len(long) /\ 1 <= n + 1
    BY <2>1
  <2> QED
    BY <1>3, <2>2, SubSeqFacts
<1> QED
  BY <1>2, <1>4, <1>5, RedactedTypes

LEMMA TypesNext == Types /\ [Next]_vars => Types'
<1> SUFFICES ASSUME Types, [Next]_vars PROVE Types'
  OBVIOUS
<1>0. host \in Hosts /\ host.failures \in Nat /\ host.crashes \in Nat
      /\ host.sends \in [Sessions -> Nat]
  BY HostFields DEF Types
<1>1. ASSUME NEW s \in Sessions, HostEnd(s) PROVE Types'
  <2>1. AgentEnd(s) \in TaskType /\ queue \in Seq(TaskType)
    BY NewTask DEF Types
  <2>2. queue' \in Seq(TaskType)
    BY <1>1, <2>1, AppendFacts DEF HostEnd
  <2> QED
    BY <1>1, <2>2 DEF HostEnd, Types
<1>2. ASSUME NEW s \in Sessions, NEW n \in 1 .. MaxTurn, HostTurn(s, n) PROVE Types'
  <2>1. n \in Msg
    BY DEF Msg
  <2>2. Handed(s, n) \in Seq(Msg) /\ queue \in Seq(TaskType)
    BY <2>1, HandedFacts DEF Types
  <2>3. Turn(s, Handed(s, n)) \in TaskType
    BY <2>2, NewTask
  <2>4. queue' = Append(queue, Turn(s, Handed(s, n)))
    BY <1>2 DEF HostTurn, Handed
  <2>5. queue' \in Seq(TaskType)
    BY <2>2, <2>3, <2>4, AppendFacts
  <2>6. sent' = [sent EXCEPT ![s] = sent[s] + n] /\ sent[s] + n <= host.sends[s]
        /\ sent \in [Sessions -> Nat]
    BY <1>2 DEF HostTurn, Types
  <2>7. sent' \in [Sessions -> Nat] /\ \A r \in Sessions : sent'[r] <= host.sends[r]
    <3>1. sent[s] \in Nat /\ n \in Nat /\ host.sends \in [Sessions -> Nat]
      BY <1>0, <2>1, <2>6 DEF Msg
    <3>2. sent[s] + n \in Nat
      BY <3>1
    <3>3. sent' \in [Sessions -> Nat] /\ sent'[s] = sent[s] + n
          /\ \A r \in Sessions : r # s => sent'[r] = sent[r]
      BY <2>6, <3>2
    <3>4. \A r \in Sessions : sent[r] <= host.sends[r]
      BY DEF Types
    <3> QED
      BY <2>6, <3>3, <3>4
  <2> QED
    BY <1>2, <2>5, <2>7 DEF HostTurn, Types
<1>3. CASE StartExtraction
  <2> DEFINE t == Head(queue)
             s == t.session
  <2>1. queue \in Seq(TaskType) /\ queue # <<>> /\ t.op \in {"turn", "agentEnd"}
    BY <1>3 DEF StartExtraction, Types
  <2>2. t \in TaskType /\ Tail(queue) \in Seq(TaskType)
    BY <2>1, TailFacts
  <2>3. s \in Sessions /\ t.msgs \in Seq(Msg)
    BY <2>2, TaskFields
  <2>4. live' = live \cup {s} /\ messages' = [messages EXCEPT ![s] = messages[s] \o t.msgs]
        /\ pass' = [phase |-> "locking", op |-> t.op, session |-> s] /\ queue' = Tail(queue)
    BY <1>3, <2>3 DEF StartExtraction, Types
  <2> HIDE DEF t, s
  <2>5. messages' \in [Sessions -> Seq(Msg)]
    <3>1. messages[s] \o t.msgs \in Seq(Msg)
      BY <2>3, ConcatFacts DEF Types
    <3> QED
      BY <2>4, <3>1 DEF Types
  <2>6. pass' \in LockingType /\ pass'.session = s
    BY <2>1, <2>3, <2>4 DEF LockingType
  <2>7. \A r \in Sessions \ live' : messages'[r] = <<>>
    BY <2>4 DEF Types
  <2> QED
    BY <1>3, <2>2, <2>3, <2>4, <2>5, <2>6, <2>7 DEF StartExtraction, Types
<1>4. CASE EndSession
  <2> DEFINE s == Head(queue).session
  <2>1. queue \in Seq(TaskType) /\ queue # <<>>
    BY <1>4 DEF EndSession, Types
  <2>2. Head(queue) \in TaskType /\ Tail(queue) \in Seq(TaskType)
    BY <2>1, TailFacts
  <2>3. s \in Sessions
    BY <2>2, TaskFields
  <2>4. messages' = [messages EXCEPT ![s] = <<>>] /\ queue' = Tail(queue)
        /\ live' = live \ {s} /\ pass = Idle
    BY <1>4 DEF EndSession
  <2> HIDE DEF s
  <2>5. messages' \in [Sessions -> Seq(Msg)] /\ \A r \in Sessions \ live' : messages'[r] = <<>>
    BY <2>3, <2>4, EmptyIsSeq DEF Types
  <2> QED
    BY <1>4, <2>2, <2>3, <2>4, <2>5, ZenonT(30) DEF EndSession, Types
<1>5. ASSUME LockTimeout PROVE Types'
  <2>1. pass' = Idle /\ queue' \in Seq(TaskType)
    <3>1. pass # Idle /\ Return(FALSE)
      BY <1>5, PassFields DEF LockTimeout
    <3> QED
      BY <3>1, ReturnTypes
  <2>2. failures' \in Nat /\ failures' <= host.failures
    BY <1>0, <1>5 DEF LockTimeout, Fail, Types
  <2> QED
    BY <1>5, <2>1, <2>2 DEF LockTimeout, Types
<1>6. CASE Skip
  <2>1. pass' = Idle /\ queue' \in Seq(TaskType)
    <3>1. pass # Idle /\ Return(TRUE)
      BY <1>6, PassFields DEF Skip
    <3> QED
      BY <3>1, ReturnTypes
  <2>2. trace' \in [Sessions -> Seq(Nat)]
    BY <1>6, RedactedTypes DEF Skip
  <2> QED
    BY <1>6, <2>1, <2>2 DEF Skip, Types
<1>7. CASE BeginAgent
  <2> DEFINE s == pass.session
             window == SelectForExtraction(messages[s], cursor[s])
             traced == SelectForTrace(messages[s], cursor[s])
             ref == SourceRef(RedactedTraces[s], traced)
  <2>1. s \in Sessions /\ s \in live /\ pass.op \in {"turn", "agentEnd"}
    BY <1>7, PassFields DEF BeginAgent
  <2>2. window \in Seq(Msg) /\ traced \in Seq(Msg)
    BY <2>1, SelectTypes
  <2>3. trace' = [RedactedTraces EXCEPT ![s] = AppendTrace(RedactedTraces[s], traced)]
    BY <1>7, <2>1, RedactedTypes DEF BeginAgent
  <2>4. trace' \in [Sessions -> Seq(Nat)]
    <3>1. AppendTrace(RedactedTraces[s], traced) \in Seq(Nat)
      BY <2>1, AppendedTypes
    <3> QED
      BY <2>3, <3>1, RedactedTypes
  <2>5. ref \in [start : Int, end : Int]
    <3>1. RedactedTraces[s] \in Seq(Nat) /\ traced \in Seq(Nat)
      BY <2>1, <2>2, RedactedTypes, MsgIsNat
    <3> QED
      BY <3>1, RefType
  <2>6. pass' = [phase |-> "agent", op |-> pass.op, session |-> s,
                 window |-> window, traced |-> traced, ref |-> ref]
    BY <1>7 DEF BeginAgent
  <2> HIDE DEF s, window, traced, ref
  <2>7. pass' \in AgentType /\ pass'.session = s
    BY <2>1, <2>2, <2>5, <2>6 DEF AgentType
  <2> QED
    BY <1>7, <2>1, <2>4, <2>7 DEF BeginAgent, Types
<1>8. CASE AgentReturns
  <2> DEFINE s == pass.session
             m == messages[s]
             c == cursor[s]
  <2>1. pass # Idle /\ s \in Sessions /\ pass.window \in Seq(Msg) /\ Return(TRUE)
    BY <1>8, PassFields DEF AgentReturns
  <2>2. pass' = Idle /\ queue' \in Seq(TaskType)
    BY <2>1, ReturnTypes
  <2>3. cursor' = [cursor EXCEPT ![s] = Len(m) - 1]
        /\ learned' = [learned EXCEPT ![s] = learned[s] \cup ToSet(pass.window)]
        /\ skipped' = [skipped EXCEPT ![s] = skipped[s] \cup Skipped(m, c)]
    BY <1>8, <2>1 DEF AgentReturns, Overflow, Skipped, Types
  <2>4. m \in Seq(Msg) /\ c \in Int /\ Len(m) \in Nat
    BY <2>1 DEF Types
  <2>5. Skipped(m, c) \subseteq Nat /\ ToSet(pass.window) \subseteq Nat
    <3>1. Skipped(m, c) \subseteq Msg
      BY <2>4, SkippedSet
    <3> QED
      BY <2>1, <3>1, MsgIsNat DEF Msg
  <2> HIDE DEF s, m, c
  <2>6. cursor' \in [Sessions -> Int] /\ \A r \in Sessions : cursor'[r] >= NoCursor
    <3> DEFINE x == Len(m) - 1
    <3>1. x \in Int /\ x >= NoCursor
      BY <2>4 DEF NoCursor
    <3> HIDE DEF x
    <3>2. cursor' = [cursor EXCEPT ![s] = x] /\ cursor \in [Sessions -> Int]
          /\ \A r \in Sessions : cursor[r] >= NoCursor
      BY <2>3 DEF x, Types
    <3> QED
      BY <3>1, <3>2
  <2>7. learned' \in [Sessions -> SUBSET Nat] /\ skipped' \in [Sessions -> SUBSET Nat]
    BY <2>1, <2>3, <2>5 DEF Types
  <2> QED
    BY <1>8, <2>2, <2>6, <2>7 DEF AgentReturns, Types
<1>9. CASE AgentThrows
  <2> DEFINE s == pass.session
  <2>1. pass # Idle /\ s \in Sessions /\ pass.traced \in Seq(Msg) /\ Return(FALSE)
    BY <1>9, PassFields DEF AgentThrows
  <2>2. pass' = Idle /\ queue' \in Seq(TaskType)
    BY <2>1, ReturnTypes
  <2>3. owed' = [owed EXCEPT ![s] = owed[s] \cup ToSet(pass.traced)]
    BY <1>9, <2>1 DEF AgentThrows, Types
  <2>4. ToSet(pass.traced) \subseteq Nat
    BY <2>1, MsgIsNat DEF Msg
  <2> HIDE DEF s
  <2>5. owed' \in [Sessions -> SUBSET Nat]
    BY <2>1, <2>3, <2>4 DEF Types
  <2>6. failures' \in Nat /\ failures' <= host.failures
    BY <1>0, <1>9 DEF AgentThrows, Fail, Types
  <2> QED
    BY <1>9, <2>2, <2>5, <2>6 DEF AgentThrows, Types
<1>10. ASSUME Restart, trace' \in [Sessions -> Seq(Nat)] PROVE Types'
  <2>1. cursor' \in [Sessions -> Int] /\ \A r \in Sessions : cursor'[r] >= NoCursor
    BY <1>10 DEF Restart, Types, NoCursor
  <2>2. crashes' \in Nat /\ crashes' <= host.crashes
    BY <1>0, <1>10 DEF Restart, Types
  <2>3. <<>> \in Seq(Msg) /\ <<>> \in Seq(TaskType)
    OBVIOUS
  <2> QED
    BY <1>10, <2>1, <2>2, <2>3 DEF Restart, Types
<1>11. CASE Crash
  BY <1>10, <1>11 DEF Crash, Types
<1>12. CASE CrashInTraceWrite
  BY <1>10, <1>12, TornTypes DEF CrashInTraceWrite
<1>13. CASE UNCHANGED vars
  BY <1>13 DEF vars, Types
<1> QED
  BY <1>1, <1>2, <1>3, <1>4, <1>5, <1>6, <1>7, <1>8, <1>9, <1>11, <1>12, <1>13 DEF Next, Task

(***************************************************************************)
(* What the steps do to the queue and to the pass.                         *)
(***************************************************************************)

Appended(t) ==
  /\ Len(queue) \in Nat /\ DOMAIN queue = 1 .. Len(queue)
  /\ DOMAIN queue' = 1 .. Len(queue) + 1
  /\ \A i \in DOMAIN queue : queue'[i] = queue[i]
  /\ queue'[Len(queue) + 1] = t

Popped(t) ==
  /\ Len(queue) \in Nat /\ DOMAIN queue = 1 .. Len(queue)
  /\ DOMAIN queue' = 1 .. Len(queue) - 1
  /\ \A i \in 1 .. Len(queue) - 1 : i + 1 \in DOMAIN queue /\ queue'[i] = queue[i + 1]
  /\ 1 \in DOMAIN queue /\ queue[1] = t

Busy(s) == pass # Idle /\ pass.session = s

LEMMA HostEnds ==
  ASSUME Types, NEW s \in Sessions, HostEnd(s)
  PROVE  \E t \in TaskType : Appended(t) /\ t.op = "agentEnd" /\ t.session = s /\ t.msgs = <<>>
<1>1. queue \in Seq(TaskType) /\ queue' = Append(queue, AgentEnd(s))
  BY DEF Types, HostEnd
<1>2. AgentEnd(s) \in TaskType /\ AgentEnd(s).op = "agentEnd" /\ AgentEnd(s).session = s
      /\ AgentEnd(s).msgs = <<>>
  BY NewTask
<1>3. Appended(AgentEnd(s))
  BY <1>1, <1>2, AppendFacts DEF Appended
<1> QED
  BY <1>2, <1>3

LEMMA HostTurns ==
  ASSUME Types, NEW s \in Sessions, NEW n \in 1 .. MaxTurn, HostTurn(s, n)
  PROVE  /\ n \in Msg
         /\ \E t \in TaskType :
              Appended(t) /\ t.op = "turn" /\ t.session = s /\ t.msgs = Handed(s, n)
<1>0. n \in Msg
  BY DEF Msg
<1>1. queue \in Seq(TaskType) /\ queue' = Append(queue, Turn(s, Handed(s, n)))
  BY DEF Types, HostTurn, Handed
<1>2. Handed(s, n) \in Seq(Msg)
  BY <1>0, HandedFacts
<1> DEFINE t == Turn(s, Handed(s, n))
<1>3. t \in TaskType /\ t.op = "turn" /\ t.session = s /\ t.msgs = Handed(s, n)
  BY <1>2, NewTask
<1> HIDE DEF t
<1>4. Appended(t)
  BY <1>1, <1>3, AppendFacts DEF Appended, t
<1> QED
  BY <1>0, <1>3, <1>4

LEMMA Starts ==
  ASSUME Types, StartExtraction
  PROVE  \E t \in TaskType :
           /\ Popped(t) /\ t.op \in {"turn", "agentEnd"}
           /\ pass = Idle /\ pass'.phase = "locking" /\ pass' # Idle
           /\ pass'.op = t.op /\ pass'.session = t.session
           /\ messages' = [messages EXCEPT ![t.session] = messages[t.session] \o t.msgs]
<1> DEFINE t == Head(queue)
<1>1. queue \in Seq(TaskType) /\ queue # <<>> /\ t.op \in {"turn", "agentEnd"} /\ pass = Idle
  BY DEF StartExtraction, Types
<1>2. t \in TaskType /\ Popped(t)
  BY <1>1, TailFacts DEF StartExtraction, Popped
<1>3. t.session \in Sessions
  BY <1>2, TaskFields
<1>4. messages' = [messages EXCEPT ![t.session] = messages[t.session] \o t.msgs]
      /\ pass' = [phase |-> "locking", op |-> t.op, session |-> t.session]
  BY <1>3 DEF StartExtraction, Types
<1> HIDE DEF t
<1>5. pass'.phase = "locking" /\ pass'.op = t.op /\ pass'.session = t.session
  BY <1>4
<1>6. pass' # Idle
  BY <1>5 DEF Idle
<1> QED
  BY <1>1, <1>2, <1>4, <1>5, <1>6

LEMMA Ends ==
  ASSUME Types, EndSession
  PROVE  \E t \in TaskType :
           /\ Popped(t) /\ t.op = "sessionEnd" /\ pass = Idle /\ pass' = pass
           /\ messages' = [messages EXCEPT ![t.session] = <<>>]
           /\ live' = live \ {t.session}
<1> DEFINE t == Head(queue)
<1>1. queue \in Seq(TaskType) /\ queue # <<>> /\ t.op = "sessionEnd" /\ pass = Idle
  BY DEF EndSession, Types
<1>2. t \in TaskType /\ Popped(t)
  BY <1>1, TailFacts DEF EndSession, Popped
<1>4. messages' = [messages EXCEPT ![t.session] = <<>>] /\ pass' = pass
      /\ live' = live \ {t.session}
  BY DEF EndSession
<1> QED
  BY <1>1, <1>2, <1>4

\* The task of a pass returns, well or not.
Left(ok) ==
  /\ pass' = Idle
  /\ IF ok /\ pass.op = "agentEnd"
     THEN \E t \in TaskType : /\ Appended(t) /\ t.op = "sessionEnd"
                              /\ t.session = pass.session /\ t.msgs = <<>>
     ELSE queue' = queue

LEMMA Returns ==
  ASSUME Types, pass # Idle, NEW ok \in BOOLEAN, Return(ok)
  PROVE  Left(ok)
<1> DEFINE t == SessionEnd(pass.session)
<1>1. pass.session \in Sessions /\ queue \in Seq(TaskType)
  BY PassFields DEF Types
<1>2. t \in TaskType /\ t.op = "sessionEnd" /\ t.session = pass.session /\ t.msgs = <<>>
  BY <1>1, NewTask
<1>3. pass' = Idle /\ queue' = IF ok /\ pass.op = "agentEnd" THEN Append(queue, t) ELSE queue
  BY DEF Return
<1> HIDE DEF t
<1>4. CASE ok /\ pass.op = "agentEnd"
  <2>1. Appended(t)
    BY <1>1, <1>2, <1>3, <1>4, AppendFacts DEF Appended
  <2> QED
    BY <1>2, <1>3, <1>4, <2>1 DEF Left
<1>5. CASE ~(ok /\ pass.op = "agentEnd")
  BY <1>3, <1>5 DEF Left
<1> QED
  BY <1>4, <1>5

\* The steps of a pass, as far as most invariants can tell.
Tried ==
  /\ pass # Idle /\ Left(FALSE)
  /\ UNCHANGED <<host, live, messages, cursor, trace, sent, ended, learned, skipped, crashes>>
  /\ failures' = failures + 1
  /\ \A s \in Sessions : owed'[s] = owed[s]
       \/ /\ pass.phase = "agent" /\ s = pass.session
          /\ owed'[s] = owed[s] \cup ToSet(pass.traced)

LEMMA Fails ==
  ASSUME Types, LockTimeout \/ AgentThrows
  PROVE  Tried
<1>1. pass # Idle /\ Return(FALSE)
  BY PassFields DEF LockTimeout, AgentThrows
<1>2. Left(FALSE)
  BY <1>1, Returns
<1>3. failures' = failures + 1
  BY DEF LockTimeout, AgentThrows, Fail
<1>4. CASE LockTimeout
  BY <1>1, <1>2, <1>3, <1>4 DEF LockTimeout, Tried
<1>5. CASE AgentThrows
  <2>1. pass.phase = "agent" /\ owed \in [Sessions -> SUBSET Nat]
        /\ owed' = [owed EXCEPT ![pass.session] = owed[pass.session] \cup ToSet(pass.traced)]
    BY <1>5 DEF AgentThrows, Types
  <2>2. UNCHANGED <<host, live, messages, cursor, trace, sent, ended, learned, skipped, crashes>>
    BY <1>5 DEF AgentThrows
  <2> QED
    BY <1>1, <1>2, <1>3, <2>1, <2>2 DEF Tried
<1> QED
  BY <1>4, <1>5

LEMMA Skips ==
  ASSUME Types, Skip
  PROVE  /\ pass # Idle /\ pass.phase = "locking" /\ Left(TRUE)
         /\ From(messages[pass.session], cursor[pass.session]) = Len(messages[pass.session])
         /\ trace' = RedactedTraces
         /\ UNCHANGED <<host, live, messages, cursor, sent, ended, learned, skipped, owed,
                        failures, crashes>>
<1>1. pass # Idle /\ Return(TRUE) /\ pass.session \in Sessions
  BY PassFields DEF Skip
<1>2. Left(TRUE)
  BY <1>1, Returns
<1>3. messages[pass.session] \in Seq(Msg) /\ cursor[pass.session] \in Int
  BY <1>1 DEF Types
<1>4. SelectForExtraction(messages[pass.session], cursor[pass.session]) = <<>>
  BY DEF Skip
<1>5. From(messages[pass.session], cursor[pass.session]) = Len(messages[pass.session])
  BY <1>3, <1>4, WindowFacts
<1> QED
  BY <1>1, <1>2, <1>5 DEF Skip

LEMMA Begins ==
  ASSUME Types, BeginAgent
  PROVE  LET s == pass.session
             traced == SelectForTrace(messages[s], cursor[s])
         IN  /\ pass # Idle /\ pass.phase = "locking" /\ s \in Sessions
             /\ pass' # Idle /\ pass'.phase = "agent" /\ pass'.op = pass.op /\ pass'.session = s
             /\ pass'.window = SelectForExtraction(messages[s], cursor[s])
             /\ pass'.traced = traced
             /\ pass'.ref = SourceRef(RedactedTraces[s], traced)
             /\ From(messages[s], cursor[s]) < Len(messages[s])
             /\ trace' = [RedactedTraces EXCEPT ![s] = AppendTrace(RedactedTraces[s], traced)]
             /\ UNCHANGED <<host, live, messages, cursor, queue, sent, ended, learned, skipped,
                            owed, failures, crashes>>
<1> DEFINE s == pass.session
           traced == SelectForTrace(messages[s], cursor[s])
           window == SelectForExtraction(messages[s], cursor[s])
           ref == SourceRef(RedactedTraces[s], traced)
<1>1. pass # Idle /\ s \in Sessions /\ pass.phase = "locking"
  BY PassFields DEF BeginAgent
<1>2. window # <<>>
      /\ pass' = [phase |-> "agent", op |-> pass.op, session |-> s,
                  window |-> window, traced |-> traced, ref |-> ref]
  BY DEF BeginAgent
<1>3. trace' = [RedactedTraces EXCEPT ![s] = AppendTrace(RedactedTraces[s], traced)]
  BY <1>1, RedactedTypes DEF BeginAgent
<1>4. From(messages[s], cursor[s]) < Len(messages[s])
  <2>1. messages[s] \in Seq(Msg) /\ cursor[s] \in Int
    BY <1>1 DEF Types
  <2>2. From(messages[s], cursor[s]) # Len(messages[s])
    BY <1>2, <2>1, WindowFacts
  <2>3. From(messages[s], cursor[s]) \in 0 .. Len(messages[s]) /\ Len(messages[s]) \in Nat
    BY <2>1, UnprocessedFacts
  <2> QED
    BY <2>2, <2>3
<1>5. UNCHANGED <<host, live, messages, cursor, queue, sent, ended, learned, skipped,
                  owed, failures, crashes>>
  BY DEF BeginAgent
<1> HIDE DEF s, traced, window, ref
<1>6. pass'.phase = "agent" /\ pass'.op = pass.op /\ pass'.session = s
      /\ pass'.window = window /\ pass'.traced = traced /\ pass'.ref = ref
  BY <1>2
<1>7. pass' # Idle
  BY <1>6 DEF Idle
<1> QED
  BY <1>1, <1>3, <1>4, <1>5, <1>6, <1>7 DEF s, traced, window, ref

LEMMA Learns ==
  ASSUME Types, AgentReturns
  PROVE  LET s == pass.session
         IN  /\ pass # Idle /\ pass.phase = "agent" /\ s \in Sessions /\ Left(TRUE)
             /\ cursor' = [cursor EXCEPT ![s] = Len(messages[s]) - 1]
             /\ learned' = [learned EXCEPT ![s] = learned[s] \cup ToSet(pass.window)]
             /\ skipped' = [skipped EXCEPT ![s] = skipped[s] \cup Skipped(messages[s], cursor[s])]
             /\ UNCHANGED <<host, live, messages, trace, sent, ended, owed, failures, crashes>>
<1>1. pass # Idle /\ Return(TRUE) /\ pass.session \in Sessions /\ pass.phase = "agent"
  BY PassFields DEF AgentReturns
<1>2. Left(TRUE)
  BY <1>1, Returns
<1> QED
  BY <1>1, <1>2 DEF AgentReturns, Overflow, Skipped, Types

LEMMA Restarts ==
  ASSUME Types, Restart
  PROVE  /\ queue' = <<>> /\ pass' = Idle /\ crashes' = crashes + 1 /\ crashes' > 0
         /\ \A s \in Sessions : messages'[s] = <<>> /\ owed'[s] = {}
         /\ \A s \in Sessions : cursor'[s] = IF host.durable THEN cursor[s] ELSE NoCursor
         /\ UNCHANGED <<host, sent, ended, learned, skipped, failures>>
BY DEF Restart, Types

\* Every step is one of these.
LEMMA Steps ==
  ASSUME Types, [Next]_vars
  PROVE  \/ \E s \in Sessions : HostEnd(s)
         \/ \E s \in Sessions : \E n \in 1 .. MaxTurn : HostTurn(s, n)
         \/ StartExtraction \/ EndSession \/ Tried \/ Skip \/ BeginAgent \/ AgentReturns
         \/ Restart /\ (UNCHANGED trace \/ CrashInTraceWrite)
         \/ UNCHANGED vars
<1>1. LockTimeout \/ AgentThrows => Tried
  BY Fails
<1>2. Crash => Restart /\ UNCHANGED trace
  BY DEF Crash
<1>3. CrashInTraceWrite => Restart
  BY DEF CrashInTraceWrite
<1> QED
  BY <1>1, <1>2, <1>3 DEF Next, Task

(***************************************************************************)
(* The pass has been handed what is new, and the tasks of a session that   *)
(* is not taken up again come in order: turns, then the final sweep, then  *)
(* the end of the session.                                                 *)
(***************************************************************************)

PassInv ==
  pass.phase = "agent" =>
    LET s == pass.session
    IN  /\ pass.window = SelectForExtraction(messages[s], cursor[s])
        /\ pass.traced = SelectForTrace(messages[s], cursor[s])

QueueInv ==
  ~host.reuses =>
    /\ \A i, j \in DOMAIN queue :
         i < j /\ queue[i].session = queue[j].session => queue[i].op = "turn"
    /\ \A i \in DOMAIN queue : queue[i].op = "sessionEnd" => ~Busy(queue[i].session)
    /\ \A i, j \in DOMAIN queue :
         queue[i].op = "sessionEnd" /\ queue[i].session = queue[j].session => i = j
    /\ \A i \in DOMAIN queue : queue[i].op # "turn" => queue[i].session \in ended
    /\ pass # Idle /\ pass.op = "agentEnd" =>
         /\ pass.session \in ended
         /\ \A i \in DOMAIN queue : queue[i].session # pass.session

LEMMA PassInvNext == Types /\ PassInv /\ [Next]_vars => PassInv'
<1> SUFFICES ASSUME Types, PassInv, [Next]_vars PROVE PassInv'
  OBVIOUS
<1>1. CASE pass' = pass /\ messages' = messages /\ cursor' = cursor
  BY <1>1 DEF PassInv
<1>2. CASE pass'.phase # "agent"
  BY <1>2 DEF PassInv
<1>3. CASE BeginAgent
  BY <1>3, Begins DEF PassInv
<1>4. pass' = Idle => pass'.phase # "agent"
  BY DEF Idle
<1>5. ASSUME NEW s \in Sessions, NEW n \in 1 .. MaxTurn, HostEnd(s) \/ HostTurn(s, n)
      PROVE  pass' = pass /\ messages' = messages /\ cursor' = cursor
  BY <1>5 DEF HostEnd, HostTurn
<1>51. ASSUME NEW s \in Sessions, HostEnd(s)
       PROVE  pass' = pass /\ messages' = messages /\ cursor' = cursor
  BY <1>51 DEF HostEnd
<1>6. StartExtraction => pass'.phase # "agent"
  BY Starts
<1>7. EndSession => pass' = Idle
  BY Ends
<1>8. Tried \/ Skip \/ AgentReturns \/ Restart => pass' = Idle
  BY Skips, Learns, Restarts DEF Tried, Left
<1>9. UNCHANGED vars => pass' = pass /\ messages' = messages /\ cursor' = cursor
  BY DEF vars
<1> QED
  BY <1>1, <1>2, <1>3, <1>4, <1>5, <1>51, <1>6, <1>7, <1>8, <1>9, Steps

LEMMA QueueInit == Init => PassInv /\ QueueInv
BY DEF Init, PassInv, QueueInv, Idle

LEMMA QueueNext == Types /\ QueueInv /\ [Next]_vars => QueueInv'
<1> SUFFICES ASSUME Types, QueueInv, [Next]_vars, ~host'.reuses PROVE QueueInv'
  BY DEF QueueInv
<1>0. host' = host
  BY Starts, Ends, Skips, Begins, Learns, Restarts, Steps
     DEF HostEnd, HostTurn, Tried, vars, StartExtraction, EndSession
<1>1. /\ \A i, j \in DOMAIN queue :
           i < j /\ queue[i].session = queue[j].session => queue[i].op = "turn"
      /\ \A i \in DOMAIN queue : queue[i].op = "sessionEnd" => ~Busy(queue[i].session)
      /\ \A i, j \in DOMAIN queue :
           queue[i].op = "sessionEnd" /\ queue[i].session = queue[j].session => i = j
      /\ \A i \in DOMAIN queue : queue[i].op # "turn" => queue[i].session \in ended
      /\ pass # Idle /\ pass.op = "agentEnd" =>
           /\ pass.session \in ended
           /\ \A i \in DOMAIN queue : queue[i].session # pass.session
  BY <1>0 DEF QueueInv
\* A task of a session that has not ended, or the end of one whose sweep is done.
<1>2. ASSUME NEW t \in TaskType, Appended(t),
             pass' = pass /\ t.session \notin ended /\ t.op \in {"turn", "agentEnd"}
             /\ ended \subseteq ended' /\ (t.op # "turn" => t.session \in ended')
      PROVE  QueueInv'
  <2>1. /\ Len(queue) \in Nat /\ DOMAIN queue = 1 .. Len(queue)
        /\ DOMAIN queue' = 1 .. Len(queue) + 1
        /\ \A i \in DOMAIN queue : queue'[i] = queue[i]
        /\ queue'[Len(queue) + 1] = t
    BY <1>2 DEF Appended
  <2>2. \A i \in DOMAIN queue' : i \in DOMAIN queue \/ i = Len(queue) + 1
    BY <2>1
  <2>3. \A i \in DOMAIN queue : queue[i].session = t.session => queue[i].op = "turn"
    BY <1>1, <1>2
  <2>4. \A i, j \in DOMAIN queue' :
          i < j /\ queue'[i].session = queue'[j].session => queue'[i].op = "turn"
    <3> SUFFICES ASSUME NEW i \in DOMAIN queue', NEW j \in DOMAIN queue', i < j,
                        queue'[i].session = queue'[j].session
                 PROVE  queue'[i].op = "turn"
      OBVIOUS
    <3>1. i \in DOMAIN queue
      BY <2>1, <2>2
    <3> QED
      BY <1>1, <2>1, <2>2, <2>3, <3>1
  <2>5. \A i \in DOMAIN queue' : queue'[i].op = "sessionEnd" => i \in DOMAIN queue
    BY <1>2, <2>1, <2>2
  <2>6. \A i \in DOMAIN queue' : queue'[i].op = "sessionEnd" =>
          ~(pass' # Idle /\ pass'.session = queue'[i].session)
    BY <1>1, <1>2, <2>1, <2>5 DEF Busy
  <2>7. \A i, j \in DOMAIN queue' :
          queue'[i].op = "sessionEnd" /\ queue'[i].session = queue'[j].session => i = j
    BY <1>1, <2>1, <2>2, <2>3, <2>5
  <2>8. \A i \in DOMAIN queue' : queue'[i].op # "turn" => queue'[i].session \in ended'
    BY <1>1, <1>2, <2>1, <2>2
  <2>9. pass' # Idle /\ pass'.op = "agentEnd" =>
          /\ pass'.session \in ended'
          /\ \A i \in DOMAIN queue' : queue'[i].session # pass'.session
    BY <1>1, <1>2, <2>1, <2>2
  <2> QED
    BY <2>4, <2>6, <2>7, <2>8, <2>9 DEF QueueInv, Busy
<1>3. ASSUME NEW t \in TaskType, Popped(t), ended' = ended, pass = Idle,
             pass' # Idle => pass'.op = t.op /\ pass'.session = t.session
                             /\ t.op \in {"turn", "agentEnd"}
      PROVE  QueueInv'
  <2>1. /\ Len(queue) \in Nat /\ DOMAIN queue = 1 .. Len(queue)
        /\ DOMAIN queue' = 1 .. Len(queue) - 1
        /\ \A i \in 1 .. Len(queue) - 1 : i + 1 \in DOMAIN queue /\ queue'[i] = queue[i + 1]
        /\ 1 \in DOMAIN queue /\ queue[1] = t
    BY <1>3 DEF Popped
  <2>2. \A i \in DOMAIN queue' : /\ i + 1 \in DOMAIN queue /\ queue'[i] = queue[i + 1]
                                 /\ 1 < i + 1 /\ i \in Nat
    BY <2>1
  <2>3. \A i \in DOMAIN queue' : queue'[i].session = t.session => t.op = "turn"
    BY <1>1, <2>1, <2>2
  <2>4. \A i, j \in DOMAIN queue' :
          i < j /\ queue'[i].session = queue'[j].session => queue'[i].op = "turn"
    <3>1. \A i, j \in DOMAIN queue' : i < j => i + 1 < j + 1
      BY <2>2
    <3> QED
      BY <1>1, <2>2, <3>1
  <2>5. \A i, j \in DOMAIN queue' :
          queue'[i].op = "sessionEnd" /\ queue'[i].session = queue'[j].session => i = j
    <3>1. \A i, j \in DOMAIN queue' : i + 1 = j + 1 => i = j
      BY <2>2
    <3> QED
      BY <1>1, <2>2, <3>1
  <2>6. \A i \in DOMAIN queue' : queue'[i].op = "sessionEnd" =>
          ~(pass' # Idle /\ pass'.session = queue'[i].session)
    <3> SUFFICES ASSUME NEW i \in DOMAIN queue', queue'[i].op = "sessionEnd",
                        pass' # Idle, pass'.session = queue'[i].session
                 PROVE  FALSE
      OBVIOUS
    <3>1. queue[i + 1].op = "sessionEnd" /\ queue[i + 1].session = queue[1].session
      BY <1>3, <2>1, <2>2
    <3>2. i + 1 = 1
      BY <1>1, <2>1, <2>2, <3>1
    <3> QED
      BY <2>2, <3>2
  <2>7. \A i \in DOMAIN queue' : queue'[i].op # "turn" => queue'[i].session \in ended'
    BY <1>1, <1>3, <2>2
  <2>8. pass' # Idle /\ pass'.op = "agentEnd" =>
          /\ pass'.session \in ended'
          /\ \A i \in DOMAIN queue' : queue'[i].session # pass'.session
    BY <1>1, <1>3, <2>1, <2>3
  <2> QED
    BY <2>4, <2>5, <2>6, <2>7, <2>8 DEF QueueInv, Busy
<1>4. ASSUME pass # Idle, ended' = ended, NEW ok \in BOOLEAN, Left(ok) PROVE QueueInv'
  <2>1. pass' = Idle
    BY <1>4 DEF Left
  <2>2. CASE queue' = queue
    BY <1>1, <1>4, <2>1, <2>2 DEF QueueInv, Busy
  <2>3. CASE queue' # queue
    <3>1. PICK t \in TaskType : Appended(t) /\ t.op = "sessionEnd" /\ t.session = pass.session
      BY <1>4, <2>3 DEF Left
    <3>2. pass.op = "agentEnd"
      BY <1>4, <2>3 DEF Left
    <3>3. pass.session \in ended /\ \A i \in DOMAIN queue : queue[i].session # pass.session
      BY <1>1, <1>4, <3>2
    <3>4. /\ Len(queue) \in Nat /\ DOMAIN queue = 1 .. Len(queue)
          /\ DOMAIN queue' = 1 .. Len(queue) + 1
          /\ \A i \in DOMAIN queue : queue'[i] = queue[i]
          /\ queue'[Len(queue) + 1] = t
      BY <3>1 DEF Appended
    <3>5. \A i \in DOMAIN queue' : i \in DOMAIN queue \/ i = Len(queue) + 1
      BY <3>4
    <3>6. \A i, j \in DOMAIN queue' :
            i < j /\ queue'[i].session = queue'[j].session => queue'[i].op = "turn"
      <4> SUFFICES ASSUME NEW i \in DOMAIN queue', NEW j \in DOMAIN queue', i < j,
                          queue'[i].session = queue'[j].session
                   PROVE  queue'[i].op = "turn"
        OBVIOUS
      <4>1. i \in DOMAIN queue
        BY <3>4, <3>5
      <4> QED
        BY <1>1, <3>1, <3>3, <3>4, <3>5, <4>1
    <3>7. \A i, j \in DOMAIN queue' :
            queue'[i].op = "sessionEnd" /\ queue'[i].session = queue'[j].session => i = j
      BY <1>1, <3>1, <3>3, <3>4, <3>5
    <3>8. \A i \in DOMAIN queue' : queue'[i].op # "turn" => queue'[i].session \in ended'
      BY <1>1, <1>4, <3>1, <3>3, <3>4, <3>5
    <3> QED
      BY <2>1, <3>6, <3>7, <3>8 DEF QueueInv, Busy
  <2> QED
    BY <2>2, <2>3
<1>5. ASSUME NEW s \in Sessions, HostEnd(s) PROVE QueueInv'
  <2>1. PICK t \in TaskType : Appended(t) /\ t.op = "agentEnd" /\ t.session = s
    BY <1>5, HostEnds
  <2> QED
    BY <1>2, <1>5, <2>1 DEF HostEnd
<1>6. ASSUME NEW s \in Sessions, NEW n \in 1 .. MaxTurn, HostTurn(s, n) PROVE QueueInv'
  <2>1. PICK t \in TaskType : Appended(t) /\ t.op = "turn" /\ t.session = s
    BY <1>6, HostTurns
  <2>2. s \notin ended /\ ended' = ended \ {s} /\ pass' = pass
    BY <1>0, <1>6 DEF HostTurn
  <2>3. ended \subseteq ended'
    BY <2>2
  <2> QED
    BY <1>2, <2>1, <2>2, <2>3
<1>7. CASE StartExtraction
  <2>1. PICK t \in TaskType :
          /\ Popped(t) /\ t.op \in {"turn", "agentEnd"}
          /\ pass = Idle /\ pass'.op = t.op /\ pass'.session = t.session
    BY <1>7, Starts
  <2>2. ended' = ended
    BY <1>7 DEF StartExtraction
  <2> QED
    BY <1>3, <2>1, <2>2
<1>8. CASE EndSession
  <2>1. PICK t \in TaskType : Popped(t) /\ pass = Idle /\ pass' = pass
    BY <1>8, Ends
  <2>2. ended' = ended
    BY <1>8 DEF EndSession
  <2> QED
    BY <1>3, <2>1, <2>2
<1>9. Tried \/ Skip \/ AgentReturns => QueueInv'
  <2>1. Tried => pass # Idle /\ ended' = ended /\ Left(FALSE)
    BY DEF Tried
  <2>2. Skip \/ AgentReturns => pass # Idle /\ ended' = ended /\ Left(TRUE)
    BY Skips, Learns
  <2> QED
    BY <1>4, <2>1, <2>2
<1>10. CASE BeginAgent
  <2>1. pass # Idle /\ pass' # Idle /\ pass'.op = pass.op /\ pass'.session = pass.session
        /\ queue' = queue /\ ended' = ended
    BY <1>10, Begins
  <2> QED
    BY <1>1, <2>1 DEF QueueInv, Busy
<1>11. CASE Restart
  <2>1. queue' = <<>> /\ pass' = Idle
    BY <1>11, Restarts
  <2> QED
    BY <2>1 DEF QueueInv
<1>12. CASE UNCHANGED vars
  BY <1>1, <1>12 DEF QueueInv, Busy, vars
<1> QED
  BY <1>5, <1>6, <1>7, <1>8, <1>9, <1>10, <1>11, <1>12, Steps

(***************************************************************************)
(* What is behind the cursor.                                              *)
(***************************************************************************)

Done(s) == learned[s] \cup skipped[s]

\* The cursor is ahead of the messages only where the session is over.
CursorOf(s) ==
  /\ cursor[s] >= Len(messages[s]) =>
       /\ s \in ended /\ ~Busy(s)
       /\ \A i \in DOMAIN queue : queue[i].session # s
  /\ cursor[s] < Len(messages[s]) =>
       \A i \in 1 .. cursor[s] + 1 : messages[s][i] \in Done(s)
  /\ owed[s] \subseteq ToSet(messages[s]) \cup Done(s)
  /\ \A i \in DOMAIN queue :
       queue[i].session = s /\ queue[i].op = "sessionEnd" => ToSet(messages[s]) \subseteq Done(s)

CursorInv == CursorDiesWithArray => \A s \in Sessions : CursorOf(s)

\* What a pass with nothing to extract leaves is done.
LEMMA NothingNew ==
  ASSUME Types, NEW s \in Sessions, CursorOf(s),
         From(messages[s], cursor[s]) = Len(messages[s])
  PROVE  ToSet(messages[s]) \subseteq Done(s)
<1> DEFINE m == messages[s]
           c == cursor[s]
<1>1. m \in Seq(Msg) /\ c \in Int /\ Len(m) \in Nat /\ DOMAIN m = 1 .. Len(m)
  BY DEF Types
<1>2. From(m, c) = Len(m) /\ (c < Len(m) => \A i \in 1 .. c + 1 : m[i] \in Done(s))
  BY DEF CursorOf
<1> HIDE DEF m, c
<1>3. ASSUME NEW i \in DOMAIN m PROVE m[i] \in Done(s)
  <2>1. CASE FirstRun(m, c)
    BY <1>1, <1>2, <2>1 DEF From
  <2>2. CASE ~FirstRun(m, c)
    <3>1. c + 1 = Len(m) /\ c < Len(m)
      <4>1. From(m, c) = c + 1
        BY <2>2 DEF From
      <4>2. c + 1 = Len(m)
        BY <1>2, <4>1
      <4>3. c < c + 1
        BY <1>1
      <4> QED
        BY <4>2, <4>3
    <3>2. i \in 1 .. c + 1
      BY <1>1, <3>1
    <3> QED
      BY <1>2, <3>1, <3>2
  <2> QED
    BY <2>1, <2>2
<1> QED
  BY <1>3 DEF ToSet, m

\* A pass whose agent returns has shown it the new messages that it does not skip.
LEMMA AllDone ==
  ASSUME Types, NEW s \in Sessions, CursorOf(s),
         NEW w, w = SelectForExtraction(messages[s], cursor[s])
  PROVE  ToSet(messages[s]) \subseteq Done(s) \cup ToSet(w) \cup Skipped(messages[s], cursor[s])
<1> DEFINE m == messages[s]
           c == cursor[s]
           k == WindowFrom(m, c)
<1>1. m \in Seq(Msg) /\ c \in Int /\ Len(m) \in Nat /\ DOMAIN m = 1 .. Len(m)
  BY DEF Types
<1>2. c < Len(m) => \A i \in 1 .. c + 1 : m[i] \in Done(s)
  BY DEF CursorOf
<1>3. w = SelectForExtraction(m, c)
  OBVIOUS
<1> HIDE DEF m, c
<1>4. \A i \in k + 1 .. Len(m) : m[i] \in ToSet(w)
  BY <1>1, <1>3, WindowSet
<1>5. \A i \in From(m, c) + 1 .. k : m[i] \in Skipped(m, c)
  BY <1>1, SkippedSet
<1>6. k \in From(m, c) .. Len(m) /\ From(m, c) \in Nat
  BY <1>1, WindowFromFacts
<1> HIDE DEF k
<1>7. ASSUME NEW i \in 1 .. Len(m) PROVE m[i] \in Done(s) \cup ToSet(w) \cup Skipped(m, c)
  <2>1. CASE i > k
    BY <1>1, <1>4, <1>6, <2>1
  <2>2. CASE i <= k /\ i > From(m, c)
    BY <1>1, <1>5, <1>6, <2>2
  <2>3. CASE i <= From(m, c)
    <3>1. From(m, c) # 0 /\ ~FirstRun(m, c)
      BY <1>1, <1>6, <2>3 DEF From
    <3>2. i \in 1 .. c + 1 /\ c < Len(m)
      BY <1>1, <1>6, <2>3, <3>1 DEF From, FirstRun
    <3> QED
      BY <1>2, <3>2
  <2> QED
    BY <1>1, <1>6, <2>1, <2>2, <2>3
<1> QED
  BY <1>1, <1>7 DEF ToSet, m, c

LEMMA TracedAreMessages ==
  ASSUME NEW T, NEW m \in Seq(T), NEW c \in Int
  PROVE  ToSet(SelectForTrace(m, c)) \subseteq ToSet(m)
<1> DEFINE k == WindowFrom(m, c)
<1>1. ToSet(SelectForTrace(m, c)) = {m[i] : i \in k + 1 .. Len(m)}
  BY TracedSet
<1>2. k \in From(m, c) .. Len(m) /\ From(m, c) \in Nat /\ Len(m) \in Nat
  BY WindowFromFacts
<1> HIDE DEF k
<1>3. \A i \in k + 1 .. Len(m) : i \in DOMAIN m
  BY <1>2
<1> QED
  BY <1>1, <1>3 DEF ToSet

LEMMA CursorInit == Init => CursorInv
<1> SUFFICES ASSUME Init PROVE CursorInv
  OBVIOUS
<1>1. ASSUME NEW s \in Sessions PROVE CursorOf(s)
  <2>1. cursor[s] = -1 /\ messages[s] = <<>> /\ Len(messages[s]) = 0 /\ owed[s] = {} /\ queue = <<>>
    BY DEF Init, NoCursor
  <2> QED
    BY <2>1 DEF CursorOf
<1> QED
  BY <1>1 DEF CursorInv

\* The crash counter grows: what is assumed of the host after a step held before it.
LEMMA HostStays ==
  ASSUME Types, [Next]_vars
  PROVE  /\ host' = host /\ crashes' >= crashes /\ crashes \in Nat
         /\ failures' >= failures /\ failures \in Nat
         /\ CursorDiesWithArray' => CursorDiesWithArray
         /\ Untorn' => Untorn
         /\ SpansAreClosed' <=> SpansAreClosed
<1>0. crashes \in Nat /\ failures \in Nat
  BY DEF Types
<1>1. host' = host /\ crashes' >= crashes /\ failures' >= failures
  <2>1. ASSUME NEW s \in Sessions, HostEnd(s) PROVE UNCHANGED <<host, crashes, failures>>
    BY <2>1 DEF HostEnd
  <2>2. ASSUME NEW s \in Sessions, NEW n \in 1 .. MaxTurn, HostTurn(s, n)
        PROVE  UNCHANGED <<host, crashes, failures>>
    BY <2>2 DEF HostTurn
  <2>3. StartExtraction \/ EndSession \/ UNCHANGED vars => UNCHANGED <<host, crashes, failures>>
    BY DEF StartExtraction, EndSession, vars
  <2>4. Skip \/ BeginAgent \/ AgentReturns => UNCHANGED <<host, crashes, failures>>
    BY Skips, Begins, Learns
  <2>5. Tried => UNCHANGED <<host, crashes>> /\ failures' = failures + 1
    BY DEF Tried
  <2>6. Restart => UNCHANGED <<host, failures>> /\ crashes' = crashes + 1
    BY Restarts
  <2> QED
    BY <1>0, <2>1, <2>2, <2>3, <2>4, <2>5, <2>6, Steps
<1>2. (crashes' = 0 => crashes = 0) /\ (host'.durable <=> host.durable)
      /\ (host'.reuses <=> host.reuses) /\ (host'.torn <=> host.torn)
      /\ host'.open = host.open /\ host'.close = host.close
  BY <1>0, <1>1
<1> QED
  BY <1>0, <1>1, <1>2 DEF CursorDiesWithArray, Untorn, SpansAreClosed

LEMMA CursorNext == Types /\ PassInv /\ QueueInv /\ CursorInv /\ [Next]_vars => CursorInv'
<1> SUFFICES ASSUME Types, PassInv, QueueInv, CursorInv, [Next]_vars, CursorDiesWithArray',
                    NEW s \in Sessions
             PROVE  CursorOf(s)'
  BY DEF CursorInv
<1>0. CursorDiesWithArray /\ CursorOf(s)
  BY HostStays DEF CursorInv
<1>1. /\ cursor[s] >= Len(messages[s]) =>
           /\ s \in ended /\ ~(pass # Idle /\ pass.session = s)
           /\ \A i \in DOMAIN queue : queue[i].session # s
      /\ cursor[s] < Len(messages[s]) =>
           \A i \in 1 .. cursor[s] + 1 : messages[s][i] \in learned[s] \cup skipped[s]
      /\ owed[s] \subseteq ToSet(messages[s]) \cup learned[s] \cup skipped[s]
      /\ \A i \in DOMAIN queue : queue[i].session = s /\ queue[i].op = "sessionEnd" =>
           ToSet(messages[s]) \subseteq learned[s] \cup skipped[s]
  BY <1>0 DEF CursorOf, Done, Busy
<1>2. /\ ~host.reuses
      /\ \A i \in DOMAIN queue : queue[i].op = "sessionEnd" => ~Busy(queue[i].session)
      /\ \A i, j \in DOMAIN queue :
           queue[i].op = "sessionEnd" /\ queue[i].session = queue[j].session => i = j
      /\ \A i \in DOMAIN queue : queue[i].op # "turn" => queue[i].session \in ended
  BY <1>0 DEF QueueInv, CursorDiesWithArray
<1>3. messages[s] \in Seq(Msg) /\ cursor[s] \in Int /\ Len(messages[s]) \in Nat
      /\ DOMAIN messages[s] = 1 .. Len(messages[s]) /\ cursor[s] >= -1
  BY DEF Types, NoCursor
\* The host adds a task of a session that has not ended.
<1>4. ASSUME NEW t \in TaskType, Appended(t), t.session \notin ended, t.op # "sessionEnd",
             ended \subseteq ended', UNCHANGED <<messages, cursor, pass, learned, skipped, owed>>
      PROVE  CursorOf(s)'
  <2>1. /\ DOMAIN queue' = 1 .. Len(queue) + 1 /\ DOMAIN queue = 1 .. Len(queue)
        /\ Len(queue) \in Nat
        /\ \A i \in DOMAIN queue : queue'[i] = queue[i]
        /\ queue'[Len(queue) + 1] = t
    BY <1>4 DEF Appended
  <2>2. \A i \in DOMAIN queue' : i \in DOMAIN queue \/ i = Len(queue) + 1
    BY <2>1
  <2>3. cursor'[s] >= Len(messages'[s]) =>
          /\ s \in ended' /\ ~(pass' # Idle /\ pass'.session = s)
          /\ \A i \in DOMAIN queue' : queue'[i].session # s
    <3>1. cursor[s] >= Len(messages[s]) => t.session # s
      BY <1>1, <1>4
    <3> QED
      BY <1>1, <1>4, <2>1, <2>2, <3>1
  <2>4. \A i \in DOMAIN queue' : queue'[i].session = s /\ queue'[i].op = "sessionEnd" =>
          ToSet(messages'[s]) \subseteq learned'[s] \cup skipped'[s]
    BY <1>1, <1>4, <2>1, <2>2
  <2> QED
    BY <1>1, <1>4, <2>3, <2>4 DEF CursorOf, Done, Busy
<1>5. ASSUME NEW r \in Sessions, HostEnd(r) PROVE CursorOf(s)'
  <2>1. PICK t \in TaskType : Appended(t) /\ t.op = "agentEnd" /\ t.session = r
    BY <1>5, HostEnds
  <2> QED
    BY <1>4, <1>5, <2>1 DEF HostEnd
<1>6. ASSUME NEW r \in Sessions, NEW n \in 1 .. MaxTurn, HostTurn(r, n) PROVE CursorOf(s)'
  <2>1. PICK t \in TaskType : Appended(t) /\ t.op = "turn" /\ t.session = r
    BY <1>6, HostTurns
  <2>2. r \notin ended /\ ended' = ended \ {r}
        /\ UNCHANGED <<messages, cursor, pass, learned, skipped, owed>>
    BY <1>2, <1>6 DEF HostTurn
  <2>3. ended \subseteq ended'
    BY <2>2
  <2> QED
    BY <1>4, <2>1, <2>2, <2>3
<1>7. CASE StartExtraction
  <2>1. PICK t \in TaskType :
          /\ Popped(t) /\ t.op \in {"turn", "agentEnd"}
          /\ pass = Idle /\ pass' # Idle /\ pass'.session = t.session
          /\ messages' = [messages EXCEPT ![t.session] = messages[t.session] \o t.msgs]
    BY <1>7, Starts
  <2>2. UNCHANGED <<cursor, learned, skipped, owed, ended>>
    BY <1>7 DEF StartExtraction
  <2>3. t.session \in Sessions /\ t.msgs \in Seq(Msg) /\ messages \in [Sessions -> Seq(Msg)]
    BY TaskFields DEF Types
  <2>4. /\ DOMAIN queue = 1 .. Len(queue) /\ 1 \in DOMAIN queue /\ queue[1] = t
        /\ \A i \in DOMAIN queue' : i \in Nat /\ i + 1 \in DOMAIN queue /\ i + 1 # 1
                                    /\ queue'[i] = queue[i + 1]
    BY <2>1 DEF Popped
  <2>5. CASE t.session # s
    <3>1. messages'[s] = messages[s]
      BY <2>1, <2>3, <2>5
    <3> QED
      BY <1>1, <2>1, <2>2, <2>4, <2>5, <3>1 DEF CursorOf, Done, Busy
  <2>6. CASE t.session = s
    <3> DEFINE m == messages[s]
               l == messages[s] \o t.msgs
    <3>1. messages'[s] = l
      BY <2>1, <2>3, <2>6
    <3>2. m \in Seq(Msg) /\ l \in Seq(Msg) /\ Len(l) = Len(m) + Len(t.msgs)
          /\ Len(t.msgs) \in Nat /\ Len(m) \in Nat
          /\ (\A i \in 1 .. Len(m) : l[i] = m[i]) /\ ToSet(m) \subseteq ToSet(l)
      BY <1>3, <2>3, ConcatFacts, ConcatSet
    <3>3. cursor[s] < Len(m)
      BY <1>1, <1>3, <2>4, <2>6
    <3>4. \A i \in 1 .. cursor[s] + 1 : m[i] \in learned[s] \cup skipped[s]
      BY <1>1, <3>3
    <3>5. owed[s] \subseteq ToSet(m) \cup learned[s] \cup skipped[s]
      BY <1>1
    <3>6. \A i \in DOMAIN queue' : ~(queue'[i].session = s /\ queue'[i].op = "sessionEnd")
      BY <1>2, <2>4, <2>6
    <3>7. cursor[s] \in Int
      BY <1>3
    <3> HIDE DEF m, l
    <3>8. \A i \in 1 .. cursor[s] + 1 : l[i] \in learned[s] \cup skipped[s]
      BY <3>2, <3>3, <3>4, <3>7
    <3>9. cursor[s] < Len(l)
      BY <3>2, <3>3, <3>7
    <3>10. ~(cursor[s] >= Len(l))
      BY <3>2, <3>7, <3>9
    <3> QED
      BY <2>2, <3>1, <3>2, <3>5, <3>6, <3>8, <3>10 DEF CursorOf, Done
  <2> QED
    BY <2>5, <2>6
<1>8. CASE EndSession
  <2>1. PICK t \in TaskType :
          /\ Popped(t) /\ t.op = "sessionEnd" /\ pass = Idle /\ pass' = pass
          /\ messages' = [messages EXCEPT ![t.session] = <<>>]
    BY <1>8, Ends
  <2>2. UNCHANGED <<cursor, learned, skipped, owed, ended>>
    BY <1>8 DEF EndSession
  <2>3. t.session \in Sessions /\ messages \in [Sessions -> Seq(Msg)]
    BY TaskFields DEF Types
  <2>4. /\ DOMAIN queue = 1 .. Len(queue) /\ 1 \in DOMAIN queue /\ queue[1] = t
        /\ \A i \in DOMAIN queue' : i \in Nat /\ i + 1 \in DOMAIN queue /\ i + 1 # 1
                                    /\ queue'[i] = queue[i + 1]
    BY <2>1 DEF Popped
  <2>5. CASE t.session # s
    <3>1. messages'[s] = messages[s]
      BY <2>1, <2>3, <2>5
    <3> QED
      BY <1>1, <2>1, <2>2, <2>4, <2>5, <3>1 DEF CursorOf, Done, Busy
  <2>6. CASE t.session = s
    <3>1. messages'[s] = <<>> /\ Len(messages'[s]) = 0 /\ ToSet(messages'[s]) = {}
      BY <2>1, <2>3, <2>6 DEF ToSet
    <3>2. s \in ended /\ owed[s] \subseteq learned[s] \cup skipped[s]
      BY <1>1, <1>2, <2>1, <2>4, <2>6
    <3>3. \A i \in DOMAIN queue' : queue'[i].session # s
      BY <1>2, <2>1, <2>4, <2>6
    <3>4. cursor'[s] < 0 => 1 .. cursor'[s] + 1 = {}
      BY <1>3, <2>2
    <3> QED
      BY <2>1, <2>2, <3>1, <3>2, <3>3, <3>4 DEF CursorOf, Done, Busy
  <2> QED
    BY <2>5, <2>6
<1>9. CASE Tried
  <2>1. pass # Idle /\ pass' = Idle /\ queue' = queue
        /\ UNCHANGED <<messages, cursor, learned, skipped, ended>>
    BY <1>9 DEF Tried, Left
  <2>2. owed'[s] \subseteq ToSet(messages[s]) \cup learned[s] \cup skipped[s]
    <3>1. CASE owed'[s] = owed[s]
      BY <1>1, <3>1
    <3>2. CASE owed'[s] # owed[s]
      <4>1. pass.phase = "agent" /\ s = pass.session
            /\ owed'[s] = owed[s] \cup ToSet(pass.traced)
        BY <1>9, <3>2 DEF Tried
      <4>2. pass.traced = SelectForTrace(messages[s], cursor[s])
        BY <4>1 DEF PassInv
      <4>3. ToSet(pass.traced) \subseteq ToSet(messages[s])
        BY <1>3, <4>2, TracedAreMessages
      <4> QED
        BY <1>1, <4>1, <4>3
    <3> QED
      BY <3>1, <3>2
  <2> QED
    BY <1>1, <2>1, <2>2 DEF CursorOf, Done, Busy
\* A sweep that returns queues the end of its session.
<1>10. ASSUME pass # Idle, Left(TRUE), UNCHANGED <<messages, owed, ended>>,
              learned[s] \subseteq learned'[s], skipped[s] \subseteq skipped'[s],
              pass.session # s => cursor'[s] = cursor[s],
              pass.session = s => /\ cursor'[s] < Len(messages[s]) /\ cursor'[s] \in Int
                                  /\ ToSet(messages[s]) \subseteq learned'[s] \cup skipped'[s]
       PROVE  CursorOf(s)'
  <2>1. pass' = Idle
    BY <1>10 DEF Left
  <2>2. \A i \in DOMAIN queue' :
          \/ i \in DOMAIN queue /\ queue'[i] = queue[i]
          \/ queue'[i].session = pass.session
    <3>1. CASE queue' = queue
      BY <3>1
    <3>2. CASE queue' # queue
      <4>1. PICK t \in TaskType : Appended(t) /\ t.session = pass.session
        BY <1>10, <3>2 DEF Left
      <4> QED
        BY <4>1 DEF Appended
    <3> QED
      BY <3>1, <3>2
  <2>3. CASE pass.session # s
    BY <1>1, <1>10, <2>1, <2>2, <2>3 DEF CursorOf, Done, Busy
  <2>4. CASE pass.session = s
    <3>1. /\ cursor'[s] < Len(messages[s]) /\ cursor'[s] \in Int
          /\ ToSet(messages[s]) \subseteq learned'[s] \cup skipped'[s]
      BY <1>10, <2>4
    <3>2. \A i \in 1 .. cursor'[s] + 1 : messages[s][i] \in ToSet(messages[s])
      BY <1>3, <3>1 DEF ToSet
    <3>3. ~(cursor'[s] >= Len(messages[s]))
      BY <1>3, <3>1
    <3> QED
      BY <1>1, <1>10, <3>1, <3>2, <3>3 DEF CursorOf, Done
  <2> QED
    BY <2>3, <2>4
<1>11. CASE Skip
  <2>1. pass # Idle /\ Left(TRUE)
        /\ From(messages[pass.session], cursor[pass.session]) = Len(messages[pass.session])
        /\ UNCHANGED <<messages, owed, ended, cursor, learned, skipped>>
    BY <1>11, Skips
  <2>2. pass.session = s => ToSet(messages[s]) \subseteq learned[s] \cup skipped[s]
    BY <1>0, <2>1, NothingNew DEF Done
  <2>3. pass.session = s => cursor[s] < Len(messages[s])
    BY <1>1, <1>3, <2>1
  <2> QED
    BY <1>3, <1>10, <2>1, <2>2, <2>3
<1>12. CASE AgentReturns
  <2> DEFINE p == pass.session
  <2>1. /\ pass # Idle /\ pass.phase = "agent" /\ p \in Sessions /\ Left(TRUE)
        /\ cursor' = [cursor EXCEPT ![p] = Len(messages[p]) - 1]
        /\ learned' = [learned EXCEPT ![p] = learned[p] \cup ToSet(pass.window)]
        /\ skipped' = [skipped EXCEPT ![p] = skipped[p] \cup Skipped(messages[p], cursor[p])]
        /\ UNCHANGED <<messages, owed, ended>>
    BY <1>12, Learns
  <2>2. pass.window = SelectForExtraction(messages[p], cursor[p])
    BY <2>1 DEF PassInv
  <2> HIDE DEF p
  <2>3. learned \in [Sessions -> SUBSET Nat] /\ skipped \in [Sessions -> SUBSET Nat]
        /\ cursor \in [Sessions -> Int]
    BY DEF Types
  <2>4. CASE p # s
    <3>1. cursor'[s] = cursor[s] /\ learned'[s] = learned[s] /\ skipped'[s] = skipped[s]
      BY <2>1, <2>3, <2>4
    <3> QED
      BY <1>10, <2>1, <2>4, <3>1 DEF p
  <2>5. CASE p = s
    <3>1. cursor'[s] = Len(messages[s]) - 1
          /\ learned'[s] = learned[s] \cup ToSet(pass.window)
          /\ skipped'[s] = skipped[s] \cup Skipped(messages[s], cursor[s])
      BY <2>1, <2>3, <2>5
    <3>2. ToSet(messages[s]) \subseteq learned'[s] \cup skipped'[s]
      BY <1>0, <2>2, <2>5, <3>1, AllDone DEF Done
    <3>3. cursor'[s] < Len(messages[s]) /\ cursor'[s] \in Int
      BY <1>3, <3>1
    <3>4. learned[s] \subseteq learned'[s] /\ skipped[s] \subseteq skipped'[s]
      BY <3>1
    <3> QED
      BY <1>10, <2>1, <2>5, <3>2, <3>3, <3>4 DEF p
  <2> QED
    BY <2>4, <2>5
<1>13. CASE BeginAgent
  <2>1. pass # Idle /\ pass' # Idle /\ pass'.session = pass.session
        /\ UNCHANGED <<messages, cursor, queue, ended, learned, skipped, owed>>
    BY <1>13, Begins
  <2> QED
    BY <1>1, <2>1 DEF CursorOf, Done, Busy
<1>14. CASE Restart
  <2>1. queue' = <<>> /\ pass' = Idle /\ messages'[s] = <<>> /\ owed'[s] = {}
        /\ cursor'[s] = (IF host.durable THEN cursor[s] ELSE NoCursor)
        /\ crashes' = crashes + 1 /\ host' = host
    BY <1>14, Restarts
  <2>2. ~host.durable
    <3>1. crashes' # 0
      BY <2>1 DEF Types
    <3> QED
      BY <2>1, <3>1 DEF CursorDiesWithArray
  <2>3. cursor'[s] = -1 /\ Len(messages'[s]) = 0
    BY <2>1, <2>2 DEF NoCursor
  <2> QED
    BY <2>1, <2>3 DEF CursorOf
<1>15. CASE UNCHANGED vars
  BY <1>1, <1>15 DEF CursorOf, Done, Busy, vars
<1> QED
  BY <1>5, <1>6, <1>7, <1>8, <1>9, <1>11, <1>12, <1>13, <1>14, <1>15, Steps

Inv == Types /\ PassInv /\ QueueInv /\ CursorInv

\* The invariant that the theorems below rest on, in runExtractionSession and in the
\* lifecycle queue of the SDK: the pass that runs has been handed what is new to it, the
\* tasks of a session come in order, and the cursor passes over nothing unseen.
THEOREM LifecycleInvariant == Spec => []Inv
<1>1. Init => Inv
  BY TypesInit, QueueInit, CursorInit DEF Inv
<1>2. Inv /\ [Next]_vars => Inv'
  BY TypesNext, PassInvNext, QueueNext, CursorNext DEF Inv
<1> QED
  BY <1>1, <1>2, PTL DEF Spec

LEMMA SeqOfMore ==
  ASSUME NEW S, NEW T, S \subseteq T, NEW q \in Seq(S)
  PROVE  q \in Seq(T)
OBVIOUS

LEMMA TypesAreRight == Types => TypeOK
<1> SUFFICES ASSUME Types PROVE TypeOK
  OBVIOUS
<1>1. Seq(Msg) \subseteq Seq(Nat)
  BY SeqOfMore DEF Msg
<1>2. messages \in [Sessions -> Seq(Nat)]
  <2>1. messages \in [Sessions -> Seq(Msg)]
    BY DEF Types
  <2> QED
    BY <1>1, <2>1
<1> DEFINE R == [op : {"turn", "agentEnd", "sessionEnd"}, session : Sessions, msgs : Seq(Nat)]
<1>3. TaskType \subseteq R
  BY <1>1 DEF TaskType
<1>4. queue \in Seq(R)
  <2>1. queue \in Seq(TaskType)
    BY DEF Types
  <2> HIDE DEF R
  <2> QED
    BY <1>3, <2>1, SeqOfMore
<1>5. pass.phase \in Phases
  BY PassFields DEF Phases
<1>6. failures \in 0 .. host.failures /\ crashes \in 0 .. host.crashes
      /\ \A s \in Sessions : sent[s] \in 0 .. host.sends[s]
  <2>1. host.failures \in Nat /\ host.crashes \in Nat /\ host.sends \in [Sessions -> Nat]
    BY HostFields DEF Types
  <2> QED
    BY <2>1 DEF Types
<1> QED
  BY <1>2, <1>4, <1>5, <1>6 DEF Types, TypeOK

\* extract.ts:295: for any host, however many sessions, messages, failures and crashes,
\* no message behind the cursor was kept from the agent, as long as the cursor dies with
\* the messages it counts.
THEOREM NothingIsPassedOver == Spec => []BehindCursorIsLearned
<1>1. Inv => BehindCursorIsLearned
  <2> SUFFICES ASSUME Inv PROVE BehindCursorIsLearned
    OBVIOUS
  <2>1. Types /\ TypeOK
    BY TypesAreRight DEF Inv
  <2>2. ASSUME CursorDiesWithArray, NEW s \in Sessions, ~FirstRun(messages[s], cursor[s]),
               NEW i \in 1 .. cursor[s] + 1
        PROVE  messages[s][i] \in learned[s] \cup skipped[s]
    <3>1. CursorOf(s)
      BY <2>2 DEF Inv, CursorInv
    <3>2. cursor[s] \in Int /\ Len(messages[s]) \in Nat
      BY <2>1 DEF Types
    <3>3. cursor[s] < Len(messages[s])
      BY <2>2, <3>2 DEF FirstRun
    <3> QED
      BY <2>2, <3>1, <3>3 DEF CursorOf, Done
  <2> QED
    BY <2>1, <2>2 DEF BehindCursorIsLearned, CursorIsProcessed
<1> QED
  BY <1>1, LifecycleInvariant, PTL

\* adaptSdkMemFlywheel.onSessionEnd: no step but a crash drops a session with a message
\* that no agent has seen and no window was too small for.
THEOREM SessionsEndLearned == Spec => DropOnlyLearned
<1>1. Inv /\ [Next]_vars =>
        [\A s \in live \ live' : CursorDiesWithArray /\ crashes' = crashes =>
           ToSet(messages[s]) \subseteq learned[s] \cup skipped[s]]_vars
  <2> SUFFICES ASSUME Inv, [Next]_vars, NEW s \in live \ live', CursorDiesWithArray,
                      crashes' = crashes
               PROVE  ToSet(messages[s]) \subseteq learned[s] \cup skipped[s]
    OBVIOUS
  <2>1. Types /\ s \in Sessions
    BY DEF Inv, Types
  <2>2. EndSession
    <3>1. live' # live
      OBVIOUS
    <3>2. ~Restart
      <4>1. crashes \in Nat
        BY <2>1 DEF Types
      <4> QED
        BY <2>1, <4>1, Restarts
    <3>3. \A r \in Sessions : ~HostEnd(r) /\ \A n \in 1 .. MaxTurn : ~HostTurn(r, n)
      BY <3>1 DEF HostEnd, HostTurn
    <3>4. ~StartExtraction
      BY DEF StartExtraction
    <3>5. ~Tried /\ ~Skip /\ ~BeginAgent /\ ~AgentReturns /\ ~UNCHANGED vars
      BY <2>1, <3>1, Skips, Begins, Learns DEF Tried, vars
    <3> QED
      BY <2>1, <3>2, <3>3, <3>4, <3>5, Steps
  <2>3. PICK t \in TaskType : Popped(t) /\ t.op = "sessionEnd" /\ live' = live \ {t.session}
    BY <2>1, <2>2, Ends
  <2>4. s = t.session /\ 1 \in DOMAIN queue /\ queue[1] = t
    BY <2>3 DEF Popped
  <2>5. CursorOf(s)
    BY <2>1 DEF Inv, CursorInv
  <2> QED
    BY <2>3, <2>4, <2>5 DEF CursorOf, Done
<1> QED
  BY <1>1, LifecycleInvariant, PTL DEF Spec, DropOnlyLearned

\* Whatever an agent failed on is in what the next one that returns for the session has
\* learned or had no room for.
THEOREM FailuresAreRetried == Spec => FailedWindowIsRetried
<1>1. Inv /\ [Next]_vars =>
        [\A s \in Sessions : CursorDiesWithArray /\ learned'[s] # learned[s] =>
           owed[s] \subseteq learned'[s] \cup skipped'[s]]_vars
  <2> SUFFICES ASSUME Inv, [Next]_vars, NEW s \in Sessions, CursorDiesWithArray,
                      learned'[s] # learned[s]
               PROVE  owed[s] \subseteq learned'[s] \cup skipped'[s]
    OBVIOUS
  <2>1. Types /\ CursorOf(s) /\ PassInv
    BY DEF Inv, CursorInv
  <2>2. AgentReturns
    <3>1. learned' # learned
      OBVIOUS
    <3>2. \A r \in Sessions : ~HostEnd(r) /\ \A n \in 1 .. MaxTurn : ~HostTurn(r, n)
      BY <3>1 DEF HostEnd, HostTurn
    <3>3. ~StartExtraction /\ ~EndSession
      BY <3>1 DEF StartExtraction, EndSession
    <3>4. ~Tried /\ ~Skip /\ ~BeginAgent /\ ~Restart /\ ~UNCHANGED vars
      BY <2>1, <3>1, Skips, Begins, Restarts DEF Tried, vars
    <3> QED
      BY <2>1, <3>2, <3>3, <3>4, Steps
  <2> DEFINE p == pass.session
  <2>3. /\ pass.phase = "agent" /\ p \in Sessions
        /\ learned' = [learned EXCEPT ![p] = learned[p] \cup ToSet(pass.window)]
        /\ skipped' = [skipped EXCEPT ![p] = skipped[p] \cup Skipped(messages[p], cursor[p])]
    BY <2>1, <2>2, Learns
  <2>4. pass.window = SelectForExtraction(messages[p], cursor[p])
    BY <2>1, <2>3 DEF PassInv
  <2> HIDE DEF p
  <2>5. learned \in [Sessions -> SUBSET Nat] /\ skipped \in [Sessions -> SUBSET Nat]
    BY <2>1 DEF Types
  <2>6. p = s
    BY <2>3, <2>5
  <2>7. learned'[s] = learned[s] \cup ToSet(pass.window)
        /\ skipped'[s] = skipped[s] \cup Skipped(messages[s], cursor[s])
    BY <2>3, <2>5, <2>6
  <2>8. ToSet(messages[s]) \subseteq learned'[s] \cup skipped'[s]
    BY <2>1, <2>4, <2>6, <2>7, AllDone DEF Done
  <2>9. owed[s] \subseteq ToSet(messages[s]) \cup learned[s] \cup skipped[s]
    BY <2>1 DEF CursorOf, Done
  <2> QED
    BY <2>7, <2>8, <2>9
<1> QED
  BY <1>1, LifecycleInvariant, PTL DEF Spec, FailedWindowIsRetried

(***************************************************************************)
(* The trace: what a step does to it.                                      *)
(***************************************************************************)

TracedOf(s) == SelectForTrace(messages[s], cursor[s])
Appending(s) == AppendTrace(Redact(trace[s]), TracedOf(s))

LEMMA TraceSteps ==
  ASSUME Types, [Next]_vars, NEW s \in Sessions
  PROVE  \/ trace'[s] = trace[s]
         \/ trace'[s] = Redact(trace[s])
         \/ BeginAgent /\ pass.session = s /\ trace'[s] = Appending(s)
         \/ /\ CrashInTraceWrite /\ pass.session = s
            /\ NewLines(Redact(trace[s]), TracedOf(s)) # <<>>
            /\ \E n \in 0 .. Len(Appending(s)) : trace'[s] = SubSeq(Appending(s), 1, n)
<1>1. RedactedTraces \in [Sessions -> Seq(Nat)]
      /\ \A r \in Sessions : RedactedTraces[r] = Redact(trace[r])
  BY RedactedTypes
<1>2. ASSUME NEW r \in Sessions, HostEnd(r) PROVE trace' = trace
  BY <1>2 DEF HostEnd
<1>3. ASSUME NEW r \in Sessions, NEW n \in 1 .. MaxTurn, HostTurn(r, n) PROVE trace' = trace
  BY <1>3 DEF HostTurn
<1>4. StartExtraction \/ EndSession \/ Tried \/ AgentReturns \/ UNCHANGED vars => trace' = trace
  BY Learns DEF StartExtraction, EndSession, Tried, vars
<1>5. Skip => trace'[s] = Redact(trace[s])
  BY <1>1, Skips
<1>6. CASE BeginAgent
  <2> DEFINE p == pass.session
             new == SelectForTrace(messages[p], cursor[p])
             long == AppendTrace(RedactedTraces[p], new)
  <2>1. trace' = [RedactedTraces EXCEPT ![p] = long] /\ p \in Sessions
    BY <1>6, Begins
  <2> HIDE DEF long
  <2>2. trace'[s] = IF s = p THEN long ELSE RedactedTraces[s]
    BY <1>1, <2>1
  <2>3. p = s => long = Appending(s)
    BY <1>1 DEF Appending, TracedOf, long
  <2> QED
    BY <1>1, <1>6, <2>2, <2>3
<1>7. CASE CrashInTraceWrite
  <2> DEFINE p == pass.session
             new == SelectForTrace(messages[p], cursor[p])
             long == AppendTrace(RedactedTraces[p], new)
  <2>1. p \in Sessions
    BY <1>7, PassFields DEF CrashInTraceWrite
  <2>2. PICK n \in 0 .. Len(long) : trace' = [RedactedTraces EXCEPT ![p] = SubSeq(long, 1, n)]
    BY <1>1, <1>7, <2>1 DEF CrashInTraceWrite
  <2>3. NewLines(RedactedTraces[p], new) # <<>>
    BY <1>7 DEF CrashInTraceWrite
  <2>4. p = s => long = Appending(s)
                 /\ NewLines(RedactedTraces[p], new) = NewLines(Redact(trace[s]), TracedOf(s))
    BY <1>1 DEF Appending, TracedOf
  <2> HIDE DEF long
  <2>5. trace'[s] = IF s = p THEN SubSeq(long, 1, n) ELSE RedactedTraces[s]
    BY <1>1, <2>1, <2>2
  <2>6. CASE p = s
    <3>1. trace'[s] = SubSeq(Appending(s), 1, n) /\ n \in 0 .. Len(Appending(s))
      BY <2>2, <2>4, <2>5, <2>6
    <3>2. NewLines(Redact(trace[s]), TracedOf(s)) # <<>>
      BY <2>3, <2>4, <2>6
    <3> QED
      BY <1>7, <2>6, <3>1, <3>2
  <2>7. CASE p # s
    BY <1>1, <2>5, <2>7
  <2> QED
    BY <2>6, <2>7
<1> QED
  BY <1>2, <1>3, <1>4, <1>5, <1>6, <1>7, Steps

LEMMA AppendingFacts ==
  ASSUME Types, NEW s \in Sessions
  PROVE  /\ trace[s] \in Seq(Nat) /\ Redact(trace[s]) \in Seq(Nat) /\ TracedOf(s) \in Seq(Nat)
         /\ TracedOf(s) \in Seq(Msg)
         /\ Appending(s) \in Seq(Nat)
         /\ ToSet(Appending(s)) = ToSet(Redact(trace[s])) \cup ToSet(TracedOf(s))
         /\ ToSet(Redact(trace[s])) \subseteq ToSet(trace[s]) \cup {0}
         /\ ToSet(TracedOf(s)) \subseteq ToSet(messages[s])
         /\ ToSet(messages[s]) \subseteq Msg
<1> DEFINE q == trace[s]
           l == Redact(trace[s])
           t == TracedOf(s)
<1>1. q \in Seq(Nat) /\ messages[s] \in Seq(Msg) /\ cursor[s] \in Int
  BY DEF Types
<1>2. t \in Seq(Msg) /\ ToSet(t) \subseteq ToSet(messages[s])
  BY <1>1, SelectTypes, TracedAreMessages DEF TracedOf
<1> HIDE DEF t
<1>3. t \in Seq(Nat) /\ ToSet(messages[s]) \subseteq Msg
  BY <1>1, <1>2, MsgIsNat
<1>4. l \in Seq(Nat) /\ ToSet(l) \subseteq ToSet(q) \cup {0}
  <2> HIDE DEF q
  <2>1. Redact(q) \in Seq(Nat) /\ ToSet(Redact(q)) \subseteq ToSet(q) \cup {0}
    BY <1>1, RedactFacts
  <2> QED
    BY <2>1 DEF q
<1>5. Appending(s) = AppendTrace(l, t)
  BY DEF Appending, t
<1> HIDE DEF l
<1>6. AppendTrace(l, t) \in Seq(Nat) /\ ToSet(AppendTrace(l, t)) = ToSet(l) \cup ToSet(t)
  BY <1>3, <1>4, AppendedNumbers
<1> QED
  BY <1>1, <1>2, <1>3, <1>4, <1>5, <1>6 DEF l, t, q

LEMMA Prefix ==
  ASSUME NEW T, NEW q \in Seq(T), NEW n \in 0 .. Len(q)
  PROVE  /\ SubSeq(q, 1, n) \in Seq(T) /\ Len(SubSeq(q, 1, n)) = n /\ n \in Nat
         /\ \A i \in 1 .. n : SubSeq(q, 1, n)[i] = q[i]
         /\ ToSet(SubSeq(q, 1, n)) \subseteq ToSet(q)
<1>0. Len(q) \in Nat /\ n \in Nat
  OBVIOUS
<1>1. 1 \in 1 .. Len(q) + 1 /\ 1 <= n + 1
  BY <1>0
<1>2. SubSeq(q, 1, n) \in Seq(T) /\ Len(SubSeq(q, 1, n)) = n - 1 + 1
      /\ \A i \in 1 .. n - 1 + 1 : SubSeq(q, 1, n)[i] = q[1 + i - 1]
  BY <1>1, SubSeqFacts
<1> DEFINE r == SubSeq(q, 1, n)
<1> HIDE DEF r
<1>3. r \in Seq(T) /\ Len(r) = n /\ DOMAIN r = 1 .. n /\ \A i \in 1 .. n : r[i] = q[i]
  BY <1>0, <1>2 DEF r
<1>4. \A i \in DOMAIN r : i \in DOMAIN q /\ r[i] = q[i]
  BY <1>0, <1>3
<1> QED
  BY <1>0, <1>3, <1>4 DEF ToSet, r

\* No step writes a line that is neither in the trace nor a message.
LEMMA TraceElements ==
  ASSUME Types, [Next]_vars, NEW s \in Sessions
  PROVE  ToSet(trace'[s]) \subseteq ToSet(trace[s]) \cup ToSet(messages[s]) \cup {0}
<1>1. ToSet(Redact(trace[s])) \subseteq ToSet(trace[s]) \cup {0}
      /\ ToSet(Appending(s)) \subseteq ToSet(trace[s]) \cup ToSet(messages[s]) \cup {0}
      /\ Appending(s) \in Seq(Nat)
  BY AppendingFacts
<1>2. \A n \in 0 .. Len(Appending(s)) :
        ToSet(SubSeq(Appending(s), 1, n)) \subseteq ToSet(Appending(s))
  BY <1>1, Prefix
<1> QED
  BY <1>1, <1>2, TraceSteps

\* Where spans are closed, nothing is ever redacted.
CleanInv == SpansAreClosed => \A s \in Sessions : 0 \notin ToSet(trace[s])

LEMMA Clean ==
  ASSUME Types, CleanInv, SpansAreClosed, NEW s \in Sessions
  PROVE  Redact(trace[s]) = trace[s] /\ Appending(s) = AppendTrace(trace[s], TracedOf(s))
         /\ ToSet(Appending(s)) = ToSet(trace[s]) \cup ToSet(TracedOf(s))
<1>1. trace[s] \in Seq(Nat) /\ 0 \notin ToSet(trace[s])
  BY DEF Types, CleanInv
<1> DEFINE q == trace[s]
<1>2. Redact(q) = q
  <2> HIDE DEF q
  <2>1. q \in Seq(Nat) /\ 0 \notin ToSet(q)
    BY <1>1 DEF q
  <2> QED
    BY <2>1, RedactFacts
<1> QED
  BY <1>2, AppendingFacts DEF Appending

LEMMA CleanInit == Init => CleanInv
BY DEF Init, CleanInv, ToSet

LEMMA CleanNext == Types /\ CleanInv /\ [Next]_vars => CleanInv'
<1> SUFFICES ASSUME Types, CleanInv, [Next]_vars, SpansAreClosed', NEW s \in Sessions
             PROVE  0 \notin ToSet(trace'[s])
  BY DEF CleanInv
<1>1. SpansAreClosed
  BY HostStays
<1>2. 0 \notin ToSet(trace[s]) /\ Redact(trace[s]) = trace[s]
      /\ ToSet(Appending(s)) = ToSet(trace[s]) \cup ToSet(TracedOf(s))
  BY <1>1, Clean DEF CleanInv
<1>3. ToSet(TracedOf(s)) \subseteq Msg /\ Appending(s) \in Seq(Nat)
  BY AppendingFacts
<1>4. 0 \notin ToSet(Appending(s))
  BY <1>2, <1>3 DEF Msg
<1>5. \A n \in 0 .. Len(Appending(s)) :
        ToSet(SubSeq(Appending(s), 1, n)) \subseteq ToSet(Appending(s))
  BY <1>3, Prefix
<1> QED
  BY <1>2, <1>4, <1>5, TraceSteps

(***************************************************************************)
(* What was learned is in the trace.                                       *)
(***************************************************************************)

\* A window reaches back over the cursor by less than its size: those messages are lines
\* of the trace, and so are the new ones that the agent is shown.
EvidenceOf(s) ==
  /\ cursor[s] < Len(messages[s]) =>
       \A i \in 1 .. cursor[s] + 1 :
         i > cursor[s] + 1 - MaxMessages => messages[s][i] \in ToSet(trace[s])
  /\ pass.phase = "agent" /\ pass.session = s => ToSet(pass.traced) \subseteq ToSet(trace[s])
  /\ learned[s] \subseteq ToSet(trace[s])

EvidenceInv ==
  CursorDiesWithArray /\ Untorn /\ SpansAreClosed => \A s \in Sessions : EvidenceOf(s)

LEMMA EvidenceInit == Init => EvidenceInv
<1> SUFFICES ASSUME Init, NEW s \in Sessions PROVE EvidenceOf(s)
  BY DEF EvidenceInv
<1>1. cursor[s] = -1 /\ messages[s] = <<>> /\ learned[s] = {} /\ pass.phase # "agent"
  BY DEF Init, NoCursor, Idle
<1> QED
  BY <1>1 DEF EvidenceOf

\* Untorn and not redacted, the trace only grows.
LEMMA TraceGrows ==
  ASSUME Types, CleanInv, [Next]_vars, Untorn', SpansAreClosed, NEW s \in Sessions
  PROVE  ToSet(trace[s]) \subseteq ToSet(trace'[s])
<1>1. ~CrashInTraceWrite
  <2> SUFFICES ASSUME CrashInTraceWrite PROVE FALSE
    OBVIOUS
  <2>1. host.torn /\ Restart
    BY DEF CrashInTraceWrite
  <2>2. host' = host /\ crashes' = crashes + 1 /\ crashes \in Nat
    BY <2>1, Restarts DEF Types
  <2> QED
    BY <2>1, <2>2 DEF Untorn
<1>2. Redact(trace[s]) = trace[s] /\ ToSet(trace[s]) \subseteq ToSet(Appending(s))
  BY Clean
<1> QED
  BY <1>1, <1>2, TraceSteps

\* The messages a window can hold: new ones, which are traced, and some before the cursor.
LEMMA WindowIsTraced ==
  ASSUME Types, NEW s \in Sessions, EvidenceOf(s), ToSet(TracedOf(s)) \subseteq ToSet(trace[s])
  PROVE  \A i \in 1 .. Len(messages[s]) :
           i > Len(messages[s]) - MaxMessages => messages[s][i] \in ToSet(trace[s])
<1> DEFINE m == messages[s]
           c == cursor[s]
           k == WindowFrom(m, c)
           lines == ToSet(trace[s])
<1>1. m \in Seq(Msg) /\ c \in Int /\ Len(m) \in Nat
  BY DEF Types
<1>2. c < Len(m) => \A i \in 1 .. c + 1 : i > c + 1 - MaxMessages => m[i] \in lines
  BY DEF EvidenceOf
<1>3. ToSet(SelectForTrace(m, c)) \subseteq lines
  BY DEF TracedOf
<1>31. MaxMessages \in Nat
  OBVIOUS
<1> HIDE DEF m, c, lines
<1>4. \A i \in k + 1 .. Len(m) : m[i] \in lines
  BY <1>1, <1>3, TracedSet
<1>5. k \in From(m, c) .. Len(m) /\ From(m, c) \in Nat
  BY <1>1, WindowFromFacts
<1>6. k = IF From(m, c) < Len(m) - MaxMessages THEN Len(m) - MaxMessages ELSE From(m, c)
  BY DEF WindowFrom
<1> HIDE DEF k
<1>7. ASSUME NEW i \in 1 .. Len(m), i > Len(m) - MaxMessages PROVE m[i] \in lines
  <2>1. CASE i > k
    BY <1>1, <1>4, <1>5, <2>1
  <2>2. CASE i <= k
    <3>1. i <= From(m, c)
      BY <1>1, <1>31, <1>5, <1>6, <1>7, <2>2
    <3>2. ~FirstRun(m, c) /\ From(m, c) = c + 1
      BY <1>1, <3>1 DEF From
    <3>3. c < Len(m) /\ i \in 1 .. c + 1 /\ i > c + 1 - MaxMessages
      BY <1>1, <1>31, <1>7, <3>1, <3>2 DEF FirstRun
    <3> QED
      BY <1>2, <3>3
  <2> QED
    BY <1>1, <1>5, <2>1, <2>2
<1> QED
  BY <1>7 DEF m, lines

LEMMA EvidenceNext ==
  Types /\ PassInv /\ CursorInv /\ CleanInv /\ EvidenceInv /\ [Next]_vars => EvidenceInv'
<1> SUFFICES ASSUME Types, PassInv, CursorInv, CleanInv, EvidenceInv, [Next]_vars,
                    (CursorDiesWithArray /\ Untorn /\ SpansAreClosed)', NEW s \in Sessions
             PROVE  EvidenceOf(s)'
  BY DEF EvidenceInv
<1>0. EvidenceOf(s) /\ CursorOf(s) /\ SpansAreClosed
  BY HostStays DEF EvidenceInv, CursorInv
<1>1. ToSet(trace[s]) \subseteq ToSet(trace'[s])
  BY <1>0, TraceGrows
<1>2. /\ cursor[s] < Len(messages[s]) =>
           \A i \in 1 .. cursor[s] + 1 :
             i > cursor[s] + 1 - MaxMessages => messages[s][i] \in ToSet(trace[s])
      /\ pass.phase = "agent" /\ pass.session = s => ToSet(pass.traced) \subseteq ToSet(trace[s])
      /\ learned[s] \subseteq ToSet(trace[s])
  BY <1>0 DEF EvidenceOf
<1>3. messages[s] \in Seq(Msg) /\ cursor[s] \in Int /\ Len(messages[s]) \in Nat
      /\ DOMAIN messages[s] = 1 .. Len(messages[s]) /\ MaxMessages \in Nat
  BY DEF Types
<1>4. CASE UNCHANGED <<messages, cursor, learned>> /\ (pass' = pass \/ pass'.phase # "agent")
  BY <1>1, <1>2, <1>4 DEF EvidenceOf
<1>5. ASSUME NEW r \in Sessions, HostEnd(r) PROVE EvidenceOf(s)'
  BY <1>4, <1>5 DEF HostEnd
<1>6. ASSUME NEW r \in Sessions, NEW n \in 1 .. MaxTurn, HostTurn(r, n) PROVE EvidenceOf(s)'
  BY <1>4, <1>6 DEF HostTurn
<1>61. pass' = Idle => pass'.phase # "agent"
  BY DEF Idle
<1>7. CASE StartExtraction
  <2>1. PICK t \in TaskType :
          /\ Popped(t) /\ pass'.phase = "locking"
          /\ messages' = [messages EXCEPT ![t.session] = messages[t.session] \o t.msgs]
    BY <1>7, Starts
  <2>2. UNCHANGED <<cursor, learned>>
    BY <1>7 DEF StartExtraction
  <2>3. t.session \in Sessions /\ t.msgs \in Seq(Msg) /\ messages \in [Sessions -> Seq(Msg)]
    BY TaskFields DEF Types
  <2>5. CASE t.session # s
    <3>1. messages'[s] = messages[s]
      BY <2>1, <2>3, <2>5
    <3> QED
      BY <1>1, <1>2, <2>1, <2>2, <3>1 DEF EvidenceOf
  <2>6. CASE t.session = s
    <3> DEFINE m == messages[s]
               l == messages[s] \o t.msgs
    <3>1. messages'[s] = l
      BY <2>1, <2>3, <2>6
    <3>2. m \in Seq(Msg) /\ Len(m) \in Nat /\ (\A i \in 1 .. Len(m) : l[i] = m[i])
      BY <1>3, <2>3, ConcatFacts
    <3>3. cursor[s] < Len(m)
      <4>1. 1 \in DOMAIN queue /\ queue[1].session = s
        BY <2>1, <2>6 DEF Popped
      <4>2. ~(cursor[s] >= Len(m))
        BY <1>0, <4>1 DEF CursorOf
      <4> QED
        BY <1>3, <4>2
    <3>4. \A i \in 1 .. cursor[s] + 1 : i > cursor[s] + 1 - MaxMessages => m[i] \in ToSet(trace[s])
      BY <1>2, <3>3
    <3>7. cursor[s] \in Int
      BY <1>3
    <3> HIDE DEF m, l
    <3>8. \A i \in 1 .. cursor[s] + 1 : i > cursor[s] + 1 - MaxMessages => l[i] \in ToSet(trace[s])
      BY <3>2, <3>3, <3>4, <3>7
    <3> QED
      BY <1>1, <1>2, <2>1, <2>2, <3>1, <3>8 DEF EvidenceOf
  <2> QED
    BY <2>5, <2>6
<1>8. CASE EndSession
  <2>1. PICK t \in TaskType : pass' = Idle /\ messages' = [messages EXCEPT ![t.session] = <<>>]
    BY <1>8, Ends
  <2>2. UNCHANGED <<cursor, learned>> /\ messages \in [Sessions -> Seq(Msg)]
    BY <1>8 DEF EndSession, Types
  <2>3. CASE messages'[s] = messages[s]
    BY <1>1, <1>2, <1>61, <2>1, <2>2, <2>3 DEF EvidenceOf
  <2>4. CASE messages'[s] # messages[s]
    <3>1. Len(messages'[s]) = 0
      BY <2>1, <2>2, <2>4
    <3>2. cursor'[s] < 0 => 1 .. cursor'[s] + 1 = {}
      BY <1>3, <2>2
    <3> QED
      BY <1>1, <1>2, <1>61, <2>1, <2>2, <3>1, <3>2 DEF EvidenceOf
  <2> QED
    BY <2>3, <2>4
<1>9. CASE Tried
  BY <1>4, <1>61, <1>9 DEF Tried, Left
<1>10. CASE Skip
  BY <1>4, <1>61, <1>10, Skips DEF Left
<1>11. CASE BeginAgent
  <2> DEFINE p == pass.session
  <2>1. /\ p \in Sessions /\ pass'.session = p /\ pass'.traced = TracedOf(p)
        /\ UNCHANGED <<messages, cursor, learned>>
    BY <1>11, Begins DEF TracedOf
  <2>2. p = s => ToSet(TracedOf(s)) \subseteq ToSet(trace'[s])
    <3> SUFFICES ASSUME p = s PROVE ToSet(TracedOf(s)) \subseteq ToSet(trace'[s])
      OBVIOUS
    <3>1. RedactedTraces \in [Sessions -> Seq(Nat)] /\ RedactedTraces[s] = Redact(trace[s])
          /\ trace' = [RedactedTraces EXCEPT ![s] = AppendTrace(RedactedTraces[s], TracedOf(s))]
      BY <1>11, Begins, RedactedTypes DEF TracedOf
    <3>2. trace'[s] = Appending(s)
      BY <3>1 DEF Appending
    <3> QED
      BY <3>2, AppendingFacts
  <2> HIDE DEF p
  <2> QED
    BY <1>1, <1>2, <2>1, <2>2 DEF EvidenceOf
<1>12. CASE AgentReturns
  <2> DEFINE p == pass.session
  <2>1. /\ pass.phase = "agent" /\ p \in Sessions /\ Left(TRUE)
        /\ cursor' = [cursor EXCEPT ![p] = Len(messages[p]) - 1]
        /\ learned' = [learned EXCEPT ![p] = learned[p] \cup ToSet(pass.window)]
        /\ UNCHANGED <<messages>>
    BY <1>12, Learns
  <2>2. pass.window = SelectForExtraction(messages[p], cursor[p]) /\ pass.traced = TracedOf(p)
    BY <2>1 DEF PassInv, TracedOf
  <2>21. pass'.phase # "agent"
    BY <1>61, <2>1 DEF Left
  <2>3. learned \in [Sessions -> SUBSET Nat] /\ cursor \in [Sessions -> Int]
    BY DEF Types
  <2>4. CASE p # s
    <3>1. cursor'[s] = cursor[s] /\ learned'[s] = learned[s]
      BY <2>1, <2>3, <2>4
    <3> QED
      BY <1>1, <1>2, <2>1, <2>21, <3>1 DEF EvidenceOf
  <2>5. CASE p = s
    <3>1. cursor'[s] = Len(messages[s]) - 1 /\ learned'[s] = learned[s] \cup ToSet(pass.window)
      BY <2>1, <2>3, <2>5
    <3>2. ToSet(TracedOf(s)) \subseteq ToSet(trace[s])
      BY <1>2, <2>1, <2>2, <2>5
    <3>3. \A i \in 1 .. Len(messages[s]) :
            i > Len(messages[s]) - MaxMessages => messages[s][i] \in ToSet(trace[s])
      BY <1>0, <3>2, WindowIsTraced
    <3>4. \A x \in ToSet(pass.window) : \E i \in 1 .. Len(messages[s]) :
            x = messages[s][i] /\ i > Len(messages[s]) - MaxMessages
      BY <1>3, <2>2, <2>5, WindowSet
    <3>5. ToSet(pass.window) \subseteq ToSet(trace[s])
      BY <3>3, <3>4
    <3>6. cursor'[s] + 1 = Len(messages[s])
      BY <1>3, <3>1
    <3> QED
      BY <1>1, <1>2, <2>1, <2>21, <3>1, <3>3, <3>5, <3>6 DEF EvidenceOf
  <2> QED
    BY <2>4, <2>5
<1>14. CASE Restart
  <2>1. pass' = Idle /\ messages'[s] = <<>> /\ learned' = learned
        /\ cursor'[s] = (IF host.durable THEN cursor[s] ELSE NoCursor)
        /\ crashes' = crashes + 1 /\ host' = host
    BY <1>14, Restarts
  <2>2. ~host.durable
    <3>1. crashes' # 0
      BY <2>1 DEF Types
    <3> QED
      BY <2>1, <3>1 DEF CursorDiesWithArray
  <2>3. cursor'[s] = -1
    BY <2>1, <2>2 DEF NoCursor
  <2> QED
    BY <1>1, <1>2, <1>61, <2>1, <2>3 DEF EvidenceOf
<1>15. CASE UNCHANGED vars
  BY <1>4, <1>15 DEF vars
<1> QED
  BY <1>5, <1>6, <1>7, <1>8, <1>9, <1>10, <1>11, <1>12, <1>14, <1>15, Steps

(***************************************************************************)
(* A host that hands over each message once: the order of the messages.    *)
(***************************************************************************)

Older(S, T) == \A x \in S : \A y \in T : x < y

\* What was handed over earlier is older, from the trace over the session to the queue.
FreshOf(s) ==
  /\ Increasing(messages[s])
  /\ \A i \in DOMAIN queue : queue[i].session = s =>
       /\ Increasing(queue[i].msgs)
       /\ \A x \in ToSet(queue[i].msgs) : x <= sent[s]
       /\ Older(ToSet(messages[s]) \cup ToSet(trace[s]), ToSet(queue[i].msgs))
  /\ \A i, j \in DOMAIN queue : i < j /\ queue[i].session = s /\ queue[j].session = s =>
       Older(ToSet(queue[i].msgs), ToSet(queue[j].msgs))
  /\ \A x \in ToSet(messages[s]) \cup ToSet(trace[s]) : x <= sent[s]

FreshInv == ~host.transcript => \A s \in Sessions : FreshOf(s)

LEMMA FreshInit == Init => FreshInv
<1> SUFFICES ASSUME Init, NEW s \in Sessions PROVE FreshOf(s)
  BY DEF FreshInv
<1>1. queue = <<>> /\ messages[s] = <<>> /\ trace[s] = <<>>
  BY DEF Init
<1> QED
  BY <1>1 DEF FreshOf, Increasing, ToSet

LEMMA ConcatInOrder ==
  ASSUME NEW a \in Seq(Msg), NEW b \in Seq(Msg), Increasing(a), Increasing(b),
         Older(ToSet(a), ToSet(b))
  PROVE  Increasing(a \o b)
<1> DEFINE r == a \o b
<1>1. /\ r \in Seq(Msg) /\ DOMAIN r = 1 .. Len(a) + Len(b) /\ Len(a) \in Nat /\ Len(b) \in Nat
      /\ \A i \in 1 .. Len(a) : r[i] = a[i]
      /\ \A i \in 1 .. Len(b) : r[Len(a) + i] = b[i]
  BY ConcatFacts
<1>2. DOMAIN a = 1 .. Len(a) /\ DOMAIN b = 1 .. Len(b)
  OBVIOUS
<1> HIDE DEF r
<1>3. ASSUME NEW i \in Nat, NEW j \in Nat, 1 <= i, i < j, j <= Len(a) + Len(b)
      PROVE  r[i] < r[j]
  <2>1. CASE j <= Len(a)
    <3>1. i \in DOMAIN a /\ j \in DOMAIN a /\ r[i] = a[i] /\ r[j] = a[j]
      BY <1>1, <1>2, <1>3, <2>1
    <3> QED
      BY <1>3, <3>1 DEF Increasing
  <2>2. CASE i > Len(a)
    <3> DEFINE x == i - Len(a)
               y == j - Len(a)
    <3>1. x \in DOMAIN b /\ y \in DOMAIN b /\ Len(a) + x = i /\ Len(a) + y = j /\ x < y
      BY <1>1, <1>2, <1>3, <2>2
    <3> HIDE DEF x, y
    <3>2. r[i] = b[x] /\ r[j] = b[y]
      BY <1>1, <1>2, <3>1
    <3> QED
      BY <3>1, <3>2 DEF Increasing
  <2>3. CASE i <= Len(a) /\ j > Len(a)
    <3> DEFINE y == j - Len(a)
    <3>1. i \in DOMAIN a /\ y \in DOMAIN b /\ Len(a) + y = j
      BY <1>1, <1>2, <1>3, <2>3
    <3> HIDE DEF y
    <3>2. r[i] = a[i] /\ r[j] = b[y]
      BY <1>1, <1>2, <3>1
    <3>3. a[i] \in ToSet(a) /\ b[y] \in ToSet(b)
      BY <3>1 DEF ToSet
    <3> QED
      BY <3>2, <3>3 DEF Older
  <2> QED
    BY <1>1, <1>3, <2>1, <2>2, <2>3
<1>4. \A i \in DOMAIN r : i \in Nat /\ 1 <= i /\ i <= Len(a) + Len(b)
  BY <1>1
<1>5. Increasing(r)
  BY <1>3, <1>4 DEF Increasing
<1> QED
  BY <1>5 DEF r

LEMMA FreshNext == Types /\ FreshInv /\ [Next]_vars => FreshInv'
<1> SUFFICES ASSUME Types, FreshInv, [Next]_vars, ~host'.transcript, NEW s \in Sessions
             PROVE  FreshOf(s)'
  BY DEF FreshInv
<1>0. host' = host /\ ~host.transcript /\ FreshOf(s)
  BY HostStays DEF FreshInv
<1>1. /\ Increasing(messages[s])
      /\ \A i \in DOMAIN queue : queue[i].session = s =>
           /\ Increasing(queue[i].msgs)
           /\ \A x \in ToSet(queue[i].msgs) : x <= sent[s]
           /\ Older(ToSet(messages[s]) \cup ToSet(trace[s]), ToSet(queue[i].msgs))
      /\ \A i, j \in DOMAIN queue : i < j /\ queue[i].session = s /\ queue[j].session = s =>
           Older(ToSet(queue[i].msgs), ToSet(queue[j].msgs))
      /\ \A x \in ToSet(messages[s]) \cup ToSet(trace[s]) : x <= sent[s]
  BY <1>0 DEF FreshOf
<1>2. queue \in Seq(TaskType) /\ sent[s] \in Nat /\ messages[s] \in Seq(Msg)
      /\ messages \in [Sessions -> Seq(Msg)] /\ sent \in [Sessions -> Nat]
  BY DEF Types
<1>3. \A i \in DOMAIN queue : queue[i].msgs \in Seq(Msg) /\ ToSet(queue[i].msgs) \subseteq Msg
  <2> SUFFICES ASSUME NEW i \in DOMAIN queue
               PROVE  queue[i].msgs \in Seq(Msg) /\ ToSet(queue[i].msgs) \subseteq Msg
    OBVIOUS
  <2>1. queue[i] \in TaskType
    BY <1>2
  <2>2. queue[i].msgs \in Seq(Msg)
    BY <2>1, TaskFields
  <2> QED
    BY <2>2, MsgIsNat
\* The trace may get messages of the session, and 0.
<1>4. ToSet(trace'[s]) \subseteq ToSet(trace[s]) \cup ToSet(messages[s]) \cup {0}
  BY TraceElements
<1>5. Older({0}, Msg) /\ Increasing(<<>>) /\ ToSet(<<>>) = {}
  BY DEF Older, Msg, Increasing, ToSet
<1>6. /\ \A i \in DOMAIN queue : queue[i].session = s =>
           Older(ToSet(messages[s]) \cup ToSet(trace'[s]), ToSet(queue[i].msgs))
      /\ \A x \in ToSet(messages[s]) \cup ToSet(trace'[s]) : x <= sent[s]
  <2>1. ASSUME NEW i \in DOMAIN queue, queue[i].session = s
        PROVE  Older(ToSet(messages[s]) \cup ToSet(trace'[s]), ToSet(queue[i].msgs))
    BY <1>1, <1>3, <1>4, <1>5, <2>1 DEF Older
  <2>2. 0 <= sent[s]
    BY <1>2
  <2> QED
    BY <1>1, <1>4, <2>1, <2>2
\* Steps that leave the messages, and append no message to the queue.
<1>7. ASSUME messages'[s] = messages[s], sent' = sent,
             queue' = queue \/ \E t \in TaskType : Appended(t) /\ t.msgs = <<>>
      PROVE  FreshOf(s)'
  <2>1. CASE queue' = queue
    BY <1>1, <1>6, <1>7, <2>1 DEF FreshOf
  <2>2. CASE queue' # queue
    <3>1. PICK t \in TaskType : Appended(t) /\ t.msgs = <<>>
      BY <1>7, <2>2
    <3>2. /\ \A i \in DOMAIN queue : queue'[i] = queue[i]
          /\ \A i \in DOMAIN queue' : i \in Nat /\ (i \in DOMAIN queue \/ queue'[i].msgs = <<>>)
      BY <3>1 DEF Appended
    <3>3. \A i, j \in DOMAIN queue' : i < j => i \in DOMAIN queue
      BY <3>1 DEF Appended
    <3>4. \A S : Older(S, {})
      BY DEF Older
    <3>5. \A i \in DOMAIN queue' : queue'[i].session = s =>
            /\ Increasing(queue'[i].msgs)
            /\ \A x \in ToSet(queue'[i].msgs) : x <= sent[s]
            /\ Older(ToSet(messages[s]) \cup ToSet(trace'[s]), ToSet(queue'[i].msgs))
      BY <1>1, <1>5, <1>6, <3>2, <3>4
    <3>6. \A i, j \in DOMAIN queue' : i < j /\ queue'[i].session = s /\ queue'[j].session = s =>
            Older(ToSet(queue'[i].msgs), ToSet(queue'[j].msgs))
      BY <1>1, <1>5, <3>2, <3>3, <3>4
    <3> QED
      BY <1>1, <1>6, <1>7, <3>5, <3>6 DEF FreshOf
  <2> QED
    BY <2>1, <2>2
<1>8. ASSUME NEW r \in Sessions, HostEnd(r) PROVE FreshOf(s)'
  <2>1. \E t \in TaskType : Appended(t) /\ t.msgs = <<>>
    BY <1>8, HostEnds
  <2>2. messages' = messages /\ sent' = sent
    BY <1>8 DEF HostEnd
  <2> QED
    BY <1>7, <2>1, <2>2
<1>9. ASSUME NEW r \in Sessions, NEW n \in 1 .. MaxTurn, HostTurn(r, n) PROVE FreshOf(s)'
  <2>1. PICK t \in TaskType : Appended(t) /\ t.session = r /\ t.msgs = Handed(r, n)
    BY <1>9, HostTurns
  <2>2. n \in Msg /\ n \in Nat /\ n > 0
    BY <1>9, HostTurns DEF Msg
  <2>3. messages' = messages /\ trace' = trace /\ sent' = [sent EXCEPT ![r] = sent[r] + n]
    BY <1>9 DEF HostTurn
  <2>4. /\ \A i \in DOMAIN queue : queue'[i] = queue[i]
        /\ \A i \in DOMAIN queue' : i \in Nat /\ (i \in DOMAIN queue \/ queue'[i] = t)
    BY <2>1 DEF Appended
  <2>5. \A i, j \in DOMAIN queue' : i < j => i \in DOMAIN queue
    BY <2>1 DEF Appended
  <2>6. CASE r # s
    <3>1. sent'[s] = sent[s]
      BY <1>2, <2>3, <2>6
    <3>2. \A i \in DOMAIN queue' : queue'[i].session = s => i \in DOMAIN queue
      BY <2>1, <2>4, <2>6
    <3> QED
      BY <1>1, <2>3, <2>4, <3>1, <3>2 DEF FreshOf
  <2>7. CASE r = s
    <3>1. sent'[s] = sent[s] + n /\ sent'[s] >= sent[s]
      BY <1>2, <2>2, <2>3, <2>7
    <3> DEFINE h == Handed(s, n)
    <3>2. h \in Seq(Msg) /\ Len(h) = n /\ \A i \in 1 .. n : h[i] = sent[s] + i
      BY <1>0, <2>2, HandedFacts
    <3>3. t.msgs = h
      BY <2>1, <2>7
    <3> HIDE DEF h
    <3>4. DOMAIN h = 1 .. n
      BY <3>2
    <3>5. Increasing(h)
      BY <1>2, <3>2, <3>4 DEF Increasing
    <3>6. \A x \in ToSet(h) : x \in Nat /\ x > sent[s] /\ x <= sent'[s]
      BY <1>2, <2>2, <3>1, <3>2, <3>4 DEF ToSet
    <3>7. ASSUME NEW S, S \subseteq Nat, \A x \in S : x <= sent[s] PROVE Older(S, ToSet(h))
      BY <1>2, <3>6, <3>7 DEF Older
    <3>8. ToSet(messages[s]) \cup ToSet(trace[s]) \subseteq Nat
      <4>1. ToSet(messages[s]) \subseteq Msg /\ trace[s] \in Seq(Nat)
        BY <1>2, MsgIsNat DEF Types
      <4> QED
        BY <4>1 DEF Msg, ToSet
    <3>9. \A i \in DOMAIN queue' : queue'[i].session = s =>
            /\ Increasing(queue'[i].msgs)
            /\ \A x \in ToSet(queue'[i].msgs) : x <= sent'[s]
            /\ Older(ToSet(messages[s]) \cup ToSet(trace[s]), ToSet(queue'[i].msgs))
      <4> SUFFICES ASSUME NEW i \in DOMAIN queue', queue'[i].session = s
                   PROVE  /\ Increasing(queue'[i].msgs)
                          /\ \A x \in ToSet(queue'[i].msgs) : x <= sent'[s]
                          /\ Older(ToSet(messages[s]) \cup ToSet(trace[s]), ToSet(queue'[i].msgs))
        OBVIOUS
      <4>1. CASE i \in DOMAIN queue
        <5>1. queue'[i] = queue[i] /\ \A x \in ToSet(queue[i].msgs) : x \in Nat /\ x <= sent[s]
          BY <1>1, <1>3, <2>4, <4>1 DEF Msg
        <5>2. \A x \in ToSet(queue[i].msgs) : x <= sent'[s]
          BY <1>2, <2>2, <3>1, <5>1
        <5> QED
          BY <1>1, <4>1, <5>1, <5>2
      <4>2. CASE queue'[i] = t
        <5>1. Older(ToSet(messages[s]) \cup ToSet(trace[s]), ToSet(h))
          BY <1>1, <3>7, <3>8
        <5> QED
          BY <3>3, <3>5, <3>6, <4>2, <5>1
      <4> QED
        BY <2>4, <4>1, <4>2
    <3>10. \A i, j \in DOMAIN queue' : i < j /\ queue'[i].session = s /\ queue'[j].session = s =>
             Older(ToSet(queue'[i].msgs), ToSet(queue'[j].msgs))
      <4> SUFFICES ASSUME NEW i \in DOMAIN queue', NEW j \in DOMAIN queue', i < j,
                          queue'[i].session = s, queue'[j].session = s
                   PROVE  Older(ToSet(queue'[i].msgs), ToSet(queue'[j].msgs))
        OBVIOUS
      <4>1. i \in DOMAIN queue /\ queue'[i] = queue[i]
        BY <2>4, <2>5
      <4>2. CASE j \in DOMAIN queue
        BY <1>1, <2>4, <4>1, <4>2
      <4>3. CASE queue'[j] = t
        <5>1. ToSet(queue[i].msgs) \subseteq Nat /\ \A x \in ToSet(queue[i].msgs) : x <= sent[s]
          BY <1>1, <1>3, <4>1 DEF Msg
        <5>2. Older(ToSet(queue[i].msgs), ToSet(h))
          BY <3>7, <5>1
        <5> QED
          BY <3>3, <4>1, <4>3, <5>2
      <4> QED
        BY <2>4, <4>2, <4>3
    <3>11. \A x \in ToSet(messages[s]) \cup ToSet(trace[s]) : x <= sent'[s]
      <4>1. \A x \in ToSet(messages[s]) \cup ToSet(trace[s]) : x \in Nat /\ x <= sent[s]
        BY <1>1, <3>8
      <4> QED
        BY <1>2, <2>2, <3>1, <4>1
    <3> QED
      BY <1>1, <2>3, <3>9, <3>10, <3>11 DEF FreshOf
  <2> QED
    BY <2>6, <2>7
<1>10. CASE StartExtraction
  <2>1. PICK t \in TaskType :
          /\ Popped(t)
          /\ messages' = [messages EXCEPT ![t.session] = messages[t.session] \o t.msgs]
    BY <1>10, Starts
  <2>2. trace' = trace /\ sent' = sent
    BY <1>10 DEF StartExtraction
  <2>3. t.session \in Sessions /\ t.msgs \in Seq(Msg)
    BY TaskFields
  <2>4. /\ 1 \in DOMAIN queue /\ queue[1] = t
        /\ \A i \in DOMAIN queue' : i \in Nat /\ i + 1 \in DOMAIN queue /\ 1 < i + 1
                                    /\ queue'[i] = queue[i + 1]
        /\ \A i, j \in DOMAIN queue' : i < j => i + 1 < j + 1
    BY <2>1 DEF Popped
  <2>5. CASE t.session # s
    <3>1. messages'[s] = messages[s]
      BY <1>2, <2>1, <2>3, <2>5
    <3> QED
      BY <1>1, <2>2, <2>4, <3>1 DEF FreshOf
  <2>6. CASE t.session = s
    <3>1. messages'[s] = messages[s] \o t.msgs
      BY <1>2, <2>1, <2>3, <2>6
    <3>2. /\ Increasing(t.msgs)
          /\ \A x \in ToSet(t.msgs) : x <= sent[s]
          /\ Older(ToSet(messages[s]) \cup ToSet(trace[s]), ToSet(t.msgs))
      BY <1>1, <2>4, <2>6
    <3>3. Increasing(messages[s] \o t.msgs)
      <4>1. Older(ToSet(messages[s]), ToSet(t.msgs))
        BY <3>2 DEF Older
      <4> QED
        BY <1>1, <1>2, <2>3, <3>2, <4>1, ConcatInOrder
    <3>4. ToSet(messages'[s]) = ToSet(messages[s]) \cup ToSet(t.msgs)
      BY <1>2, <2>3, <3>1, ConcatSet
    <3>5. \A i \in DOMAIN queue' : queue'[i].session = s =>
            Older(ToSet(messages'[s]) \cup ToSet(trace[s]), ToSet(queue'[i].msgs))
      <4> SUFFICES ASSUME NEW i \in DOMAIN queue', queue'[i].session = s
                   PROVE  Older(ToSet(messages'[s]) \cup ToSet(trace[s]), ToSet(queue'[i].msgs))
        OBVIOUS
      <4>1. Older(ToSet(messages[s]) \cup ToSet(trace[s]), ToSet(queue'[i].msgs))
        BY <1>1, <2>4
      <4>2. Older(ToSet(t.msgs), ToSet(queue'[i].msgs))
        BY <1>1, <2>4, <2>6
      <4> QED
        BY <3>4, <4>1, <4>2 DEF Older
    <3>6. \A i, j \in DOMAIN queue' : i < j /\ queue'[i].session = s /\ queue'[j].session = s =>
            Older(ToSet(queue'[i].msgs), ToSet(queue'[j].msgs))
      BY <1>1, <2>4
    <3>7. \A i \in DOMAIN queue' : queue'[i].session = s =>
            /\ Increasing(queue'[i].msgs)
            /\ \A x \in ToSet(queue'[i].msgs) : x <= sent[s]
      BY <1>1, <2>4
    <3> QED
      BY <1>1, <2>2, <3>1, <3>2, <3>3, <3>4, <3>5, <3>6, <3>7 DEF FreshOf
  <2> QED
    BY <2>5, <2>6
<1>11. CASE EndSession
  <2>1. PICK t \in TaskType : Popped(t) /\ messages' = [messages EXCEPT ![t.session] = <<>>]
    BY <1>11, Ends
  <2>2. trace' = trace /\ sent' = sent
    BY <1>11 DEF EndSession
  <2>4. /\ \A i \in DOMAIN queue' : i \in Nat /\ i + 1 \in DOMAIN queue
                                    /\ queue'[i] = queue[i + 1]
        /\ \A i, j \in DOMAIN queue' : i < j => i + 1 < j + 1
    BY <2>1 DEF Popped
  <2>5. messages'[s] = messages[s] \/ messages'[s] = <<>>
    BY <1>2, <2>1
  <2>6. Increasing(messages'[s]) /\ ToSet(messages'[s]) \subseteq ToSet(messages[s])
    BY <1>1, <1>5, <2>5
  <2>7. \A i \in DOMAIN queue' : queue'[i].session = s =>
          /\ Increasing(queue'[i].msgs)
          /\ \A x \in ToSet(queue'[i].msgs) : x <= sent[s]
          /\ Older(ToSet(messages'[s]) \cup ToSet(trace[s]), ToSet(queue'[i].msgs))
    BY <1>1, <2>4, <2>6 DEF Older
  <2>8. \A i, j \in DOMAIN queue' : i < j /\ queue'[i].session = s /\ queue'[j].session = s =>
          Older(ToSet(queue'[i].msgs), ToSet(queue'[j].msgs))
    BY <1>1, <2>4
  <2> QED
    BY <1>1, <2>2, <2>6, <2>7, <2>8 DEF FreshOf
<1>12. Left(TRUE) \/ Left(FALSE) =>
         queue' = queue \/ \E t \in TaskType : Appended(t) /\ t.msgs = <<>>
  BY DEF Left
<1>13. Tried \/ Skip \/ AgentReturns =>
         messages' = messages /\ sent' = sent /\ (Left(TRUE) \/ Left(FALSE))
  BY Skips, Learns DEF Tried
<1>14. BeginAgent \/ UNCHANGED vars => messages' = messages /\ sent' = sent /\ queue' = queue
  BY Begins DEF vars
<1>15. CASE Restart
  <2>1. queue' = <<>> /\ messages'[s] = <<>> /\ sent' = sent
    BY <1>15, Restarts
  <2>2. ToSet(messages'[s]) = {} /\ Increasing(messages'[s])
    BY <1>5, <2>1
  <2> QED
    BY <1>6, <2>1, <2>2 DEF FreshOf
<1> QED
  BY <1>7, <1>8, <1>9, <1>10, <1>11, <1>12, <1>13, <1>14, <1>15, Steps

(***************************************************************************)
(* The order of the trace, where the host hands over each message once.    *)
(***************************************************************************)

\* A traced message is one of the session, or older than the session's messages; and of
\* the messages a pass would append, those that are not newer than the trace are in it.
OrderOf(s) ==
  /\ Increasing(trace[s])
  /\ \A x \in ToSet(trace[s]) :
       x \in ToSet(messages[s]) \/ \A y \in ToSet(messages[s]) : x < y
  /\ \A i \in WindowFrom(messages[s], cursor[s]) + 1 .. Len(messages[s]) :
       \A x \in ToSet(trace[s]) :
         messages[s][i] <= x => messages[s][i] \in ToSet(trace[s])

OrderInv == ~host.transcript /\ SpansAreClosed => \A s \in Sessions : OrderOf(s)

LEMMA OrderInit == Init => OrderInv
<1> SUFFICES ASSUME Init, NEW s \in Sessions PROVE OrderOf(s)
  BY DEF OrderInv
<1>1. trace[s] = <<>> /\ ToSet(<<>>) = {} /\ Increasing(<<>>)
  BY DEF Init, ToSet, Increasing
<1> QED
  BY <1>1 DEF OrderOf

\* What a pass appends, by index.
LEMMA TracedIs ==
  ASSUME Types, NEW s \in Sessions
  PROVE  LET m == messages[s]
             w == WindowFrom(messages[s], cursor[s])
             t == TracedOf(s)
         IN  /\ w \in Nat /\ w <= Len(m) /\ Len(m) \in Nat /\ m \in Seq(Msg)
             /\ t \in Seq(Nat) /\ Len(t) = Len(m) - w
             /\ \A i \in 1 .. Len(m) - w : t[i] = m[w + i]
             /\ ToSet(t) = {m[i] : i \in w + 1 .. Len(m)}
<1> DEFINE m == messages[s]
           c == cursor[s]
           w == WindowFrom(m, c)
           t == TracedOf(s)
<1>1. m \in Seq(Msg) /\ c \in Int /\ t \in Seq(Nat)
  BY AppendingFacts DEF Types
<1>2. t = SelectForTrace(m, c)
  BY DEF TracedOf
<1> HIDE DEF m, c, t
<1>3. w \in From(m, c) .. Len(m) /\ From(m, c) \in Nat /\ Len(m) \in Nat
  BY <1>1, WindowFromFacts
<1>4. Len(t) = Len(m) - w /\ \A i \in 1 .. Len(m) - w : t[i] = m[w + i]
  BY <1>1, <1>2, TracedFacts
<1>5. ToSet(t) = {m[i] : i \in w + 1 .. Len(m)}
  BY <1>1, <1>2, TracedSet
<1> QED
  BY <1>1, <1>3, <1>4, <1>5 DEF m, c, t

LEMMA OrderAppended ==
  ASSUME Types, NEW s \in Sessions, OrderOf(s), Increasing(messages[s]), TracedOf(s) # <<>>
  PROVE  Increasing(AppendTrace(trace[s], TracedOf(s)))
<1> DEFINE m == messages[s]
           w == WindowFrom(messages[s], cursor[s])
           t == TracedOf(s)
           q == trace[s]
<1>1. /\ w \in Nat /\ w <= Len(m) /\ Len(m) \in Nat /\ m \in Seq(Msg)
      /\ t \in Seq(Nat) /\ Len(t) = Len(m) - w
      /\ \A i \in 1 .. Len(m) - w : t[i] = m[w + i]
      /\ ToSet(t) = {m[i] : i \in w + 1 .. Len(m)}
  BY TracedIs
<1>2. q \in Seq(Nat) /\ Increasing(q) /\ Increasing(m) /\ t # <<>>
  BY DEF Types, OrderOf
<1>3. \A x \in ToSet(q) : x \in ToSet(m) \/ \A y \in ToSet(m) : x < y
  BY DEF OrderOf
<1>4. \A i \in w + 1 .. Len(m) : \A x \in ToSet(q) : m[i] <= x => m[i] \in ToSet(q)
  BY DEF OrderOf
<1> HIDE DEF m, w, t, q
<1>5. DOMAIN m = 1 .. Len(m) /\ DOMAIN t = 1 .. Len(t) /\ (\A i \in 1 .. Len(m) : m[i] \in Nat)
      /\ Len(t) > 0
  BY <1>1, <1>2 DEF Msg
<1>6. Increasing(t)
  <2> SUFFICES ASSUME NEW i \in DOMAIN t, NEW j \in DOMAIN t, i < j PROVE t[i] < t[j]
    BY DEF Increasing
  <2>1. w + i \in DOMAIN m /\ w + j \in DOMAIN m /\ w + i < w + j
        /\ t[i] = m[w + i] /\ t[j] = m[w + j]
    BY <1>1, <1>5
  <2> QED
    BY <1>2, <2>1 DEF Increasing
<1>7. \A x \in ToSet(t) : (\E y \in ToSet(q) : x <= y) => x \in ToSet(q)
  BY <1>1, <1>4
<1>8. ASSUME NEW y \in ToSet(q), t[1] <= y PROVE y \in ToSet(t)
  <2>1. w + 1 \in DOMAIN m /\ t[1] = m[w + 1]
    BY <1>1, <1>5
  <2>2. m[w + 1] \in ToSet(m) /\ m[w + 1] \in Nat /\ y \in Nat
    BY <1>2, <1>5, <2>1 DEF ToSet
  <2>3. y \in ToSet(m)
    BY <1>3, <1>8, <2>1, <2>2
  <2>4. PICK j \in DOMAIN m : y = m[j]
    BY <2>3 DEF ToSet
  <2>5. ~(j < w + 1)
    BY <1>2, <1>8, <2>1, <2>2, <2>4 DEF Increasing
  <2>6. j \in w + 1 .. Len(m)
    BY <1>1, <1>5, <2>5
  <2> QED
    BY <1>1, <2>4, <2>6
<1>9. Increasing(AppendTrace(q, t))
  BY <1>1, <1>2, <1>6, <1>7, <1>8, AppendInOrder
<1> QED
  BY <1>9 DEF q, t

LEMMA IncreasingPrefix ==
  ASSUME NEW q \in Seq(Nat), Increasing(q), NEW n \in 0 .. Len(q)
  PROVE  Increasing(SubSeq(q, 1, n))
<1> DEFINE r == SubSeq(q, 1, n)
<1>1. r \in Seq(Nat) /\ Len(r) = n /\ n \in Nat /\ \A i \in 1 .. n : r[i] = q[i]
  BY Prefix
<1>2. Len(q) \in Nat /\ DOMAIN q = 1 .. Len(q)
  OBVIOUS
<1> HIDE DEF r
<1>3. DOMAIN r = 1 .. n
  BY <1>1
<1>4. \A i \in DOMAIN r : i \in DOMAIN q /\ r[i] = q[i]
  BY <1>1, <1>2, <1>3
<1>5. Increasing(r)
  BY <1>4 DEF Increasing
<1> QED
  BY <1>5 DEF r

\* A trace write has something to write.
LEMMA SomethingTraced ==
  ASSUME Types, NEW s \in Sessions,
         \/ From(messages[s], cursor[s]) < Len(messages[s])
         \/ \E q \in Seq(Nat) : NewLines(q, TracedOf(s)) # <<>>
  PROVE  TracedOf(s) # <<>>
<1> DEFINE m == messages[s]
           c == cursor[s]
           t == TracedOf(s)
<1>1. m \in Seq(Msg) /\ c \in Int
  BY DEF Types
<1>2. t \in Seq(Nat) /\ Len(t) = Len(m) - WindowFrom(m, c)
  BY TracedIs
<1>3. CASE From(m, c) < Len(m)
  <2> HIDE DEF m, c, t
  <2>1. WindowFrom(m, c) < Len(m) /\ WindowFrom(m, c) \in From(m, c) .. Len(m)
        /\ From(m, c) \in Nat /\ Len(m) \in Nat
    BY <1>1, <1>3, WindowFromFacts
  <2>2. Len(t) > 0
    BY <1>2, <2>1
  <2>3. t # <<>>
    BY <2>2
  <2> QED
    BY <2>3 DEF t
<1>4. ASSUME NEW q \in Seq(Nat), NewLines(q, t) # <<>> PROVE t # <<>>
  <2> HIDE DEF m, c, t
  <2>1. NewLines(q, t) \in Seq(Nat) /\ Len(NewLines(q, t)) = Len(t) - Overlap(q, t)
    BY <1>2, NewLinesFacts
  <2>2. Overlap(q, t) \in Nat /\ Overlap(q, t) <= Len(t)
    BY <1>2, OverlapFacts
  <2>3. Len(t) = 0 => Len(NewLines(q, t)) = 0
    BY <2>1, <2>2
  <2> QED
    BY <1>2, <1>4, <2>1, <2>3
<1> QED
  BY <1>3, <1>4

\* The windows only move on while messages are added.
LEMMA WindowMovesOn ==
  ASSUME NEW m \in Seq(Msg), NEW a \in Seq(Msg), NEW c \in Int
  PROVE  /\ From(m \o a, c) >= From(m, c)
         /\ WindowFrom(m \o a, c) >= WindowFrom(m, c)
         /\ From(m, c) \in Nat /\ WindowFrom(m, c) \in Nat
         /\ From(m \o a, c) \in Nat /\ WindowFrom(m \o a, c) \in Nat
<1> DEFINE l == m \o a
<1>1. l \in Seq(Msg) /\ Len(l) = Len(m) + Len(a) /\ Len(m) \in Nat /\ Len(a) \in Nat
  BY ConcatFacts
<1> HIDE DEF l
<1>2. /\ From(m, c) \in Nat /\ WindowFrom(m, c) \in From(m, c) .. Len(m)
      /\ From(l, c) \in Nat /\ WindowFrom(l, c) \in From(l, c) .. Len(l)
  BY <1>1, WindowFromFacts
<1>3. From(l, c) >= From(m, c)
  BY <1>1 DEF From, FirstRun
<1>4. WindowFrom(l, c) >= WindowFrom(m, c)
  BY <1>1, <1>2, <1>3 DEF WindowFrom
<1> QED
  BY <1>1, <1>2, <1>3, <1>4 DEF l

LEMMA OrderNext ==
  Types /\ CleanInv /\ FreshInv /\ OrderInv /\ [Next]_vars => OrderInv'
<1> SUFFICES ASSUME Types, CleanInv, FreshInv, OrderInv, [Next]_vars,
                    (~host.transcript /\ SpansAreClosed)', NEW s \in Sessions
             PROVE  OrderOf(s)'
  BY DEF OrderInv
<1>0. OrderOf(s) /\ FreshOf(s) /\ SpansAreClosed /\ host' = host
  BY HostStays DEF OrderInv, FreshInv
<1>1. /\ Increasing(trace[s]) /\ Increasing(messages[s])
      /\ \A x \in ToSet(trace[s]) :
           x \in ToSet(messages[s]) \/ \A y \in ToSet(messages[s]) : x < y
      /\ \A i \in WindowFrom(messages[s], cursor[s]) + 1 .. Len(messages[s]) :
           \A x \in ToSet(trace[s]) :
             messages[s][i] <= x => messages[s][i] \in ToSet(trace[s])
  BY <1>0 DEF OrderOf, FreshOf
<1>2. messages \in [Sessions -> Seq(Msg)] /\ cursor \in [Sessions -> Int]
      /\ messages[s] \in Seq(Msg) /\ Len(messages[s]) \in Nat /\ cursor[s] \in Int
  BY DEF Types
<1>3. Redact(trace[s]) = trace[s] /\ Appending(s) = AppendTrace(trace[s], TracedOf(s))
      /\ ToSet(Appending(s)) = ToSet(trace[s]) \cup ToSet(TracedOf(s))
      /\ trace[s] \in Seq(Nat) /\ Appending(s) \in Seq(Nat)
  BY <1>0, Clean, AppendingFacts
<1>4. CASE trace'[s] = trace[s] /\ messages'[s] = messages[s] /\ cursor'[s] = cursor[s]
  BY <1>1, <1>4 DEF OrderOf
<1>5. ASSUME NEW r \in Sessions, HostEnd(r) PROVE OrderOf(s)'
  BY <1>4, <1>5 DEF HostEnd
<1>6. ASSUME NEW r \in Sessions, NEW n \in 1 .. MaxTurn, HostTurn(r, n) PROVE OrderOf(s)'
  BY <1>4, <1>6 DEF HostTurn
<1>7. CASE StartExtraction
  <2>1. PICK t \in TaskType :
          /\ Popped(t)
          /\ messages' = [messages EXCEPT ![t.session] = messages[t.session] \o t.msgs]
    BY <1>7, Starts
  <2>2. trace' = trace /\ cursor' = cursor
    BY <1>7 DEF StartExtraction
  <2>3. t.session \in Sessions /\ t.msgs \in Seq(Msg)
    BY TaskFields
  <2>5. CASE t.session # s
    <3>1. messages'[s] = messages[s]
      BY <1>2, <2>1, <2>3, <2>5
    <3> QED
      BY <1>4, <2>2, <3>1
  <2>6. CASE t.session = s
    <3> DEFINE m == messages[s]
               a == t.msgs
               l == messages[s] \o t.msgs
               c == cursor[s]
    <3>1. messages'[s] = l
      BY <1>2, <2>1, <2>3, <2>6
    <3>2. Older(ToSet(m) \cup ToSet(trace[s]), ToSet(a))
      <4>1. 1 \in DOMAIN queue /\ queue[1] = t
        BY <2>1 DEF Popped
      <4> QED
        BY <1>0, <2>6, <4>1 DEF FreshOf
    <3>3. m \in Seq(Msg) /\ a \in Seq(Msg) /\ c \in Int
      BY <1>2, <2>3
    <3> HIDE DEF m, a, c
    <3>4. l = m \o a
      BY DEF m, a
    <3> HIDE DEF l
    <3>5. /\ l \in Seq(Msg) /\ Len(l) = Len(m) + Len(a) /\ Len(m) \in Nat /\ Len(a) \in Nat
          /\ \A i \in 1 .. Len(m) : l[i] = m[i]
          /\ \A i \in 1 .. Len(a) : l[Len(m) + i] = a[i]
          /\ ToSet(l) = ToSet(m) \cup ToSet(a)
      BY <3>3, <3>4, ConcatFacts, ConcatSet
    <3>6. WindowFrom(l, c) >= WindowFrom(m, c) /\ WindowFrom(m, c) \in Nat
          /\ WindowFrom(l, c) \in Nat
      BY <3>3, <3>4, WindowMovesOn
    <3>7. \A x \in ToSet(trace[s]) : x \in Nat
      BY <1>3 DEF ToSet
    <3>8. ASSUME NEW x \in ToSet(trace[s])
          PROVE  x \in ToSet(l) \/ \A y \in ToSet(l) : x < y
      <4>1. x \in ToSet(m) \/ \A y \in ToSet(m) : x < y
        BY <1>1 DEF m
      <4>2. \A y \in ToSet(a) : x < y
        BY <3>2 DEF Older
      <4> QED
        BY <3>5, <4>1, <4>2
    <3>9. ASSUME NEW i \in WindowFrom(l, c) + 1 .. Len(l), NEW x \in ToSet(trace[s]), l[i] <= x
          PROVE  l[i] \in ToSet(trace[s])
      <4>1. CASE i <= Len(m)
        <5>1. i \in WindowFrom(m, c) + 1 .. Len(m) /\ l[i] = m[i]
          BY <3>5, <3>6, <4>1
        <5>2. m[i] <= x => m[i] \in ToSet(trace[s])
          BY <1>1, <5>1 DEF m, c
        <5> QED
          BY <3>9, <5>1, <5>2
      <4>2. CASE i > Len(m)
        <5>1. i - Len(m) \in 1 .. Len(a) /\ Len(m) + (i - Len(m)) = i
          BY <3>5, <3>6, <4>2
        <5>2. l[i] = a[i - Len(m)] /\ a[i - Len(m)] \in ToSet(a) /\ a[i - Len(m)] \in Nat
          <6>1. i - Len(m) \in DOMAIN a /\ DOMAIN a = 1 .. Len(a)
            BY <3>3, <5>1
          <6>2. l[i] = a[i - Len(m)]
            BY <3>5, <5>1
          <6>3. a[i - Len(m)] \in Msg
            BY <3>3, <6>1
          <6> QED
            BY <6>1, <6>2, <6>3 DEF ToSet, Msg
        <5>3. x < l[i]
          BY <3>2, <5>2 DEF Older
        <5> QED
          BY <3>7, <3>9, <5>2, <5>3
      <4> QED
        BY <3>5, <3>6, <4>1, <4>2
    <3> QED
      BY <1>1, <2>2, <3>1, <3>8, <3>9 DEF OrderOf, c
  <2> QED
    BY <2>5, <2>6
\* Steps that leave no message of the session, or none that is new.
<1>8. ASSUME \/ trace'[s] = trace[s]
             \/ \E n \in 0 .. Len(Appending(s)) :
                  TracedOf(s) # <<>> /\ trace'[s] = SubSeq(Appending(s), 1, n),
             messages'[s] = <<>>
      PROVE  OrderOf(s)'
  <2>1. ToSet(<<>>) = {} /\ Len(<<>>) = 0
    BY DEF ToSet
  <2>2. ASSUME TracedOf(s) # <<>> PROVE Increasing(Appending(s))
    BY <1>0, <1>1, <1>3, <2>2, OrderAppended
  <2>3. Increasing(trace'[s])
    BY <1>1, <1>3, <1>8, <2>2, IncreasingPrefix
  <2>4. WindowFrom(<<>>, cursor'[s]) + 1 .. 0 = {}
    <3>1. cursor'[s] \in Int
      BY TypesNext DEF Types
    <3>2. <<>> \in Seq(Msg) /\ Len(<<>>) = 0
      BY EmptyIsSeq
    <3>3. WindowFrom(<<>>, cursor'[s]) \in From(<<>>, cursor'[s]) .. 0
          /\ From(<<>>, cursor'[s]) \in Nat
      <4> DEFINE c == cursor'[s]
                 e == <<>>
      <4>1. e \in Seq(Msg) /\ Len(e) = 0 /\ c \in Int
        BY <3>1, <3>2
      <4> HIDE DEF c, e
      <4>2. WindowFrom(e, c) \in From(e, c) .. Len(e) /\ From(e, c) \in Nat
        BY <4>1, WindowFromFacts
      <4> QED
        BY <4>1, <4>2 DEF c, e
    <3> QED
      BY <3>3
  <2> QED
    BY <1>8, <2>1, <2>3, <2>4 DEF OrderOf
<1>9. CASE EndSession
  <2>1. PICK t \in TaskType : messages' = [messages EXCEPT ![t.session] = <<>>]
    BY <1>9, Ends
  <2>2. UNCHANGED <<cursor, trace>>
    BY <1>9 DEF EndSession
  <2>3. messages'[s] = messages[s] \/ messages'[s] = <<>>
    BY <1>2, <2>1
  <2> QED
    BY <1>4, <1>8, <2>2, <2>3
<1>10. CASE Tried \/ Skip
  <2>1. UNCHANGED <<messages, cursor>>
    BY <1>10, Skips DEF Tried
  <2>2. trace'[s] = trace[s]
    BY <1>3, <1>10, Skips, RedactedTypes DEF Tried
  <2> QED
    BY <1>4, <2>1, <2>2
<1>11. CASE BeginAgent
  <2> DEFINE p == pass.session
  <2>1. UNCHANGED <<messages, cursor>> /\ From(messages[p], cursor[p]) < Len(messages[p])
        /\ p \in Sessions
    BY <1>11, Begins
  <2>2. trace'[s] = IF s = p THEN Appending(s) ELSE trace[s]
    <3>1. RedactedTraces \in [Sessions -> Seq(Nat)] /\ RedactedTraces[s] = Redact(trace[s])
          /\ trace' = [RedactedTraces EXCEPT ![p] = AppendTrace(RedactedTraces[p], TracedOf(p))]
      BY <1>11, Begins, RedactedTypes DEF TracedOf
    <3> HIDE DEF p
    <3>2. s = p => trace'[s] = AppendTrace(RedactedTraces[s], TracedOf(s))
      BY <3>1
    <3>3. s # p => trace'[s] = RedactedTraces[s]
      BY <3>1
    <3> QED
      BY <1>3, <3>1, <3>2, <3>3
  <2> HIDE DEF p
  <2>3. CASE s # p
    BY <1>4, <2>1, <2>2, <2>3
  <2>4. CASE s = p
    <3>1. TracedOf(s) # <<>>
      BY <2>1, <2>4, SomethingTraced
    <3>2. Increasing(Appending(s))
      BY <1>0, <1>1, <1>3, <3>1, OrderAppended
    <3>3. ToSet(TracedOf(s)) =
            {messages[s][i] : i \in WindowFrom(messages[s], cursor[s]) + 1 .. Len(messages[s])}
      BY TracedIs
    <3>4. ToSet(TracedOf(s)) \subseteq ToSet(messages[s])
      BY AppendingFacts
    <3>5. trace'[s] = Appending(s)
      BY <2>2, <2>4
    <3>6. \A x \in ToSet(Appending(s)) :
            x \in ToSet(messages[s]) \/ \A y \in ToSet(messages[s]) : x < y
      BY <1>1, <1>3, <3>4
    <3>7. \A i \in WindowFrom(messages[s], cursor[s]) + 1 .. Len(messages[s]) :
            messages[s][i] \in ToSet(Appending(s))
      BY <1>3, <3>3
    <3> QED
      BY <2>1, <3>2, <3>5, <3>6, <3>7 DEF OrderOf
  <2> QED
    BY <2>3, <2>4
<1>12. CASE AgentReturns
  <2> DEFINE p == pass.session
  <2>1. cursor' = [cursor EXCEPT ![p] = Len(messages[p]) - 1] /\ p \in Sessions
        /\ UNCHANGED <<messages, trace>>
    BY <1>12, Learns
  <2> HIDE DEF p
  <2>2. CASE s # p
    BY <1>2, <1>4, <2>1, <2>2
  <2>3. CASE s = p
    <3>1. cursor'[s] = Len(messages[s]) - 1
      BY <1>2, <2>1, <2>3
    <3>2. From(messages[s], cursor'[s]) = Len(messages[s])
      BY <1>2, <3>1 DEF From, FirstRun
    <3>3. WindowFrom(messages[s], cursor'[s]) = Len(messages[s])
      BY <1>2, <3>2 DEF WindowFrom
    <3>4. WindowFrom(messages[s], cursor'[s]) + 1 .. Len(messages[s]) = {}
      BY <1>2, <3>3
    <3> QED
      BY <1>1, <2>1, <3>4 DEF OrderOf
  <2> QED
    BY <2>2, <2>3
<1>13. CASE Restart
  <2>1. messages'[s] = <<>>
    BY <1>13, Restarts
  <2>2. pass'.phase # "agent"
    BY <1>13, Restarts DEF Idle
  <2>3. ~BeginAgent
    BY <2>2, Begins
  <2>4. ASSUME NewLines(Redact(trace[s]), TracedOf(s)) # <<>> PROVE TracedOf(s) # <<>>
    BY <1>3, <2>4, SomethingTraced
  <2> QED
    BY <1>3, <1>8, <2>1, <2>3, <2>4, TraceSteps
<1>14. CASE UNCHANGED vars
  BY <1>4, <1>14 DEF vars
<1> QED
  BY <1>5, <1>6, <1>7, <1>9, <1>10, <1>11, <1>12, <1>13, <1>14, Steps

(***************************************************************************)
(* The lines a pass cites.                                                 *)
(***************************************************************************)

\* While no pass has failed, new messages are not in the trace before a pass has put them
\* there.
NewOf(s) ==
  (pass.phase = "agent" /\ pass.session = s)
    \/ \A i \in From(messages[s], cursor[s]) + 1 .. Len(messages[s]) :
         messages[s][i] \notin ToSet(trace[s])

NewInv == ~host.transcript /\ failures = 0 => \A s \in Sessions : NewOf(s)

LEMMA NewInit == Init => NewInv
<1> SUFFICES ASSUME Init, NEW s \in Sessions PROVE NewOf(s)
  BY DEF NewInv
<1>1. trace[s] = <<>> /\ ToSet(<<>>) = {}
  BY DEF Init, ToSet
<1> QED
  BY <1>1 DEF NewOf

LEMMA NewNext == Types /\ FreshInv /\ NewInv /\ [Next]_vars => NewInv'
<1> SUFFICES ASSUME Types, FreshInv, NewInv, [Next]_vars,
                    (~host.transcript /\ failures = 0)', NEW s \in Sessions
             PROVE  NewOf(s)'
  BY DEF NewInv
<1>0. NewOf(s) /\ FreshOf(s) /\ ~Tried
  <2>1. host' = host /\ failures = 0 /\ failures' = 0
    BY HostStays DEF Types
  <2> QED
    BY <2>1 DEF NewInv, FreshInv, Tried
<1>1. /\ (pass.phase = "agent" /\ pass.session = s)
           \/ \A i \in From(messages[s], cursor[s]) + 1 .. Len(messages[s]) :
                messages[s][i] \notin ToSet(trace[s])
  BY <1>0 DEF NewOf
<1>2. messages \in [Sessions -> Seq(Msg)] /\ cursor \in [Sessions -> Int]
      /\ messages[s] \in Seq(Msg) /\ Len(messages[s]) \in Nat /\ cursor[s] \in Int
  BY DEF Types
<1>3. CASE /\ ToSet(trace'[s]) \subseteq ToSet(trace[s]) \cup {0}
           /\ UNCHANGED <<messages, cursor>>
           /\ ~(pass.phase = "agent" /\ pass.session = s) \/ pass' = pass
  <2>1. From(messages[s], cursor[s]) \in Nat
    BY <1>2, WindowFromFacts
  <2>2. \A i \in From(messages[s], cursor[s]) + 1 .. Len(messages[s]) : messages[s][i] \in Msg
    BY <1>2, <2>1
  <2> QED
    BY <1>1, <1>3, <2>2 DEF NewOf, Msg
<1>4. ASSUME NEW r \in Sessions, HostEnd(r) PROVE NewOf(s)'
  BY <1>3, <1>4 DEF HostEnd
<1>5. ASSUME NEW r \in Sessions, NEW n \in 1 .. MaxTurn, HostTurn(r, n) PROVE NewOf(s)'
  BY <1>3, <1>5 DEF HostTurn
<1>6. CASE StartExtraction
  <2>1. PICK t \in TaskType :
          /\ Popped(t) /\ pass = Idle
          /\ messages' = [messages EXCEPT ![t.session] = messages[t.session] \o t.msgs]
    BY <1>6, Starts
  <2>2. trace' = trace /\ cursor' = cursor
    BY <1>6 DEF StartExtraction
  <2>3. t.session \in Sessions /\ t.msgs \in Seq(Msg)
    BY TaskFields
  <2>4. \A i \in From(messages[s], cursor[s]) + 1 .. Len(messages[s]) :
          messages[s][i] \notin ToSet(trace[s])
    BY <1>1, <2>1 DEF Idle
  <2>5. CASE t.session # s
    <3>1. messages'[s] = messages[s]
      BY <1>2, <2>1, <2>3, <2>5
    <3> QED
      BY <2>2, <2>4, <3>1 DEF NewOf
  <2>6. CASE t.session = s
    <3> DEFINE m == messages[s]
               a == t.msgs
               l == messages[s] \o t.msgs
               c == cursor[s]
    <3>1. messages'[s] = l
      BY <1>2, <2>1, <2>3, <2>6
    <3>2. Older(ToSet(m) \cup ToSet(trace[s]), ToSet(a))
      <4>1. 1 \in DOMAIN queue /\ queue[1] = t
        BY <2>1 DEF Popped
      <4> QED
        BY <1>0, <2>6, <4>1 DEF FreshOf
    <3>3. m \in Seq(Msg) /\ a \in Seq(Msg) /\ c \in Int
      BY <1>2, <2>3
    <3> HIDE DEF m, a, c
    <3>4. l = m \o a
      BY DEF m, a
    <3> HIDE DEF l
    <3>5. /\ l \in Seq(Msg) /\ Len(l) = Len(m) + Len(a) /\ Len(m) \in Nat /\ Len(a) \in Nat
          /\ \A i \in 1 .. Len(m) : l[i] = m[i]
          /\ \A i \in 1 .. Len(a) : l[Len(m) + i] = a[i]
      BY <3>3, <3>4, ConcatFacts
    <3>6. From(l, c) >= From(m, c) /\ From(m, c) \in Nat /\ From(l, c) \in Nat
      BY <3>3, <3>4, WindowMovesOn
    <3>7. ASSUME NEW i \in From(l, c) + 1 .. Len(l) PROVE l[i] \notin ToSet(trace[s])
      <4>1. CASE i <= Len(m)
        <5>1. i \in From(m, c) + 1 .. Len(m) /\ l[i] = m[i]
          BY <3>5, <3>6, <4>1
        <5> QED
          BY <2>4, <5>1 DEF m, c
      <4>2. CASE i > Len(m)
        <5>1. i - Len(m) \in 1 .. Len(a) /\ Len(m) + (i - Len(m)) = i
          BY <3>5, <3>6, <4>2
        <5>2. i - Len(m) \in DOMAIN a /\ DOMAIN a = 1 .. Len(a)
          BY <3>3, <5>1
        <5>3. l[i] = a[i - Len(m)]
          BY <3>5, <5>1
        <5>4. a[i - Len(m)] \in Msg
          BY <3>3, <5>2
        <5>5. l[i] \in ToSet(a) /\ l[i] \in Nat
          BY <5>2, <5>3, <5>4 DEF ToSet, Msg
        <5> QED
          BY <3>2, <5>5 DEF Older
      <4> QED
        BY <3>5, <3>6, <4>1, <4>2
    <3> QED
      BY <2>2, <3>1, <3>7 DEF NewOf, c
  <2> QED
    BY <2>5, <2>6
\* Steps that leave no message of the session, or none that is new.
<1>7. ASSUME messages'[s] = <<>> \/ From(messages'[s], cursor'[s]) = Len(messages'[s])
      PROVE  NewOf(s)'
  <2>1. messages'[s] \in Seq(Msg) /\ cursor'[s] \in Int
    BY TypesNext DEF Types
  <2>2. From(messages'[s], cursor'[s]) \in 0 .. Len(messages'[s]) /\ Len(messages'[s]) \in Nat
    <3> DEFINE m == messages'[s]
               c == cursor'[s]
    <3>1. m \in Seq(Msg) /\ c \in Int
      BY <2>1
    <3> HIDE DEF m, c
    <3>2. From(m, c) \in 0 .. Len(m)
      BY <3>1, UnprocessedFacts
    <3>3. Len(m) \in Nat
      BY <3>1
    <3> QED
      BY <3>2, <3>3 DEF m, c
  <2>3. From(messages'[s], cursor'[s]) = Len(messages'[s])
    BY <1>7, <2>2
  <2>4. From(messages'[s], cursor'[s]) + 1 .. Len(messages'[s]) = {}
    BY <2>2, <2>3
  <2> QED
    BY <2>4 DEF NewOf
<1>8. CASE EndSession
  <2>1. PICK t \in TaskType : messages' = [messages EXCEPT ![t.session] = <<>>] /\ pass' = pass
    BY <1>8, Ends
  <2>2. UNCHANGED <<cursor, trace>>
    BY <1>8 DEF EndSession
  <2>3. messages'[s] = messages[s] \/ messages'[s] = <<>>
    BY <1>2, <2>1
  <2>4. CASE messages'[s] = messages[s]
    BY <1>1, <2>1, <2>2, <2>4 DEF NewOf
  <2> QED
    BY <1>7, <2>3, <2>4
<1>9. CASE Skip
  <2>1. UNCHANGED <<messages, cursor>> /\ pass.phase = "locking"
    BY <1>9, Skips
  <2>2. ToSet(trace'[s]) \subseteq ToSet(trace[s]) \cup {0}
    BY <1>9, Skips, RedactedTypes, AppendingFacts
  <2> QED
    BY <1>3, <2>1, <2>2
<1>10. CASE BeginAgent
  <2> DEFINE p == pass.session
  <2>1. /\ UNCHANGED <<messages, cursor>> /\ p \in Sessions /\ pass.phase = "locking"
        /\ pass'.phase = "agent" /\ pass'.session = p
    BY <1>10, Begins
  <2>2. s # p => trace'[s] = Redact(trace[s])
    <3>1. RedactedTraces \in [Sessions -> Seq(Nat)] /\ RedactedTraces[s] = Redact(trace[s])
          /\ trace' = [RedactedTraces EXCEPT ![p] = AppendTrace(RedactedTraces[p], TracedOf(p))]
      BY <1>10, Begins, RedactedTypes DEF TracedOf
    <3> HIDE DEF p
    <3> QED
      BY <3>1
  <2> HIDE DEF p
  <2>3. ToSet(Redact(trace[s])) \subseteq ToSet(trace[s]) \cup {0}
    BY AppendingFacts
  <2>4. CASE s = p
    BY <2>1, <2>4 DEF NewOf
  <2> QED
    BY <1>3, <2>1, <2>2, <2>3, <2>4
<1>11. CASE AgentReturns
  <2> DEFINE p == pass.session
  <2>1. cursor' = [cursor EXCEPT ![p] = Len(messages[p]) - 1] /\ p \in Sessions
        /\ UNCHANGED <<messages, trace>>
    BY <1>11, Learns
  <2>2. CASE s # p
    <3>1. cursor'[s] = cursor[s] /\ messages'[s] = messages[s] /\ trace'[s] = trace[s]
      BY <1>2, <2>1, <2>2
    <3> QED
      BY <1>1, <2>2, <3>1 DEF NewOf
  <2>3. CASE s = p
    <3>1. cursor'[s] = Len(messages[s]) - 1
      BY <1>2, <2>1, <2>3
    <3>2. From(messages[s], cursor'[s]) = Len(messages[s])
      BY <1>2, <3>1 DEF From, FirstRun
    <3> QED
      BY <1>7, <2>1, <3>2
  <2> QED
    BY <2>2, <2>3
<1>12. CASE Restart
  BY <1>7, <1>12, Restarts
<1>13. CASE UNCHANGED vars
  BY <1>1, <1>13 DEF vars, NewOf
<1> QED
  BY <1>0, <1>4, <1>5, <1>6, <1>8, <1>9, <1>10, <1>11, <1>12, <1>13, Steps

\* Lines that are all new are cited where they are appended.
LEMMA NewLinesAreCited ==
  ASSUME NEW q \in Seq(Nat), NEW t \in Seq(Nat), t # <<>>, ToSet(t) \cap ToSet(q) = {}
  PROVE  ToSet(t) \subseteq ToSet(Cited(AppendTrace(q, t), SourceRef(q, t)))
<1> DEFINE n == Overlap(q, t)
           a == NewLines(q, t)
           r == AppendTrace(q, t)
           ref == SourceRef(q, t)
           c == Cited(r, ref)
<1>1. Len(q) \in Nat /\ Len(t) \in Nat /\ Len(t) > 0
      /\ DOMAIN q = 1 .. Len(q) /\ DOMAIN t = 1 .. Len(t)
  OBVIOUS
<1>2. n = 0
  <2>1. n \in Nat /\ n <= Len(q) /\ n <= Len(t) /\ (n > 0 => Overlaps(q, t, n))
    BY OverlapFacts
  <2> SUFFICES ASSUME n > 0 PROVE FALSE
    BY <2>1
  <2> HIDE DEF n
  <2>2. n \in Nat \ {0} /\ Overlaps(q, t, n)
    BY <2>1
  <2>3. \A i \in 1 .. n : t[i] = q[Len(q) - n + i]
    BY <2>2, OverlapElements
  <2>4. t[1] = q[Len(q) - n + 1] /\ 1 \in DOMAIN t /\ Len(q) - n + 1 \in DOMAIN q
    BY <1>1, <2>1, <2>2, <2>3
  <2> QED
    BY <2>4 DEF ToSet
<1>3. a \in Seq(Nat) /\ Len(a) = Len(t) - n /\ \A i \in 1 .. Len(t) - n : a[i] = t[n + i]
  BY NewLinesFacts
<1>4. r \in Seq(Nat) /\ Len(r) = Len(q) + (Len(t) - n)
      /\ \A i \in 1 .. Len(t) - n : r[Len(q) + i] = t[n + i]
  BY AppendedNumbers
<1>5. ref = [start |-> IF a # <<>> THEN Len(q) + 1 ELSE Len(q) - n + 1, end |-> Len(q) + Len(a)]
  BY DEF SourceRef
<1>6. c = SubSeq(r, ref.start, ref.end)
  BY DEF Cited
<1> HIDE DEF n, a, r, ref, c
<1>7. a # <<>> /\ Len(a) = Len(t)
  BY <1>1, <1>2, <1>3
<1>8. ref.start = Len(q) + 1 /\ ref.end = Len(q) + Len(t)
  BY <1>5, <1>7
<1>9. Len(r) = Len(q) + Len(t) /\ \A i \in 1 .. Len(t) : r[Len(q) + i] = t[i]
  BY <1>1, <1>2, <1>4
<1> DEFINE x == Len(q) + 1
           y == Len(q) + Len(t)
<1>10. x \in 1 .. Len(r) + 1 /\ y \in 0 .. Len(r) /\ x <= y + 1
  BY <1>1, <1>9
<1>11. c = SubSeq(r, x, y)
  BY <1>6, <1>8
<1> HIDE DEF x, y
<1>12. c \in Seq(Nat) /\ Len(c) = y - x + 1 /\ \A i \in 1 .. y - x + 1 : c[i] = r[x + i - 1]
  <2>1. r \in Seq(Nat) /\ x \in 1 .. Len(r) + 1
    BY <1>4, <1>10
  <2>2. y \in 0 .. Len(r) /\ x <= y + 1
    BY <1>10
  <2> QED
    BY <1>11, <2>1, <2>2, SubSeqFacts, SMTT(30)
<1>13. y - x + 1 = Len(t) /\ \A i \in 1 .. Len(t) : x + i - 1 = Len(q) + i
  BY <1>1 DEF x, y
<1>14. \A i \in 1 .. Len(t) : c[i] = t[i]
  BY <1>9, <1>12, <1>13
<1>15. DOMAIN c = DOMAIN t
  BY <1>1, <1>12, <1>13
<1>16. ToSet(t) \subseteq ToSet(c)
  BY <1>1, <1>14, <1>15 DEF ToSet
<1> QED
  BY <1>16 DEF c, r, ref

LEMMA RefInit == Init => RefCoversPass
BY DEF Init, RefCoversPass, Idle

LEMMA RefNext == Types /\ NewInv /\ RefCoversPass /\ [Next]_vars => RefCoversPass'
<1> SUFFICES ASSUME Types, NewInv, RefCoversPass, [Next]_vars, (pass.phase = "agent")',
                    ~host'.transcript, failures' = 0
             PROVE  ToSet(pass'.traced) \subseteq ToSet(Cited(trace'[pass'.session], pass'.ref))
  BY DEF RefCoversPass
<1>0. ~host.transcript /\ failures = 0
  BY HostStays DEF Types
<1>1. CASE pass' = pass /\ trace' = trace
  BY <1>0, <1>1 DEF RefCoversPass
<1>2. ASSUME NEW r \in Sessions, HostEnd(r) PROVE pass' = pass /\ trace' = trace
  BY <1>2 DEF HostEnd
<1>3. ASSUME NEW r \in Sessions, NEW n \in 1 .. MaxTurn, HostTurn(r, n)
      PROVE  pass' = pass /\ trace' = trace
  BY <1>3 DEF HostTurn
<1>4. UNCHANGED vars => pass' = pass /\ trace' = trace
  BY DEF vars
<1>5. ~StartExtraction /\ ~Tried /\ ~Skip /\ ~AgentReturns /\ ~Restart
  BY Starts, Skips, Learns, Restarts DEF Idle, Tried, Left
<1>6. EndSession => pass' = pass /\ trace' = trace
  BY DEF EndSession
<1>7. CASE BeginAgent
  <2> DEFINE s == pass.session
             q == Redact(trace[s])
             t == TracedOf(s)
  <2>1. /\ s \in Sessions /\ pass'.session = s /\ pass'.traced = t
        /\ pass'.ref = SourceRef(RedactedTraces[s], t)
        /\ pass.phase = "locking" /\ From(messages[s], cursor[s]) < Len(messages[s])
    BY <1>7, Begins DEF TracedOf
  <2>2. RedactedTraces \in [Sessions -> Seq(Nat)] /\ RedactedTraces[s] = q
        /\ trace' = [RedactedTraces EXCEPT ![s] = AppendTrace(RedactedTraces[s], t)]
    BY <1>7, <2>1, Begins, RedactedTypes DEF TracedOf
  <2>3. trace'[s] = AppendTrace(q, t) /\ pass'.ref = SourceRef(q, t)
    <3> HIDE DEF s, q, t
    <3> QED
      BY <2>1, <2>2
  <2>4. t # <<>>
    BY <2>1, SomethingTraced
  <2>5. q \in Seq(Nat) /\ t \in Seq(Nat) /\ t \in Seq(Msg)
        /\ ToSet(q) \subseteq ToSet(trace[s]) \cup {0}
    BY <2>1, AppendingFacts
  <2>6. NewOf(s)
    BY <1>0, <2>1 DEF NewInv
  <2>7. \A i \in From(messages[s], cursor[s]) + 1 .. Len(messages[s]) :
          messages[s][i] \notin ToSet(trace[s])
    BY <2>1, <2>6 DEF NewOf
  <2>8. ToSet(t) =
          {messages[s][i] : i \in WindowFrom(messages[s], cursor[s]) + 1 .. Len(messages[s])}
    BY <2>1, TracedIs
  <2>9. messages[s] \in Seq(Msg) /\ cursor[s] \in Int
    BY <2>1 DEF Types
  <2>10. WindowFrom(messages[s], cursor[s]) \in From(messages[s], cursor[s]) .. Len(messages[s])
         /\ From(messages[s], cursor[s]) \in Nat /\ Len(messages[s]) \in Nat
    BY <2>9, WindowFromFacts
  <2>11. ToSet(t) \cap ToSet(trace[s]) = {}
    BY <2>7, <2>8, <2>10
  <2>12. 0 \notin ToSet(t)
    <3> HIDE DEF t
    <3> QED
      BY <2>5, MsgIsNat DEF Msg
  <2>13. ToSet(t) \cap ToSet(q) = {}
    BY <2>5, <2>11, <2>12
  <2> HIDE DEF s, q, t
  <2>14. ToSet(t) \subseteq ToSet(Cited(AppendTrace(q, t), SourceRef(q, t)))
    BY <2>4, <2>5, <2>13, NewLinesAreCited
  <2> QED
    BY <2>1, <2>3, <2>14
<1> QED
  BY <1>1, <1>2, <1>3, <1>4, <1>5, <1>6, <1>7, Steps

(***************************************************************************)
(* The order of the trace, where the host hands over whole transcripts.    *)
(***************************************************************************)

\* The trace t of a session of k messages has, below its newest line, all that a window
\* over the k messages holds.
Covered(t, k) ==
  \A y \in ToSet(t) :
    y <= k /\ \A x \in 1 .. y : x > k - MaxMessages => x \in ToSet(t)

LEMMA CoveredLater ==
  ASSUME NEW t \in Seq(Nat), NEW k \in Nat, NEW l \in Nat, k <= l, Covered(t, k)
  PROVE  Covered(t, l)
<1> SUFFICES ASSUME NEW y \in ToSet(t)
             PROVE  y <= l /\ \A x \in 1 .. y : x > l - MaxMessages => x \in ToSet(t)
  BY DEF Covered
<1>1. y \in Nat
  BY DEF ToSet
<1>2. y <= k /\ \A x \in 1 .. y : x > k - MaxMessages => x \in ToSet(t)
  BY DEF Covered
<1>3. \A x \in 1 .. y : x > l - MaxMessages => x > k - MaxMessages
  OBVIOUS
<1> QED
  BY <1>1, <1>2, <1>3

LEMMA CoveredPrefix ==
  ASSUME NEW t \in Seq(Nat), NEW k \in Nat, Increasing(t), Covered(t, k), NEW n \in 0 .. Len(t)
  PROVE  Covered(SubSeq(t, 1, n), k)
<1> DEFINE r == SubSeq(t, 1, n)
<1>1. r \in Seq(Nat) /\ Len(r) = n /\ n \in Nat /\ (\A i \in 1 .. n : r[i] = t[i])
  BY Prefix
<1>2. DOMAIN t = 1 .. Len(t) /\ Len(t) \in Nat
  OBVIOUS
<1> HIDE DEF r
<1>3. DOMAIN r = 1 .. n
  BY <1>1
<1>4. ASSUME NEW j \in DOMAIN r
      PROVE  r[j] <= k /\ \A x \in 1 .. r[j] : x > k - MaxMessages => x \in ToSet(r)
  <2>1. j \in DOMAIN t /\ r[j] = t[j] /\ t[j] \in ToSet(t) /\ t[j] \in Nat
    BY <1>1, <1>2, <1>3 DEF ToSet
  <2>2. t[j] <= k /\ \A x \in 1 .. t[j] : x > k - MaxMessages => x \in ToSet(t)
    BY <2>1 DEF Covered
  <2>3. ASSUME NEW x \in 1 .. t[j], x > k - MaxMessages PROVE x \in ToSet(r)
    <3>1. x \in ToSet(t)
      BY <2>2, <2>3
    <3>2. PICK i \in DOMAIN t : x = t[i]
      BY <3>1 DEF ToSet
    <3>3. ~(j < i)
      <4>1. j < i => t[j] < t[i]
        BY <2>1 DEF Increasing
      <4> QED
        BY <2>1, <2>3, <3>2, <4>1
    <3>4. i \in DOMAIN r /\ r[i] = x
      BY <1>1, <1>2, <1>3, <3>2, <3>3
    <3> QED
      BY <3>4 DEF ToSet
  <2> QED
    BY <2>1, <2>2, <2>3
<1>5. Covered(r, k)
  BY <1>4 DEF Covered, ToSet
<1> QED
  BY <1>5 DEF r

\* A transcript of k messages is handed over again: its window, b + 1 .. k, continues the
\* trace.
LEMMA Replayed ==
  ASSUME NEW q \in Seq(Nat), Increasing(q), NEW k \in Nat \ {0}, Covered(q, k), NEW b \in Nat,
         b = (IF k > MaxMessages THEN k - MaxMessages ELSE 0),
         NEW t \in Seq(Nat), Len(t) = k - b, \A i \in 1 .. k - b : t[i] = b + i
  PROVE  Increasing(AppendTrace(q, t)) /\ Covered(AppendTrace(q, t), k)
<1>1. b < k /\ MaxMessages \in Nat /\ MaxMessages > 0 /\ k \in Nat /\ DOMAIN t = 1 .. k - b
  OBVIOUS
<1>2. \A x : x \in ToSet(t) <=> x \in Nat /\ b < x /\ x <= k
  <2>1. ASSUME NEW x \in ToSet(t) PROVE x \in Nat /\ b < x /\ x <= k
    <3>1. PICK i \in DOMAIN t : x = t[i]
      BY DEF ToSet
    <3> QED
      BY <1>1, <3>1
  <2>2. ASSUME NEW x \in Nat, b < x, x <= k PROVE x \in ToSet(t)
    <3>1. x - b \in DOMAIN t /\ t[x - b] = x
      BY <1>1, <2>2
    <3> QED
      BY <3>1 DEF ToSet
  <2> QED
    BY <2>1, <2>2
<1>3. \A y \in ToSet(q) :
        y \in Nat /\ y <= k /\ \A x \in 1 .. y : x > k - MaxMessages => x \in ToSet(q)
  BY DEF Covered, ToSet
<1>4. Increasing(t)
  BY <1>1 DEF Increasing
<1>5. \A x \in ToSet(t) : (\E y \in ToSet(q) : x <= y) => x \in ToSet(q)
  <2> SUFFICES ASSUME NEW x \in ToSet(t), NEW y \in ToSet(q), x <= y PROVE x \in ToSet(q)
    OBVIOUS
  <2>1. x \in 1 .. y /\ x > k - MaxMessages
    BY <1>1, <1>2, <1>3
  <2> QED
    BY <1>3, <2>1
<1>6. \A y \in ToSet(q) : t[1] <= y => y \in ToSet(t)
  <2>1. t[1] = b + 1
    BY <1>1
  <2> QED
    BY <1>1, <1>2, <1>3, <2>1
<1>7. Increasing(AppendTrace(q, t))
  BY <1>4, <1>5, <1>6, AppendInOrder
<1>8. ToSet(AppendTrace(q, t)) = ToSet(q) \cup ToSet(t)
  BY AppendedNumbers
<1>9. ASSUME NEW y \in ToSet(q) \cup ToSet(t)
      PROVE  y <= k /\ \A x \in 1 .. y : x > k - MaxMessages => x \in ToSet(q) \cup ToSet(t)
  <2>1. y \in Nat /\ y <= k
    BY <1>2, <1>3
  <2>2. \A x \in 1 .. y : x > k - MaxMessages => x \in Nat /\ b < x /\ x <= k
    BY <1>1, <2>1
  <2> QED
    BY <1>2, <2>1, <2>2
<1>10. Covered(AppendTrace(q, t), k)
  BY <1>8, <1>9 DEF Covered
<1> QED
  BY <1>7, <1>10

TraceReplays(s) == Increasing(trace[s]) /\ Covered(trace[s], sent[s])

\* The transcripts in the queue, one at least as long as those before it.
QueueReplays(s) ==
  /\ \A i \in DOMAIN queue : queue[i].session = s /\ queue[i].op # "turn" => queue[i].msgs = <<>>
  /\ \A i \in DOMAIN queue : queue[i].session = s /\ queue[i].op = "turn" =>
       /\ \A j \in 1 .. Len(queue[i].msgs) : queue[i].msgs[j] = j
       /\ 1 <= Len(queue[i].msgs) /\ Len(queue[i].msgs) <= sent[s]
       /\ Covered(trace[s], Len(queue[i].msgs))
  /\ \A i, j \in DOMAIN queue :
       i < j /\ queue[i].session = s /\ queue[j].session = s /\ queue[j].op = "turn" =>
         Len(queue[i].msgs) <= Len(queue[j].msgs)

\* The messages behind the cursor are one transcript, not longer than the queued ones.
TurnReplays(s) ==
  \E k \in Nat :
    /\ 1 <= k /\ k <= sent[s] /\ cursor[s] = Len(messages[s]) - k - 1
    /\ \A j \in 1 .. k : messages[s][cursor[s] + 1 + j] = j
    /\ Covered(trace[s], k)
    /\ \A i \in DOMAIN queue :
         queue[i].session = s /\ queue[i].op = "turn" => k <= Len(queue[i].msgs)

CursorAtEnd(s) == cursor[s] = Len(messages[s]) - 1

PassReplays(s) ==
  /\ pass # Idle /\ pass.session = s =>
       IF pass.op = "agentEnd" THEN CursorAtEnd(s) ELSE TurnReplays(s)
  /\ ~(pass # Idle /\ pass.session = s) =>
       ((s \notin ended \/ \E i \in DOMAIN queue : queue[i].session = s) => CursorAtEnd(s))

ReplayOf(s) == TraceReplays(s) /\ QueueReplays(s) /\ PassReplays(s)

ReplayInv ==
  host.transcript /\ SpansAreClosed /\ failures = 0 /\ CursorDiesWithArray =>
    \A s \in Sessions : ReplayOf(s)

LEMMA ReplayInit == Init => ReplayInv
<1> SUFFICES ASSUME Init, NEW s \in Sessions PROVE ReplayOf(s)
  BY DEF ReplayInv
<1>1. trace[s] = <<>> /\ queue = <<>> /\ pass = Idle /\ cursor[s] = -1 /\ messages[s] = <<>>
  BY DEF Init, NoCursor
<1>2. ToSet(<<>>) = {} /\ Increasing(<<>>) /\ DOMAIN <<>> = {} /\ Len(<<>>) = 0
  BY DEF ToSet, Increasing
<1>3. TraceReplays(s)
  BY <1>1, <1>2 DEF TraceReplays, Covered
<1>4. QueueReplays(s)
  BY <1>1, <1>2 DEF QueueReplays
<1>5. PassReplays(s)
  BY <1>1, <1>2 DEF PassReplays, CursorAtEnd
<1> QED
  BY <1>3, <1>4, <1>5 DEF ReplayOf

LEMMA ReplayQueueGrows ==
  ASSUME Types, NEW s \in Sessions, QueueReplays(s), NEW t \in TaskType, Appended(t),
         trace'[s] = trace[s], sent'[s] = sent[s],
         t.session # s \/ (t.op # "turn" /\ t.msgs = <<>>)
  PROVE  QueueReplays(s)'
<1>1. /\ \A i \in DOMAIN queue : queue'[i] = queue[i]
      /\ \A i \in DOMAIN queue' : i \in Nat /\ (i \in DOMAIN queue \/ queue'[i] = t)
      /\ \A i, j \in DOMAIN queue' : i < j => i \in DOMAIN queue
  BY DEF Appended
<1>2. \A i \in DOMAIN queue' :
        queue'[i].session = s /\ queue'[i].op # "turn" => queue'[i].msgs = <<>>
  BY <1>1 DEF QueueReplays
<1>3. ASSUME NEW i \in DOMAIN queue', queue'[i].session = s, queue'[i].op = "turn"
      PROVE  i \in DOMAIN queue
  BY <1>1, <1>3
<1>4. \A i \in DOMAIN queue' : queue'[i].session = s /\ queue'[i].op = "turn" =>
        /\ \A j \in 1 .. Len(queue'[i].msgs) : queue'[i].msgs[j] = j
        /\ 1 <= Len(queue'[i].msgs) /\ Len(queue'[i].msgs) <= sent'[s]
        /\ Covered(trace'[s], Len(queue'[i].msgs))
  BY <1>1, <1>3 DEF QueueReplays
<1>5. \A i, j \in DOMAIN queue' :
        i < j /\ queue'[i].session = s /\ queue'[j].session = s /\ queue'[j].op = "turn" =>
          Len(queue'[i].msgs) <= Len(queue'[j].msgs)
  BY <1>1, <1>3 DEF QueueReplays
<1> QED
  BY <1>2, <1>4, <1>5 DEF QueueReplays

LEMMA ReplayQueueShrinks ==
  ASSUME Types, NEW s \in Sessions, QueueReplays(s), NEW t \in TaskType, Popped(t),
         trace'[s] = trace[s], sent'[s] = sent[s]
  PROVE  QueueReplays(s)'
<1>1. \A i \in DOMAIN queue' : i \in Nat /\ i + 1 \in DOMAIN queue /\ queue'[i] = queue[i + 1]
  BY DEF Popped
<1>2. \A i, j \in DOMAIN queue' : i < j => i + 1 < j + 1
  BY DEF Popped
<1>3. \A i \in DOMAIN queue' :
        queue'[i].session = s /\ queue'[i].op # "turn" => queue'[i].msgs = <<>>
  BY <1>1 DEF QueueReplays
<1>4. \A i \in DOMAIN queue' : queue'[i].session = s /\ queue'[i].op = "turn" =>
        /\ \A j \in 1 .. Len(queue'[i].msgs) : queue'[i].msgs[j] = j
        /\ 1 <= Len(queue'[i].msgs) /\ Len(queue'[i].msgs) <= sent'[s]
        /\ Covered(trace'[s], Len(queue'[i].msgs))
  BY <1>1 DEF QueueReplays
<1>5. \A i, j \in DOMAIN queue' :
        i < j /\ queue'[i].session = s /\ queue'[j].session = s /\ queue'[j].op = "turn" =>
          Len(queue'[i].msgs) <= Len(queue'[j].msgs)
  <2> SUFFICES ASSUME NEW i \in DOMAIN queue', NEW j \in DOMAIN queue', i < j,
                      queue'[i].session = s, queue'[j].session = s, queue'[j].op = "turn"
               PROVE  Len(queue'[i].msgs) <= Len(queue'[j].msgs)
    OBVIOUS
  <2> DEFINE x == i + 1
             y == j + 1
  <2>1. x \in DOMAIN queue /\ y \in DOMAIN queue /\ x < y
        /\ queue'[i] = queue[x] /\ queue'[j] = queue[y]
    BY <1>1, <1>2
  <2> HIDE DEF x, y
  <2> QED
    BY <2>1 DEF QueueReplays
<1> QED
  BY <1>3, <1>4, <1>5 DEF QueueReplays

LEMMA ReplayHostTurn ==
  ASSUME Types, NEW s \in Sessions, ReplayOf(s), NEW n \in 1 .. MaxTurn, HostTurn(s, n),
         host.transcript, ~host.reuses
  PROVE  ReplayOf(s)'
<1>1. PICK t \in TaskType :
        Appended(t) /\ t.op = "turn" /\ t.session = s /\ t.msgs = Handed(s, n) /\ n \in Msg
  BY HostTurns
<1>2. /\ trace[s] \in Seq(Nat) /\ sent[s] \in Nat /\ n \in Nat /\ n > 0
      /\ sent \in [Sessions -> Nat] /\ queue \in Seq(TaskType)
  BY DEF Types
<1>3. /\ s \notin ended
      /\ sent' = [sent EXCEPT ![s] = sent[s] + n]
      /\ UNCHANGED <<messages, cursor, trace, pass>>
  BY DEF HostTurn
<1>4. sent'[s] = sent[s] + n
  BY <1>2, <1>3
<1> DEFINE k == sent[s] + n
           h == Handed(s, n)
<1>5. h \in Seq(Msg) /\ Len(h) = k /\ \A i \in 1 .. Len(h) : h[i] = i
  BY <1>1, HandedFacts
<1>6. k \in Nat /\ k >= 1 /\ sent[s] <= k /\ sent'[s] = k
  BY <1>2, <1>4
<1> HIDE DEF k, h
<1>7. t.msgs = h
  BY <1>1 DEF h
<1>8. Increasing(trace[s]) /\ Covered(trace[s], sent[s]) /\ QueueReplays(s) /\ PassReplays(s)
  BY DEF ReplayOf, TraceReplays
<1>9. Covered(trace[s], k)
  BY <1>2, <1>6, <1>8, CoveredLater
<1>10. TraceReplays(s)'
  BY <1>3, <1>6, <1>8, <1>9 DEF TraceReplays
<1>11. /\ \A i \in DOMAIN queue : queue'[i] = queue[i]
       /\ \A i \in DOMAIN queue' : i \in Nat /\ (i \in DOMAIN queue \/ queue'[i] = t)
       /\ \A i, j \in DOMAIN queue' : i < j => i \in DOMAIN queue
       /\ \E i \in DOMAIN queue' : queue'[i] = t
  BY <1>1 DEF Appended
<1>12. \A i \in DOMAIN queue : queue[i].session = s =>
         Len(queue[i].msgs) \in Nat /\ Len(queue[i].msgs) <= sent[s]
  <2> SUFFICES ASSUME NEW i \in DOMAIN queue, queue[i].session = s
               PROVE  Len(queue[i].msgs) \in Nat /\ Len(queue[i].msgs) <= sent[s]
    OBVIOUS
  <2>1. queue[i] \in TaskType
    BY <1>2
  <2>2. queue[i].msgs \in Seq(Msg)
    BY <2>1, TaskFields
  <2>3. queue[i].op # "turn" => queue[i].msgs = <<>>
    BY <1>8, <1>12 DEF QueueReplays
  <2>4. queue[i].op = "turn" => Len(queue[i].msgs) <= sent[s]
    BY <1>8, <1>12 DEF QueueReplays
  <2> QED
    BY <1>2, <2>2, <2>3, <2>4
<1>13. QueueReplays(s)'
  <2>1. \A i \in DOMAIN queue' :
          queue'[i].session = s /\ queue'[i].op # "turn" => queue'[i].msgs = <<>>
    BY <1>1, <1>8, <1>11 DEF QueueReplays
  <2>2. ASSUME NEW i \in DOMAIN queue', queue'[i].session = s, queue'[i].op = "turn"
        PROVE  /\ \A j \in 1 .. Len(queue'[i].msgs) : queue'[i].msgs[j] = j
               /\ 1 <= Len(queue'[i].msgs) /\ Len(queue'[i].msgs) <= k
               /\ Covered(trace[s], Len(queue'[i].msgs))
    <3>1. CASE queue'[i] = t
      BY <1>5, <1>6, <1>7, <1>9, <3>1
    <3>2. CASE i \in DOMAIN queue
      <4>1. queue'[i] = queue[i]
        BY <1>11, <3>2
      <4>2. Len(queue[i].msgs) \in Nat /\ Len(queue[i].msgs) <= sent[s]
        BY <1>12, <2>2, <3>2, <4>1
      <4>3. Len(queue[i].msgs) <= k
        BY <1>2, <1>6, <4>2
      <4> QED
        BY <1>8, <2>2, <3>2, <4>1, <4>3 DEF QueueReplays
    <3> QED
      BY <1>11, <3>1, <3>2
  <2>3. ASSUME NEW i \in DOMAIN queue', NEW j \in DOMAIN queue', i < j,
               queue'[i].session = s, queue'[j].session = s, queue'[j].op = "turn"
        PROVE  Len(queue'[i].msgs) <= Len(queue'[j].msgs)
    <3>1. i \in DOMAIN queue /\ queue'[i] = queue[i]
      BY <1>11, <2>3
    <3>2. CASE queue'[j] = t
      <4>1. Len(queue[i].msgs) \in Nat /\ Len(queue[i].msgs) <= sent[s]
        BY <1>12, <2>3, <3>1
      <4>2. Len(queue[i].msgs) <= k
        BY <1>2, <1>6, <4>1
      <4> QED
        BY <1>5, <1>7, <3>1, <3>2, <4>2
    <3>3. CASE j \in DOMAIN queue
      BY <1>8, <1>11, <2>3, <3>1, <3>3 DEF QueueReplays
    <3> QED
      BY <1>11, <3>2, <3>3
  <2> QED
    BY <1>3, <1>6, <2>1, <2>2, <2>3 DEF QueueReplays
<1>14. PassReplays(s)'
  <2>1. CASE ~(pass # Idle /\ pass.session = s)
    <3>1. CursorAtEnd(s)
      BY <1>3, <1>8, <2>1 DEF PassReplays
    <3> QED
      BY <1>3, <2>1, <3>1 DEF PassReplays, CursorAtEnd
  <2>2. CASE pass # Idle /\ pass.session = s /\ pass.op = "agentEnd"
    <3>1. CursorAtEnd(s)
      BY <1>8, <2>2 DEF PassReplays
    <3> QED
      BY <1>3, <2>2, <3>1 DEF PassReplays, CursorAtEnd
  <2>3. CASE pass # Idle /\ pass.session = s /\ pass.op # "agentEnd"
    <3>1. TurnReplays(s)
      BY <1>8, <2>3 DEF PassReplays
    <3>2. PICK l \in Nat :
            /\ 1 <= l /\ l <= sent[s] /\ cursor[s] = Len(messages[s]) - l - 1
            /\ \A j \in 1 .. l : messages[s][cursor[s] + 1 + j] = j
            /\ Covered(trace[s], l)
            /\ \A i \in DOMAIN queue :
                 queue[i].session = s /\ queue[i].op = "turn" => l <= Len(queue[i].msgs)
      BY <3>1 DEF TurnReplays
    <3>3. l <= k
      BY <1>2, <1>6, <3>2
    <3>4. \A i \in DOMAIN queue' :
            queue'[i].session = s /\ queue'[i].op = "turn" => l <= Len(queue'[i].msgs)
      <4> SUFFICES ASSUME NEW i \in DOMAIN queue', queue'[i].session = s, queue'[i].op = "turn"
                   PROVE  l <= Len(queue'[i].msgs)
        OBVIOUS
      <4>1. CASE queue'[i] = t
        BY <1>5, <1>7, <3>3, <4>1
      <4>2. CASE i \in DOMAIN queue
        BY <1>11, <3>2, <4>2
      <4> QED
        BY <1>11, <4>1, <4>2
    <3>5. TurnReplays(s)'
      BY <1>3, <1>6, <3>2, <3>3, <3>4 DEF TurnReplays
    <3> QED
      BY <1>3, <2>3, <3>5 DEF PassReplays
  <2> QED
    BY <2>1, <2>2, <2>3
<1> QED
  BY <1>10, <1>13, <1>14 DEF ReplayOf

\* The append of a turn's pass.
LEMMA ReplayAppends ==
  ASSUME Types, NEW s \in Sessions, TraceReplays(s), TurnReplays(s)
  PROVE  \E k \in Nat :
           /\ 1 <= k /\ k <= sent[s] /\ cursor[s] = Len(messages[s]) - k - 1
           /\ \A j \in 1 .. k : messages[s][cursor[s] + 1 + j] = j
           /\ \A i \in DOMAIN queue :
                queue[i].session = s /\ queue[i].op = "turn" => k <= Len(queue[i].msgs)
           /\ Increasing(AppendTrace(trace[s], TracedOf(s)))
           /\ Covered(AppendTrace(trace[s], TracedOf(s)), k)
<1>1. PICK k \in Nat :
        /\ 1 <= k /\ k <= sent[s] /\ cursor[s] = Len(messages[s]) - k - 1
        /\ \A j \in 1 .. k : messages[s][cursor[s] + 1 + j] = j
        /\ Covered(trace[s], k)
        /\ \A i \in DOMAIN queue :
             queue[i].session = s /\ queue[i].op = "turn" => k <= Len(queue[i].msgs)
  BY DEF TurnReplays
<1> DEFINE m == messages[s]
           c == cursor[s]
           w == WindowFrom(messages[s], cursor[s])
           t == TracedOf(s)
           b == IF k > MaxMessages THEN k - MaxMessages ELSE 0
<1>2. /\ w \in Nat /\ w <= Len(m) /\ Len(m) \in Nat
      /\ t \in Seq(Nat) /\ Len(t) = Len(m) - w
      /\ \A i \in 1 .. Len(m) - w : t[i] = m[w + i]
  BY TracedIs
<1>3. c \in Int /\ c >= -1 /\ c = Len(m) - k - 1
  BY <1>1 DEF Types, NoCursor
<1>4. w = IF From(m, c) < Len(m) - MaxMessages THEN Len(m) - MaxMessages ELSE From(m, c)
  BY DEF WindowFrom
<1>5. \A j \in 1 .. k : m[c + 1 + j] = j
  BY <1>1
<1>51. trace[s] \in Seq(Nat) /\ Increasing(trace[s]) /\ Covered(trace[s], k)
  BY <1>1 DEF Types, TraceReplays
<1> HIDE DEF m, c, w, t
<1>6. From(m, c) = c + 1
  BY <1>1, <1>2, <1>3 DEF From, FirstRun
<1>7. w = c + 1 + b /\ b \in Nat /\ b < k
  <2>1. MaxMessages \in Nat /\ MaxMessages > 0 /\ k >= 1
    BY <1>1
  <2>2. w = IF c + 1 < Len(m) - MaxMessages THEN Len(m) - MaxMessages ELSE c + 1
    BY <1>4, <1>6
  <2>3. c + 1 < Len(m) - MaxMessages <=> k > MaxMessages
    BY <1>2, <1>3, <2>1
  <2>4. CASE k > MaxMessages
    BY <1>2, <1>3, <2>1, <2>2, <2>3, <2>4
  <2>5. CASE ~(k > MaxMessages)
    BY <1>2, <1>3, <2>1, <2>2, <2>3, <2>5
  <2> QED
    BY <2>4, <2>5
<1>8. b = (IF k > MaxMessages THEN k - MaxMessages ELSE 0)
  OBVIOUS
<1> HIDE DEF b
<1>9. Len(t) = k - b
  BY <1>2, <1>3, <1>7
<1>10. ASSUME NEW i \in 1 .. k - b PROVE t[i] = b + i
  <2>1. i \in 1 .. Len(m) - w /\ w + i = c + 1 + (b + i) /\ b + i \in 1 .. k
    BY <1>1, <1>2, <1>3, <1>7
  <2> QED
    BY <1>2, <1>5, <2>1
<1>11. k \in Nat \ {0}
  BY <1>1
<1>12. Increasing(AppendTrace(trace[s], t)) /\ Covered(AppendTrace(trace[s], t), k)
  BY <1>2, <1>51, <1>7, <1>8, <1>9, <1>10, <1>11, Replayed
<1> QED
  BY <1>1, <1>12 DEF t

\* Where the cursor is at the end, a pass has nothing to do.
LEMMA NothingBehindEnd ==
  ASSUME Types, NEW s \in Sessions
  PROVE  /\ CursorAtEnd(s) => From(messages[s], cursor[s]) = Len(messages[s])
         /\ TurnReplays(s) => From(messages[s], cursor[s]) < Len(messages[s])
         /\ From(messages[s], cursor[s]) = Len(messages[s]) => TracedOf(s) = <<>>
<1>1. messages[s] \in Seq(Msg) /\ cursor[s] \in Int /\ cursor[s] >= -1 /\ Len(messages[s]) \in Nat
  BY DEF Types, NoCursor
<1>2. CursorAtEnd(s) => From(messages[s], cursor[s]) = Len(messages[s])
  BY <1>1 DEF CursorAtEnd, From, FirstRun
<1>3. ASSUME TurnReplays(s) PROVE From(messages[s], cursor[s]) < Len(messages[s])
  <2>1. PICK k \in Nat : 1 <= k /\ cursor[s] = Len(messages[s]) - k - 1
    BY <1>3 DEF TurnReplays
  <2> QED
    BY <1>1, <2>1 DEF From, FirstRun
<1>4. ASSUME From(messages[s], cursor[s]) = Len(messages[s]) PROVE TracedOf(s) = <<>>
  <2> DEFINE t == TracedOf(s)
             w == WindowFrom(messages[s], cursor[s])
  <2>1. w \in From(messages[s], cursor[s]) .. Len(messages[s])
        /\ From(messages[s], cursor[s]) \in Nat
    BY <1>1, WindowFromFacts
  <2>2. t \in Seq(Nat) /\ Len(t) = Len(messages[s]) - w
    BY TracedIs
  <2> HIDE DEF t, w
  <2>3. Len(t) = 0
    BY <1>1, <1>4, <2>1, <2>2
  <2>4. t = <<>>
    BY <2>2, <2>3
  <2> QED
    BY <2>4 DEF t
<1> QED
  BY <1>2, <1>3, <1>4

\* Steps of another session, or none.
LEMMA ReplayAside ==
  ASSUME Types, NEW s \in Sessions, ReplayOf(s), trace'[s] = trace[s], sent'[s] = sent[s],
         messages'[s] = messages[s], cursor'[s] = cursor[s], s \in ended <=> s \in ended',
         \/ pass' = pass
         \/ /\ ~(pass # Idle /\ pass.session = s)
            /\ ~(pass' # Idle /\ pass'.session = s),
         \/ queue' = queue
         \/ \E t \in TaskType : Appended(t) /\ t.session # s
         \/ \E t \in TaskType : Popped(t) /\ t.session # s
  PROVE  ReplayOf(s)'
<1>1. TraceReplays(s) /\ QueueReplays(s) /\ PassReplays(s)
  BY DEF ReplayOf
<1>2. TraceReplays(s)'
  BY <1>1 DEF TraceReplays
<1>3. QueueReplays(s)'
  <2>1. CASE queue' = queue
    BY <1>1, <2>1 DEF QueueReplays
  <2>2. CASE \E t \in TaskType : Appended(t) /\ t.session # s
    BY <1>1, <2>2, ReplayQueueGrows
  <2>3. CASE \E t \in TaskType : Popped(t) /\ t.session # s
    BY <1>1, <2>3, ReplayQueueShrinks
  <2> QED
    BY <2>1, <2>2, <2>3
\* A task of the session that is queued after the step was queued before it.
<1>4. ASSUME NEW i \in DOMAIN queue', queue'[i].session = s
      PROVE  \E j \in DOMAIN queue : queue[j] = queue'[i]
  <2>1. CASE queue' = queue
    BY <1>4, <2>1
  <2>2. ASSUME NEW t \in TaskType, Appended(t), t.session # s
        PROVE  \E j \in DOMAIN queue : queue[j] = queue'[i]
    <3>1. i \in DOMAIN queue \/ queue'[i] = t
      BY <2>2 DEF Appended
    <3> QED
      BY <1>4, <2>2, <3>1 DEF Appended
  <2>3. ASSUME NEW t \in TaskType, Popped(t), t.session # s
        PROVE  \E j \in DOMAIN queue : queue[j] = queue'[i]
    BY <2>3 DEF Popped
  <2> QED
    BY <2>1, <2>2, <2>3
<1>5. PassReplays(s)'
  <2>1. CursorAtEnd(s) => CursorAtEnd(s)'
    BY DEF CursorAtEnd
  <2>2. TurnReplays(s) => TurnReplays(s)'
    <3> SUFFICES ASSUME TurnReplays(s) PROVE TurnReplays(s)'
      OBVIOUS
    <3>1. PICK k \in Nat :
            /\ 1 <= k /\ k <= sent[s] /\ cursor[s] = Len(messages[s]) - k - 1
            /\ \A j \in 1 .. k : messages[s][cursor[s] + 1 + j] = j
            /\ Covered(trace[s], k)
            /\ \A i \in DOMAIN queue :
                 queue[i].session = s /\ queue[i].op = "turn" => k <= Len(queue[i].msgs)
      BY DEF TurnReplays
    <3>2. \A i \in DOMAIN queue' :
            queue'[i].session = s /\ queue'[i].op = "turn" => k <= Len(queue'[i].msgs)
      BY <1>4, <3>1
    <3> QED
      BY <3>1, <3>2 DEF TurnReplays
  <2>3. CASE pass' = pass
    <3>1. pass # Idle /\ pass.session = s =>
            IF pass.op = "agentEnd" THEN CursorAtEnd(s)' ELSE TurnReplays(s)'
      BY <1>1, <2>1, <2>2 DEF PassReplays
    <3>2. ~(pass # Idle /\ pass.session = s) =>
            ((s \notin ended' \/ \E i \in DOMAIN queue' : queue'[i].session = s) => CursorAtEnd(s)')
      BY <1>1, <1>4, <2>1 DEF PassReplays
    <3> QED
      BY <2>3, <3>1, <3>2 DEF PassReplays
  <2>4. CASE /\ ~(pass # Idle /\ pass.session = s)
             /\ ~(pass' # Idle /\ pass'.session = s)
    <3>1. (s \notin ended' \/ \E i \in DOMAIN queue' : queue'[i].session = s) => CursorAtEnd(s)'
      BY <1>1, <1>4, <2>1, <2>4 DEF PassReplays
    <3> QED
      BY <2>4, <3>1 DEF PassReplays
  <2> QED
    BY <2>3, <2>4
<1> QED
  BY <1>2, <1>3, <1>5 DEF ReplayOf

\* A pass of the session returns with the cursor at the end.
LEMMA ReplayLeaves ==
  ASSUME Types, NEW s \in Sessions, QueueReplays(s), TraceReplays(s), Left(TRUE),
         trace'[s] = trace[s], sent'[s] = sent[s], CursorAtEnd(s)'
  PROVE  ReplayOf(s)'
<1>1. pass' = Idle
      /\ (queue' = queue \/ \E t \in TaskType : Appended(t) /\ t.op # "turn" /\ t.msgs = <<>>)
  BY DEF Left
<1>2. QueueReplays(s)'
  <2>1. CASE queue' = queue
    BY <2>1 DEF QueueReplays
  <2>2. ASSUME NEW t \in TaskType, Appended(t), t.op # "turn", t.msgs = <<>>
        PROVE  QueueReplays(s)'
    BY <2>2, ReplayQueueGrows
  <2> QED
    BY <1>1, <2>1, <2>2
<1>3. TraceReplays(s)'
  BY DEF TraceReplays
<1>4. PassReplays(s)'
  BY <1>1 DEF PassReplays
<1> QED
  BY <1>2, <1>3, <1>4 DEF ReplayOf

LEMMA ReplayStart ==
  ASSUME Types, NEW s \in Sessions, ReplayOf(s), StartExtraction
  PROVE  ReplayOf(s)'
<1>1. PICK t \in TaskType :
        /\ Popped(t) /\ t.op \in {"turn", "agentEnd"}
        /\ pass = Idle /\ pass'.phase = "locking" /\ pass' # Idle
        /\ pass'.op = t.op /\ pass'.session = t.session
        /\ messages' = [messages EXCEPT ![t.session] = messages[t.session] \o t.msgs]
  BY Starts
<1>2. UNCHANGED <<trace, sent, cursor, ended>>
  BY DEF StartExtraction
<1>3. t.session \in Sessions /\ t.msgs \in Seq(Msg)
  BY TaskFields
<1>4. messages \in [Sessions -> Seq(Msg)] /\ messages[s] \in Seq(Msg) /\ cursor[s] \in Int
      /\ Len(messages[s]) \in Nat
  BY DEF Types
<1>5. CASE t.session # s
  <2>1. messages'[s] = messages[s]
    BY <1>1, <1>3, <1>4, <1>5
  <2> QED
    BY <1>1, <1>2, <1>5, <2>1, ReplayAside
<1>6. CASE t.session = s
  <2> DEFINE m == messages[s]
             a == t.msgs
             l == messages[s] \o t.msgs
  <2>1. messages'[s] = l
    BY <1>1, <1>3, <1>4, <1>6
  <2>2. m \in Seq(Msg) /\ a \in Seq(Msg)
    BY <1>3, <1>4
  <2>3. 1 \in DOMAIN queue /\ queue[1] = t
        /\ \A i \in DOMAIN queue' : i \in Nat /\ i + 1 \in DOMAIN queue /\ 1 < i + 1
                                    /\ queue'[i] = queue[i + 1]
    BY <1>1 DEF Popped
  <2>4. TraceReplays(s) /\ QueueReplays(s) /\ PassReplays(s)
    BY DEF ReplayOf
  <2>5. cursor[s] = Len(m) - 1
    BY <1>1, <1>6, <2>3, <2>4 DEF PassReplays, CursorAtEnd
  <2>6. TraceReplays(s)' /\ QueueReplays(s)'
    <3>1. QueueReplays(s)'
      BY <1>1, <1>2, <2>4, ReplayQueueShrinks
    <3> QED
      BY <1>2, <2>4, <3>1 DEF TraceReplays
  <2> HIDE DEF m, a
  <2>7. l = m \o a
    BY DEF m, a
  <2> HIDE DEF l
  <2>8. /\ l \in Seq(Msg) /\ Len(l) = Len(m) + Len(a) /\ Len(m) \in Nat /\ Len(a) \in Nat
        /\ \A i \in 1 .. Len(a) : l[Len(m) + i] = a[i]
    BY <2>2, <2>7, ConcatFacts
  <2>9. CASE t.op = "agentEnd"
    <3>1. a = <<>>
      BY <1>6, <2>3, <2>4, <2>9 DEF QueueReplays, a
    <3>2. Len(l) = Len(m)
      BY <2>8, <3>1
    <3>3. CursorAtEnd(s)'
      BY <1>2, <2>1, <2>5, <3>2 DEF CursorAtEnd
    <3>4. PassReplays(s)'
      BY <1>1, <1>6, <2>9, <3>3 DEF PassReplays
    <3> QED
      BY <2>6, <3>4 DEF ReplayOf
  <2>10. CASE t.op = "turn"
    <3> DEFINE k == Len(a)
    <3>1. /\ \A j \in 1 .. Len(a) : a[j] = j
          /\ 1 <= Len(a) /\ Len(a) <= sent[s]
          /\ Covered(trace[s], Len(a))
      BY <1>6, <2>3, <2>4, <2>10 DEF QueueReplays, a
    <3>2. \A i \in DOMAIN queue' :
            queue'[i].session = s /\ queue'[i].op = "turn" => Len(a) <= Len(queue'[i].msgs)
      <4> SUFFICES ASSUME NEW i \in DOMAIN queue', queue'[i].session = s, queue'[i].op = "turn"
                   PROVE  Len(a) <= Len(queue'[i].msgs)
        OBVIOUS
      <4> DEFINE x == i + 1
      <4>1. x \in DOMAIN queue /\ 1 < x /\ queue'[i] = queue[x]
        BY <2>3
      <4> HIDE DEF x
      <4>2. Len(queue[1].msgs) <= Len(queue[x].msgs)
        BY <1>6, <2>3, <2>4, <4>1 DEF QueueReplays
      <4> QED
        BY <2>3, <4>1, <4>2 DEF a
    <3>3. cursor[s] = Len(l) - k - 1
      BY <2>5, <2>8
    <3>4. \A j \in 1 .. k : l[cursor[s] + 1 + j] = j
      <4>1. \A j \in 1 .. k : cursor[s] + 1 + j = Len(m) + j
        BY <2>5, <2>8
      <4> QED
        BY <2>8, <3>1, <4>1
    <3>5. k \in Nat
      BY <2>8
    <3> HIDE DEF k
    <3>6. 1 <= k /\ k <= sent[s] /\ Covered(trace[s], k)
          /\ \A i \in DOMAIN queue' :
               queue'[i].session = s /\ queue'[i].op = "turn" => k <= Len(queue'[i].msgs)
      BY <3>1, <3>2 DEF k
    <3>7. TurnReplays(s)'
      BY <1>2, <2>1, <3>3, <3>4, <3>5, <3>6 DEF TurnReplays
    <3>8. PassReplays(s)'
      BY <1>1, <1>6, <2>10, <3>7 DEF PassReplays
    <3> QED
      BY <2>6, <3>8 DEF ReplayOf
  <2> QED
    BY <1>1, <2>9, <2>10
<1> QED
  BY <1>5, <1>6

LEMMA ReplayBegin ==
  ASSUME Types, CleanInv, SpansAreClosed, NEW s \in Sessions, ReplayOf(s), BeginAgent
  PROVE  ReplayOf(s)'
<1> DEFINE p == pass.session
<1>1. /\ p \in Sessions /\ pass # Idle /\ pass' # Idle /\ pass'.op = pass.op /\ pass'.session = p
      /\ From(messages[p], cursor[p]) < Len(messages[p])
      /\ UNCHANGED <<messages, cursor, queue, sent, ended>>
  BY Begins
<1>2. Redact(trace[s]) = trace[s] /\ Appending(s) = AppendTrace(trace[s], TracedOf(s))
  BY Clean
<1>3. trace'[s] = IF s = p THEN Appending(s) ELSE trace[s]
  <2>1. RedactedTraces \in [Sessions -> Seq(Nat)] /\ RedactedTraces[s] = Redact(trace[s])
        /\ trace' = [RedactedTraces EXCEPT ![p] = AppendTrace(RedactedTraces[p], TracedOf(p))]
    BY Begins, RedactedTypes DEF TracedOf
  <2> HIDE DEF p
  <2>2. s = p => trace'[s] = AppendTrace(RedactedTraces[s], TracedOf(s))
    BY <2>1
  <2>3. s # p => trace'[s] = RedactedTraces[s]
    BY <2>1
  <2> QED
    BY <1>2, <2>1, <2>2, <2>3
<1>4. CASE s # p
  BY <1>1, <1>3, <1>4, ReplayAside
<1>5. CASE s = p
  <2>1. TraceReplays(s) /\ QueueReplays(s) /\ PassReplays(s)
    BY DEF ReplayOf
  <2>2. messages[s] \in Seq(Msg) /\ Len(messages[s]) \in Nat
    BY DEF Types
  <2>3. ~CursorAtEnd(s)
    BY <1>1, <1>5, <2>2, NothingBehindEnd
  <2>4. pass.op # "agentEnd" /\ TurnReplays(s)
    BY <1>1, <1>5, <2>1, <2>3 DEF PassReplays
  <2> DEFINE r == AppendTrace(trace[s], TracedOf(s))
  <2>5. PICK k \in Nat :
          /\ 1 <= k /\ k <= sent[s] /\ cursor[s] = Len(messages[s]) - k - 1
          /\ \A j \in 1 .. k : messages[s][cursor[s] + 1 + j] = j
          /\ \A i \in DOMAIN queue :
               queue[i].session = s /\ queue[i].op = "turn" => k <= Len(queue[i].msgs)
          /\ Increasing(r)
          /\ Covered(r, k)
    BY <2>1, <2>4, ReplayAppends
  <2>6. trace'[s] = r
    BY <1>2, <1>3, <1>5
  <2>7. r \in Seq(Nat)
    BY <1>2, AppendingFacts
  <2>8. sent[s] \in Nat /\ queue \in Seq(TaskType)
    BY DEF Types
  <2> HIDE DEF r, p
  <2>9. TraceReplays(s)'
    BY <1>1, <2>5, <2>6, <2>7, <2>8, CoveredLater DEF TraceReplays
  <2>10. TurnReplays(s)'
    BY <1>1, <2>5, <2>6 DEF TurnReplays
  <2>11. PassReplays(s)'
    BY <1>1, <1>5, <2>4, <2>10 DEF PassReplays
  <2>12. ASSUME NEW i \in DOMAIN queue, queue[i].session = s, queue[i].op = "turn"
         PROVE  Covered(r, Len(queue[i].msgs))
    <3>1. queue[i] \in TaskType
      BY <2>8
    <3> DEFINE n == Len(queue[i].msgs)
    <3>2. n \in Nat
      <4>1. queue[i].msgs \in Seq(Msg)
        BY <3>1, TaskFields
      <4> QED
        BY <4>1
    <3>3. k <= n
      BY <2>5, <2>12
    <3> HIDE DEF n
    <3>4. Covered(r, n)
      BY <2>5, <2>7, <3>2, <3>3, CoveredLater
    <3> QED
      BY <3>4 DEF n
  <2>13. QueueReplays(s)'
    BY <1>1, <2>1, <2>6, <2>12 DEF QueueReplays
  <2> QED
    BY <2>9, <2>11, <2>13 DEF ReplayOf
<1> QED
  BY <1>4, <1>5

LEMMA ReplayRestart ==
  ASSUME Types, CleanInv, SpansAreClosed, NEW s \in Sessions, ReplayOf(s), Restart,
         ~host.durable, [Next]_vars
  PROVE  ReplayOf(s)'
<1>1. TraceReplays(s) /\ QueueReplays(s) /\ PassReplays(s)
  BY DEF ReplayOf
<1>2. queue' = <<>> /\ pass' = Idle /\ messages'[s] = <<>> /\ cursor'[s] = -1 /\ sent' = sent
  BY Restarts DEF NoCursor
<1>3. trace[s] \in Seq(Nat) /\ sent[s] \in Nat
  BY DEF Types
<1>4. TraceReplays(s)'
  <2>1. CASE trace'[s] = trace[s]
    BY <1>1, <1>2, <2>1 DEF TraceReplays
  <2>2. CASE trace'[s] # trace[s]
    <3> DEFINE r == AppendTrace(trace[s], TracedOf(s))
    <3>1. Redact(trace[s]) = trace[s] /\ Appending(s) = r /\ r \in Seq(Nat)
      BY Clean, AppendingFacts
    <3>2. ~BeginAgent
      BY <1>2, Begins
    <3>3. /\ CrashInTraceWrite /\ pass.session = s
          /\ NewLines(Redact(trace[s]), TracedOf(s)) # <<>>
          /\ \E n \in 0 .. Len(Appending(s)) : trace'[s] = SubSeq(Appending(s), 1, n)
      BY <2>2, <3>1, <3>2, TraceSteps
    <3>4. pass # Idle /\ pass.session = s
      BY <3>3 DEF CrashInTraceWrite, Idle
    <3>5. TracedOf(s) # <<>>
      BY <1>3, <3>1, <3>3, SomethingTraced
    <3>6. ~CursorAtEnd(s)
      BY <3>5, NothingBehindEnd
    <3>7. TurnReplays(s)
      BY <1>1, <3>4, <3>6 DEF PassReplays
    <3>8. PICK k \in Nat : k <= sent[s] /\ Increasing(r) /\ Covered(r, k)
      BY <1>1, <3>7, ReplayAppends
    <3>9. PICK n \in 0 .. Len(r) : trace'[s] = SubSeq(r, 1, n)
      BY <3>1, <3>3
    <3> HIDE DEF r
    <3>10. Covered(r, sent[s])
      BY <1>3, <3>1, <3>8, CoveredLater
    <3>11. Increasing(SubSeq(r, 1, n)) /\ Covered(SubSeq(r, 1, n), sent[s])
      BY <1>3, <3>1, <3>8, <3>10, IncreasingPrefix, CoveredPrefix
    <3> QED
      BY <1>2, <3>9, <3>11 DEF TraceReplays
  <2> QED
    BY <2>1, <2>2
<1>5. QueueReplays(s)'
  <2>1. DOMAIN <<>> = {}
    OBVIOUS
  <2> QED
    BY <1>2, <2>1 DEF QueueReplays
<1>6. PassReplays(s)'
  <2>1. Len(<<>>) = 0
    OBVIOUS
  <2> QED
    BY <1>2, <2>1 DEF PassReplays, CursorAtEnd
<1> QED
  BY <1>4, <1>5, <1>6 DEF ReplayOf

LEMMA ReplayNext ==
  Types /\ QueueInv /\ CleanInv /\ ReplayInv /\ [Next]_vars => ReplayInv'
<1> SUFFICES ASSUME Types, QueueInv, CleanInv, ReplayInv, [Next]_vars,
                    (host.transcript /\ SpansAreClosed /\ failures = 0 /\ CursorDiesWithArray)',
                    NEW s \in Sessions
             PROVE  ReplayOf(s)'
  BY DEF ReplayInv
<1>0. /\ ReplayOf(s) /\ SpansAreClosed /\ host' = host /\ host.transcript /\ ~host.reuses
      /\ ~Tried
  <2>1. host' = host /\ failures = 0 /\ failures' = 0 /\ CursorDiesWithArray
        /\ SpansAreClosed
    BY HostStays DEF Types
  <2> QED
    BY <2>1 DEF ReplayInv, Tried, CursorDiesWithArray
<1>1. TraceReplays(s) /\ QueueReplays(s) /\ PassReplays(s)
  BY <1>0 DEF ReplayOf
<1>2. messages \in [Sessions -> Seq(Msg)] /\ cursor \in [Sessions -> Int]
      /\ messages[s] \in Seq(Msg) /\ cursor[s] \in Int /\ Len(messages[s]) \in Nat
      /\ sent \in [Sessions -> Nat]
  BY DEF Types
<1>3. Redact(trace[s]) = trace[s]
  BY <1>0, Clean
<1>4. ASSUME NEW r \in Sessions, HostEnd(r) PROVE ReplayOf(s)'
  <2>1. PICK t \in TaskType : Appended(t) /\ t.op = "agentEnd" /\ t.session = r /\ t.msgs = <<>>
    BY <1>4, HostEnds
  <2>2. r \notin ended /\ ended' = ended \cup {r}
        /\ UNCHANGED <<messages, cursor, trace, pass, sent>>
    BY <1>4 DEF HostEnd
  <2>3. CASE r # s
    BY <1>0, <2>1, <2>2, <2>3, ReplayAside
  <2>4. CASE r = s
    <3>1. TraceReplays(s)' /\ QueueReplays(s)'
      <4>1. QueueReplays(s)'
        BY <1>1, <2>1, <2>2, ReplayQueueGrows
      <4> QED
        BY <1>1, <2>2, <4>1 DEF TraceReplays
    <3>2. CASE ~(pass # Idle /\ pass.session = s)
      <4>1. CursorAtEnd(s)
        BY <1>1, <2>2, <2>4, <3>2 DEF PassReplays
      <4>2. PassReplays(s)'
        BY <2>2, <3>2, <4>1 DEF PassReplays, CursorAtEnd
      <4> QED
        BY <3>1, <4>2 DEF ReplayOf
    <3>3. CASE pass # Idle /\ pass.session = s /\ pass.op = "agentEnd"
      <4>1. CursorAtEnd(s)
        BY <1>1, <3>3 DEF PassReplays
      <4>2. PassReplays(s)'
        BY <2>2, <3>3, <4>1 DEF PassReplays, CursorAtEnd
      <4> QED
        BY <3>1, <4>2 DEF ReplayOf
    <3>4. CASE pass # Idle /\ pass.session = s /\ pass.op # "agentEnd"
      <4>1. TurnReplays(s)
        BY <1>1, <3>4 DEF PassReplays
      <4>2. PICK k \in Nat :
              /\ 1 <= k /\ k <= sent[s] /\ cursor[s] = Len(messages[s]) - k - 1
              /\ \A j \in 1 .. k : messages[s][cursor[s] + 1 + j] = j
              /\ Covered(trace[s], k)
              /\ \A i \in DOMAIN queue :
                   queue[i].session = s /\ queue[i].op = "turn" => k <= Len(queue[i].msgs)
        BY <4>1 DEF TurnReplays
      <4>3. \A i \in DOMAIN queue' :
              queue'[i].session = s /\ queue'[i].op = "turn" => k <= Len(queue'[i].msgs)
        BY <2>1, <4>2 DEF Appended
      <4>4. TurnReplays(s)'
        BY <2>2, <4>2, <4>3 DEF TurnReplays
      <4>5. PassReplays(s)'
        BY <2>2, <3>4, <4>4 DEF PassReplays
      <4> QED
        BY <3>1, <4>5 DEF ReplayOf
    <3> QED
      BY <3>2, <3>3, <3>4
  <2> QED
    BY <2>3, <2>4
<1>5. ASSUME NEW r \in Sessions, NEW n \in 1 .. MaxTurn, HostTurn(r, n) PROVE ReplayOf(s)'
  <2>1. PICK t \in TaskType : Appended(t) /\ t.session = r
    BY <1>5, HostTurns
  <2>2. ended' = ended \ {r} /\ sent' = [sent EXCEPT ![r] = sent[r] + n]
        /\ UNCHANGED <<messages, cursor, trace, pass>>
    BY <1>5 DEF HostTurn
  <2>3. CASE r # s
    <3>1. sent'[s] = sent[s] /\ (s \in ended <=> s \in ended')
      BY <1>2, <2>2, <2>3
    <3> QED
      BY <1>0, <2>1, <2>2, <2>3, <3>1, ReplayAside
  <2>4. CASE r = s
    BY <1>0, <1>5, <2>4, ReplayHostTurn
  <2> QED
    BY <2>3, <2>4
<1>6. CASE StartExtraction
  BY <1>0, <1>6, ReplayStart
<1>7. CASE EndSession
  <2>1. PICK t \in TaskType :
          /\ Popped(t) /\ t.op = "sessionEnd" /\ pass = Idle /\ pass' = pass
          /\ messages' = [messages EXCEPT ![t.session] = <<>>]
    BY <1>7, Ends
  <2>2. UNCHANGED <<cursor, trace, sent, ended>>
    BY <1>7 DEF EndSession
  <2>3. CASE t.session # s
    <3>1. messages'[s] = messages[s]
      BY <1>2, <2>1, <2>3
    <3> QED
      BY <1>0, <2>1, <2>2, <2>3, <3>1, ReplayAside
  <2>4. CASE t.session = s
    <3>1. 1 \in DOMAIN queue /\ queue[1] = t
          /\ \A i \in DOMAIN queue' : i \in Nat /\ i + 1 \in DOMAIN queue /\ 1 < i + 1
                                      /\ queue'[i] = queue[i + 1]
      BY <2>1 DEF Popped
    <3>2. s \in ended
      BY <1>0, <2>1, <2>4, <3>1 DEF QueueInv
    <3>3. \A i \in DOMAIN queue' : queue'[i].session # s
      <4> SUFFICES ASSUME NEW i \in DOMAIN queue', queue'[i].session = s PROVE FALSE
        OBVIOUS
      <4> DEFINE x == i + 1
      <4>1. x \in DOMAIN queue /\ 1 < x /\ queue[x].session = s
        BY <3>1
      <4> HIDE DEF x
      <4>2. queue[1].op = "turn"
        BY <1>0, <2>4, <3>1, <4>1 DEF QueueInv
      <4> QED
        BY <2>1, <3>1, <4>2
    <3>4. PassReplays(s)'
      BY <2>1, <2>2, <3>2, <3>3 DEF PassReplays
    <3>5. QueueReplays(s)'
      BY <1>1, <2>1, <2>2, ReplayQueueShrinks
    <3>6. TraceReplays(s)'
      BY <1>1, <2>2 DEF TraceReplays
    <3> QED
      BY <3>4, <3>5, <3>6 DEF ReplayOf
  <2> QED
    BY <2>3, <2>4
\* A pass that returns, whatever it did.
<1>8. ASSUME pass # Idle, Left(TRUE), trace'[s] = trace[s], UNCHANGED <<messages, sent, ended>>,
             pass.session # s => cursor'[s] = cursor[s],
             pass.session = s => CursorAtEnd(s)'
      PROVE  ReplayOf(s)'
  <2>1. CASE pass.session = s
    BY <1>1, <1>8, <2>1, ReplayLeaves
  <2>2. CASE pass.session # s
    <3>1. pass' = Idle /\ (queue' = queue \/ \E t \in TaskType : Appended(t) /\ t.session # s)
      BY <1>8, <2>2 DEF Left
    <3> QED
      BY <1>0, <1>8, <2>2, <3>1, ReplayAside
  <2> QED
    BY <2>1, <2>2
<1>9. CASE Skip
  <2>1. /\ pass # Idle /\ Left(TRUE) /\ trace' = RedactedTraces
        /\ From(messages[pass.session], cursor[pass.session]) = Len(messages[pass.session])
        /\ UNCHANGED <<messages, cursor, sent, ended>>
    BY <1>9, Skips
  <2>2. trace'[s] = trace[s]
    BY <1>3, <2>1, RedactedTypes
  <2>3. pass.session = s => CursorAtEnd(s)'
    <3> SUFFICES ASSUME pass.session = s PROVE CursorAtEnd(s)'
      OBVIOUS
    <3>1. ~TurnReplays(s)
      BY <1>2, <2>1, NothingBehindEnd
    <3>2. CursorAtEnd(s)
      BY <1>1, <2>1, <3>1 DEF PassReplays
    <3> QED
      BY <2>1, <3>2 DEF CursorAtEnd
  <2> QED
    BY <1>8, <2>1, <2>2, <2>3
<1>10. CASE BeginAgent
  BY <1>0, <1>10, ReplayBegin
<1>11. CASE AgentReturns
  <2> DEFINE p == pass.session
  <2>1. /\ pass # Idle /\ Left(TRUE) /\ p \in Sessions
        /\ cursor' = [cursor EXCEPT ![p] = Len(messages[p]) - 1]
        /\ UNCHANGED <<messages, trace, sent, ended>>
    BY <1>11, Learns
  <2>2. p # s => cursor'[s] = cursor[s]
    <3> HIDE DEF p
    <3> QED
      BY <1>2, <2>1
  <2>3. p = s => CursorAtEnd(s)'
    <3> HIDE DEF p
    <3> QED
      BY <1>2, <2>1 DEF CursorAtEnd
  <2> QED
    BY <1>8, <2>1, <2>2, <2>3
<1>12. CASE Restart
  <2>1. crashes' > 0
    BY <1>12, Restarts
  <2>2. ~host.durable
    BY <1>0, <2>1 DEF CursorDiesWithArray
  <2> QED
    BY <1>0, <1>12, <2>2, ReplayRestart
<1>13. CASE UNCHANGED vars
  BY <1>0, <1>13, ReplayAside DEF vars
<1> QED
  BY <1>0, <1>4, <1>5, <1>6, <1>7, <1>9, <1>10, <1>11, <1>12, <1>13, Steps

(***************************************************************************)
(* The trace is evidence for what was learned.                             *)
(***************************************************************************)

TraceInv == CleanInv /\ EvidenceInv /\ FreshInv /\ OrderInv /\ NewInv /\ RefCoversPass /\ ReplayInv

\* What an agent has learned from is a line of the session's trace, the trace holds the
\* messages once each and in order, and the lines a pass cites hold what it processes -
\* each as far as TraceIsEvidence claims it of a host: across retries, replays, redactions,
\* crashes and writes that are cut short (appendSourceTrace, redactExistingSourceTraces).
THEOREM TracesAreEvidence == Spec => []TraceIsEvidence
<1>1. Init => TraceInv
  BY CleanInit, EvidenceInit, FreshInit, OrderInit, NewInit, RefInit, ReplayInit DEF TraceInv
<1>2. Inv /\ TraceInv /\ [Next]_vars => TraceInv'
  <2> SUFFICES ASSUME Inv, TraceInv, [Next]_vars PROVE TraceInv'
    OBVIOUS
  <2>1. Types /\ PassInv /\ QueueInv /\ CursorInv
    BY DEF Inv
  <2>2. CleanInv'
    BY <2>1, CleanNext DEF TraceInv
  <2>3. EvidenceInv'
    BY <2>1, EvidenceNext DEF TraceInv
  <2>4. FreshInv'
    BY <2>1, FreshNext DEF TraceInv
  <2>5. OrderInv'
    BY <2>1, OrderNext DEF TraceInv
  <2>6. NewInv'
    BY <2>1, NewNext DEF TraceInv
  <2>7. RefCoversPass'
    BY <2>1, RefNext DEF TraceInv
  <2>8. ReplayInv'
    BY <2>1, ReplayNext DEF TraceInv
  <2> QED
    BY <2>2, <2>3, <2>4, <2>5, <2>6, <2>7, <2>8 DEF TraceInv
<1>3. Inv /\ TraceInv => TraceIsEvidence
  <2> SUFFICES ASSUME Inv, TraceInv PROVE TraceIsEvidence
    OBVIOUS
  <2>1. TraceCoversLearned
    BY DEF TraceInv, EvidenceInv, EvidenceOf, TraceCoversLearned
  <2>2. host.transcript \in BOOLEAN
    BY HostFields DEF Inv, Types
  <2>3. ASSUME SpansAreClosed, host.transcript => failures = 0 /\ CursorDiesWithArray,
               NEW s \in Sessions
        PROVE  Increasing(trace[s])
    <3>1. CASE host.transcript
      <4>1. ReplayOf(s)
        BY <2>3, <3>1 DEF TraceInv, ReplayInv
      <4> QED
        BY <4>1 DEF ReplayOf, TraceReplays
    <3>2. CASE ~host.transcript
      <4>1. OrderOf(s)
        BY <2>3, <3>2 DEF TraceInv, OrderInv
      <4> QED
        BY <4>1 DEF OrderOf
    <3> QED
      BY <2>2, <3>1, <3>2
  <2>4. TraceInOrder
    BY <2>3 DEF TraceInOrder, Increasing
  <2> QED
    BY <2>1, <2>4 DEF TraceIsEvidence, TraceInv
<1> QED
  BY <1>1, <1>2, <1>3, LifecycleInvariant, PTL DEF Spec
==============================================================================
