------------------------------- MODULE Queues -------------------------------
(***************************************************************************)
(* What becomes of a queue's contents when it grows at its end and loses   *)
(* its head: whether it holds an element, whether it holds it once, how    *)
(* many elements of a kind it holds.  And the least element of a set of    *)
(* naturals.  Frames between the parts of the system travel in such queues,*)
(* so the proofs about most components cite these lemmas.                  *)
(***************************************************************************)
EXTENDS Integers, Sequences, FiniteSets, SequencesExt, SequenceTheorems,
        FiniteSetTheorems, TLAPS

-----------------------------------------------------------------------------
(* Holding an element, and holding it once                                 *)

\* x is at most one of the elements of q.
Once(q, x) == \A i, j \in 1..Len(q) : q[i] = x /\ q[j] = x => i = j

\* A queue with something appended holds that and what it held.
LEMMA AppendHolds ==
  ASSUME NEW S, NEW q \in Seq(S), NEW x \in S, NEW e
  PROVE  Contains(Append(q, x), e) <=> Contains(q, e) \/ x = e
<1>1. /\ Len(q) \in Nat /\ Len(Append(q, x)) = Len(q) + 1
      /\ Append(q, x)[Len(q) + 1] = x
      /\ \A k \in 1..Len(q) : Append(q, x)[k] = q[k]
  BY LenProperties, AppendProperties
<1>2. ASSUME NEW k \in 1..Len(q) + 1, Append(q, x)[k] = e
      PROVE  x = e \/ \E j \in 1..Len(q) : q[j] = e
  BY <1>1, <1>2
<1>3. ASSUME \/ x = e
             \/ \E j \in 1..Len(q) : q[j] = e
      PROVE  \E k \in 1..Len(q) + 1 : Append(q, x)[k] = e
  BY <1>1, <1>3
<1> QED
  BY <1>1, <1>2, <1>3 DEF Contains

\* Two queues one behind the other hold what both hold.
LEMMA ConcatHolds ==
  ASSUME NEW S, NEW q \in Seq(S), NEW p \in Seq(S), NEW e
  PROVE  Contains(q \o p, e) <=> Contains(q, e) \/ Contains(p, e)
<1>1. /\ Len(q) \in Nat /\ Len(p) \in Nat /\ Len(q \o p) = Len(q) + Len(p)
      /\ \A k \in 1..Len(q) + Len(p) :
            (q \o p)[k] = IF k <= Len(q) THEN q[k] ELSE p[k - Len(q)]
  BY LenProperties, ConcatProperties
<1>2. ASSUME NEW k \in 1..Len(q) + Len(p), (q \o p)[k] = e
      PROVE  (\E j \in 1..Len(q) : q[j] = e) \/ (\E j \in 1..Len(p) : p[j] = e)
  <2>1. CASE k <= Len(q)
    BY <1>1, <1>2, <2>1
  <2>2. CASE k > Len(q)
    <3>1. k - Len(q) \in 1..Len(p) /\ p[k - Len(q)] = e
      BY <1>1, <1>2, <2>2
    <3> QED
      BY <3>1
  <2> QED
    BY <1>1, <2>1, <2>2
<1>3. ASSUME NEW j \in 1..Len(q), q[j] = e
      PROVE  \E k \in 1..Len(q) + Len(p) : (q \o p)[k] = e
  BY <1>1, <1>3
<1>4. ASSUME NEW j \in 1..Len(p), p[j] = e
      PROVE  \E k \in 1..Len(q) + Len(p) : (q \o p)[k] = e
  <2>1. j + Len(q) \in 1..Len(q) + Len(p) /\ (q \o p)[j + Len(q)] = e
    BY <1>1, <1>4
  <2> QED
    BY <2>1
<1> QED
  BY <1>1, <1>2, <1>3, <1>4 DEF Contains

\* A queue holds its head and what its tail holds.
LEMMA TailHolds ==
  ASSUME NEW S, NEW q \in Seq(S), q # <<>>, NEW e
  PROVE  Contains(q, e) <=> Head(q) = e \/ Contains(Tail(q), e)
<1>1. /\ Len(q) \in Nat \ {0} /\ Head(q) = q[1] /\ Len(Tail(q)) = Len(q) - 1
      /\ \A k \in 1..Len(q) - 1 : Tail(q)[k] = q[k + 1]
  BY LenProperties, EmptySeq, HeadTailProperties
<1>2. ASSUME NEW k \in 1..Len(q), q[k] = e, k # 1
      PROVE  \E j \in 1..Len(q) - 1 : Tail(q)[j] = e
  <2>1. k - 1 \in 1..Len(q) - 1 /\ Tail(q)[k - 1] = e
    BY <1>1, <1>2
  <2> QED
    BY <2>1
<1>3. ASSUME NEW j \in 1..Len(q) - 1, Tail(q)[j] = e
      PROVE  \E k \in 1..Len(q) : q[k] = e
  <2>1. j + 1 \in 1..Len(q) /\ q[j + 1] = e
    BY <1>1, <1>3
  <2> QED
    BY <2>1
<1> QED
  BY <1>1, <1>2, <1>3 DEF Contains

\* An element that was not held is held once when it is appended.
LEMMA AppendOnce ==
  ASSUME NEW S, NEW q \in Seq(S), NEW x \in S, NEW e, Once(q, e),
         x = e => ~Contains(q, e)
  PROVE  Once(Append(q, x), e)
<1>1. /\ Len(q) \in Nat /\ Len(Append(q, x)) = Len(q) + 1
      /\ Append(q, x)[Len(q) + 1] = x
      /\ \A k \in 1..Len(q) : Append(q, x)[k] = q[k]
  BY LenProperties, AppendProperties
<1> QED
  BY <1>1 DEF Once, Contains

\* What a queue holds once its tail holds once, and not if it is the head.
LEMMA TailOnce ==
  ASSUME NEW S, NEW q \in Seq(S), q # <<>>, NEW e, Once(q, e)
  PROVE  Once(Tail(q), e) /\ (Head(q) = e => ~Contains(Tail(q), e))
<1>1. /\ Len(q) \in Nat \ {0} /\ Head(q) = q[1] /\ Len(Tail(q)) = Len(q) - 1
      /\ \A k \in 1..Len(q) - 1 : Tail(q)[k] = q[k + 1]
  BY LenProperties, EmptySeq, HeadTailProperties
<1>2. ASSUME NEW i \in 1..Len(q) - 1, NEW j \in 1..Len(q) - 1, Tail(q)[i] = e, Tail(q)[j] = e
      PROVE  i = j
  <2>1. i + 1 \in 1..Len(q) /\ j + 1 \in 1..Len(q) /\ q[i + 1] = e /\ q[j + 1] = e
    BY <1>1, <1>2
  <2> QED
    BY <1>1, <2>1 DEF Once
<1>3. ASSUME NEW i \in 1..Len(q) - 1, Tail(q)[i] = e, Head(q) = e
      PROVE  FALSE
  <2>1. i + 1 \in 1..Len(q) /\ q[i + 1] = e /\ 1 \in 1..Len(q) /\ q[1] = e
    BY <1>1, <1>3
  <2> QED
    BY <1>1, <2>1 DEF Once
<1> QED
  BY <1>1, <1>2, <1>3 DEF Once, Contains

\* The empty queue holds nothing.
LEMMA EmptyHolds ==
  ASSUME NEW e
  PROVE  ~Contains(<<>>, e) /\ Once(<<>>, e)
  BY DEF Contains, Once

-----------------------------------------------------------------------------
(* The set of what a queue holds                                           *)

\* What a queue holds.
LEMMA HeldIs ==
  ASSUME NEW S, NEW q \in Seq(S)
  PROVE  ToSet(q) \subseteq S /\ \A e : e \in ToSet(q) <=> Contains(q, e)
<1>1. DOMAIN q = 1..Len(q) /\ \A k \in 1..Len(q) : q[k] \in S
  BY LenProperties, ElementOfSeq
<1> QED
  BY <1>1 DEF ToSet, Contains

\* An empty queue holds nothing.
LEMMA EmptyHeld == ToSet(<<>>) = {}
  BY DEF ToSet

\* A queue holds what was appended.
LEMMA AppendHeld ==
  ASSUME NEW S, NEW q \in Seq(S), NEW x \in S
  PROVE  ToSet(Append(q, x)) = ToSet(q) \cup {x} /\ Append(q, x) \in Seq(S)
<1> DEFINE p == Append(q, x)
<1>1. p \in Seq(S)
  BY AppendProperties
<1>2. \A e : Contains(p, e) <=> Contains(q, e) \/ x = e
  BY AppendHolds
<1> HIDE DEF p
<1>3. \A e : e \in ToSet(p) <=> e \in ToSet(q) \/ x = e
  BY <1>1, <1>2, HeldIs
<1> QED
  BY <1>1, <1>3 DEF p

\* Two queues hold what each held.
LEMMA ConcatHeld ==
  ASSUME NEW S, NEW q \in Seq(S), NEW p \in Seq(S)
  PROVE  ToSet(q \o p) = ToSet(q) \cup ToSet(p) /\ q \o p \in Seq(S)
<1>1. q \o p \in Seq(S)
  BY ConcatProperties
<1> QED
  BY <1>1, HeldIs, ConcatHolds

\* A queue holds its head and what its tail holds.
LEMMA TailHeld ==
  ASSUME NEW S, NEW q \in Seq(S), q # <<>>
  PROVE  /\ ToSet(q) = ToSet(Tail(q)) \cup {Head(q)}
         /\ Head(q) \in S /\ Tail(q) \in Seq(S)
<1>1. Head(q) \in S /\ Tail(q) \in Seq(S)
  BY HeadTailProperties
<1> QED
  BY <1>1, HeldIs, TailHolds

\* The part of a queue from one place to another holds nothing else.
LEMMA PartHeld ==
  ASSUME NEW S, NEW q \in Seq(S), NEW m \in Nat \ {0}, NEW n \in 0..Len(q)
  PROVE  ToSet(SubSeq(q, m, n)) \subseteq ToSet(q) /\ SubSeq(q, m, n) \in Seq(S)
<1>1. /\ Len(q) \in Nat /\ DOMAIN q = 1..Len(q)
      /\ \A k \in 1..Len(q) : q[k] \in S
  BY LenProperties, ElementOfSeq
<1>2. /\ SubSeq(q, m, n) \in Seq(S)
      /\ Len(SubSeq(q, m, n)) = IF m <= n THEN n - m + 1 ELSE 0
      /\ \A k \in 1..(n - m + 1) : SubSeq(q, m, n)[k] = q[m + k - 1]
  BY <1>1, SubSeqProperties
<1>3. ASSUME NEW k \in 1..Len(SubSeq(q, m, n)) PROVE SubSeq(q, m, n)[k] \in ToSet(q)
  <2>1. k \in 1..(n - m + 1) /\ m + k - 1 \in 1..Len(q)
    BY <1>1, <1>2
  <2> QED
    BY <1>1, <1>2, <2>1 DEF ToSet
<1> QED
  BY <1>2, <1>3, LenProperties DEF ToSet

\* A queue without one of its elements holds all others.
LEMMA RemoveHeld ==
  ASSUME NEW S, NEW q \in Seq(S), NEW k \in DOMAIN q
  PROVE  /\ RemoveAt(q, k) \in Seq(S)
         /\ ToSet(q) = ToSet(RemoveAt(q, k)) \cup {q[k]}
<1> DEFINE n == Len(q)
           front == SubSeq(q, 1, k - 1)
           back == SubSeq(q, k + 1, n)
<1>1. n \in Nat /\ k \in 1..n /\ DOMAIN q = 1..n
  BY LenProperties
<1>2. /\ front \in Seq(S) /\ back \in Seq(S)
      /\ ToSet(front) \subseteq ToSet(q) /\ ToSet(back) \subseteq ToSet(q)
  <2>1. 1 \in Nat \ {0} /\ k - 1 \in 0..n /\ k + 1 \in Nat \ {0} /\ n \in 0..n
    BY <1>1
  <2> QED
    BY <2>1, PartHeld
<1>3. /\ Len(front) = k - 1 /\ \A i \in 1..k - 1 : front[i] = q[i]
      /\ Len(back) = n - k /\ \A i \in 1..n - k : back[i] = q[k + i]
  <2>1. \A i \in 1..n : q[i] \in S
    BY <1>1, ElementOfSeq
  <2>2. Len(front) = k - 1 /\ \A i \in 1..k - 1 : front[i] = q[1 + i - 1]
    BY <1>1, <2>1, SubSeqProperties
  <2>3. /\ Len(back) = IF k + 1 <= n THEN n - (k + 1) + 1 ELSE 0
        /\ \A i \in 1..(n - (k + 1) + 1) : back[i] = q[k + 1 + i - 1]
    BY <1>1, <2>1, SubSeqProperties
  <2>4. Len(back) = n - k
    BY <1>1, <2>3
  <2>5. \A i \in 1..n - k : back[i] = q[k + i]
    <3> SUFFICES ASSUME NEW i \in 1..n - k PROVE back[i] = q[k + i]
      OBVIOUS
    <3>1. i \in 1..(n - (k + 1) + 1) /\ k + 1 + i - 1 = k + i
      BY <1>1
    <3> QED
      BY <2>3, <3>1
  <2>6. \A i \in 1..k - 1 : front[i] = q[i]
    BY <1>1, <2>2
  <2> QED
    BY <2>2, <2>4, <2>5, <2>6
<1>4. ASSUME NEW i \in 1..n, i # k PROVE q[i] \in ToSet(front) \cup ToSet(back)
  <2>1. DOMAIN front = 1..k - 1 /\ DOMAIN back = 1..n - k
    BY <1>2, <1>3, LenProperties
  <2>2. CASE i < k
    <3>1. i \in 1..k - 1
      BY <1>1, <2>2
    <3> QED
      BY <1>3, <2>1, <3>1 DEF ToSet
  <2>3. CASE i > k
    <3>1. i - k \in 1..n - k /\ q[k + (i - k)] = q[i]
      BY <1>1, <2>3
    <3>2. back[i - k] = q[i]
      BY <1>3, <3>1
    <3> QED
      BY <2>1, <3>1, <3>2 DEF ToSet
  <2> QED
    BY <1>1, <1>4, <2>2, <2>3
<1> HIDE DEF front, back, n
<1>5. /\ RemoveAt(q, k) = front \o back /\ front \o back \in Seq(S)
      /\ ToSet(front \o back) = ToSet(front) \cup ToSet(back)
  <2>1. RemoveAt(q, k) = front \o back
    BY DEF RemoveAt, front, back, n
  <2>2. front \o back \in Seq(S) /\ ToSet(front \o back) = ToSet(front) \cup ToSet(back)
    BY <1>2, ConcatHeld
  <2> QED
    BY <2>1, <2>2
<1>6. ToSet(q) = {q[i] : i \in 1..n}
  BY <1>1 DEF ToSet
<1>7. ToSet(q) \subseteq ToSet(front) \cup ToSet(back) \cup {q[k]}
  BY <1>4, <1>6
<1>8. q[k] \in ToSet(q)
  BY <1>1, <1>6
<1>9. ToSet(q) = ToSet(front) \cup ToSet(back) \cup {q[k]}
  BY <1>2, <1>7, <1>8
<1> QED
  BY <1>5, <1>9

\* A queue without its k-th element has those behind it one place further on.
LEMMA RemovedAt ==
  ASSUME NEW S, NEW q \in Seq(S), NEW k \in DOMAIN q
  PROVE  /\ Len(RemoveAt(q, k)) = Len(q) - 1
         /\ \A i \in 1..Len(q) - 1 : RemoveAt(q, k)[i] = q[IF i < k THEN i ELSE i + 1]
<1> DEFINE n == Len(q)
           front == SubSeq(q, 1, k - 1)
           back == SubSeq(q, k + 1, n)
<1>1. /\ n \in Nat /\ k \in 1..n /\ DOMAIN q = 1..n
      /\ \A i \in 1..n : q[i] \in S
  BY LenProperties, ElementOfSeq
<1>2. /\ front \in Seq(S) /\ Len(front) = k - 1
      /\ \A i \in 1..k - 1 : front[i] = q[1 + i - 1]
  BY <1>1, SubSeqProperties
<1>3. /\ back \in Seq(S)
      /\ Len(back) = IF k + 1 <= n THEN n - (k + 1) + 1 ELSE 0
      /\ \A i \in 1..(n - (k + 1) + 1) : back[i] = q[k + 1 + i - 1]
  BY <1>1, SubSeqProperties
<1>4. Len(back) = n - k
  BY <1>1, <1>3
<1> HIDE DEF front, back
<1>5. /\ Len(front \o back) = Len(front) + Len(back)
      /\ \A i \in 1..Len(front) + Len(back) :
            (front \o back)[i] = IF i <= Len(front) THEN front[i] ELSE back[i - Len(front)]
  BY <1>2, <1>3, ConcatProperties
<1>6. RemoveAt(q, k) = front \o back
  BY DEF RemoveAt, front, back
<1>7. ASSUME NEW i \in 1..n - 1 PROVE (front \o back)[i] = q[IF i < k THEN i ELSE i + 1]
  <2>1. i \in 1..Len(front) + Len(back)
    BY <1>1, <1>2, <1>4
  <2>2. CASE i < k
    <3>1. i \in 1..k - 1 /\ 1 + i - 1 = i /\ i <= Len(front)
      BY <1>1, <1>2, <2>2
    <3> QED
      BY <1>2, <1>5, <2>1, <2>2, <3>1
  <2>3. CASE ~(i < k)
    <3>1. /\ i - (k - 1) \in 1..(n - (k + 1) + 1) /\ k + 1 + (i - (k - 1)) - 1 = i + 1
          /\ ~(i <= Len(front))
      BY <1>1, <1>2, <2>3
    <3>2. back[i - (k - 1)] = q[i + 1]
      BY <1>3, <3>1
    <3> QED
      BY <1>2, <1>5, <2>1, <2>3, <3>1, <3>2
  <2> QED
    BY <2>2, <2>3
<1>8. Len(front \o back) = n - 1
  BY <1>1, <1>2, <1>4, <1>5
<1> QED
  BY <1>6, <1>7, <1>8

\* Taking the head of two queues, one behind the other.
LEMMA TailOfConcat ==
  ASSUME NEW S, NEW q \in Seq(S), NEW p \in Seq(S), q # <<>>
  PROVE  Tail(q \o p) = Tail(q) \o p /\ Head(q \o p) = Head(q)
<1> DEFINE s == q \o p
           t == Tail(q) \o p
<1>1. /\ Len(q) \in Nat \ {0} /\ Len(p) \in Nat /\ s \in Seq(S) /\ Len(s) = Len(q) + Len(p)
      /\ \A i \in 1..Len(q) + Len(p) : s[i] = IF i <= Len(q) THEN q[i] ELSE p[i - Len(q)]
  BY LenProperties, EmptySeq, ConcatProperties
<1>2. /\ Tail(q) \in Seq(S) /\ Len(Tail(q)) = Len(q) - 1 /\ Head(q) = q[1]
      /\ \A i \in 1..Len(q) - 1 : Tail(q)[i] = q[i + 1]
  BY HeadTailProperties
<1>3. /\ t \in Seq(S) /\ Len(t) = Len(Tail(q)) + Len(p)
      /\ \A i \in 1..Len(Tail(q)) + Len(p) :
            t[i] = IF i <= Len(Tail(q)) THEN Tail(q)[i] ELSE p[i - Len(Tail(q))]
  BY <1>2, ConcatProperties
<1> HIDE DEF s, t
<1>4. s # <<>>
  BY <1>1, EmptySeq
<1>5. /\ Tail(s) \in Seq(S) /\ Len(Tail(s)) = Len(s) - 1 /\ Head(s) = s[1]
      /\ \A i \in 1..Len(s) - 1 : Tail(s)[i] = s[i + 1]
  BY <1>1, <1>4, HeadTailProperties
<1>6. Len(Tail(s)) = Len(t)
  BY <1>1, <1>2, <1>3, <1>5
<1>7. ASSUME NEW i \in 1..Len(t) PROVE Tail(s)[i] = t[i]
  <2>1. i + 1 \in 1..Len(q) + Len(p) /\ i \in 1..Len(s) - 1
    BY <1>1, <1>2, <1>3
  <2>2. Tail(s)[i] = s[i + 1]
    BY <1>5, <2>1
  <2>3. CASE i + 1 <= Len(q)
    <3>1. i \in 1..Len(q) - 1 /\ i <= Len(Tail(q)) /\ i \in 1..Len(Tail(q)) + Len(p)
      BY <1>1, <1>2, <2>3
    <3> QED
      BY <1>1, <1>2, <1>3, <2>1, <2>2, <2>3, <3>1
  <2>4. CASE ~(i + 1 <= Len(q))
    <3>1. ~(i <= Len(Tail(q))) /\ i \in 1..Len(Tail(q)) + Len(p)
          /\ i - Len(Tail(q)) = i + 1 - Len(q)
      BY <1>1, <1>2, <1>3, <2>4
    <3> QED
      BY <1>1, <1>3, <2>1, <2>2, <2>4, <3>1
  <2> QED
    BY <2>3, <2>4
<1>8. Tail(s) = t
  BY <1>3, <1>5, <1>6, <1>7, SeqEqual
<1>9. Head(s) = Head(q)
  BY <1>1, <1>2, <1>5
<1> QED
  BY <1>8, <1>9 DEF s, t

-----------------------------------------------------------------------------
(* Counting elements of a kind                                             *)

Where(q, kind) == {k \in 1..Len(q) : q[k] \in kind}
Count(q, kind) == Cardinality(Where(q, kind))

\* Where(q, kind) is finite, and its number is natural.
LEMMA CountType ==
  ASSUME NEW S, NEW q \in Seq(S), NEW kind
  PROVE  IsFiniteSet(Where(q, kind)) /\ Count(q, kind) \in Nat
<1>1. Len(q) \in Nat /\ IsFiniteSet(1..Len(q))
  BY FS_Interval, LenProperties
<1>2. Where(q, kind) \in SUBSET (1..Len(q))
  BY DEF Where
<1> QED
  BY <1>1, <1>2, FS_Subset, FS_CardinalityType DEF Count

\* An empty queue holds none.
LEMMA CountEmpty ==
  ASSUME NEW kind
  PROVE  Count(<<>>, kind) = 0
<1>1. Where(<<>>, kind) = {}
  BY DEF Where
<1> QED
  BY <1>1, FS_EmptySet DEF Count

\* A queue that holds one has a positive count.
LEMMA CountPositive ==
  ASSUME NEW S, NEW q \in Seq(S), NEW kind, NEW k \in 1..Len(q), q[k] \in kind
  PROVE  Count(q, kind) > 0
<1>1. Where(q, kind) # {}
  BY DEF Where
<1> QED
  BY <1>1, CountType, FS_EmptySet DEF Count

\* The new last element counts if it is of the kind.
LEMMA CountAppend ==
  ASSUME NEW S, NEW q \in Seq(S), NEW x \in S, NEW kind
  PROVE  Count(Append(q, x), kind) = Count(q, kind) + (IF x \in kind THEN 1 ELSE 0)
<1> DEFINE n == Len(q)
<1>1. n \in Nat /\ Len(Append(q, x)) = n + 1
  BY LenProperties, AppendProperties
<1>2. \A k \in 1..n : Append(q, x)[k] = q[k]
  BY AppendProperties
<1>3. Append(q, x)[n + 1] = x
  BY AppendProperties
<1>4. IsFiniteSet(Where(q, kind)) /\ n + 1 \notin Where(q, kind) /\ Count(q, kind) \in Nat
  <2>1. n + 1 \notin Where(q, kind)
    BY <1>1 DEF Where
  <2> QED
    BY <2>1, CountType
<1>5. CASE x \in kind
  <2>1. Where(Append(q, x), kind) = Where(q, kind) \cup {n + 1}
    BY <1>1, <1>2, <1>3, <1>5 DEF Where
  <2> QED
    BY <1>4, <1>5, <2>1, FS_AddElement DEF Count
<1>6. CASE x \notin kind
  <2>1. Where(Append(q, x), kind) = Where(q, kind)
    BY <1>1, <1>2, <1>3, <1>6 DEF Where
  <2> QED
    BY <1>4, <1>6, <2>1 DEF Count
<1> QED
  BY <1>5, <1>6

\* The head counted if it is of the kind.
LEMMA CountTail ==
  ASSUME NEW S, NEW q \in Seq(S), q # <<>>, NEW kind
  PROVE  Count(Tail(q), kind) = Count(q, kind) - (IF Head(q) \in kind THEN 1 ELSE 0)
<1> DEFINE n == Len(q)
           old == Where(q, kind) \ {1}
           shift == [k \in old |-> k - 1]
<1>1. n \in Nat /\ n > 0 /\ Head(q) = q[1]
  BY LenProperties, EmptySeq
<1>2. Len(Tail(q)) = n - 1 /\ \A k \in 1..n - 1 : Tail(q)[k] = q[k + 1]
  BY HeadTailProperties
<1>3. /\ IsFiniteSet(Where(q, kind)) /\ IsFiniteSet(old)
      /\ Cardinality(old) = Count(q, kind) - (IF Head(q) \in kind THEN 1 ELSE 0)
  <2>1. 1 \in Where(q, kind) <=> Head(q) \in kind
    BY <1>1 DEF Where
  <2>2. IsFiniteSet(Where(q, kind)) /\ Count(q, kind) \in Nat
    BY CountType
  <2> QED
    BY <2>1, <2>2, FS_RemoveElement DEF Count
<1>4. ExistsBijection(old, Where(Tail(q), kind))
  <2>1. shift \in [old -> Where(Tail(q), kind)]
    BY <1>1, <1>2 DEF Where
  <2>2. \A j, k \in old : shift[j] = shift[k] => j = k
    BY <1>1 DEF Where
  <2>3. ASSUME NEW k \in Where(Tail(q), kind)
        PROVE  k + 1 \in old /\ shift[k + 1] = k
    BY <1>1, <1>2, <2>3 DEF Where
  <2> HIDE DEF shift, old
  <2>4. shift \in Injection(old, Where(Tail(q), kind))
    BY <2>1, <2>2 DEF Injection, IsInjective
  <2>5. shift \in Surjection(old, Where(Tail(q), kind))
    BY <2>1, <2>3 DEF Surjection
  <2> QED
    BY <2>4, <2>5 DEF Bijection, ExistsBijection
<1> QED
  BY <1>3, <1>4, FS_Bijection DEF Count

\* The other part of two queues one behind the other is counted as before.
LEMMA CountConcat ==
  ASSUME NEW S, NEW q \in Seq(S), NEW p \in Seq(S), NEW kind
  PROVE  Count(q \o p, kind) = Count(q, kind) + Count(p, kind)
<1> DEFINE n == Len(q)
           behind == {k + n : k \in Where(p, kind)}
           shift == [k \in Where(p, kind) |-> k + n]
<1>1. /\ n \in Nat /\ Len(p) \in Nat /\ Len(q \o p) = n + Len(p)
      /\ \A k \in 1..n + Len(p) : (q \o p)[k] = IF k <= n THEN q[k] ELSE p[k - n]
  BY LenProperties, ConcatProperties
<1>2. /\ IsFiniteSet(Where(q, kind)) /\ IsFiniteSet(Where(p, kind))
      /\ Count(q, kind) \in Nat /\ Count(p, kind) \in Nat
  BY CountType
<1>3. ExistsBijection(Where(p, kind), behind)
  <2>1. shift \in [Where(p, kind) -> behind]
    BY <1>1 DEF Where
  <2>2. \A j, k \in Where(p, kind) : shift[j] = shift[k] => j = k
    BY <1>1 DEF Where
  <2>3. \A i \in behind : \E k \in Where(p, kind) : shift[k] = i
    BY <1>1 DEF Where
  <2> HIDE DEF shift, behind
  <2>4. shift \in Injection(Where(p, kind), behind)
    BY <2>1, <2>2 DEF Injection, IsInjective
  <2>5. shift \in Surjection(Where(p, kind), behind)
    BY <2>1, <2>3 DEF Surjection
  <2> QED
    BY <2>4, <2>5 DEF Bijection, ExistsBijection
<1>4. Where(q, kind) \cap behind = {}
  BY <1>1 DEF Where
<1>5. Where(q \o p, kind) = Where(q, kind) \cup behind
  <2>1. ASSUME NEW k \in Where(q \o p, kind) PROVE k \in Where(q, kind) \cup behind
    <3>1. k \in 1..n + Len(p) /\ (q \o p)[k] \in kind
      BY <1>1 DEF Where
    <3>2. CASE k <= n
      BY <1>1, <3>1, <3>2 DEF Where
    <3>3. CASE ~(k <= n)
      <4>1. k - n \in 1..Len(p) /\ p[k - n] \in kind /\ k = (k - n) + n
        BY <1>1, <3>1, <3>3
      <4> QED
        BY <4>1 DEF Where
    <3> QED
      BY <3>2, <3>3
  <2>2. ASSUME NEW k \in Where(q, kind) PROVE k \in Where(q \o p, kind)
    <3>1. k \in 1..n /\ q[k] \in kind
      BY DEF Where
    <3>2. k \in 1..n + Len(p) /\ k <= n
      BY <1>1, <3>1
    <3> QED
      BY <1>1, <3>1, <3>2 DEF Where
  <2>3. ASSUME NEW k \in Where(p, kind) PROVE k + n \in Where(q \o p, kind)
    <3>1. k \in 1..Len(p) /\ p[k] \in kind
      BY DEF Where
    <3>2. k + n \in 1..n + Len(p) /\ ~(k + n <= n) /\ (k + n) - n = k
      BY <1>1, <3>1
    <3> QED
      BY <1>1, <3>1, <3>2 DEF Where
  <2> QED
    BY <2>1, <2>2, <2>3
<1> HIDE DEF behind
<1>6. IsFiniteSet(behind) /\ Cardinality(behind) = Count(p, kind)
  BY <1>2, <1>3, FS_Bijection DEF Count
<1>7. Cardinality(Where(q, kind) \cup behind)
        = Cardinality(Where(q, kind)) + Cardinality(behind) - Cardinality({})
  BY <1>2, <1>4, <1>6, FS_Union
<1> QED
  BY <1>2, <1>5, <1>6, <1>7, FS_EmptySet DEF Count

\* Where each element of a kind has one of its own in another queue, that
\* holds as many of the kind at least.
LEMMA CountEmbed ==
  ASSUME NEW S, NEW q \in Seq(S), NEW T, NEW p \in Seq(T), NEW kind, NEW other,
         NEW f \in [Where(p, other) -> Where(q, kind)],
         \A j, k \in Where(p, other) : f[j] = f[k] => j = k
  PROVE  Count(p, other) <= Count(q, kind)
<1>1. IsFiniteSet(Where(q, kind))
  BY CountType
<1>2. f \in Injection(Where(p, other), Where(q, kind))
  BY DEF Injection, IsInjective
<1>3. Cardinality(Where(p, other)) <= Cardinality(Where(q, kind))
  BY <1>1, <1>2, FS_Injection
<1> QED
  BY <1>3 DEF Count

\* A part of a queue holds no more than the queue.
LEMMA CountPart ==
  ASSUME NEW S, NEW q \in Seq(S), NEW m \in Nat \ {0}, NEW n \in 0..Len(q), NEW kind
  PROVE  Count(SubSeq(q, m, n), kind) <= Count(q, kind)
<1> DEFINE p == SubSeq(q, m, n)
           f == [k \in Where(p, kind) |-> m + k - 1]
<1>1. /\ Len(q) \in Nat /\ \A k \in 1..Len(q) : q[k] \in S
  BY LenProperties, ElementOfSeq
<1>2. /\ p \in Seq(S)
      /\ Len(p) = IF m <= n THEN n - m + 1 ELSE 0
      /\ \A k \in 1..(n - m + 1) : p[k] = q[m + k - 1]
  BY <1>1, SubSeqProperties
<1>3. ASSUME NEW k \in Where(p, kind) PROVE f[k] = m + k - 1 /\ k \in Nat /\ f[k] \in Where(q, kind)
  <2>1. k \in 1..Len(p) /\ p[k] \in kind
    BY DEF Where
  <2>2. k \in 1..(n - m + 1) /\ m + k - 1 \in 1..Len(q)
    BY <1>1, <1>2, <2>1
  <2> QED
    BY <1>2, <2>1, <2>2 DEF Where
<1>4. f \in [Where(p, kind) -> Where(q, kind)]
  BY <1>3
<1>5. \A j, k \in Where(p, kind) : f[j] = f[k] => j = k
  BY <1>3
<1> HIDE DEF f, p
<1>6. Count(p, kind) <= Count(q, kind)
  BY <1>2, <1>4, <1>5, CountEmbed
<1> QED
  BY <1>6 DEF p

\* A queue with none of a kind counts none of it.
LEMMA CountNone ==
  ASSUME NEW q, NEW kind, \A k \in 1..Len(q) : q[k] \notin kind
  PROVE  Count(q, kind) = 0
<1>1. Where(q, kind) = {}
  BY DEF Where
<1> QED
  BY <1>1, FS_EmptySet DEF Count

\* A queue with one place at most for a kind counts one at most.
LEMMA CountOnce ==
  ASSUME NEW S, NEW q \in Seq(S), NEW kind,
         \A j, k \in 1..Len(q) : q[j] \in kind /\ q[k] \in kind => j = k
  PROVE  Count(q, kind) <= 1
<1>1. CASE Where(q, kind) = {}
  BY <1>1, FS_EmptySet DEF Count
<1>2. CASE Where(q, kind) # {}
  <2>1. PICK k \in Where(q, kind) : TRUE
    BY <1>2
  <2>2. Where(q, kind) = {k}
    BY <2>1 DEF Where
  <2>3. Cardinality({k}) = 1
    BY FS_Singleton
  <2> QED
    BY <2>2, <2>3 DEF Count
<1> QED
  BY <1>1, <1>2

-----------------------------------------------------------------------------
(* Naturals                                                                *)

\* A set of naturals with an element has a least one.
LEMMA LeastOf ==
  ASSUME NEW S \in SUBSET Nat, S # {}
  PROVE  \E x \in S : \A y \in S : x <= y
<1> DEFINE R == OpToRel(<, Nat)
<1>1. IsWellFoundedOn(R, Nat)
  BY NatLessThanWellFounded, Zenon
<1>2. \A x, y \in Nat : x < y => <<x, y>> \in R
  BY Zenon DEF OpToRel
<1> HIDE DEF R
<1>3. PICK x \in S : \A y \in S : ~ (<<y, x>> \in R)
  BY <1>1, WFMin
<1>4. \A y \in S : ~ (y < x)
  BY <1>2, <1>3
<1> QED
  BY <1>3, <1>4
=============================================================================
