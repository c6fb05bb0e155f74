------------------------- MODULE ContinuationsProofs -------------------------
(***************************************************************************)
(* A continuation's prompt is injected once, and its row tells what became *)
(* of it, for every number of continuations, edits, pauses, lost           *)
(* connections and restarts.                                               *)
(***************************************************************************)
EXTENDS Continuations, Queues

-----------------------------------------------------------------------------
(* What a flush sends                                                      *)

\* There are finitely many configurations.
LEMMA ConfigsFinite == IsFiniteSet(Configs)
<1> DEFINE pairs == Ids \X (0..MaxChanges)
           f == [p \in pairs |-> [id |-> p[1], edit |-> p[2]]]
<1>1. IsFiniteSet(0..MaxChanges) /\ IsFiniteSet(Ids)
  BY BoundsAssumption, IdsAssumption, FS_Interval
<1>2. IsFiniteSet(pairs)
  BY <1>1, FS_Product
<1>3. f \in [pairs -> Configs]
  BY DEF Configs
<1>4. ASSUME NEW x \in Configs PROVE \E p \in pairs : f[p] = x
  <2>1. <<x.id, x.edit>> \in pairs /\ x = [id |-> x.id, edit |-> x.edit]
    BY DEF Configs
  <2>2. f[<<x.id, x.edit>>] = x
    BY <2>1
  <2> QED
    BY <2>1, <2>2
<1> HIDE DEF f, pairs
<1>5. f \in Surjection(pairs, Configs)
  BY <1>3, <1>4 DEF Surjection
<1> QED
  BY <1>2, <1>5, FS_Surjection

\* An order of some configurations has each of them once.
LEMMA OrderOnce ==
  ASSUME NEW configs \in SUBSET Configs, NEW order \in SetToSeqs(configs)
  PROVE  /\ order \in Seq(configs)
         /\ \A i, j \in 1..Len(order) : order[i] = order[j] => i = j
<1>1. Cardinality(configs) \in Nat
  BY ConfigsFinite, FS_Subset, FS_CardinalityType
<1>2. /\ order \in [1..Cardinality(configs) -> configs]
      /\ \A i, j \in 1..Cardinality(configs) : i # j => order[i] # order[j]
  BY DEF SetToSeqs
<1>3. order \in Seq(configs) /\ Len(order) = Cardinality(configs)
  BY <1>1, <1>2, LenProperties
<1> QED
  BY <1>2, <1>3

\* The frames a delivery is flushed as: none, if it is discarded.
FlushedAs(delivery, configs) ==
    IF Authorized(delivery, configs) THEN FramesOf(delivery) ELSE <<>>

\* u goes through the first m deliveries and holds the frames up to each.
StepsTo(u, m, work, configs) ==
    /\ u \in [0..m -> Seq(UpFrames)]
    /\ u[0] = <<>>
    /\ \A n \in 1..m : u[n] = u[n - 1] \o FlushedAs(work[n], configs)

\* What one delivery is flushed as are frames to the backend.
LEMMA FlushedType ==
  ASSUME NEW delivery \in Deliveries, NEW configs
  PROVE  FlushedAs(delivery, configs) \in Seq(UpFrames)
<1>1. delivery.config.id \in Ids
  BY DEF Deliveries, Configs
<1>2. /\ Frame("inject", delivery.config.id) \in UpFrames
      /\ Frame("fired", delivery.config.id) \in UpFrames
      /\ Frame("launch", delivery.config.id) \in UpFrames
  BY <1>1 DEF Frame, UpFrames
<1> QED
  BY <1>2 DEF FlushedAs, FramesOf

\* One can go through all deliveries.
LEMMA StepsExist ==
  ASSUME NEW work \in Seq(Deliveries), NEW configs
  PROVE  \E u : StepsTo(u, Len(work), work, configs)
<1> DEFINE N == Len(work)
           Bad == {m \in 0..N : ~ \E u : StepsTo(u, m, work, configs)}
<1>1. N \in Nat /\ \A n \in 1..N : work[n] \in Deliveries
  BY LenProperties, ElementOfSeq
<1>2. Bad = {}
  <2> SUFFICES ASSUME Bad # {} PROVE FALSE
    OBVIOUS
  <2>1. \A m \in 0..N : m \in Nat
    BY <1>1
  <2>2. Bad \in SUBSET Nat
    BY <2>1
  <2>3. PICK m \in Bad : \A k \in Bad : m <= k
    BY <2>2, LeastOf
  <2>4. m \in 0..N /\ ~ \E u : StepsTo(u, m, work, configs)
    BY <2>3
  <2>5. m # 0
    <3> DEFINE u0 == [k \in 0..0 |-> <<>>]
    <3>1. u0 \in [0..0 -> Seq(UpFrames)] /\ u0[0] = <<>>
      <4>1. <<>> \in Seq(UpFrames)
        BY EmptySeq
      <4> QED
        BY <4>1
    <3> HIDE DEF u0
    <3>2. StepsTo(u0, 0, work, configs)
      BY <3>1 DEF StepsTo
    <3> QED
      BY <2>4, <3>2
  <2>6. m \in 1..N /\ m - 1 \in 0..N /\ ~(m <= m - 1)
    BY <1>1, <2>4, <2>5
  <2>7. m - 1 \notin Bad
    BY <2>3, <2>6
  <2>8. PICK u : StepsTo(u, m - 1, work, configs)
    BY <2>6, <2>7
  <2> HIDE DEF Bad
  <2> DEFINE last == u[m - 1] \o FlushedAs(work[m], configs)
             v == [k \in 0..m |-> IF k = m THEN last ELSE u[k]]
  <2>9. last \in Seq(UpFrames)
    <3>1. u[m - 1] \in Seq(UpFrames) /\ FlushedAs(work[m], configs) \in Seq(UpFrames)
      BY <1>1, <2>6, <2>8, FlushedType DEF StepsTo
    <3> QED
      BY <3>1, ConcatProperties
  <2> HIDE DEF last
  <2>10. v \in [0..m -> Seq(UpFrames)]
    <3>1. \A k \in 0..m : k # m => k \in 0..m - 1
      BY <2>6
    <3>2. \A k \in 0..m : (IF k = m THEN last ELSE u[k]) \in Seq(UpFrames)
      BY <2>8, <2>9, <3>1 DEF StepsTo
    <3> QED
      BY <3>2
  <2>11. /\ v[m] = last
         /\ \A k \in 0..m - 1 : v[k] = u[k]
    BY <2>6
  <2> HIDE DEF v
  <2>12. v[0] = <<>>
    BY <2>6, <2>8, <2>11 DEF StepsTo
  <2>13. ASSUME NEW n \in 1..m PROVE v[n] = v[n - 1] \o FlushedAs(work[n], configs)
    <3>1. n - 1 \in 0..m - 1 /\ v[n - 1] = u[n - 1]
      BY <2>6, <2>11
    <3>2. CASE n = m
      BY <2>11, <3>1, <3>2 DEF last
    <3>3. CASE n # m
      <4>1. n \in 1..m - 1 /\ n \in 0..m - 1 /\ v[n] = u[n]
        BY <2>6, <2>11, <3>3
      <4>2. u[n] = u[n - 1] \o FlushedAs(work[n], configs)
        BY <2>8, <4>1 DEF StepsTo
      <4> QED
        BY <3>1, <4>1, <4>2
    <3> QED
      BY <3>2, <3>3
  <2>14. StepsTo(v, m, work, configs)
    BY <2>10, <2>12, <2>13 DEF StepsTo
  <2> QED
    BY <2>4, <2>14
<1>3. N \in 0..N
  BY <1>1
<1> QED
  BY <1>2, <1>3

\* So the function Sent is defined by exists, and Sent is where it ends.
LEMMA SentBySteps ==
  ASSUME NEW work \in Seq(Deliveries), NEW configs
  PROVE  \E u : StepsTo(u, Len(work), work, configs) /\ Sent(work, configs) = u[Len(work)]
<1> DEFINE N == Len(work)
           Defines(u) == u = [n \in 0..N |->
               IF n = 0 THEN <<>>
               ELSE u[n - 1] \o IF Authorized(work[n], configs) THEN FramesOf(work[n]) ELSE <<>>]
           w == CHOOSE u : Defines(u)
<1>1. N \in Nat /\ \A n \in 0..N : n = 0 \/ n \in 1..N
  BY LenProperties
<1>2. PICK u : StepsTo(u, N, work, configs)
  BY StepsExist
<1>3. Defines(u)
  <2>1. \A n \in 0..N : u[n] = IF n = 0 THEN <<>>
               ELSE u[n - 1] \o IF Authorized(work[n], configs) THEN FramesOf(work[n]) ELSE <<>>
    BY <1>1, <1>2 DEF StepsTo, FlushedAs
  <2>2. u = [n \in 0..N |-> u[n]]
    BY <1>2 DEF StepsTo
  <2> QED
    BY <2>1, <2>2
<1>4. Sent(work, configs) = w[N]
  BY DEF Sent
<1>5. Defines(w)
  BY <1>3
<1> HIDE DEF w
<1>6. \A n \in 0..N : w[n] = IF n = 0 THEN <<>>
               ELSE w[n - 1] \o IF Authorized(work[n], configs) THEN FramesOf(work[n]) ELSE <<>>
  BY <1>5
<1>7. w = [n \in 0..N |-> w[n]]
  BY <1>5
<1>8. w[0] = <<>>
  BY <1>1, <1>6
<1>9. \A n \in 1..N : n \in 0..N /\ n # 0
  BY <1>1
<1>10. \A n \in 1..N : w[n] = w[n - 1] \o FlushedAs(work[n], configs)
  BY <1>6, <1>9 DEF FlushedAs
<1> HIDE DEF Defines
<1>11. \A n \in 0..N : w[n] = u[n]
  <2> DEFINE Off == {n \in 0..N : w[n] # u[n]}
  <2> SUFFICES ASSUME Off # {} PROVE FALSE
    OBVIOUS
  <2>1. \A n \in 0..N : n \in Nat
    BY <1>1
  <2>2. Off \in SUBSET Nat
    BY <2>1
  <2>3. PICK m \in Off : \A k \in Off : m <= k
    BY <2>2, LeastOf
  <2>4. m \in 0..N /\ w[m] # u[m]
    BY <2>3
  <2>5. m # 0
    BY <1>2, <1>8, <2>4 DEF StepsTo
  <2>6. m \in 1..N /\ m - 1 \in 0..N /\ ~(m <= m - 1)
    BY <1>1, <2>4, <2>5
  <2>7. w[m - 1] = u[m - 1]
    BY <2>3, <2>6
  <2> QED
    BY <1>2, <1>10, <2>4, <2>6, <2>7 DEF StepsTo
<1>12. N \in 0..N
  BY <1>1
<1> QED
  BY <1>2, <1>4, <1>11, <1>12

-----------------------------------------------------------------------------
(* The tokens of a continuation                                            *)

\* The deliveries of a continuation, the frames that ask for its prompt to be
\* injected, now or after a launch, and its launch frames to the launcher.
DeliveriesOf(c) == [config : {x \in Configs : x.id = c}, kind : {"inject", "launch"}]
Asks(c) == {Frame("inject", c), Frame("launch", c)}
Launch(c) == {Frame("launch", c)}

\* Every report of c in q is behind an injection of c.
Paired(q, c) ==
    \A k \in 1..Len(q) : q[k] = Frame("fired", c) => \E j \in 1..(k - 1) : q[j] = Frame("inject", c)

\* q names c.
Names(q, c) == \E k \in 1..Len(q) : q[k].id = c

\* A queue of pairs behind another is one.
LEMMA PairedConcat ==
  ASSUME NEW q \in Seq(UpFrames), NEW p \in Seq(UpFrames), NEW c, Paired(q, c), Paired(p, c)
  PROVE  Paired(q \o p, c)
<1>1. /\ Len(q) \in Nat /\ Len(p) \in Nat /\ Len(q \o p) = Len(q) + Len(p)
      /\ \A k \in 1..Len(q) + Len(p) :
            (q \o p)[k] = IF k <= Len(q) THEN q[k] ELSE p[k - Len(q)]
  BY LenProperties, ConcatProperties
<1> SUFFICES ASSUME NEW k \in 1..Len(q) + Len(p), (q \o p)[k] = Frame("fired", c)
             PROVE  \E j \in 1..(k - 1) : (q \o p)[j] = Frame("inject", c)
  BY <1>1 DEF Paired
<1>2. CASE k <= Len(q)
  <2>1. k \in 1..Len(q) /\ q[k] = Frame("fired", c)
    BY <1>1, <1>2
  <2>2. PICK j \in 1..(k - 1) : q[j] = Frame("inject", c)
    BY <2>1 DEF Paired
  <2>3. j \in 1..Len(q) + Len(p) /\ j <= Len(q)
    BY <1>1, <2>1
  <2> QED
    BY <1>1, <2>2, <2>3
<1>3. CASE ~(k <= Len(q))
  <2>1. k - Len(q) \in 1..Len(p) /\ p[k - Len(q)] = Frame("fired", c)
    BY <1>1, <1>3
  <2>2. PICK j \in 1..(k - Len(q) - 1) : p[j] = Frame("inject", c)
    BY <2>1 DEF Paired
  <2>3. /\ j + Len(q) \in 1..Len(q) + Len(p) /\ ~(j + Len(q) <= Len(q))
        /\ (j + Len(q)) - Len(q) = j /\ j + Len(q) \in 1..(k - 1)
    BY <1>1, <2>1
  <2>4. (q \o p)[j + Len(q)] = p[j]
    BY <1>1, <2>3
  <2> QED
    BY <2>2, <2>3, <2>4
<1> QED
  BY <1>2, <1>3

\* So is the start of one.
LEMMA PairedStart ==
  ASSUME NEW q \in Seq(UpFrames), NEW n \in 0..Len(q), NEW c, Paired(q, c)
  PROVE  Paired(SubSeq(q, 1, n), c)
<1> DEFINE p == SubSeq(q, 1, n)
<1>1. Len(q) \in Nat /\ Len(p) = n /\ \A k \in 1..n : p[k] = q[k]
  <2>1. Len(q) \in Nat /\ \A k \in 1..Len(q) : q[k] \in UpFrames
    BY LenProperties, ElementOfSeq
  <2>2. /\ Len(p) = IF 1 <= n THEN n - 1 + 1 ELSE 0
        /\ \A k \in 1..(n - 1 + 1) : p[k] = q[1 + k - 1]
    BY <2>1, SubSeqProperties
  <2>3. n - 1 + 1 = n /\ \A k \in 1..n : 1 + k - 1 = k
    BY <2>1
  <2> QED
    BY <2>1, <2>2, <2>3
<1> HIDE DEF p
<1>2. Paired(p, c)
  <2> SUFFICES ASSUME NEW k \in 1..n, q[k] = Frame("fired", c)
               PROVE  \E j \in 1..(k - 1) : p[j] = Frame("inject", c)
    BY <1>1 DEF Paired
  <2>1. k \in 1..Len(q)
    BY <1>1
  <2>2. PICK j \in 1..(k - 1) : q[j] = Frame("inject", c)
    BY <2>1 DEF Paired
  <2>3. j \in 1..n
    BY <1>1
  <2> QED
    BY <1>1, <2>2, <2>3
<1> QED
  BY <1>2 DEF p

\* And one that has lost its head, which no report can be, unless that was
\* the injection.
LEMMA PairedTail ==
  ASSUME NEW q \in Seq(UpFrames), q # <<>>, NEW c, Paired(q, c)
  PROVE  /\ Head(q) # Frame("fired", c)
         /\ Head(q) # Frame("inject", c) => Paired(Tail(q), c)
<1>1. /\ Len(q) \in Nat \ {0} /\ Head(q) = q[1] /\ Len(Tail(q)) = Len(q) - 1
      /\ \A k \in 1..Len(q) - 1 : Tail(q)[k] = q[k + 1]
  BY LenProperties, EmptySeq, HeadTailProperties
<1>2. Head(q) # Frame("fired", c)
  BY <1>1 DEF Paired
<1>3. ASSUME Head(q) # Frame("inject", c), NEW k \in 1..Len(q) - 1,
             Tail(q)[k] = Frame("fired", c)
      PROVE  \E j \in 1..(k - 1) : Tail(q)[j] = Frame("inject", c)
  <2>1. k + 1 \in 1..Len(q) /\ q[k + 1] = Frame("fired", c)
    BY <1>1, <1>3
  <2>2. PICK j \in 1..(k + 1 - 1) : q[j] = Frame("inject", c)
    BY <2>1 DEF Paired
  <2>3. j # 1
    BY <1>1, <1>3, <2>2
  <2>4. j - 1 \in 1..(k - 1) /\ j - 1 \in 1..Len(q) - 1 /\ (j - 1) + 1 = j
    BY <1>1, <2>3
  <2>5. Tail(q)[j - 1] = q[j]
    BY <1>1, <2>4
  <2> QED
    BY <2>2, <2>4, <2>5
<1> QED
  BY <1>1, <1>2, <1>3 DEF Paired

\* The frames of one delivery are a pair or none, ask once at most, and only
\* for what was to be delivered.
LEMMA FlushedOnce ==
  ASSUME NEW d \in Deliveries, NEW configs, NEW c \in Ids
  PROVE  LET q == FlushedAs(d, configs)
         IN  /\ Count(q, Asks(c)) <= IF d \in DeliveriesOf(c) THEN 1 ELSE 0
             /\ Paired(q, c)
             /\ Names(q, c) => d \in DeliveriesOf(c)
<1> DEFINE q == FlushedAs(d, configs)
           i == d.config.id
<1>1. q \in Seq(UpFrames)
  BY FlushedType
<1>2. i = c => d \in DeliveriesOf(c)
  BY DEF Deliveries, DeliveriesOf
<1>3. \/ q = <<>>
      \/ q = <<Frame("inject", i), Frame("fired", i)>>
      \/ q = <<Frame("launch", i)>>
  BY DEF FlushedAs, FramesOf
<1> HIDE DEF q, i
<1>4. CASE q = <<>>
  <2>1. Len(q) = 0 /\ Count(q, Asks(c)) = 0
    BY <1>4, CountEmpty
  <2> QED
    BY <2>1 DEF Paired, Names, q
<1>5. CASE q = <<Frame("inject", i), Frame("fired", i)>>
  <2>1. Len(q) = 2 /\ q[1] = Frame("inject", i) /\ q[2] = Frame("fired", i)
    BY <1>5
  <2>2. \A k \in 1..Len(q) : k = 1 \/ k = 2
    BY <2>1
  <2>3. Frame("fired", i) \notin Asks(c) /\ Frame("inject", i) # Frame("fired", c)
    BY DEF Asks, Frame
  <2>4. Count(q, Asks(c)) <= 1
    <3>1. \A j, k \in 1..Len(q) : q[j] \in Asks(c) /\ q[k] \in Asks(c) => j = k
      BY <2>1, <2>2, <2>3
    <3> QED
      BY <1>1, <3>1, CountOnce
  <2>5. i # c => Count(q, Asks(c)) = 0
    <3> SUFFICES ASSUME i # c PROVE Count(q, Asks(c)) = 0
      OBVIOUS
    <3>1. Frame("inject", i) \notin Asks(c)
      BY DEF Asks, Frame
    <3>2. \A k \in 1..Len(q) : q[k] \notin Asks(c)
      BY <2>1, <2>2, <2>3, <3>1
    <3> QED
      BY <3>2, CountNone
  <2>6. Count(q, Asks(c)) <= IF d \in DeliveriesOf(c) THEN 1 ELSE 0
    <3>1. CASE i = c
      BY <1>2, <2>4, <3>1
    <3>2. CASE i # c
      BY <2>5, <3>2
    <3> QED
      BY <3>1, <3>2
  <2>7. Paired(q, c)
    <3> SUFFICES ASSUME NEW k \in 1..Len(q), q[k] = Frame("fired", c)
                 PROVE  \E j \in 1..(k - 1) : q[j] = Frame("inject", c)
      BY DEF Paired
    <3>1. k = 2 /\ i = c
      BY <2>1, <2>2, <2>3 DEF Frame
    <3> QED
      BY <2>1, <3>1
  <2>8. Names(q, c) => d \in DeliveriesOf(c)
    BY <1>2, <2>1, <2>2 DEF Names, Frame
  <2> QED
    BY <2>6, <2>7, <2>8 DEF q
<1>6. CASE q = <<Frame("launch", i)>>
  <2>1. Len(q) = 1 /\ q[1] = Frame("launch", i) /\ \A k \in 1..Len(q) : k = 1
    BY <1>6
  <2>2. Count(q, Asks(c)) <= 1
    BY <1>1, <2>1, CountOnce
  <2>3. i # c => Count(q, Asks(c)) = 0
    <3> SUFFICES ASSUME i # c PROVE Count(q, Asks(c)) = 0
      OBVIOUS
    <3>1. \A k \in 1..Len(q) : q[k] \notin Asks(c)
      BY <2>1 DEF Asks, Frame
    <3> QED
      BY <3>1, CountNone
  <2>4. Count(q, Asks(c)) <= IF d \in DeliveriesOf(c) THEN 1 ELSE 0
    <3>1. CASE i = c
      BY <1>2, <2>2, <3>1
    <3>2. CASE i # c
      BY <2>3, <3>2
    <3> QED
      BY <3>1, <3>2
  <2>5. Paired(q, c)
    BY <2>1 DEF Paired, Frame
  <2>6. Names(q, c) => d \in DeliveriesOf(c)
    BY <1>2, <2>1 DEF Names, Frame
  <2> QED
    BY <2>4, <2>5, <2>6 DEF q
<1> QED
  BY <1>3, <1>4, <1>5, <1>6

\* Two queues name what one of them names.
LEMMA NamesConcat ==
  ASSUME NEW q \in Seq(UpFrames), NEW p \in Seq(UpFrames), NEW c, Names(q \o p, c)
  PROVE  Names(q, c) \/ Names(p, c)
<1>1. /\ Len(q) \in Nat /\ Len(p) \in Nat /\ Len(q \o p) = Len(q) + Len(p)
      /\ \A k \in 1..Len(q) + Len(p) :
            (q \o p)[k] = IF k <= Len(q) THEN q[k] ELSE p[k - Len(q)]
  BY LenProperties, ConcatProperties
<1>2. PICK k \in 1..Len(q) + Len(p) : (q \o p)[k].id = c
  BY <1>1 DEF Names
<1>3. CASE k <= Len(q)
  <2>1. k \in 1..Len(q) /\ q[k].id = c
    BY <1>1, <1>2, <1>3
  <2> QED
    BY <2>1 DEF Names
<1>4. CASE ~(k <= Len(q))
  <2>1. k - Len(q) \in 1..Len(p) /\ p[k - Len(q)].id = c
    BY <1>1, <1>2, <1>4
  <2> QED
    BY <2>1 DEF Names
<1> QED
  BY <1>3, <1>4

\* A part of a queue, and its tail, name nothing else; its head it names.
LEMMA NamesPart ==
  ASSUME NEW q \in Seq(UpFrames), NEW c
  PROVE  /\ \A n \in 0..Len(q) : Names(SubSeq(q, 1, n), c) => Names(q, c)
         /\ q # <<>> => (Names(Tail(q), c) \/ Head(q).id = c => Names(q, c))
<1>1. Len(q) \in Nat /\ \A k \in 1..Len(q) : q[k] \in UpFrames
  BY LenProperties, ElementOfSeq
<1>2. ASSUME NEW n \in 0..Len(q), Names(SubSeq(q, 1, n), c) PROVE Names(q, c)
  <2>1. /\ Len(SubSeq(q, 1, n)) = IF 1 <= n THEN n - 1 + 1 ELSE 0
        /\ \A k \in 1..(n - 1 + 1) : SubSeq(q, 1, n)[k] = q[1 + k - 1]
    BY <1>1, SubSeqProperties
  <2>2. PICK k \in 1..Len(SubSeq(q, 1, n)) : SubSeq(q, 1, n)[k].id = c
    BY <1>2 DEF Names
  <2>3. k \in 1..(n - 1 + 1) /\ 1 + k - 1 = k /\ k \in 1..Len(q)
    BY <1>1, <2>1, <2>2
  <2>4. q[k].id = c
    BY <2>1, <2>2, <2>3
  <2> QED
    BY <2>3, <2>4 DEF Names
<1>3. ASSUME q # <<>>, Names(Tail(q), c) PROVE Names(q, c)
  <2>1. /\ Len(Tail(q)) = Len(q) - 1
        /\ \A k \in 1..Len(q) - 1 : Tail(q)[k] = q[k + 1]
    BY <1>3, HeadTailProperties
  <2>2. PICK k \in 1..Len(Tail(q)) : Tail(q)[k].id = c
    BY <1>3 DEF Names
  <2>3. k + 1 \in 1..Len(q) /\ q[k + 1].id = c
    BY <1>1, <2>1, <2>2
  <2> QED
    BY <2>3 DEF Names
<1>4. ASSUME q # <<>>, Head(q).id = c PROVE Names(q, c)
  <2>1. 1 \in 1..Len(q) /\ q[1] = Head(q)
    BY <1>1, <1>4, EmptySeq, HeadTailProperties
  <2> QED
    BY <1>4, <2>1 DEF Names
<1> QED
  BY <1>2, <1>3, <1>4

\* What is sent asks for no prompt more often than it was to be delivered,
\* has every report behind an injection, and names what was delivered.
LEMMA SentFacts ==
  ASSUME NEW work \in Seq(Deliveries), NEW configs, NEW c \in Ids
  PROVE  /\ Sent(work, configs) \in Seq(UpFrames)
         /\ Count(Sent(work, configs), Asks(c)) <= Count(work, DeliveriesOf(c))
         /\ Paired(Sent(work, configs), c)
         /\ Names(Sent(work, configs), c) => Count(work, DeliveriesOf(c)) > 0
<1> DEFINE N == Len(work)
           D == DeliveriesOf(c)
           A == Asks(c)
           upTo(n) == SubSeq(work, 1, n)
<1>1. PICK u : StepsTo(u, N, work, configs) /\ Sent(work, configs) = u[N]
  BY SentBySteps
<1>2. /\ N \in Nat /\ u \in [0..N -> Seq(UpFrames)] /\ u[0] = <<>>
      /\ \A n \in 1..N : work[n] \in Deliveries
      /\ \A n \in 1..N : u[n] = u[n - 1] \o FlushedAs(work[n], configs)
  BY <1>1, LenProperties, ElementOfSeq DEF StepsTo
<1>3. \A n \in 0..N : upTo(n) \in Seq(Deliveries)
  <2>1. 1 \in Nat \ {0}
    OBVIOUS
  <2> QED
    BY <2>1, PartHeld
<1> DEFINE Good(n) == /\ Count(u[n], A) <= Count(upTo(n), D)
                      /\ Paired(u[n], c)
                      /\ Names(u[n], c) => Count(upTo(n), D) > 0
           Bad == {n \in 0..N : ~Good(n)}
<1>4. Good(0)
  <2>1. upTo(0) = <<>>
    BY SubSeqEmpty
  <2>2. Count(u[0], A) = 0 /\ Count(upTo(0), D) = 0
    BY <1>2, <2>1, CountEmpty
  <2>3. Paired(<<>>, c) /\ ~Names(<<>>, c)
    BY DEF Paired, Names
  <2> QED
    BY <1>2, <2>2, <2>3
<1>5. ASSUME NEW n \in 1..N, Good(n - 1) PROVE Good(n)
  <2> DEFINE d == work[n]
             q == u[n - 1]
             p == FlushedAs(d, configs)
             w == upTo(n - 1)
  <2>1. n - 1 \in 0..N /\ d \in Deliveries /\ q \in Seq(UpFrames) /\ p \in Seq(UpFrames)
        /\ w \in Seq(Deliveries)
    <3>1. n - 1 \in 0..N
      BY <1>2
    <3>2. d \in Deliveries
      BY <1>2
    <3> QED
      BY <1>2, <1>3, <3>1, <3>2, FlushedType
  <2>2. upTo(n) = Append(w, d)
    <3>1. upTo(n) = w \o <<d>>
      <4>1. 1 \in 1..Len(work) /\ n \in 1..Len(work)
        BY <1>2
      <4> QED
        BY <4>1, SubSeqRecursiveSecond
    <3> QED
      BY <2>1, <3>1, AppendIsConcat
  <2>3. u[n] = q \o p
    BY <1>2
  <2>4. /\ Count(q, A) <= Count(w, D) /\ Paired(q, c)
        /\ Names(q, c) => Count(w, D) > 0
    BY <1>5
  <2> HIDE DEF q, p, w, d, A, D
  <2>5. Count(u[n], A) = Count(q, A) + Count(p, A)
    BY <2>1, <2>3, CountConcat
  <2>6. Count(upTo(n), D) = Count(w, D) + (IF d \in D THEN 1 ELSE 0)
    BY <2>1, <2>2, CountAppend
  <2>7. /\ Count(p, A) <= IF d \in D THEN 1 ELSE 0
        /\ Paired(p, c)
        /\ Names(p, c) => d \in D
    BY <2>1, FlushedOnce DEF p, A, D
  <2>8. Count(q, A) \in Nat /\ Count(p, A) \in Nat /\ Count(w, D) \in Nat
    BY <2>1, CountType
  <2>9. Paired(u[n], c)
    BY <2>1, <2>3, <2>4, <2>7, PairedConcat
  <2>10. Names(u[n], c) => Names(q, c) \/ Names(p, c)
    BY <2>1, <2>3, NamesConcat
  <2>11. CASE d \in D
    BY <2>4, <2>5, <2>6, <2>7, <2>8, <2>9, <2>10, <2>11
  <2>12. CASE d \notin D
    BY <2>4, <2>5, <2>6, <2>7, <2>8, <2>9, <2>10, <2>12
  <2> QED
    BY <2>11, <2>12
<1> HIDE DEF Good
<1>6. Bad = {}
  <2> SUFFICES ASSUME Bad # {} PROVE FALSE
    OBVIOUS
  <2>1. \A n \in 0..N : n \in Nat
    BY <1>2
  <2>2. Bad \in SUBSET Nat
    BY <2>1
  <2>3. PICK n \in Bad : \A k \in Bad : n <= k
    BY <2>2, LeastOf
  <2>4. n \in 0..N /\ ~Good(n) /\ n # 0
    BY <1>4, <2>3
  <2>5. n \in 1..N /\ n - 1 \in 0..N /\ ~(n <= n - 1)
    BY <1>2, <2>4
  <2>6. Good(n - 1)
    BY <2>3, <2>5
  <2> QED
    BY <1>5, <2>4, <2>5, <2>6
<1>7. N \in 0..N /\ upTo(N) = work
  <2>1. N \in 0..N
    BY <1>2
  <2>2. upTo(N) = work
    BY SubSeqFull
  <2> QED
    BY <2>1, <2>2
<1>8. Good(N)
  BY <1>6, <1>7
<1> QED
  BY <1>1, <1>2, <1>7, <1>8 DEF Good

-----------------------------------------------------------------------------
(* What is typed                                                           *)

\* Blame keeps the causes there are.
LEMMA BlameGrows ==
  ASSUME TypeOK, NEW why \in Causes, NEW ids
  PROVE  /\ Blame(why, ids) \in [Ids -> SUBSET Causes]
         /\ \A c \in Ids : cause[c] \subseteq Blame(why, ids)[c]
         /\ \A c \in Ids : c \in ids => why \in Blame(why, ids)[c]
<1>1. \A c \in Ids : cause[c] \in SUBSET Causes
  BY DEF TypeOK
<1>2. \A c \in Ids : (IF c \in ids THEN cause[c] \cup {why} ELSE cause[c]) \in SUBSET Causes
  BY <1>1
<1> QED
  BY <1>2 DEF Blame

\* What is sent are frames to the backend.
LEMMA SentType ==
  ASSUME NEW work \in Seq(Deliveries), NEW configs
  PROVE  Sent(work, configs) \in Seq(UpFrames)
<1>1. PICK u : StepsTo(u, Len(work), work, configs) /\ Sent(work, configs) = u[Len(work)]
  BY SentBySteps
<1>2. Len(work) \in 0..Len(work)
  BY LenProperties
<1> QED
  BY <1>1, <1>2 DEF StepsTo

\* What a flush does, over a socket that works or is dead: no prompt is asked
\* for more often than it was to be, and no cause is forgotten.
FlushedWell(work) ==
    /\ link' \in {"up", "dead", "down"}
    /\ up' \in [Connections -> Seq(UpFrames)]
    /\ up'["left"] = up["left"]
    /\ queue' \in Seq(Deliveries)
    /\ launches' \subseteq Ids
    /\ cause' \in [Ids -> SUBSET Causes]
    /\ \A c \in Ids :
          /\ cause[c] \subseteq cause'[c]
          /\ Count(queue', DeliveriesOf(c)) + Count(up'["live"], Asks(c))
                <= Count(work, DeliveriesOf(c)) + Count(up["live"], Asks(c))
          /\ Names(up'["live"], c) => Names(up["live"], c) \/ Count(work, DeliveriesOf(c)) > 0
          /\ Paired(up["live"], c) => Paired(up'["live"], c)

\* Each flush of typed deliveries does.
LEMMA FlushFacts ==
  ASSUME TypeOK, NEW work \in Seq(Deliveries), NEW configs, NEW pending \in SUBSET Ids,
         Flush(work, configs, pending)
  PROVE  FlushedWell(work)
<1>1. /\ up \in [Connections -> Seq(UpFrames)] /\ up["live"] \in Seq(UpFrames)
      /\ "live" \in Connections /\ "left" \in Connections
  BY DEF TypeOK, Connections
<1>2. "edited" \in Causes /\ "lost" \in Causes
  BY DEF Causes
<1>3. CASE FlushUp(work, configs, pending)
  <2> DEFINE sent == Sent(work, configs)
             old == up["live"]
             new == up'["live"]
  <2>1. /\ link' = "up" /\ queue' = <<>> /\ launches' \subseteq Ids
        /\ cause' = Blame("edited", Discarded(work, configs))
    BY <1>3 DEF FlushUp
  <2>2. sent \in Seq(UpFrames) /\ old \o sent \in Seq(UpFrames)
    <3>1. sent \in Seq(UpFrames)
      BY SentType
    <3> QED
      BY <1>1, <3>1, ConcatProperties
  <2>3. up' = [up EXCEPT !["live"] = old \o sent]
    BY <1>3 DEF FlushUp
  <2>4. up' \in [Connections -> Seq(UpFrames)] /\ up'["left"] = up["left"] /\ new = old \o sent
    BY <1>1, <2>2, <2>3
  <2>5. cause' \in [Ids -> SUBSET Causes] /\ \A c \in Ids : cause[c] \subseteq cause'[c]
    BY <1>2, <2>1, BlameGrows
  <2>6. queue' \in Seq(Deliveries)
    BY <2>1, EmptySeq
  <2> HIDE DEF sent, old, new
  <2>7. ASSUME NEW c \in Ids
        PROVE  /\ Count(queue', DeliveriesOf(c)) + Count(new, Asks(c))
                    <= Count(work, DeliveriesOf(c)) + Count(old, Asks(c))
               /\ Names(new, c) => Names(old, c) \/ Count(work, DeliveriesOf(c)) > 0
               /\ Paired(old, c) => Paired(new, c)
    <3>1. /\ Count(sent, Asks(c)) <= Count(work, DeliveriesOf(c))
          /\ Paired(sent, c)
          /\ Names(sent, c) => Count(work, DeliveriesOf(c)) > 0
      BY SentFacts DEF sent
    <3>2. Count(queue', DeliveriesOf(c)) = 0
      BY <2>1, CountEmpty
    <3>3. old \in Seq(UpFrames)
      BY <1>1 DEF old
    <3>4. Count(new, Asks(c)) = Count(old, Asks(c)) + Count(sent, Asks(c))
      BY <2>2, <2>4, <3>3, CountConcat
    <3>5. /\ Count(old, Asks(c)) \in Nat /\ Count(sent, Asks(c)) \in Nat
          /\ Count(work, DeliveriesOf(c)) \in Nat
      BY <2>2, <3>3, CountType
    <3>6. Count(queue', DeliveriesOf(c)) + Count(new, Asks(c))
            <= Count(work, DeliveriesOf(c)) + Count(old, Asks(c))
      BY <3>1, <3>2, <3>4, <3>5
    <3>7. Names(new, c) => Names(old, c) \/ Names(sent, c)
      BY <2>2, <2>4, <3>3, NamesConcat
    <3>8. Paired(old, c) => Paired(new, c)
      BY <2>2, <2>4, <3>1, <3>3, PairedConcat
    <3> QED
      BY <3>1, <3>6, <3>7, <3>8
  <2> QED
    BY <2>1, <2>4, <2>5, <2>6, <2>7 DEF FlushedWell, old, new
<1>4. CASE FlushDead(work, configs, pending)
  <2>1. PICK k \in 1..Len(work) :
          LET tried == SubSeq(work, 1, k) IN
          /\ link' \in IF k = Len(work) THEN {"dead", "down"} ELSE {"down"}
          /\ queue' = SubSeq(work, k + 1, Len(work))
          /\ launches' = pending \ Discarded(tried, configs)
          /\ cause' = [c \in Ids |->
                 Blame("edited", Discarded(tried, configs))[c]
                 \cup IF c \in Allowed(tried, configs) THEN {"lost"} ELSE {}]
    BY <1>4 DEF FlushDead
  <2>2. up' = up
    BY <1>4 DEF FlushDead
  <2> DEFINE tried == SubSeq(work, 1, k)
             blamed == Blame("edited", Discarded(tried, configs))
  <2>3. link' \in {"up", "dead", "down"} /\ launches' \subseteq Ids
    <3>1. CASE k = Len(work)
      BY <2>1, <3>1
    <3>2. CASE k # Len(work)
      BY <2>1, <3>2
    <3> QED
      BY <3>1, <3>2
  <2>4. /\ queue' \in Seq(Deliveries)
        /\ \A c \in Ids : Count(queue', DeliveriesOf(c)) <= Count(work, DeliveriesOf(c))
    <3>1. Len(work) \in 0..Len(work) /\ k + 1 \in Nat \ {0}
      BY LenProperties
    <3>2. SubSeq(work, k + 1, Len(work)) \in Seq(Deliveries)
      BY <3>1, PartHeld
    <3>3. \A c \in Ids : Count(SubSeq(work, k + 1, Len(work)), DeliveriesOf(c))
                           <= Count(work, DeliveriesOf(c))
      BY <3>1, CountPart
    <3> QED
      BY <2>1, <3>2, <3>3
  <2>5. blamed \in [Ids -> SUBSET Causes] /\ \A c \in Ids : cause[c] \subseteq blamed[c]
    BY <1>2, BlameGrows
  <2>6. cause' = [c \in Ids |-> blamed[c] \cup IF c \in Allowed(tried, configs) THEN {"lost"} ELSE {}]
    BY <2>1
  <2> HIDE DEF tried, blamed
  <2>7. cause' \in [Ids -> SUBSET Causes] /\ \A c \in Ids : cause[c] \subseteq cause'[c]
    <3>1. \A c \in Ids : blamed[c] \in SUBSET Causes
      BY <2>5
    <3>2. \A c \in Ids : (IF c \in Allowed(tried, configs) THEN {"lost"} ELSE {}) \in SUBSET Causes
      BY <1>2
    <3>3. \A c \in Ids : (blamed[c] \cup IF c \in Allowed(tried, configs) THEN {"lost"} ELSE {}) \in SUBSET Causes
      BY <3>1, <3>2
    <3> QED
      BY <2>5, <2>6, <3>3
  <2>8. ASSUME NEW c \in Ids
        PROVE  Count(queue', DeliveriesOf(c)) + Count(up["live"], Asks(c))
                    <= Count(work, DeliveriesOf(c)) + Count(up["live"], Asks(c))
    <3>1. /\ Count(up["live"], Asks(c)) \in Nat /\ Count(queue', DeliveriesOf(c)) \in Nat
          /\ Count(work, DeliveriesOf(c)) \in Nat
      BY <1>1, <2>4, CountType
    <3> QED
      BY <2>4, <3>1
  <2> QED
    BY <1>1, <2>2, <2>3, <2>4, <2>7, <2>8 DEF FlushedWell
<1> QED
  BY <1>3, <1>4 DEF Flush

\* What is sent to the launcher arrives behind what was, or is lost.
LEMMA SendDownType ==
  ASSUME TypeOK, NEW frame \in DownFrames, SendDown(frame)
  PROVE  down' \in Seq(DownFrames)
<1>1. down \in Seq(DownFrames) /\ Append(down, frame) \in Seq(DownFrames)
  BY AppendProperties DEF TypeOK
<1> QED
  BY <1>1 DEF SendDown

\* The handlers of a lost connection are those of the one left.
LEMMA HandlerIsLeftType ==
  ASSUME TypeOK, HandlerIsLeft
  PROVE  /\ loading' \subseteq Handlers
         /\ loaded' \in Seq([by : Handlers, configs : SUBSET Configs])
         /\ Len(loaded') = Len(loaded)
         /\ \A k \in 1..Len(loaded) : loaded'[k].configs = loaded[k].configs
<1> DEFINE S == [by : Handlers, configs : SUBSET Configs]
<1>1. \A h \in Handlers : Left(h) \in Handlers
  BY DEF Left, Handlers, Connections
<1>2. loading' \subseteq Handlers
  BY <1>1 DEF TypeOK, HandlerIsLeft
<1>3. loaded \in Seq(S) /\ Len(loaded) \in Nat /\ DOMAIN loaded = 1..Len(loaded)
      /\ \A k \in 1..Len(loaded) : loaded[k] \in S
  BY LenProperties, ElementOfSeq DEF TypeOK
<1>4. loaded' = [k \in 1..Len(loaded) |-> [loaded[k] EXCEPT !.by = Left(loaded[k].by)]]
  BY <1>3 DEF HandlerIsLeft
<1>5. ASSUME NEW k \in 1..Len(loaded)
      PROVE  loaded'[k] \in S /\ loaded'[k].configs = loaded[k].configs
  <2>1. loaded[k] \in S /\ Left(loaded[k].by) \in Handlers
    BY <1>1, <1>3
  <2> QED
    BY <1>4, <2>1
<1>6. loaded' \in [1..Len(loaded) -> S]
  BY <1>4, <1>5
<1>7. loaded' \in Seq(S) /\ Len(loaded') = Len(loaded)
  BY <1>3, <1>6, LenProperties
<1> QED
  BY <1>2, <1>5, <1>7

\* A handler's head frame, and what it leaves.
LEMMA HeadUp ==
  ASSUME TypeOK, NEW h \in Connections, up[h] # <<>>
  PROVE  /\ Head(up[h]) \in UpFrames /\ Head(up[h]).id \in Ids
         /\ Head(up[h]).kind \in {"inject", "fired", "launch"}
         /\ [up EXCEPT ![h] = Tail(@)] \in [Connections -> Seq(UpFrames)]
<1>1. up[h] \in Seq(UpFrames) /\ up \in [Connections -> Seq(UpFrames)]
  BY DEF TypeOK
<1>2. Head(up[h]) \in UpFrames /\ Tail(up[h]) \in Seq(UpFrames)
  BY <1>1, HeadTailProperties
<1> QED
  BY <1>1, <1>2 DEF UpFrames

\* The launcher's head frame, and what it leaves.
LEMMA HeadDown ==
  ASSUME TypeOK, down # <<>>
  PROVE  /\ Head(down).kind = "sync" => Head(down).configs \subseteq Configs
         /\ Head(down).kind = "launch" => /\ Head(down).id \in Ids
                                          /\ Head(down) = Frame("launch", Head(down).id)
         /\ Tail(down) \in Seq(DownFrames)
<1>1. Head(down) \in DownFrames /\ Tail(down) \in Seq(DownFrames)
  BY HeadTailProperties DEF TypeOK
<1>2. Head(down) \in [kind : {"launch"}, id : Ids] \/ Head(down) \in [kind : {"sync"}, configs : SUBSET Configs]
  BY <1>1 DEF DownFrames
<1> QED
  BY <1>1, <1>2 DEF Frame

\* The deliveries a Due step adds to the queue are ones of what is due, in
\* some order.
WorkOf(order, kind) == [k \in DOMAIN order |-> [config |-> order[k], kind |-> kind]]

\* They are typed and, added to the queue, still are.
LEMMA DueWork ==
  ASSUME TypeOK, NEW configs \in SUBSET armed, NEW order \in SetToSeqs(configs),
         NEW kind \in {"inject", "launch"}
  PROVE  /\ WorkOf(order, kind) \in Seq(Deliveries)
         /\ Len(WorkOf(order, kind)) = Len(order)
         /\ queue \o WorkOf(order, kind) \in Seq(Deliveries)
         /\ DeliveryIds(WorkOf(order, kind)) \subseteq Ids
<1> DEFINE work == WorkOf(order, kind)
<1>1. configs \in SUBSET Configs
  BY DEF TypeOK
<1>2. order \in Seq(configs)
  BY <1>1, OrderOnce
<1>3. /\ Len(order) \in Nat /\ DOMAIN order = 1..Len(order)
      /\ \A k \in 1..Len(order) : order[k] \in Configs
  BY <1>1, <1>2, LenProperties, ElementOfSeq
<1>4. work = [k \in 1..Len(order) |-> [config |-> order[k], kind |-> kind]]
  BY <1>3 DEF WorkOf
<1>5. work \in [1..Len(order) -> Deliveries]
  BY <1>3, <1>4 DEF Deliveries
<1>6. work \in Seq(Deliveries) /\ Len(work) = Len(order) /\ DOMAIN work = 1..Len(order)
  BY <1>3, <1>5, LenProperties
<1>7. queue \o work \in Seq(Deliveries)
  BY <1>6, ConcatProperties DEF TypeOK
<1>8. DeliveryIds(work) \subseteq Ids
  BY <1>3, <1>5, <1>6 DEF DeliveryIds, Deliveries, Configs
<1> QED
  BY <1>6, <1>7, <1>8

\* What a Due step does: it claims what is due, and flushes it behind the queue.
LEMMA DueFlushes ==
  ASSUME TypeOK, NEW configs \in SUBSET armed, Due(configs)
  PROVE  /\ armed' = armed \ configs
         /\ claimed' = claimed \cup {config.id : config \in configs}
         /\ UNCHANGED <<database, running, syncs, down, synced, snapshot, injected, misled, spent>>
         /\ \E order \in SetToSeqs(configs), kind \in {"inject", "launch"} :
               FlushedWell(queue \o WorkOf(order, kind))
<1>1. PICK order \in SetToSeqs(configs) :
         LET work == [k \in DOMAIN order |->
                          [config |-> order[k],
                           kind |-> IF running THEN "inject" ELSE "launch"]]
         IN  Flush(queue \o work, snapshot,
                   IF running THEN launches ELSE launches \cup DeliveryIds(work))
  BY DEF Due
<1>2. CASE running
  <2>1. Flush(queue \o WorkOf(order, "inject"), snapshot, launches)
    BY <1>1, <1>2 DEF WorkOf
  <2>2. queue \o WorkOf(order, "inject") \in Seq(Deliveries) /\ launches \in SUBSET Ids
    BY DueWork DEF TypeOK
  <2>3. FlushedWell(queue \o WorkOf(order, "inject"))
    BY <2>1, <2>2, FlushFacts
  <2> QED
    BY <2>3 DEF Due
<1>3. CASE ~running
  <2>1. Flush(queue \o WorkOf(order, "launch"), snapshot,
              launches \cup DeliveryIds(WorkOf(order, "launch")))
    BY <1>1, <1>3 DEF WorkOf
  <2>2. /\ queue \o WorkOf(order, "launch") \in Seq(Deliveries)
        /\ launches \cup DeliveryIds(WorkOf(order, "launch")) \in SUBSET Ids
    BY DueWork DEF TypeOK
  <2>3. FlushedWell(queue \o WorkOf(order, "launch"))
    BY <2>1, <2>2, FlushFacts
  <2> QED
    BY <2>3 DEF Due
<1> QED
  BY <1>2, <1>3

\* Initially all is typed.
LEMMA InitTyped == Init => TypeOK
<1> SUFFICES ASSUME Init PROVE TypeOK
  OBVIOUS
<1>1. /\ loaded \in Seq([by : Handlers, configs : SUBSET Configs]) /\ down \in Seq(DownFrames)
      /\ queue \in Seq(Deliveries)
  BY EmptySeq DEF Init
<1>2. up \in [Connections -> Seq(UpFrames)]
  <2>1. <<>> \in Seq(UpFrames)
    BY EmptySeq
  <2> QED
    BY <2>1 DEF Init
<1>3. /\ changes \in 0..MaxChanges /\ faults \in 0..MaxFaults /\ edits \in 0..MaxChanges
  BY BoundsAssumption DEF Init
<1>4. row \in [Ids -> Statuses] /\ injected \in [Ids -> 0..2] /\ cause \in [Ids -> SUBSET Causes]
  <2>1. "none" \in Statuses /\ 0 \in 0..2 /\ {} \in SUBSET Causes
    BY DEF Statuses
  <2> QED
    BY <2>1 DEF Init
<1>5. /\ loading = {} /\ armed = {} /\ claimed = {} /\ launches = {} /\ snapshot = {}
      /\ paused = FALSE /\ running = TRUE /\ synced = TRUE /\ misled = FALSE /\ link = "up"
  BY DEF Init
<1> QED
  BY <1>1, <1>2, <1>3, <1>4, <1>5 DEF TypeOK

\* What a handler of the launcher's connections does keeps all typed.
LEMMA TakeUpTyped ==
  ASSUME TypeOK, NEW h \in Connections, TakeUp(h) \/ HandlerFails(h)
  PROVE  TypeOK'
<1>1. up[h] # <<>>
  BY DEF TakeUp, HandlerFails, Ready
<1> DEFINE f == Head(up[h])
<1>2. /\ f \in UpFrames /\ f.id \in Ids /\ f.kind \in {"inject", "fired", "launch"}
      /\ [up EXCEPT ![h] = Tail(@)] \in [Connections -> Seq(UpFrames)]
  BY <1>1, HeadUp
<1>3. up' = [up EXCEPT ![h] = Tail(@)]
  BY DEF TakeUp, HandlerFails
<1>4. up' \in [Connections -> Seq(UpFrames)]
  BY <1>2, <1>3
<1>5. "lost" \in Causes /\ "unstored" \in Causes /\ h \in Handlers
      /\ "fired" \in Statuses /\ "dropped" \in Statuses
  BY DEF Causes, Handlers, Statuses
<1> HIDE DEF f
<1>6. ASSUME TakeUp(h) PROVE TypeOK'
  <2>0. UNCHANGED <<edits, paused, running, loaded, link, scheduler, supervisor, misled, spent>>
    BY <1>6 DEF TakeUp
  <2>1. ASSUME NEW status \in Statuses, MarkTerminal(h, f.id, status) PROVE TypeOK'
    <3>1. row' \in [Ids -> Statuses] /\ loading' \subseteq Handlers
      BY <1>2, <1>5, <2>1 DEF MarkTerminal, TypeOK
    <3> QED
      BY <1>4, <2>0, <2>1, <3>1 DEF TypeOK, MarkTerminal, scheduler, supervisor, spent
  <2>2. CASE f.kind = "inject"
    <3>1. Inject(f.id)
      BY <1>6, <2>2 DEF TakeUp, f
    <3>2. injected' \in [Ids -> 0..2]
      <4>1. injected \in [Ids -> 0..2] /\ injected[f.id] \in 0..2
        BY <1>2 DEF TypeOK
      <4>2. (IF injected[f.id] < 2 THEN injected[f.id] + 1 ELSE injected[f.id]) \in 0..2
        BY <4>1
      <4> QED
        BY <3>1, <4>1, <4>2 DEF Inject
    <3> QED
      BY <1>4, <2>0, <3>1, <3>2 DEF TypeOK, Inject, scheduler, supervisor, spent
  <2>3. CASE f.kind = "fired"
    <3>1. MarkTerminal(h, f.id, "fired")
      BY <1>6, <2>3 DEF TakeUp, f
    <3> QED
      BY <1>5, <2>1, <3>1
  <2>4. CASE f.kind = "launch"
    <3>1. RequestLaunch(h, f.id)
      BY <1>6, <2>4 DEF TakeUp, f
    <3>2. CASE paused
      BY <1>5, <2>1, <3>1, <3>2 DEF RequestLaunch
    <3>3. CASE ~paused
      <4>1. /\ SendDown(Frame("launch", f.id))
            /\ cause' = IF link = "up" THEN cause ELSE Blame("lost", {f.id})
            /\ UNCHANGED <<row, loading, injected>>
        BY <3>1, <3>3 DEF RequestLaunch
      <4>2. Frame("launch", f.id) \in DownFrames
        BY <1>2 DEF Frame, DownFrames
      <4>3. down' \in Seq(DownFrames)
        BY <4>1, <4>2, SendDownType
      <4>4. cause' \in [Ids -> SUBSET Causes]
        BY <1>5, <4>1, BlameGrows DEF TypeOK
      <4> QED
        BY <1>4, <2>0, <4>1, <4>3, <4>4 DEF TypeOK, scheduler, supervisor, spent
    <3> QED
      BY <3>2, <3>3
  <2> QED
    BY <1>2, <2>2, <2>3, <2>4
<1>7. ASSUME HandlerFails(h) PROVE TypeOK'
  <2>1. /\ faults < MaxFaults /\ faults' = faults + 1 /\ UNCHANGED changes
        /\ cause' = Blame(IF f.kind = "inject" THEN "unstored" ELSE "lost", {f.id})
        /\ UNCHANGED <<database, running, syncs, link, down, scheduler, supervisor, injected, misled>>
    BY <1>7 DEF HandlerFails, Fault, f
  <2>2. faults' \in 0..MaxFaults
    BY <2>1, BoundsAssumption DEF TypeOK
  <2>3. cause' \in [Ids -> SUBSET Causes]
    <3>1. CASE f.kind = "inject"
      BY <1>5, <2>1, <3>1, BlameGrows
    <3>2. CASE f.kind # "inject"
      BY <1>5, <2>1, <3>2, BlameGrows
    <3> QED
      BY <3>1, <3>2
  <2> QED
    BY <1>4, <2>1, <2>2, <2>3 DEF TypeOK, database, syncs, scheduler, supervisor
<1> QED
  BY <1>6, <1>7

\* What the launcher's loop does keeps all typed.
LEMMA LoopTyped ==
  ASSUME TypeOK, TakeSync \/ TakeLaunch \/ (\E configs \in SUBSET armed : Due(configs))
  PROVE  TypeOK'
<1>1. ASSUME NEW work \in Seq(Deliveries), FlushedWell(work)
      PROVE  /\ link' \in {"up", "dead", "down"} /\ up' \in [Connections -> Seq(UpFrames)]
             /\ queue' \in Seq(Deliveries) /\ launches' \subseteq Ids
             /\ cause' \in [Ids -> SUBSET Causes]
  BY <1>1 DEF FlushedWell
<1>2. ASSUME TakeSync PROVE TypeOK'
  <2> DEFINE configs == Head(down).configs
  <2>1. /\ down # <<>> /\ Head(down).kind = "sync" /\ down' = Tail(down)
        /\ synced' = TRUE /\ snapshot' = configs
        /\ claimed' = claimed \cap {config.id : config \in configs}
        /\ armed' = {config \in configs : config.id \notin claimed}
        /\ FlushUp(queue, configs, launches)
        /\ UNCHANGED <<database, running, syncs, injected, misled, spent>>
    BY <1>2 DEF TakeSync
  <2>2. configs \subseteq Configs /\ down' \in Seq(DownFrames)
    BY <2>1, HeadDown
  <2>3. queue \in Seq(Deliveries) /\ launches \in SUBSET Ids
    BY DEF TypeOK
  <2>4. Flush(queue, configs, launches)
    BY <2>1 DEF Flush
  <2> HIDE DEF configs
  <2>5. FlushedWell(queue)
    BY <2>3, <2>4, FlushFacts
  <2>6. armed' \subseteq Configs /\ claimed' \subseteq Ids /\ snapshot' \subseteq Configs
    BY <2>1, <2>2 DEF TypeOK
  <2> QED
    BY <1>1, <2>1, <2>2, <2>3, <2>5, <2>6 DEF TypeOK, database, syncs, spent
<1>3. ASSUME TakeLaunch PROVE TypeOK'
  <2> DEFINE c == Head(down).id
  <2>1. /\ down # <<>> /\ Head(down).kind = "launch" /\ down' = Tail(down)
        /\ Spawn(c) \/ SpawnFails(c)
        /\ UNCHANGED <<database, syncs, link, armed, claimed, supervisor, injected, misled>>
    BY <1>3 DEF TakeLaunch
  <2>2. c \in Ids /\ down' \in Seq(DownFrames)
    BY <2>1, HeadDown
  <2> HIDE DEF c
  <2>3. ASSUME Spawn(c) PROVE TypeOK'
    <3>1. up' \in [Connections -> Seq(UpFrames)]
      <4> DEFINE pair == <<Frame("inject", c), Frame("fired", c)>>
      <4>1. Frame("inject", c) \in UpFrames /\ Frame("fired", c) \in UpFrames
        BY <2>2 DEF Frame, UpFrames
      <4>2. pair \in Seq(UpFrames) /\ up["live"] \in Seq(UpFrames)
        BY <4>1 DEF TypeOK, Connections
      <4>3. up["live"] \o pair \in Seq(UpFrames)
        BY <4>2, ConcatProperties
      <4>4. up' = IF c \in launches THEN [up EXCEPT !["live"] = up["live"] \o pair] ELSE up
        BY <2>3 DEF Spawn
      <4> HIDE DEF pair
      <4> QED
        BY <4>3, <4>4 DEF TypeOK
    <3>2. running' = TRUE /\ launches' = launches \ {c} /\ UNCHANGED <<spent, cause>>
      BY <2>3 DEF Spawn, NoFault
    <3> QED
      BY <2>1, <2>2, <3>1, <3>2 DEF TypeOK, database, syncs, supervisor, spent
  <2>4. ASSUME SpawnFails(c) PROVE TypeOK'
    <3>1. /\ faults < MaxFaults /\ faults' = faults + 1 /\ UNCHANGED changes
          /\ launches' = launches \ {c} /\ cause' = Blame("unspawned", {c})
          /\ UNCHANGED <<running, up>>
      BY <2>4 DEF SpawnFails, Fault
    <3>2. faults' \in 0..MaxFaults
      BY <3>1, BoundsAssumption DEF TypeOK
    <3>3. cause' \in [Ids -> SUBSET Causes]
      <4>1. "unspawned" \in Causes
        BY DEF Causes
      <4> QED
        BY <3>1, <4>1, BlameGrows
    <3> QED
      BY <2>1, <2>2, <3>1, <3>2, <3>3 DEF TypeOK, database, syncs, supervisor
  <2> QED
    BY <2>1, <2>3, <2>4
<1>4. ASSUME NEW configs \in SUBSET armed, Due(configs) PROVE TypeOK'
  <2>1. /\ armed' = armed \ configs
        /\ claimed' = claimed \cup {config.id : config \in configs}
        /\ UNCHANGED <<database, running, syncs, down, synced, snapshot, injected, misled, spent>>
    BY <1>4, DueFlushes
  <2>2. PICK order \in SetToSeqs(configs), kind \in {"inject", "launch"} :
               FlushedWell(queue \o WorkOf(order, kind))
    BY <1>4, DueFlushes
  <2>3. queue \o WorkOf(order, kind) \in Seq(Deliveries)
    BY DueWork
  <2>4. armed' \subseteq Configs /\ claimed' \subseteq Ids
    BY <2>1 DEF TypeOK, Configs
  <2> QED
    BY <1>1, <2>1, <2>2, <2>3, <2>4 DEF TypeOK, database, syncs, spent
<1> QED
  BY <1>2, <1>3, <1>4

\* The list of what is scheduled has each continuation once.
LEMMA ScheduledType ==
  ASSUME TypeOK
  PROVE  /\ ScheduledConfigs \subseteq Configs
         /\ \A x, y \in ScheduledConfigs : x.id = y.id => x = y
         /\ \A c \in Ids : (\E x \in ScheduledConfigs : x.id = c) <=> row[c] = "scheduled"
<1>1. edits \in 0..MaxChanges
  BY DEF TypeOK
<1>2. ASSUME NEW c \in Ids, row[c] = "scheduled" PROVE \E x \in ScheduledConfigs : x.id = c
  <2>1. [id |-> c, edit |-> edits] \in ScheduledConfigs
    BY <1>2 DEF ScheduledConfigs
  <2> QED
    BY <2>1
<1> QED
  BY <1>1, <1>2 DEF ScheduledConfigs, Configs

\* What was not sent yet stays typed when a list is loaded, or one is taken out.
LEMMA LoadedTyped ==
  ASSUME TypeOK
  PROVE  /\ \A h \in Handlers : \A configs \in SUBSET Configs :
               Append(loaded, [by |-> h, configs |-> configs])
                 \in Seq([by : Handlers, configs : SUBSET Configs])
         /\ \A k \in DOMAIN loaded : /\ RemoveAt(loaded, k) \in Seq([by : Handlers, configs : SUBSET Configs])
                                     /\ SyncFrame(loaded[k].configs) \in DownFrames
<1> DEFINE S == [by : Handlers, configs : SUBSET Configs]
<1>1. loaded \in Seq(S) /\ DOMAIN loaded = 1..Len(loaded) /\ \A k \in 1..Len(loaded) : loaded[k] \in S
  BY LenProperties, ElementOfSeq DEF TypeOK
<1>2. ASSUME NEW h \in Handlers, NEW configs \in SUBSET Configs
      PROVE  Append(loaded, [by |-> h, configs |-> configs]) \in Seq(S)
  <2>1. [by |-> h, configs |-> configs] \in S
    OBVIOUS
  <2> QED
    BY <1>1, <2>1, AppendProperties
<1>3. ASSUME NEW k \in DOMAIN loaded
      PROVE  RemoveAt(loaded, k) \in Seq(S) /\ SyncFrame(loaded[k].configs) \in DownFrames
  <2>1. loaded[k] \in S
    BY <1>1
  <2>2. RemoveAt(loaded, k) \in Seq(S)
    BY <1>1, RemoveHeld
  <2> QED
    BY <2>1, <2>2 DEF SyncFrame, DownFrames
<1> QED
  BY <1>2, <1>3

\* A socket that dies leaves all typed, and a start of what was on its way.
LEMMA LoseSocketTyped ==
  ASSUME TypeOK, NEW kept \in 0..Len(up["live"]), LoseSocket(kept)
  PROVE  /\ up' \in [Connections -> Seq(UpFrames)]
         /\ up'["live"] = <<>> /\ up'["left"] = SubSeq(up["live"], 1, kept) /\ up["left"] = <<>>
         /\ down' = <<>> /\ down' \in Seq(DownFrames)
         /\ loading' \subseteq Handlers
         /\ loaded' \in Seq([by : Handlers, configs : SUBSET Configs])
         /\ Len(loaded') = Len(loaded)
         /\ \A k \in 1..Len(loaded) : loaded'[k].configs = loaded[k].configs
<1>1. up["live"] \in Seq(UpFrames)
  BY DEF TypeOK, Connections
<1>2. SubSeq(up["live"], 1, kept) \in Seq(UpFrames) /\ <<>> \in Seq(UpFrames) /\ <<>> \in Seq(DownFrames)
  <2>1. 1 \in Nat \ {0}
    OBVIOUS
  <2> QED
    BY <1>1, <2>1, PartHeld, EmptySeq
<1>3. /\ up' = [live |-> <<>>, left |-> SubSeq(up["live"], 1, kept)]
      /\ down' = <<>> /\ up["left"] = <<>> /\ HandlerIsLeft
  BY DEF LoseSocket
<1> DEFINE start == SubSeq(up["live"], 1, kept)
<1> HIDE DEF start
<1>4. /\ up' \in [Connections -> Seq(UpFrames)]
      /\ up'["live"] = <<>> /\ up'["left"] = start
  <2>1. up' = [live |-> <<>>, left |-> start] /\ start \in Seq(UpFrames)
    BY <1>2, <1>3 DEF start
  <2>2. /\ DOMAIN up' = {"live", "left"} /\ up' = [h \in {"live", "left"} |-> up'[h]]
        /\ up'["live"] = <<>> /\ up'["left"] = start
    BY <2>1
  <2> QED
    BY <1>2, <2>1, <2>2 DEF Connections
<1> QED
  BY <1>2, <1>3, <1>4, HandlerIsLeftType DEF start

\* An edit is one of the changes.
EditsCounted == edits <= changes

\* Every step keeps that.
LEMMA EditsStep == TypeOK /\ EditsCounted /\ [Next]_vars => EditsCounted'
<1> SUFFICES ASSUME TypeOK, EditsCounted, [Next]_vars PROVE EditsCounted'
  OBVIOUS
<1>1. edits \in Nat /\ changes \in Nat /\ edits <= changes
  BY BoundsAssumption DEF TypeOK, EditsCounted
<1>2. \/ edits' = edits /\ changes' = changes
      \/ edits' = edits /\ changes' = changes + 1
      \/ edits' = edits + 1 /\ changes' = changes + 1
  <2>1. CASE \/ \E h \in Handlers : Load(h)
             \/ \E k \in DOMAIN loaded : SendSync(k)
             \/ \E h \in Connections : TakeUp(h)
             \/ \E h \in Connections : HandlerFails(h)
             \/ TakeSync \/ TakeLaunch
    <3>1. CASE \E h \in Handlers : Load(h)
      BY <3>1 DEF Load, NoFault, Fault, database, spent
    <3>2. CASE \E k \in DOMAIN loaded : SendSync(k)
      BY <3>2 DEF SendSync, database, spent
    <3>3. CASE \E h \in Connections : TakeUp(h)
      BY <3>3 DEF TakeUp, spent
    <3>6. CASE \E h \in Connections : HandlerFails(h)
      BY <3>6 DEF HandlerFails, Fault, database
    <3>4. CASE TakeSync
      BY <3>4 DEF TakeSync, database, spent
    <3>5. CASE TakeLaunch
      BY <3>5 DEF TakeLaunch, Spawn, SpawnFails, NoFault, Fault, database, spent
    <3> QED
      BY <2>1, <3>1, <3>2, <3>3, <3>4, <3>5, <3>6
  <2>2. CASE \/ \E configs \in SUBSET armed : Due(configs)
             \/ Notices \/ Reconnects
             \/ \E h \in Hubs, c \in Ids : LimitReached(h, c) \/ Overloaded(h, c) \/ UserSchedules(h, c)
             \/ Breaks \/ LauncherRestarts \/ BackendRestarts \/ UNCHANGED vars
    <3>1. CASE \E configs \in SUBSET armed : Due(configs)
      BY <3>1 DEF Due, database, spent
    <3>2. CASE Notices \/ Reconnects
      BY <3>2 DEF Notices, Reconnects, database, spent
    <3>3. CASE \E h \in Hubs, c \in Ids : LimitReached(h, c) \/ Overloaded(h, c) \/ UserSchedules(h, c)
      BY <3>3 DEF LimitReached, Overloaded, UserSchedules, spent
    <3>4. CASE Breaks \/ LauncherRestarts \/ BackendRestarts
      BY <3>4 DEF Breaks, LauncherRestarts, BackendRestarts, Fault, database
    <3>5. CASE UNCHANGED vars
      BY <3>5 DEF vars, database, spent
    <3> QED
      BY <2>2, <3>1, <3>2, <3>3, <3>4, <3>5
  <2>3. CASE AgentExits \/ AgentStarts \/ Pauses \/ Resumes \/ Edits
    <3>1. CASE AgentExits
      BY <3>1 DEF AgentExits, Change, database
    <3>2. CASE AgentStarts
      BY <3>2 DEF AgentStarts, database, spent
    <3>3. CASE Pauses
      BY <3>3 DEF Pauses, Change
    <3>4. CASE Resumes
      BY <3>4 DEF Resumes, spent
    <3>5. CASE Edits
      BY <3>5 DEF Edits, Change
    <3> QED
      BY <2>3, <3>1, <3>2, <3>3, <3>4, <3>5
  <2> QED
    <3>1. Next \/ UNCHANGED vars
      OBVIOUS
    <3>2. CASE Works
      BY <2>1, <2>2, <3>2 DEF Works
    <3>3. CASE Next /\ ~Works
      BY <2>1, <2>2, <2>3, <3>3 DEF Next
    <3>4. CASE UNCHANGED vars
      BY <2>2, <3>4
    <3> QED
      BY <3>1, <3>2, <3>3, <3>4
<1> QED
  BY <1>1, <1>2 DEF EditsCounted

\* Every other step keeps all typed as well.
LEMMA StepTyped == TypeOK /\ EditsCounted /\ [Next]_vars => TypeOK'
<1> SUFFICES ASSUME TypeOK, EditsCounted, [Next]_vars PROVE TypeOK'
  OBVIOUS
<1> USE DEF database, syncs, wire, scheduler, supervisor, history, spent
<1>1. ASSUME NEW h \in Handlers, Load(h) PROVE TypeOK'
  <2>1. /\ loading' \subseteq Handlers /\ UNCHANGED changes
        /\ UNCHANGED <<database, running, wire, scheduler, supervisor, injected, cause>>
        /\ misled' \in BOOLEAN
    BY <1>1 DEF Load, TypeOK, NoFault, Fault
  <2>2. loaded' \in Seq([by : Handlers, configs : SUBSET Configs])
    <3>1. ScheduledConfigs \in SUBSET Configs /\ {} \in SUBSET Configs
      BY ScheduledType
    <3>2. \/ loaded' = Append(loaded, [by |-> h, configs |-> ScheduledConfigs])
          \/ loaded' = Append(loaded, [by |-> h, configs |-> {}])
      BY <1>1 DEF Load
    <3> QED
      BY <3>1, <3>2, LoadedTyped
  <2>3. faults' \in 0..MaxFaults
    BY <1>1, BoundsAssumption DEF Load, TypeOK, NoFault, Fault
  <2> QED
    BY <2>1, <2>2, <2>3 DEF TypeOK
<1>2. ASSUME NEW k \in DOMAIN loaded, SendSync(k) PROVE TypeOK'
  <2>1. loaded' \in Seq([by : Handlers, configs : SUBSET Configs]) /\ down' \in Seq(DownFrames)
    <3>1. loaded' = RemoveAt(loaded, k) /\ SendDown(SyncFrame(loaded[k].configs))
      BY <1>2 DEF SendSync
    <3> QED
      BY <3>1, LoadedTyped, SendDownType
  <2>2. misled' \in BOOLEAN
    <3>1. misled \in BOOLEAN
      BY DEF TypeOK
    <3>2. misled' = (misled \/ (link = "up" /\ \E j \in 1..(k - 1) : loaded[j].configs # loaded[k].configs))
      BY <1>2 DEF SendSync
    <3> QED
      BY <3>1, <3>2
  <2>3. UNCHANGED <<database, running, loading, link, up, scheduler, supervisor, injected, cause, spent>>
    BY <1>2 DEF SendSync
  <2> QED
    BY <2>1, <2>2, <2>3 DEF TypeOK
<1>3. ASSUME Notices \/ Reconnects PROVE TypeOK'
  <2>1. CASE Notices
    BY <2>1 DEF Notices, TypeOK
  <2>2. CASE Reconnects
    <3>1. loading' \subseteq Handlers
      BY <2>2 DEF Reconnects, TypeOK, Handlers, Connections
    <3> QED
      BY <2>2, <3>1 DEF Reconnects, TypeOK
  <2> QED
    BY <1>3, <2>1, <2>2
<1>4. ASSUME NEW h \in Hubs, NEW c \in Ids, LimitReached(h, c) \/ Overloaded(h, c) \/ UserSchedules(h, c)
      PROVE  TypeOK'
  <2>1. row' \in [Ids -> Statuses] /\ loading' \subseteq Handlers
        /\ UNCHANGED <<edits, paused, running, loaded, wire, scheduler, supervisor, history, spent>>
    BY <1>4 DEF LimitReached, Overloaded, UserSchedules, TypeOK, Handlers, Statuses
  <2> QED
    BY <2>1 DEF TypeOK
<1>5. ASSUME AgentExits \/ AgentStarts \/ Pauses \/ Resumes PROVE TypeOK'
  <2>1. changes' \in 0..MaxChanges /\ UNCHANGED faults
    BY <1>5, BoundsAssumption DEF AgentExits, AgentStarts, Pauses, Resumes, Change, TypeOK
  <2>2. /\ paused' \in BOOLEAN /\ running' \in BOOLEAN
        /\ UNCHANGED <<row, edits, syncs, wire, scheduler, supervisor, history>>
    BY <1>5 DEF AgentExits, AgentStarts, Pauses, Resumes, TypeOK
  <2> QED
    BY <2>1, <2>2 DEF TypeOK
<1>6. ASSUME Edits PROVE TypeOK'
  <2>1. /\ changes' \in 0..MaxChanges /\ UNCHANGED faults
        /\ UNCHANGED <<row, paused, running, syncs, wire, scheduler, supervisor, history>>
    BY <1>6, BoundsAssumption DEF Edits, Change, TypeOK
  <2>2. edits' \in 0..MaxChanges
    BY <1>6, BoundsAssumption DEF Edits, Change, TypeOK, EditsCounted
  <2> QED
    BY <2>1, <2>2 DEF TypeOK
<1>7. ASSUME Breaks \/ LauncherRestarts \/ BackendRestarts PROVE faults' \in 0..MaxFaults /\ UNCHANGED changes
  BY <1>7, BoundsAssumption DEF Breaks, LauncherRestarts, BackendRestarts, Fault, TypeOK
<1>8. "lost" \in Causes /\ "restarted" \in Causes
  BY DEF Causes
<1>9. ASSUME Breaks PROVE TypeOK'
  <2>1. PICK kept \in 0..Len(up["live"]) : LoseSocket(kept) /\ cause' = Blame("lost", LostWith(kept))
    BY <1>9 DEF Breaks
  <2>2. link' = "dead" /\ UNCHANGED <<database, running, scheduler, supervisor, injected, misled>>
    BY <1>9 DEF Breaks
  <2>3. cause' \in [Ids -> SUBSET Causes]
    BY <1>8, <2>1, BlameGrows
  <2>4. /\ up' \in [Connections -> Seq(UpFrames)] /\ down' \in Seq(DownFrames)
        /\ loading' \subseteq Handlers
        /\ loaded' \in Seq([by : Handlers, configs : SUBSET Configs])
    BY <2>1, LoseSocketTyped
  <2> QED
    BY <1>7, <1>9, <2>2, <2>3, <2>4 DEF TypeOK
<1>10. ASSUME LauncherRestarts PROVE TypeOK'
  <2>1. /\ link' = "down" /\ running' = FALSE
        /\ armed' = {} /\ claimed' = {} /\ launches' = {}
        /\ synced' = FALSE /\ snapshot' = {} /\ queue' = <<>>
        /\ UNCHANGED <<database, injected, misled>>
    BY <1>10 DEF LauncherRestarts
  <2>2. queue' \in Seq(Deliveries)
    BY <2>1, EmptySeq
  <2>3. /\ up' \in [Connections -> Seq(UpFrames)] /\ down' \in Seq(DownFrames)
        /\ loading' \subseteq Handlers
        /\ loaded' \in Seq([by : Handlers, configs : SUBSET Configs])
        /\ cause' \in [Ids -> SUBSET Causes]
    <3>1. CASE link = "up"
      <4>1. PICK kept \in 0..Len(up["live"]) :
               /\ LoseSocket(kept)
               /\ cause' = [c \in Ids |-> Blame("lost", LostWith(kept))[c]
                                           \cup IF c \in claimed THEN {"restarted"} ELSE {}]
        BY <1>10, <3>1 DEF LauncherRestarts
      <4>2. Blame("lost", LostWith(kept)) \in [Ids -> SUBSET Causes]
        BY <1>8, BlameGrows
      <4> DEFINE blamed == Blame("lost", LostWith(kept))
      <4> HIDE DEF blamed
      <4>3. /\ cause' = [c \in Ids |-> blamed[c] \cup IF c \in claimed THEN {"restarted"} ELSE {}]
            /\ \A c \in Ids : blamed[c] \in SUBSET Causes
        BY <4>1, <4>2 DEF blamed
      <4>4. \A c \in Ids : (blamed[c] \cup IF c \in claimed THEN {"restarted"} ELSE {}) \in SUBSET Causes
        BY <1>8, <4>3
      <4>5. cause' \in [Ids -> SUBSET Causes]
        BY <4>3, <4>4
      <4> QED
        BY <4>1, <4>5, LoseSocketTyped
    <3>2. CASE link # "up"
      <4>1. cause' = Blame("restarted", claimed) /\ UNCHANGED <<up, down, syncs>>
        BY <1>10, <3>2 DEF LauncherRestarts
      <4>2. cause' \in [Ids -> SUBSET Causes]
        BY <1>8, <4>1, BlameGrows
      <4> QED
        BY <4>1, <4>2 DEF TypeOK
    <3> QED
      BY <3>1, <3>2
  <2> QED
    BY <1>7, <1>10, <2>1, <2>2, <2>3 DEF TypeOK
<1>11. ASSUME BackendRestarts PROVE TypeOK'
  <2>1. /\ link' \in {"up", "dead", "down"}
        /\ up' = [h \in Connections |-> <<>>] /\ down' = <<>> /\ loading' = {} /\ loaded' = <<>>
        /\ UNCHANGED <<database, running, scheduler, supervisor, injected, misled>>
    BY <1>11 DEF BackendRestarts, TypeOK
  <2>2. /\ up' \in [Connections -> Seq(UpFrames)] /\ down' \in Seq(DownFrames)
        /\ loaded' \in Seq([by : Handlers, configs : SUBSET Configs])
    <3>1. <<>> \in Seq(UpFrames)
      BY EmptySeq
    <3> QED
      BY <2>1, <3>1, EmptySeq
  <2>3. cause' \in [Ids -> SUBSET Causes]
    <3> DEFINE lost == UNION {IdsOf(up[h]) : h \in Connections} \cup LaunchesOf(down)
    <3>1. cause' = Blame("lost", lost)
      BY <1>11 DEF BackendRestarts
    <3> HIDE DEF lost
    <3> QED
      BY <1>8, <3>1, BlameGrows
  <2> QED
    BY <1>7, <1>11, <2>1, <2>2, <2>3 DEF TypeOK
<1>12. ASSUME UNCHANGED vars PROVE TypeOK'
  BY <1>12 DEF TypeOK, vars
<1> QED
  BY <1>1, <1>2, <1>3, <1>4, <1>5, <1>6, <1>9, <1>10, <1>11, <1>12, TakeUpTyped, LoopTyped
     DEF Next, Works

\* Every value stays in its type, whatever is lost, restarted or out of date.
THEOREM ContinuationsTypeOK == Spec => []TypeOK
<1>1. Init => EditsCounted
  BY DEF Init, EditsCounted
<1> QED
  BY <1>1, InitTyped, EditsStep, StepTyped, PTL DEF Spec

-----------------------------------------------------------------------------
(* The lists on their way                                                  *)

HasId(configs, c) == \E x \in configs : x.id = c
OneEach(configs) == \A x, y \in configs : x.id = y.id => x = y

\* The places of the lists on their way to the launcher, those that come first
\* before the others: the lists sent, among other frames, then those loaded.
Places == {k \in 1..Len(down) + Len(loaded) : k <= Len(down) => down[k].kind = "sync"}
List(k) == IF k <= Len(down) THEN down[k].configs ELSE loaded[k - Len(down)].configs
Listed(k, c) == HasId(List(k), c)

NoList(c) == \A k \in Places : ~Listed(k, c)
AllLists(c) == \A k \in Places : Listed(k, c)

\* Once a list has c, those behind it have; once one has not, those have not.
Grow(c) == \A k, m \in Places : k < m /\ Listed(k, c) => Listed(m, c)
Shrink(c) == \A k, m \in Places : k < m /\ Listed(m, c) => Listed(k, c)

\* The lists after a step are some of those before it, in the same order.
Embeds ==
    \E f \in [Places' -> Places] :
        /\ \A j, k \in Places' : j < k => f[j] < f[k]
        /\ \A k \in Places' : List(k)' = List(f[k])

\* Then what held of the lists does still.
LEMMA EmbedKeeps ==
  ASSUME Embeds, NEW c
  PROVE  /\ NoList(c) => NoList(c)'
         /\ AllLists(c) => AllLists(c)'
         /\ Grow(c) => Grow(c)'
         /\ Shrink(c) => Shrink(c)'
         /\ (\A k \in Places : OneEach(List(k))) => (\A k \in Places' : OneEach(List(k)'))
<1>1. PICK f \in [Places' -> Places] :
         /\ \A j, k \in Places' : j < k => f[j] < f[k]
         /\ \A k \in Places' : List(k)' = List(f[k])
  BY DEF Embeds
<1>2. \A k \in Places' : f[k] \in Places /\ (Listed(k, c)' <=> Listed(f[k], c))
  BY <1>1 DEF Listed, HasId
<1>3. NoList(c) => NoList(c)'
  BY <1>2 DEF NoList
<1>4. AllLists(c) => AllLists(c)'
  BY <1>2 DEF AllLists
<1>5. Grow(c) => Grow(c)'
  BY <1>1, <1>2 DEF Grow
<1>6. Shrink(c) => Shrink(c)'
  BY <1>1, <1>2 DEF Shrink
<1> QED
  BY <1>1, <1>2, <1>3, <1>4, <1>5, <1>6

\* A queue's places.
LEMMA PlaceFacts ==
  ASSUME TypeOK
  PROVE  /\ Len(down) \in Nat /\ Len(loaded) \in Nat /\ DOMAIN loaded = 1..Len(loaded)
         /\ DOMAIN down = 1..Len(down)
         /\ \A k \in Places : k \in Nat /\ k > 0 /\ k <= Len(down) + Len(loaded)
  BY LenProperties DEF TypeOK, Places

\* Nothing is sent to the launcher, and no list loaded or sent.
LEMMA EmbedSame ==
  ASSUME TypeOK, down' = down, Len(loaded') = Len(loaded),
         \A k \in 1..Len(loaded) : loaded'[k].configs = loaded[k].configs
  PROVE  Embeds
<1> DEFINE f == [k \in Places' |-> k]
<1>1. Places' = Places
  BY DEF Places
<1>2. ASSUME NEW k \in Places PROVE List(k)' = List(k)
  <2>1. CASE k <= Len(down)
    BY <2>1 DEF List
  <2>2. CASE ~(k <= Len(down))
    <3>1. k - Len(down) \in 1..Len(loaded)
      BY <2>2, PlaceFacts DEF Places
    <3> QED
      BY <2>2, <3>1 DEF List
  <2> QED
    BY <2>1, <2>2
<1>3. /\ f \in [Places' -> Places]
      /\ \A j, k \in Places' : j < k => f[j] < f[k]
      /\ \A k \in Places' : List(k)' = List(f[k])
  BY <1>1, <1>2
<1> HIDE DEF f
<1> QED
  BY <1>3 DEF Embeds

\* What was on its way to the launcher is lost.
LEMMA EmbedLost ==
  ASSUME TypeOK, down' = <<>>, Len(loaded') = Len(loaded),
         \A k \in 1..Len(loaded) : loaded'[k].configs = loaded[k].configs
  PROVE  Embeds
<1> DEFINE n == Len(down)
           f == [k \in Places' |-> k + n]
<1>1. Len(down') = 0 /\ n \in Nat /\ Len(loaded) \in Nat
  BY PlaceFacts
<1>2. Places' = 1..Len(loaded)
  BY <1>1 DEF Places
<1>3. ASSUME NEW k \in 1..Len(loaded)
      PROVE  /\ k + n \in Places
             /\ List(k)' = List(k + n)
  <2>1. ~(k <= Len(down')) /\ k - Len(down') = k
    BY <1>1
  <2>2. ~(k + n <= n) /\ (k + n) - n = k /\ k + n \in 1..n + Len(loaded)
    BY <1>1
  <2>3. k + n \in Places
    BY <2>2 DEF Places
  <2>4. List(k)' = loaded'[k].configs
    BY <2>1 DEF List
  <2>5. List(k + n) = loaded[k].configs
    BY <2>2 DEF List
  <2> QED
    BY <2>3, <2>4, <2>5
<1>4. /\ f \in [Places' -> Places]
      /\ \A j, k \in Places' : j < k => f[j] < f[k]
      /\ \A k \in Places' : List(k)' = List(f[k])
  <2>1. \A k \in Places' : f[k] = k + n
    OBVIOUS
  <2>2. \A j, k \in Places' : j < k => j + n < k + n
    BY <1>1, <1>2
  <2> QED
    BY <1>2, <1>3, <2>1, <2>2
<1> HIDE DEF f, n
<1> QED
  BY <1>4 DEF Embeds

\* The launcher takes a frame.
LEMMA EmbedTaken ==
  ASSUME TypeOK, down # <<>>, down' = Tail(down), loaded' = loaded
  PROVE  Embeds
<1> DEFINE n == Len(down)
           f == [k \in Places' |-> k + 1]
<1>1. n \in Nat \ {0} /\ Len(loaded) \in Nat
  BY PlaceFacts, EmptySeq, LenProperties DEF TypeOK
<1>2. Len(down') = n - 1 /\ \A k \in 1..n - 1 : down'[k] = down[k + 1]
  BY HeadTailProperties DEF TypeOK
<1>3. ASSUME NEW k \in Places'
      PROVE  k \in 1..(n - 1) + Len(loaded) /\ (k <= n - 1 => down'[k].kind = "sync")
  BY <1>2 DEF Places
<1>4. ASSUME NEW k \in Places'
      PROVE  k + 1 \in Places /\ List(k)' = List(k + 1)
  <2>1. k \in 1..(n - 1) + Len(loaded) /\ k + 1 \in 1..n + Len(loaded)
    BY <1>1, <1>3
  <2>2. CASE k <= n - 1
    <3>1. k \in 1..n - 1 /\ k + 1 <= n /\ down'[k] = down[k + 1] /\ down'[k].kind = "sync"
      BY <1>1, <1>2, <1>3, <2>1, <2>2
    <3> QED
      BY <1>2, <2>1, <2>2, <3>1 DEF Places, List
  <2>3. CASE ~(k <= n - 1)
    <3>1. ~(k + 1 <= n) /\ k - (n - 1) = (k + 1) - n
      BY <1>1, <2>1, <2>3
    <3> QED
      BY <1>2, <2>1, <2>3, <3>1 DEF Places, List
  <2> QED
    BY <2>2, <2>3
<1>5. /\ f \in [Places' -> Places]
      /\ \A j, k \in Places' : j < k => f[j] < f[k]
      /\ \A k \in Places' : List(k)' = List(f[k])
  <2>1. \A k \in Places' : f[k] = k + 1
    OBVIOUS
  <2>2. \A j, k \in Places' : j < k => j + 1 < k + 1
    BY <1>1, <1>3
  <2> QED
    BY <1>4, <2>1, <2>2
<1> HIDE DEF f, n
<1> QED
  BY <1>5 DEF Embeds

\* A launch frame is sent to the launcher.
LEMMA EmbedLaunch ==
  ASSUME TypeOK, NEW c \in Ids, down' = Append(down, Frame("launch", c)), loaded' = loaded
  PROVE  Embeds
<1> DEFINE n == Len(down)
           f == [k \in Places' |-> IF k <= n THEN k ELSE k - 1]
<1>1. n \in Nat /\ Len(loaded) \in Nat
  BY PlaceFacts
<1>2. /\ Len(down') = n + 1 /\ \A k \in 1..n : down'[k] = down[k]
      /\ down'[n + 1].kind = "launch"
  <2>1. Frame("launch", c) \in DownFrames /\ Frame("launch", c).kind = "launch"
    BY DEF Frame, DownFrames
  <2> QED
    BY <2>1, AppendProperties DEF TypeOK
<1>3. ASSUME NEW k \in Places'
      PROVE  /\ k \in 1..(n + 1) + Len(loaded) /\ (k <= n + 1 => down'[k].kind = "sync")
             /\ k <= n \/ k > n + 1
  <2>1. k \in 1..(n + 1) + Len(loaded) /\ (k <= n + 1 => down'[k].kind = "sync")
    BY <1>2 DEF Places
  <2>2. k # n + 1
    BY <1>1, <1>2, <2>1
  <2> QED
    BY <1>1, <2>1, <2>2
<1>4. ASSUME NEW k \in Places'
      PROVE  f[k] \in Places /\ List(k)' = List(f[k])
  <2>1. CASE k <= n
    <3>1. k \in 1..n /\ k <= n + 1 /\ k \in 1..n + Len(loaded) /\ f[k] = k
      BY <1>1, <1>3, <2>1
    <3> QED
      BY <1>2, <1>3, <2>1, <3>1 DEF Places, List
  <2>2. CASE k > n + 1
    <3>1. f[k] = k - 1 /\ k - 1 \in 1..n + Len(loaded) /\ ~(k - 1 <= n) /\ ~(k <= n + 1)
          /\ k - (n + 1) = (k - 1) - n
      BY <1>1, <1>3, <2>2
    <3> QED
      BY <1>2, <3>1 DEF Places, List
  <2> QED
    BY <1>3, <2>1, <2>2
<1>5. \A j, k \in Places' : j < k => f[j] < f[k]
  BY <1>1, <1>3
<1>6. f \in [Places' -> Places]
  BY <1>4
<1> HIDE DEF f, n
<1> QED
  BY <1>4, <1>5, <1>6 DEF Embeds

\* A list that was loaded is sent into nothing.
LEMMA EmbedDropped ==
  ASSUME TypeOK, NEW i \in DOMAIN loaded, down' = down, loaded' = RemoveAt(loaded, i)
  PROVE  Embeds
<1> DEFINE n == Len(down)
           f == [k \in Places' |-> IF k < n + i THEN k ELSE k + 1]
<1>1. n \in Nat /\ Len(loaded) \in Nat /\ i \in 1..Len(loaded)
  BY PlaceFacts
<1>2. /\ Len(loaded') = Len(loaded) - 1
      /\ \A k \in 1..Len(loaded) - 1 : loaded'[k] = loaded[IF k < i THEN k ELSE k + 1]
  BY RemovedAt DEF TypeOK
<1>3. ASSUME NEW k \in Places'
      PROVE  k \in 1..n + (Len(loaded) - 1) /\ (k <= n => down[k].kind = "sync")
  BY <1>2 DEF Places
<1>4. ASSUME NEW k \in Places'
      PROVE  f[k] \in Places /\ List(k)' = List(f[k])
  <2>1. CASE k <= n
    <3>1. k < n + i /\ k \in 1..n + Len(loaded) /\ f[k] = k
      BY <1>1, <1>3, <2>1
    <3> QED
      BY <1>3, <2>1, <3>1 DEF Places, List
  <2>2. CASE ~(k <= n) /\ k < n + i
    <3>1. f[k] = k /\ k \in 1..n + Len(loaded) /\ k - n \in 1..Len(loaded) - 1 /\ k - n < i
      BY <1>1, <1>3, <2>2
    <3>2. loaded'[k - n] = loaded[k - n]
      BY <1>2, <3>1
    <3> QED
      BY <2>2, <3>1, <3>2 DEF Places, List
  <2>3. CASE ~(k < n + i)
    <3>1. /\ f[k] = k + 1 /\ k + 1 \in 1..n + Len(loaded) /\ ~(k + 1 <= n) /\ ~(k <= n)
          /\ k - n \in 1..Len(loaded) - 1 /\ ~(k - n < i) /\ (k + 1) - n = (k - n) + 1
      BY <1>1, <1>3, <2>3
    <3>2. loaded'[k - n] = loaded[(k + 1) - n]
      BY <1>2, <3>1
    <3>3. List(k)' = loaded'[k - n].configs
      BY <3>1 DEF List
    <3>4. List(k + 1) = loaded[(k + 1) - n].configs
      BY <3>1 DEF List
    <3>5. k + 1 \in Places
      BY <3>1 DEF Places
    <3> QED
      BY <3>1, <3>2, <3>3, <3>4, <3>5
  <2> QED
    BY <2>1, <2>2, <2>3
<1>5. \A j, k \in Places' : j < k => f[j] < f[k]
  BY <1>1, <1>3
<1>6. f \in [Places' -> Places]
  BY <1>4
<1> HIDE DEF f, n
<1> QED
  BY <1>4, <1>5, <1>6 DEF Embeds

\* A list is sent, and those loaded earlier say the same.
LEMMA EmbedSent ==
  ASSUME TypeOK, NEW i \in DOMAIN loaded, down' = Append(down, SyncFrame(loaded[i].configs)),
         loaded' = RemoveAt(loaded, i),
         \A j \in 1..(i - 1) : loaded[j].configs = loaded[i].configs
  PROVE  Embeds
<1> DEFINE n == Len(down)
           f == [k \in Places' |-> k]
<1>1. n \in Nat /\ Len(loaded) \in Nat /\ i \in 1..Len(loaded)
  BY PlaceFacts
<1>2. /\ Len(loaded') = Len(loaded) - 1
      /\ \A k \in 1..Len(loaded) - 1 : loaded'[k] = loaded[IF k < i THEN k ELSE k + 1]
  BY RemovedAt DEF TypeOK
<1>3. /\ Len(down') = n + 1 /\ \A k \in 1..n : down'[k] = down[k]
      /\ down'[n + 1] = SyncFrame(loaded[i].configs)
  <2>1. SyncFrame(loaded[i].configs) \in DownFrames
    BY LoadedTyped
  <2> QED
    BY <2>1, AppendProperties DEF TypeOK
<1>4. \A k \in 1..Len(loaded) - 1 : loaded'[k].configs = loaded[k + 1].configs
  <2> SUFFICES ASSUME NEW k \in 1..Len(loaded) - 1
               PROVE  loaded'[k].configs = loaded[k + 1].configs
    OBVIOUS
  <2>1. CASE k < i
    <3>1. loaded'[k] = loaded[k] /\ k \in 1..(i - 1)
      BY <1>1, <1>2, <2>1
    <3>2. loaded[k].configs = loaded[i].configs
      BY <3>1
    <3>3. k + 1 = i \/ k + 1 \in 1..(i - 1)
      BY <1>1, <2>1
    <3> QED
      BY <3>1, <3>2, <3>3
  <2>2. CASE ~(k < i)
    BY <1>2, <2>2
  <2> QED
    BY <2>1, <2>2
<1>5. loaded[1].configs = loaded[i].configs
  <2>1. i = 1 \/ 1 \in 1..(i - 1)
    BY <1>1
  <2> QED
    BY <2>1
<1>6. ASSUME NEW k \in Places'
      PROVE  k \in 1..n + Len(loaded) /\ (k <= n + 1 => down'[k].kind = "sync")
  <2>1. k \in 1..(n + 1) + (Len(loaded) - 1) /\ (k <= n + 1 => down'[k].kind = "sync")
    BY <1>2, <1>3 DEF Places
  <2> QED
    BY <1>1, <2>1
<1>7. ASSUME NEW k \in Places'
      PROVE  k \in Places /\ List(k)' = List(k)
  <2>1. CASE k <= n
    <3>1. k \in 1..n /\ k <= n + 1
      BY <1>1, <1>6, <2>1
    <3> QED
      BY <1>3, <1>6, <2>1, <3>1 DEF Places, List
  <2>2. CASE k = n + 1
    <3>1. ~(k <= n) /\ k - n = 1 /\ k <= n + 1
      BY <1>1, <2>2
    <3>2. List(k)' = loaded[i].configs
      BY <1>3, <2>2, <3>1 DEF List, SyncFrame
    <3>3. List(k) = loaded[1].configs
      BY <3>1 DEF List
    <3>4. k \in Places
      BY <1>6, <3>1 DEF Places
    <3> QED
      BY <1>5, <3>2, <3>3, <3>4
  <2>3. CASE ~(k <= n + 1)
    <3>1. ~(k <= n) /\ k - (n + 1) \in 1..Len(loaded) - 1 /\ (k - (n + 1)) + 1 = k - n
      BY <1>1, <1>6, <2>3
    <3>2. List(k)' = loaded'[k - (n + 1)].configs
      BY <1>3, <2>3 DEF List
    <3>3. List(k) = loaded[k - n].configs
      BY <3>1 DEF List
    <3>4. loaded'[k - (n + 1)].configs = loaded[k - n].configs
      BY <1>4, <3>1
    <3>5. k \in Places
      BY <1>6, <3>1 DEF Places
    <3> QED
      BY <3>2, <3>3, <3>4, <3>5
  <2> QED
    BY <1>1, <1>6, <2>1, <2>2, <2>3
<1>8. /\ f \in [Places' -> Places]
      /\ \A j, k \in Places' : j < k => f[j] < f[k]
      /\ \A k \in Places' : List(k)' = List(f[k])
  BY <1>7
<1> HIDE DEF f, n
<1> QED
  BY <1>8 DEF Embeds

\* The backend restarts: no list is left.
LEMMA EmbedNone ==
  ASSUME down' = <<>>, loaded' = <<>>
  PROVE  Embeds
<1> DEFINE f == [k \in Places' |-> k]
<1>1. Places' = {}
  BY DEF Places
<1>2. f \in [Places' -> Places]
  BY <1>1
<1> HIDE DEF f
<1> QED
  BY <1>1, <1>2 DEF Embeds

-----------------------------------------------------------------------------
(* The inductive invariant                                                 *)

Over == {"fired", "dropped"}

\* How often c has been, or is on its way to be, injected.
Tokens(c) ==
    Count(queue, DeliveriesOf(c)) + Count(up["live"], Asks(c)) + Count(up["left"], Asks(c))
    + Count(down, Launch(c)) + injected[c]

\* The launcher has sent something about c that is not read yet.
Reported(c) == Names(up["live"], c) \/ Names(up["left"], c)

\* A list out of date, or a daemon that died with the claim.
Excused(c) == misled \/ "restarted" \in cause[c]

\* Else the launcher's claims, and the lists on their way to it, follow the
\* row: a prompt not scheduled yet is in none; one that is scheduled is in all
\* lists from some on, in all of them if the launcher has been told; one that
\* is over is in those up to some, in none if its claim was let go.
Story(c) ==
    /\ row[c] \in {"none", "pending"} => NoList(c) /\ c \notin claimed /\ ~HasId(armed, c)
    /\ row[c] = "scheduled" => Grow(c) /\ (c \in claimed \/ HasId(armed, c) => AllLists(c))
    /\ row[c] \in Over => IF c \in claimed THEN Shrink(c) ELSE NoList(c) /\ ~HasId(armed, c)
    /\ c \in claimed => ~HasId(armed, c)
    /\ Tokens(c) > 0 \/ Reported(c) => c \in claimed \/ row[c] \in Over
    /\ Tokens(c) <= 1
    /\ row[c] = "dropped" => Tokens(c) = 0

\* A report that was not read yet is behind its injection.
Reports(c) ==
    \/ injected[c] > 0 \/ "unstored" \in cause[c]
    \/ row[c] # "fired" /\ Paired(up["live"], c) /\ Paired(up["left"], c)

ListsOnce == OneEach(armed) /\ \A k \in Places : OneEach(List(k))

IInv == ListsOnce /\ \A c \in Ids : Reports(c) /\ (Excused(c) \/ Story(c))

\* The terms of Tokens are natural.
LEMMA TokensType ==
  ASSUME TypeOK, NEW c \in Ids
  PROVE  /\ Count(queue, DeliveriesOf(c)) \in Nat /\ Count(up["live"], Asks(c)) \in Nat
         /\ Count(up["left"], Asks(c)) \in Nat /\ Count(down, Launch(c)) \in Nat
         /\ injected[c] \in Nat /\ Tokens(c) \in Nat
<1>1. /\ queue \in Seq(Deliveries) /\ up["live"] \in Seq(UpFrames) /\ up["left"] \in Seq(UpFrames)
      /\ down \in Seq(DownFrames) /\ injected[c] \in Nat
  BY DEF TypeOK, Connections
<1>2. /\ Count(queue, DeliveriesOf(c)) \in Nat /\ Count(up["live"], Asks(c)) \in Nat
      /\ Count(up["left"], Asks(c)) \in Nat /\ Count(down, Launch(c)) \in Nat
  BY <1>1, CountType
<1> QED
  BY <1>1, <1>2 DEF Tokens

\* So they are after a step.
LEMMA TokensTypeNext ==
  ASSUME TypeOK', NEW c \in Ids
  PROVE  /\ Count(queue', DeliveriesOf(c)) \in Nat /\ Count(up'["live"], Asks(c)) \in Nat
         /\ Count(up'["left"], Asks(c)) \in Nat /\ Count(down', Launch(c)) \in Nat
         /\ injected'[c] \in Nat /\ Tokens(c)' \in Nat
<1>1. /\ queue' \in Seq(Deliveries) /\ up'["live"] \in Seq(UpFrames) /\ up'["left"] \in Seq(UpFrames)
      /\ down' \in Seq(DownFrames) /\ injected'[c] \in Nat
  <2>1. /\ queue' \in Seq(Deliveries) /\ up' \in [Connections -> Seq(UpFrames)]
        /\ down' \in Seq(DownFrames) /\ injected' \in [Ids -> 0..2]
    BY DEF TypeOK
  <2> QED
    BY <2>1 DEF Connections
<1>2. /\ Count(queue', DeliveriesOf(c)) \in Nat /\ Count(up'["live"], Asks(c)) \in Nat
      /\ Count(up'["left"], Asks(c)) \in Nat /\ Count(down', Launch(c)) \in Nat
  BY <1>1, CountType
<1> QED
  BY <1>1, <1>2 DEF Tokens

\* A step that tells the continuation nothing new.
Quiet(c) ==
    /\ row'[c] = row[c]
    /\ (c \in claimed' <=> c \in claimed)
    /\ HasId(armed', c) => HasId(armed, c)
    /\ Tokens(c)' <= Tokens(c)
    /\ Reported(c)' => Reported(c) \/ Tokens(c) > 0

\* Its story is the same after such a step.
LEMMA QuietKeeps ==
  ASSUME TypeOK, TypeOK', NEW c \in Ids, Embeds, Quiet(c), Story(c)
  PROVE  Story(c)'
<1>1. Tokens(c) \in Nat /\ Tokens(c)' \in Nat
  BY TokensType, TokensTypeNext
<1>2. /\ NoList(c) => NoList(c)'
      /\ AllLists(c) => AllLists(c)'
      /\ Grow(c) => Grow(c)'
      /\ Shrink(c) => Shrink(c)'
  BY EmbedKeeps
<1> HIDE DEF Tokens
<1>3. (row[c] \in {"none", "pending"} => NoList(c) /\ c \notin claimed /\ ~HasId(armed, c))'
  <2>1. ASSUME row[c] \in {"none", "pending"}
        PROVE  NoList(c)' /\ c \notin claimed' /\ ~HasId(armed', c)
    BY <1>2, <2>1 DEF Quiet, Story
  <2> QED
    BY <2>1 DEF Quiet, HasId
<1>4. (row[c] = "scheduled" => Grow(c) /\ (c \in claimed \/ HasId(armed, c) => AllLists(c)))'
  <2>1. ASSUME row[c] = "scheduled"
        PROVE  Grow(c)' /\ (c \in claimed' \/ HasId(armed', c) => AllLists(c)')
    BY <1>2, <2>1 DEF Quiet, Story
  <2> QED
    BY <2>1 DEF Quiet, HasId
<1>5. (row[c] \in Over => IF c \in claimed THEN Shrink(c) ELSE NoList(c) /\ ~HasId(armed, c))'
  <2>1. ASSUME row[c] \in Over, c \in claimed
        PROVE  c \in claimed' /\ Shrink(c)'
    BY <1>2, <2>1 DEF Quiet, Story
  <2>2. ASSUME row[c] \in Over, c \notin claimed
        PROVE  c \notin claimed' /\ NoList(c)' /\ ~HasId(armed', c)
    BY <1>2, <2>2 DEF Quiet, Story
  <2> QED
    BY <2>1, <2>2 DEF Quiet, HasId, Over
<1>6. (Tokens(c) > 0 \/ Reported(c) => c \in claimed \/ row[c] \in Over)'
  <2>1. (Tokens(c)' > 0 \/ Reported(c)') => (Tokens(c) > 0 \/ Reported(c))
    BY <1>1 DEF Quiet
  <2> QED
    BY <2>1 DEF Quiet, Story
<1>7. Tokens(c)' <= 1 /\ (row'[c] = "dropped" => Tokens(c)' = 0)
  BY <1>1 DEF Quiet, Story
<1>8. (c \in claimed => ~HasId(armed, c))'
  BY DEF Quiet, Story
<1> QED
  BY <1>3, <1>4, <1>5, <1>6, <1>7, <1>8 DEF Story

\* Less armed has each continuation once as well.
LEMMA ArmedOnce ==
  ASSUME ListsOnce, Embeds, armed' \subseteq armed
  PROVE  ListsOnce'
<1>1. \A k \in Places' : OneEach(List(k)')
  BY EmbedKeeps DEF ListsOnce
<1>2. OneEach(armed')
  BY DEF ListsOnce, OneEach
<1>3. \A k \in Places' : OneEach(List(k))'
  BY <1>1 DEF OneEach
<1> QED
  BY <1>2, <1>3 DEF ListsOnce, OneEach

\* What holds of a continuation after a step, if it did before.
Told(c) == /\ Story(c) => Story(c)' \/ Excused(c)'
           /\ Reports(c) => Reports(c)'

\* A step that changes none of what the invariant is about keeps it.
LEMMA StillTold ==
  ASSUME TypeOK, TypeOK', ListsOnce,
         UNCHANGED <<row, up, down, loaded, armed, claimed, queue, injected, cause, misled>>
  PROVE  ListsOnce' /\ \A c \in Ids : Told(c)
<1>1. Embeds
  <2>1. \A k \in 1..Len(loaded) : loaded'[k].configs = loaded[k].configs
    OBVIOUS
  <2>2. Len(loaded') = Len(loaded) /\ down' = down
    OBVIOUS
  <2> QED
    BY <2>1, <2>2, EmbedSame
<1>2. ListsOnce'
  BY <1>1, ArmedOnce
<1>3. ASSUME NEW c \in Ids PROVE Told(c)
  <2>1. Tokens(c)' = Tokens(c) /\ (Reported(c)' <=> Reported(c)) /\ (Reports(c)' <=> Reports(c))
    BY DEF Tokens, Reported, Reports
  <2>2. Quiet(c)
    <3>1. Tokens(c) \in Nat
      BY TokensType
    <3> HIDE DEF Tokens
    <3> QED
      BY <2>1, <3>1 DEF Quiet
  <2>3. Story(c) => Story(c)'
    BY <1>1, <2>2, QuietKeeps
  <2> QED
    BY <2>1, <2>3 DEF Told
<1> QED
  BY <1>2, <1>3

-----------------------------------------------------------------------------
(* The rows and the lists                                                  *)

\* A prompt is first put into its row, or scheduled: no list has it, and
\* nothing was sent about it.
LEMMA SchedulesTold ==
  ASSUME TypeOK, TypeOK', ListsOnce, NEW h \in Hubs, NEW d \in Ids,
         LimitReached(h, d) \/ Overloaded(h, d) \/ UserSchedules(h, d)
  PROVE  ListsOnce' /\ \A c \in Ids : Told(c)
<1>1. /\ UNCHANGED <<up, down, loaded, armed, claimed, queue, injected, cause, misled>>
      /\ row[d] \in {"none", "pending"}
      /\ \/ row' = [row EXCEPT ![d] = "pending"]
         \/ row' = [row EXCEPT ![d] = "scheduled"]
  <2>1. CASE LimitReached(h, d)
    BY <2>1 DEF LimitReached, wire, scheduler, supervisor, history
  <2>2. CASE Overloaded(h, d)
    BY <2>2 DEF Overloaded, wire, scheduler, supervisor, history
  <2>3. CASE UserSchedules(h, d)
    BY <2>3 DEF UserSchedules, wire, scheduler, supervisor, history
  <2> QED
    BY <2>1, <2>2, <2>3
<1>2. /\ row'[d] \in {"pending", "scheduled"}
      /\ \A c \in Ids : c # d => row'[c] = row[c]
  BY <1>1 DEF TypeOK
<1>3. Embeds
  <2>1. \A k \in 1..Len(loaded) : loaded'[k].configs = loaded[k].configs
    BY <1>1
  <2>2. Len(loaded') = Len(loaded) /\ down' = down
    BY <1>1
  <2> QED
    BY <2>1, <2>2, EmbedSame
<1>4. ListsOnce'
  BY <1>1, <1>3, ArmedOnce
<1>5. ASSUME NEW c \in Ids PROVE Told(c)
  <2>1. /\ Tokens(c)' = Tokens(c) /\ Tokens(c) \in Nat
        /\ Reported(c)' <=> Reported(c)
        /\ claimed' = claimed /\ armed' = armed
    BY <1>1, TokensType DEF Tokens, Reported
  <2>2. Reports(c) => Reports(c)'
    BY <1>1, <1>2 DEF Reports
  <2> HIDE DEF Tokens
  <2>3. CASE c # d
    <3>1. Quiet(c)
      BY <1>2, <2>1, <2>3 DEF Quiet
    <3>2. Story(c) => Story(c)'
      BY <1>3, <3>1, QuietKeeps
    <3> QED
      BY <2>2, <3>2 DEF Told
  <2>4. ASSUME c = d, Story(c) PROVE Story(c)'
    <3>1. NoList(c) /\ c \notin claimed /\ ~HasId(armed, c) /\ row[c] \notin Over
      BY <1>1, <2>4 DEF Story, Over
    <3>2. Tokens(c) = 0 /\ ~Reported(c)
      BY <2>1, <2>4, <3>1 DEF Story
    <3>3. NoList(c)'
      BY <1>3, <3>1, EmbedKeeps
    <3>4. Grow(c)'
      BY <3>3 DEF NoList, Grow
    <3>5. row'[c] \notin Over /\ row'[c] # "dropped"
      BY <1>2, <2>4 DEF Over
    <3>6. c \notin claimed' /\ ~HasId(armed', c) /\ Tokens(c)' = 0 /\ ~Reported(c)'
      BY <2>1, <3>1, <3>2
    <3> QED
      BY <3>3, <3>4, <3>5, <3>6 DEF Story, HasId, Over
  <2> QED
    BY <2>2, <2>3, <2>4 DEF Told
<1> QED
  BY <1>4, <1>5

\* Where the lists are when another is loaded.
LEMMA LoadPlaces ==
  ASSUME TypeOK, NEW h \in Handlers, NEW configs \in SUBSET Configs, down' = down,
         loaded' = Append(loaded, [by |-> h, configs |-> configs])
  PROVE  \E last \in Nat :
            /\ Places' = Places \cup {last}
            /\ List(last)' = configs
            /\ \A k \in Places : List(k)' = List(k) /\ k < last /\ ~(last < k)
            /\ ~(last < last)
<1> DEFINE n == Len(down)
<1>1. n \in Nat /\ Len(loaded) \in Nat
  BY PlaceFacts
<1>0. PICK last \in Nat : last = n + Len(loaded) + 1
  BY <1>1
<1>2. /\ Len(loaded') = Len(loaded) + 1 /\ \A k \in 1..Len(loaded) : loaded'[k] = loaded[k]
      /\ loaded'[Len(loaded) + 1] = [by |-> h, configs |-> configs]
  <2>1. [by |-> h, configs |-> configs] \in [by : Handlers, configs : SUBSET Configs]
    OBVIOUS
  <2> QED
    BY <2>1, AppendProperties DEF TypeOK
<1>3. 1..n + Len(loaded') = (1..n + Len(loaded)) \cup {last}
  BY <1>0, <1>1, <1>2
<1>4. Places' = Places \cup {last}
  BY <1>1, <1>3 DEF Places
<1>5. List(last)' = configs
  <2>1. ~(last <= n) /\ last - n = Len(loaded) + 1
    BY <1>0, <1>1
  <2>2. last - Len(down') = Len(loaded) + 1 /\ ~(last <= Len(down'))
    BY <2>1
  <2> QED
    BY <1>2, <2>2 DEF List
<1>6. ASSUME NEW k \in Places PROVE List(k)' = List(k) /\ k < last /\ ~(last < k)
  <2>1. k \in 1..n + Len(loaded)
    BY DEF Places
  <2>2. CASE k <= n
    BY <1>0, <1>1, <2>1, <2>2 DEF List
  <2>3. CASE ~(k <= n)
    <3>1. k - n \in 1..Len(loaded)
      BY <1>1, <2>1, <2>3
    <3> QED
      BY <1>0, <1>1, <1>2, <2>1, <2>3, <3>1 DEF List
  <2> QED
    BY <2>2, <2>3
<1>7. ~(last < last)
  BY <1>1
<1> QED
  BY <1>4, <1>5, <1>6, <1>7

\* A list is loaded as the rows are, unless the database fails.
LEMMA LoadTold ==
  ASSUME TypeOK, TypeOK', ListsOnce, NEW h \in Handlers, Load(h)
  PROVE  ListsOnce' /\ \A c \in Ids : Told(c)
<1>1. UNCHANGED <<row, up, down, armed, claimed, queue, injected, cause>>
  BY DEF Load, database, wire, scheduler, supervisor
<1>2. PICK configs \in {ScheduledConfigs, {}} :
         /\ loaded' = Append(loaded, [by |-> h, configs |-> configs])
         /\ configs = ScheduledConfigs \/ misled'
  BY DEF Load
<1>3. configs \in SUBSET Configs /\ OneEach(configs)
  BY ScheduledType DEF OneEach
<1>4. PICK last \in Nat :
      /\ Places' = Places \cup {last}
      /\ List(last)' = configs
      /\ \A k \in Places : List(k)' = List(k) /\ k < last /\ ~(last < k)
      /\ ~(last < last)
  BY <1>1, <1>2, <1>3, LoadPlaces
<1>5. ListsOnce'
  <2>1. \A k \in Places' : OneEach(List(k))'
    BY <1>3, <1>4 DEF ListsOnce, OneEach
  <2>2. OneEach(armed)'
    BY <1>1 DEF ListsOnce, OneEach
  <2> QED
    BY <2>1, <2>2 DEF ListsOnce
<1>6. ASSUME NEW c \in Ids PROVE Told(c)
  <2>1. /\ Tokens(c)' = Tokens(c)
        /\ Reported(c)' <=> Reported(c)
        /\ claimed' = claimed /\ armed' = armed /\ row' = row
        /\ Reports(c) => Reports(c)'
    BY <1>1 DEF Tokens, Reported, Reports
  <2> HIDE DEF Tokens
  <2>2. ASSUME Story(c), configs = ScheduledConfigs PROVE Story(c)'
    <3>1. HasId(configs, c) <=> row[c] = "scheduled"
      BY <2>2, ScheduledType DEF HasId
    <3>2. /\ Listed(last, c)' <=> row[c] = "scheduled"
          /\ \A k \in Places : Listed(k, c)' <=> Listed(k, c)
      BY <1>4, <3>1 DEF Listed, HasId
    <3>3. (row[c] \in {"none", "pending"} => NoList(c) /\ c \notin claimed /\ ~HasId(armed, c))'
      <4>1. ASSUME row[c] \in {"none", "pending"}
            PROVE  NoList(c)' /\ c \notin claimed /\ ~HasId(armed, c)
        <5>1. NoList(c) /\ c \notin claimed /\ ~HasId(armed, c)
          BY <2>2, <4>1 DEF Story
        <5> QED
          BY <1>4, <3>2, <4>1, <5>1 DEF NoList
      <4> QED
        BY <2>1, <4>1 DEF HasId
    <3>4. (row[c] = "scheduled" => Grow(c) /\ (c \in claimed \/ HasId(armed, c) => AllLists(c)))'
      <4>1. ASSUME row[c] = "scheduled"
            PROVE  Grow(c)' /\ (c \in claimed \/ HasId(armed, c) => AllLists(c)')
        <5>1. Grow(c) /\ (c \in claimed \/ HasId(armed, c) => AllLists(c))
          BY <2>2, <4>1 DEF Story
        <5>2. Grow(c)'
          BY <1>4, <3>2, <4>1, <5>1 DEF Grow
        <5>3. AllLists(c) => AllLists(c)'
          BY <1>4, <3>2, <4>1, <5>1 DEF AllLists
        <5> QED
          BY <5>1, <5>2, <5>3
      <4> QED
        BY <2>1, <4>1 DEF HasId
    <3>5. (row[c] \in Over => IF c \in claimed THEN Shrink(c) ELSE NoList(c) /\ ~HasId(armed, c))'
      <4>1. ASSUME row[c] \in Over, c \in claimed PROVE Shrink(c)'
        <5>1. Shrink(c) /\ row[c] # "scheduled"
          BY <2>2, <4>1 DEF Story, Over
        <5> QED
          BY <1>4, <3>2, <5>1 DEF Shrink
      <4>2. ASSUME row[c] \in Over, c \notin claimed PROVE NoList(c)' /\ ~HasId(armed, c)
        <5>1. NoList(c) /\ ~HasId(armed, c) /\ row[c] # "scheduled"
          BY <2>2, <4>2 DEF Story, Over
        <5> QED
          BY <1>4, <3>2, <5>1 DEF NoList
      <4> QED
        BY <2>1, <4>1, <4>2 DEF HasId, Over
    <3>6. /\ (Tokens(c)' > 0 \/ Reported(c)') => (c \in claimed \/ row[c] \in Over)
          /\ Tokens(c)' <= 1
          /\ row[c] = "dropped" => Tokens(c)' = 0
          /\ c \in claimed => ~HasId(armed, c)
      BY <2>1, <2>2 DEF Story
    <3> QED
      BY <2>1, <3>3, <3>4, <3>5, <3>6 DEF Story, HasId, Over
  <2> QED
    BY <1>2, <2>1, <2>2 DEF Told, Excused
<1> QED
  BY <1>5, <1>6

\* Whichever list is sent, all that are on their way have each continuation
\* once.
LEMMA SentOnce ==
  ASSUME TypeOK, ListsOnce, NEW i \in DOMAIN loaded, loaded' = RemoveAt(loaded, i),
         down' = Append(down, SyncFrame(loaded[i].configs))
  PROVE  \A k \in Places' : OneEach(List(k)')
<1> DEFINE n == Len(down)
<1>1. n \in Nat /\ Len(loaded) \in Nat /\ i \in 1..Len(loaded)
  BY PlaceFacts
<1>2. /\ Len(loaded') = Len(loaded) - 1
      /\ \A k \in 1..Len(loaded) - 1 : loaded'[k] = loaded[IF k < i THEN k ELSE k + 1]
  BY RemovedAt DEF TypeOK
<1>3. /\ Len(down') = n + 1 /\ \A k \in 1..n : down'[k] = down[k]
      /\ down'[n + 1] = SyncFrame(loaded[i].configs)
  <2>1. SyncFrame(loaded[i].configs) \in DownFrames
    BY LoadedTyped
  <2> QED
    BY <2>1, AppendProperties DEF TypeOK
<1>4. \A j \in 1..Len(loaded) : OneEach(loaded[j].configs)
  <2> SUFFICES ASSUME NEW j \in 1..Len(loaded) PROVE OneEach(loaded[j].configs)
    OBVIOUS
  <2>1. ~(n + j <= n) /\ (n + j) - n = j /\ n + j \in 1..n + Len(loaded)
    BY <1>1
  <2>2. n + j \in Places /\ List(n + j) = loaded[j].configs
    BY <2>1 DEF Places, List
  <2>3. OneEach(List(n + j))
    BY <2>2 DEF ListsOnce
  <2> QED
    BY <2>2, <2>3
<1> SUFFICES ASSUME NEW k \in Places' PROVE OneEach(List(k)')
  OBVIOUS
<1>5. k \in 1..(n + 1) + (Len(loaded) - 1) /\ (k <= n + 1 => down'[k].kind = "sync")
  BY <1>2, <1>3 DEF Places
<1>6. CASE k <= n
  <2>1. k \in 1..n /\ k <= n + 1 /\ k \in 1..n + Len(loaded)
    BY <1>1, <1>5, <1>6
  <2>2. k \in Places /\ List(k)' = List(k)
    BY <1>3, <1>5, <1>6, <2>1 DEF Places, List
  <2>3. OneEach(List(k))
    BY <2>2 DEF ListsOnce
  <2> QED
    BY <2>2, <2>3
<1>7. CASE k = n + 1
  <2>1. k <= n + 1
    BY <1>1, <1>7
  <2>2. List(k)' = loaded[i].configs
    BY <1>3, <1>7, <2>1 DEF List, SyncFrame
  <2>3. OneEach(loaded[i].configs)
    BY <1>1, <1>4
  <2> QED
    BY <2>2, <2>3
<1>8. CASE ~(k <= n + 1)
  <2> DEFINE j == k - (n + 1)
             m == IF j < i THEN j ELSE j + 1
  <2>1. j \in 1..Len(loaded) - 1 /\ m \in 1..Len(loaded)
    BY <1>1, <1>5, <1>8
  <2>2. List(k)' = loaded'[j].configs
    BY <1>3, <1>8 DEF List
  <2>3. loaded'[j] = loaded[m]
    BY <1>2, <2>1
  <2> HIDE DEF j, m
  <2>4. OneEach(loaded[m].configs)
    BY <1>4, <2>1
  <2> QED
    BY <2>2, <2>3, <2>4
<1> QED
  BY <1>1, <1>5, <1>6, <1>7, <1>8

\* A list is sent: one that says what those loaded before it say, or the
\* launcher will have been misled.
LEMMA SendSyncTold ==
  ASSUME TypeOK, TypeOK', ListsOnce, NEW i \in DOMAIN loaded, SendSync(i)
  PROVE  ListsOnce' /\ \A c \in Ids : Told(c)
<1>1. /\ loaded' = RemoveAt(loaded, i)
      /\ down' = IF link = "up" THEN Append(down, SyncFrame(loaded[i].configs)) ELSE down
      /\ UNCHANGED <<row, up, armed, claimed, queue, injected, cause>>
  BY DEF SendSync, SendDown, database, scheduler, supervisor
<1>2. \/ misled'
      \/ link # "up"
      \/ \A j \in 1..(i - 1) : loaded[j].configs = loaded[i].configs
  BY DEF SendSync
<1>3. misled' \/ Embeds
  <2>1. CASE link # "up"
    <3>1. down' = down
      BY <1>1, <2>1
    <3>2. Embeds
      BY <1>1, <3>1, EmbedDropped
    <3> QED
      BY <3>2
  <2>2. CASE link = "up" /\ \A j \in 1..(i - 1) : loaded[j].configs = loaded[i].configs
    <3>1. down' = Append(down, SyncFrame(loaded[i].configs))
      BY <1>1, <2>2
    <3>2. Embeds
      BY <1>1, <2>2, <3>1, EmbedSent
    <3> QED
      BY <3>2
  <2> QED
    BY <1>2, <2>1, <2>2
<1>4. ListsOnce'
  <2>1. CASE link = "up"
    <3>1. down' = Append(down, SyncFrame(loaded[i].configs))
      BY <1>1, <2>1
    <3>2. \A k \in Places' : OneEach(List(k)')
      BY <1>1, <3>1, SentOnce
    <3>3. OneEach(armed)'
      BY <1>1 DEF ListsOnce, OneEach
    <3>4. \A k \in Places' : OneEach(List(k))'
      BY <3>2 DEF OneEach
    <3> QED
      BY <3>3, <3>4 DEF ListsOnce
  <2>2. CASE link # "up"
    <3>1. down' = down
      BY <1>1, <2>2
    <3>2. Embeds
      BY <1>1, <3>1, EmbedDropped
    <3> QED
      BY <1>1, <3>2, ArmedOnce
  <2> QED
    BY <2>1, <2>2
<1>5. ASSUME NEW c \in Ids PROVE Told(c)
  <2>1. Count(down', Launch(c)) = Count(down, Launch(c))
    <3> DEFINE frame == SyncFrame(loaded[i].configs)
    <3>1. frame \in DownFrames /\ frame \notin Launch(c)
      <4>1. frame \in DownFrames
        BY LoadedTyped
      <4>2. frame \notin Launch(c)
        BY DEF SyncFrame, Launch, Frame
      <4> QED
        BY <4>1, <4>2
    <3> HIDE DEF frame
    <3>2. Count(Append(down, frame), Launch(c)) = Count(down, Launch(c)) + 0
      BY <3>1, CountAppend DEF TypeOK
    <3>3. Count(down, Launch(c)) \in Nat
      BY TokensType
    <3>4. CASE link = "up"
      BY <1>1, <3>2, <3>3, <3>4 DEF frame
    <3>5. CASE link # "up"
      BY <1>1, <3>5
    <3> QED
      BY <3>4, <3>5
  <2>2. /\ Tokens(c)' = Tokens(c) /\ Tokens(c) \in Nat
        /\ Reported(c)' <=> Reported(c)
        /\ Reports(c) => Reports(c)'
    BY <1>1, <2>1, TokensType DEF Tokens, Reported, Reports
  <2> HIDE DEF Tokens
  <2>3. Quiet(c)
    BY <1>1, <2>2 DEF Quiet
  <2>4. Embeds /\ Story(c) => Story(c)'
    BY <2>3, QuietKeeps
  <2> QED
    BY <1>3, <2>2, <2>4 DEF Told, Excused
<1> QED
  BY <1>4, <1>5

-----------------------------------------------------------------------------
(* What the backend reads                                                  *)

\* The head of a connection is taken: a prompt it asked for is asked for once
\* less, nothing new is named, and reports stay behind their injections.
LEMMA HeadTaken ==
  ASSUME TypeOK, NEW h \in Connections, up[h] # <<>>, up' = [up EXCEPT ![h] = Tail(@)],
         NEW c \in Ids
  PROVE  LET f == Head(up[h])
         IN  /\ Count(up'["live"], Asks(c)) + Count(up'["left"], Asks(c))
                  = Count(up["live"], Asks(c)) + Count(up["left"], Asks(c))
                    - (IF f \in Asks(c) THEN 1 ELSE 0)
             /\ Reported(c)' => Reported(c)
             /\ f.id = c => Reported(c)
             /\ Paired(up["live"], c) /\ Paired(up["left"], c) =>
                   /\ f # Frame("fired", c)
                   /\ f # Frame("inject", c) => Paired(up'["live"], c) /\ Paired(up'["left"], c)
<1> DEFINE f == Head(up[h])
           other == IF h = "live" THEN "left" ELSE "live"
<1>1. /\ up \in [Connections -> Seq(UpFrames)] /\ h \in {"live", "left"} /\ other \in Connections
      /\ up[h] \in Seq(UpFrames) /\ up[other] \in Seq(UpFrames)
  BY DEF TypeOK, Connections
<1>2. up'[h] = Tail(up[h]) /\ up'[other] = up[other]
  BY <1>1
<1>3. Count(Tail(up[h]), Asks(c)) = Count(up[h], Asks(c)) - (IF f \in Asks(c) THEN 1 ELSE 0)
  BY <1>1, CountTail
<1>4. Count(up["live"], Asks(c)) \in Nat /\ Count(up["left"], Asks(c)) \in Nat
  BY TokensType
<1>5. Names(Tail(up[h]), c) \/ f.id = c => Names(up[h], c)
  BY <1>1, NamesPart
<1>6. Paired(up[h], c) => /\ f # Frame("fired", c)
                          /\ f # Frame("inject", c) => Paired(Tail(up[h]), c)
  BY <1>1, PairedTail
<1> HIDE DEF f
<1>7. CASE h = "live"
  <2>1. other = "left"
    BY <1>7
  <2>2. Count(up'["live"], Asks(c)) + Count(up'["left"], Asks(c))
                  = Count(up["live"], Asks(c)) + Count(up["left"], Asks(c))
                    - (IF f \in Asks(c) THEN 1 ELSE 0)
    BY <1>2, <1>3, <1>4, <1>7, <2>1
  <2> QED
    BY <1>2, <1>5, <1>6, <1>7, <2>1, <2>2 DEF Reported, f
<1>8. CASE h = "left"
  <2>1. other = "live"
    BY <1>8
  <2>2. Count(up'["live"], Asks(c)) + Count(up'["left"], Asks(c))
                  = Count(up["live"], Asks(c)) + Count(up["left"], Asks(c))
                    - (IF f \in Asks(c) THEN 1 ELSE 0)
    BY <1>2, <1>3, <1>4, <1>8, <2>1
  <2> QED
    BY <1>2, <1>5, <1>6, <1>8, <2>1, <2>2 DEF Reported, f
<1> QED
  BY <1>1, <1>7, <1>8

\* A row is marked fired or dropped on the word of the launcher: it had a
\* claim on the prompt, or the row was over already.
LEMMA MarkedTold ==
  ASSUME TypeOK, TypeOK', NEW c \in Ids, Embeds, Story(c), Reported(c),
         claimed' = claimed, armed' = armed,
         row'[c] \in Over, Tokens(c)' <= Tokens(c), Tokens(c)' \in Nat,
         row'[c] = "dropped" => Tokens(c)' = 0
  PROVE  Story(c)'
<1>1. c \in claimed \/ row[c] \in Over
  BY DEF Story
<1>2. Tokens(c) <= 1 /\ Tokens(c) \in Nat
  BY TokensType DEF Story
<1> HIDE DEF Tokens
<1>3. IF c \in claimed THEN Shrink(c) ELSE NoList(c) /\ ~HasId(armed, c)
  <2>1. CASE c \in claimed
    <3>1. row[c] \in {"scheduled"} \cup Over
      BY <2>1 DEF Story, TypeOK, Statuses, Over
    <3>2. AllLists(c) => Shrink(c)
      BY DEF AllLists, Shrink
    <3> QED
      BY <2>1, <3>1, <3>2 DEF Story
  <2>2. CASE c \notin claimed
    BY <1>1, <2>2 DEF Story
  <2> QED
    BY <2>1, <2>2
<1>4. (row[c] \in Over => IF c \in claimed THEN Shrink(c) ELSE NoList(c) /\ ~HasId(armed, c))'
  <2>1. c \in claimed => Shrink(c)'
    BY <1>3, EmbedKeeps
  <2>2. c \notin claimed => NoList(c)' /\ ~HasId(armed, c)
    BY <1>3, EmbedKeeps
  <2> QED
    BY <2>1, <2>2 DEF HasId, Over
<1>5. row'[c] \notin {"none", "pending", "scheduled"}
  BY DEF Over
<1>6. c \in claimed => ~HasId(armed, c)
  BY DEF Story
<1> QED
  BY <1>2, <1>4, <1>5, <1>6 DEF Story, HasId, Over

\* A frame from the launcher is read, or its handler fails.
LEMMA TakeUpTold ==
  ASSUME TypeOK, TypeOK', ListsOnce, NEW h \in Connections, TakeUp(h) \/ HandlerFails(h)
  PROVE  ListsOnce' /\ \A c \in Ids : Told(c)
<1> DEFINE f == Head(up[h])
<1>1. up[h] # <<>> /\ up' = [up EXCEPT ![h] = Tail(@)]
  BY DEF TakeUp, HandlerFails, Ready
<1>2. /\ f \in UpFrames /\ f.id \in Ids /\ f.kind \in {"inject", "fired", "launch"}
      /\ f = Frame(f.kind, f.id)
  <2>1. f \in UpFrames
    BY <1>1, HeadUp
  <2> QED
    BY <2>1 DEF UpFrames, Frame
<1>3. UNCHANGED <<loaded, armed, claimed, queue, misled>>
  BY DEF TakeUp, HandlerFails, syncs, scheduler, supervisor
<1> HIDE DEF f
<1>4. \/ Inject(f.id) /\ f.kind = "inject"
      \/ MarkTerminal(h, f.id, "fired") /\ f.kind = "fired"
      \/ MarkTerminal(h, f.id, "dropped") /\ f.kind = "launch"
      \/ /\ f.kind = "launch" /\ SendDown(Frame("launch", f.id))
         /\ cause' = (IF link = "up" THEN cause ELSE Blame("lost", {f.id}))
         /\ UNCHANGED <<row, injected>>
      \/ /\ UNCHANGED <<row, down, injected>>
         /\ cause' = Blame(IF f.kind = "inject" THEN "unstored" ELSE "lost", {f.id})
  <2>1. CASE HandlerFails(h)
    <3>1. /\ UNCHANGED <<row, down, injected>>
          /\ cause' = Blame(IF f.kind = "inject" THEN "unstored" ELSE "lost", {f.id})
      BY <2>1 DEF HandlerFails, database, f
    <3> QED
      BY <3>1
  <2>2. CASE TakeUp(h)
    <3>1. CASE f.kind = "inject"
      <4>1. Inject(f.id)
        BY <2>2, <3>1 DEF TakeUp, f
      <4> QED
        BY <3>1, <4>1
    <3>2. CASE f.kind = "fired"
      <4>1. MarkTerminal(h, f.id, "fired")
        BY <2>2, <3>2 DEF TakeUp, f
      <4> QED
        BY <3>2, <4>1
    <3>3. CASE f.kind = "launch"
      <4>1. RequestLaunch(h, f.id)
        BY <2>2, <3>3 DEF TakeUp, f
      <4> QED
        BY <3>3, <4>1 DEF RequestLaunch
    <3> QED
      BY <1>2, <3>1, <3>2, <3>3
  <2> QED
    BY <2>1, <2>2
<1>5. Embeds
  <2>1. CASE down' = down
    <3>1. Len(loaded') = Len(loaded) /\ \A k \in 1..Len(loaded) : loaded'[k].configs = loaded[k].configs
      BY <1>3
    <3> QED
      BY <2>1, <3>1, EmbedSame
  <2>2. CASE down' = Append(down, Frame("launch", f.id))
    BY <1>2, <1>3, <2>2, EmbedLaunch
  <2> QED
    BY <1>4, <2>1, <2>2 DEF Inject, MarkTerminal, SendDown
<1>6. ListsOnce'
  BY <1>3, <1>5, ArmedOnce
<1>7. "lost" \in Causes /\ "unstored" \in Causes
  BY DEF Causes
<1>8. ASSUME NEW c \in Ids PROVE Told(c)
  <2> DEFINE live == Count(up["live"], Asks(c))
             left == Count(up["left"], Asks(c))
             live1 == Count(up'["live"], Asks(c))
             left1 == Count(up'["left"], Asks(c))
             launch == Count(down, Launch(c))
             launch1 == Count(down', Launch(c))
             queued == Count(queue, DeliveriesOf(c))
  <2>1. /\ live1 + left1 = live + left - (IF f \in Asks(c) THEN 1 ELSE 0)
        /\ Reported(c)' => Reported(c)
        /\ f.id = c => Reported(c)
        /\ Paired(up["live"], c) /\ Paired(up["left"], c) =>
              /\ f # Frame("fired", c)
              /\ f # Frame("inject", c) => Paired(up'["live"], c) /\ Paired(up'["left"], c)
    BY <1>1, HeadTaken DEF f
  <2>2. /\ live \in Nat /\ left \in Nat /\ launch \in Nat /\ queued \in Nat /\ injected[c] \in Nat
        /\ Tokens(c) \in Nat
    BY TokensType
  <2>3. /\ live1 \in Nat /\ left1 \in Nat /\ launch1 \in Nat /\ injected'[c] \in Nat /\ Tokens(c)' \in Nat
    BY TokensTypeNext
  <2>4. /\ Tokens(c) = queued + live + left + launch + injected[c]
        /\ Tokens(c)' = queued + live1 + left1 + launch1 + injected'[c]
    BY <1>3 DEF Tokens
  <2>5. /\ f.kind = "fired" \/ f.id # c => f \notin Asks(c)
        /\ f.kind \in {"inject", "launch"} /\ f.id = c => f \in Asks(c)
    BY <1>2 DEF Asks, Frame
  <2> HIDE DEF live, left, live1, left1, launch, launch1, queued, Tokens
  <2>6. CASE Inject(f.id) /\ f.kind = "inject"
    <3>1. /\ injected' = [injected EXCEPT ![f.id] = IF @ < 2 THEN @ + 1 ELSE @]
          /\ row' = row /\ down' = down /\ cause' = cause
      BY <2>6 DEF Inject
    <3>2. launch1 = launch
      BY <3>1 DEF launch1, launch
    <3>3. /\ f.id = c => injected'[c] = (IF injected[c] < 2 THEN injected[c] + 1 ELSE injected[c])
          /\ f.id # c => injected'[c] = injected[c]
      BY <1>2, <3>1 DEF TypeOK
    <3>4. Tokens(c)' <= Tokens(c)
      <4>1. CASE f.id = c
        BY <2>1, <2>2, <2>3, <2>4, <2>5, <2>6, <3>2, <3>3, <4>1
      <4>2. CASE f.id # c
        BY <2>1, <2>2, <2>3, <2>4, <2>5, <3>2, <3>3, <4>2
      <4> QED
        BY <4>1, <4>2
    <3>5. Quiet(c)
      BY <1>3, <2>1, <3>1, <3>4 DEF Quiet
    <3>6. Story(c) => Story(c)'
      BY <1>5, <3>5, QuietKeeps
    <3>7. Reports(c) => Reports(c)'
      <4>1. CASE f.id = c
        <5>1. injected'[c] > 0
          BY <2>2, <3>3, <4>1
        <5> QED
          BY <5>1 DEF Reports
      <4>2. CASE f.id # c
        <5>1. f # Frame("inject", c) /\ injected'[c] = injected[c]
          BY <1>2, <3>3, <4>2 DEF Frame
        <5> QED
          BY <2>1, <3>1, <5>1 DEF Reports
      <4> QED
        BY <4>1, <4>2
    <3> QED
      BY <3>6, <3>7 DEF Told
  <2>7. ASSUME NEW status \in {"fired", "dropped"}, MarkTerminal(h, f.id, status),
               \/ f.kind = "fired" /\ status = "fired"
               \/ f.kind = "launch" /\ status = "dropped"
        PROVE  Told(c)
    <3>1. /\ row' = [row EXCEPT ![f.id] = status]
          /\ injected' = injected /\ down' = down /\ cause' = cause
      BY <2>7 DEF MarkTerminal
    <3>2. launch1 = launch
      BY <3>1 DEF launch1, launch
    <3>3. /\ f.id = c => row'[c] = status
          /\ f.id # c => row'[c] = row[c]
      BY <1>2, <3>1 DEF TypeOK
    <3>4. Tokens(c)' <= Tokens(c)
      BY <2>1, <2>2, <2>3, <2>4, <3>1, <3>2
    <3>5. Story(c) => Story(c)'
      <4>1. CASE f.id = c
        <5> SUFFICES ASSUME Story(c) PROVE Story(c)'
          OBVIOUS
        <5>1. Tokens(c) <= 1
          BY DEF Story
        <5>2. row'[c] = "dropped" => Tokens(c)' = 0
          <6> SUFFICES ASSUME row'[c] = "dropped" PROVE Tokens(c)' = 0
            OBVIOUS
          <6>1. f \in Asks(c)
            BY <2>5, <2>7, <3>3, <4>1
          <6>2. live1 + left1 = live + left - 1
            BY <2>1, <6>1
          <6>3. injected'[c] = injected[c]
            BY <3>1
          <6>4. Tokens(c)' = Tokens(c) - 1
            BY <2>2, <2>3, <2>4, <3>2, <6>2, <6>3
          <6> QED
            BY <2>2, <2>3, <5>1, <6>4
        <5>3. Reported(c) /\ row'[c] \in Over /\ claimed' = claimed /\ armed' = armed
          BY <1>3, <2>1, <3>3, <4>1 DEF Over
        <5> QED
          BY <1>5, <2>3, <3>4, <5>2, <5>3, MarkedTold
      <4>2. CASE f.id # c
        <5>1. Quiet(c)
          BY <1>3, <2>1, <3>3, <3>4, <4>2 DEF Quiet
        <5> QED
          BY <1>5, <5>1, QuietKeeps
      <4> QED
        BY <4>1, <4>2
    <3>6. Reports(c) => Reports(c)'
      <4> SUFFICES ASSUME Reports(c), ~(injected[c] > 0 \/ "unstored" \in cause[c])
                   PROVE  Reports(c)'
        BY <3>1 DEF Reports
      <4>1. row[c] # "fired" /\ Paired(up["live"], c) /\ Paired(up["left"], c)
        BY DEF Reports
      <4>2. f # Frame("fired", c) /\ f # Frame("inject", c)
        BY <1>2, <2>1, <2>7, <4>1 DEF Frame
      <4>3. row'[c] # "fired"
        BY <1>2, <2>7, <3>3, <4>1, <4>2
      <4> QED
        BY <2>1, <4>1, <4>2, <4>3 DEF Reports
    <3> QED
      BY <3>5, <3>6 DEF Told
  <2>8. CASE /\ f.kind = "launch" /\ SendDown(Frame("launch", f.id))
             /\ cause' = (IF link = "up" THEN cause ELSE Blame("lost", {f.id}))
             /\ UNCHANGED <<row, injected>>
    <3> DEFINE frame == Frame("launch", f.id)
    <3>1. /\ frame \in DownFrames
          /\ frame \in Launch(c) => f.id = c
      BY <1>2 DEF Frame, DownFrames, Launch
    <3> HIDE DEF frame
    <3>2. down' = Append(down, frame) \/ down' = down
      BY <2>8 DEF SendDown, frame
    <3>3. launch1 <= launch + (IF f.id = c THEN 1 ELSE 0)
      <4>1. Count(Append(down, frame), Launch(c)) = launch + (IF frame \in Launch(c) THEN 1 ELSE 0)
        BY <3>1, CountAppend DEF TypeOK, launch
      <4>2. CASE down' = down
        <5>1. launch1 = launch
          BY <4>2 DEF launch1, launch
        <5> QED
          BY <2>2, <5>1
      <4>3. CASE down' = Append(down, frame)
        <5>1. launch1 = launch + (IF frame \in Launch(c) THEN 1 ELSE 0)
          BY <4>1, <4>3 DEF launch1
        <5> QED
          BY <2>2, <3>1, <5>1
      <4> QED
        BY <3>2, <4>2, <4>3
    <3>4. Tokens(c)' <= Tokens(c)
      <4>1. CASE f.id = c
        <5>1. f \in Asks(c) /\ injected' = injected
          BY <2>5, <2>8, <4>1
        <5>2. launch1 <= launch + 1 /\ live1 + left1 = live + left - 1
          BY <2>1, <3>3, <4>1, <5>1
        <5> QED
          BY <2>2, <2>3, <2>4, <5>1, <5>2
      <4>2. CASE f.id # c
        <5>1. f \notin Asks(c) /\ injected' = injected
          BY <2>5, <2>8, <4>2
        <5>2. launch1 <= launch + 0 /\ live1 + left1 = live + left - 0
          BY <2>1, <3>3, <4>2, <5>1
        <5> QED
          BY <2>2, <2>3, <2>4, <5>1, <5>2
      <4> QED
        BY <4>1, <4>2
    <3>5. Quiet(c)
      BY <1>3, <2>1, <2>8, <3>4 DEF Quiet
    <3>6. Story(c) => Story(c)'
      BY <1>5, <3>5, QuietKeeps
    <3>7. cause[c] \subseteq cause'[c]
      BY <1>7, <2>8, BlameGrows
    <3>8. Reports(c) => Reports(c)'
      <4>1. f # Frame("inject", c)
        BY <2>8 DEF Frame
      <4> QED
        BY <2>1, <2>8, <3>7, <4>1 DEF Reports
    <3> QED
      BY <3>6, <3>8 DEF Told
  <2>9. CASE /\ UNCHANGED <<row, down, injected>>
             /\ cause' = Blame(IF f.kind = "inject" THEN "unstored" ELSE "lost", {f.id})
    <3>1. launch1 = launch
      BY <2>9 DEF launch1, launch
    <3>2. Tokens(c)' <= Tokens(c)
      BY <2>1, <2>2, <2>3, <2>4, <2>9, <3>1
    <3>3. Quiet(c)
      BY <1>3, <2>1, <2>9, <3>2 DEF Quiet
    <3>4. Story(c) => Story(c)'
      BY <1>5, <3>3, QuietKeeps
    <3>5. /\ cause[c] \subseteq cause'[c]
          /\ f = Frame("inject", c) => "unstored" \in cause'[c]
      <4>1. CASE f.kind = "inject"
        <5>1. cause' = Blame("unstored", {f.id})
          BY <2>9, <4>1
        <5>2. cause[c] \subseteq cause'[c] /\ (c \in {f.id} => "unstored" \in cause'[c])
          BY <1>7, <5>1, BlameGrows
        <5> QED
          BY <5>2 DEF Frame
      <4>2. CASE f.kind # "inject"
        <5>1. cause' = Blame("lost", {f.id})
          BY <2>9, <4>2
        <5>2. cause[c] \subseteq cause'[c]
          BY <1>7, <5>1, BlameGrows
        <5> QED
          BY <4>2, <5>2 DEF Frame
      <4> QED
        BY <4>1, <4>2
    <3>6. Reports(c) => Reports(c)'
      BY <2>1, <2>9, <3>5 DEF Reports
    <3> QED
      BY <3>4, <3>6 DEF Told
  <2>10. CASE MarkTerminal(h, f.id, "fired") /\ f.kind = "fired"
    BY <2>7, <2>10
  <2>11. CASE MarkTerminal(h, f.id, "dropped") /\ f.kind = "launch"
    BY <2>7, <2>11
  <2> QED
    BY <1>4, <2>6, <2>8, <2>9, <2>10, <2>11
<1> QED
  BY <1>6, <1>8

-----------------------------------------------------------------------------
(* What the launcher does                                                  *)

\* A flush adds to the tokens what it delivers besides the queue.
LEMMA FlushCounts ==
  ASSUME TypeOK, TypeOK', NEW work \in Seq(Deliveries), FlushedWell(work), NEW c \in Ids,
         row' = row, injected' = injected, NEW more \in Nat,
         Count(work, DeliveriesOf(c)) = Count(queue, DeliveriesOf(c)) + more,
         Count(down', Launch(c)) <= Count(down, Launch(c))
  PROVE  /\ Tokens(c)' <= Tokens(c) + more
         /\ Reported(c)' => Reported(c) \/ Tokens(c) > 0 \/ more > 0
         /\ Reports(c) => Reports(c)'
<1> DEFINE live == Count(up["live"], Asks(c))
           left == Count(up["left"], Asks(c))
           live1 == Count(up'["live"], Asks(c))
           left1 == Count(up'["left"], Asks(c))
           launch == Count(down, Launch(c))
           launch1 == Count(down', Launch(c))
           queued == Count(queue, DeliveriesOf(c))
           queued1 == Count(queue', DeliveriesOf(c))
<1>1. /\ live \in Nat /\ left \in Nat /\ launch \in Nat /\ queued \in Nat /\ injected[c] \in Nat
      /\ Tokens(c) \in Nat
  BY TokensType
<1>2. /\ live1 \in Nat /\ left1 \in Nat /\ launch1 \in Nat /\ queued1 \in Nat /\ injected'[c] \in Nat
      /\ Tokens(c)' \in Nat
  BY TokensTypeNext
<1>3. /\ Tokens(c) = queued + live + left + launch + injected[c]
      /\ Tokens(c)' = queued1 + live1 + left1 + launch1 + injected'[c]
      /\ injected'[c] = injected[c]
  BY DEF Tokens
<1>4. /\ up'["left"] = up["left"]
      /\ cause[c] \subseteq cause'[c]
      /\ queued1 + live1 <= Count(work, DeliveriesOf(c)) + live
      /\ Names(up'["live"], c) => Names(up["live"], c) \/ Count(work, DeliveriesOf(c)) > 0
      /\ Paired(up["live"], c) => Paired(up'["live"], c)
  BY DEF FlushedWell
<1>5. queued1 + live1 <= queued + more + live /\ launch1 <= launch
  BY <1>4
<1>6. left1 = left
  BY <1>4
<1> HIDE DEF live, left, live1, left1, launch, launch1, queued1, Tokens
<1>7. Tokens(c)' <= Tokens(c) + more
  <2> HIDE DEF queued
  <2> QED
    BY <1>1, <1>2, <1>3, <1>5, <1>6
<1>8. Reported(c)' => Reported(c) \/ Tokens(c) > 0 \/ more > 0
  <2>1. Names(up'["live"], c) => Names(up["live"], c) \/ queued + more > 0
    BY <1>4
  <2> HIDE DEF queued
  <2>2. queued + more > 0 => Tokens(c) > 0 \/ more > 0
    BY <1>1, <1>3
  <2> QED
    BY <1>4, <2>1, <2>2 DEF Reported
<1>9. Reports(c) => Reports(c)'
  BY <1>4 DEF Reports
<1> QED
  BY <1>7, <1>8, <1>9

\* The first list the launcher is sent is the one at the first place.
LEMMA FirstPlace ==
  ASSUME TypeOK, down # <<>>, Head(down).kind = "sync"
  PROVE  /\ 1 \in Places /\ List(1) = Head(down).configs
         /\ \A k \in Places : k = 1 \/ 1 < k
<1>1. Len(down) \in Nat \ {0} /\ Len(loaded) \in Nat /\ Head(down) = down[1]
  BY PlaceFacts, EmptySeq, LenProperties, HeadTailProperties DEF TypeOK
<1>2. 1 \in Places /\ List(1) = Head(down).configs
  BY <1>1 DEF Places, List
<1> QED
  BY <1>1, <1>2, PlaceFacts

\* The launcher takes a list, as its own, and flushes its queue by it.
LEMMA TakeSyncTold ==
  ASSUME TypeOK, TypeOK', ListsOnce, TakeSync
  PROVE  ListsOnce' /\ \A c \in Ids : Told(c)
<1> DEFINE configs == Head(down).configs
<1>1. /\ down # <<>> /\ Head(down).kind = "sync" /\ down' = Tail(down)
      /\ claimed' = claimed \cap {config.id : config \in configs}
      /\ armed' = {config \in configs : config.id \notin claimed}
      /\ FlushUp(queue, configs, launches)
      /\ UNCHANGED <<row, loaded, injected, misled>>
  BY DEF TakeSync, database, syncs
<1>2. /\ 1 \in Places /\ List(1) = configs
      /\ \A k \in Places : k = 1 \/ 1 < k
  BY <1>1, FirstPlace
<1>4. queue \in Seq(Deliveries) /\ launches \in SUBSET Ids
  BY DEF TypeOK
<1>5. Flush(queue, configs, launches)
  BY <1>1 DEF Flush
<1> HIDE DEF configs
<1>6. FlushedWell(queue)
  BY <1>4, <1>5, FlushFacts
<1>7. Embeds
  BY <1>1, EmbedTaken
<1>8. ListsOnce'
  <2>1. \A k \in Places' : OneEach(List(k)')
    BY <1>7, EmbedKeeps DEF ListsOnce
  <2>2. \A k \in Places' : OneEach(List(k))'
    BY <2>1 DEF OneEach
  <2>3. OneEach(configs)
    BY <1>2 DEF ListsOnce
  <2>4. OneEach(armed)'
    BY <1>1, <2>3 DEF OneEach
  <2> QED
    BY <2>2, <2>4 DEF ListsOnce
<1>9. ASSUME NEW c \in Ids PROVE Told(c)
  <2>1. Count(down', Launch(c)) <= Count(down, Launch(c))
    <3>1. Head(down) \notin Launch(c)
      BY <1>1 DEF Launch, Frame
    <3>2. Count(Tail(down), Launch(c)) = Count(down, Launch(c)) - 0
      BY <1>1, <3>1, CountTail DEF TypeOK
    <3>3. Count(down, Launch(c)) \in Nat
      BY TokensType
    <3> QED
      BY <1>1, <3>2, <3>3
  <2>2. Count(queue, DeliveriesOf(c)) = Count(queue, DeliveriesOf(c)) + 0 /\ 0 \in Nat
    BY TokensType
  <2>3. /\ Tokens(c)' <= Tokens(c) + 0
        /\ Reported(c)' => Reported(c) \/ Tokens(c) > 0 \/ 0 > 0
        /\ Reports(c) => Reports(c)'
    BY <1>1, <1>4, <1>6, <2>1, <2>2, FlushCounts
  <2>4. Tokens(c) \in Nat /\ Tokens(c)' \in Nat
    BY TokensType, TokensTypeNext
  <2> HIDE DEF Tokens
  <2>5. /\ Tokens(c)' <= Tokens(c)
        /\ Reported(c)' => Reported(c) \/ Tokens(c) > 0
    BY <2>3, <2>4
  <2>6. /\ c \in claimed' <=> c \in claimed /\ HasId(configs, c)
        /\ HasId(armed', c) <=> c \notin claimed /\ HasId(configs, c)
    BY <1>1 DEF HasId
  <2>7. Listed(1, c) <=> HasId(configs, c)
    BY <1>2 DEF Listed
  <2>8. /\ NoList(c) => NoList(c)'
        /\ AllLists(c) => AllLists(c)'
        /\ Grow(c) => Grow(c)'
    BY <1>7, EmbedKeeps
  <2> SUFFICES ASSUME Story(c) PROVE Story(c)'
    BY <2>3 DEF Told
  <2>9. Tokens(c)' <= 1 /\ (row[c] = "dropped" => Tokens(c)' = 0)
    BY <2>4, <2>5 DEF Story
  <2>10. CASE (c \in claimed /\ HasId(configs, c)) \/ (c \notin claimed /\ ~HasId(configs, c))
    <3>1. (c \in claimed' <=> c \in claimed) /\ ~HasId(armed', c)
      BY <2>6, <2>10
    <3>2. Quiet(c)
      BY <1>1, <2>5, <3>1 DEF Quiet
    <3> QED
      BY <1>7, <3>2, QuietKeeps
  <2>11. CASE c \notin claimed /\ HasId(configs, c)
    <3>1. ~NoList(c)
      BY <1>2, <2>7, <2>11 DEF NoList
    <3>2. row[c] = "scheduled"
      <4>1. row[c] \in {"none", "pending", "scheduled"} \cup Over
        BY DEF TypeOK, Statuses, Over
      <4> QED
        BY <2>11, <3>1, <4>1 DEF Story
    <3>3. Grow(c)
      BY <3>2 DEF Story
    <3>4. AllLists(c)
      BY <1>2, <2>7, <2>11, <3>3 DEF Grow, AllLists
    <3>5. Grow(c)' /\ AllLists(c)'
      BY <2>8, <3>3, <3>4
    <3>6. Tokens(c) = 0 /\ ~Reported(c)
      BY <2>4, <2>11, <3>2 DEF Story, Over
    <3>7. Tokens(c)' = 0 /\ ~Reported(c)'
      BY <2>4, <2>5, <3>6
    <3>8. c \notin claimed' /\ row'[c] = "scheduled"
      BY <1>1, <2>6, <2>11, <3>2
    <3> QED
      BY <3>5, <3>7, <3>8 DEF Story, Over
  <2>12. CASE c \in claimed /\ ~HasId(configs, c)
    <3>1. ~AllLists(c)
      BY <1>2, <2>7, <2>12 DEF AllLists
    <3>2. row[c] \in Over
      <4>1. row[c] \in {"none", "pending", "scheduled"} \cup Over
        BY DEF TypeOK, Statuses, Over
      <4> QED
        BY <2>12, <3>1, <4>1 DEF Story
    <3>3. Shrink(c)
      BY <2>12, <3>2 DEF Story
    <3>4. NoList(c)
      BY <1>2, <2>7, <2>12, <3>3 DEF Shrink, NoList
    <3>5. NoList(c)' /\ c \notin claimed' /\ ~HasId(armed', c)
      BY <2>6, <2>8, <2>12, <3>4
    <3>6. row'[c] \in Over /\ row'[c] \notin {"none", "pending", "scheduled"}
          /\ (row'[c] = "dropped" => Tokens(c)' = 0)
      BY <1>1, <2>9, <3>2 DEF Over
    <3> QED
      BY <2>9, <3>5, <3>6 DEF Story, HasId, Over
  <2> QED
    BY <2>10, <2>11, <2>12
<1> QED
  BY <1>8, <1>9

\* The frames of a launch are as those of a delivery.
LEMMA LaunchedPair ==
  ASSUME NEW d \in Ids, NEW c \in Ids
  PROVE  LET pair == <<Frame("inject", d), Frame("fired", d)>>
         IN  /\ pair \in Seq(UpFrames)
             /\ Count(pair, Asks(c)) <= IF d = c THEN 1 ELSE 0
             /\ Paired(pair, c)
             /\ Names(pair, c) => d = c
<1> DEFINE pair == <<Frame("inject", d), Frame("fired", d)>>
           config == [id |-> d, edit |-> 0]
           delivery == [config |-> config, kind |-> "inject"]
<1>1. delivery \in Deliveries /\ (delivery \in DeliveriesOf(c) <=> d = c)
  BY BoundsAssumption DEF Deliveries, DeliveriesOf, Configs
<1>2. FlushedAs(delivery, {config}) = pair
  BY DEF FlushedAs, FramesOf, Authorized
<1> HIDE DEF pair, delivery, config
<1>3. pair \in Seq(UpFrames)
  BY <1>1, <1>2, FlushedType
<1>4. /\ Count(pair, Asks(c)) <= IF delivery \in DeliveriesOf(c) THEN 1 ELSE 0
      /\ Paired(pair, c)
      /\ Names(pair, c) => delivery \in DeliveriesOf(c)
  BY <1>1, <1>2, FlushedOnce
<1> QED
  BY <1>1, <1>3, <1>4 DEF pair

\* The launcher launches the session, which injects the prompt if it still
\* knows the launch as a continuation's; or it fails to.
LEMMA TakeLaunchTold ==
  ASSUME TypeOK, TypeOK', ListsOnce, TakeLaunch
  PROVE  ListsOnce' /\ \A c \in Ids : Told(c)
<1> DEFINE d == Head(down).id
           pair == <<Frame("inject", d), Frame("fired", d)>>
<1>1. /\ down # <<>> /\ Head(down).kind = "launch" /\ down' = Tail(down)
      /\ UNCHANGED <<row, loaded, armed, claimed, queue, injected, misled>>
      /\ Spawn(d) \/ SpawnFails(d)
  BY DEF TakeLaunch, database, syncs, supervisor
<1>2. d \in Ids /\ Head(down) = Frame("launch", d)
  BY <1>1, HeadDown
<1>3. up' = [up EXCEPT !["live"] = @ \o pair] \/ up' = up
  BY <1>1 DEF Spawn, SpawnFails
<1>4. \A c \in Ids : cause[c] \subseteq cause'[c]
  <2>1. "unspawned" \in Causes
    BY DEF Causes
  <2>2. cause' = cause \/ cause' = Blame("unspawned", {d})
    BY <1>1 DEF Spawn, SpawnFails
  <2>3. CASE cause' = cause
    BY <2>3
  <2>4. CASE cause' = Blame("unspawned", {d})
    BY <2>1, <2>4, BlameGrows
  <2> QED
    BY <2>2, <2>3, <2>4
<1> HIDE DEF d
<1>5. Embeds
  BY <1>1, EmbedTaken
<1>6. ListsOnce'
  BY <1>1, <1>5, ArmedOnce
<1>7. ASSUME NEW c \in Ids PROVE Told(c)
  <2> DEFINE old == up["live"]
             new == up'["live"]
             left == Count(up["left"], Asks(c))
             left1 == Count(up'["left"], Asks(c))
             live == Count(old, Asks(c))
             live1 == Count(new, Asks(c))
             launch == Count(down, Launch(c))
             launch1 == Count(down', Launch(c))
             queued == Count(queue, DeliveriesOf(c))
  <2>1. /\ pair \in Seq(UpFrames)
        /\ Count(pair, Asks(c)) <= IF d = c THEN 1 ELSE 0
        /\ Paired(pair, c)
        /\ Names(pair, c) => d = c
    BY <1>2, LaunchedPair
  <2>2. launch1 = launch - (IF d = c THEN 1 ELSE 0)
    <3>1. Head(down) \in Launch(c) <=> d = c
      BY <1>2 DEF Launch, Frame
    <3>2. Count(Tail(down), Launch(c)) = launch - (IF Head(down) \in Launch(c) THEN 1 ELSE 0)
      BY <1>1, CountTail DEF TypeOK
    <3> QED
      BY <1>1, <3>1, <3>2
  <2> HIDE DEF pair
  <2>3. /\ old \in Seq(UpFrames) /\ up["left"] \in Seq(UpFrames)
        /\ up \in [Connections -> Seq(UpFrames)] /\ "live" \in Connections
    BY DEF TypeOK, Connections
  <2>4. up'["left"] = up["left"] /\ (new = old \o pair \/ new = old)
    BY <1>3, <2>3 DEF Connections
  <2>5. Count(pair, Asks(c)) \in Nat
    BY <2>1, CountType
  <2>6. Count(old \o pair, Asks(c)) = live + Count(pair, Asks(c))
    BY <2>1, <2>3, CountConcat
  <2>7. /\ live \in Nat /\ left \in Nat /\ launch \in Nat /\ queued \in Nat /\ injected[c] \in Nat
        /\ Tokens(c) \in Nat
    BY TokensType
  <2>8. /\ live1 \in Nat /\ left1 \in Nat /\ launch1 \in Nat /\ injected'[c] \in Nat /\ Tokens(c)' \in Nat
    BY TokensTypeNext
  <2>9. /\ Tokens(c) = queued + live + left + launch + injected[c]
        /\ Tokens(c)' = queued + live1 + left1 + launch1 + injected'[c]
        /\ injected'[c] = injected[c]
    BY <1>1 DEF Tokens
  <2>10. left1 = left
    BY <2>4
  <2>11. live1 <= live + (IF d = c THEN 1 ELSE 0)
    <3>1. CASE new = old
      BY <2>7, <3>1
    <3>2. CASE new = old \o pair
      BY <2>1, <2>5, <2>6, <2>7, <3>2
    <3> QED
      BY <2>4, <3>1, <3>2
  <2>12. Names(new, c) => Names(old, c) \/ d = c
    <3>1. Names(old \o pair, c) => Names(old, c) \/ Names(pair, c)
      BY <2>1, <2>3, NamesConcat
    <3> QED
      BY <2>1, <2>4, <3>1
  <2>13. Paired(old, c) => Paired(new, c)
    <3>1. Paired(old, c) => Paired(old \o pair, c)
      BY <2>1, <2>3, PairedConcat
    <3> QED
      BY <2>4, <3>1
  <2> HIDE DEF live, left, live1, left1, launch, launch1, queued, Tokens
  <2>14. Tokens(c)' <= Tokens(c)
    <3>1. CASE d = c
      BY <2>2, <2>7, <2>8, <2>9, <2>10, <2>11, <3>1
    <3>2. CASE d # c
      BY <2>2, <2>7, <2>8, <2>9, <2>10, <2>11, <3>2
    <3> QED
      BY <3>1, <3>2
  <2>15. Reported(c)' => Reported(c) \/ Tokens(c) > 0
    <3>1. d = c => Tokens(c) > 0
      BY <2>2, <2>7, <2>8, <2>9
    <3> QED
      BY <2>4, <2>12, <3>1 DEF Reported
  <2>16. Quiet(c)
    BY <1>1, <2>14, <2>15 DEF Quiet
  <2>17. Story(c) => Story(c)'
    BY <1>5, <2>16, QuietKeeps
  <2>18. Reports(c) => Reports(c)'
    BY <1>1, <1>4, <2>4, <2>13 DEF Reports
  <2> QED
    BY <2>17, <2>18 DEF Told
<1> QED
  BY <1>6, <1>7

\* What is due is delivered once.
LEMMA DueOnce ==
  ASSUME TypeOK, OneEach(armed), NEW configs \in SUBSET armed, NEW order \in SetToSeqs(configs),
         NEW kind \in {"inject", "launch"}, NEW c \in Ids
  PROVE  Count(WorkOf(order, kind), DeliveriesOf(c)) <= IF HasId(configs, c) THEN 1 ELSE 0
<1> DEFINE work == WorkOf(order, kind)
<1>1. configs \in SUBSET Configs
  BY DEF TypeOK
<1>2. /\ order \in Seq(configs)
      /\ \A i, j \in 1..Len(order) : order[i] = order[j] => i = j
  BY <1>1, OrderOnce
<1>3. /\ Len(order) \in Nat /\ DOMAIN order = 1..Len(order)
      /\ \A k \in 1..Len(order) : order[k] \in configs
  BY <1>2, LenProperties, ElementOfSeq
<1>4. work \in Seq(Deliveries) /\ Len(work) = Len(order)
  BY DueWork
<1>5. \A k \in 1..Len(work) : work[k] = [config |-> order[k], kind |-> kind]
  BY <1>3, <1>4 DEF WorkOf
<1> HIDE DEF work
<1>6. \A k \in 1..Len(work) : work[k] \in DeliveriesOf(c) => order[k].id = c
  <2> SUFFICES ASSUME NEW k \in 1..Len(work), work[k] \in DeliveriesOf(c) PROVE order[k].id = c
    OBVIOUS
  <2>1. work[k].config.id = c
    BY DEF DeliveriesOf
  <2> DEFINE delivery == [config |-> order[k], kind |-> kind]
  <2>2. delivery.config = order[k]
    OBVIOUS
  <2> HIDE DEF delivery
  <2>3. work[k] = delivery
    BY <1>5 DEF delivery
  <2> QED
    BY <2>1, <2>2, <2>3
<1>7. CASE HasId(configs, c)
  <2>1. \A j, k \in 1..Len(work) : work[j] \in DeliveriesOf(c) /\ work[k] \in DeliveriesOf(c) => j = k
    <3> SUFFICES ASSUME NEW j \in 1..Len(work), NEW k \in 1..Len(work),
                        work[j] \in DeliveriesOf(c), work[k] \in DeliveriesOf(c)
                 PROVE  j = k
      OBVIOUS
    <3>1. order[j].id = order[k].id
      BY <1>6
    <3>2. order[j] \in armed /\ order[k] \in armed
      BY <1>3, <1>4
    <3>3. order[j] = order[k]
      BY <3>1, <3>2 DEF OneEach
    <3> QED
      BY <1>2, <1>4, <3>3
  <2>2. Count(work, DeliveriesOf(c)) <= 1
    BY <1>4, <2>1, CountOnce
  <2> QED
    BY <1>7, <2>2 DEF work
<1>8. CASE ~HasId(configs, c)
  <2>1. \A k \in 1..Len(work) : work[k] \notin DeliveriesOf(c)
    BY <1>3, <1>4, <1>6, <1>8 DEF HasId
  <2>2. Count(work, DeliveriesOf(c)) = 0
    BY <2>1, CountNone
  <2> QED
    BY <1>8, <2>2 DEF work
<1> QED
  BY <1>7, <1>8

\* What is due is claimed, and delivered for the first time.
LEMMA DueTold ==
  ASSUME TypeOK, TypeOK', ListsOnce, NEW configs \in SUBSET armed, Due(configs)
  PROVE  ListsOnce' /\ \A c \in Ids : Told(c)
<1>1. /\ armed' = armed \ configs
      /\ claimed' = claimed \cup {config.id : config \in configs}
      /\ UNCHANGED <<row, down, loaded, injected, misled>>
  BY DueFlushes DEF database, syncs
<1>2. PICK order \in SetToSeqs(configs), kind \in {"inject", "launch"} :
               FlushedWell(queue \o WorkOf(order, kind))
  BY DueFlushes
<1>3. /\ WorkOf(order, kind) \in Seq(Deliveries) /\ queue \in Seq(Deliveries)
      /\ queue \o WorkOf(order, kind) \in Seq(Deliveries)
  BY DueWork DEF TypeOK
<1>4. Embeds
  <2>1. Len(loaded') = Len(loaded) /\ (\A k \in 1..Len(loaded) : loaded'[k].configs = loaded[k].configs)
        /\ down' = down
    BY <1>1
  <2> QED
    BY <2>1, EmbedSame
<1>5. ListsOnce'
  BY <1>1, <1>4, ArmedOnce
<1>6. OneEach(armed)
  BY DEF ListsOnce
<1>7. ASSUME NEW c \in Ids PROVE Told(c)
  <2> DEFINE work == queue \o WorkOf(order, kind)
             more == Count(WorkOf(order, kind), DeliveriesOf(c))
  <2>1. more \in Nat /\ Count(work, DeliveriesOf(c)) = Count(queue, DeliveriesOf(c)) + more
    BY <1>3, CountConcat, CountType
  <2>2. more <= IF HasId(configs, c) THEN 1 ELSE 0
    BY <1>6, DueOnce
  <2>3. Count(down', Launch(c)) <= Count(down, Launch(c))
    BY <1>1, TokensType
  <2>4. work \in Seq(Deliveries) /\ FlushedWell(work) /\ row' = row /\ injected' = injected
    BY <1>1, <1>2, <1>3
  <2> HIDE DEF work, more
  <2>5. /\ Tokens(c)' <= Tokens(c) + more
        /\ Reported(c)' => Reported(c) \/ Tokens(c) > 0 \/ more > 0
        /\ Reports(c) => Reports(c)'
    BY <2>1, <2>3, <2>4, FlushCounts
  <2>6. Tokens(c) \in Nat /\ Tokens(c)' \in Nat
    BY TokensType, TokensTypeNext
  <2> HIDE DEF Tokens
  <2> SUFFICES ASSUME Story(c) PROVE Story(c)'
    BY <2>5 DEF Told
  <2>7. CASE ~HasId(configs, c)
    <3>1. /\ Tokens(c)' <= Tokens(c)
          /\ Reported(c)' => Reported(c) \/ Tokens(c) > 0
      BY <2>1, <2>2, <2>5, <2>6, <2>7
    <3>2. (c \in claimed' <=> c \in claimed) /\ (HasId(armed', c) => HasId(armed, c))
      BY <1>1, <2>7 DEF HasId
    <3>3. Quiet(c)
      BY <1>1, <3>1, <3>2 DEF Quiet
    <3> QED
      BY <1>4, <3>3, QuietKeeps
  <2>8. CASE HasId(configs, c)
    <3>1. PICK x \in configs : x.id = c
      BY <2>8 DEF HasId
    <3>2. HasId(armed, c)
      BY <3>1 DEF HasId
    <3>3. c \in claimed'
      BY <1>1, <3>1
    <3>4. ~HasId(armed', c)
      <4> SUFFICES ASSUME NEW y \in armed', y.id = c PROVE FALSE
        BY DEF HasId
      <4>1. y \in armed /\ y \notin configs
        BY <1>1
      <4>2. x = y
        BY <1>6, <3>1, <4>1 DEF OneEach
      <4> QED
        BY <3>1, <4>1, <4>2
    <3>5. c \notin claimed
      BY <3>2 DEF Story
    <3>6. row[c] = "scheduled"
      <4>1. row[c] \in {"none", "pending", "scheduled"} \cup Over
        BY DEF TypeOK, Statuses, Over
      <4> QED
        BY <3>2, <3>5, <4>1 DEF Story
    <3>7. Grow(c) /\ AllLists(c)
      BY <3>2, <3>6 DEF Story
    <3>8. Grow(c)' /\ AllLists(c)'
      BY <1>4, <3>7, EmbedKeeps
    <3>9. Tokens(c) = 0
      BY <2>6, <3>5, <3>6 DEF Story, Over
    <3>10. Tokens(c)' <= 1
      BY <2>1, <2>2, <2>5, <2>6, <2>8, <3>9
    <3>11. row'[c] = "scheduled"
      BY <1>1, <3>6
    <3> QED
      BY <3>3, <3>4, <3>8, <3>10, <3>11 DEF Story, Over, HasId
  <2> QED
    BY <2>7, <2>8
<1> QED
  BY <1>5, <1>7

-----------------------------------------------------------------------------
(* Lost connections and restarts                                           *)

\* A socket that dies takes tokens with it, and reports with their injections.
LEMMA LoseSocketTold ==
  ASSUME TypeOK, TypeOK', ListsOnce, NEW kept \in 0..Len(up["live"]), LoseSocket(kept),
         row' = row, injected' = injected, armed' \subseteq armed, claimed' \subseteq claimed,
         queue' = queue \/ queue' = <<>>,
         \A c \in Ids : cause[c] \subseteq cause'[c] /\ (c \in claimed /\ c \notin claimed' => Excused(c)')
  PROVE  ListsOnce' /\ \A c \in Ids : Told(c)
<1> DEFINE start == SubSeq(up["live"], 1, kept)
<1>1. /\ up'["live"] = <<>> /\ up'["left"] = start /\ up["left"] = <<>>
      /\ down' = <<>> /\ Len(loaded') = Len(loaded)
      /\ \A k \in 1..Len(loaded) : loaded'[k].configs = loaded[k].configs
  BY LoseSocketTyped
<1>2. Embeds
  BY <1>1, EmbedLost
<1>3. ListsOnce'
  BY <1>2, ArmedOnce
<1>4. ASSUME NEW c \in Ids PROVE Told(c)
  <2> DEFINE live == Count(up["live"], Asks(c))
             left == Count(up["left"], Asks(c))
             left1 == Count(up'["left"], Asks(c))
             launch == Count(down, Launch(c))
             queued == Count(queue, DeliveriesOf(c))
             queued1 == Count(queue', DeliveriesOf(c))
  <2>1. /\ live \in Nat /\ left \in Nat /\ launch \in Nat /\ queued \in Nat /\ injected[c] \in Nat
        /\ Tokens(c) \in Nat
    BY TokensType
  <2>2. up["live"] \in Seq(UpFrames)
    BY DEF TypeOK, Connections
  <2>3. Count(start, Asks(c)) <= live
    <3>1. 1 \in Nat \ {0}
      OBVIOUS
    <3> QED
      BY <2>2, <3>1, CountPart
  <2>4. Names(start, c) => Names(up["live"], c)
    BY <2>2, NamesPart
  <2>5. Paired(up["live"], c) => Paired(start, c)
    BY <2>2, PairedStart
  <2> HIDE DEF start
  <2>6. left1 <= live
    BY <1>1, <2>3
  <2>7. Count(up'["live"], Asks(c)) = 0 /\ Count(down', Launch(c)) = 0
    BY <1>1, CountEmpty
  <2>8. queued1 <= queued
    <3>1. CASE queue' = queue
      <4>1. queued1 = queued
        BY <3>1
      <4> QED
        BY <2>1, <4>1
    <3>2. CASE queue' = <<>>
      <4>1. queued1 = 0
        BY <3>2, CountEmpty
      <4> QED
        BY <2>1, <4>1
    <3> QED
      BY <3>1, <3>2
  <2>9. left1 \in Nat /\ queued1 \in Nat /\ Tokens(c)' \in Nat
    BY TokensTypeNext
  <2>10. /\ Tokens(c) = queued + live + left + launch + injected[c]
         /\ Tokens(c)' = queued1 + 0 + left1 + 0 + injected[c]
    BY <2>7 DEF Tokens
  <2> HIDE DEF live, left, left1, launch, queued, queued1, Tokens
  <2>11. Tokens(c)' <= Tokens(c)
    BY <2>1, <2>6, <2>8, <2>9, <2>10
  <2>12. Reported(c)' => Reported(c)
    BY <1>1, <2>4 DEF Reported, Names
  <2>13. Reports(c) => Reports(c)'
    <3>1. Paired(<<>>, c)
      BY DEF Paired
    <3> QED
      BY <1>1, <2>5, <3>1 DEF Reports
  <2>14. CASE c \in claimed' <=> c \in claimed
    <3>1. HasId(armed', c) => HasId(armed, c)
      BY DEF HasId
    <3>2. Quiet(c)
      BY <2>11, <2>12, <2>14, <3>1 DEF Quiet
    <3>3. Story(c) => Story(c)'
      BY <1>2, <3>2, QuietKeeps
    <3> QED
      BY <2>13, <3>3 DEF Told
  <2>15. CASE ~(c \in claimed' <=> c \in claimed)
    BY <2>13, <2>15 DEF Told
  <2> QED
    BY <2>14, <2>15
<1> QED
  BY <1>3, <1>4

\* The connection breaks.
LEMMA BreaksTold ==
  ASSUME TypeOK, TypeOK', ListsOnce, Breaks
  PROVE  ListsOnce' /\ \A c \in Ids : Told(c)
<1>1. PICK kept \in 0..Len(up["live"]) : LoseSocket(kept) /\ cause' = Blame("lost", LostWith(kept))
  BY DEF Breaks
<1>2. row' = row /\ injected' = injected /\ armed' = armed /\ claimed' = claimed /\ queue' = queue
  BY DEF Breaks, database, scheduler, supervisor
<1>3. "lost" \in Causes
  BY DEF Causes
<1>4. \A c \in Ids : cause[c] \subseteq cause'[c]
  BY <1>1, <1>3, BlameGrows
<1> QED
  BY <1>1, <1>2, <1>4, LoseSocketTold

\* The launcher's daemon dies: what it had claimed may be sent again, and that
\* is the cause.
LEMMA LauncherRestartsTold ==
  ASSUME TypeOK, TypeOK', ListsOnce, LauncherRestarts
  PROVE  ListsOnce' /\ \A c \in Ids : Told(c)
<1>1. /\ row' = row /\ injected' = injected /\ misled' = misled
      /\ armed' = {} /\ claimed' = {} /\ queue' = <<>>
  BY DEF LauncherRestarts, database
<1>2. "lost" \in Causes /\ "restarted" \in Causes
  BY DEF Causes
<1>3. CASE link = "up"
  <2>1. PICK kept \in 0..Len(up["live"]) :
           /\ LoseSocket(kept)
           /\ cause' = [c \in Ids |-> Blame("lost", LostWith(kept))[c]
                                       \cup IF c \in claimed THEN {"restarted"} ELSE {}]
    BY <1>3 DEF LauncherRestarts
  <2> DEFINE blamed == Blame("lost", LostWith(kept))
  <2>2. \A c \in Ids : cause[c] \subseteq blamed[c]
    BY <1>2, BlameGrows
  <2> HIDE DEF blamed
  <2>3. \A c \in Ids : cause'[c] = blamed[c] \cup IF c \in claimed THEN {"restarted"} ELSE {}
    BY <2>1 DEF blamed
  <2>4. \A c \in Ids : cause[c] \subseteq cause'[c] /\ (c \in claimed => "restarted" \in cause'[c])
    BY <2>2, <2>3
  <2>5. \A c \in Ids : cause[c] \subseteq cause'[c] /\ (c \in claimed /\ c \notin claimed' => Excused(c)')
    BY <2>4 DEF Excused
  <2>6. LoseSocket(kept) /\ armed' \subseteq armed /\ claimed' \subseteq claimed
    BY <1>1, <2>1
  <2> QED
    BY <1>1, <2>5, <2>6, LoseSocketTold
<1>4. CASE link # "up"
  <2>1. cause' = Blame("restarted", claimed) /\ up' = up /\ down' = down /\ loaded' = loaded
    BY <1>4 DEF LauncherRestarts, syncs
  <2>2. \A c \in Ids : cause[c] \subseteq cause'[c] /\ (c \in claimed => "restarted" \in cause'[c])
    BY <1>2, <2>1, BlameGrows
  <2>3. Embeds
    <3>1. Len(loaded') = Len(loaded) /\ \A k \in 1..Len(loaded) : loaded'[k].configs = loaded[k].configs
      BY <2>1
    <3> QED
      BY <2>1, <3>1, EmbedSame
  <2>4. ListsOnce'
    BY <1>1, <2>3, ArmedOnce
  <2>5. ASSUME NEW c \in Ids PROVE Told(c)
    <3> DEFINE queued == Count(queue, DeliveriesOf(c))
               rest == Count(up["live"], Asks(c)) + Count(up["left"], Asks(c))
                         + Count(down, Launch(c)) + injected[c]
    <3>1. queued \in Nat /\ rest \in Nat
      BY TokensType
    <3>2. Count(queue', DeliveriesOf(c)) = 0
      BY <1>1, CountEmpty
    <3>3. /\ Count(queue, DeliveriesOf(c)) \in Nat /\ Count(up["live"], Asks(c)) \in Nat
          /\ Count(up["left"], Asks(c)) \in Nat /\ Count(down, Launch(c)) \in Nat
          /\ injected[c] \in Nat
      BY TokensType
    <3>4. Tokens(c) = queued + rest /\ Tokens(c)' = 0 + rest
      BY <1>1, <2>1, <3>2, <3>3 DEF Tokens
    <3> HIDE DEF queued, rest, Tokens
    <3>5. Tokens(c)' <= Tokens(c)
      BY <3>1, <3>4
    <3>6. Reported(c)' => Reported(c)
      BY <2>1 DEF Reported
    <3>7. Reports(c) => Reports(c)'
      BY <1>1, <2>1, <2>2 DEF Reports
    <3>8. CASE c \in claimed
      BY <2>2, <3>7, <3>8 DEF Told, Excused
    <3>9. CASE c \notin claimed
      <4>1. Quiet(c)
        BY <1>1, <3>5, <3>6, <3>9 DEF Quiet, HasId
      <4>2. Story(c) => Story(c)'
        BY <2>3, <4>1, QuietKeeps
      <4> QED
        BY <3>7, <4>2 DEF Told
    <3> QED
      BY <3>8, <3>9
  <2> QED
    BY <2>4, <2>5
<1> QED
  BY <1>3, <1>4

\* The backend dies, with all that was on its way to it or from it.
LEMMA BackendRestartsTold ==
  ASSUME TypeOK, TypeOK', ListsOnce, BackendRestarts
  PROVE  ListsOnce' /\ \A c \in Ids : Told(c)
<1> DEFINE lost == UNION {IdsOf(up[h]) : h \in Connections} \cup LaunchesOf(down)
<1>1. /\ UNCHANGED <<row, armed, claimed, queue, injected, misled>>
      /\ up' = [h \in Connections |-> <<>>] /\ down' = <<>> /\ loaded' = <<>>
      /\ cause' = Blame("lost", lost)
  BY DEF BackendRestarts, database, scheduler, supervisor
<1> HIDE DEF lost
<1>2. Embeds
  BY <1>1, EmbedNone
<1>3. ListsOnce'
  BY <1>1, <1>2, ArmedOnce
<1>4. \A c \in Ids : cause[c] \subseteq cause'[c]
  <2>1. "lost" \in Causes
    BY DEF Causes
  <2> QED
    BY <1>1, <2>1, BlameGrows
<1>5. up'["live"] = <<>> /\ up'["left"] = <<>>
  BY <1>1 DEF Connections
<1>6. ASSUME NEW c \in Ids PROVE Told(c)
  <2>1. /\ Count(up'["live"], Asks(c)) = 0 /\ Count(up'["left"], Asks(c)) = 0
        /\ Count(down', Launch(c)) = 0
    BY <1>1, <1>5, CountEmpty
  <2>2. /\ Count(queue, DeliveriesOf(c)) \in Nat /\ Count(up["live"], Asks(c)) \in Nat
        /\ Count(up["left"], Asks(c)) \in Nat /\ Count(down, Launch(c)) \in Nat
        /\ injected[c] \in Nat
    BY TokensType
  <2>3. Tokens(c)' = Count(queue, DeliveriesOf(c)) + 0 + 0 + 0 + injected[c]
    BY <1>1, <2>1 DEF Tokens
  <2>4. Tokens(c)' <= Tokens(c)
    BY <2>2, <2>3 DEF Tokens
  <2> HIDE DEF Tokens
  <2>5. ~Reported(c)'
    BY <1>5 DEF Reported, Names
  <2>6. Quiet(c)
    BY <1>1, <2>4, <2>5 DEF Quiet
  <2>7. Story(c) => Story(c)'
    BY <1>2, <2>6, QuietKeeps
  <2>8. Reports(c) => Reports(c)'
    BY <1>1, <1>4, <1>5 DEF Reports, Paired
  <2> QED
    BY <2>7, <2>8 DEF Told
<1> QED
  BY <1>3, <1>6

-----------------------------------------------------------------------------
(* Causes are kept, and all steps together                                 *)

\* No step forgets a cause, or that the launcher was misled.
LEMMA ExcusesKept ==
  ASSUME TypeOK, [Next]_vars, NEW c \in Ids, Excused(c)
  PROVE  Excused(c)'
<1> DEFINE Kept == (misled => misled') /\ \A d \in Ids : cause[d] \subseteq cause'[d]
<1>1. Kept => Excused(c)'
  BY DEF Excused
<1> SUFFICES Kept
  BY <1>1
<1>2. "lost" \in Causes /\ "restarted" \in Causes /\ "unstored" \in Causes /\ "unspawned" \in Causes
  BY DEF Causes
<1>3. ASSUME NEW h \in Handlers, Load(h) PROVE Kept
  BY <1>3 DEF Load
<1>4. ASSUME NEW k \in DOMAIN loaded, SendSync(k) PROVE Kept
  BY <1>4 DEF SendSync
<1>5. ASSUME NEW h \in Connections, TakeUp(h) PROVE Kept
  <2>1. misled' = misled
    BY <1>5 DEF TakeUp
  <2>2. \/ cause' = cause
        \/ cause' = Blame("lost", {Head(up[h]).id})
    <3>1. up[h] # <<>>
      BY <1>5 DEF TakeUp, Ready
    <3>2. Head(up[h]).kind \in {"inject", "fired", "launch"}
      BY <3>1, HeadUp
    <3> QED
      BY <1>5, <3>2 DEF TakeUp, Inject, MarkTerminal, RequestLaunch
  <2> QED
    BY <1>2, <2>1, <2>2, BlameGrows
<1>6. ASSUME NEW h \in Connections, HandlerFails(h) PROVE Kept
  <2>1. /\ misled' = misled
        /\ \/ cause' = Blame("unstored", {Head(up[h]).id})
           \/ cause' = Blame("lost", {Head(up[h]).id})
    BY <1>6 DEF HandlerFails
  <2> QED
    BY <1>2, <2>1, BlameGrows
<1>7. ASSUME TakeSync PROVE Kept
  <2>1. FlushUp(queue, Head(down).configs, launches) /\ misled' = misled
    BY <1>7 DEF TakeSync
  <2>2. queue \in Seq(Deliveries) /\ launches \in SUBSET Ids
    BY DEF TypeOK
  <2>3. Flush(queue, Head(down).configs, launches)
    BY <2>1 DEF Flush
  <2>4. FlushedWell(queue)
    BY <2>2, <2>3, FlushFacts
  <2> QED
    BY <2>1, <2>4 DEF FlushedWell
<1>8. ASSUME TakeLaunch PROVE Kept
  <2>1. /\ misled' = misled
        /\ cause' = cause \/ cause' = Blame("unspawned", {Head(down).id})
    BY <1>8 DEF TakeLaunch, Spawn, SpawnFails
  <2> QED
    BY <1>2, <2>1, BlameGrows
<1>9. ASSUME NEW configs \in SUBSET armed, Due(configs) PROVE Kept
  <2>1. misled' = misled
    BY <1>9 DEF Due
  <2>2. PICK order \in SetToSeqs(configs), kind \in {"inject", "launch"} :
               FlushedWell(queue \o WorkOf(order, kind))
    BY <1>9, DueFlushes
  <2> QED
    BY <2>1, <2>2 DEF FlushedWell
<1>10. ASSUME Notices \/ Reconnects PROVE Kept
  BY <1>10 DEF Notices, Reconnects, history
<1>11. ASSUME NEW h \in Hubs, NEW d \in Ids, LimitReached(h, d) \/ Overloaded(h, d) \/ UserSchedules(h, d)
       PROVE  Kept
  BY <1>11 DEF LimitReached, Overloaded, UserSchedules, history
<1>12. ASSUME AgentExits \/ AgentStarts \/ Pauses \/ Resumes \/ Edits PROVE Kept
  BY <1>12 DEF AgentExits, AgentStarts, Pauses, Resumes, Edits, history
<1>13. ASSUME Breaks PROVE Kept
  <2>1. PICK kept \in 0..Len(up["live"]) : cause' = Blame("lost", LostWith(kept))
    BY <1>13 DEF Breaks
  <2>2. misled' = misled
    BY <1>13 DEF Breaks
  <2> QED
    BY <1>2, <2>1, <2>2, BlameGrows
<1>14. ASSUME LauncherRestarts PROVE Kept
  <2>1. misled' = misled
    BY <1>14 DEF LauncherRestarts
  <2>2. CASE link = "up"
    <3>1. PICK kept \in 0..Len(up["live"]) :
           cause' = [d \in Ids |-> Blame("lost", LostWith(kept))[d]
                                       \cup IF d \in claimed THEN {"restarted"} ELSE {}]
      BY <1>14, <2>2 DEF LauncherRestarts
    <3> DEFINE blamed == Blame("lost", LostWith(kept))
    <3>2. \A d \in Ids : cause[d] \subseteq blamed[d]
      BY <1>2, BlameGrows
    <3> HIDE DEF blamed
    <3>3. \A d \in Ids : cause'[d] = blamed[d] \cup IF d \in claimed THEN {"restarted"} ELSE {}
      BY <3>1 DEF blamed
    <3> QED
      BY <2>1, <3>2, <3>3
  <2>3. CASE link # "up"
    <3>1. cause' = Blame("restarted", claimed)
      BY <1>14, <2>3 DEF LauncherRestarts
    <3> QED
      BY <1>2, <2>1, <3>1, BlameGrows
  <2> QED
    BY <2>2, <2>3
<1>15. ASSUME BackendRestarts PROVE Kept
  <2> DEFINE lost == UNION {IdsOf(up[h]) : h \in Connections} \cup LaunchesOf(down)
  <2>1. cause' = Blame("lost", lost) /\ misled' = misled
    BY <1>15 DEF BackendRestarts
  <2> HIDE DEF lost
  <2> QED
    BY <1>2, <2>1, BlameGrows
<1>16. ASSUME UNCHANGED vars PROVE Kept
  BY <1>16 DEF vars, history
<1> HIDE DEF Kept
<1>17. Next \/ UNCHANGED vars
  OBVIOUS
<1>18. CASE Works
  BY <1>18, <1>3, <1>4, <1>5, <1>7, <1>8, <1>9, <1>10 DEF Works
<1>19. CASE Next /\ ~Works
  BY <1>19, <1>6, <1>11, <1>12, <1>13, <1>14, <1>15 DEF Next
<1> QED
  BY <1>16, <1>17, <1>18, <1>19

\* Initially no list is on its way, nothing is claimed, and nothing was sent.
LEMMA InitTold == Init => IInv
<1> SUFFICES ASSUME Init PROVE IInv
  OBVIOUS
<1>1. /\ up["live"] = <<>> /\ up["left"] = <<>> /\ down = <<>> /\ loaded = <<>> /\ queue = <<>>
      /\ armed = {} /\ claimed = {}
      /\ \A c \in Ids : row[c] = "none" /\ injected[c] = 0
  BY DEF Init, Connections
<1>2. Places = {}
  BY <1>1 DEF Places
<1>3. ListsOnce
  BY <1>1, <1>2 DEF ListsOnce, OneEach
<1>4. ASSUME NEW c \in Ids PROVE Reports(c) /\ Story(c)
  <2>1. /\ Count(queue, DeliveriesOf(c)) = 0 /\ Count(up["live"], Asks(c)) = 0
        /\ Count(up["left"], Asks(c)) = 0 /\ Count(down, Launch(c)) = 0 /\ injected[c] = 0
    BY <1>1, CountEmpty
  <2>2. Tokens(c) = 0
    BY <2>1 DEF Tokens
  <2> HIDE DEF Tokens
  <2>3. ~Reported(c) /\ Reports(c)
    BY <1>1 DEF Reported, Reports, Names, Paired
  <2>4. NoList(c) /\ ~HasId(armed, c) /\ c \notin claimed
    BY <1>1, <1>2 DEF NoList, HasId
  <2>5. row[c] = "none"
    BY <1>1
  <2> QED
    BY <2>2, <2>3, <2>4, <2>5 DEF Story, Over
<1> QED
  BY <1>3, <1>4 DEF IInv

\* Every step keeps the invariant.
LEMMA StepTold == TypeOK /\ TypeOK' /\ IInv /\ [Next]_vars => IInv'
<1> SUFFICES ASSUME TypeOK, TypeOK', IInv, [Next]_vars PROVE IInv'
  OBVIOUS
<1>1. ListsOnce
  BY DEF IInv
<1> DEFINE Goal == ListsOnce' /\ \A c \in Ids : Told(c)
<1>2. ASSUME NEW h \in Handlers, Load(h) PROVE Goal
  BY <1>1, <1>2, LoadTold
<1>3. ASSUME NEW k \in DOMAIN loaded, SendSync(k) PROVE Goal
  BY <1>1, <1>3, SendSyncTold
<1>4. ASSUME NEW h \in Connections, TakeUp(h) \/ HandlerFails(h) PROVE Goal
  BY <1>1, <1>4, TakeUpTold
<1>5. ASSUME TakeSync PROVE Goal
  BY <1>1, <1>5, TakeSyncTold
<1>6. ASSUME TakeLaunch PROVE Goal
  BY <1>1, <1>6, TakeLaunchTold
<1>7. ASSUME NEW configs \in SUBSET armed, Due(configs) PROVE Goal
  BY <1>1, <1>7, DueTold
<1>8. ASSUME \/ Notices \/ Reconnects
             \/ AgentExits \/ AgentStarts \/ Pauses \/ Resumes \/ Edits
             \/ UNCHANGED vars
      PROVE  Goal
  <2>1. UNCHANGED <<row, up, down, loaded, armed, claimed, queue, injected, cause, misled>>
    <3>1. CASE Notices \/ Reconnects
      BY <3>1 DEF Notices, Reconnects, database, syncs, wire, scheduler, supervisor, history
    <3>2. CASE AgentExits \/ AgentStarts
      BY <3>2 DEF AgentExits, AgentStarts, database, syncs, wire, scheduler, supervisor, history
    <3>3. CASE Pauses \/ Resumes \/ Edits
      BY <3>3 DEF Pauses, Resumes, Edits, database, syncs, wire, scheduler, supervisor, history
    <3>4. CASE UNCHANGED vars
      BY <3>4 DEF vars, database, syncs, wire, scheduler, supervisor, history
    <3> QED
      BY <1>8, <3>1, <3>2, <3>3, <3>4
  <2> QED
    BY <1>1, <2>1, StillTold
<1>9. ASSUME NEW h \in Hubs, NEW d \in Ids, LimitReached(h, d) \/ Overloaded(h, d) \/ UserSchedules(h, d)
      PROVE  Goal
  BY <1>1, <1>9, SchedulesTold
<1>10. ASSUME Breaks PROVE Goal
  BY <1>1, <1>10, BreaksTold
<1>11. ASSUME LauncherRestarts PROVE Goal
  BY <1>1, <1>11, LauncherRestartsTold
<1>12. ASSUME BackendRestarts PROVE Goal
  BY <1>1, <1>12, BackendRestartsTold
<1> HIDE DEF Goal
<1>13. Goal
  <2>1. Next \/ UNCHANGED vars
    OBVIOUS
  <2>2. CASE Works
    BY <2>2, <1>2, <1>3, <1>4, <1>5, <1>6, <1>7, <1>8 DEF Works
  <2>3. CASE Next /\ ~Works
    BY <2>3, <1>4, <1>8, <1>9, <1>10, <1>11, <1>12 DEF Next
  <2> QED
    BY <1>8, <2>1, <2>2, <2>3
<1>14. ASSUME NEW c \in Ids PROVE Reports(c)' /\ (Excused(c)' \/ Story(c)')
  <2>1. Told(c) /\ Reports(c) /\ (Excused(c) \/ Story(c))
    BY <1>13 DEF Goal, IInv
  <2>2. Excused(c) => Excused(c)'
    BY ExcusesKept
  <2> QED
    BY <2>1, <2>2 DEF Told
<1>15. ListsOnce'
  BY <1>13 DEF Goal
<1> QED
  BY <1>14, <1>15 DEF IInv

\* It holds in every state.
LEMMA AlwaysTold == Spec => []IInv
<1>1. Init => EditsCounted
  BY DEF Init, EditsCounted
<1> QED
  BY <1>1, InitTyped, InitTold, EditsStep, StepTyped, StepTold, PTL DEF Spec

\* A prompt is put into the conversation once, whatever lists and lost
\* connections come between, unless a daemon died with the claim or a list
\* was out of date.
THEOREM PromptInjectedOnce == Spec => []InjectedOnce
<1>1. TypeOK /\ IInv => InjectedOnce
  <2> SUFFICES ASSUME TypeOK, IInv, NEW c \in Ids, injected[c] > 1 PROVE Excused(c)
    BY DEF InjectedOnce, Excused
  <2>1. /\ Count(queue, DeliveriesOf(c)) \in Nat /\ Count(up["live"], Asks(c)) \in Nat
        /\ Count(up["left"], Asks(c)) \in Nat /\ Count(down, Launch(c)) \in Nat
        /\ injected[c] \in Nat
    BY TokensType
  <2>2. Tokens(c) > 1
    BY <2>1 DEF Tokens
  <2>3. Tokens(c) \in Nat
    BY TokensType
  <2> HIDE DEF Tokens
  <2>4. ~Story(c)
    BY <2>2, <2>3 DEF Story
  <2> QED
    BY <2>4 DEF IInv
<1> QED
  BY <1>1, ContinuationsTypeOK, AlwaysTold, PTL

\* The row tells the truth: a fired continuation was injected, unless its input
\* could not be stored, and a dropped one was not, with the same excuses.
THEOREM RowsTellTrue == Spec => []RowTellsTrue
<1>1. TypeOK /\ IInv => RowTellsTrue
  <2> SUFFICES ASSUME TypeOK, IInv, NEW c \in Ids
               PROVE  /\ row[c] = "fired" => injected[c] > 0 \/ "unstored" \in cause[c]
                      /\ row[c] = "dropped" => injected[c] = 0 \/ Excused(c)
    BY DEF RowTellsTrue, Excused
  <2>1. row[c] = "fired" => injected[c] > 0 \/ "unstored" \in cause[c]
    BY DEF IInv, Reports
  <2>2. ASSUME row[c] = "dropped", Story(c) PROVE injected[c] = 0
    <3>1. /\ Count(queue, DeliveriesOf(c)) \in Nat /\ Count(up["live"], Asks(c)) \in Nat
          /\ Count(up["left"], Asks(c)) \in Nat /\ Count(down, Launch(c)) \in Nat
          /\ injected[c] \in Nat
      BY TokensType
    <3>2. Tokens(c) = 0
      BY <2>2 DEF Story
    <3> QED
      BY <3>1, <3>2 DEF Tokens
  <2> QED
    BY <2>1, <2>2 DEF IInv
<1> QED
  BY <1>1, ContinuationsTypeOK, AlwaysTold, PTL
=============================================================================
