---------------------------- MODULE TunnelProofs ----------------------------
(***************************************************************************)
(* Proofs about port-forward streams, for any window, chunk, number of     *)
(* streams and bytes: no credit is made or lost, and bytes are written in  *)
(* the order they were read, whatever happens to the two planes.           *)
(***************************************************************************)
EXTENDS Tunnel, Queues

-----------------------------------------------------------------------------
(* The invariant                                                           *)

\* Only data and grants have a size.
Honest == {f \in Frames : f.kind \notin {"data", "window"} => f.size = 0}
\* What may be under way before the proxy has heard of a stream.
Quiet == {f \in Frames : f.kind \in {"open", "refused", "close"} /\ f.size = 0}
NotOpen == {f \in Frames : f.kind # "open"}

Shape ==
    /\ stage \in [Ends -> [Streams -> {"idle", "looked", "opening", "open", "ended"}]]
    /\ stage["proxy"] \in [Streams -> {"idle", "opening", "open", "ended"}]
    /\ egress \in [Streams -> Planes]
    /\ routed \subseteq Streams
    /\ inbox \in [Ends -> [Streams -> Seq(Honest)]]
    /\ wire \in [Ends -> [Streams -> [Planes -> Seq(Honest)]]]
    /\ avail \in [Ends -> [Streams -> Nat]]
    /\ held \in [Ends -> [Streams -> 0..MaxChunk]]
    /\ book \in [Ends -> [Streams -> Int]]
    /\ read \in [Ends -> [Streams -> Nat]]
    /\ got \in [Ends -> [Streams -> Seq(Nat)]]
    /\ lost \in [Streams -> Nat]
    /\ untold \subseteq Streams

Sockety ==
    /\ plane \in [Ends -> {"none", "up", "gone"}]
    /\ link \subseteq Planes
    /\ handler \in {"serving", "reaped", "closing", "left", "done"}
    /\ manager \in BOOLEAN
    /\ allowed \in BOOLEAN
    /\ stuck \subseteq Ends \X Streams
    /\ faults \in 0..MaxFaults

\* Each end's half of the data plane follows the socket, which comes up
\* once; the handler leaves a dead control socket.
LinksKnown ==
    /\ plane["proxy"] = "none" => "binary" \notin link /\ plane["backend"] = "none"
    /\ \A e \in Ends : plane[e] = "gone" => "binary" \notin link
    /\ plane["backend"] = "none" => \A s \in Streams : egress[s] = "control"
    /\ handler # "serving" => "control" \notin link

Fresh(s) ==
    stage["backend"][s] \in {"idle", "looked"} =>
        /\ stage["proxy"][s] = "idle"
        /\ \A e \in Ends :
              /\ inbox[e][s] = <<>>
              /\ \A p \in Planes : wire[e][s][p] = <<>>

Routed(s) == s \in routed => stage["backend"][s] \in {"opening", "open"}

Undialled(s) ==
    stage["proxy"][s] = "idle" =>
        /\ stage["backend"][s] # "open"
        /\ \A e \in Ends :
              /\ read[e][s] = 0
              /\ got[e][s] = <<>>
              /\ inbox[e][s] \in Seq(Quiet)
              /\ \A p \in Planes : wire[e][s][p] \in Seq(Quiet)

OneOpen(s) ==
    \A p \in Planes :
        /\ wire["backend"][s][p] \in Seq(NotOpen)
        /\ stage["proxy"][s] # "idle" => wire["proxy"][s][p] \in Seq(NotOpen)
        /\ wire["proxy"][s][p] # <<>> => Tail(wire["proxy"][s][p]) \in Seq(NotOpen)

Pinned(s) == \A e \in Ends, p \in Planes : p # egress[s] => wire[e][s][p] = <<>>

Way(kind, e, s) == SizeOf(kind, wire[e][s][egress[s]])

Booked(s) ==
    \A e \in Ends :
        /\ book[e][s] + Held("data", e, s) = Window
        /\ Held("data", e, s) + Way("data", e, s) <= Window

Total(e, s) ==
    avail[e][s] + held[e][s] + Way("data", Other(e), s) + Held("data", Other(e), s)
    + Way("window", e, s) + Held("window", e, s) + Missing(e, s)

Whole(s) ==
    /\ \A e \in Ends : stage[e][s] # "ended"
    /\ \/ stage["backend"][s] \in {"idle", "looked"}
       \/ s \in routed /\ egress[s] \in link

Credited(s) ==
    \A e \in Ends :
        /\ avail[e][s] + held[e][s] <= Window
        /\ stage[e][s] # "ended" => Total(e, s) <= Window
        /\ Whole(s) => Total(e, s) = Window

Weight(kind, f) == IF f.kind = kind THEN f.size ELSE 0

\* The data in a queue starts after byte a, goes on without a gap and ends
\* with byte b.
InTurn(q, a, b) ==
    \E mark \in [1..Len(q) + 1 -> 0..b] :
        /\ mark[1] = a
        /\ mark[Len(q) + 1] = b
        /\ \A i \in 1..Len(q) :
              /\ mark[i + 1] = mark[i] + Weight("data", q[i])
              /\ q[i].kind = "data" => q[i].first = mark[i] + 1

Turned(s) ==
    \A e \in Ends :
        /\ read[e][s] <= Bytes[e]
        /\ \A i \in DOMAIN got[e][s] : got[e][s][i] = i
        /\ \E m \in 0..read[Other(e)][s] :
              /\ InTurn(inbox[e][s], Len(got[e][s]), m)
              /\ Known(e, s) =>
                    \E n \in 0..read[Other(e)][s] :
                        /\ InTurn(wire[e][s][egress[s]], m, n)
                        /\ egress[s] \in link => n = read[Other(e)][s]

StreamInv(s) ==
    Fresh(s) /\ Routed(s) /\ Undialled(s) /\ OneOpen(s) /\ Pinned(s) /\ Booked(s) /\ Credited(s)
    /\ Turned(s)

IInv == Shape /\ Sockety /\ LinksKnown /\ \A s \in Streams : StreamInv(s)

-----------------------------------------------------------------------------
(* Sizes of queues                                                         *)

\* The bounds on what one end may read are numbers.
LEMMA BoundedType == Bounded \in Nat /\ Window \in Nat \ {0} /\ MaxChunk \in Nat \ {0}
                     /\ \A e \in Ends : Bytes[e] \in Nat /\ Bytes[e] <= Bounded
BY TunnelAssumption DEF Bounded, Ends

\* A queue of frames has a size.
LEMMA SizeType ==
  ASSUME NEW q \in Seq(Frames), NEW kind
  PROVE  IsFiniteSet(Units(kind, q)) /\ SizeOf(kind, q) \in Nat
<1>1. IsFiniteSet(DOMAIN q)
  BY FS_Interval, LenProperties
<1>2. IsFiniteSet(1..Bounded)
  BY FS_Interval, BoundedType
<1>3. IsFiniteSet((DOMAIN q) \X (1..Bounded))
  BY <1>1, <1>2, FS_Product
<1>4. Units(kind, q) \subseteq (DOMAIN q) \X (1..Bounded)
  BY DEF Units
<1>5. IsFiniteSet(Units(kind, q))
  BY <1>3, <1>4, FS_Subset
<1> QED
  BY <1>5, FS_CardinalityType DEF SizeOf

\* An empty queue has no size.
LEMMA SizeEmpty ==
  ASSUME NEW kind
  PROVE  SizeOf(kind, <<>>) = 0
<1>1. Units(kind, <<>>) = {}
  BY DEF Units
<1> QED
  BY <1>1, FS_EmptySet DEF SizeOf

\* The units of one frame at place k.
LEMMA UnitsOfOne ==
  ASSUME NEW k \in Nat, NEW n \in Nat
  PROVE  IsFiniteSet({k} \X (1..n)) /\ Cardinality({k} \X (1..n)) = n
<1>1. IsFiniteSet(1..n) /\ Cardinality(1..n) = n
  BY FS_Interval
<1>2. IsFiniteSet({k}) /\ Cardinality({k}) = 1
  BY FS_Singleton
<1>3. /\ IsFiniteSet({k} \X (1..n))
      /\ Cardinality({k} \X (1..n)) = Cardinality({k}) * Cardinality(1..n)
  BY <1>1, <1>2, FS_Product
<1> QED
  BY <1>1, <1>2, <1>3

\* A frame appended adds its own size.
LEMMA SizeAppend ==
  ASSUME NEW q \in Seq(Frames), NEW f \in Frames, NEW kind
  PROVE  SizeOf(kind, Append(q, f)) = SizeOf(kind, q) + Weight(kind, f)
<1> DEFINE n == Len(q)
           w == Weight(kind, f)
           p == Append(q, f)
           one == {n + 1} \X (1..w)
<1>1. n \in Nat /\ DOMAIN q = 1..n /\ Len(p) = n + 1 /\ DOMAIN p = 1..n + 1
      /\ p[n + 1] = f /\ \A k \in 1..n : p[k] = q[k]
  BY LenProperties, AppendProperties
<1>2. w \in 0..Bounded
  BY BoundedType DEF Weight, Frames
<1> HIDE DEF n, p
<1>3. Units(kind, p) = Units(kind, q) \cup one
  <2>1. ASSUME NEW u \in Units(kind, p)
        PROVE  u \in Units(kind, q) \cup one
    <3>1. u \in (1..n + 1) \X (1..Bounded) /\ p[u[1]].kind = kind /\ u[2] <= p[u[1]].size
      BY <1>1 DEF Units
    <3>2. CASE u[1] = n + 1
      <4>1. u[2] \in 1..w
        BY <3>1, <3>2, <1>1, <1>2, BoundedType DEF Weight, Frames
      <4> QED
        BY <4>1, <3>1, <3>2
    <3>3. CASE u[1] # n + 1
      <4>1. u[1] \in 1..n
        BY <3>1, <3>3, <1>1
      <4> QED
        BY <4>1, <3>1, <1>1 DEF Units
    <3> QED
      BY <3>2, <3>3
  <2>2. ASSUME NEW u \in Units(kind, q)
        PROVE  u \in Units(kind, p)
    <3>1. u \in (1..n) \X (1..Bounded) /\ q[u[1]].kind = kind /\ u[2] <= q[u[1]].size
      BY <1>1 DEF Units
    <3>2. u[1] \in 1..n + 1 /\ p[u[1]] = q[u[1]]
      BY <3>1, <1>1
    <3> QED
      BY <3>1, <3>2, <1>1 DEF Units
  <2>3. ASSUME NEW u \in one
        PROVE  u \in Units(kind, p)
    <3>1. u[1] = n + 1 /\ u[2] \in 1..w /\ u = <<u[1], u[2]>>
      OBVIOUS
    <3>2. f.kind = kind /\ u[2] <= f.size /\ u[2] \in 1..Bounded
      BY <3>1, <1>2, BoundedType DEF Weight, Frames
    <3>3. u \in (1..n + 1) \X (1..Bounded)
      BY <3>1, <3>2, <1>1
    <3> QED
      BY <3>1, <3>2, <3>3, <1>1 DEF Units
  <2> QED
    BY <2>1, <2>2, <2>3
<1>4. Units(kind, q) \cap one = {}
  BY <1>1 DEF Units
<1>5. IsFiniteSet(Units(kind, q)) /\ SizeOf(kind, q) \in Nat
  BY SizeType
<1>6. IsFiniteSet(one) /\ Cardinality(one) = w
  BY <1>1, <1>2, UnitsOfOne
<1>7. Cardinality(Units(kind, p)) = Cardinality(Units(kind, q)) + Cardinality(one) - Cardinality({})
  BY <1>3, <1>4, <1>5, <1>6, FS_Union
<1>8. Cardinality({}) = 0
  BY FS_EmptySet
<1> QED
  BY <1>5, <1>6, <1>7, <1>8, <1>2 DEF SizeOf, p

\* A frame taken from the head takes its size away.
LEMMA SizeTail ==
  ASSUME NEW q \in Seq(Frames), q # <<>>, NEW kind
  PROVE  SizeOf(kind, q) = SizeOf(kind, Tail(q)) + Weight(kind, Head(q))
<1> DEFINE n == Len(q)
           t == Tail(q)
           f == Head(q)
           w == Weight(kind, f)
           one == {1} \X (1..w)
           old == Units(kind, q) \ one
           shift == [u \in old |-> <<u[1] - 1, u[2]>>]
<1>1. n \in Nat \ {0} /\ DOMAIN q = 1..n /\ t \in Seq(Frames) /\ Len(t) = n - 1
      /\ DOMAIN t = 1..n - 1 /\ f \in Frames /\ f = q[1] /\ \A k \in 1..n - 1 : t[k] = q[k + 1]
  BY LenProperties, EmptySeq, HeadTailProperties
<1>2. w \in 0..Bounded
  BY <1>1, BoundedType DEF Weight, Frames
<1> HIDE DEF n, t, f
<1>3. one \subseteq Units(kind, q)
  <2> SUFFICES ASSUME NEW u \in one PROVE u \in Units(kind, q)
    OBVIOUS
  <2>1. u[1] = 1 /\ u[2] \in 1..w /\ u = <<u[1], u[2]>>
    OBVIOUS
  <2>2. f.kind = kind /\ u[2] <= f.size /\ u[2] \in 1..Bounded
    BY <2>1, <1>1, <1>2, BoundedType DEF Weight, Frames
  <2> QED
    BY <2>1, <2>2, <1>1 DEF Units
<1>4. old = {u \in Units(kind, q) : u[1] # 1}
  <2>1. ASSUME NEW u \in Units(kind, q), u[1] = 1
        PROVE  u \in one
    <3>1. u \in (1..n) \X (1..Bounded) /\ f.kind = kind /\ u[2] <= f.size
      BY <2>1, <1>1 DEF Units
    <3>2. u[2] \in 1..w
      BY <3>1, <1>1, <1>2, BoundedType DEF Weight, Frames
    <3> QED
      BY <3>1, <3>2, <2>1
  <2> QED
    BY <2>1
<1>5. \A u \in old : u \in (2..n) \X (1..Bounded) /\ q[u[1]].kind = kind /\ u[2] <= q[u[1]].size
  BY <1>4, <1>1 DEF Units
<1>6. \A u \in old : shift[u] \in Units(kind, t)
  <2> SUFFICES ASSUME NEW u \in old PROVE <<u[1] - 1, u[2]>> \in Units(kind, t)
    OBVIOUS
  <2> HIDE DEF old
  <2>1. u[1] - 1 \in 1..n - 1 /\ u[2] \in 1..Bounded /\ t[u[1] - 1] = q[u[1]]
    BY <1>1, <1>5
  <2> QED
    BY <2>1, <1>5, <1>1 DEF Units
<1>7. \A v \in Units(kind, t) : \E u \in old : shift[u] = v
  <2> SUFFICES ASSUME NEW v \in Units(kind, t) PROVE \E u \in old : shift[u] = v
    OBVIOUS
  <2>1. v \in (1..n - 1) \X (1..Bounded) /\ t[v[1]].kind = kind /\ v[2] <= t[v[1]].size
    BY <1>1 DEF Units
  <2>2. v[1] + 1 \in 1..n /\ v[1] + 1 # 1 /\ t[v[1]] = q[v[1] + 1]
    BY <2>1, <1>1
  <2>3. <<v[1] + 1, v[2]>> \in old
    BY <2>1, <2>2, <1>1, <1>4 DEF Units
  <2>4. PICK u \in old : u = <<v[1] + 1, v[2]>>
    BY <2>3
  <2>5. u[1] - 1 = v[1] /\ u[2] = v[2]
    BY <2>1, <2>4, <1>1
  <2>6. shift[u] = <<u[1] - 1, u[2]>>
    OBVIOUS
  <2>7. v = <<v[1], v[2]>>
    BY <2>1
  <2> HIDE DEF shift, old
  <2>8. shift[u] = v
    BY <2>5, <2>6, <2>7
  <2> QED
    BY <2>8
<1>8. \A u, v \in old : shift[u] = shift[v] => u = v
  <2> SUFFICES ASSUME NEW u \in old, NEW v \in old, shift[u] = shift[v] PROVE u = v
    OBVIOUS
  <2>1. u[1] - 1 = v[1] - 1 /\ u[2] = v[2]
    OBVIOUS
  <2> HIDE DEF old
  <2>2. u = <<u[1], u[2]>> /\ v = <<v[1], v[2]>> /\ u[1] \in 2..n /\ v[1] \in 2..n
    BY <1>5
  <2> QED
    BY <2>1, <2>2, <1>1
<1>9. shift \in Bijection(old, Units(kind, t))
  <2>1. shift \in [old -> Units(kind, t)]
    BY <1>6
  <2> HIDE DEF shift, old
  <2>2. shift \in Injection(old, Units(kind, t))
    BY <2>1, <1>8 DEF Injection, IsInjective
  <2>3. shift \in Surjection(old, Units(kind, t))
    BY <2>1, <1>7 DEF Surjection
  <2> QED
    BY <2>2, <2>3 DEF Bijection
<1>10. IsFiniteSet(Units(kind, q)) /\ SizeOf(kind, q) \in Nat
  BY SizeType
<1>11. IsFiniteSet(one) /\ Cardinality(one) = w
  <2>1. w \in Nat /\ 1 \in Nat
    BY <1>2, BoundedType
  <2> HIDE DEF w
  <2> QED
    BY <2>1, UnitsOfOne
<1>12. IsFiniteSet(old) /\ Cardinality(old) = Cardinality(Units(kind, q)) - Cardinality(one)
  <2>1. Units(kind, q) \cap one = one
    BY <1>3
  <2> HIDE DEF one
  <2> QED
    BY <2>1, <1>10, FS_Difference
<1>13. Cardinality(Units(kind, t)) = Cardinality(old)
  <2> HIDE DEF old, shift
  <2> QED
    BY <1>9, <1>12, FS_Bijection DEF ExistsBijection
<1> QED
  BY <1>10, <1>11, <1>12, <1>13, <1>2 DEF SizeOf, t, f

\* A queue of a set's elements is a queue of a larger set's.
LEMMA WiderSeq ==
  ASSUME NEW S, NEW T, S \subseteq T, NEW q \in Seq(S)
  PROVE  q \in Seq(T)
<1>1. Len(q) \in Nat /\ q \in [1..Len(q) -> S]
  BY LenProperties
<1>2. q \in [1..Len(q) -> T]
  BY <1>1
<1> QED
  BY <1>1, <1>2, SeqDef

\* Frames of the kinds without a size weigh nothing.
LEMMA QuietSize ==
  ASSUME NEW q \in Seq(Quiet), NEW kind \in {"data", "window"}
  PROVE  SizeOf(kind, q) = 0
<1>1. \A k \in DOMAIN q : q[k] \in Quiet
  BY LenProperties, ElementOfSeq
<1>2. Units(kind, q) = {}
  BY <1>1 DEF Units, Quiet
<1> QED
  BY <1>2, FS_EmptySet DEF SizeOf

\* What an append and a take do to a queue, as one fact each.
LEMMA AppendIs ==
  ASSUME NEW S, NEW q \in Seq(S), NEW f \in S
  PROVE  /\ Append(q, f) \in Seq(S) /\ Append(q, f) # <<>>
         /\ Len(q) \in Nat /\ Len(Append(q, f)) = Len(q) + 1
         /\ Append(q, f)[Len(q) + 1] = f
         /\ \A k \in 1..Len(q) : Append(q, f)[k] = q[k]
BY LenProperties, AppendProperties, EmptySeq

\* A queue without its head.
LEMMA TailIs ==
  ASSUME NEW S, NEW q \in Seq(S), q # <<>>
  PROVE  /\ Tail(q) \in Seq(S) /\ Head(q) \in S /\ Head(q) = q[1]
         /\ Len(q) \in Nat \ {0} /\ Len(Tail(q)) = Len(q) - 1
         /\ \A k \in 1..Len(q) - 1 : Tail(q)[k] = q[k + 1]
BY LenProperties, HeadTailProperties, EmptySeq

\* The tail of a longer queue is the longer tail.
LEMMA TailOfAppend ==
  ASSUME NEW S, NEW T, S \subseteq T, NEW q \in Seq(T), NEW f \in S, q # <<>> => Tail(q) \in Seq(S)
  PROVE  Tail(Append(q, f)) \in Seq(S)
<1> DEFINE p == Append(q, f)
           t == Tail(p)
           n == Len(q)
<1>1. f \in T
  OBVIOUS
<1>2. p \in Seq(T) /\ p # <<>> /\ n \in Nat /\ Len(p) = n + 1 /\ p[n + 1] = f
      /\ \A k \in 1..n : p[k] = q[k]
  BY <1>1, AppendIs
<1>3. t \in Seq(T) /\ Len(t) = Len(p) - 1 /\ \A k \in 1..Len(p) - 1 : t[k] = p[k + 1]
  BY <1>2, TailIs
<1>4. CASE q = <<>>
  <2>1. n = 0
    BY <1>4
  <2>2. Len(t) = 0
    BY <1>2, <1>3, <2>1
  <2>3. t = <<>>
    BY <1>3, <2>2, EmptySeq
  <2> QED
    BY <2>3
<1>5. CASE q # <<>>
  <2>1. n \in Nat \ {0} /\ Tail(q) \in Seq(S) /\ Len(Tail(q)) = n - 1
        /\ \A k \in 1..n - 1 : Tail(q)[k] = q[k + 1]
    BY <1>5, TailIs
  <2>2. \A k \in 1..n - 1 : Tail(q)[k] \in S
    BY <2>1, ElementOfSeq
  <2> HIDE DEF t, p, n
  <2>3. ASSUME NEW k \in 1..n PROVE t[k] \in S
    <3>1. t[k] = p[k + 1]
      BY <1>2, <1>3
    <3>2. CASE k = n
      BY <3>1, <3>2, <1>2
    <3>3. CASE k # n
      <4>1. k \in 1..n - 1 /\ k + 1 \in 1..n
        BY <3>3, <2>1
      <4> QED
        BY <4>1, <3>1, <1>2, <2>1, <2>2
    <3> QED
      BY <3>2, <3>3
  <2>4. t \in [1..n -> S]
    <3>1. Len(t) = n /\ t \in [1..Len(t) -> T]
      BY <1>2, <1>3, LenProperties
    <3> QED
      BY <3>1, <2>3
  <2> QED
    BY <2>4, <1>2, SeqDef DEF t, p
<1> QED
  BY <1>4, <1>5

-----------------------------------------------------------------------------
(* Queues in turn                                                          *)

\* An empty queue is in turn anywhere.
LEMMA TurnEmpty ==
  ASSUME NEW a \in Nat
  PROVE  InTurn(<<>>, a, a)
<1> DEFINE mark == [k \in 1..1 |-> a]
<1>1. mark \in [1..Len(<<>>) + 1 -> 0..a] /\ mark[1] = a /\ mark[Len(<<>>) + 1] = a
  OBVIOUS
<1>2. 1..Len(<<>>) = {}
  OBVIOUS
<1> HIDE DEF mark
<1> QED
  BY <1>1, <1>2 DEF InTurn

\* The first mark of a queue is its start and is no later than its end.
LEMMA TurnStart ==
  ASSUME NEW q \in Seq(Frames), NEW a, NEW b \in Nat, InTurn(q, a, b)
  PROVE  a \in 0..b /\ (q = <<>> => a = b)
<1>1. PICK mark \in [1..Len(q) + 1 -> 0..b] : mark[1] = a /\ mark[Len(q) + 1] = b
  BY DEF InTurn
<1>2. Len(q) \in Nat /\ (q = <<>> => Len(q) = 0)
  BY LenProperties
<1> QED
  BY <1>1, <1>2

\* A frame whose data follows the queue's keeps it in turn.
LEMMA TurnAppend ==
  ASSUME NEW q \in Seq(Frames), NEW f \in Frames, NEW a, NEW b \in Nat, InTurn(q, a, b),
         f.kind = "data" => f.first = b + 1
  PROVE  InTurn(Append(q, f), a, b + Weight("data", f))
<1> DEFINE n == Len(q)
           p == Append(q, f)
           c == b + Weight("data", f)
<1>1. PICK mark \in [1..n + 1 -> 0..b] :
          /\ mark[1] = a /\ mark[n + 1] = b
          /\ \A i \in 1..n : /\ mark[i + 1] = mark[i] + Weight("data", q[i])
                             /\ q[i].kind = "data" => q[i].first = mark[i] + 1
  BY DEF InTurn
<1>2. n \in Nat /\ Len(p) = n + 1 /\ p[n + 1] = f /\ \A k \in 1..n : p[k] = q[k]
  BY AppendIs
<1>3. Weight("data", f) \in Nat /\ c \in Nat /\ b <= c
  BY BoundedType DEF Weight, Frames
<1> DEFINE m == [k \in 1..n + 2 |-> IF k = n + 2 THEN c ELSE mark[k]]
<1> HIDE DEF n, p, c
<1>4. m \in [1..n + 2 -> 0..c]
  BY <1>1, <1>2, <1>3
<1>5. \A k \in 1..n + 1 : m[k] = mark[k]
  BY <1>2
<1>6. m[n + 2] = c
  BY <1>2
<1> HIDE DEF m
<1>7. ASSUME NEW i \in 1..n + 1
      PROVE  /\ m[i + 1] = m[i] + Weight("data", p[i])
             /\ p[i].kind = "data" => p[i].first = m[i] + 1
  <2>1. CASE i = n + 1
    BY <2>1, <1>1, <1>2, <1>3, <1>5, <1>6 DEF c
  <2>2. CASE i # n + 1
    <3>1. i \in 1..n /\ i + 1 \in 1..n + 1 /\ i \in 1..n + 1 /\ p[i] = q[i]
      BY <2>2, <1>2
    <3> QED
      BY <3>1, <1>1, <1>5
  <2> QED
    BY <2>1, <2>2
<1>8. m[1] = a /\ n + 2 = Len(p) + 1
  BY <1>1, <1>2, <1>5
<1>9. m \in [1..Len(p) + 1 -> 0..c] /\ m[1] = a /\ m[Len(p) + 1] = c
  BY <1>4, <1>6, <1>8
<1>10. \A i \in 1..Len(p) : /\ m[i + 1] = m[i] + Weight("data", p[i])
                            /\ p[i].kind = "data" => p[i].first = m[i] + 1
  BY <1>7, <1>2
<1>11. InTurn(p, a, c)
  BY <1>9, <1>10 DEF InTurn
<1> QED
  BY <1>11 DEF p, c

\* The head of a queue in turn starts where the queue does, and the rest
\* goes on from there.
LEMMA TurnTail ==
  ASSUME NEW q \in Seq(Frames), q # <<>>, NEW a, NEW b \in Nat, InTurn(q, a, b)
  PROVE  /\ InTurn(Tail(q), a + Weight("data", Head(q)), b)
         /\ a + Weight("data", Head(q)) \in 0..b
         /\ Head(q).kind = "data" => Head(q).first = a + 1
<1> DEFINE n == Len(q)
           t == Tail(q)
           f == Head(q)
           c == a + Weight("data", f)
<1>1. PICK mark \in [1..n + 1 -> 0..b] :
          /\ mark[1] = a /\ mark[n + 1] = b
          /\ \A i \in 1..n : /\ mark[i + 1] = mark[i] + Weight("data", q[i])
                             /\ q[i].kind = "data" => q[i].first = mark[i] + 1
  BY DEF InTurn
<1>2. n \in Nat \ {0} /\ Len(t) = n - 1 /\ f = q[1] /\ \A k \in 1..n - 1 : t[k] = q[k + 1]
  BY TailIs
<1> DEFINE m == [k \in 1..n |-> mark[k + 1]]
<1> HIDE DEF n, t, f
<1>3. 1 \in 1..n /\ mark[2] = c /\ (f.kind = "data" => f.first = a + 1)
  BY <1>1, <1>2
<1>4. m \in [1..n -> 0..b] /\ m[1] = c /\ m[n] = b
  BY <1>1, <1>2, <1>3
<1>5. \A k \in 1..n : m[k] = mark[k + 1]
  OBVIOUS
<1> HIDE DEF m, c
<1>6. ASSUME NEW i \in 1..n - 1
      PROVE  /\ m[i + 1] = m[i] + Weight("data", t[i])
             /\ t[i].kind = "data" => t[i].first = m[i] + 1
  <2>1. i \in 1..n /\ i + 1 \in 1..n /\ t[i] = q[i + 1]
    BY <1>2
  <2> QED
    BY <2>1, <1>1, <1>5
<1>7. n = Len(t) + 1 /\ Len(t) = n - 1
  BY <1>2
<1>8. InTurn(t, c, b)
  BY <1>4, <1>6, <1>7 DEF InTurn
<1>9. c \in 0..b
  BY <1>1, <1>2, <1>3
<1> QED
  BY <1>3, <1>8, <1>9 DEF t, f, c

-----------------------------------------------------------------------------
(* Frames                                                                  *)

\* A note has no size.
LEMMA NoteIs ==
  ASSUME NEW k \in Kinds
  PROVE  /\ Note(k) \in Honest
         /\ \A kind : Weight(kind, Note(k)) = 0
         /\ k # "data" => Note(k).kind # "data"
         /\ k # "open" => Note(k) \in NotOpen
         /\ k \in {"open", "refused", "close"} => Note(k) \in Quiet
<1>1. 0 \in 0..Bounded
  BY BoundedType
<1>2. Note(k) \in Frames
  BY <1>1 DEF Note, Frames
<1> QED
  BY <1>2 DEF Note, Honest, Quiet, NotOpen, Weight

\* A grant weighs what it grants.
LEMMA GrantIs ==
  ASSUME NEW n \in 0..Bounded
  PROVE  /\ Grant(n) \in Honest /\ Grant(n) \in NotOpen /\ Grant(n).kind # "data"
         /\ Weight("data", Grant(n)) = 0 /\ Weight("window", Grant(n)) = n
<1>1. 0 \in 0..Bounded
  BY BoundedType
<1>2. Grant(n) \in Frames
  BY <1>1 DEF Grant, Frames, Kinds
<1> QED
  BY <1>2 DEF Grant, Honest, NotOpen, Weight

\* A data frame weighs its bytes.
LEMMA DataIs ==
  ASSUME NEW i \in 0..Bounded, NEW n \in 0..Bounded
  PROVE  /\ Data(i, n) \in Honest /\ Data(i, n) \in NotOpen /\ Data(i, n).first = i
         /\ Weight("data", Data(i, n)) = n /\ Weight("window", Data(i, n)) = 0
<1>1. Data(i, n) \in Frames
  BY DEF Data, Frames, Kinds
<1> QED
  BY <1>1 DEF Data, Honest, NotOpen, Weight

\* The kinds of frames, one in another.
LEMMA Subsets == Honest \subseteq Frames /\ Quiet \subseteq Frames /\ NotOpen \subseteq Frames
                 /\ Quiet \subseteq Honest
BY DEF Honest, Quiet, NotOpen

\* Honest frames are frames.
LEMMA HonestSeq ==
  ASSUME NEW q \in Seq(Honest)
  PROVE  q \in Seq(Frames)
BY Subsets, WiderSeq

\* A frame weighs no less than nothing.
LEMMA WeightType ==
  ASSUME NEW f \in Honest, NEW kind
  PROVE  /\ Weight(kind, f) \in 0..Bounded
         /\ f.kind # kind => Weight(kind, f) = 0
         /\ f.kind = kind => Weight(kind, f) = f.size
         /\ f.kind \notin {"data", "window"} => Weight(kind, f) = 0 /\ f.size = 0
         /\ f.size \in 0..Bounded /\ f.kind \in Kinds
BY BoundedType, Subsets DEF Weight, Honest, Frames

\* There are two ends.
LEMMA OtherEnd == \A e \in Ends : Other(e) \in Ends /\ Other(e) # e /\ Other(Other(e)) = e
BY DEF Other, Ends

-----------------------------------------------------------------------------
(* What the sockets do to one stream                                       *)

\* The sizes an invariant is about are numbers.
LEMMA Sizes ==
  ASSUME Shape, NEW s \in Streams, NEW e \in Ends, NEW kind
  PROVE  /\ inbox[e][s] \in Seq(Honest) /\ inbox[e][s] \in Seq(Frames)
         /\ \A p \in Planes : wire[e][s][p] \in Seq(Honest) /\ wire[e][s][p] \in Seq(Frames)
         /\ egress[s] \in Planes
         /\ Held(kind, e, s) \in Nat /\ Way(kind, e, s) \in Nat
         /\ avail[e][s] \in Nat /\ held[e][s] \in 0..MaxChunk /\ held[e][s] \in Nat
         /\ book[e][s] \in Int /\ read[e][s] \in Nat /\ got[e][s] \in Seq(Nat)
         /\ Len(got[e][s]) \in Nat /\ Missing(e, s) \in Nat
<1>1. inbox[e][s] \in Seq(Honest) /\ \A p \in Planes : wire[e][s][p] \in Seq(Honest)
  BY DEF Shape
<1>2. inbox[e][s] \in Seq(Frames) /\ \A p \in Planes : wire[e][s][p] \in Seq(Frames)
  BY <1>1, HonestSeq
<1>3. egress[s] \in Planes
  BY DEF Shape
<1>4. Held(kind, e, s) \in Nat /\ Way(kind, e, s) \in Nat
  BY <1>2, <1>3, SizeType DEF Held, Way
<1>5. avail[e][s] \in Nat /\ held[e][s] \in 0..MaxChunk /\ book[e][s] \in Int
      /\ read[e][s] \in Nat /\ got[e][s] \in Seq(Nat)
  BY DEF Shape
<1>6. Len(got[e][s]) \in Nat
  BY <1>5, LenProperties
<1>7. held[e][s] \in Nat
  BY <1>5, BoundedType
<1>8. Missing(e, s) \in Nat
  BY DEF Missing, Shape
<1> QED
  BY <1>1, <1>2, <1>3, <1>4, <1>5, <1>6, <1>7, <1>8

\* What a step of the sockets may do to a stream: lose what is on a wire,
\* tell an end to close, drop the backend's entry.
SocketStep(t) ==
    /\ \A e \in Ends :
          /\ stage'[e][t] = stage[e][t] /\ avail'[e][t] = avail[e][t]
          /\ held'[e][t] = held[e][t] /\ book'[e][t] = book[e][t]
          /\ read'[e][t] = read[e][t] /\ got'[e][t] = got[e][t]
          /\ \/ inbox'[e][t] = inbox[e][t]
             \/ /\ inbox'[e][t] = Append(inbox[e][t], Note("close"))
                /\ stage["backend"][t] \notin {"idle", "looked"}
          /\ \A p \in Planes : \/ wire'[e][t][p] = wire[e][t][p]
                               \/ wire'[e][t][p] = <<>> /\ p \notin link'
    /\ egress'[t] = egress[t] /\ lost'[t] = lost[t]
    /\ t \in routed' => t \in routed
    /\ egress[t] \in link' => egress[t] \in link

\* Such a step keeps the invariant of the stream.
LEMMA SocketKeeps ==
  ASSUME Shape, Shape', NEW t \in Streams, StreamInv(t), SocketStep(t)
  PROVE  StreamInv(t)'
<1>1. \A e \in Ends : Other(e) \in Ends
  BY OtherEnd
<1>2. \A e \in Ends, kind \in {"data", "window"} : Held(kind, e, t)' = Held(kind, e, t)
  <2> SUFFICES ASSUME NEW e \in Ends, NEW kind \in {"data", "window"}
               PROVE  SizeOf(kind, inbox'[e][t]) = SizeOf(kind, inbox[e][t])
    BY DEF Held
  <2>1. CASE inbox'[e][t] = inbox[e][t]
    BY <2>1
  <2>2. CASE inbox'[e][t] = Append(inbox[e][t], Note("close"))
    <3>1. Note("close") \in Frames /\ Weight(kind, Note("close")) = 0
      BY NoteIs, Subsets DEF Kinds
    <3>2. inbox[e][t] \in Seq(Frames) /\ SizeOf(kind, inbox[e][t]) \in Nat
      BY Sizes, SizeType
    <3> QED
      BY <2>2, <3>1, <3>2, SizeAppend
  <2> QED
    BY <2>1, <2>2 DEF SocketStep
<1>3. \A e \in Ends, kind \in {"data", "window"} :
          /\ Way(kind, e, t) \in Nat /\ Held(kind, e, t) \in Nat
          /\ Way(kind, e, t)' = Way(kind, e, t) \/ (Way(kind, e, t)' = 0 /\ egress[t] \notin link')
  <2>1. ASSUME NEW e \in Ends, NEW kind \in {"data", "window"}
        PROVE  Way(kind, e, t) \in Nat /\ Held(kind, e, t) \in Nat /\ egress[t] \in Planes
    BY Sizes
  <2>2. ASSUME NEW e \in Ends, NEW kind \in {"data", "window"}
        PROVE  Way(kind, e, t)' = Way(kind, e, t) \/ (Way(kind, e, t)' = 0 /\ egress[t] \notin link')
    <3>1. egress'[t] = egress[t] /\ egress[t] \in Planes
      BY <2>1 DEF SocketStep
    <3>2. \/ wire'[e][t][egress[t]] = wire[e][t][egress[t]]
          \/ wire'[e][t][egress[t]] = <<>> /\ egress[t] \notin link'
      BY <3>1 DEF SocketStep
    <3> QED
      BY <3>1, <3>2, SizeEmpty DEF Way
  <2> QED
    BY <2>1, <2>2
<1>4. Fresh(t)'
  <2>1. SUFFICES ASSUME stage["backend"][t] \in {"idle", "looked"}
                 PROVE  /\ stage'["proxy"][t] = "idle"
                        /\ \A e \in Ends : /\ inbox'[e][t] = <<>>
                                           /\ \A p \in Planes : wire'[e][t][p] = <<>>
    BY DEF Fresh, SocketStep, Ends
  <2>2. /\ stage["proxy"][t] = "idle"
        /\ \A e \in Ends : inbox[e][t] = <<>> /\ \A p \in Planes : wire[e][t][p] = <<>>
    BY <2>1 DEF StreamInv, Fresh
  <2>3. stage'["proxy"][t] = "idle"
    BY <2>2 DEF SocketStep, Ends
  <2> QED
    BY <2>1, <2>2, <2>3 DEF SocketStep
<1>5. Routed(t)'
  BY DEF StreamInv, Routed, SocketStep, Ends
<1>6. Undialled(t)'
  <2>1. SUFFICES ASSUME stage["proxy"][t] = "idle"
                 PROVE  \A e \in Ends : /\ inbox'[e][t] \in Seq(Quiet)
                                        /\ \A p \in Planes : wire'[e][t][p] \in Seq(Quiet)
    BY DEF StreamInv, Undialled, SocketStep, Ends
  <2>2. \A e \in Ends : /\ inbox[e][t] \in Seq(Quiet)
                        /\ \A p \in Planes : wire[e][t][p] \in Seq(Quiet)
    BY <2>1 DEF StreamInv, Undialled
  <2>3. Note("close") \in Quiet
    BY NoteIs DEF Kinds
  <2>4. \A e \in Ends : Append(inbox[e][t], Note("close")) \in Seq(Quiet)
    BY <2>2, <2>3, AppendIs
  <2>5. <<>> \in Seq(Quiet)
    OBVIOUS
  <2> QED
    BY <2>2, <2>4, <2>5 DEF SocketStep
<1>7. OneOpen(t)'
  <2>1. <<>> \in Seq(NotOpen)
    OBVIOUS
  <2> SUFFICES ASSUME NEW p \in Planes
               PROVE  /\ wire'["backend"][t][p] \in Seq(NotOpen)
                      /\ stage'["proxy"][t] # "idle" => wire'["proxy"][t][p] \in Seq(NotOpen)
                      /\ wire'["proxy"][t][p] # <<>> => Tail(wire'["proxy"][t][p]) \in Seq(NotOpen)
    BY DEF OneOpen
  <2>2. /\ wire["backend"][t][p] \in Seq(NotOpen)
        /\ stage["proxy"][t] # "idle" => wire["proxy"][t][p] \in Seq(NotOpen)
        /\ wire["proxy"][t][p] # <<>> => Tail(wire["proxy"][t][p]) \in Seq(NotOpen)
    BY DEF StreamInv, OneOpen
  <2>3. /\ stage'["proxy"][t] = stage["proxy"][t]
        /\ wire'["proxy"][t][p] = wire["proxy"][t][p] \/ wire'["proxy"][t][p] = <<>>
        /\ wire'["backend"][t][p] = wire["backend"][t][p] \/ wire'["backend"][t][p] = <<>>
    BY DEF SocketStep, Ends
  <2> QED
    BY <2>1, <2>2, <2>3
<1>8. Pinned(t)'
  BY DEF StreamInv, Pinned, SocketStep
<1>9. Booked(t)'
  <2> SUFFICES ASSUME NEW e \in Ends
               PROVE  /\ book'[e][t] + Held("data", e, t)' = Window
                      /\ Held("data", e, t)' + Way("data", e, t)' <= Window
    BY DEF Booked
  <2>1. book[e][t] + Held("data", e, t) = Window /\ Held("data", e, t) + Way("data", e, t) <= Window
    BY DEF StreamInv, Booked
  <2>2. book'[e][t] = book[e][t]
    BY DEF SocketStep
  <2>3. Way("data", e, t)' <= Way("data", e, t) /\ Way("data", e, t)' \in Nat
    BY <1>3
  <2> QED
    BY <1>2, <1>3, <2>1, <2>2, <2>3, BoundedType
<1>10. Credited(t)'
  <2> SUFFICES ASSUME NEW e \in Ends
               PROVE  /\ avail'[e][t] + held'[e][t] <= Window
                      /\ stage'[e][t] # "ended" => Total(e, t)' <= Window
                      /\ Whole(t)' => Total(e, t)' = Window
    BY DEF Credited
  <2>1. /\ avail[e][t] + held[e][t] <= Window
        /\ stage[e][t] # "ended" => Total(e, t) <= Window
        /\ Whole(t) => Total(e, t) = Window
    BY DEF StreamInv, Credited
  <2>2. avail'[e][t] = avail[e][t] /\ held'[e][t] = held[e][t] /\ stage'[e][t] = stage[e][t]
    BY DEF SocketStep
  <2>3. /\ avail[e][t] \in Nat /\ held[e][t] \in Nat
        /\ Missing(e, t)' = Missing(e, t) /\ Missing(e, t) \in Nat
    BY Sizes DEF SocketStep, Missing
  <2> DEFINE o == Other(e)
  <2>4. /\ Held("data", o, t)' = Held("data", o, t) /\ Held("data", o, t) \in Nat
        /\ Held("window", e, t)' = Held("window", e, t) /\ Held("window", e, t) \in Nat
        /\ Way("data", o, t) \in Nat /\ Way("window", e, t) \in Nat
        /\ Way("data", o, t)' = Way("data", o, t) \/ (Way("data", o, t)' = 0 /\ egress[t] \notin link')
        /\ Way("window", e, t)' = Way("window", e, t) \/ (Way("window", e, t)' = 0 /\ egress[t] \notin link')
    BY <1>1, <1>2, <1>3
  <2>5. Total(e, t)' <= Total(e, t) /\ Total(e, t) \in Nat /\ Total(e, t)' \in Nat
        /\ (egress[t] \in link' => Total(e, t)' = Total(e, t))
    BY <2>2, <2>3, <2>4 DEF Total
  <2>6. ASSUME stage["backend"][t] \in {"idle", "looked"}
        PROVE  Total(e, t)' = Total(e, t)
    <3>1. wire[o][t][egress[t]] = <<>> /\ wire[e][t][egress[t]] = <<>>
      BY <2>6, <1>1, Sizes DEF StreamInv, Fresh
    <3>2. Way("data", o, t) = 0 /\ Way("window", e, t) = 0
      BY <3>1, SizeEmpty DEF Way
    <3> QED
      BY <3>2, <2>2, <2>3, <2>4 DEF Total
  <2>7. Whole(t)' => Whole(t) /\ (egress[t] \in link' \/ stage["backend"][t] \in {"idle", "looked"})
    BY DEF Whole, SocketStep, Ends
  <2> QED
    BY <2>1, <2>2, <2>5, <2>6, <2>7, BoundedType
<1>11. Turned(t)'
  <2> SUFFICES ASSUME NEW e \in Ends
               PROVE  /\ read'[e][t] <= Bytes[e]
                      /\ \A i \in DOMAIN got'[e][t] : got'[e][t][i] = i
                      /\ \E m \in 0..read'[Other(e)][t] :
                            /\ InTurn(inbox'[e][t], Len(got'[e][t]), m)
                            /\ Known(e, t)' =>
                                  \E n \in 0..read'[Other(e)][t] :
                                      /\ InTurn(wire'[e][t][egress'[t]], m, n)
                                      /\ egress'[t] \in link' => n = read'[Other(e)][t]
    BY DEF Turned
  <2>1. read[e][t] <= Bytes[e] /\ \A i \in DOMAIN got[e][t] : got[e][t][i] = i
    BY DEF StreamInv, Turned
  <2>2. PICK m \in 0..read[Other(e)][t] :
                            /\ InTurn(inbox[e][t], Len(got[e][t]), m)
                            /\ Known(e, t) =>
                                  \E n \in 0..read[Other(e)][t] :
                                      /\ InTurn(wire[e][t][egress[t]], m, n)
                                      /\ egress[t] \in link => n = read[Other(e)][t]
    BY DEF StreamInv, Turned
  <2>3. /\ read'[e][t] = read[e][t] /\ read'[Other(e)][t] = read[Other(e)][t]
        /\ got'[e][t] = got[e][t] /\ egress'[t] = egress[t]
    BY <1>1 DEF SocketStep
  <2>4. read[Other(e)][t] \in Nat /\ inbox[e][t] \in Seq(Frames) /\ egress[t] \in Planes /\ m \in Nat
    <3>1. read[Other(e)][t] \in Nat
      BY <1>1, Sizes
    <3>2. inbox[e][t] \in Seq(Frames) /\ egress[t] \in Planes
      BY Sizes
    <3> QED
      BY <3>1, <3>2
  <2>5. InTurn(inbox'[e][t], Len(got[e][t]), m)
    <3>1. CASE inbox'[e][t] = inbox[e][t]
      BY <3>1, <2>2
    <3>2. CASE inbox'[e][t] = Append(inbox[e][t], Note("close"))
      <4>1. Note("close") \in Frames /\ Weight("data", Note("close")) = 0 /\ Note("close").kind # "data"
        BY NoteIs, Subsets DEF Kinds
      <4>2. InTurn(Append(inbox[e][t], Note("close")), Len(got[e][t]), m + 0)
        BY <4>1, <2>2, <2>4, TurnAppend
      <4> QED
        BY <3>2, <4>2, <2>4
    <3> QED
      BY <3>1, <3>2 DEF SocketStep
  <2>6. Known(e, t)' => Known(e, t)
    BY DEF Known, SocketStep, Ends
  <2>7. ASSUME Known(e, t)'
        PROVE  \E n \in 0..read[Other(e)][t] :
                   /\ InTurn(wire'[e][t][egress[t]], m, n)
                   /\ egress[t] \in link' => n = read[Other(e)][t]
    <3>1. CASE wire'[e][t][egress[t]] = wire[e][t][egress[t]]
      BY <2>2, <2>6, <2>7, <3>1 DEF SocketStep
    <3>2. CASE wire'[e][t][egress[t]] = <<>> /\ egress[t] \notin link'
      <4>1. InTurn(<<>>, m, m)
        BY <2>4, TurnEmpty
      <4> QED
        BY <3>2, <4>1, <2>2
    <3> QED
      BY <3>1, <3>2, <2>4 DEF SocketStep
  <2> QED
    BY <2>1, <2>2, <2>3, <2>5, <2>7
<1> QED
  BY <1>4, <1>5, <1>6, <1>7, <1>8, <1>9, <1>10, <1>11 DEF StreamInv

-----------------------------------------------------------------------------
(* What an end does to its own stream                                      *)

\* What an append to a wire, or a take from it, does to its size.
LEMMA WireSent ==
  ASSUME Shape, NEW s \in Streams, NEW x \in Ends, NEW f \in Honest, NEW kind, egress'[s] = egress[s],
         wire'[x][s][egress[s]] = Append(wire[x][s][egress[s]], f)
  PROVE  Way(kind, x, s)' = Way(kind, x, s) + Weight(kind, f)
<1>1. wire[x][s][egress[s]] \in Seq(Frames) /\ f \in Frames
  BY Sizes, Subsets
<1> QED
  BY <1>1, SizeAppend DEF Way

\* A frame taken from a wire takes its weight.
LEMMA WireTaken ==
  ASSUME Shape, NEW s \in Streams, NEW x \in Ends, NEW kind, egress'[s] = egress[s],
         wire[x][s][egress[s]] # <<>>, wire'[x][s][egress[s]] = Tail(wire[x][s][egress[s]])
  PROVE  /\ Way(kind, x, s) = Way(kind, x, s)' + Weight(kind, Head(wire[x][s][egress[s]]))
         /\ Head(wire[x][s][egress[s]]) \in Honest
<1>1. wire[x][s][egress[s]] \in Seq(Frames) /\ wire[x][s][egress[s]] \in Seq(Honest)
  BY Sizes
<1>2. Head(wire[x][s][egress[s]]) \in Honest
  BY <1>1, TailIs
<1> QED
  BY <1>1, <1>2, SizeTail DEF Way

\* A frame processed takes its weight from the inbox.
LEMMA InboxTaken ==
  ASSUME Shape, NEW s \in Streams, NEW x \in Ends, NEW kind, inbox[x][s] # <<>>,
         inbox'[x][s] = Tail(inbox[x][s])
  PROVE  /\ Held(kind, x, s) = Held(kind, x, s)' + Weight(kind, Head(inbox[x][s]))
         /\ Head(inbox[x][s]) \in Honest
<1>1. inbox[x][s] \in Seq(Frames) /\ inbox[x][s] \in Seq(Honest)
  BY Sizes
<1>2. Head(inbox[x][s]) \in Honest
  BY <1>1, TailIs
<1> QED
  BY <1>1, <1>2, SizeTail DEF Held

\* A frame ingested adds its weight to the inbox.
LEMMA InboxPut ==
  ASSUME Shape, NEW s \in Streams, NEW x \in Ends, NEW f \in Honest, NEW kind,
         inbox'[x][s] = Append(inbox[x][s], f)
  PROVE  Held(kind, x, s)' = Held(kind, x, s) + Weight(kind, f)
<1>1. inbox[x][s] \in Seq(Frames) /\ f \in Frames
  BY Sizes, Subsets
<1> QED
  BY <1>1, SizeAppend DEF Held

\* The wires of s after a frame f was sent to end o, or lost.
SendStep(o, s, f) ==
    /\ egress'[s] = egress[s] /\ link' = link
    /\ \A x \in Ends, p \in Planes :
          wire'[x][s][p] = IF x = o /\ p = egress[s] /\ egress[s] \in link
                           THEN Append(wire[x][s][p], f) ELSE wire[x][s][p]

\* A sent frame other than an open keeps the order of opens and the plane.
LEMMA SentKeeps ==
  ASSUME Shape, NEW s \in Streams, NEW o \in Ends, NEW f \in NotOpen, SendStep(o, s, f),
         OneOpen(s), Pinned(s), stage["proxy"][s] = "idle" \/ stage'["proxy"][s] # "idle"
  PROVE  /\ Pinned(s)'
         /\ stage'["proxy"][s] = stage["proxy"][s] \/ stage["proxy"][s] # "idle" => OneOpen(s)'
<1>1. Pinned(s)'
  BY DEF Pinned, SendStep
<1>2. ASSUME stage'["proxy"][s] = stage["proxy"][s] \/ stage["proxy"][s] # "idle"
      PROVE  OneOpen(s)'
  <2> SUFFICES ASSUME NEW p \in Planes
               PROVE  /\ wire'["backend"][s][p] \in Seq(NotOpen)
                      /\ stage'["proxy"][s] # "idle" => wire'["proxy"][s][p] \in Seq(NotOpen)
                      /\ wire'["proxy"][s][p] # <<>> => Tail(wire'["proxy"][s][p]) \in Seq(NotOpen)
    BY DEF OneOpen
  <2>1. /\ wire["backend"][s][p] \in Seq(NotOpen)
        /\ stage["proxy"][s] # "idle" => wire["proxy"][s][p] \in Seq(NotOpen)
        /\ wire["proxy"][s][p] # <<>> => Tail(wire["proxy"][s][p]) \in Seq(NotOpen)
    BY DEF OneOpen
  <2>2. wire["proxy"][s][p] \in Seq(Frames)
    BY Sizes DEF Ends
  <2>3. Append(wire["backend"][s][p], f) \in Seq(NotOpen)
    BY <2>1, AppendIs
  <2>4. stage["proxy"][s] # "idle" => Append(wire["proxy"][s][p], f) \in Seq(NotOpen)
    BY <2>1, AppendIs
  <2>5. Tail(Append(wire["proxy"][s][p], f)) \in Seq(NotOpen)
    BY <2>1, <2>2, Subsets, TailOfAppend
  <2>6. /\ wire'["proxy"][s][p] = wire["proxy"][s][p] \/ wire'["proxy"][s][p] = Append(wire["proxy"][s][p], f)
        /\ wire'["backend"][s][p] = wire["backend"][s][p]
           \/ wire'["backend"][s][p] = Append(wire["backend"][s][p], f)
    BY DEF SendStep, Ends
  <2>7. stage'["proxy"][s] # "idle" => stage["proxy"][s] # "idle"
    BY <1>2
  <2> QED
    BY <2>1, <2>3, <2>4, <2>5, <2>6, <2>7
<1> QED
  BY <1>1, <1>2

\* What a sent frame adds to the wires.
LEMMA SentSizes ==
  ASSUME Shape, NEW s \in Streams, NEW o \in Ends, NEW f \in Honest, SendStep(o, s, f), NEW kind
  PROVE  /\ Way(kind, o, s)' = Way(kind, o, s) + (IF egress[s] \in link THEN Weight(kind, f) ELSE 0)
         /\ \A x \in Ends : x # o => Way(kind, x, s)' = Way(kind, x, s)
<1>1. egress[s] \in Planes /\ egress'[s] = egress[s]
  BY Sizes DEF SendStep, Ends
<1>2. Way(kind, o, s) \in Nat
  BY Sizes
<1>3. CASE egress[s] \in link
  <2>1. wire'[o][s][egress[s]] = Append(wire[o][s][egress[s]], f)
    BY <1>1, <1>3 DEF SendStep
  <2>2. \A x \in Ends : x # o => wire'[x][s][egress[s]] = wire[x][s][egress[s]]
    BY <1>1 DEF SendStep
  <2>3. Way(kind, o, s)' = Way(kind, o, s) + Weight(kind, f)
    BY <1>1, <2>1, WireSent
  <2>4. \A x \in Ends : x # o => Way(kind, x, s)' = Way(kind, x, s)
    BY <1>1, <2>2 DEF Way
  <2> QED
    BY <1>3, <2>3, <2>4
<1>4. CASE egress[s] \notin link
  <2>1. \A x \in Ends : wire'[x][s][egress[s]] = wire[x][s][egress[s]]
    BY <1>1, <1>4 DEF SendStep
  <2> QED
    BY <1>1, <1>2, <1>4, <2>1 DEF Way
<1> QED
  BY <1>3, <1>4

\* What a sent frame does to the turn of the wire: the frame follows.
LEMMA SentTurn ==
  ASSUME Shape, NEW s \in Streams, NEW o \in Ends, NEW f \in Honest, SendStep(o, s, f),
         NEW m \in Nat, NEW n \in Nat, InTurn(wire[o][s][egress[s]], m, n),
         f.kind = "data" => f.first = n + 1
  PROVE  InTurn(wire'[o][s][egress[s]], m, n + (IF egress[s] \in link THEN Weight("data", f) ELSE 0))
<1>1. egress[s] \in Planes /\ wire[o][s][egress[s]] \in Seq(Frames) /\ f \in Frames
  BY Sizes, Subsets
<1>2. CASE egress[s] \in link
  <2>1. wire'[o][s][egress[s]] = Append(wire[o][s][egress[s]], f)
    BY <1>1, <1>2 DEF SendStep
  <2> QED
    BY <1>1, <1>2, <2>1, TurnAppend
<1>3. CASE egress[s] \notin link
  <2>1. wire'[o][s][egress[s]] = wire[o][s][egress[s]] /\ n + 0 = n
    BY <1>1, <1>3 DEF SendStep
  <2> QED
    BY <1>3, <2>1
<1> QED
  BY <1>2, <1>3

\* An end is through with its stream: its own state is reset, a note may be
\* under way to the other end.
EndStep(e, s, k) ==
    LET o == Other(e) IN
    /\ stage[e][s] \in {"opening", "open"}
    /\ stage'[e][s] = "ended" /\ stage'[o][s] = stage[o][s]
    /\ s \in routed' => s \in routed /\ e # "backend"
    /\ inbox'[e][s] = <<>> /\ inbox'[o][s] = inbox[o][s]
    /\ avail'[e][s] = Window /\ held'[e][s] = 0 /\ book'[e][s] = Window
    /\ avail'[o][s] = avail[o][s] /\ held'[o][s] = held[o][s] /\ book'[o][s] = book[o][s]
    /\ got'[e][s] = got[e][s] /\ got'[o][s] = got[o][s]
    /\ read'[o][s] = read[o][s] /\ read'[e][s] = read[e][s] /\ lost'[s] = lost[s]
    /\ k \in {"close", "refused"}
    /\ egress'[s] = egress[s] /\ link' = link
    /\ SendStep(o, s, Note(k)) \/ \A x \in Ends : wire'[x][s] = wire[x][s]

\* Such an end keeps the invariant of the stream.
LEMMA EndKeeps ==
  ASSUME Shape, NEW s \in Streams, StreamInv(s), NEW e \in Ends, NEW k, EndStep(e, s, k)
  PROVE  StreamInv(s)'
<1> DEFINE o == Other(e)
           f == Note(k)
<1>1. o \in Ends /\ o # e /\ Other(o) = e /\ Ends = {e, o} /\ (e = "backend" => o = "proxy")
      /\ (e = "proxy" => o = "backend") /\ e \in {"backend", "proxy"}
  BY DEF Other, Ends
<1>2. /\ f \in Honest /\ f \in NotOpen /\ f \in Quiet /\ f.kind # "data"
      /\ \A kind : Weight(kind, f) = 0
  <2>1. k \in Kinds /\ k \in {"close", "refused"}
    BY DEF EndStep, Kinds
  <2> QED
    BY <2>1, NoteIs
<1>3. /\ stage[e][s] \in {"opening", "open"} /\ stage'[e][s] = "ended" /\ stage'[o][s] = stage[o][s]
      /\ s \in routed' => s \in routed /\ e # "backend"
      /\ inbox'[e][s] = <<>> /\ inbox'[o][s] = inbox[o][s]
      /\ avail'[e][s] = Window /\ held'[e][s] = 0 /\ book'[e][s] = Window
      /\ avail'[o][s] = avail[o][s] /\ held'[o][s] = held[o][s] /\ book'[o][s] = book[o][s]
      /\ got'[e][s] = got[e][s] /\ got'[o][s] = got[o][s]
      /\ egress'[s] = egress[s] /\ link' = link
  BY DEF EndStep
<1>4. read'[o][s] = read[o][s] /\ read'[e][s] = read[e][s] /\ lost'[s] = lost[s]
  BY DEF EndStep
<1>5. SendStep(o, s, f) \/ \A x \in Ends : wire'[x][s] = wire[x][s]
  BY DEF EndStep
<1> HIDE DEF o, f
<1>6. stage["backend"][s] \notin {"idle", "looked"} /\ stage'["backend"][s] \notin {"idle", "looked"}
  BY <1>1, <1>3 DEF StreamInv, Fresh
<1>7. stage'["proxy"][s] = "idle" <=> e = "backend" /\ stage["proxy"][s] = "idle"
  BY <1>1, <1>3
<1>8. \A x \in Ends, kind \in {"data", "window"} :
          Way(kind, x, s) \in Nat /\ Held(kind, x, s) \in Nat /\ Way(kind, x, s)' = Way(kind, x, s)
  <2>1. \A x \in Ends, kind \in {"data", "window"} : Way(kind, x, s) \in Nat /\ Held(kind, x, s) \in Nat
    BY Sizes
  <2>2. CASE SendStep(o, s, f)
    <3>1. \A kind : Way(kind, o, s)' = Way(kind, o, s) + 0
      BY <1>1, <1>2, <2>2, SentSizes
    <3>2. \A kind : \A x \in Ends : x # o => Way(kind, x, s)' = Way(kind, x, s)
      BY <1>1, <1>2, <2>2, SentSizes
    <3> QED
      BY <1>1, <2>1, <3>1, <3>2
  <2>3. CASE \A x \in Ends : wire'[x][s] = wire[x][s]
    BY <2>1, <2>3, <1>3 DEF Way
  <2> QED
    BY <2>2, <2>3, <1>5
<1>9. /\ \A kind : Held(kind, e, s)' = 0
      /\ \A kind : Held(kind, o, s)' = Held(kind, o, s)
  BY <1>3, SizeEmpty DEF Held
<1>10. Fresh(s)' /\ Routed(s)'
  <2>1. Fresh(s)'
    BY <1>6 DEF Fresh
  <2>2. Routed(s)'
    BY <1>1, <1>3 DEF StreamInv, Routed
  <2> QED
    BY <2>1, <2>2
<1>11. Undialled(s)'
  <2> SUFFICES ASSUME stage'["proxy"][s] = "idle"
               PROVE  /\ stage'["backend"][s] # "open"
                      /\ \A x \in Ends : /\ read'[x][s] = 0 /\ got'[x][s] = <<>>
                                         /\ inbox'[x][s] \in Seq(Quiet)
                                         /\ \A p \in Planes : wire'[x][s][p] \in Seq(Quiet)
    BY DEF Undialled
  <2>1. e = "backend" /\ stage["proxy"][s] = "idle"
    BY <1>7
  <2>2. /\ stage["backend"][s] # "open"
        /\ \A x \in Ends : /\ read[x][s] = 0 /\ got[x][s] = <<>>
                           /\ inbox[x][s] \in Seq(Quiet)
                           /\ \A p \in Planes : wire[x][s][p] \in Seq(Quiet)
    BY <2>1 DEF StreamInv, Undialled
  <2>3. \A x \in Ends : read'[x][s] = 0 /\ got'[x][s] = <<>>
    BY <1>1, <1>3, <1>4, <2>1, <2>2
  <2>4. <<>> \in Seq(Quiet)
    OBVIOUS
  <2>5. \A x \in Ends : inbox'[x][s] \in Seq(Quiet)
    BY <1>1, <1>3, <2>2, <2>4
  <2>6. \A x \in Ends, p \in Planes : Append(wire[x][s][p], f) \in Seq(Quiet)
    BY <1>2, <2>2, AppendIs
  <2>7. \A x \in Ends, p \in Planes : wire'[x][s][p] \in Seq(Quiet)
    BY <1>5, <2>2, <2>6 DEF SendStep
  <2> QED
    BY <1>1, <1>3, <2>1, <2>3, <2>5, <2>7
<1>12. OneOpen(s)' /\ Pinned(s)'
  <2>1. CASE SendStep(o, s, f)
    <3>1. stage["proxy"][s] = "idle" \/ stage'["proxy"][s] # "idle"
      BY <1>1, <1>3
    <3>2. stage'["proxy"][s] = stage["proxy"][s] \/ stage["proxy"][s] # "idle"
      BY <1>1, <1>3
    <3> QED
      BY <2>1, <3>1, <3>2, <1>1, <1>2, SentKeeps DEF StreamInv
  <2>2. CASE \A x \in Ends : wire'[x][s] = wire[x][s]
    <3>1. Pinned(s)'
      BY <2>2, <1>3 DEF StreamInv, Pinned
    <3>2. stage'["proxy"][s] # "idle" => stage["proxy"][s] # "idle"
      BY <1>1, <1>3
    <3>3. wire'["proxy"][s] = wire["proxy"][s] /\ wire'["backend"][s] = wire["backend"][s]
      BY <2>2 DEF Ends
    <3>4. OneOpen(s)'
      BY <3>2, <3>3 DEF StreamInv, OneOpen
    <3> QED
      BY <3>1, <3>4
  <2> QED
    BY <1>5, <2>1, <2>2
<1>13. Booked(s)'
  <2>1. \A x \in Ends : /\ book[x][s] + Held("data", x, s) = Window
                        /\ Held("data", x, s) + Way("data", x, s) <= Window
    BY DEF StreamInv, Booked
  <2>2. book'[e][s] + Held("data", e, s)' = Window /\ Held("data", e, s)' + Way("data", e, s)' <= Window
    BY <1>1, <1>3, <1>8, <1>9, <2>1, BoundedType
  <2>3. book'[o][s] + Held("data", o, s)' = Window /\ Held("data", o, s)' + Way("data", o, s)' <= Window
    BY <1>1, <1>3, <1>8, <1>9, <2>1, BoundedType
  <2> QED
    BY <1>1, <2>2, <2>3 DEF Booked
<1>14. Credited(s)'
  <2>1. \A x \in Ends : avail[x][s] + held[x][s] <= Window /\ avail[x][s] \in Nat /\ held[x][s] \in Nat
                        /\ (stage[x][s] # "ended" => Total(x, s) <= Window)
    BY Sizes DEF StreamInv, Credited
  <2>2. ~Whole(s)'
    BY <1>1, <1>3 DEF Whole
  <2>3. avail'[e][s] + held'[e][s] <= Window
    BY <1>3, BoundedType
  <2>4. avail'[o][s] + held'[o][s] <= Window
    BY <1>1, <1>3, <2>1
  <2>5. stage[o][s] # "ended" => Total(o, s)' <= Window
    <3>1. /\ avail'[o][s] = avail[o][s] /\ held'[o][s] = held[o][s]
          /\ avail[o][s] \in Nat /\ held[o][s] \in Nat
          /\ Missing(o, s)' = Missing(o, s) /\ Missing(o, s) \in Nat
      BY <1>1, <1>3, <1>4, <2>1, Sizes DEF Missing
    <3>2. /\ Way("data", e, s)' = Way("data", e, s) /\ Way("window", o, s)' = Way("window", o, s)
          /\ Way("data", e, s) \in Nat /\ Way("window", o, s) \in Nat
          /\ Held("data", e, s) \in Nat /\ Held("window", o, s) \in Nat
      BY <1>1, <1>8
    <3>3. Held("data", e, s)' = 0 /\ Held("window", o, s)' = Held("window", o, s)
      BY <1>9
    <3>4. Total(o, s)' <= Total(o, s) /\ Total(o, s) \in Nat /\ Total(o, s)' \in Nat
      BY <1>1, <3>1, <3>2, <3>3 DEF Total
    <3> QED
      BY <1>1, <2>1, <3>4, BoundedType
  <2> QED
    BY <1>1, <1>3, <2>2, <2>3, <2>4, <2>5 DEF Credited
<1>15. Turned(s)'
  <2>1. ASSUME NEW x \in Ends
        PROVE  /\ read'[x][s] <= Bytes[x]
               /\ \A i \in DOMAIN got'[x][s] : got'[x][s][i] = i
    BY <1>1, <1>3, <1>4 DEF StreamInv, Turned
  <2>2. PICK m \in 0..read[o][s] : InTurn(inbox[e][s], Len(got[e][s]), m)
    BY <1>1 DEF StreamInv, Turned, o
  <2>3. /\ InTurn(inbox'[e][s], Len(got'[e][s]), Len(got[e][s]))
        /\ Len(got[e][s]) \in 0..read'[o][s] /\ ~Known(e, s)'
    <3>1. Len(got[e][s]) \in 0..m /\ Len(got[e][s]) \in Nat /\ read[o][s] \in Nat
      <4>1. inbox[e][s] \in Seq(Frames) /\ Len(got[e][s]) \in Nat
        BY Sizes
      <4>2. read[o][s] \in Nat
        BY <1>1, Sizes
      <4> QED
        BY <2>2, <4>1, <4>2, TurnStart
    <3>2. ~Known(e, s)'
      BY <1>1, <1>3 DEF Known
    <3> QED
      BY <1>3, <1>4, <2>2, <3>1, <3>2, TurnEmpty
  <2>4. PICK w \in 0..read[e][s] :
            /\ InTurn(inbox[o][s], Len(got[o][s]), w)
            /\ Known(o, s) => \E n \in 0..read[e][s] : /\ InTurn(wire[o][s][egress[s]], w, n)
                                                       /\ egress[s] \in link => n = read[e][s]
    BY <1>1 DEF StreamInv, Turned
  <2>5. read[e][s] \in Nat /\ read'[e][s] \in Nat /\ read[e][s] <= read'[e][s]
        /\ (egress[s] \in link => read'[e][s] = read[e][s])
    BY <1>4, Sizes
  <2>6. Known(o, s)' => Known(o, s)
    BY <1>1, <1>3 DEF Known
  <2>7. ASSUME Known(o, s)'
        PROVE  \E n \in 0..read'[e][s] : /\ InTurn(wire'[o][s][egress[s]], w, n)
                                         /\ egress[s] \in link => n = read'[e][s]
    <3>1. PICK n \in 0..read[e][s] : /\ InTurn(wire[o][s][egress[s]], w, n)
                                     /\ egress[s] \in link => n = read[e][s]
      BY <2>4, <2>6, <2>7
    <3>2. w \in Nat /\ n \in Nat
      BY <2>5
    <3>3. InTurn(wire'[o][s][egress[s]], w, n)
      <4>1. CASE SendStep(o, s, f)
        <5>1. InTurn(wire'[o][s][egress[s]], w, n + 0)
          BY <1>1, <1>2, <3>1, <3>2, <4>1, SentTurn
        <5> QED
          BY <5>1, <3>2
      <4>2. CASE \A x \in Ends : wire'[x][s] = wire[x][s]
        BY <1>1, <3>1, <4>2
      <4> QED
        BY <1>5, <4>1, <4>2
    <3>4. n \in 0..read'[e][s] /\ (egress[s] \in link => n = read'[e][s])
      BY <2>5, <3>1
    <3> QED
      BY <3>3, <3>4
  <2>8. w \in 0..read'[e][s] /\ InTurn(inbox'[o][s], Len(got'[o][s]), w)
    BY <1>3, <2>4, <2>5
  <2>9. ASSUME NEW x \in Ends
        PROVE  \E u \in 0..read'[Other(x)][s] :
                   /\ InTurn(inbox'[x][s], Len(got'[x][s]), u)
                   /\ Known(x, s)' => \E n \in 0..read'[Other(x)][s] :
                                          /\ InTurn(wire'[x][s][egress'[s]], u, n)
                                          /\ egress'[s] \in link' => n = read'[Other(x)][s]
    <3>1. CASE x = e
      BY <3>1, <2>3 DEF o
    <3>2. CASE x = o
      BY <3>2, <1>1, <1>3, <2>7, <2>8
    <3> QED
      BY <1>1, <3>1, <3>2
  <2> QED
    BY <2>1, <2>9 DEF Turned
<1> QED
  BY <1>10, <1>11, <1>12, <1>13, <1>14, <1>15 DEF StreamInv

\* Both ends know of the stream, which stays so.
Awake(s) == stage["backend"][s] \notin {"idle", "looked"} /\ stage["proxy"][s] # "idle"

\* A frame is sent, or no wire moves.
MaySend(o, s, f) == SendStep(o, s, f) \/ (egress'[s] = egress[s] /\ link' = link
                                           /\ \A x \in Ends : wire'[x][s] = wire[x][s])

\* An awake stream keeps the parts about opens, planes and entries.
LEMMA AwakeKeeps ==
  ASSUME Shape, NEW s \in Streams, StreamInv(s), Awake(s), Awake(s)',
         NEW o \in Ends, NEW f \in NotOpen, MaySend(o, s, f),
         s \in routed' => s \in routed /\ stage'["backend"][s] \in {"opening", "open"}
  PROVE  Fresh(s)' /\ Routed(s)' /\ Undialled(s)' /\ OneOpen(s)' /\ Pinned(s)'
<1>1. Fresh(s)' /\ Routed(s)' /\ Undialled(s)'
  BY DEF Fresh, Routed, Undialled, Awake
<1>2. CASE SendStep(o, s, f)
  BY <1>1, <1>2, SentKeeps DEF StreamInv, Awake
<1>3. CASE egress'[s] = egress[s] /\ \A x \in Ends : wire'[x][s] = wire[x][s]
  <2>1. Pinned(s)'
    BY <1>3 DEF StreamInv, Pinned
  <2>2. wire'["proxy"][s] = wire["proxy"][s] /\ wire'["backend"][s] = wire["backend"][s]
    BY <1>3 DEF Ends
  <2>3. OneOpen(s)'
    BY <2>2 DEF StreamInv, OneOpen, Awake
  <2> QED
    BY <1>1, <2>1, <2>3
<1> QED
  BY <1>2, <1>3 DEF MaySend

\* An end with an open or an admitted stream is not alone in knowing it.
LEMMA OpenAwake ==
  ASSUME NEW s \in Streams, StreamInv(s), NEW e \in Ends, stage[e][s] = "open"
  PROVE  Awake(s)
BY DEF StreamInv, Fresh, Undialled, Awake, Ends

\* A stream the proxy knows is awake.
LEMMA ProxyAwake ==
  ASSUME NEW s \in Streams, StreamInv(s), stage["proxy"][s] \in {"opening", "open"}
  PROVE  Awake(s)
BY DEF StreamInv, Fresh, Awake

\* A step that moves neither bytes nor credit: the uplink of an end takes
\* credit, a note is sent or taken, an end looks, opens or refuses.
QuietStep(s) ==
    /\ \A x \in Ends :
          /\ avail'[x][s] + held'[x][s] = avail[x][s] + held[x][s]
          /\ book'[x][s] = book[x][s] /\ got'[x][s] = got[x][s] /\ read'[x][s] = read[x][s]
          /\ stage[x][s] = "ended" => stage'[x][s] = "ended"
          /\ \A kind \in {"data", "window"} :
                Way(kind, x, s)' = Way(kind, x, s) /\ Held(kind, x, s)' = Held(kind, x, s)
    /\ lost'[s] = lost[s]
    /\ Whole(s)' => Whole(s)

\* Such a step needs only its queues, and what it makes known, looked at.
LEMMA QuietKeeps ==
  ASSUME Shape, Shape', NEW s \in Streams, StreamInv(s), QuietStep(s),
         \A x \in Ends : \A a, b \in Nat :
            InTurn(inbox[x][s], a, b) => InTurn(inbox'[x][s], a, b),
         \A x \in Ends : Known(x, s)' =>
            \/ /\ Known(x, s) /\ (egress'[s] \in link' => egress[s] \in link)
               /\ \A a, b \in Nat : InTurn(wire[x][s][egress[s]], a, b)
                                    => InTurn(wire'[x][s][egress'[s]], a, b)
            \/ /\ read[Other(x)][s] = 0
               /\ \A a \in Nat : InTurn(wire'[x][s][egress'[s]], a, a)
  PROVE  Booked(s)' /\ Credited(s)' /\ Turned(s)'
<1>1. \A x \in Ends : Other(x) \in Ends
  BY OtherEnd
<1>2. \A x \in Ends :
          /\ avail'[x][s] + held'[x][s] = avail[x][s] + held[x][s]
          /\ book'[x][s] = book[x][s] /\ got'[x][s] = got[x][s] /\ read'[x][s] = read[x][s]
          /\ stage[x][s] = "ended" => stage'[x][s] = "ended"
          /\ \A kind \in {"data", "window"} :
                Way(kind, x, s)' = Way(kind, x, s) /\ Held(kind, x, s)' = Held(kind, x, s)
  BY DEF QuietStep
<1>3. Booked(s)'
  BY <1>2 DEF StreamInv, Booked
<1>4. \A x \in Ends : Total(x, s)' = Total(x, s)
  <2> SUFFICES ASSUME NEW x \in Ends PROVE Total(x, s)' = Total(x, s)
    OBVIOUS
  <2> DEFINE o == Other(x)
  <2>1. /\ avail[x][s] \in Nat /\ held[x][s] \in Nat /\ Way("data", o, s) \in Nat
        /\ Held("data", o, s) \in Nat /\ Way("window", x, s) \in Nat /\ Held("window", x, s) \in Nat
        /\ Missing(x, s)' = Missing(x, s) /\ Missing(x, s) \in Nat
    BY <1>1, Sizes DEF QuietStep, Missing
  <2>2. avail'[x][s] \in Nat /\ held'[x][s] \in Nat
    BY Sizes, BoundedType DEF Shape
  <2>3. /\ Way("data", o, s)' = Way("data", o, s) /\ Held("data", o, s)' = Held("data", o, s)
        /\ Way("window", x, s)' = Way("window", x, s) /\ Held("window", x, s)' = Held("window", x, s)
    BY <1>1, <1>2
  <2>4. avail'[x][s] + held'[x][s] = avail[x][s] + held[x][s]
    BY <1>2
  <2> QED
    BY <2>1, <2>2, <2>3, <2>4 DEF Total
<1>5. Whole(s)' => Whole(s)
  BY DEF QuietStep
<1>6. Credited(s)'
  BY <1>2, <1>4, <1>5 DEF StreamInv, Credited
<1>7. Turned(s)'
  <2> SUFFICES ASSUME NEW x \in Ends
               PROVE  /\ read'[x][s] <= Bytes[x]
                      /\ \A i \in DOMAIN got'[x][s] : got'[x][s][i] = i
                      /\ \E m \in 0..read'[Other(x)][s] :
                            /\ InTurn(inbox'[x][s], Len(got'[x][s]), m)
                            /\ Known(x, s)' =>
                                  \E n \in 0..read'[Other(x)][s] :
                                      /\ InTurn(wire'[x][s][egress'[s]], m, n)
                                      /\ egress'[s] \in link' => n = read'[Other(x)][s]
    BY DEF Turned
  <2>1. read[x][s] <= Bytes[x] /\ \A i \in DOMAIN got[x][s] : got[x][s][i] = i
    BY DEF StreamInv, Turned
  <2>2. PICK m \in 0..read[Other(x)][s] :
                            /\ InTurn(inbox[x][s], Len(got[x][s]), m)
                            /\ Known(x, s) =>
                                  \E n \in 0..read[Other(x)][s] :
                                      /\ InTurn(wire[x][s][egress[s]], m, n)
                                      /\ egress[s] \in link => n = read[Other(x)][s]
    BY DEF StreamInv, Turned
  <2>3. /\ read'[x][s] = read[x][s] /\ read'[Other(x)][s] = read[Other(x)][s]
        /\ got'[x][s] = got[x][s]
    BY <1>1, <1>2
  <2>4. read[Other(x)][s] \in Nat /\ m \in Nat
    <3>1. read[Other(x)][s] \in Nat
      BY <1>1, Sizes
    <3> QED
      BY <3>1
  <2>5. Len(got[x][s]) \in Nat
    BY Sizes
  <2>6. InTurn(inbox'[x][s], Len(got[x][s]), m)
    BY <2>2, <2>4, <2>5
  <2>7. ASSUME Known(x, s)'
        PROVE  \E n \in 0..read[Other(x)][s] :
                   /\ InTurn(wire'[x][s][egress'[s]], m, n)
                   /\ egress'[s] \in link' => n = read[Other(x)][s]
    <3>1. CASE /\ Known(x, s) /\ (egress'[s] \in link' => egress[s] \in link)
               /\ \A a, b \in Nat : InTurn(wire[x][s][egress[s]], a, b)
                                    => InTurn(wire'[x][s][egress'[s]], a, b)
      <4>1. PICK n \in 0..read[Other(x)][s] :
                     /\ InTurn(wire[x][s][egress[s]], m, n)
                     /\ egress[s] \in link => n = read[Other(x)][s]
        BY <2>2, <3>1
      <4>2. n \in Nat
        BY <2>4
      <4>3. InTurn(wire'[x][s][egress'[s]], m, n)
        BY <2>4, <3>1, <4>1, <4>2
      <4> QED
        BY <3>1, <4>1, <4>3
    <3>2. CASE /\ read[Other(x)][s] = 0
               /\ \A a \in Nat : InTurn(wire'[x][s][egress'[s]], a, a)
      <4>1. m = 0 /\ m \in 0..read[Other(x)][s]
        BY <3>2
      <4> QED
        BY <2>4, <3>2, <4>1
    <3> QED
      BY <2>7, <3>1, <3>2
  <2> QED
    BY <2>1, <2>2, <2>3, <2>6, <2>7
<1> QED
  BY <1>3, <1>6, <1>7

\* The uplink of end e sends n of the bytes it holds credit for.
ReadStep(e, s, n) ==
    LET o == Other(e) IN
    /\ stage[e][s] = "open" /\ stage'[e][s] = stage[e][s] /\ stage'[o][s] = stage[o][s]
    /\ s \in routed' <=> s \in routed
    /\ n \in 1..held[e][s]
    /\ read'[e][s] = read[e][s] + n /\ read'[e][s] <= Bytes[e] /\ read'[o][s] = read[o][s]
    /\ held'[e][s] = 0 /\ avail'[e][s] = avail[e][s] + (held[e][s] - n)
    /\ held'[o][s] = held[o][s] /\ avail'[o][s] = avail[o][s]
    /\ \A x \in Ends : /\ inbox'[x][s] = inbox[x][s] /\ book'[x][s] = book[x][s]
                       /\ got'[x][s] = got[x][s]
    /\ SendStep(o, s, Data(read[e][s] + 1, n)) /\ lost'[s] = lost[s]

\* A read keeps the invariant of the stream.
LEMMA ReadKeeps ==
  ASSUME Shape, NEW s \in Streams, StreamInv(s), NEW e \in Ends, NEW n, ReadStep(e, s, n)
  PROVE  StreamInv(s)'
<1> DEFINE o == Other(e)
           f == Data(read[e][s] + 1, n)
<1>1. o \in Ends /\ o # e /\ Other(o) = e /\ Ends = {e, o}
  BY DEF Other, Ends
<1>2. /\ stage[e][s] = "open" /\ stage'[e][s] = stage[e][s] /\ stage'[o][s] = stage[o][s]
      /\ s \in routed' <=> s \in routed
      /\ read'[e][s] = read[e][s] + n /\ read'[e][s] <= Bytes[e] /\ read'[o][s] = read[o][s]
      /\ held'[e][s] = 0 /\ avail'[e][s] = avail[e][s] + (held[e][s] - n)
      /\ held'[o][s] = held[o][s] /\ avail'[o][s] = avail[o][s]
      /\ \A x \in Ends : /\ inbox'[x][s] = inbox[x][s] /\ book'[x][s] = book[x][s]
                         /\ got'[x][s] = got[x][s]
      /\ SendStep(o, s, f) /\ egress'[s] = egress[s] /\ link' = link /\ lost'[s] = lost[s]
  BY DEF ReadStep, SendStep
<1>3. n \in Nat \ {0} /\ n <= held[e][s] /\ read[e][s] \in Nat /\ held[e][s] \in Nat
      /\ n <= MaxChunk
  <2>1. read[e][s] \in Nat /\ held[e][s] \in Nat /\ held[e][s] \in 0..MaxChunk /\ MaxChunk \in Nat
    BY Sizes, BoundedType
  <2>2. n \in 1..held[e][s]
    BY DEF ReadStep
  <2> QED
    BY <2>1, <2>2
<1>4. read[e][s] + 1 \in 0..Bounded /\ n \in 0..Bounded
  BY <1>1, <1>2, <1>3, BoundedType
<1>5. /\ f \in Honest /\ f \in NotOpen /\ f.first = read[e][s] + 1
      /\ Weight("data", f) = n /\ Weight("window", f) = 0
  BY <1>4, DataIs
<1> HIDE DEF o, f
<1>6. Awake(s)
  BY <1>2, OpenAwake
<1>7. Awake(s)'
  BY <1>1, <1>2, <1>6 DEF Awake, Ends
<1>8. s \in routed' => s \in routed /\ stage'["backend"][s] \in {"opening", "open"}
  BY <1>1, <1>2 DEF StreamInv, Routed, Ends
<1>9. Fresh(s)' /\ Routed(s)' /\ Undialled(s)' /\ OneOpen(s)' /\ Pinned(s)'
  BY <1>1, <1>2, <1>5, <1>6, <1>7, <1>8, AwakeKeeps DEF MaySend
<1>10. /\ Way("data", o, s)' = Way("data", o, s) + (IF egress[s] \in link THEN n ELSE 0)
       /\ Way("window", o, s)' = Way("window", o, s) + 0
       /\ \A kind : Way(kind, e, s)' = Way(kind, e, s)
       /\ \A kind, x : x \in Ends => Held(kind, x, s)' = Held(kind, x, s)
  <2>1. Way("data", o, s)' = Way("data", o, s) + (IF egress[s] \in link THEN Weight("data", f) ELSE 0)
    BY <1>1, <1>2, <1>5, SentSizes
  <2>2. Way("window", o, s)' = Way("window", o, s) + (IF egress[s] \in link THEN Weight("window", f) ELSE 0)
    BY <1>1, <1>2, <1>5, SentSizes
  <2>3. \A kind : Way(kind, e, s)' = Way(kind, e, s)
    BY <1>1, <1>2, <1>5, SentSizes
  <2>4. \A kind, x : x \in Ends => Held(kind, x, s)' = Held(kind, x, s)
    BY <1>2 DEF Held
  <2> QED
    BY <1>5, <2>1, <2>2, <2>3, <2>4
<1>11. \A x \in Ends, kind \in {"data", "window"} : Way(kind, x, s) \in Nat /\ Held(kind, x, s) \in Nat
  BY Sizes
<1>12. \A x \in Ends : /\ avail[x][s] \in Nat /\ held[x][s] \in Nat /\ book[x][s] \in Int
                      /\ Missing(x, s)' = Missing(x, s) /\ Missing(x, s) \in Nat
  BY <1>2, Sizes DEF Missing
<1>13. /\ avail[e][s] + held[e][s] <= Window /\ avail[o][s] + held[o][s] <= Window
       /\ Total(e, s) <= Window
       /\ stage[o][s] # "ended" => Total(o, s) <= Window
       /\ Whole(s) => Total(e, s) = Window /\ Total(o, s) = Window
  BY <1>1, <1>2 DEF StreamInv, Credited
<1>14. Booked(s)'
  <2>1. \A x \in Ends : /\ book[x][s] + Held("data", x, s) = Window
                        /\ Held("data", x, s) + Way("data", x, s) <= Window
    BY DEF StreamInv, Booked
  <2>2. Held("data", o, s) + Way("data", o, s) + n <= Window
    BY <1>1, <1>3, <1>11, <1>12, <1>13, BoundedType DEF Total, o
  <2>3. book'[e][s] + Held("data", e, s)' = Window /\ Held("data", e, s)' + Way("data", e, s)' <= Window
    BY <1>1, <1>2, <1>10, <2>1
  <2>4. book'[o][s] + Held("data", o, s)' = Window
    BY <1>1, <1>2, <1>10, <2>1
  <2>5. Held("data", o, s)' + Way("data", o, s)' <= Window
    <3>1. Held("data", o, s) \in Nat /\ Way("data", o, s) \in Nat /\ Held("data", o, s)' = Held("data", o, s)
      BY <1>1, <1>10, <1>11
    <3> QED
      BY <1>3, <1>10, <2>2, <3>1, BoundedType
  <2> QED
    BY <1>1, <2>3, <2>4, <2>5 DEF Booked
<1>15. Credited(s)'
  <2>1. Whole(s)' => Whole(s) /\ egress[s] \in link
    BY <1>1, <1>2, <1>6, <1>7 DEF Whole, Awake
  <2>2. avail'[e][s] + held'[e][s] <= Window /\ avail'[o][s] + held'[o][s] <= Window
    BY <1>1, <1>2, <1>3, <1>12, <1>13, BoundedType
  <2>3. Total(o, s)' = Total(o, s)
    <3>1. /\ Way("window", o, s)' = Way("window", o, s)
          /\ Way("data", e, s)' = Way("data", e, s)
          /\ Held("data", e, s)' = Held("data", e, s) /\ Held("window", o, s)' = Held("window", o, s)
      BY <1>1, <1>10, <1>11
    <3> QED
      BY <1>1, <1>2, <1>12, <3>1 DEF Total
  <2>4. Total(e, s)' = Total(e, s) - (IF egress[s] \in link THEN 0 ELSE n) /\ Total(e, s) \in Int
    <3>1. /\ Way("window", e, s)' = Way("window", e, s) /\ Way("window", e, s) \in Nat
          /\ Held("data", o, s)' = Held("data", o, s) /\ Held("data", o, s) \in Nat
          /\ Held("window", e, s)' = Held("window", e, s) /\ Held("window", e, s) \in Nat
          /\ Way("data", o, s) \in Nat /\ avail[e][s] \in Nat
          /\ Missing(e, s)' = Missing(e, s) /\ Missing(e, s) \in Nat
      BY <1>1, <1>10, <1>11, <1>12
    <3> QED
      BY <1>2, <1>3, <1>10, <3>1 DEF Total, o
  <2>5. Total(e, s)' <= Window /\ (egress[s] \in link => Total(e, s)' = Total(e, s))
    BY <1>3, <1>13, <2>4, BoundedType
  <2> QED
    BY <1>1, <1>2, <1>13, <2>1, <2>2, <2>3, <2>5 DEF Credited
<1>16. Turned(s)'
  <2>1. ASSUME NEW x \in Ends
        PROVE  /\ read'[x][s] <= Bytes[x]
               /\ \A i \in DOMAIN got'[x][s] : got'[x][s][i] = i
    BY <1>1, <1>2 DEF StreamInv, Turned
  <2>2. PICK m \in 0..read[o][s] :
            /\ InTurn(inbox[e][s], Len(got[e][s]), m)
            /\ Known(e, s) => \E k \in 0..read[o][s] : /\ InTurn(wire[e][s][egress[s]], m, k)
                                                       /\ egress[s] \in link => k = read[o][s]
    BY <1>1 DEF StreamInv, Turned, o
  <2>3. PICK w \in 0..read[e][s] :
            /\ InTurn(inbox[o][s], Len(got[o][s]), w)
            /\ Known(o, s) => \E k \in 0..read[e][s] : /\ InTurn(wire[o][s][egress[s]], w, k)
                                                       /\ egress[s] \in link => k = read[e][s]
    BY <1>1 DEF StreamInv, Turned
  <2>4. /\ Known(e, s)' => Known(e, s)
        /\ Known(o, s)' => Known(o, s)
    BY <1>1, <1>2 DEF Known, Ends
  <2>5. egress[s] \in Planes
    BY Sizes
  <2>6. wire'[e][s][egress[s]] = wire[e][s][egress[s]]
    BY <1>1, <1>2, <2>5 DEF SendStep
  <2>7. ASSUME Known(o, s)'
        PROVE  \E k \in 0..read'[e][s] : /\ InTurn(wire'[o][s][egress[s]], w, k)
                                         /\ egress[s] \in link => k = read'[e][s]
    <3>1. PICK k \in 0..read[e][s] : /\ InTurn(wire[o][s][egress[s]], w, k)
                                     /\ egress[s] \in link => k = read[e][s]
      BY <2>3, <2>4, <2>7
    <3>2. w \in Nat /\ k \in Nat /\ wire[o][s][egress[s]] \in Seq(Frames)
      BY <1>1, <1>3, <2>5, Sizes
    <3>3. CASE egress[s] \in link
      <4>1. k = read[e][s]
        BY <3>1, <3>3
      <4>2. InTurn(wire'[o][s][egress[s]], w, k + (IF egress[s] \in link THEN Weight("data", f) ELSE 0))
        BY <1>1, <1>2, <1>5, <3>1, <3>2, <4>1, SentTurn
      <4>3. InTurn(wire'[o][s][egress[s]], w, read'[e][s])
        BY <1>2, <1>5, <3>3, <4>1, <4>2
      <4>4. read'[e][s] \in 0..read'[e][s]
        BY <1>2, <1>3
      <4> QED
        BY <3>3, <4>3, <4>4
    <3>4. CASE egress[s] \notin link
      <4>1. wire'[o][s][egress[s]] = wire[o][s][egress[s]]
        BY <1>1, <1>2, <2>5, <3>4 DEF SendStep
      <4>2. k \in 0..read'[e][s]
        BY <1>2, <1>3
      <4> QED
        BY <3>1, <3>4, <4>1, <4>2
    <3> QED
      BY <3>3, <3>4
  <2>8. w \in 0..read'[e][s]
    BY <1>2, <1>3
  <2>9. ASSUME NEW x \in Ends
        PROVE  \E u \in 0..read'[Other(x)][s] :
                   /\ InTurn(inbox'[x][s], Len(got'[x][s]), u)
                   /\ Known(x, s)' => \E k \in 0..read'[Other(x)][s] :
                                          /\ InTurn(wire'[x][s][egress'[s]], u, k)
                                          /\ egress'[s] \in link' => k = read'[Other(x)][s]
    <3>1. CASE x = e
      BY <3>1, <1>1, <1>2, <2>2, <2>4, <2>6 DEF o
    <3>2. CASE x = o
      BY <3>2, <1>1, <1>2, <2>3, <2>7, <2>8
    <3> QED
      BY <1>1, <3>1, <3>2
  <2> QED
    BY <2>1, <2>9 DEF Turned
<1> QED
  BY <1>9, <1>14, <1>15, <1>16 DEF StreamInv

\* End e takes a grant, or a frame without a size, from its inbox.
GrantStep(e, s) ==
    LET f == Head(inbox[e][s])
        o == Other(e)
    IN
    /\ stage[e][s] = "open" /\ inbox[e][s] # <<>> /\ f.kind # "data"
    /\ inbox'[e][s] = Tail(inbox[e][s]) /\ inbox'[o][s] = inbox[o][s]
    /\ avail'[e][s] = avail[e][s] + f.size /\ avail'[o][s] = avail[o][s]
    /\ \A x \in Ends : /\ stage'[x][s] = stage[x][s] /\ held'[x][s] = held[x][s]
                       /\ book'[x][s] = book[x][s] /\ got'[x][s] = got[x][s]
                       /\ read'[x][s] = read[x][s] /\ wire'[x][s] = wire[x][s]
    /\ s \in routed' <=> s \in routed
    /\ egress'[s] = egress[s] /\ link' = link /\ lost'[s] = lost[s]

\* A grant taken keeps the invariant of the stream.
LEMMA GrantKeeps ==
  ASSUME Shape, NEW s \in Streams, StreamInv(s), NEW e \in Ends, GrantStep(e, s)
  PROVE  StreamInv(s)'
<1> DEFINE o == Other(e)
           f == Head(inbox[e][s])
<1>1. o \in Ends /\ o # e /\ Other(o) = e /\ Ends = {e, o}
  BY DEF Other, Ends
<1>2. /\ stage[e][s] = "open" /\ inbox[e][s] # <<>> /\ f.kind # "data"
      /\ inbox'[e][s] = Tail(inbox[e][s]) /\ inbox'[o][s] = inbox[o][s]
      /\ avail'[e][s] = avail[e][s] + f.size /\ avail'[o][s] = avail[o][s]
      /\ \A x \in Ends : /\ stage'[x][s] = stage[x][s] /\ held'[x][s] = held[x][s]
                         /\ book'[x][s] = book[x][s] /\ got'[x][s] = got[x][s]
                         /\ read'[x][s] = read[x][s] /\ wire'[x][s] = wire[x][s]
      /\ s \in routed' <=> s \in routed
      /\ egress'[s] = egress[s] /\ link' = link /\ lost'[s] = lost[s]
  BY DEF GrantStep
<1>3. f \in Honest /\ \A kind : Held(kind, e, s) = Held(kind, e, s)' + Weight(kind, f)
  BY <1>2, InboxTaken
<1>4. inbox[e][s] \in Seq(Frames)
  BY Sizes
<1>5. \A a, b \in Nat : InTurn(inbox[e][s], a, b) => InTurn(Tail(inbox[e][s]), a + Weight("data", f), b)
  BY <1>2, <1>4, TurnTail
<1> HIDE DEF o, f
<1>6. /\ Weight("data", f) = 0 /\ Weight("window", f) = f.size /\ f.size \in Nat
  <2>1. f.kind = "window" \/ f.kind \notin {"data", "window"}
    BY <1>2
  <2> QED
    BY <1>2, <1>3, <2>1, WeightType, BoundedType
<1>7. Awake(s) /\ Awake(s)'
  <2>1. Awake(s)
    BY <1>2, OpenAwake
  <2> QED
    BY <1>2, <2>1 DEF Awake, Ends
<1>8. s \in routed' => s \in routed /\ stage'["backend"][s] \in {"opening", "open"}
  BY <1>2 DEF StreamInv, Routed, Ends
<1>9. Fresh(s)' /\ Routed(s)' /\ Undialled(s)' /\ OneOpen(s)' /\ Pinned(s)'
  <2>1. Note("close") \in NotOpen
    BY NoteIs DEF Kinds
  <2>2. MaySend(o, s, Note("close"))
    BY <1>2 DEF MaySend
  <2> QED
    BY <1>1, <1>7, <1>8, <2>1, <2>2, AwakeKeeps
<1>10. \A x \in Ends, kind \in {"data", "window"} : /\ Way(kind, x, s)' = Way(kind, x, s)
                                                    /\ Way(kind, x, s) \in Nat
                                                    /\ Held(kind, x, s) \in Nat
  <2>1. \A x \in Ends, kind \in {"data", "window"} : Way(kind, x, s) \in Nat /\ Held(kind, x, s) \in Nat
    BY Sizes
  <2>2. \A x \in Ends, kind \in {"data", "window"} : Way(kind, x, s)' = Way(kind, x, s)
    BY <1>2 DEF Way
  <2> QED
    BY <2>1, <2>2
<1>11. /\ \A kind : Held(kind, o, s)' = Held(kind, o, s)
       /\ Held("data", e, s)' = Held("data", e, s)
       /\ Held("window", e, s)' = Held("window", e, s) - f.size
       /\ Held("window", e, s)' \in Nat
  <2>1. \A kind : Held(kind, o, s)' = Held(kind, o, s)
    BY <1>2 DEF Held
  <2>2. Tail(inbox[e][s]) \in Seq(Frames)
    BY <1>2, <1>4, TailIs
  <2>3. Held("data", e, s)' \in Nat /\ Held("window", e, s)' \in Nat
    BY <1>2, <2>2, SizeType DEF Held
  <2>4. /\ Held("data", e, s) = Held("data", e, s)' + 0
        /\ Held("window", e, s) = Held("window", e, s)' + f.size
    BY <1>3, <1>6
  <2> QED
    BY <1>6, <1>10, <2>1, <2>3, <2>4
<1>12. Booked(s)'
  BY <1>1, <1>2, <1>10, <1>11 DEF StreamInv, Booked
<1>13. Credited(s)'
  <2>1. /\ avail[e][s] + held[e][s] <= Window /\ avail[o][s] + held[o][s] <= Window
        /\ Total(e, s) <= Window
        /\ stage[o][s] # "ended" => Total(o, s) <= Window
        /\ Whole(s) => Total(e, s) = Window /\ Total(o, s) = Window
    BY <1>1, <1>2 DEF StreamInv, Credited
  <2>2. /\ avail[e][s] \in Nat /\ held[e][s] \in Nat
        /\ \A x \in Ends : Missing(x, s)' = Missing(x, s) /\ Missing(x, s) \in Nat
    BY <1>2, Sizes DEF Missing
  <2>3. Whole(s)' => Whole(s)
    BY <1>2 DEF Whole, Ends
  <2>4. Total(o, s)' = Total(o, s)
    <3>1. /\ Way("window", o, s)' = Way("window", o, s) /\ Way("data", e, s)' = Way("data", e, s)
          /\ Held("data", e, s)' = Held("data", e, s) /\ Held("window", o, s)' = Held("window", o, s)
      BY <1>1, <1>10, <1>11
    <3> QED
      BY <1>1, <1>2, <2>2, <3>1 DEF Total
  <2>5. /\ Way("window", e, s)' = Way("window", e, s) /\ Way("window", e, s) \in Nat
        /\ Way("data", o, s)' = Way("data", o, s) /\ Way("data", o, s) \in Nat
        /\ Held("data", o, s)' = Held("data", o, s) /\ Held("data", o, s) \in Nat
        /\ Held("window", e, s)' = Held("window", e, s) - f.size /\ Held("window", e, s)' \in Nat
        /\ Held("window", e, s) \in Nat
    BY <1>1, <1>10, <1>11
  <2>6. Total(e, s)' = Total(e, s)
    <3>1. avail'[e][s] = avail[e][s] + f.size /\ held'[e][s] = held[e][s]
      BY <1>2
    <3> QED
      BY <1>6, <2>2, <2>5, <3>1 DEF Total, o
  <2>7. avail'[e][s] + held'[e][s] <= Window
    <3>1. avail'[e][s] = avail[e][s] + f.size /\ held'[e][s] = held[e][s]
      BY <1>2
    <3>2. avail[e][s] + held[e][s] + Way("data", o, s) + Held("data", o, s)
          + Way("window", e, s) + Held("window", e, s) + Missing(e, s) <= Window
      BY <2>1 DEF Total, o
    <3>3. f.size <= Held("window", e, s) /\ f.size \in Nat
      BY <1>6, <2>5
    <3> QED
      BY <2>2, <2>5, <3>1, <3>2, <3>3, BoundedType
  <2> QED
    BY <1>1, <1>2, <2>1, <2>3, <2>4, <2>6, <2>7 DEF Credited
<1>14. Turned(s)'
  <2> SUFFICES ASSUME NEW x \in Ends
               PROVE  /\ read'[x][s] <= Bytes[x]
                      /\ \A i \in DOMAIN got'[x][s] : got'[x][s][i] = i
                      /\ \E m \in 0..read'[Other(x)][s] :
                            /\ InTurn(inbox'[x][s], Len(got'[x][s]), m)
                            /\ Known(x, s)' =>
                                  \E k \in 0..read'[Other(x)][s] :
                                      /\ InTurn(wire'[x][s][egress'[s]], m, k)
                                      /\ egress'[s] \in link' => k = read'[Other(x)][s]
    BY DEF Turned
  <2>1. read[x][s] <= Bytes[x] /\ \A i \in DOMAIN got[x][s] : got[x][s][i] = i
    BY DEF StreamInv, Turned
  <2>2. PICK m \in 0..read[Other(x)][s] :
                            /\ InTurn(inbox[x][s], Len(got[x][s]), m)
                            /\ Known(x, s) =>
                                  \E k \in 0..read[Other(x)][s] :
                                      /\ InTurn(wire[x][s][egress[s]], m, k)
                                      /\ egress[s] \in link => k = read[Other(x)][s]
    BY DEF StreamInv, Turned
  <2>3. /\ read'[x][s] = read[x][s] /\ read'[Other(x)][s] = read[Other(x)][s]
        /\ got'[x][s] = got[x][s] /\ wire'[x][s] = wire[x][s]
        /\ Known(x, s)' <=> Known(x, s)
    <3>1. Other(x) \in Ends
      BY OtherEnd
    <3>2. Known(x, s)' <=> Known(x, s)
      BY <1>2 DEF Known, Ends
    <3> QED
      BY <1>2, <3>1, <3>2
  <2>4. m \in Nat /\ Len(got[x][s]) \in Nat
    <3>1. read[Other(x)][s] \in Nat
      BY OtherEnd, Sizes
    <3>2. Len(got[x][s]) \in Nat
      BY Sizes
    <3> QED
      BY <3>1, <3>2
  <2>5. InTurn(inbox'[x][s], Len(got[x][s]), m)
    <3>1. CASE x = e
      <4>1. InTurn(Tail(inbox[e][s]), Len(got[e][s]) + Weight("data", f), m)
        BY <1>5, <2>2, <2>4, <3>1
      <4> QED
        BY <1>2, <1>6, <2>4, <3>1, <4>1
    <3>2. CASE x = o
      BY <1>2, <2>2, <3>2
    <3> QED
      BY <1>1, <3>1, <3>2
  <2> QED
    BY <1>2, <2>1, <2>2, <2>3, <2>5
<1> QED
  BY <1>9, <1>12, <1>13, <1>14 DEF StreamInv

\* End e writes the data at the head of its inbox and grants the window back;
\* the backend's channel may refuse the grant.
WriteStep(e, s) ==
    LET f == Head(inbox[e][s])
        o == Other(e)
    IN
    /\ stage[e][s] = "open" /\ inbox[e][s] # <<>> /\ f.kind = "data"
    /\ inbox'[e][s] = Tail(inbox[e][s]) /\ inbox'[o][s] = inbox[o][s]
    /\ book'[e][s] = book[e][s] + f.size /\ book'[o][s] = book[o][s]
    /\ got'[e][s] = got[e][s] \o [i \in 1..f.size |-> f.first + i - 1] /\ got'[o][s] = got[o][s]
    /\ \A x \in Ends : /\ stage'[x][s] = stage[x][s] /\ held'[x][s] = held[x][s]
                       /\ avail'[x][s] = avail[x][s] /\ read'[x][s] = read[x][s]
    /\ s \in routed' <=> s \in routed
    /\ \/ SendStep(o, s, Grant(f.size)) /\ lost'[s] = lost[s]
       \/ /\ e = "backend" /\ egress[s] \in link /\ egress'[s] = egress[s] /\ link' = link
          /\ \A x \in Ends : wire'[x][s] = wire[x][s]
          /\ lost'[s] = lost[s] + f.size

\* Bytes written after a prefix of what was read make a longer prefix.
LEMMA PrefixGrows ==
  ASSUME NEW q \in Seq(Nat), \A i \in DOMAIN q : q[i] = i, NEW n \in Nat,
         NEW a, a = Len(q) + 1
  PROVE  LET p == q \o [i \in 1..n |-> a + i - 1]
         IN  /\ p \in Seq(Nat) /\ Len(p) = Len(q) + n
             /\ \A i \in DOMAIN p : p[i] = i
<1> DEFINE r == [i \in 1..n |-> a + i - 1]
           p == q \o r
<1>1. Len(q) \in Nat /\ DOMAIN q = 1..Len(q)
  BY LenProperties
<1>2. r \in [1..n -> Nat]
  BY <1>1
<1>3. r \in Seq(Nat) /\ Len(r) = n
  BY <1>2, SeqDef, LenProperties
<1>4. \A i \in 1..n : r[i] = a + i - 1
  OBVIOUS
<1> HIDE DEF r
<1>5. /\ p \in Seq(Nat) /\ Len(p) = Len(q) + n
      /\ \A i \in 1..Len(q) + n : p[i] = IF i <= Len(q) THEN q[i] ELSE r[i - Len(q)]
  BY <1>3, ConcatProperties
<1> HIDE DEF p
<1>6. DOMAIN p = 1..Len(q) + n
  BY <1>5, LenProperties
<1>7. ASSUME NEW i \in 1..Len(q) + n PROVE p[i] = i
  <2>1. CASE i <= Len(q)
    <3>1. i \in 1..Len(q) /\ p[i] = q[i]
      BY <2>1, <1>1, <1>5
    <3> QED
      BY <3>1, <1>1
  <2>2. CASE ~(i <= Len(q))
    <3>1. i - Len(q) \in 1..n
      BY <2>2, <1>1
    <3>2. r[i - Len(q)] = a + (i - Len(q)) - 1
      BY <3>1, <1>4
    <3> QED
      BY <2>2, <3>1, <3>2, <1>1, <1>5
  <2> QED
    BY <2>1, <2>2
<1> QED
  BY <1>5, <1>6, <1>7 DEF p, r

\* A write keeps the invariant of the stream.
LEMMA WriteKeeps ==
  ASSUME Shape, NEW s \in Streams, StreamInv(s), NEW e \in Ends, WriteStep(e, s)
  PROVE  StreamInv(s)' /\ got'[e][s] \in Seq(Nat)
<1> DEFINE o == Other(e)
           f == Head(inbox[e][s])
           g == Grant(f.size)
<1>1. o \in Ends /\ o # e /\ Other(o) = e /\ Ends = {e, o}
  BY DEF Other, Ends
<1>2. /\ stage[e][s] = "open" /\ inbox[e][s] # <<>> /\ f.kind = "data"
      /\ inbox'[e][s] = Tail(inbox[e][s]) /\ inbox'[o][s] = inbox[o][s]
      /\ book'[e][s] = book[e][s] + f.size /\ book'[o][s] = book[o][s]
      /\ got'[e][s] = got[e][s] \o [i \in 1..f.size |-> f.first + i - 1] /\ got'[o][s] = got[o][s]
      /\ \A x \in Ends : /\ stage'[x][s] = stage[x][s] /\ held'[x][s] = held[x][s]
                         /\ avail'[x][s] = avail[x][s] /\ read'[x][s] = read[x][s]
      /\ s \in routed' <=> s \in routed
      /\ \/ SendStep(o, s, g) /\ lost'[s] = lost[s]
         \/ /\ e = "backend" /\ egress[s] \in link /\ \A x \in Ends : wire'[x][s] = wire[x][s]
            /\ lost'[s] = lost[s] + f.size
      /\ egress'[s] = egress[s] /\ link' = link
  BY DEF WriteStep, SendStep
<1>3. f \in Honest /\ \A kind : Held(kind, e, s) = Held(kind, e, s)' + Weight(kind, f)
  BY <1>2, InboxTaken
<1>4. inbox[e][s] \in Seq(Frames)
  BY Sizes
<1>5. \A a, b \in Nat : InTurn(inbox[e][s], a, b) =>
          /\ InTurn(Tail(inbox[e][s]), a + Weight("data", f), b)
          /\ a + Weight("data", f) \in 0..b
          /\ f.first = a + 1
  BY <1>2, <1>4, TurnTail
<1> HIDE DEF f
<1>6. /\ Weight("data", f) = f.size /\ Weight("window", f) = 0 /\ f.size \in 0..Bounded
      /\ f.size \in Nat
  BY <1>2, <1>3, WeightType, BoundedType
<1>7. /\ g \in Honest /\ g \in NotOpen /\ g.kind # "data"
      /\ Weight("data", g) = 0 /\ Weight("window", g) = f.size
  BY <1>6, GrantIs
<1> HIDE DEF o, g
<1>8. Awake(s) /\ Awake(s)'
  <2>1. Awake(s)
    BY <1>2, OpenAwake
  <2> QED
    BY <1>2, <2>1 DEF Awake, Ends
<1>9. s \in routed' => s \in routed /\ stage'["backend"][s] \in {"opening", "open"}
  BY <1>2 DEF StreamInv, Routed, Ends
<1>10. Fresh(s)' /\ Routed(s)' /\ Undialled(s)' /\ OneOpen(s)' /\ Pinned(s)'
  BY <1>1, <1>2, <1>7, <1>8, <1>9, AwakeKeeps DEF MaySend
<1>11. /\ \A x \in Ends, kind \in {"data", "window"} : Way(kind, x, s) \in Nat /\ Held(kind, x, s) \in Nat
       /\ \A kind \in {"data", "window"} : Way(kind, e, s)' = Way(kind, e, s)
       /\ Way("data", o, s)' = Way("data", o, s)
       /\ Missing(e, s)' = Missing(e, s) /\ Missing(e, s) \in Nat /\ Missing(o, s) \in Nat
       /\ Way("window", o, s)' + Missing(o, s)'
          = Way("window", o, s) + Missing(o, s) + (IF egress[s] \in link THEN f.size ELSE 0)
       /\ Way("window", o, s)' \in Nat /\ Missing(o, s)' \in Nat
  <2>1. \A x \in Ends, kind \in {"data", "window"} : Way(kind, x, s) \in Nat /\ Held(kind, x, s) \in Nat
    BY Sizes
  <2>2. \A x \in Ends : Missing(x, s) \in Nat
    BY Sizes
  <2>3. CASE SendStep(o, s, g) /\ lost'[s] = lost[s]
    <3>1. Way("data", o, s)' = Way("data", o, s) + (IF egress[s] \in link THEN Weight("data", g) ELSE 0)
      BY <1>1, <1>7, <2>3, SentSizes
    <3>2. Way("window", o, s)' = Way("window", o, s) + (IF egress[s] \in link THEN Weight("window", g) ELSE 0)
      BY <1>1, <1>7, <2>3, SentSizes
    <3>3. \A kind \in {"data", "window"} : Way(kind, e, s)' = Way(kind, e, s)
      BY <1>1, <1>7, <2>3, SentSizes
    <3>4. \A x \in Ends : Missing(x, s)' = Missing(x, s)
      BY <2>3 DEF Missing
    <3>5. Way("data", o, s) \in Nat /\ Way("window", o, s) \in Nat
      BY <1>1, <2>1
    <3> QED
      BY <1>1, <1>6, <1>7, <2>1, <2>2, <3>1, <3>2, <3>3, <3>4, <3>5
  <2>4. CASE /\ e = "backend" /\ egress[s] \in link /\ \A x \in Ends : wire'[x][s] = wire[x][s]
             /\ lost'[s] = lost[s] + f.size
    <3>1. \A x \in Ends, kind \in {"data", "window"} : Way(kind, x, s)' = Way(kind, x, s)
      BY <1>2, <2>4 DEF Way
    <3>2. e = "backend" /\ o = "proxy"
      BY <2>4 DEF o, Other
    <3>3. /\ Missing(e, s)' = Missing(e, s)
          /\ Missing(o, s)' = Missing(o, s) + f.size
      BY <2>4, <3>2 DEF Missing
    <3>4. Way("window", o, s) \in Nat /\ Missing(o, s) \in Nat
      BY <1>1, <2>1, <2>2
    <3>5. Way("window", o, s)' = Way("window", o, s) /\ Way("data", o, s)' = Way("data", o, s)
      BY <1>1, <3>1
    <3>6. Way("window", o, s)' + Missing(o, s)'
          = Way("window", o, s) + Missing(o, s) + (IF egress[s] \in link THEN f.size ELSE 0)
      BY <1>6, <2>4, <3>3, <3>4, <3>5
    <3> QED
      BY <1>1, <1>6, <2>1, <2>2, <3>1, <3>3, <3>4, <3>5, <3>6
  <2> QED
    BY <1>2, <2>3, <2>4
<1>12. /\ \A kind : Held(kind, o, s)' = Held(kind, o, s)
       /\ Held("data", e, s)' = Held("data", e, s) - f.size
       /\ Held("window", e, s)' = Held("window", e, s)
       /\ Held("data", e, s)' \in Nat
  <2>1. \A kind : Held(kind, o, s)' = Held(kind, o, s)
    BY <1>2 DEF Held
  <2>2. Tail(inbox[e][s]) \in Seq(Frames)
    BY <1>2, <1>4, TailIs
  <2>3. Held("data", e, s)' \in Nat /\ Held("window", e, s)' \in Nat
    BY <1>2, <2>2, SizeType DEF Held
  <2>4. /\ Held("data", e, s) = Held("data", e, s)' + f.size
        /\ Held("window", e, s) = Held("window", e, s)' + 0
    BY <1>3, <1>6
  <2> QED
    BY <1>6, <2>1, <2>3, <2>4
<1>13. /\ \A x \in Ends, kind \in {"data", "window"} : Way(kind, x, s) \in Nat /\ Held(kind, x, s) \in Nat
       /\ \A x \in Ends : avail[x][s] \in Nat /\ held[x][s] \in Nat /\ book[x][s] \in Int
  BY Sizes
<1>14. Booked(s)'
  <2>1. \A x \in Ends : /\ book[x][s] + Held("data", x, s) = Window
                        /\ Held("data", x, s) + Way("data", x, s) <= Window
    BY DEF StreamInv, Booked
  <2>2. book'[e][s] + Held("data", e, s)' = Window
    <3>1. /\ book'[e][s] = book[e][s] + f.size /\ book[e][s] \in Int
          /\ book[e][s] + Held("data", e, s) = Window /\ Held("data", e, s) \in Nat
      BY <1>2, <1>13, <2>1
    <3> QED
      BY <3>1, <1>6, <1>12
  <2>3. Held("data", e, s)' + Way("data", e, s)' <= Window
    BY <1>1, <1>6, <1>11, <1>12, <1>13, <2>1, BoundedType
  <2>4. book'[o][s] + Held("data", o, s)' = Window /\ Held("data", o, s)' + Way("data", o, s)' <= Window
    BY <1>1, <1>2, <1>11, <1>12, <2>1
  <2> QED
    BY <1>1, <2>2, <2>3, <2>4 DEF Booked
<1>15. Credited(s)'
  <2>1. /\ avail[e][s] + held[e][s] <= Window /\ avail[o][s] + held[o][s] <= Window
        /\ Total(e, s) <= Window
        /\ stage[o][s] # "ended" => Total(o, s) <= Window
        /\ Whole(s) => Total(e, s) = Window /\ Total(o, s) = Window
    BY <1>1, <1>2 DEF StreamInv, Credited
  <2>2. Whole(s)' => Whole(s) /\ egress[s] \in link
    BY <1>2, <1>8 DEF Whole, Awake, Ends
  <2>3. Total(e, s)' = Total(e, s)
    <3>1. /\ Way("window", e, s)' = Way("window", e, s) /\ Way("data", o, s)' = Way("data", o, s)
          /\ Held("data", o, s)' = Held("data", o, s) /\ Held("window", e, s)' = Held("window", e, s)
          /\ Missing(e, s)' = Missing(e, s)
      BY <1>11, <1>12
    <3> QED
      BY <1>1, <1>2, <3>1 DEF Total, o
  <2>4. Total(o, s)' = Total(o, s) - (IF egress[s] \in link THEN 0 ELSE f.size) /\ Total(o, s) \in Int
    <3>1. /\ Way("window", o, s) \in Nat /\ Way("data", e, s) \in Nat
          /\ Held("data", e, s) \in Nat /\ Held("window", o, s) \in Nat
          /\ avail[o][s] \in Nat /\ held[o][s] \in Nat
          /\ Missing(o, s) \in Nat /\ Missing(o, s)' \in Nat /\ Way("window", o, s)' \in Nat
      BY <1>1, <1>11, <1>13
    <3>2. /\ Way("window", o, s)' + Missing(o, s)'
             = Way("window", o, s) + Missing(o, s) + (IF egress[s] \in link THEN f.size ELSE 0)
          /\ Way("data", e, s)' = Way("data", e, s)
          /\ Held("data", e, s)' = Held("data", e, s) - f.size
          /\ Held("window", o, s)' = Held("window", o, s)
          /\ avail'[o][s] = avail[o][s] /\ held'[o][s] = held[o][s]
      BY <1>1, <1>2, <1>11, <1>12
    <3> QED
      BY <1>1, <1>6, <3>1, <3>2 DEF Total
  <2>5. /\ stage[o][s] # "ended" => Total(o, s)' <= Window
        /\ egress[s] \in link => Total(o, s)' = Total(o, s)
    BY <1>6, <2>1, <2>4, BoundedType
  <2> QED
    BY <1>1, <1>2, <2>1, <2>2, <2>3, <2>5 DEF Credited
<1>16. PICK m \in 0..read[o][s] :
            /\ InTurn(inbox[e][s], Len(got[e][s]), m)
            /\ Known(e, s) => \E k \in 0..read[o][s] : /\ InTurn(wire[e][s][egress[s]], m, k)
                                                       /\ egress[s] \in link => k = read[o][s]
  BY <1>1 DEF StreamInv, Turned, o
<1>17. m \in Nat /\ Len(got[e][s]) \in Nat /\ got[e][s] \in Seq(Nat)
  <2>1. read[o][s] \in Nat
    BY <1>1, Sizes
  <2>2. Len(got[e][s]) \in Nat /\ got[e][s] \in Seq(Nat)
    BY Sizes
  <2> QED
    BY <2>1, <2>2
<1>18. /\ InTurn(Tail(inbox[e][s]), Len(got[e][s]) + f.size, m) /\ f.first = Len(got[e][s]) + 1
  BY <1>5, <1>6, <1>16, <1>17
<1>19. /\ got'[e][s] \in Seq(Nat) /\ Len(got'[e][s]) = Len(got[e][s]) + f.size
       /\ \A i \in DOMAIN got'[e][s] : got'[e][s][i] = i
  <2>1. \A i \in DOMAIN got[e][s] : got[e][s][i] = i
    BY DEF StreamInv, Turned
  <2>2. /\ f.first = Len(got[e][s]) + 1 /\ f.size \in Nat /\ got[e][s] \in Seq(Nat)
        /\ got'[e][s] = got[e][s] \o [i \in 1..f.size |-> f.first + i - 1]
    BY <1>2, <1>6, <1>17, <1>18
  <2> DEFINE q == got[e][s]
             n == f.size
             a == f.first
  <2> HIDE DEF q, n, a
  <2>3. LET p == q \o [i \in 1..n |-> a + i - 1]
        IN  /\ p \in Seq(Nat) /\ Len(p) = Len(q) + n
            /\ \A i \in DOMAIN p : p[i] = i
    <3>1. q \in Seq(Nat) /\ (\A i \in DOMAIN q : q[i] = i) /\ n \in Nat /\ a = Len(q) + 1
      BY <2>1, <2>2 DEF q, n, a
    <3> QED
      BY <3>1, PrefixGrows
  <2> QED
    BY <2>2, <2>3 DEF q, n, a
<1>20. Turned(s)'
  <2>1. ASSUME NEW x \in Ends
        PROVE  /\ read'[x][s] <= Bytes[x]
               /\ \A i \in DOMAIN got'[x][s] : got'[x][s][i] = i
    BY <1>1, <1>2, <1>19 DEF StreamInv, Turned
  <2>2. egress[s] \in Planes
    BY Sizes
  <2>3. wire'[e][s][egress[s]] = wire[e][s][egress[s]]
    <3>1. CASE SendStep(o, s, g)
      BY <1>1, <2>2, <3>1 DEF SendStep
    <3>2. CASE \A x \in Ends : wire'[x][s] = wire[x][s]
      BY <3>2
    <3> QED
      BY <1>2, <3>1, <3>2
  <2>4. \A x \in Ends : Known(x, s)' <=> Known(x, s)
    BY <1>2 DEF Known, Ends
  <2>5. PICK w \in 0..read[e][s] :
            /\ InTurn(inbox[o][s], Len(got[o][s]), w)
            /\ Known(o, s) => \E k \in 0..read[e][s] : /\ InTurn(wire[o][s][egress[s]], w, k)
                                                       /\ egress[s] \in link => k = read[e][s]
    BY <1>1 DEF StreamInv, Turned
  <2>6. ASSUME Known(o, s)
        PROVE  \E k \in 0..read[e][s] : /\ InTurn(wire'[o][s][egress[s]], w, k)
                                        /\ egress[s] \in link => k = read[e][s]
    <3>1. PICK k \in 0..read[e][s] : /\ InTurn(wire[o][s][egress[s]], w, k)
                                     /\ egress[s] \in link => k = read[e][s]
      BY <2>5, <2>6
    <3>2. read[e][s] \in Nat
      BY Sizes
    <3>3. w \in Nat /\ k \in Nat
      BY <3>2
    <3>4. InTurn(wire'[o][s][egress[s]], w, k)
      <4>1. CASE SendStep(o, s, g)
        <5>1. InTurn(wire'[o][s][egress[s]], w,
                     k + (IF egress[s] \in link THEN Weight("data", g) ELSE 0))
          BY <1>1, <1>7, <3>1, <3>3, <4>1, SentTurn
        <5>2. k + (IF egress[s] \in link THEN Weight("data", g) ELSE 0) = k
          BY <1>7, <3>3
        <5> QED
          BY <5>1, <5>2
      <4>2. CASE \A x \in Ends : wire'[x][s] = wire[x][s]
        BY <1>1, <3>1, <4>2
      <4> QED
        BY <1>2, <4>1, <4>2
    <3> QED
      BY <3>1, <3>4
  <2>7. ASSUME NEW x \in Ends
        PROVE  \E u \in 0..read'[Other(x)][s] :
                   /\ InTurn(inbox'[x][s], Len(got'[x][s]), u)
                   /\ Known(x, s)' => \E k \in 0..read'[Other(x)][s] :
                                          /\ InTurn(wire'[x][s][egress'[s]], u, k)
                                          /\ egress'[s] \in link' => k = read'[Other(x)][s]
    <3>1. CASE x = e
      BY <3>1, <1>1, <1>2, <1>16, <1>18, <1>19, <2>3, <2>4 DEF o
    <3>2. CASE x = o
      BY <3>2, <1>1, <1>2, <2>4, <2>5, <2>6
    <3> QED
      BY <1>1, <3>1, <3>2
  <2> QED
    BY <2>1, <2>7 DEF Turned
<1> QED
  BY <1>10, <1>14, <1>15, <1>19, <1>20 DEF StreamInv

-----------------------------------------------------------------------------
(* Receiving                                                               *)

\* Quiet frames have no turn to keep.
LEMMA TurnQuiet ==
  ASSUME NEW q \in Seq(Quiet), NEW a \in Nat
  PROVE  InTurn(q, a, a)
<1> DEFINE mark == [k \in 1..Len(q) + 1 |-> a]
<1>1. Len(q) \in Nat /\ \A i \in 1..Len(q) : q[i] \in Quiet
  BY LenProperties, ElementOfSeq
<1>2. \A i \in 1..Len(q) : Weight("data", q[i]) = 0 /\ q[i].kind # "data"
  BY <1>1 DEF Weight, Quiet
<1>3. mark \in [1..Len(q) + 1 -> 0..a] /\ \A k \in 1..Len(q) + 1 : mark[k] = a
  OBVIOUS
<1> HIDE DEF mark
<1>4. mark[1] = a /\ mark[Len(q) + 1] = a
  BY <1>1, <1>3
<1>5. \A i \in 1..Len(q) : mark[i + 1] = mark[i] + Weight("data", q[i])
  BY <1>1, <1>2, <1>3
<1> QED
  BY <1>2, <1>3, <1>4, <1>5 DEF InTurn

\* A frame leaves the wire of end e.
TakenStep(e, s) ==
    /\ wire[e][s][egress[s]] # <<>>
    /\ egress'[s] = egress[s] /\ link' = link
    /\ \A x \in Ends, p \in Planes :
          wire'[x][s][p] = IF x = e /\ p = egress[s] THEN Tail(wire[x][s][p]) ELSE wire[x][s][p]

\* Nothing is on a wire before the backend has sent its open.
LEMMA TakenKeeps ==
  ASSUME Shape, NEW s \in Streams, StreamInv(s), NEW e \in Ends, TakenStep(e, s),
         stage'["backend"][s] = stage["backend"][s]
  PROVE  /\ stage["backend"][s] \notin {"idle", "looked"}
         /\ Fresh(s)' /\ Pinned(s)'
         /\ stage'["proxy"][s] = stage["proxy"][s] \/ e = "proxy" => OneOpen(s)'
<1>1. egress[s] \in Planes
  BY Sizes
<1>2. stage["backend"][s] \notin {"idle", "looked"}
  BY <1>1 DEF StreamInv, Fresh, TakenStep
<1>3. Fresh(s)'
  BY <1>2 DEF Fresh
<1>4. Pinned(s)'
  BY DEF StreamInv, Pinned, TakenStep
<1>5. ASSUME stage'["proxy"][s] = stage["proxy"][s] \/ e = "proxy"
      PROVE  OneOpen(s)'
  <2> SUFFICES ASSUME NEW p \in Planes
               PROVE  /\ wire'["backend"][s][p] \in Seq(NotOpen)
                      /\ stage'["proxy"][s] # "idle" => wire'["proxy"][s][p] \in Seq(NotOpen)
                      /\ wire'["proxy"][s][p] # <<>> => Tail(wire'["proxy"][s][p]) \in Seq(NotOpen)
    BY DEF OneOpen
  <2>1. /\ wire["backend"][s][p] \in Seq(NotOpen)
        /\ stage["proxy"][s] # "idle" => wire["proxy"][s][p] \in Seq(NotOpen)
        /\ wire["proxy"][s][p] # <<>> => Tail(wire["proxy"][s][p]) \in Seq(NotOpen)
    BY DEF StreamInv, OneOpen
  <2>2. "proxy" \in Ends /\ "backend" \in Ends
    BY DEF Ends
  <2>3. CASE e = "backend"
    <3>1. wire'["proxy"][s][p] = wire["proxy"][s][p]
      BY <2>2, <2>3 DEF TakenStep
    <3>2. wire'["backend"][s][p] \in Seq(NotOpen)
      <4>1. wire["backend"][s][p] # <<>> => Tail(wire["backend"][s][p]) \in Seq(NotOpen)
        BY <2>1, TailIs
      <4> QED
        BY <2>1, <2>2, <2>3, <4>1 DEF TakenStep
    <3> QED
      BY <1>5, <2>1, <2>3, <3>1, <3>2
  <2>4. CASE e = "proxy"
    <3>1. wire'["backend"][s][p] = wire["backend"][s][p]
      BY <2>2, <2>4 DEF TakenStep
    <3>2. CASE p = egress[s]
      <4>1. wire'["proxy"][s][p] = Tail(wire["proxy"][s][p]) /\ wire["proxy"][s][p] # <<>>
        BY <2>2, <2>4, <3>2 DEF TakenStep
      <4>2. wire'["proxy"][s][p] \in Seq(NotOpen)
        BY <2>1, <4>1
      <4>3. wire'["proxy"][s][p] # <<>> => Tail(wire'["proxy"][s][p]) \in Seq(NotOpen)
        BY <4>2, TailIs
      <4> QED
        BY <2>1, <3>1, <4>2, <4>3
    <3>3. CASE p # egress[s]
      <4>1. wire'["proxy"][s][p] = wire["proxy"][s][p] /\ wire["proxy"][s][p] = <<>>
        BY <2>2, <3>3 DEF TakenStep, StreamInv, Pinned
      <4>2. <<>> \in Seq(NotOpen)
        OBVIOUS
      <4> QED
        BY <2>1, <3>1, <4>1, <4>2
    <3> QED
      BY <3>2, <3>3
  <2> QED
    BY <2>3, <2>4 DEF Ends
<1> QED
  BY <1>2, <1>3, <1>4, <1>5

\* What the taken frame takes off the wire, and the turn it leaves.
LEMMA TakenSizes ==
  ASSUME Shape, NEW s \in Streams, NEW e \in Ends, TakenStep(e, s)
  PROVE  LET f == Head(wire[e][s][egress[s]])
         IN  /\ f \in Honest /\ f \in Frames
             /\ \A kind : Way(kind, e, s) = Way(kind, e, s)' + Weight(kind, f)
             /\ \A kind : Way(kind, e, s)' \in Nat
             /\ \A kind : \A x \in Ends : x # e => Way(kind, x, s)' = Way(kind, x, s)
             /\ \A a, b \in Nat : InTurn(wire[e][s][egress[s]], a, b) =>
                    /\ InTurn(wire'[e][s][egress[s]], a + Weight("data", f), b)
                    /\ a + Weight("data", f) \in 0..b
                    /\ f.kind = "data" => f.first = a + 1
             /\ \A x \in Ends : x # e => wire'[x][s][egress[s]] = wire[x][s][egress[s]]
<1>1. egress[s] \in Planes /\ egress'[s] = egress[s] /\ wire[e][s][egress[s]] # <<>>
  BY Sizes DEF TakenStep
<1>2. wire'[e][s][egress[s]] = Tail(wire[e][s][egress[s]])
  BY <1>1 DEF TakenStep
<1>3. \A x \in Ends : x # e => wire'[x][s][egress[s]] = wire[x][s][egress[s]]
  BY <1>1 DEF TakenStep
<1>4. wire[e][s][egress[s]] \in Seq(Frames)
  BY <1>1, Sizes
<1>5. /\ Head(wire[e][s][egress[s]]) \in Honest
      /\ \A kind : Way(kind, e, s) = Way(kind, e, s)' + Weight(kind, Head(wire[e][s][egress[s]]))
  BY <1>1, <1>2, WireTaken
<1>6. \A kind : \A x \in Ends : x # e => Way(kind, x, s)' = Way(kind, x, s)
  BY <1>1, <1>3 DEF Way
<1>7. \A kind : Way(kind, e, s)' \in Nat
  <2>1. Tail(wire[e][s][egress[s]]) \in Seq(Frames)
    BY <1>1, <1>4, TailIs
  <2> QED
    BY <1>1, <1>2, <2>1, SizeType DEF Way
<1>8. Head(wire[e][s][egress[s]]) \in Frames
  BY <1>5, Subsets
<1> QED
  BY <1>1, <1>2, <1>3, <1>4, <1>5, <1>6, <1>7, <1>8, TurnTail

\* A frame enters the inbox of an end that knows the stream.
IngestStep(e, s) ==
    LET f == Head(wire[e][s][egress[s]])
        o == Other(e)
    IN
    /\ TakenStep(e, s) /\ Known(e, s)
    /\ inbox'[e][s] = Append(inbox[e][s], f) /\ inbox'[o][s] = inbox[o][s]
    /\ book'[e][s] = book[e][s] - Weight("data", f) /\ book'[o][s] = book[o][s]
    /\ \A x \in Ends : /\ stage'[x][s] = stage[x][s] /\ held'[x][s] = held[x][s]
                       /\ avail'[x][s] = avail[x][s] /\ read'[x][s] = read[x][s]
                       /\ got'[x][s] = got[x][s]
    /\ s \in routed' <=> s \in routed
    /\ lost'[s] = lost[s]

\* A frame ingested keeps the invariant of the stream.
LEMMA IngestKeeps ==
  ASSUME Shape, NEW s \in Streams, StreamInv(s), NEW e \in Ends, IngestStep(e, s)
  PROVE  StreamInv(s)'
<1> DEFINE o == Other(e)
           f == Head(wire[e][s][egress[s]])
<1>1. o \in Ends /\ o # e /\ Other(o) = e /\ Ends = {e, o}
  BY DEF Other, Ends
<1>2. /\ TakenStep(e, s) /\ Known(e, s)
      /\ inbox'[e][s] = Append(inbox[e][s], f) /\ inbox'[o][s] = inbox[o][s]
      /\ book'[e][s] = book[e][s] - Weight("data", f) /\ book'[o][s] = book[o][s]
      /\ \A x \in Ends : /\ stage'[x][s] = stage[x][s] /\ held'[x][s] = held[x][s]
                         /\ avail'[x][s] = avail[x][s] /\ read'[x][s] = read[x][s]
                         /\ got'[x][s] = got[x][s]
      /\ s \in routed' <=> s \in routed
      /\ lost'[s] = lost[s]
      /\ egress'[s] = egress[s] /\ link' = link
  <2>1. TakenStep(e, s)
    BY DEF IngestStep
  <2>2. egress'[s] = egress[s] /\ link' = link
    BY <2>1 DEF TakenStep
  <2>3. /\ Known(e, s)
        /\ inbox'[e][s] = Append(inbox[e][s], f) /\ inbox'[o][s] = inbox[o][s]
        /\ book'[e][s] = book[e][s] - Weight("data", f) /\ book'[o][s] = book[o][s]
    BY DEF IngestStep
  <2>4. /\ \A x \in Ends : /\ stage'[x][s] = stage[x][s] /\ held'[x][s] = held[x][s]
                           /\ avail'[x][s] = avail[x][s] /\ read'[x][s] = read[x][s]
                           /\ got'[x][s] = got[x][s]
        /\ s \in routed' <=> s \in routed
        /\ lost'[s] = lost[s]
    BY DEF IngestStep
  <2> QED
    BY <2>1, <2>2, <2>3, <2>4
<1>3. /\ f \in Honest /\ f \in Frames
      /\ \A kind : Way(kind, e, s) = Way(kind, e, s)' + Weight(kind, f)
      /\ \A kind : Way(kind, e, s)' \in Nat
      /\ \A kind : \A x \in Ends : x # e => Way(kind, x, s)' = Way(kind, x, s)
      /\ \A a, b \in Nat : InTurn(wire[e][s][egress[s]], a, b) =>
             /\ InTurn(wire'[e][s][egress[s]], a + Weight("data", f), b)
             /\ a + Weight("data", f) \in 0..b
             /\ f.kind = "data" => f.first = a + 1
      /\ \A x \in Ends : x # e => wire'[x][s][egress[s]] = wire[x][s][egress[s]]
  BY <1>2, TakenSizes
<1>4. stage'["backend"][s] = stage["backend"][s] /\ stage'["proxy"][s] = stage["proxy"][s]
  BY <1>2 DEF Ends
<1>5. Fresh(s)' /\ Pinned(s)' /\ OneOpen(s)'
  BY <1>2, <1>4, TakenKeeps
<1>6. Routed(s)'
  BY <1>2, <1>4 DEF StreamInv, Routed
<1>7. Undialled(s)'
  <2> SUFFICES ASSUME stage["proxy"][s] = "idle"
               PROVE  \A x \in Ends : /\ inbox'[x][s] \in Seq(Quiet)
                                      /\ \A p \in Planes : wire'[x][s][p] \in Seq(Quiet)
    BY <1>2, <1>4 DEF StreamInv, Undialled
  <2>1. \A x \in Ends : /\ inbox[x][s] \in Seq(Quiet)
                        /\ \A p \in Planes : wire[x][s][p] \in Seq(Quiet)
    BY DEF StreamInv, Undialled
  <2>2. egress[s] \in Planes
    BY Sizes
  <2>3. f \in Quiet
    BY <1>2, <2>1, <2>2, TailIs DEF TakenStep
  <2>4. \A p \in Planes : wire[e][s][p] # <<>> => Tail(wire[e][s][p]) \in Seq(Quiet)
    BY <2>1, TailIs
  <2>5. Append(inbox[e][s], f) \in Seq(Quiet)
    BY <2>1, <2>3, AppendIs
  <2>6. \A x \in Ends : inbox'[x][s] \in Seq(Quiet)
    BY <1>1, <1>2, <2>1, <2>5
  <2>7. ASSUME NEW x \in Ends, NEW p \in Planes
        PROVE  wire'[x][s][p] \in Seq(Quiet)
    <3>1. CASE x = e /\ p = egress[s]
      <4>1. wire'[x][s][p] = Tail(wire[e][s][p]) /\ wire[e][s][p] # <<>>
        BY <1>2, <3>1 DEF TakenStep
      <4> QED
        BY <2>4, <4>1
    <3>2. CASE ~(x = e /\ p = egress[s])
      <4>1. wire'[x][s][p] = wire[x][s][p]
        BY <1>2, <3>2 DEF TakenStep
      <4> QED
        BY <2>1, <4>1
    <3> QED
      BY <3>1, <3>2
  <2> QED
    BY <2>6, <2>7
<1> HIDE DEF f, o
<1>8. \A kind : /\ Held(kind, e, s)' = Held(kind, e, s) + Weight(kind, f)
                /\ Held(kind, o, s)' = Held(kind, o, s)
  <2>1. \A kind : Held(kind, e, s)' = Held(kind, e, s) + Weight(kind, f)
    BY <1>2, <1>3, InboxPut
  <2>2. \A kind : Held(kind, o, s)' = Held(kind, o, s)
    BY <1>2 DEF Held
  <2> QED
    BY <2>1, <2>2
<1>9. /\ \A x \in Ends, kind \in {"data", "window"} : Way(kind, x, s) \in Nat /\ Held(kind, x, s) \in Nat
      /\ \A x \in Ends : avail[x][s] \in Nat /\ held[x][s] \in Nat /\ book[x][s] \in Int
  BY Sizes
<1>10. \A kind : Weight(kind, f) \in Nat
  BY <1>3, WeightType, BoundedType
<1>11. Booked(s)'
  <2>1. \A x \in Ends : /\ book[x][s] + Held("data", x, s) = Window
                        /\ Held("data", x, s) + Way("data", x, s) <= Window
    BY DEF StreamInv, Booked
  <2>2. book'[e][s] + Held("data", e, s)' = Window
    <3>1. book[e][s] \in Int /\ Held("data", e, s) \in Nat /\ Weight("data", f) \in Nat
          /\ Held("data", e, s)' = Held("data", e, s) + Weight("data", f)
          /\ book'[e][s] = book[e][s] - Weight("data", f)
      BY <1>2, <1>8, <1>9, <1>10
    <3> QED
      BY <2>1, <3>1, BoundedType
  <2>3. Held("data", e, s)' + Way("data", e, s)' <= Window
    <3>1. Way("data", e, s)' \in Nat /\ Held("data", e, s) \in Nat /\ Weight("data", f) \in Nat
          /\ Held("data", e, s)' = Held("data", e, s) + Weight("data", f)
          /\ Way("data", e, s) = Way("data", e, s)' + Weight("data", f)
      BY <1>3, <1>8, <1>9, <1>10
    <3> QED
      BY <2>1, <3>1, BoundedType
  <2>4. book'[o][s] + Held("data", o, s)' = Window /\ Held("data", o, s)' + Way("data", o, s)' <= Window
    BY <1>1, <1>2, <1>3, <1>8, <2>1
  <2> QED
    BY <1>1, <2>2, <2>3, <2>4 DEF Booked
<1>12. Credited(s)'
  <2>1. Whole(s)' => Whole(s)
    BY <1>2, <1>4 DEF Whole
  <2>2. \A x \in Ends : Missing(x, s)' = Missing(x, s) /\ Missing(x, s) \in Nat
    BY <1>2, Sizes DEF Missing
  <2>3. Total(e, s)' = Total(e, s)
    <3>1. /\ Way("window", e, s) = Way("window", e, s)' + Weight("window", f)
          /\ Held("window", e, s)' = Held("window", e, s) + Weight("window", f)
          /\ Way("data", o, s)' = Way("data", o, s) /\ Held("data", o, s)' = Held("data", o, s)
      BY <1>1, <1>3, <1>8
    <3>2. /\ Way("window", e, s)' \in Nat /\ Held("window", e, s) \in Nat /\ Weight("window", f) \in Nat
          /\ Way("data", o, s) \in Nat /\ Held("data", o, s) \in Nat
          /\ avail[e][s] \in Nat /\ held[e][s] \in Nat
      BY <1>1, <1>3, <1>9, <1>10
    <3>3. Missing(e, s)' = Missing(e, s) /\ Missing(e, s) \in Nat
      BY <2>2
    <3> QED
      BY <1>2, <3>1, <3>2, <3>3 DEF Total, o
  <2>4. Total(o, s)' = Total(o, s)
    <3>1. /\ Way("data", e, s) = Way("data", e, s)' + Weight("data", f)
          /\ Held("data", e, s)' = Held("data", e, s) + Weight("data", f)
          /\ Way("window", o, s)' = Way("window", o, s) /\ Held("window", o, s)' = Held("window", o, s)
      BY <1>1, <1>3, <1>8
    <3>2. /\ Way("data", e, s)' \in Nat /\ Held("data", e, s) \in Nat /\ Weight("data", f) \in Nat
          /\ Way("window", o, s) \in Nat /\ Held("window", o, s) \in Nat
          /\ avail[o][s] \in Nat /\ held[o][s] \in Nat
      BY <1>1, <1>3, <1>9, <1>10
    <3>3. avail'[o][s] = avail[o][s] /\ held'[o][s] = held[o][s]
      BY <1>1, <1>2
    <3>4. Missing(o, s)' = Missing(o, s) /\ Missing(o, s) \in Nat
      BY <1>1, <2>2
    <3> QED
      BY <1>1, <3>1, <3>2, <3>3, <3>4 DEF Total
  <2> QED
    BY <1>1, <1>2, <2>1, <2>3, <2>4 DEF StreamInv, Credited
<1>13. Turned(s)'
  <2>1. ASSUME NEW x \in Ends
        PROVE  /\ read'[x][s] <= Bytes[x]
               /\ \A i \in DOMAIN got'[x][s] : got'[x][s][i] = i
    BY <1>2 DEF StreamInv, Turned
  <2>2. \A x \in Ends : Known(x, s)' <=> Known(x, s)
    BY <1>2, <1>4 DEF Known, Ends
  <2>3. PICK m \in 0..read[o][s] :
            /\ InTurn(inbox[e][s], Len(got[e][s]), m)
            /\ Known(e, s) => \E k \in 0..read[o][s] : /\ InTurn(wire[e][s][egress[s]], m, k)
                                                       /\ egress[s] \in link => k = read[o][s]
    BY <1>1 DEF StreamInv, Turned, o
  <2>4. PICK k \in 0..read[o][s] : /\ InTurn(wire[e][s][egress[s]], m, k)
                                   /\ egress[s] \in link => k = read[o][s]
    BY <1>2, <2>3
  <2>5. m \in Nat /\ k \in Nat /\ read[o][s] \in Nat
    <3>1. read[o][s] \in Nat
      BY <1>1, Sizes
    <3> QED
      BY <3>1
  <2>6. inbox[e][s] \in Seq(Frames)
    BY Sizes
  <2> DEFINE w == m + Weight("data", f)
  <2>7. /\ InTurn(wire'[e][s][egress[s]], w, k) /\ w \in 0..k
        /\ f.kind = "data" => f.first = m + 1
    BY <1>3, <2>4, <2>5
  <2>8. InTurn(inbox'[e][s], Len(got[e][s]), w)
    BY <1>2, <1>3, <2>3, <2>5, <2>6, <2>7, TurnAppend
  <2> HIDE DEF w
  <2>9. w \in 0..read[o][s]
    BY <2>4, <2>5, <2>7
  <2>10. ASSUME NEW x \in Ends
         PROVE  \E u \in 0..read'[Other(x)][s] :
                   /\ InTurn(inbox'[x][s], Len(got'[x][s]), u)
                   /\ Known(x, s)' => \E n \in 0..read'[Other(x)][s] :
                                          /\ InTurn(wire'[x][s][egress'[s]], u, n)
                                          /\ egress'[s] \in link' => n = read'[Other(x)][s]
    <3>1. CASE x = e
      BY <3>1, <1>1, <1>2, <2>4, <2>7, <2>8, <2>9 DEF o
    <3>2. CASE x = o
      <4>1. PICK u \in 0..read[e][s] :
            /\ InTurn(inbox[o][s], Len(got[o][s]), u)
            /\ Known(o, s) => \E n \in 0..read[e][s] : /\ InTurn(wire[o][s][egress[s]], u, n)
                                                       /\ egress[s] \in link => n = read[e][s]
        BY <1>1 DEF StreamInv, Turned
      <4> QED
        BY <3>2, <4>1, <1>1, <1>2, <1>3, <2>2
    <3> QED
      BY <1>1, <3>1, <3>2
  <2> QED
    BY <2>1, <2>10 DEF Turned
<1> QED
  BY <1>5, <1>6, <1>7, <1>11, <1>12, <1>13 DEF StreamInv

\* A frame finds nobody who knows the stream.
DropStep(e, s) ==
    /\ TakenStep(e, s) /\ ~Known(e, s)
    /\ \A x \in Ends : /\ stage'[x][s] = stage[x][s] /\ held'[x][s] = held[x][s]
                       /\ avail'[x][s] = avail[x][s] /\ read'[x][s] = read[x][s]
                       /\ got'[x][s] = got[x][s] /\ inbox'[x][s] = inbox[x][s]
                       /\ book'[x][s] = book[x][s]
    /\ s \in routed' <=> s \in routed
    /\ lost'[s] = lost[s]

\* A dropped frame keeps the invariant of the stream.
LEMMA DropKeeps ==
  ASSUME Shape, NEW s \in Streams, StreamInv(s), NEW e \in Ends, DropStep(e, s)
  PROVE  StreamInv(s)'
<1> DEFINE o == Other(e)
           f == Head(wire[e][s][egress[s]])
<1>1. o \in Ends /\ o # e /\ Other(o) = e /\ Ends = {e, o}
  BY DEF Other, Ends
<1>2. /\ TakenStep(e, s) /\ ~Known(e, s)
      /\ \A x \in Ends : /\ stage'[x][s] = stage[x][s] /\ held'[x][s] = held[x][s]
                         /\ avail'[x][s] = avail[x][s] /\ read'[x][s] = read[x][s]
                         /\ got'[x][s] = got[x][s] /\ inbox'[x][s] = inbox[x][s]
                         /\ book'[x][s] = book[x][s]
      /\ s \in routed' <=> s \in routed
      /\ lost'[s] = lost[s]
      /\ egress'[s] = egress[s] /\ link' = link
  BY DEF DropStep, TakenStep
<1>3. /\ f \in Honest
      /\ \A kind : Way(kind, e, s) = Way(kind, e, s)' + Weight(kind, f)
      /\ \A kind : Way(kind, e, s)' \in Nat
      /\ \A kind : \A x \in Ends : x # e => Way(kind, x, s)' = Way(kind, x, s)
      /\ \A x \in Ends : x # e => wire'[x][s][egress[s]] = wire[x][s][egress[s]]
  BY <1>2, TakenSizes
<1>4. stage'["backend"][s] = stage["backend"][s] /\ stage'["proxy"][s] = stage["proxy"][s]
  BY <1>2 DEF Ends
<1>5. /\ Fresh(s)' /\ Pinned(s)' /\ OneOpen(s)'
      /\ stage["backend"][s] \notin {"idle", "looked"}
  BY <1>2, <1>4, TakenKeeps
<1>6. Routed(s)'
  BY <1>2, <1>4 DEF StreamInv, Routed
<1>7. \A x \in Ends, p \in Planes :
         \/ wire'[x][s][p] = wire[x][s][p]
         \/ wire[x][s][p] # <<>> /\ wire'[x][s][p] = Tail(wire[x][s][p])
  <2> SUFFICES ASSUME NEW x \in Ends, NEW p \in Planes
               PROVE  \/ wire'[x][s][p] = wire[x][s][p]
                      \/ wire[x][s][p] # <<>> /\ wire'[x][s][p] = Tail(wire[x][s][p])
    OBVIOUS
  <2>1. CASE x = e /\ p = egress[s]
    BY <1>2, <2>1 DEF TakenStep
  <2>2. CASE ~(x = e /\ p = egress[s])
    BY <1>2, <2>2 DEF TakenStep
  <2> QED
    BY <2>1, <2>2
<1>8. stage["proxy"][s] = "idle" => \A x \in Ends : /\ inbox[x][s] \in Seq(Quiet)
                                                    /\ \A p \in Planes : wire[x][s][p] \in Seq(Quiet)
  BY DEF StreamInv, Undialled
<1>9. Undialled(s)'
  <2> SUFFICES ASSUME stage["proxy"][s] = "idle"
               PROVE  \A x \in Ends : /\ inbox'[x][s] \in Seq(Quiet)
                                      /\ \A p \in Planes : wire'[x][s][p] \in Seq(Quiet)
    BY <1>2, <1>4 DEF StreamInv, Undialled
  <2>1. \A x \in Ends, p \in Planes : wire[x][s][p] # <<>> => Tail(wire[x][s][p]) \in Seq(Quiet)
    BY <1>8, TailIs
  <2> QED
    BY <1>2, <1>7, <1>8, <2>1
<1> HIDE DEF f, o
<1>10. \A kind, x : x \in Ends => Held(kind, x, s)' = Held(kind, x, s)
  BY <1>2 DEF Held
<1>11. /\ \A x \in Ends, kind \in {"data", "window"} : Way(kind, x, s) \in Nat /\ Held(kind, x, s) \in Nat
       /\ \A x \in Ends : avail[x][s] \in Nat /\ held[x][s] \in Nat /\ book[x][s] \in Int
  BY Sizes
<1>12. \A kind : Weight(kind, f) \in Nat
  BY <1>3, WeightType, BoundedType
<1>13. \A x \in Ends, kind \in {"data", "window"} : Way(kind, x, s)' \in Nat /\ Way(kind, x, s)' <= Way(kind, x, s)
  <2>1. ASSUME NEW kind \in {"data", "window"}
        PROVE  /\ Way(kind, e, s)' \in Nat /\ Way(kind, e, s)' <= Way(kind, e, s)
               /\ Way(kind, o, s)' \in Nat /\ Way(kind, o, s)' <= Way(kind, o, s)
    <3>1. Way(kind, e, s)' \in Nat /\ Way(kind, e, s) = Way(kind, e, s)' + Weight(kind, f)
      BY <1>3
    <3>2. Weight(kind, f) \in Nat
      BY <1>12
    <3>3. Way(kind, o, s)' = Way(kind, o, s) /\ Way(kind, o, s) \in Nat
      BY <1>1, <1>3, <1>11
    <3> QED
      BY <3>1, <3>2, <3>3
  <2> QED
    BY <1>1, <2>1
<1>14. Booked(s)'
  <2> SUFFICES ASSUME NEW x \in Ends
               PROVE  /\ book'[x][s] + Held("data", x, s)' = Window
                      /\ Held("data", x, s)' + Way("data", x, s)' <= Window
    BY DEF Booked
  <2>1. /\ book[x][s] + Held("data", x, s) = Window
        /\ Held("data", x, s) + Way("data", x, s) <= Window
    BY DEF StreamInv, Booked
  <2> QED
    BY <1>2, <1>10, <1>11, <1>13, <2>1, BoundedType
<1>15. Credited(s)'
  <2>1. \A x \in Ends : Total(x, s)' <= Total(x, s) /\ Total(x, s) \in Nat /\ Total(x, s)' \in Nat
    <3> SUFFICES ASSUME NEW x \in Ends
                 PROVE  Total(x, s)' <= Total(x, s) /\ Total(x, s) \in Nat /\ Total(x, s)' \in Nat
      OBVIOUS
    <3>1. Other(x) \in Ends
      BY OtherEnd
    <3>2. /\ Way("data", Other(x), s)' \in Nat /\ Way("data", Other(x), s)' <= Way("data", Other(x), s)
          /\ Way("window", x, s)' \in Nat /\ Way("window", x, s)' <= Way("window", x, s)
          /\ Way("data", Other(x), s) \in Nat /\ Way("window", x, s) \in Nat
      BY <1>11, <1>13, <3>1
    <3>3. /\ Held("data", Other(x), s)' = Held("data", Other(x), s) /\ Held("data", Other(x), s) \in Nat
          /\ Held("window", x, s)' = Held("window", x, s) /\ Held("window", x, s) \in Nat
      BY <1>10, <1>11, <3>1
    <3>4. /\ avail'[x][s] = avail[x][s] /\ held'[x][s] = held[x][s]
          /\ avail[x][s] \in Nat /\ held[x][s] \in Nat
      BY <1>2, <1>11
    <3>5. Missing(x, s)' = Missing(x, s) /\ Missing(x, s) \in Nat
      BY <1>2, Sizes DEF Missing
    <3> QED
      BY <3>2, <3>3, <3>4, <3>5 DEF Total
  <2>2. ASSUME Whole(s)'
        PROVE  /\ Whole(s)
               /\ \A x \in Ends : Total(x, s)' = Total(x, s)
    <3>1. Whole(s) /\ s \in routed /\ stage[e][s] # "ended"
      BY <1>2, <1>4, <1>5, <2>2 DEF Whole
    <3>2. e = "proxy" /\ stage["proxy"][s] = "idle"
      BY <1>2, <3>1 DEF Known, Ends, Shape
    <3>3. egress[s] \in Planes
      BY Sizes
    <3>4. f \in Quiet
      BY <1>2, <1>8, <3>2, <3>3, TailIs DEF TakenStep, f
    <3>5. Weight("data", f) = 0 /\ Weight("window", f) = 0
      BY <3>4 DEF Quiet, Weight
    <3>6. \A x \in Ends, kind \in {"data", "window"} : Way(kind, x, s)' = Way(kind, x, s)
      <4>1. \A kind \in {"data", "window"} : Way(kind, e, s)' = Way(kind, e, s)
        BY <1>3, <3>5
      <4> QED
        BY <1>1, <1>3, <4>1
    <3>7. \A x \in Ends : Total(x, s)' = Total(x, s)
      <4> SUFFICES ASSUME NEW x \in Ends PROVE Total(x, s)' = Total(x, s)
        OBVIOUS
      <4>1. Other(x) \in Ends
        BY OtherEnd
      <4>2. /\ Way("data", Other(x), s)' = Way("data", Other(x), s)
            /\ Way("window", x, s)' = Way("window", x, s)
            /\ Held("data", Other(x), s)' = Held("data", Other(x), s)
            /\ Held("window", x, s)' = Held("window", x, s)
        BY <1>10, <3>6, <4>1
      <4>3. Missing(x, s)' = Missing(x, s)
        BY <1>2 DEF Missing
      <4> QED
        BY <1>2, <4>2, <4>3 DEF Total
    <3> QED
      BY <3>1, <3>7
  <2>3. \A x \in Ends : /\ avail[x][s] + held[x][s] <= Window
                        /\ stage[x][s] # "ended" => Total(x, s) <= Window
                        /\ Whole(s) => Total(x, s) = Window
    BY DEF StreamInv, Credited
  <2>4. ASSUME NEW x \in Ends
        PROVE  stage'[x][s] # "ended" => Total(x, s)' <= Window
    BY <1>2, <2>1, <2>3, BoundedType
  <2> QED
    BY <1>2, <2>2, <2>3, <2>4 DEF Credited
<1>16. Turned(s)'
  <2> SUFFICES ASSUME NEW x \in Ends
               PROVE  /\ read'[x][s] <= Bytes[x]
                      /\ \A i \in DOMAIN got'[x][s] : got'[x][s][i] = i
                      /\ \E m \in 0..read'[Other(x)][s] :
                            /\ InTurn(inbox'[x][s], Len(got'[x][s]), m)
                            /\ Known(x, s)' =>
                                  \E n \in 0..read'[Other(x)][s] :
                                      /\ InTurn(wire'[x][s][egress'[s]], m, n)
                                      /\ egress'[s] \in link' => n = read'[Other(x)][s]
    BY DEF Turned
  <2>1. /\ read[x][s] <= Bytes[x] /\ \A i \in DOMAIN got[x][s] : got[x][s][i] = i
        /\ \E m \in 0..read[Other(x)][s] :
              /\ InTurn(inbox[x][s], Len(got[x][s]), m)
              /\ Known(x, s) =>
                    \E n \in 0..read[Other(x)][s] :
                        /\ InTurn(wire[x][s][egress[s]], m, n)
                        /\ egress[s] \in link => n = read[Other(x)][s]
    BY DEF StreamInv, Turned
  <2>2. Other(x) \in Ends
    BY OtherEnd
  <2>3. Known(x, s)' <=> Known(x, s)
    BY <1>2, <1>4 DEF Known
  <2>4. Known(x, s)' => wire'[x][s][egress[s]] = wire[x][s][egress[s]]
    BY <1>2, <1>3, <2>3
  <2> QED
    BY <1>2, <2>1, <2>2, <2>3, <2>4
<1> QED
  BY <1>5, <1>6, <1>9, <1>14, <1>15, <1>16 DEF StreamInv

-----------------------------------------------------------------------------
(* Opening                                                                 *)

\* Neither credit nor bytes move at the ends, and no inbox does.
StillStep(s) ==
    /\ \A x \in Ends : /\ avail'[x][s] = avail[x][s] /\ held'[x][s] = held[x][s]
                       /\ book'[x][s] = book[x][s] /\ got'[x][s] = got[x][s]
                       /\ read'[x][s] = read[x][s] /\ inbox'[x][s] = inbox[x][s]
    /\ link' = link /\ lost'[s] = lost[s]

\* Such a step needs only its wires, and what it makes known, looked at.
LEMMA StillKeeps ==
  ASSUME Shape, Shape', NEW s \in Streams, StreamInv(s), StillStep(s),
         \A x \in Ends, kind \in {"data", "window"} : Way(kind, x, s)' = Way(kind, x, s),
         \A x \in Ends : stage[x][s] = "ended" => stage'[x][s] = "ended",
         Whole(s)' => Whole(s),
         \A x \in Ends : Known(x, s)' =>
            \/ /\ Known(x, s) /\ egress'[s] = egress[s]
               /\ \A a, b \in Nat : InTurn(wire[x][s][egress[s]], a, b)
                                    => InTurn(wire'[x][s][egress[s]], a, b)
            \/ /\ read[Other(x)][s] = 0
               /\ \A a \in Nat : InTurn(wire'[x][s][egress'[s]], a, a)
  PROVE  Booked(s)' /\ Credited(s)' /\ Turned(s)'
<1>1. \A x \in Ends, kind \in {"data", "window"} : Held(kind, x, s)' = Held(kind, x, s)
  BY DEF Held, StillStep
<1>2. QuietStep(s)
  BY <1>1 DEF QuietStep, StillStep
<1>3. \A x \in Ends : \A a, b \in Nat : InTurn(inbox[x][s], a, b) => InTurn(inbox'[x][s], a, b)
  BY DEF StillStep
<1>4. \A x \in Ends : Known(x, s)' =>
         \/ /\ Known(x, s) /\ (egress'[s] \in link' => egress[s] \in link)
            /\ \A a, b \in Nat : InTurn(wire[x][s][egress[s]], a, b)
                                 => InTurn(wire'[x][s][egress'[s]], a, b)
         \/ /\ read[Other(x)][s] = 0
            /\ \A a \in Nat : InTurn(wire'[x][s][egress'[s]], a, a)
  BY DEF StillStep
<1> QED
  BY <1>2, <1>3, <1>4, QuietKeeps

\* open_tunnel looks, or gives up before it has sent anything.
LookStep(s) ==
    /\ StillStep(s)
    /\ stage["backend"][s] \in {"idle", "looked"}
    /\ stage'["backend"][s] \in {"looked", "ended"} /\ stage'["proxy"][s] = stage["proxy"][s]
    /\ \A x \in Ends : wire'[x][s] = wire[x][s]
    /\ egress'[s] \in Planes
    /\ s \in routed' <=> s \in routed

\* A look at the plane, or an open nobody takes, keeps the invariant.
LEMMA LookKeeps ==
  ASSUME Shape, Shape', NEW s \in Streams, StreamInv(s), LookStep(s)
  PROVE  StreamInv(s)'
<1>1. /\ stage["backend"][s] \in {"idle", "looked"}
      /\ stage'["backend"][s] \in {"looked", "ended"} /\ stage'["proxy"][s] = stage["proxy"][s]
      /\ \A x \in Ends : wire'[x][s] = wire[x][s] /\ inbox'[x][s] = inbox[x][s]
                         /\ read'[x][s] = read[x][s] /\ got'[x][s] = got[x][s]
      /\ egress'[s] \in Planes /\ egress[s] \in Planes
      /\ s \in routed' <=> s \in routed
  BY Sizes DEF LookStep, StillStep, Ends
<1>2. /\ stage["proxy"][s] = "idle"
      /\ \A x \in Ends : inbox[x][s] = <<>> /\ \A p \in Planes : wire[x][s][p] = <<>>
      /\ s \notin routed
  BY <1>1 DEF StreamInv, Fresh, Routed
<1>3. \A x \in Ends : /\ inbox'[x][s] = <<>>
                      /\ \A p \in Planes : wire'[x][s][p] = <<>>
  BY <1>1, <1>2
<1>4. Fresh(s)' /\ Routed(s)'
  BY <1>1, <1>2, <1>3 DEF Fresh, Routed
<1>5. Undialled(s)'
  BY <1>1, <1>2 DEF StreamInv, Undialled
<1>6. OneOpen(s)' /\ Pinned(s)'
  <2>1. Pinned(s)'
    BY <1>3 DEF Pinned
  <2>2. wire'["proxy"][s] = wire["proxy"][s] /\ wire'["backend"][s] = wire["backend"][s]
    BY <1>1 DEF Ends
  <2>3. OneOpen(s)'
    BY <1>1, <2>2 DEF StreamInv, OneOpen
  <2> QED
    BY <2>1, <2>3
<1>7. \A x \in Ends, kind \in {"data", "window"} : Way(kind, x, s)' = Way(kind, x, s)
  BY <1>1, <1>2, <1>3 DEF Way
<1>8. \A x \in Ends : stage[x][s] = "ended" => stage'[x][s] = "ended"
  BY <1>1 DEF Ends
<1>9. Whole(s)' => Whole(s)
  BY <1>1, <1>2 DEF Whole, Ends
<1>10. \A x \in Ends : ~Known(x, s)'
  BY <1>1, <1>2 DEF Known, Ends
<1>11. StillStep(s)
  BY DEF LookStep
<1>12. Booked(s)' /\ Credited(s)' /\ Turned(s)'
  BY <1>7, <1>8, <1>9, <1>10, <1>11, StillKeeps
<1> QED
  BY <1>4, <1>5, <1>6, <1>12 DEF StreamInv

\* open_tunnel inserts its entry and sends the open.
LEMMA OpenKeeps ==
  ASSUME Shape, Shape', NEW s \in Streams, StreamInv(s), StillStep(s),
         stage["backend"][s] = "looked", stage'["backend"][s] = "opening",
         stage'["proxy"][s] = stage["proxy"][s], SendStep("proxy", s, Note("open"))
  PROVE  StreamInv(s)'
<1> DEFINE f == Note("open")
<1>1. /\ f \in Honest /\ f \in Quiet /\ f.kind # "data" /\ \A kind : Weight(kind, f) = 0
  BY NoteIs DEF Kinds
<1>2. "proxy" \in Ends /\ "backend" \in Ends /\ egress[s] \in Planes /\ egress'[s] = egress[s]
      /\ Ends = {"backend", "proxy"} /\ link' = link
  BY Sizes DEF Ends, SendStep
<1> HIDE DEF f
<1>3. /\ stage["proxy"][s] = "idle" /\ s \notin routed
      /\ \A x \in Ends : inbox[x][s] = <<>> /\ \A p \in Planes : wire[x][s][p] = <<>>
  BY DEF StreamInv, Fresh, Routed
<1>4. \A x \in Ends : read[x][s] = 0 /\ got[x][s] = <<>>
  BY <1>3 DEF StreamInv, Undialled
<1>5. <<>> \in Seq(Quiet) /\ <<>> \in Seq(Frames)
  OBVIOUS
<1>6. Append(<<>>, f) \in Seq(Quiet) /\ Append(<<>>, f) # <<>> /\ Tail(Append(<<>>, f)) = <<>>
  <2>1. Append(<<>>, f) \in Seq(Quiet) /\ Append(<<>>, f) # <<>> /\ Len(Append(<<>>, f)) = 1
    BY <1>1, <1>5, AppendIs
  <2>2. Tail(Append(<<>>, f)) \in Seq(Quiet) /\ Len(Tail(Append(<<>>, f))) = 0
    BY <2>1, TailIs
  <2> QED
    BY <2>1, <2>2, EmptySeq
<1>7. \A x \in Ends, p \in Planes :
         wire'[x][s][p] = IF x = "proxy" /\ p = egress[s] /\ egress[s] \in link
                          THEN Append(<<>>, f) ELSE <<>>
  BY <1>3 DEF SendStep, f
<1>8. Fresh(s)' /\ Routed(s)'
  BY DEF Fresh, Routed
<1>9. Undialled(s)'
  <2>1. \A x \in Ends, p \in Planes : wire'[x][s][p] \in Seq(Quiet)
    BY <1>5, <1>6, <1>7
  <2>2. \A x \in Ends : inbox'[x][s] \in Seq(Quiet) /\ read'[x][s] = 0 /\ got'[x][s] = <<>>
    BY <1>3, <1>4, <1>5 DEF StillStep
  <2> QED
    BY <2>1, <2>2 DEF Undialled
<1>10. OneOpen(s)' /\ Pinned(s)'
  <2>1. Pinned(s)'
    BY <1>2, <1>7 DEF Pinned
  <2>2. <<>> \in Seq(NotOpen)
    OBVIOUS
  <2>3. \A p \in Planes : /\ wire'["backend"][s][p] = <<>>
                          /\ wire'["proxy"][s][p] # <<>> => Tail(wire'["proxy"][s][p]) = <<>>
    BY <1>2, <1>6, <1>7
  <2>4. OneOpen(s)'
    BY <1>3, <2>2, <2>3 DEF OneOpen
  <2> QED
    BY <2>1, <2>4
<1>11. \A x \in Ends, kind \in {"data", "window"} : Way(kind, x, s)' = Way(kind, x, s)
  <2>1. \A x \in Ends : wire[x][s][egress[s]] = <<>> /\ wire'[x][s][egress[s]] \in Seq(Quiet)
    BY <1>2, <1>3, <1>5, <1>6, <1>7
  <2>2. \A x \in Ends, kind \in {"data", "window"} : Way(kind, x, s)' = 0
    BY <1>2, <2>1, QuietSize DEF Way
  <2>3. \A x \in Ends, kind \in {"data", "window"} : Way(kind, x, s) = 0
    BY <2>1, SizeEmpty DEF Way
  <2> QED
    BY <2>2, <2>3
<1>12. \A x \in Ends : stage[x][s] = "ended" => stage'[x][s] = "ended"
  BY <1>2
<1>13. Whole(s)
  BY <1>2, <1>3 DEF Whole
<1>14. \A x \in Ends : Known(x, s)' => /\ read[Other(x)][s] = 0
                                       /\ \A a \in Nat : InTurn(wire'[x][s][egress'[s]], a, a)
  <2> SUFFICES ASSUME NEW x \in Ends, Known(x, s)'
               PROVE  /\ read[Other(x)][s] = 0
                      /\ \A a \in Nat : InTurn(wire'[x][s][egress'[s]], a, a)
    OBVIOUS
  <2>1. x = "backend"
    BY <1>2, <1>3 DEF Known
  <2>2. wire'[x][s][egress'[s]] = <<>>
    BY <1>2, <1>7, <2>1
  <2> QED
    BY <1>2, <1>4, <2>1, <2>2, OtherEnd, TurnEmpty
<1>15. Booked(s)' /\ Credited(s)' /\ Turned(s)'
  BY <1>11, <1>12, <1>13, <1>14, StillKeeps
<1> QED
  BY <1>8, <1>9, <1>10, <1>15 DEF StreamInv

\* The proxy admits the stream an open names.
LEMMA AdmitKeeps ==
  ASSUME Shape, Shape', NEW s \in Streams, StreamInv(s), StillStep(s), TakenStep("proxy", s),
         Head(wire["proxy"][s][egress[s]]).kind = "open",
         stage'["proxy"][s] = "opening", stage'["backend"][s] = stage["backend"][s],
         s \in routed' <=> s \in routed
  PROVE  StreamInv(s)'
<1>1. "proxy" \in Ends /\ "backend" \in Ends /\ egress[s] \in Planes /\ egress'[s] = egress[s]
      /\ Ends = {"backend", "proxy"} /\ link' = link
  BY Sizes DEF Ends, TakenStep
<1>2. /\ stage["backend"][s] \notin {"idle", "looked"}
      /\ Fresh(s)' /\ Pinned(s)' /\ OneOpen(s)'
  BY <1>1, TakenKeeps
<1>3. stage["proxy"][s] = "idle"
  <2>1. wire["proxy"][s][egress[s]] # <<>>
    BY <1>1 DEF TakenStep
  <2>2. stage["proxy"][s] # "idle" => Head(wire["proxy"][s][egress[s]]) \in NotOpen
    BY <1>1, <2>1, TailIs DEF StreamInv, OneOpen
  <2> QED
    BY <2>2 DEF NotOpen
<1>4. \A x \in Ends : /\ read[x][s] = 0
                      /\ \A p \in Planes : wire[x][s][p] \in Seq(Quiet)
  BY <1>3 DEF StreamInv, Undialled
<1>5. Undialled(s)' /\ Routed(s)'
  BY DEF Undialled, StreamInv, Routed
<1>6. \A x \in Ends : wire'[x][s][egress[s]] \in Seq(Quiet)
  <2>1. wire["proxy"][s][egress[s]] # <<>> => Tail(wire["proxy"][s][egress[s]]) \in Seq(Quiet)
    BY <1>1, <1>4, TailIs
  <2>2. wire'["proxy"][s][egress[s]] = Tail(wire["proxy"][s][egress[s]]) /\ wire["proxy"][s][egress[s]] # <<>>
    BY <1>1 DEF TakenStep
  <2>3. wire'["backend"][s][egress[s]] = wire["backend"][s][egress[s]]
    BY <1>1 DEF TakenStep
  <2>4. wire'["proxy"][s][egress[s]] \in Seq(Quiet) /\ wire'["backend"][s][egress[s]] \in Seq(Quiet)
    BY <1>1, <1>4, <2>1, <2>2, <2>3
  <2> QED
    BY <1>1, <2>4
<1>7. \A x \in Ends, kind \in {"data", "window"} : Way(kind, x, s)' = Way(kind, x, s)
  <2>1. \A x \in Ends, kind \in {"data", "window"} : Way(kind, x, s)' = 0
    BY <1>1, <1>6, QuietSize DEF Way
  <2>2. \A x \in Ends, kind \in {"data", "window"} : Way(kind, x, s) = 0
    BY <1>1, <1>4, QuietSize DEF Way
  <2> QED
    BY <2>1, <2>2
<1>8. \A x \in Ends : stage[x][s] = "ended" => stage'[x][s] = "ended"
  BY <1>1, <1>3
<1>9. Whole(s)' => Whole(s)
  BY <1>1, <1>2, <1>3 DEF Whole
<1>10. \A x \in Ends : Known(x, s)' => /\ read[Other(x)][s] = 0
                                       /\ \A a \in Nat : InTurn(wire'[x][s][egress'[s]], a, a)
  BY <1>1, <1>4, <1>6, OtherEnd, TurnQuiet
<1>11. Booked(s)' /\ Credited(s)' /\ Turned(s)'
  BY <1>7, <1>8, <1>9, <1>10, StillKeeps
<1> QED
  BY <1>2, <1>5, <1>11 DEF StreamInv

\* The proxy refuses a stream: the open goes, the refusal is on its way.
LEMMA RefuseKeeps ==
  ASSUME Shape, Shape', NEW s \in Streams, StreamInv(s), StillStep(s),
         wire["proxy"][s][egress[s]] # <<>>, Head(wire["proxy"][s][egress[s]]).kind = "open",
         stage'["proxy"][s] = "ended", stage'["backend"][s] = stage["backend"][s],
         s \in routed' <=> s \in routed, egress'[s] = egress[s],
         \A x \in Ends, p \in Planes :
            wire'[x][s][p] = IF p # egress[s] THEN wire[x][s][p]
                             ELSE IF x = "proxy" THEN Tail(wire[x][s][p])
                             ELSE Append(wire[x][s][p], Note("refused"))
  PROVE  StreamInv(s)'
<1> DEFINE f == Note("refused")
<1>1. "proxy" \in Ends /\ "backend" \in Ends /\ egress[s] \in Planes
      /\ Ends = {"backend", "proxy"} /\ link' = link
  BY Sizes DEF Ends, StillStep
<1>2. f \in Quiet /\ f \in NotOpen
  BY NoteIs DEF Kinds
<1> HIDE DEF f
<1>3. stage["backend"][s] \notin {"idle", "looked"}
  BY <1>1 DEF StreamInv, Fresh
<1>4. stage["proxy"][s] = "idle"
  <2>1. stage["proxy"][s] # "idle" => Head(wire["proxy"][s][egress[s]]) \in NotOpen
    BY <1>1, TailIs DEF StreamInv, OneOpen
  <2> QED
    BY <2>1 DEF NotOpen
<1>5. \A x \in Ends, p \in Planes : wire[x][s][p] \in Seq(Quiet)
  BY <1>4 DEF StreamInv, Undialled
<1>6. \A p \in Planes : /\ wire'["proxy"][s][p] = wire["proxy"][s][p] \/ (p = egress[s] /\ wire'["proxy"][s][p] = Tail(wire["proxy"][s][p]))
                        /\ wire'["backend"][s][p] = wire["backend"][s][p] \/ (p = egress[s] /\ wire'["backend"][s][p] = Append(wire["backend"][s][p], f))
  BY <1>1 DEF f
<1>7. \A p \in Planes : p # egress[s] => \A x \in Ends : wire[x][s][p] = <<>> /\ wire'[x][s][p] = <<>>
  BY DEF StreamInv, Pinned
<1>8. Fresh(s)' /\ Pinned(s)' /\ Routed(s)' /\ Undialled(s)'
  <2>1. Fresh(s)' /\ Routed(s)' /\ Undialled(s)'
    BY <1>3 DEF Fresh, Routed, Undialled, StreamInv
  <2>2. Pinned(s)'
    BY <1>7 DEF Pinned
  <2> QED
    BY <2>1, <2>2
<1>9. OneOpen(s)'
  <2> SUFFICES ASSUME NEW p \in Planes
               PROVE  /\ wire'["backend"][s][p] \in Seq(NotOpen)
                      /\ wire'["proxy"][s][p] \in Seq(NotOpen)
                      /\ wire'["proxy"][s][p] # <<>> => Tail(wire'["proxy"][s][p]) \in Seq(NotOpen)
    BY DEF OneOpen
  <2>1. /\ wire["backend"][s][p] \in Seq(NotOpen)
        /\ wire["proxy"][s][p] # <<>> => Tail(wire["proxy"][s][p]) \in Seq(NotOpen)
    BY DEF StreamInv, OneOpen
  <2>2. Append(wire["backend"][s][p], f) \in Seq(NotOpen)
    BY <1>2, <2>1, AppendIs
  <2>3. wire'["proxy"][s][p] \in Seq(NotOpen)
    <3>1. CASE p = egress[s]
      <4>1. wire'["proxy"][s][p] = Tail(wire["proxy"][s][p]) /\ wire["proxy"][s][p] # <<>>
        BY <1>1, <3>1
      <4> QED
        BY <2>1, <4>1
    <3>2. CASE p # egress[s]
      <4>1. wire'["proxy"][s][p] = <<>> /\ <<>> \in Seq(NotOpen)
        BY <1>1, <1>7, <3>2
      <4> QED
        BY <4>1
    <3> QED
      BY <3>1, <3>2
  <2>4. wire'["proxy"][s][p] # <<>> => Tail(wire'["proxy"][s][p]) \in Seq(NotOpen)
    BY <2>3, TailIs
  <2> QED
    BY <1>6, <2>1, <2>2, <2>3, <2>4
<1>10. \A x \in Ends : wire'[x][s][egress[s]] \in Seq(Quiet)
  <2>1. Tail(wire["proxy"][s][egress[s]]) \in Seq(Quiet)
    BY <1>1, <1>5, TailIs
  <2>2. Append(wire["backend"][s][egress[s]], f) \in Seq(Quiet)
    BY <1>1, <1>2, <1>5, AppendIs
  <2>3. /\ wire'["proxy"][s][egress[s]] = Tail(wire["proxy"][s][egress[s]])
        /\ wire'["backend"][s][egress[s]] = Append(wire["backend"][s][egress[s]], f)
    BY <1>1 DEF f
  <2> QED
    BY <1>1, <2>1, <2>2, <2>3
<1>11. \A x \in Ends, kind \in {"data", "window"} : Way(kind, x, s)' = Way(kind, x, s)
  <2>1. \A x \in Ends, kind \in {"data", "window"} : Way(kind, x, s)' = 0
    BY <1>10, QuietSize DEF Way
  <2>2. \A x \in Ends, kind \in {"data", "window"} : Way(kind, x, s) = 0
    BY <1>1, <1>5, QuietSize DEF Way
  <2> QED
    BY <2>1, <2>2
<1>12. \A x \in Ends : stage[x][s] = "ended" => stage'[x][s] = "ended"
  BY <1>1, <1>4
<1>13. ~Whole(s)'
  BY <1>1 DEF Whole
<1>14. ASSUME NEW x \in Ends, Known(x, s)'
       PROVE  /\ Known(x, s)
              /\ \A a, b \in Nat : InTurn(wire[x][s][egress[s]], a, b) => InTurn(wire'[x][s][egress[s]], a, b)
  <2>1. x = "backend" /\ Known(x, s)
    BY <1>1, <1>14 DEF Known
  <2>2. wire'[x][s][egress[s]] = Append(wire[x][s][egress[s]], f) /\ wire[x][s][egress[s]] \in Seq(Frames)
        /\ f \in Frames /\ Weight("data", f) = 0 /\ f.kind # "data"
    BY <1>1, <1>2, <2>1, Sizes, Subsets DEF f, Quiet, Weight
  <2>3. ASSUME NEW a \in Nat, NEW b \in Nat, InTurn(wire[x][s][egress[s]], a, b)
        PROVE  InTurn(wire'[x][s][egress[s]], a, b)
    <3>1. InTurn(Append(wire[x][s][egress[s]], f), a, b + Weight("data", f))
      BY <2>2, <2>3, TurnAppend
    <3>2. b + Weight("data", f) = b
      BY <2>2
    <3> QED
      BY <2>2, <3>1, <3>2
  <2> QED
    BY <2>1, <2>3
<1>15. Booked(s)' /\ Credited(s)' /\ Turned(s)'
  BY <1>11, <1>12, <1>13, <1>14, StillKeeps
<1> QED
  BY <1>8, <1>9, <1>15 DEF StreamInv

\* The backend's open takes the verdict of the proxy.
LEMMA VerdictKeeps ==
  ASSUME Shape, Shape', NEW s \in Streams, StreamInv(s),
         stage["backend"][s] = "opening", stage'["backend"][s] = "open",
         stage'["proxy"][s] = stage["proxy"][s],
         inbox["backend"][s] # <<>>, Head(inbox["backend"][s]).kind = "opened",
         inbox'["backend"][s] = Tail(inbox["backend"][s]), inbox'["proxy"][s] = inbox["proxy"][s],
         \A x \in Ends : /\ avail'[x][s] = avail[x][s] /\ held'[x][s] = held[x][s]
                         /\ book'[x][s] = book[x][s] /\ got'[x][s] = got[x][s]
                         /\ read'[x][s] = read[x][s] /\ wire'[x][s] = wire[x][s],
         s \in routed' <=> s \in routed, egress'[s] = egress[s], link' = link, lost'[s] = lost[s]
  PROVE  StreamInv(s)'
<1> DEFINE f == Head(inbox["backend"][s])
           q == inbox["backend"][s]
<1>1. "proxy" \in Ends /\ "backend" \in Ends /\ Ends = {"backend", "proxy"}
  BY DEF Ends
<1>2. q \in Seq(Frames) /\ q \in Seq(Honest)
  BY <1>1, Sizes
<1>3. f \in Honest /\ f.kind = "opened"
  BY <1>2, TailIs
<1>4. \A kind : Weight(kind, f) = 0
  BY <1>3, WeightType
<1>5. stage["proxy"][s] # "idle"
  <2>1. stage["proxy"][s] = "idle" => f \in Quiet
    BY <1>1, TailIs DEF StreamInv, Undialled
  <2> QED
    BY <1>3, <2>1 DEF Quiet
<1>6. Awake(s) /\ Awake(s)'
  BY <1>5 DEF Awake
<1>7. Fresh(s)' /\ Routed(s)' /\ Undialled(s)' /\ OneOpen(s)' /\ Pinned(s)'
  <2>1. Note("close") \in NotOpen
    BY NoteIs DEF Kinds
  <2>2. MaySend("proxy", s, Note("close"))
    BY DEF MaySend
  <2>3. s \in routed' => s \in routed /\ stage'["backend"][s] \in {"opening", "open"}
    OBVIOUS
  <2> QED
    BY <1>1, <1>6, <2>1, <2>2, <2>3, AwakeKeeps
<1>8. \A kind \in {"data", "window"} : /\ Held(kind, "backend", s)' = Held(kind, "backend", s)
                                       /\ Held(kind, "proxy", s)' = Held(kind, "proxy", s)
  <2> SUFFICES ASSUME NEW kind \in {"data", "window"}
               PROVE  /\ Held(kind, "backend", s)' = Held(kind, "backend", s)
                      /\ Held(kind, "proxy", s)' = Held(kind, "proxy", s)
    OBVIOUS
  <2>1. Held(kind, "backend", s) = Held(kind, "backend", s)' + 0
    BY <1>1, <1>4, InboxTaken
  <2>2. Tail(q) \in Seq(Frames)
    BY <1>2, TailIs
  <2>3. Held(kind, "backend", s)' \in Nat
    BY <2>2, SizeType DEF Held
  <2>4. Held(kind, "proxy", s)' = Held(kind, "proxy", s)
    BY DEF Held
  <2> QED
    BY <2>1, <2>3, <2>4
<1>9. \A x \in Ends, kind \in {"data", "window"} : Way(kind, x, s)' = Way(kind, x, s)
  BY DEF Way
<1>10. QuietStep(s)
  <2>1. \A x \in Ends : stage[x][s] = "ended" => stage'[x][s] = "ended"
    BY <1>1
  <2>2. Whole(s)' => Whole(s)
    BY <1>1 DEF Whole
  <2>3. \A x \in Ends, kind \in {"data", "window"} : Held(kind, x, s)' = Held(kind, x, s)
    BY <1>1, <1>8
  <2> QED
    BY <1>9, <2>1, <2>2, <2>3 DEF QuietStep
<1>11. \A a, b \in Nat : InTurn(q, a, b) => InTurn(Tail(q), a, b)
  <2> SUFFICES ASSUME NEW a \in Nat, NEW b \in Nat, InTurn(q, a, b) PROVE InTurn(Tail(q), a, b)
    OBVIOUS
  <2>1. InTurn(Tail(q), a + Weight("data", f), b)
    BY <1>2, TurnTail
  <2> QED
    BY <1>4, <2>1
<1>12. \A x \in Ends : \A a, b \in Nat : InTurn(inbox[x][s], a, b) => InTurn(inbox'[x][s], a, b)
  BY <1>1, <1>11
<1>13. \A x \in Ends : Known(x, s)' => Known(x, s)
  BY <1>1 DEF Known
<1>14. Booked(s)' /\ Credited(s)' /\ Turned(s)'
  BY <1>10, <1>12, <1>13, QuietKeeps
<1> QED
  BY <1>7, <1>14 DEF StreamInv

\* The proxy's dial succeeds.
LEMMA DialKeeps ==
  ASSUME Shape, Shape', NEW s \in Streams, StreamInv(s), StillStep(s),
         stage["proxy"][s] = "opening", stage'["proxy"][s] = "open",
         stage'["backend"][s] = stage["backend"][s],
         s \in routed' <=> s \in routed, SendStep("backend", s, Note("opened"))
  PROVE  StreamInv(s)'
<1> DEFINE f == Note("opened")
<1>1. "proxy" \in Ends /\ "backend" \in Ends /\ Ends = {"backend", "proxy"} /\ egress'[s] = egress[s]
      /\ egress[s] \in Planes
  BY Sizes DEF Ends, SendStep
<1>2. f \in Honest /\ f \in NotOpen /\ f.kind # "data" /\ \A kind : Weight(kind, f) = 0
  BY NoteIs DEF Kinds
<1> HIDE DEF f
<1>3. Awake(s)
  BY ProxyAwake
<1>4. Awake(s)'
  BY <1>3 DEF Awake
<1>5. Fresh(s)' /\ Routed(s)' /\ Undialled(s)' /\ OneOpen(s)' /\ Pinned(s)'
  <2>1. MaySend("backend", s, f)
    BY DEF MaySend, f
  <2>2. s \in routed' => s \in routed /\ stage'["backend"][s] \in {"opening", "open"}
    BY DEF StreamInv, Routed
  <2> QED
    BY <1>1, <1>2, <1>3, <1>4, <2>1, <2>2, AwakeKeeps
<1>6. \A x \in Ends, kind \in {"data", "window"} : Way(kind, x, s)' = Way(kind, x, s)
  <2>1. ASSUME NEW kind \in {"data", "window"}
        PROVE  /\ Way(kind, "backend", s)' = Way(kind, "backend", s)
               /\ Way(kind, "proxy", s)' = Way(kind, "proxy", s)
    <3>1. SendStep("backend", s, f)
      BY DEF f
    <3>2. Way(kind, "backend", s)'
          = Way(kind, "backend", s) + (IF egress[s] \in link THEN Weight(kind, f) ELSE 0)
      BY <1>1, <1>2, <3>1, SentSizes
    <3>3. \A x \in Ends : x # "backend" => Way(kind, x, s)' = Way(kind, x, s)
      BY <1>1, <1>2, <3>1, SentSizes
    <3>4. Way(kind, "backend", s) \in Nat
      BY <1>1, Sizes
    <3> QED
      BY <1>1, <1>2, <3>2, <3>3, <3>4
  <2> QED
    BY <1>1, <2>1
<1>7. \A x \in Ends : stage[x][s] = "ended" => stage'[x][s] = "ended"
  BY <1>1
<1>8. Whole(s)' => Whole(s)
  BY <1>1 DEF Whole, SendStep
<1>9. ASSUME NEW x \in Ends, Known(x, s)'
      PROVE  /\ Known(x, s)
             /\ \A a, b \in Nat : InTurn(wire[x][s][egress[s]], a, b) => InTurn(wire'[x][s][egress[s]], a, b)
  <2>1. Known(x, s)
    BY <1>1, <1>9 DEF Known
  <2>2. CASE x = "proxy"
    <3>1. wire'[x][s][egress[s]] = wire[x][s][egress[s]]
      BY <1>1, <2>2 DEF SendStep
    <3> QED
      BY <2>1, <3>1
  <2>3. CASE x = "backend"
    <3> SUFFICES ASSUME NEW a \in Nat, NEW b \in Nat, InTurn(wire["backend"][s][egress[s]], a, b)
                 PROVE  InTurn(wire'["backend"][s][egress[s]], a, b)
      BY <2>1, <2>3
    <3>1. SendStep("backend", s, f)
      BY DEF f
    <3>2. InTurn(wire'["backend"][s][egress[s]], a, b + (IF egress[s] \in link THEN Weight("data", f) ELSE 0))
      BY <1>1, <1>2, <3>1, SentTurn
    <3>3. b + (IF egress[s] \in link THEN Weight("data", f) ELSE 0) = b
      BY <1>2
    <3> QED
      BY <3>2, <3>3
  <2> QED
    BY <1>1, <2>2, <2>3
<1>10. Booked(s)' /\ Credited(s)' /\ Turned(s)'
  BY <1>1, <1>6, <1>7, <1>8, <1>9, StillKeeps
<1> QED
  BY <1>5, <1>10 DEF StreamInv

\* The uplink of an end takes credit.
LEMMA TakeKeeps ==
  ASSUME Shape, Shape', NEW s \in Streams, StreamInv(s), NEW e \in Ends, stage[e][s] = "open",
         \A x \in Ends : /\ avail'[x][s] + held'[x][s] = avail[x][s] + held[x][s]
                         /\ stage'[x][s] = stage[x][s]
                         /\ book'[x][s] = book[x][s] /\ got'[x][s] = got[x][s]
                         /\ read'[x][s] = read[x][s] /\ wire'[x][s] = wire[x][s]
                         /\ inbox'[x][s] = inbox[x][s],
         s \in routed' <=> s \in routed, egress'[s] = egress[s], link' = link, lost'[s] = lost[s]
  PROVE  StreamInv(s)'
<1>1. "proxy" \in Ends /\ "backend" \in Ends /\ Ends = {"backend", "proxy"}
  BY DEF Ends
<1>2. Awake(s) /\ Awake(s)'
  <2>1. Awake(s)
    BY OpenAwake
  <2> QED
    BY <1>1, <2>1 DEF Awake
<1>3. Fresh(s)' /\ Routed(s)' /\ Undialled(s)' /\ OneOpen(s)' /\ Pinned(s)'
  <2>1. Note("close") \in NotOpen
    BY NoteIs DEF Kinds
  <2>2. MaySend("proxy", s, Note("close"))
    BY DEF MaySend
  <2>3. s \in routed' => s \in routed /\ stage'["backend"][s] \in {"opening", "open"}
    BY <1>1 DEF StreamInv, Routed
  <2> QED
    BY <1>1, <1>2, <2>1, <2>2, <2>3, AwakeKeeps
<1>4. QuietStep(s)
  <2>1. Whole(s)' => Whole(s)
    BY <1>1 DEF Whole
  <2>2. \A x \in Ends, kind \in {"data", "window"} :
           Way(kind, x, s)' = Way(kind, x, s) /\ Held(kind, x, s)' = Held(kind, x, s)
    BY DEF Way, Held
  <2> QED
    BY <2>1, <2>2 DEF QuietStep
<1>5. \A x \in Ends : Known(x, s)' => Known(x, s)
  BY <1>1 DEF Known
<1>6. Booked(s)' /\ Credited(s)' /\ Turned(s)'
  BY <1>4, <1>5, QuietKeeps
<1> QED
  BY <1>3, <1>6 DEF StreamInv

-----------------------------------------------------------------------------
(* The steps of one stream                                                 *)

\* One entry of a table of the ends and their streams is set.
LEMMA SetOne ==
  ASSUME NEW S, NEW f \in [Ends -> [Streams -> S]], NEW e \in Ends, NEW s \in Streams, NEW v \in S
  PROVE  /\ [f EXCEPT ![e][s] = v] \in [Ends -> [Streams -> S]]
         /\ [f EXCEPT ![e][s] = v][e][s] = v
         /\ \A x \in Ends, t \in Streams : x # e \/ t # s => [f EXCEPT ![e][s] = v][x][t] = f[x][t]
OBVIOUS

\* One wire is set.
LEMMA SetWire ==
  ASSUME NEW S, NEW f \in [Ends -> [Streams -> [Planes -> S]]], NEW e \in Ends, NEW s \in Streams,
         NEW p \in Planes, NEW v \in S
  PROVE  /\ [f EXCEPT ![e][s][p] = v] \in [Ends -> [Streams -> [Planes -> S]]]
         /\ [f EXCEPT ![e][s][p] = v][e][s][p] = v
         /\ \A x \in Ends, t \in Streams, r \in Planes :
               x # e \/ t # s \/ r # p => [f EXCEPT ![e][s][p] = v][x][t][r] = f[x][t][r]
         /\ \A x \in Ends, t \in Streams : t # s => [f EXCEPT ![e][s][p] = v][x][t] = f[x][t]
OBVIOUS

\* Streams other than s stand still, and so do the sockets.
Elsewhere(s) ==
    /\ \A t \in Streams \ {s} :
          /\ \A x \in Ends :
                /\ stage'[x][t] = stage[x][t] /\ avail'[x][t] = avail[x][t]
                /\ held'[x][t] = held[x][t] /\ book'[x][t] = book[x][t]
                /\ read'[x][t] = read[x][t] /\ got'[x][t] = got[x][t]
                /\ inbox'[x][t] = inbox[x][t] /\ wire'[x][t] = wire[x][t]
          /\ egress'[t] = egress[t] /\ lost'[t] = lost[t]
          /\ t \in routed' <=> t \in routed
    /\ link' = link

\* So only that stream's invariant is left to show.
LEMMA Together ==
  ASSUME Shape, Shape', \A t \in Streams : StreamInv(t), NEW s \in Streams, Elsewhere(s), StreamInv(s)'
  PROVE  \A t \in Streams : StreamInv(t)'
<1> SUFFICES ASSUME NEW t \in Streams, t # s PROVE StreamInv(t)'
  OBVIOUS
<1>1. SocketStep(t)
  BY DEF SocketStep, Elsewhere
<1> QED
  BY <1>1, SocketKeeps

\* A plane that is up is one both ends accept frames for.
LEMMA LinkAccepts ==
  ASSUME Shape, Sockety, LinksKnown, NEW s \in Streams, NEW e \in Ends, egress[s] \in link
  PROVE  Accepts(e, egress[s])
<1>1. CASE egress[s] = "binary"
  <2>1. plane["proxy"] # "none" /\ plane["backend"] # "none"
    BY <1>1 DEF LinksKnown
  <2>2. plane[e] # "gone" /\ plane[e] \in {"none", "up", "gone"}
    BY <1>1 DEF LinksKnown, Sockety
  <2> QED
    BY <1>1, <2>1, <2>2 DEF Accepts, Ends
<1>2. CASE egress[s] # "binary"
  <2>1. egress[s] = "control"
    BY <1>2 DEF Shape, Planes
  <2>2. handler = "serving"
    BY <2>1 DEF LinksKnown
  <2> QED
    BY <2>1, <2>2 DEF Accepts
<1> QED
  BY <1>1, <1>2

\* A frame is sent on the plane its stream is pinned to, or lost with it.
LEMMA SendIs ==
  ASSUME Shape, Sockety, LinksKnown, NEW s \in Streams, NEW e \in Ends, NEW f \in Honest,
         Put(e, s, f), egress' = egress, link' = link
  PROVE  /\ wire' \in [Ends -> [Streams -> [Planes -> Seq(Honest)]]]
         /\ SendStep(Other(e), s, f)
         /\ \A x \in Ends, t \in Streams : t # s => wire'[x][t] = wire[x][t]
<1> DEFINE o == Other(e)
           p == egress[s]
<1>1. o \in Ends /\ p \in Planes /\ wire \in [Ends -> [Streams -> [Planes -> Seq(Honest)]]]
  BY OtherEnd DEF Shape
<1>2. wire[o][s][p] \in Seq(Honest)
  BY <1>1
<1>3. Append(wire[o][s][p], f) \in Seq(Honest)
  BY <1>2, AppendIs
<1>4. wire' = IF p \in link THEN [wire EXCEPT ![o][s][p] = Append(wire[o][s][p], f)] ELSE wire
  <2>1. wire' = IF Accepts(e, p) /\ p \in link
                THEN [wire EXCEPT ![o][s][p] = Append(wire[o][s][p], f)] ELSE wire
    BY <1>1 DEF Put, PlaneOf
  <2> QED
    BY <2>1, LinkAccepts
<1> HIDE DEF o
<1>5. CASE p \in link
  <2> DEFINE v == Append(wire[o][s][p], f)
             w == [wire EXCEPT ![o][s][p] = v]
  <2>1. wire' = w /\ v \in Seq(Honest)
    BY <1>3, <1>4, <1>5
  <2> HIDE DEF v
  <2>2. /\ w \in [Ends -> [Streams -> [Planes -> Seq(Honest)]]] /\ w[o][s][p] = v
        /\ \A x \in Ends, t \in Streams, r \in Planes : x # o \/ t # s \/ r # p => w[x][t][r] = wire[x][t][r]
        /\ \A x \in Ends, t \in Streams : t # s => w[x][t] = wire[x][t]
    BY <1>1, <2>1, SetWire
  <2> HIDE DEF w
  <2>3. \A x \in Ends, r \in Planes :
           wire'[x][s][r] = IF x = o /\ r = p /\ p \in link THEN Append(wire[x][s][r], f) ELSE wire[x][s][r]
    BY <1>5, <2>1, <2>2 DEF v
  <2> QED
    BY <2>1, <2>2, <2>3 DEF SendStep, o
<1>6. CASE p \notin link
  <2>1. wire' = wire
    BY <1>4, <1>6
  <2> QED
    BY <1>1, <1>6, <2>1 DEF SendStep
<1> QED
  BY <1>5, <1>6

\* A full channel of the backend refuses a frame: only the two records know.
LEMMA RefusedIs ==
  ASSUME Shape, NEW s \in Streams, NEW e \in Ends, NEW f \in Honest, Refused(e, s, f)
  PROVE  /\ e = "backend" /\ egress[s] \in link /\ wire' = wire
         /\ lost' \in [Streams -> Nat] /\ untold' \subseteq Streams
         /\ lost'[s] = IF f.kind = "window" THEN lost[s] + f.size ELSE lost[s]
         /\ \A t \in Streams : t # s => lost'[t] = lost[t]
<1>1. lost \in [Streams -> Nat] /\ lost[s] \in Nat /\ untold \subseteq Streams
  BY DEF Shape
<1>2. /\ e = "backend" /\ egress[s] \in link /\ wire' = wire
      /\ lost' = IF f.kind = "window" THEN [lost EXCEPT ![s] = lost[s] + f.size] ELSE lost
      /\ untold' = IF f.kind = "close" THEN untold \cup {s} ELSE untold
  BY DEF Refused, PlaneOf
<1>3. f.kind = "window" => f.size \in Nat
  <2>1. f.size \in 0..Bounded /\ Bounded \in Nat
    BY WeightType, BoundedType
  <2> QED
    BY <2>1
<1>4. f.kind = "window" => lost[s] + f.size \in Nat
  BY <1>1, <1>3
<1>5. untold' \subseteq Streams
  BY <1>1, <1>2
<1> QED
  BY <1>1, <1>2, <1>4, <1>5

\* The parts of the state that a step of one stream leaves to others.
Settled == UNCHANGED <<egress, socketVars, allowed, faults>>

\* Such a step keeps what is known of the sockets.
LEMMA SettledKeeps ==
  ASSUME IInv, Settled, stuck' \subseteq Ends \X Streams
  PROVE  Sockety' /\ LinksKnown' /\ link' = link /\ egress' = egress
BY DEF IInv, Settled, Sockety, LinksKnown, socketVars

\* What Forget does to the tables.
LEMMA ForgetIs ==
  ASSUME Shape, NEW s \in Streams, NEW e \in Ends, Forget(e, s)
  PROVE  /\ stage' \in [Ends -> [Streams -> {"idle", "looked", "opening", "open", "ended"}]]
         /\ stage'["proxy"] \in [Streams -> {"idle", "opening", "open", "ended"}]
         /\ routed' \subseteq Streams
         /\ inbox' \in [Ends -> [Streams -> Seq(Honest)]]
         /\ avail' \in [Ends -> [Streams -> Nat]]
         /\ held' \in [Ends -> [Streams -> 0..MaxChunk]]
         /\ book' \in [Ends -> [Streams -> Int]]
         /\ stage'[e][s] = "ended" /\ inbox'[e][s] = <<>> /\ avail'[e][s] = Window
         /\ held'[e][s] = 0 /\ book'[e][s] = Window
         /\ \A x \in Ends, t \in Streams : x # e \/ t # s =>
               /\ stage'[x][t] = stage[x][t] /\ inbox'[x][t] = inbox[x][t]
               /\ avail'[x][t] = avail[x][t] /\ held'[x][t] = held[x][t] /\ book'[x][t] = book[x][t]
         /\ \A t \in Streams : t \in routed' => t \in routed /\ (t = s => e # "backend")
         /\ \A t \in Streams : t # s => (t \in routed' <=> t \in routed)
<1> DEFINE Stages == {"idle", "looked", "opening", "open", "ended"}
<1>1. /\ stage \in [Ends -> [Streams -> Stages]]
      /\ stage["proxy"] \in [Streams -> {"idle", "opening", "open", "ended"}]
      /\ routed \subseteq Streams
      /\ inbox \in [Ends -> [Streams -> Seq(Honest)]]
      /\ avail \in [Ends -> [Streams -> Nat]]
      /\ held \in [Ends -> [Streams -> 0..MaxChunk]]
      /\ book \in [Ends -> [Streams -> Int]]
  BY DEF Shape
<1>2. /\ stage' = [stage EXCEPT ![e][s] = "ended"]
      /\ routed' = IF e = "backend" THEN routed \ {s} ELSE routed
      /\ inbox' = [inbox EXCEPT ![e][s] = <<>>]
      /\ avail' = [avail EXCEPT ![e][s] = Window]
      /\ held' = [held EXCEPT ![e][s] = 0]
      /\ book' = [book EXCEPT ![e][s] = Window]
  BY DEF Forget
<1>3. "ended" \in Stages /\ <<>> \in Seq(Honest) /\ Window \in Nat /\ 0 \in 0..MaxChunk /\ Window \in Int
  BY BoundedType
<1>4. /\ stage' \in [Ends -> [Streams -> Stages]] /\ stage'[e][s] = "ended"
      /\ \A x \in Ends, t \in Streams : x # e \/ t # s => stage'[x][t] = stage[x][t]
  BY <1>1, <1>2, <1>3, SetOne
<1>5. /\ inbox' \in [Ends -> [Streams -> Seq(Honest)]] /\ inbox'[e][s] = <<>>
      /\ \A x \in Ends, t \in Streams : x # e \/ t # s => inbox'[x][t] = inbox[x][t]
  BY <1>1, <1>2, <1>3, SetOne
<1>6. /\ avail' \in [Ends -> [Streams -> Nat]] /\ avail'[e][s] = Window
      /\ \A x \in Ends, t \in Streams : x # e \/ t # s => avail'[x][t] = avail[x][t]
  BY <1>1, <1>2, <1>3, SetOne
<1>7. /\ held' \in [Ends -> [Streams -> 0..MaxChunk]] /\ held'[e][s] = 0
      /\ \A x \in Ends, t \in Streams : x # e \/ t # s => held'[x][t] = held[x][t]
  BY <1>1, <1>2, <1>3, SetOne
<1>8. /\ book' \in [Ends -> [Streams -> Int]] /\ book'[e][s] = Window
      /\ \A x \in Ends, t \in Streams : x # e \/ t # s => book'[x][t] = book[x][t]
  BY <1>1, <1>2, <1>3, SetOne
<1>9. stage'["proxy"] \in [Streams -> {"idle", "opening", "open", "ended"}]
  BY <1>1, <1>2 DEF Ends
<1>10. /\ routed' \subseteq Streams
       /\ \A t \in Streams : t \in routed' => t \in routed /\ (t = s => e # "backend")
       /\ \A t \in Streams : t # s => (t \in routed' <=> t \in routed)
  BY <1>1, <1>2
<1> QED
  BY <1>4, <1>5, <1>6, <1>7, <1>8, <1>9, <1>10

\* An end that is through with a stream keeps the invariant, whatever note it
\* leaves.
LEMMA EndInv ==
  ASSUME IInv, NEW s \in Streams, NEW e \in Ends, NEW k \in {"close", "refused"},
         stage[e][s] \in {"opening", "open"}, Forget(e, s),
         Send(e, s, Note(k)) \/ (wire' = wire /\ UNCHANGED <<lost, untold>>),
         got' = got, read' = read, Settled, stuck' = stuck
  PROVE  IInv'
<1>1. Shape /\ Sockety /\ LinksKnown /\ \A t \in Streams : StreamInv(t)
  BY DEF IInv
<1>2. Sockety' /\ LinksKnown' /\ link' = link /\ egress' = egress
  BY SettledKeeps DEF IInv, Sockety
<1>3. Note(k) \in Honest /\ Note(k).kind # "window"
  BY NoteIs DEF Kinds, Note
<1>4. /\ wire' \in [Ends -> [Streams -> [Planes -> Seq(Honest)]]]
      /\ SendStep(Other(e), s, Note(k)) \/ \A x \in Ends : wire'[x][s] = wire[x][s]
      /\ \A x \in Ends, t \in Streams : t # s => wire'[x][t] = wire[x][t]
      /\ lost' \in [Streams -> Nat] /\ untold' \subseteq Streams
      /\ \A t \in Streams : lost'[t] = lost[t]
  <2>1. CASE Put(e, s, Note(k)) /\ UNCHANGED <<lost, untold>>
    <3>1. /\ wire' \in [Ends -> [Streams -> [Planes -> Seq(Honest)]]]
          /\ SendStep(Other(e), s, Note(k))
          /\ \A x \in Ends, t \in Streams : t # s => wire'[x][t] = wire[x][t]
      BY <1>1, <1>2, <1>3, <2>1, SendIs
    <3> QED
      BY <1>1, <2>1, <3>1 DEF Shape
  <2>2. CASE Refused(e, s, Note(k))
    <3>1. /\ wire' = wire /\ lost' \in [Streams -> Nat] /\ untold' \subseteq Streams
          /\ lost'[s] = lost[s] /\ \A t \in Streams : t # s => lost'[t] = lost[t]
      BY <1>1, <1>3, <2>2, RefusedIs
    <3> QED
      BY <1>1, <3>1 DEF Shape
  <2>3. CASE wire' = wire /\ UNCHANGED <<lost, untold>>
    BY <1>1, <2>3 DEF Shape
  <2> QED
    BY <2>1, <2>2, <2>3 DEF Send
<1>5. /\ read' \in [Ends -> [Streams -> Nat]]
      /\ \A x \in Ends, t \in Streams : read'[x][t] = read[x][t]
  BY <1>1 DEF Shape
<1>6. /\ stage' \in [Ends -> [Streams -> {"idle", "looked", "opening", "open", "ended"}]]
      /\ stage'["proxy"] \in [Streams -> {"idle", "opening", "open", "ended"}]
      /\ routed' \subseteq Streams
      /\ inbox' \in [Ends -> [Streams -> Seq(Honest)]]
      /\ avail' \in [Ends -> [Streams -> Nat]]
      /\ held' \in [Ends -> [Streams -> 0..MaxChunk]]
      /\ book' \in [Ends -> [Streams -> Int]]
  BY <1>1, ForgetIs
<1>7. Shape'
  BY <1>1, <1>2, <1>4, <1>5, <1>6 DEF Shape
<1>8. /\ stage'[e][s] = "ended" /\ inbox'[e][s] = <<>> /\ avail'[e][s] = Window
      /\ held'[e][s] = 0 /\ book'[e][s] = Window
      /\ \A x \in Ends, t \in Streams : x # e \/ t # s =>
            /\ stage'[x][t] = stage[x][t] /\ inbox'[x][t] = inbox[x][t]
            /\ avail'[x][t] = avail[x][t] /\ held'[x][t] = held[x][t] /\ book'[x][t] = book[x][t]
      /\ \A t \in Streams : t \in routed' => t \in routed /\ (t = s => e # "backend")
      /\ \A t \in Streams : t # s => (t \in routed' <=> t \in routed)
  BY <1>1, ForgetIs
<1>9. EndStep(e, s, k)
  <2>1. Other(e) \in Ends /\ Other(e) # e
    BY OtherEnd
  <2> QED
    BY <1>2, <1>4, <1>5, <1>8, <2>1 DEF EndStep
<1>10. StreamInv(s)'
  BY <1>1, <1>9, EndKeeps
<1>11. Elsewhere(s)
  BY <1>2, <1>4, <1>5, <1>8 DEF Elsewhere
<1> QED
  BY <1>1, <1>2, <1>7, <1>10, <1>11, Together DEF IInv

\* A step of one stream needs only that stream looked at.
LEMMA OfOneStream ==
  ASSUME IInv, Shape', Sockety', LinksKnown', NEW s \in Streams, Elsewhere(s), StreamInv(s)'
  PROVE  IInv'
<1>1. Shape /\ \A t \in Streams : StreamInv(t)
  BY DEF IInv
<1>2. \A t \in Streams : StreamInv(t)'
  BY <1>1, Together
<1> QED
  BY <1>2 DEF IInv

\* One entry of the table of stages is set.
LEMMA SetStage ==
  ASSUME Shape, NEW s \in Streams, NEW e \in Ends,
         NEW v \in {"idle", "opening", "open", "ended"},
         stage' = [stage EXCEPT ![e][s] = v]
  PROVE  /\ stage' \in [Ends -> [Streams -> {"idle", "looked", "opening", "open", "ended"}]]
         /\ stage'["proxy"] \in [Streams -> {"idle", "opening", "open", "ended"}]
         /\ stage'[e][s] = v
         /\ \A x \in Ends, t \in Streams : x # e \/ t # s => stage'[x][t] = stage[x][t]
<1>1. /\ stage \in [Ends -> [Streams -> {"idle", "looked", "opening", "open", "ended"}]]
      /\ stage["proxy"] \in [Streams -> {"idle", "opening", "open", "ended"}]
  BY DEF Shape
<1>2. /\ stage' \in [Ends -> [Streams -> {"idle", "looked", "opening", "open", "ended"}]]
      /\ stage'[e][s] = v
      /\ \A x \in Ends, t \in Streams : x # e \/ t # s => stage'[x][t] = stage[x][t]
  BY <1>1, SetOne
<1>3. stage'["proxy"] \in [Streams -> {"idle", "opening", "open", "ended"}]
  BY <1>1 DEF Ends
<1> QED
  BY <1>2, <1>3

\* The backend picks the plane of a stream.
LEMMA OpenLooksInv ==
  ASSUME IInv, NEW s \in Streams, OpenLooks(s)
  PROVE  IInv'
<1>1. Shape /\ Sockety /\ LinksKnown /\ StreamInv(s) /\ "backend" \in Ends /\ "proxy" \in Ends
  BY DEF IInv, Ends
<1>2. /\ stage' \in [Ends -> [Streams -> {"idle", "looked", "opening", "open", "ended"}]]
      /\ stage'["proxy"] \in [Streams -> {"idle", "opening", "open", "ended"}]
      /\ stage'["backend"][s] = "looked"
      /\ \A x \in Ends, t \in Streams : x # "backend" \/ t # s => stage'[x][t] = stage[x][t]
  <2>1. stage' = [stage EXCEPT !["backend"][s] = "looked"]
    BY DEF OpenLooks
  <2>2. /\ "looked" \in {"idle", "looked", "opening", "open", "ended"}
        /\ stage \in [Ends -> [Streams -> {"idle", "looked", "opening", "open", "ended"}]]
    BY <1>1 DEF Shape
  <2>3. stage'["proxy"] \in [Streams -> {"idle", "opening", "open", "ended"}]
    BY <1>1, <2>1 DEF Shape
  <2>4. /\ stage' \in [Ends -> [Streams -> {"idle", "looked", "opening", "open", "ended"}]]
        /\ stage'["backend"][s] = "looked"
        /\ \A x \in Ends, t \in Streams : x # "backend" \/ t # s => stage'[x][t] = stage[x][t]
    BY <1>1, <2>1, <2>2, SetOne
  <2> QED
    BY <2>3, <2>4
<1>3. /\ egress' \in [Streams -> Planes] /\ egress'[s] \in Planes
      /\ \A t \in Streams : t # s => egress'[t] = egress[t]
      /\ plane["backend"] = "none" => egress'[s] = "control"
  BY <1>1 DEF OpenLooks, Shape, Planes
<1>4. UNCHANGED <<routed, inbox, wire, avail, held, book, read, got, lost, untold, socketVars,
                  allowed, stuck, faults>>
  BY DEF OpenLooks
<1>5. Shape'
  BY <1>1, <1>2, <1>3, <1>4 DEF Shape
<1>6. Sockety' /\ LinksKnown' /\ link' = link
  <2>1. Sockety' /\ link' = link
    BY <1>1, <1>4 DEF Sockety, socketVars
  <2>2. LinksKnown'
    BY <1>1, <1>3, <1>4 DEF LinksKnown, socketVars
  <2> QED
    BY <2>1, <2>2
<1>7. LookStep(s)
  <2>1. stage["backend"][s] = "idle"
    BY DEF OpenLooks
  <2> QED
    BY <1>1, <1>2, <1>3, <1>4, <1>6, <2>1 DEF LookStep, StillStep
<1>8. StreamInv(s)'
  BY <1>1, <1>5, <1>7, LookKeeps
<1>9. Elsewhere(s)
  BY <1>2, <1>3, <1>4, <1>6 DEF Elsewhere
<1> QED
  BY <1>5, <1>6, <1>8, <1>9, OfOneStream

\* The backend's open goes out, or finds nobody to take it.
LEMMA OpenSendsInv ==
  ASSUME IInv, NEW s \in Streams, OpenSends(s)
  PROVE  IInv'
<1>1. Shape /\ Sockety /\ LinksKnown /\ StreamInv(s) /\ "backend" \in Ends /\ "proxy" \in Ends
  BY DEF IInv, Ends
<1>2. /\ UNCHANGED <<egress, inbox, avail, held, book, read, got, lost, untold, socketVars,
                     allowed, stuck, faults>>
      /\ stage["backend"][s] = "looked"
  BY DEF OpenSends
<1>3. Sockety' /\ LinksKnown' /\ link' = link /\ egress' = egress
  BY <1>1, <1>2, SettledKeeps DEF Settled, Sockety
<1>4. CASE /\ stage' = [stage EXCEPT !["backend"][s] = "opening"]
           /\ routed' = routed \cup {s}
           /\ Put("backend", s, Note("open"))
  <2>1. /\ stage' = [stage EXCEPT !["backend"][s] = "opening"]
        /\ routed' = routed \cup {s}
        /\ Put("backend", s, Note("open"))
    BY <1>4
  <2>2. /\ stage' \in [Ends -> [Streams -> {"idle", "looked", "opening", "open", "ended"}]]
        /\ stage'["proxy"] \in [Streams -> {"idle", "opening", "open", "ended"}]
        /\ stage'["backend"][s] = "opening"
        /\ \A x \in Ends, t \in Streams : x # "backend" \/ t # s => stage'[x][t] = stage[x][t]
    BY <1>1, <2>1, SetStage
  <2>3. Note("open") \in Honest /\ Other("backend") = "proxy"
    BY NoteIs DEF Kinds, Other
  <2>4. /\ wire' \in [Ends -> [Streams -> [Planes -> Seq(Honest)]]]
        /\ SendStep("proxy", s, Note("open"))
        /\ \A x \in Ends, t \in Streams : t # s => wire'[x][t] = wire[x][t]
    BY <1>1, <1>3, <2>1, <2>3, SendIs
  <2>5. routed' \subseteq Streams /\ \A t \in Streams : t # s => (t \in routed' <=> t \in routed)
    BY <1>1, <2>1 DEF Shape
  <2>6. Shape'
    BY <1>1, <1>2, <2>2, <2>4, <2>5 DEF Shape
  <2>7. StillStep(s)
    BY <1>2, <1>3 DEF StillStep
  <2>8. StreamInv(s)'
    BY <1>1, <1>2, <2>2, <2>4, <2>6, <2>7, OpenKeeps
  <2>9. Elsewhere(s)
    BY <1>2, <1>3, <2>2, <2>4, <2>5 DEF Elsewhere
  <2> QED
    BY <1>3, <2>6, <2>8, <2>9, OfOneStream
<1>5. CASE /\ stage' = [stage EXCEPT !["backend"][s] = "ended"]
           /\ UNCHANGED <<routed, wire>>
  <2>1. /\ stage' = [stage EXCEPT !["backend"][s] = "ended"]
        /\ UNCHANGED <<routed, wire>>
    BY <1>5
  <2>2. /\ stage' \in [Ends -> [Streams -> {"idle", "looked", "opening", "open", "ended"}]]
        /\ stage'["proxy"] \in [Streams -> {"idle", "opening", "open", "ended"}]
        /\ stage'["backend"][s] = "ended"
        /\ \A x \in Ends, t \in Streams : x # "backend" \/ t # s => stage'[x][t] = stage[x][t]
    <3>1. "backend" # "proxy" /\ "ended" \in {"idle", "looked", "opening", "open", "ended"}
      OBVIOUS
    <3> QED
      BY <1>1, <2>1, <3>1, SetStage, Zenon
  <2>3. Shape'
    BY <1>1, <1>2, <2>1, <2>2 DEF Shape
  <2>4. LookStep(s)
    <3>1. egress[s] \in Planes
      BY <1>1, Sizes
    <3> QED
      BY <1>1, <1>2, <1>3, <2>1, <2>2, <3>1 DEF LookStep, StillStep
  <2>5. StreamInv(s)'
    BY <1>1, <2>3, <2>4, LookKeeps
  <2>6. Elsewhere(s)
    BY <1>2, <1>3, <2>1, <2>2 DEF Elsewhere
  <2> QED
    BY <1>3, <2>3, <2>5, <2>6, OfOneStream
<1> QED
  BY <1>4, <1>5 DEF OpenSends

\* The backend takes the verdict of the proxy, or gives the stream up.
LEMMA TakeVerdictInv ==
  ASSUME IInv, NEW s \in Streams, TakeVerdict(s)
  PROVE  IInv'
<1>1. Shape /\ Sockety /\ LinksKnown /\ StreamInv(s) /\ "backend" \in Ends /\ "proxy" \in Ends
  BY DEF IInv, Ends
<1>2. /\ UNCHANGED <<egress, wire, read, got, lost, untold, socketVars, allowed, stuck,
                     faults>>
      /\ stage["backend"][s] = "opening" /\ inbox["backend"][s] # <<>>
  BY DEF TakeVerdict
<1>3. Settled
  BY <1>2 DEF Settled
<1>4. CASE Head(inbox["backend"][s]).kind = "opened"
  <2>1. /\ stage' = [stage EXCEPT !["backend"][s] = "open"]
        /\ inbox' = [inbox EXCEPT !["backend"][s] = Tail(inbox["backend"][s])]
        /\ UNCHANGED <<routed, avail, held, book>>
    BY <1>1, <1>4 DEF TakeVerdict, Shape
  <2>2. /\ stage' \in [Ends -> [Streams -> {"idle", "looked", "opening", "open", "ended"}]]
        /\ stage'["proxy"] \in [Streams -> {"idle", "opening", "open", "ended"}]
        /\ stage'["backend"][s] = "open"
        /\ \A x \in Ends, t \in Streams : x # "backend" \/ t # s => stage'[x][t] = stage[x][t]
    BY <1>1, <2>1, SetStage
  <2>3. inbox["backend"][s] \in Seq(Honest) /\ inbox \in [Ends -> [Streams -> Seq(Honest)]]
    BY <1>1 DEF Shape
  <2>4. Tail(inbox["backend"][s]) \in Seq(Honest)
    BY <1>2, <2>3, TailIs
  <2>5. /\ inbox' \in [Ends -> [Streams -> Seq(Honest)]]
        /\ inbox'["backend"][s] = Tail(inbox["backend"][s])
        /\ \A x \in Ends, t \in Streams : x # "backend" \/ t # s => inbox'[x][t] = inbox[x][t]
    BY <1>1, <2>1, <2>3, <2>4, SetOne
  <2>6. Shape'
    BY <1>1, <1>2, <2>1, <2>2, <2>5 DEF Shape
  <2>7. Sockety' /\ LinksKnown' /\ link' = link /\ egress' = egress
    BY <1>1, <1>2, <1>3, SettledKeeps DEF Sockety
  <2>8. StreamInv(s)'
    <3>1. /\ stage'["proxy"][s] = stage["proxy"][s] /\ inbox'["proxy"][s] = inbox["proxy"][s]
          /\ s \in routed' <=> s \in routed
          /\ egress'[s] = egress[s] /\ link' = link /\ lost'[s] = lost[s]
      BY <1>1, <1>2, <2>1, <2>2, <2>5, <2>7
    <3>2. \A x \in Ends : /\ avail'[x][s] = avail[x][s] /\ held'[x][s] = held[x][s]
                          /\ book'[x][s] = book[x][s] /\ got'[x][s] = got[x][s]
                          /\ read'[x][s] = read[x][s] /\ wire'[x][s] = wire[x][s]
      BY <1>2, <2>1
    <3> QED
      BY <1>1, <1>2, <1>4, <2>2, <2>5, <2>6, <3>1, <3>2, VerdictKeeps
  <2>9. Elsewhere(s)
    BY <1>2, <2>1, <2>2, <2>5, <2>7 DEF Elsewhere
  <2> QED
    BY <2>6, <2>7, <2>8, <2>9, OfOneStream
<1>5. CASE Head(inbox["backend"][s]).kind # "opened"
  <2>1. Forget("backend", s)
    BY <1>5 DEF TakeVerdict
  <2> QED
    BY <1>1, <1>2, <1>3, <2>1, EndInv
<1> QED
  BY <1>4, <1>5

\* An open that timed out, a source that ended and bytes that were not
\* written end the stream.
LEMMA ClosesInv ==
  ASSUME IInv, NEW s \in Streams, NEW e \in Ends, stage[e][s] \in {"opening", "open"}, End(e, s),
         UNCHANGED <<egress, read, got, socketVars, allowed, stuck, faults>>
  PROVE  IInv'
<1>1. Forget(e, s) /\ Send(e, s, Note("close")) /\ Settled
  BY DEF End, Settled
<1> QED
  BY <1>1, EndInv

\* The proxy's dial fails.
LEMMA DialFailsInv ==
  ASSUME IInv, NEW s \in Streams, DialFails(s)
  PROVE  IInv'
<1>1. /\ Forget("proxy", s) /\ Send("proxy", s, Note("refused")) /\ Settled
      /\ stage["proxy"][s] = "opening" /\ got' = got /\ read' = read /\ stuck' = stuck
      /\ "proxy" \in Ends
  BY DEF DialFails, Settled, Ends
<1> QED
  BY <1>1, EndInv

\* The proxy's dial succeeds.
LEMMA DialSucceedsInv ==
  ASSUME IInv, NEW s \in Streams, DialSucceeds(s)
  PROVE  IInv'
<1>1. Shape /\ Sockety /\ LinksKnown /\ StreamInv(s) /\ "backend" \in Ends /\ "proxy" \in Ends
  BY DEF IInv, Ends
<1>2. /\ UNCHANGED <<egress, routed, inbox, avail, held, book, read, got, socketVars, allowed, stuck, faults>>
      /\ stage["proxy"][s] = "opening" /\ stage' = [stage EXCEPT !["proxy"][s] = "open"]
      /\ Put("proxy", s, Note("opened")) /\ UNCHANGED <<lost, untold>>
  BY DEF DialSucceeds, Send, Refused
<1>3. Sockety' /\ LinksKnown' /\ link' = link /\ egress' = egress
  BY <1>1, <1>2, SettledKeeps DEF Settled, Sockety
<1>4. /\ stage' \in [Ends -> [Streams -> {"idle", "looked", "opening", "open", "ended"}]]
      /\ stage'["proxy"] \in [Streams -> {"idle", "opening", "open", "ended"}]
      /\ stage'["proxy"][s] = "open"
      /\ \A x \in Ends, t \in Streams : x # "proxy" \/ t # s => stage'[x][t] = stage[x][t]
  BY <1>1, <1>2, SetStage
<1>5. Note("opened") \in Honest /\ Other("proxy") = "backend"
  BY NoteIs DEF Kinds, Other
<1>6. /\ wire' \in [Ends -> [Streams -> [Planes -> Seq(Honest)]]]
      /\ SendStep("backend", s, Note("opened"))
      /\ \A x \in Ends, t \in Streams : t # s => wire'[x][t] = wire[x][t]
  BY <1>1, <1>2, <1>3, <1>5, SendIs
<1>7. Shape'
  BY <1>1, <1>2, <1>4, <1>6 DEF Shape
<1>8. StreamInv(s)'
  <2>1. StillStep(s)
    BY <1>2, <1>3 DEF StillStep
  <2> QED
    BY <1>1, <1>2, <1>4, <1>6, <1>7, <2>1, DialKeeps
<1>9. Elsewhere(s)
  BY <1>2, <1>3, <1>4, <1>6 DEF Elsewhere
<1> QED
  BY <1>3, <1>7, <1>8, <1>9, OfOneStream

\* The lesser of two numbers.
LEMMA MinIs ==
  ASSUME NEW a \in Nat, NEW b \in Nat
  PROVE  Min({a, b}) \in Nat /\ Min({a, b}) <= a /\ Min({a, b}) <= b
<1>1. \E x \in {a, b} : \A y \in {a, b} : x <= y
  OBVIOUS
<1>2. Min({a, b}) \in {a, b} /\ \A y \in {a, b} : Min({a, b}) <= y
  BY <1>1 DEF Min
<1> QED
  BY <1>2

\* An uplink takes credit.
LEMMA TakeInv ==
  ASSUME IInv, NEW s \in Streams, NEW e \in Ends, Take(e, s)
  PROVE  IInv'
<1> DEFINE n == Min({avail[e][s], MaxChunk})
<1>1. Shape /\ Sockety /\ LinksKnown /\ StreamInv(s)
  BY DEF IInv
<1>2. /\ UNCHANGED <<stage, egress, routed, inbox, wire, book, read, got, lost, untold, socketVars,
                     allowed, stuck, faults>>
      /\ stage[e][s] = "open" /\ held[e][s] = 0
  BY DEF Take
<1>3. /\ avail \in [Ends -> [Streams -> Nat]] /\ held \in [Ends -> [Streams -> 0..MaxChunk]]
      /\ avail[e][s] \in Nat
  BY <1>1 DEF Shape
<1>4. n \in 0..MaxChunk /\ avail[e][s] - n \in Nat /\ n \in Nat
  BY <1>3, BoundedType, MinIs
<1>5. held' = [held EXCEPT ![e][s] = n] /\ avail' = [avail EXCEPT ![e][s] = avail[e][s] - n]
  BY <1>3 DEF Take
<1> HIDE DEF n
<1>6. /\ held' \in [Ends -> [Streams -> 0..MaxChunk]] /\ held'[e][s] = n
      /\ \A x \in Ends, t \in Streams : x # e \/ t # s => held'[x][t] = held[x][t]
  BY <1>3, <1>4, <1>5, SetOne
<1>7. /\ avail' \in [Ends -> [Streams -> Nat]] /\ avail'[e][s] = avail[e][s] - n
      /\ \A x \in Ends, t \in Streams : x # e \/ t # s => avail'[x][t] = avail[x][t]
  BY <1>3, <1>4, <1>5, SetOne
<1>8. Sockety' /\ LinksKnown' /\ link' = link /\ egress' = egress
  BY <1>1, <1>2, SettledKeeps DEF Settled, Sockety
<1>9. Shape'
  BY <1>1, <1>2, <1>6, <1>7 DEF Shape
<1>10. StreamInv(s)'
  <2>1. avail'[e][s] + held'[e][s] = avail[e][s] + held[e][s]
    BY <1>2, <1>3, <1>4, <1>6, <1>7
  <2>2. \A x \in Ends : avail'[x][s] + held'[x][s] = avail[x][s] + held[x][s]
    BY <1>6, <1>7, <2>1
  <2>3. \A x \in Ends : /\ stage'[x][s] = stage[x][s]
                        /\ book'[x][s] = book[x][s] /\ got'[x][s] = got[x][s]
                        /\ read'[x][s] = read[x][s] /\ wire'[x][s] = wire[x][s]
                        /\ inbox'[x][s] = inbox[x][s]
    BY <1>2
  <2>4. /\ s \in routed' <=> s \in routed
        /\ egress'[s] = egress[s] /\ link' = link /\ lost'[s] = lost[s]
    BY <1>2, <1>8
  <2> QED
    BY <1>1, <1>2, <1>9, <2>2, <2>3, <2>4, TakeKeeps
<1>11. Elsewhere(s)
  BY <1>2, <1>6, <1>7, <1>8 DEF Elsewhere
<1> QED
  BY <1>8, <1>9, <1>10, <1>11, OfOneStream

\* An uplink reads and sends.
LEMMA ReadInv ==
  ASSUME IInv, NEW s \in Streams, NEW e \in Ends, NEW n, Read(e, s, n)
  PROVE  IInv'
<1>1. Shape /\ Sockety /\ LinksKnown /\ StreamInv(s)
  BY DEF IInv
<1>2. /\ UNCHANGED <<egress, got, socketVars, allowed, stuck, faults>>
      /\ stage[e][s] = "open" /\ n \in 1..held[e][s] /\ read[e][s] + n <= Bytes[e]
  BY DEF Read
<1>3. /\ read \in [Ends -> [Streams -> Nat]] /\ avail \in [Ends -> [Streams -> Nat]]
      /\ held \in [Ends -> [Streams -> 0..MaxChunk]]
      /\ read[e][s] \in Nat /\ avail[e][s] \in Nat /\ held[e][s] \in Nat
  BY <1>1, Sizes DEF Shape
<1>4. Settled
  BY <1>2 DEF Settled
<1>5. CASE End(e, s) /\ UNCHANGED read
  <2>1. Forget(e, s) /\ Send(e, s, Note("close"))
    BY <1>5 DEF End
  <2>2. got' = got /\ stuck' = stuck /\ read' = read /\ stage[e][s] \in {"opening", "open"}
    BY <1>2, <1>5
  <2> QED
    BY <1>4, <2>1, <2>2, EndInv
<1>6. CASE ~(End(e, s) /\ UNCHANGED read)
  <2> DEFINE f == Data(read[e][s] + 1, n)
  <2>1. /\ held' = [held EXCEPT ![e][s] = 0]
        /\ avail' = [avail EXCEPT ![e][s] = avail[e][s] + (held[e][s] - n)]
        /\ read' = [read EXCEPT ![e][s] = read[e][s] + n]
        /\ Put(e, s, f)
        /\ UNCHANGED <<stage, routed, inbox, book, lost, untold>>
    BY <1>3, <1>6 DEF Read, Refund
  <2>2. f \in Honest
    <3>1. Bytes[e] \in Nat /\ Bytes[e] <= Bounded /\ Bounded \in Nat
      BY BoundedType
    <3>2. read[e][s] + 1 \in 0..Bounded /\ n \in 0..Bounded
      BY <1>2, <1>3, <3>1
    <3> QED
      BY <3>2, DataIs
  <2> HIDE DEF f
  <2>3. Sockety' /\ LinksKnown' /\ link' = link /\ egress' = egress
    BY <1>1, <1>2, <1>4, SettledKeeps DEF Sockety
  <2>4. /\ wire' \in [Ends -> [Streams -> [Planes -> Seq(Honest)]]]
        /\ SendStep(Other(e), s, f)
        /\ \A x \in Ends, t \in Streams : t # s => wire'[x][t] = wire[x][t]
    BY <1>1, <2>1, <2>2, <2>3, SendIs
  <2>5. /\ read' \in [Ends -> [Streams -> Nat]] /\ read'[e][s] = read[e][s] + n
        /\ \A x \in Ends, t \in Streams : x # e \/ t # s => read'[x][t] = read[x][t]
    <3>1. read[e][s] + n \in Nat
      BY <1>2, <1>3
    <3> QED
      BY <1>3, <2>1, <3>1, SetOne
  <2>6. /\ held' \in [Ends -> [Streams -> 0..MaxChunk]] /\ held'[e][s] = 0
        /\ \A x \in Ends, t \in Streams : x # e \/ t # s => held'[x][t] = held[x][t]
    <3>1. 0 \in 0..MaxChunk
      BY BoundedType
    <3> QED
      BY <1>3, <2>1, <3>1, SetOne
  <2>7. /\ avail' \in [Ends -> [Streams -> Nat]] /\ avail'[e][s] = avail[e][s] + (held[e][s] - n)
        /\ \A x \in Ends, t \in Streams : x # e \/ t # s => avail'[x][t] = avail[x][t]
    <3>1. avail[e][s] + (held[e][s] - n) \in Nat
      BY <1>2, <1>3
    <3> QED
      BY <1>3, <2>1, <3>1, SetOne
  <2>8. Shape'
    BY <1>1, <1>2, <2>1, <2>3, <2>4, <2>5, <2>6, <2>7 DEF Shape
  <2>9. StreamInv(s)'
    <3>1. Other(e) \in Ends /\ Other(e) # e
      BY OtherEnd
    <3>2. SendStep(Other(e), s, Data(read[e][s] + 1, n))
      BY <2>4 DEF f
    <3>3. ReadStep(e, s, n)
      BY <1>2, <2>1, <2>5, <2>6, <2>7, <3>1, <3>2 DEF ReadStep
    <3> QED
      BY <1>1, <3>3, ReadKeeps
  <2>10. Elsewhere(s)
    BY <1>2, <2>1, <2>3, <2>4, <2>5, <2>6, <2>7 DEF Elsewhere
  <2> QED
    BY <2>3, <2>8, <2>9, <2>10, OfOneStream
<1> QED
  BY <1>5, <1>6

\* A downlink writes bytes, takes a grant or ends.
LEMMA ProcessInv ==
  ASSUME IInv, NEW s \in Streams, NEW e \in Ends, Process(e, s)
  PROVE  IInv'
<1> DEFINE f == Head(inbox[e][s])
<1>1. Shape /\ Sockety /\ LinksKnown /\ StreamInv(s)
  BY DEF IInv
<1>2. /\ UNCHANGED <<egress, read, socketVars, allowed, stuck, faults>>
      /\ stage[e][s] = "open" /\ inbox[e][s] # <<>>
  BY DEF Process
<1>3. Settled /\ stuck' = stuck
  BY <1>2 DEF Settled
<1>4. /\ inbox \in [Ends -> [Streams -> Seq(Honest)]] /\ inbox[e][s] \in Seq(Honest)
      /\ avail \in [Ends -> [Streams -> Nat]] /\ avail[e][s] \in Nat
      /\ book \in [Ends -> [Streams -> Int]] /\ book[e][s] \in Int
      /\ got \in [Ends -> [Streams -> Seq(Nat)]] /\ got[e][s] \in Seq(Nat)
  BY <1>1 DEF Shape
<1>5. f \in Honest /\ f.size \in 0..Bounded /\ f.size \in Nat /\ Tail(inbox[e][s]) \in Seq(Honest)
  <2>1. f \in Honest /\ Tail(inbox[e][s]) \in Seq(Honest)
    BY <1>2, <1>4, TailIs
  <2>2. f.size \in 0..Bounded /\ Bounded \in Nat
    BY <2>1, WeightType, BoundedType
  <2> QED
    BY <2>1, <2>2
<1>6. Sockety' /\ LinksKnown' /\ link' = link /\ egress' = egress
  BY <1>1, <1>3, SettledKeeps DEF Sockety
<1>7. Other(e) \in Ends /\ Other(e) # e /\ \A x \in Ends : x = e \/ x = Other(e)
  BY OtherEnd DEF Ends, Other
<1>8. CASE f.kind = "close"
  <2>1. End(e, s) /\ UNCHANGED got
    BY <1>8 DEF Process
  <2>2. UNCHANGED <<egress, read, got, socketVars, allowed, stuck, faults>>
    BY <1>2, <2>1
  <2>3. stage[e][s] \in {"opening", "open"}
    BY <1>2
  <2> QED
    BY <2>1, <2>2, <2>3, ClosesInv
<1>9. ASSUME f.kind # "close"
      PROVE  /\ inbox' \in [Ends -> [Streams -> Seq(Honest)]] /\ inbox'[e][s] = Tail(inbox[e][s])
             /\ \A x \in Ends, t \in Streams : x # e \/ t # s => inbox'[x][t] = inbox[x][t]
  <2>1. inbox' = [inbox EXCEPT ![e][s] = Tail(inbox[e][s])]
    BY <1>4, <1>9 DEF Process
  <2> QED
    BY <1>4, <1>5, <2>1, SetOne
<1>10. CASE f.kind = "data"
  <2> DEFINE g == Grant(f.size)
  <2>1. Write(e, s, f)
    BY <1>10 DEF Process
  <2>2. /\ got' = [got EXCEPT ![e][s] = got[e][s] \o [i \in 1..f.size |-> f.first + i - 1]]
        /\ book' = [book EXCEPT ![e][s] = book[e][s] + f.size]
        /\ Send(e, s, g)
        /\ UNCHANGED <<stage, routed, avail, held>>
    BY <1>4, <2>1 DEF Write
  <2>3. /\ inbox' \in [Ends -> [Streams -> Seq(Honest)]] /\ inbox'[e][s] = Tail(inbox[e][s])
        /\ \A x \in Ends, t \in Streams : x # e \/ t # s => inbox'[x][t] = inbox[x][t]
    BY <1>9, <1>10
  <2>4. g \in Honest /\ g.kind = "window" /\ g.size = f.size
    BY <1>5, GrantIs DEF Grant
  <2> HIDE DEF g
  <2>5. /\ wire' \in [Ends -> [Streams -> [Planes -> Seq(Honest)]]]
        /\ \A x \in Ends, t \in Streams : t # s => wire'[x][t] = wire[x][t]
        /\ lost' \in [Streams -> Nat] /\ untold' \subseteq Streams
        /\ \A t \in Streams : t # s => lost'[t] = lost[t]
        /\ \/ SendStep(Other(e), s, g) /\ lost'[s] = lost[s]
           \/ /\ e = "backend" /\ egress[s] \in link
              /\ \A x \in Ends : wire'[x][s] = wire[x][s]
              /\ lost'[s] = lost[s] + f.size
    <3>1. CASE Put(e, s, g) /\ UNCHANGED <<lost, untold>>
      <4>1. /\ wire' \in [Ends -> [Streams -> [Planes -> Seq(Honest)]]]
            /\ SendStep(Other(e), s, g)
            /\ \A x \in Ends, t \in Streams : t # s => wire'[x][t] = wire[x][t]
        BY <1>1, <1>6, <2>4, <3>1, SendIs
      <4> QED
        BY <1>1, <3>1, <4>1 DEF Shape
    <3>2. CASE Refused(e, s, g)
      <4>1. /\ e = "backend" /\ egress[s] \in link /\ wire' = wire
            /\ lost' \in [Streams -> Nat] /\ untold' \subseteq Streams
            /\ lost'[s] = lost[s] + f.size
            /\ \A t \in Streams : t # s => lost'[t] = lost[t]
        BY <1>1, <2>4, <3>2, RefusedIs
      <4> QED
        BY <1>1, <4>1 DEF Shape
    <3> QED
      BY <2>2, <3>1, <3>2 DEF Send
  <2>6. /\ book' \in [Ends -> [Streams -> Int]] /\ book'[e][s] = book[e][s] + f.size
        /\ \A x \in Ends, t \in Streams : x # e \/ t # s => book'[x][t] = book[x][t]
    <3>1. book[e][s] + f.size \in Int
      BY <1>4, <1>5
    <3> QED
      BY <1>4, <2>2, <3>1, SetOne
  <2> DEFINE more == [i \in 1..f.size |-> f.first + i - 1]
  <2>7. /\ got'[e][s] = got[e][s] \o more
        /\ \A x \in Ends, t \in Streams : x # e \/ t # s => got'[x][t] = got[x][t]
    BY <1>4, <2>2
  <2>8. WriteStep(e, s)
    <3>1. /\ inbox'[Other(e)][s] = inbox[Other(e)][s] /\ book'[Other(e)][s] = book[Other(e)][s]
          /\ got'[Other(e)][s] = got[Other(e)][s]
      BY <1>7, <2>3, <2>6, <2>7
    <3>2. \A x \in Ends : /\ stage'[x][s] = stage[x][s] /\ held'[x][s] = held[x][s]
                          /\ avail'[x][s] = avail[x][s] /\ read'[x][s] = read[x][s]
      BY <1>2, <2>2
    <3>3. s \in routed' <=> s \in routed
      BY <2>2
    <3>4. /\ inbox'[e][s] = Tail(inbox[e][s]) /\ book'[e][s] = book[e][s] + f.size
          /\ got'[e][s] = got[e][s] \o more
      BY <2>3, <2>6, <2>7
    <3>5. \/ SendStep(Other(e), s, Grant(f.size)) /\ lost'[s] = lost[s]
          \/ /\ e = "backend" /\ egress[s] \in link /\ egress'[s] = egress[s] /\ link' = link
             /\ \A x \in Ends : wire'[x][s] = wire[x][s]
             /\ lost'[s] = lost[s] + f.size
      BY <1>6, <2>5 DEF g
    <3> QED
      BY <1>2, <1>10, <3>1, <3>2, <3>3, <3>4, <3>5 DEF WriteStep
  <2>9. StreamInv(s)' /\ got'[e][s] \in Seq(Nat)
    BY <1>1, <2>8, WriteKeeps
  <2>10. got' \in [Ends -> [Streams -> Seq(Nat)]]
    <3>1. got[e][s] \o more \in Seq(Nat) /\ got' = [got EXCEPT ![e][s] = got[e][s] \o more]
      BY <2>2, <2>7, <2>9
    <3> HIDE DEF more
    <3> QED
      BY <1>4, <3>1, SetOne
  <2>11. Shape'
    BY <1>1, <1>2, <1>6, <2>2, <2>3, <2>5, <2>6, <2>10 DEF Shape
  <2>12. Elsewhere(s)
    <3>1. \A x \in Ends, t \in Streams : t # s =>
              /\ stage'[x][t] = stage[x][t] /\ avail'[x][t] = avail[x][t]
              /\ held'[x][t] = held[x][t] /\ read'[x][t] = read[x][t]
      BY <1>2, <2>2
    <3>2. \A t \in Streams : egress'[t] = egress[t] /\ (t \in routed' <=> t \in routed)
      BY <1>6, <2>2
    <3> QED
      BY <1>6, <2>3, <2>5, <2>6, <2>7, <3>1, <3>2 DEF Elsewhere
  <2> QED
    BY <1>6, <2>9, <2>11, <2>12, OfOneStream
<1>11. CASE f.kind \notin {"close", "data"}
  <2>1. TakeGrant(e, s, f)
    BY <1>11 DEF Process
  <2>2. /\ avail' = [avail EXCEPT ![e][s] = avail[e][s] + f.size]
        /\ UNCHANGED <<stage, routed, wire, held, book, got, lost, untold>>
    BY <1>4, <2>1 DEF TakeGrant
  <2>3. /\ inbox' \in [Ends -> [Streams -> Seq(Honest)]] /\ inbox'[e][s] = Tail(inbox[e][s])
        /\ \A x \in Ends, t \in Streams : x # e \/ t # s => inbox'[x][t] = inbox[x][t]
    BY <1>9, <1>11
  <2>4. /\ avail' \in [Ends -> [Streams -> Nat]] /\ avail'[e][s] = avail[e][s] + f.size
        /\ \A x \in Ends, t \in Streams : x # e \/ t # s => avail'[x][t] = avail[x][t]
    <3>1. avail[e][s] + f.size \in Nat
      BY <1>4, <1>5
    <3> QED
      BY <1>4, <2>2, <3>1, SetOne
  <2>5. GrantStep(e, s)
    BY <1>2, <1>6, <1>7, <1>11, <2>2, <2>3, <2>4 DEF GrantStep
  <2>6. StreamInv(s)'
    BY <1>1, <2>5, GrantKeeps
  <2>7. Shape'
    BY <1>1, <1>2, <1>6, <2>2, <2>3, <2>4 DEF Shape
  <2>8. Elsewhere(s)
    BY <1>2, <1>6, <2>2, <2>3, <2>4 DEF Elsewhere
  <2> QED
    BY <1>6, <2>6, <2>7, <2>8, OfOneStream
<1> QED
  BY <1>8, <1>10, <1>11

\* An end takes a frame from its socket.
LEMMA ReceiveInv ==
  ASSUME IInv, NEW s \in Streams, NEW e \in Ends, NEW p \in Planes, Receive(e, s, p)
  PROVE  IInv'
<1> DEFINE f == Head(wire[e][s][p])
           rest == [wire EXCEPT ![e][s][p] = Tail(wire[e][s][p])]
           room == allowed /\ Cardinality(Handles) < MaxStreams
<1>1. /\ Shape /\ Sockety /\ LinksKnown /\ StreamInv(s) /\ "backend" \in Ends /\ "proxy" \in Ends
      /\ \A x \in Ends : x = "backend" \/ x = "proxy"
  BY DEF IInv, Ends
<1>2. /\ wire \in [Ends -> [Streams -> [Planes -> Seq(Honest)]]] /\ wire[e][s][p] \in Seq(Honest)
      /\ inbox \in [Ends -> [Streams -> Seq(Honest)]] /\ inbox[e][s] \in Seq(Honest)
      /\ book \in [Ends -> [Streams -> Int]] /\ book[e][s] \in Int
  <2>1. /\ wire \in [Ends -> [Streams -> [Planes -> Seq(Honest)]]]
        /\ inbox \in [Ends -> [Streams -> Seq(Honest)]]
        /\ book \in [Ends -> [Streams -> Int]]
    BY <1>1 DEF Shape
  <2> QED
    BY <2>1
<1>3. /\ UNCHANGED <<egress, routed, avail, held, read, got, lost, untold, socketVars, allowed,
                     stuck, faults>>
      /\ wire[e][s][p] # <<>>
  BY DEF Receive
<1>4. p = egress[s]
  BY <1>1, <1>3 DEF StreamInv, Pinned
<1>5. f \in Honest /\ Tail(wire[e][s][p]) \in Seq(Honest)
  BY <1>2, <1>3, TailIs
<1>6. Sockety' /\ LinksKnown' /\ link' = link /\ egress' = egress
  BY <1>1, <1>3, SettledKeeps DEF Settled, Sockety
<1>7. /\ rest \in [Ends -> [Streams -> [Planes -> Seq(Honest)]]] /\ rest[e][s][p] = Tail(wire[e][s][p])
      /\ \A x \in Ends, t \in Streams, r \in Planes :
            x # e \/ t # s \/ r # p => rest[x][t][r] = wire[x][t][r]
      /\ \A x \in Ends, t \in Streams : t # s => rest[x][t] = wire[x][t]
  BY <1>2, <1>5, SetWire
<1>8. \/ f.kind = "open" /\ room /\ Admit(s) /\ wire' = rest
      \/ /\ f.kind = "open"
         /\ wire' = [rest EXCEPT !["backend"][s][p] = Append(rest["backend"][s][p], Note("refused"))]
         /\ stage' = [stage EXCEPT !["proxy"][s] = "ended"]
         /\ UNCHANGED <<inbox, book>>
      \/ f.kind # "open" /\ Known(e, s) /\ Ingest(e, s, f) /\ wire' = rest /\ UNCHANGED stage
      \/ f.kind # "open" /\ ~Known(e, s) /\ wire' = rest /\ UNCHANGED <<stage, inbox, book>>
  <2>1. rest = [wire EXCEPT ![e][s][p] = Tail(@)]
    BY <1>2
  <2>2. [rest EXCEPT !["backend"][s][p] = Append(@, Note("refused"))]
        = [rest EXCEPT !["backend"][s][p] = Append(rest["backend"][s][p], Note("refused"))]
    BY <1>1, <1>7
  <2> HIDE DEF rest, f
  <2>3. CASE f.kind = "open" /\ room
    BY <2>1, <2>3 DEF Receive, f
  <2>4. CASE f.kind = "open" /\ ~room
    BY <2>1, <2>2, <2>4 DEF Receive, f
  <2>5. CASE f.kind # "open" /\ Known(e, s)
    BY <2>1, <2>5 DEF Receive, f
  <2>6. CASE f.kind # "open" /\ ~Known(e, s)
    BY <2>1, <2>6 DEF Receive, f
  <2> QED
    BY <2>3, <2>4, <2>5, <2>6
<1>9. f.size \in 0..Bounded /\ Bounded \in Nat /\ f.size \in Nat
  <2>1. f.size \in 0..Bounded /\ Bounded \in Nat
    BY <1>5, WeightType, BoundedType
  <2> QED
    BY <2>1
<1> HIDE DEF rest, room
<1>10. wire' = rest => TakenStep(e, s)
  BY <1>3, <1>4, <1>6, <1>7 DEF TakenStep
<1>11. f.kind = "open" => e = "proxy"
  <2>1. wire["backend"][s][p] \in Seq(NotOpen)
    BY <1>1 DEF StreamInv, OneOpen
  <2>2. e = "backend" => f \in NotOpen
    BY <1>3, <2>1, TailIs
  <2> QED
    BY <1>1, <2>2 DEF NotOpen
<1>12. CASE f.kind = "open" /\ room /\ Admit(s) /\ wire' = rest
  <2>1. /\ stage' = [stage EXCEPT !["proxy"][s] = "opening"] /\ UNCHANGED <<inbox, book>>
        /\ e = "proxy" /\ TakenStep("proxy", s)
    BY <1>10, <1>11, <1>12 DEF Admit
  <2>2. /\ stage' \in [Ends -> [Streams -> {"idle", "looked", "opening", "open", "ended"}]]
        /\ stage'["proxy"] \in [Streams -> {"idle", "opening", "open", "ended"}]
        /\ stage'["proxy"][s] = "opening"
        /\ \A x \in Ends, t \in Streams : x # "proxy" \/ t # s => stage'[x][t] = stage[x][t]
    BY <1>1, <2>1, SetStage
  <2>3. Shape'
    BY <1>1, <1>3, <1>7, <1>12, <2>1, <2>2 DEF Shape
  <2>4. StreamInv(s)'
    <3>1. StillStep(s)
      BY <1>3, <1>6, <2>1 DEF StillStep
    <3>2. Head(wire["proxy"][s][egress[s]]).kind = "open"
      BY <1>4, <1>12, <2>1
    <3>3. /\ stage'["backend"][s] = stage["backend"][s]
          /\ s \in routed' <=> s \in routed
      BY <1>1, <1>3, <2>2
    <3> QED
      BY <1>1, <2>1, <2>2, <2>3, <3>1, <3>2, <3>3, AdmitKeeps
  <2>5. Elsewhere(s)
    BY <1>3, <1>6, <1>7, <1>12, <2>1, <2>2 DEF Elsewhere
  <2> QED
    BY <1>6, <2>3, <2>4, <2>5, OfOneStream
<1>13. CASE /\ f.kind = "open"
            /\ wire' = [rest EXCEPT !["backend"][s][p] = Append(rest["backend"][s][p], Note("refused"))]
            /\ stage' = [stage EXCEPT !["proxy"][s] = "ended"]
            /\ UNCHANGED <<inbox, book>>
  <2>1. e = "proxy" /\ stage' = [stage EXCEPT !["proxy"][s] = "ended"]
    BY <1>11, <1>13
  <2>2. /\ stage' \in [Ends -> [Streams -> {"idle", "looked", "opening", "open", "ended"}]]
        /\ stage'["proxy"] \in [Streams -> {"idle", "opening", "open", "ended"}]
        /\ stage'["proxy"][s] = "ended"
        /\ \A x \in Ends, t \in Streams : x # "proxy" \/ t # s => stage'[x][t] = stage[x][t]
    BY <1>1, <2>1, SetStage
  <2> DEFINE v == Append(rest["backend"][s][p], Note("refused"))
             w == [rest EXCEPT !["backend"][s][p] = v]
  <2>3. rest["backend"][s][p] = wire["backend"][s][p] /\ v \in Seq(Honest)
    <3>1. rest["backend"][s][p] = wire["backend"][s][p] /\ wire["backend"][s][p] \in Seq(Honest)
      BY <1>1, <1>2, <1>7, <2>1
    <3>2. Note("refused") \in Honest
      BY NoteIs DEF Kinds
    <3> QED
      BY <3>1, <3>2, AppendIs
  <2> HIDE DEF v
  <2>4. /\ w \in [Ends -> [Streams -> [Planes -> Seq(Honest)]]] /\ w["backend"][s][p] = v
        /\ \A x \in Ends, t \in Streams, r \in Planes :
              x # "backend" \/ t # s \/ r # p => w[x][t][r] = rest[x][t][r]
        /\ \A x \in Ends, t \in Streams : t # s => w[x][t] = rest[x][t]
    BY <1>1, <1>7, <2>3, SetWire
  <2>5. wire' = w
    BY <1>13 DEF v
  <2> HIDE DEF w
  <2>6. Shape'
    BY <1>1, <1>3, <1>13, <2>2, <2>4, <2>5 DEF Shape
  <2>7. StreamInv(s)'
    <3>1. StillStep(s)
      BY <1>3, <1>6, <1>13 DEF StillStep
    <3>2. Head(wire["proxy"][s][egress[s]]).kind = "open" /\ wire["proxy"][s][egress[s]] # <<>>
      BY <1>3, <1>4, <1>13, <2>1
    <3>3. /\ stage'["backend"][s] = stage["backend"][s]
          /\ s \in routed' <=> s \in routed
          /\ egress'[s] = egress[s]
      BY <1>1, <1>3, <2>2
    <3>4. ASSUME NEW x \in Ends, NEW r \in Planes
          PROVE  wire'[x][s][r] = IF r # egress[s] THEN wire[x][s][r]
                                  ELSE IF x = "proxy" THEN Tail(wire[x][s][r])
                                  ELSE Append(wire[x][s][r], Note("refused"))
      <4>1. CASE r # egress[s]
        BY <1>4, <1>7, <2>4, <2>5, <4>1
      <4>2. CASE r = egress[s] /\ x = "proxy"
        BY <1>4, <1>7, <2>1, <2>4, <2>5, <4>2
      <4>3. CASE r = egress[s] /\ x = "backend"
        BY <1>4, <2>3, <2>4, <2>5, <4>3 DEF v
      <4> QED
        BY <1>1, <4>1, <4>2, <4>3
    <3> QED
      BY <1>1, <2>2, <2>6, <3>1, <3>2, <3>3, <3>4, RefuseKeeps
  <2>8. Elsewhere(s)
    BY <1>3, <1>6, <1>7, <1>13, <2>2, <2>4, <2>5 DEF Elsewhere
  <2> QED
    BY <1>6, <2>6, <2>7, <2>8, OfOneStream
<1>14. CASE f.kind # "open" /\ Known(e, s) /\ Ingest(e, s, f) /\ wire' = rest /\ UNCHANGED stage
  <2>1. TakenStep(e, s)
    BY <1>10, <1>14
  <2>2. f.kind = "data" => f.size <= book[e][s]
    <3>1. /\ Way("data", e, s) = Way("data", e, s)' + Weight("data", f)
          /\ Way("data", e, s)' \in Nat
      BY <1>1, <1>4, <2>1, TakenSizes
    <3>2. /\ book[e][s] + Held("data", e, s) = Window
          /\ Held("data", e, s) + Way("data", e, s) <= Window
      BY <1>1 DEF StreamInv, Booked
    <3>3. /\ Held("data", e, s) \in Nat /\ Way("data", e, s) \in Nat
          /\ Window \in Nat
      BY <1>1, Sizes, BoundedType
    <3>4. f.kind = "data" => Weight("data", f) = f.size /\ f.size \in Nat
      BY <1>9 DEF Weight
    <3> QED
      BY <1>2, <3>1, <3>2, <3>3, <3>4
  <2>3. Ingested(e, s, f) = f
    <3>1. f.kind = "data" => ~(book[e][s] < f.size)
      BY <1>2, <1>9, <2>2
    <3> QED
      BY <3>1 DEF Ingested
  <2>4. /\ inbox' = [inbox EXCEPT ![e][s] = Append(inbox[e][s], f)]
        /\ book' = [book EXCEPT ![e][s] = book[e][s] - Weight("data", f)]
    <3>1. f.kind # "data" => book[e][s] - Weight("data", f) = book[e][s]
      BY <1>2, <1>5, WeightType
    <3>2. f.kind = "data" => Weight("data", f) = f.size
      BY <1>5, WeightType
    <3>3. book' = [book EXCEPT ![e][s] = IF f.kind = "data" THEN book[e][s] - f.size ELSE book[e][s]]
      BY <1>2, <1>14 DEF Ingest
    <3>4. inbox' = [inbox EXCEPT ![e][s] = Append(inbox[e][s], f)]
      BY <1>2, <1>14, <2>3 DEF Ingest
    <3> QED
      BY <3>1, <3>2, <3>3, <3>4
  <2>5. Append(inbox[e][s], f) \in Seq(Honest) /\ book[e][s] - Weight("data", f) \in Int
    <3>1. Append(inbox[e][s], f) \in Seq(Honest)
      BY <1>2, <1>5, AppendIs
    <3>2. Weight("data", f) \in Int
      BY <1>5, WeightType, BoundedType
    <3> QED
      BY <1>2, <3>1, <3>2
  <2>6. /\ inbox' \in [Ends -> [Streams -> Seq(Honest)]] /\ inbox'[e][s] = Append(inbox[e][s], f)
        /\ \A x \in Ends, t \in Streams : x # e \/ t # s => inbox'[x][t] = inbox[x][t]
    BY <1>2, <2>4, <2>5, SetOne
  <2>7. /\ book' \in [Ends -> [Streams -> Int]] /\ book'[e][s] = book[e][s] - Weight("data", f)
        /\ \A x \in Ends, t \in Streams : x # e \/ t # s => book'[x][t] = book[x][t]
    BY <1>2, <2>4, <2>5, SetOne
  <2>8. Shape'
    BY <1>1, <1>3, <1>7, <1>14, <2>6, <2>7 DEF Shape
  <2>9. StreamInv(s)'
    <3>1. Other(e) \in Ends /\ Other(e) # e
      BY OtherEnd
    <3>2. IngestStep(e, s)
      BY <1>3, <1>4, <1>14, <2>1, <2>6, <2>7, <3>1 DEF IngestStep
    <3> QED
      BY <1>1, <3>2, IngestKeeps
  <2>10. Elsewhere(s)
    BY <1>3, <1>6, <1>7, <1>14, <2>6, <2>7 DEF Elsewhere
  <2> QED
    BY <1>6, <2>8, <2>9, <2>10, OfOneStream
<1>15. CASE f.kind # "open" /\ ~Known(e, s) /\ wire' = rest /\ UNCHANGED <<stage, inbox, book>>
  <2>1. Shape'
    BY <1>1, <1>3, <1>7, <1>15 DEF Shape
  <2>2. DropStep(e, s)
    BY <1>3, <1>10, <1>15 DEF DropStep
  <2>3. StreamInv(s)'
    BY <1>1, <2>2, DropKeeps
  <2>4. Elsewhere(s)
    BY <1>3, <1>6, <1>7, <1>15 DEF Elsewhere
  <2> QED
    BY <1>6, <2>1, <2>3, <2>4, OfOneStream
<1> QED
  BY <1>8, <1>12, <1>13, <1>14, <1>15

-----------------------------------------------------------------------------
(* The steps of the sockets                                                *)

\* A step of the sockets needs every stream looked at alike.
LEMMA OfSockets ==
  ASSUME IInv, Shape', Sockety', LinksKnown', \A t \in Streams : SocketStep(t)
  PROVE  IInv'
<1>1. Shape /\ \A t \in Streams : StreamInv(t)
  BY DEF IInv
<1>2. \A t \in Streams : StreamInv(t)'
  BY <1>1, SocketKeeps
<1> QED
  BY <1>2 DEF IInv

\* A plane that dies loses what it carries.
LEMMA WithoutIs ==
  ASSUME Shape, NEW p \in Planes
  PROVE  /\ Without(p) \in [Ends -> [Streams -> [Planes -> Seq(Honest)]]]
         /\ \A e \in Ends, s \in Streams, r \in Planes :
               Without(p)[e][s][r] = IF r = p THEN <<>> ELSE wire[e][s][r]
<1>1. wire \in [Ends -> [Streams -> [Planes -> Seq(Honest)]]] /\ <<>> \in Seq(Honest)
  BY DEF Shape
<1>2. ASSUME NEW e \in Ends, NEW s \in Streams
      PROVE  /\ [wire[e][s] EXCEPT ![p] = <<>>] \in [Planes -> Seq(Honest)]
             /\ \A r \in Planes :
                   [wire[e][s] EXCEPT ![p] = <<>>][r] = IF r = p THEN <<>> ELSE wire[e][s][r]
  <2>1. wire[e][s] \in [Planes -> Seq(Honest)]
    BY <1>1
  <2> QED
    BY <1>1, <2>1
<1> QED
  BY <1>2 DEF Without

\* Streams of an end are told to close.
LEMMA ToldIs ==
  ASSUME Shape, NEW e \in Ends, NEW S,
         inbox' = [inbox EXCEPT ![e] = [s \in Streams |-> IF s \in S THEN Append(inbox[e][s], Note("close"))
                                                         ELSE inbox[e][s]]]
  PROVE  /\ inbox' \in [Ends -> [Streams -> Seq(Honest)]]
         /\ \A x \in Ends, s \in Streams :
               inbox'[x][s] = inbox[x][s]
               \/ (x = e /\ s \in S /\ inbox'[x][s] = Append(inbox[x][s], Note("close")))
<1>1. inbox \in [Ends -> [Streams -> Seq(Honest)]] /\ inbox[e] \in [Streams -> Seq(Honest)]
  BY DEF Shape
<1>2. Note("close") \in Honest
  BY NoteIs DEF Kinds
<1>3. \A s \in Streams : Append(inbox[e][s], Note("close")) \in Seq(Honest)
  <2> SUFFICES ASSUME NEW s \in Streams PROVE Append(inbox[e][s], Note("close")) \in Seq(Honest)
    OBVIOUS
  <2>1. inbox[e][s] \in Seq(Honest)
    BY <1>1
  <2> QED
    BY <1>2, <2>1, AppendIs
<1> DEFINE g == [s \in Streams |-> IF s \in S THEN Append(inbox[e][s], Note("close")) ELSE inbox[e][s]]
<1>4. g \in [Streams -> Seq(Honest)]
  BY <1>1, <1>3
<1>5. \A s \in Streams : g[s] = inbox[e][s] \/ (s \in S /\ g[s] = Append(inbox[e][s], Note("close")))
  OBVIOUS
<1>6. inbox' = [inbox EXCEPT ![e] = g]
  OBVIOUS
<1> HIDE DEF g
<1> QED
  BY <1>1, <1>4, <1>5, <1>6

\* Handles and routed streams are past the backend's open.
LEMMA PastOpen ==
  ASSUME IInv, NEW s \in Streams, s \in Handles \/ s \in routed
  PROVE  stage["backend"][s] \notin {"idle", "looked"}
BY DEF IInv, StreamInv, Fresh, Routed, Handles, Known

\* The proxy attaches its half of the data plane.
LEMMA PlaneAttachesInv ==
  ASSUME IInv, PlaneAttaches
  PROVE  IInv'
<1>1. Shape /\ Sockety /\ LinksKnown
  BY DEF IInv
<1>2. /\ UNCHANGED <<streamVars, handler, manager, allowed, stuck, faults>>
      /\ plane["proxy"] = "none" /\ plane' = [plane EXCEPT !["proxy"] = "up"]
      /\ link' = link \cup {"binary"}
  BY DEF PlaneAttaches
<1>3. Shape'
  BY <1>1, <1>2 DEF Shape, streamVars
<1>4. plane["backend"] = "none" /\ \A t \in Streams : egress[t] = "control"
  BY <1>1, <1>2 DEF LinksKnown
<1>5. Sockety'
  BY <1>1, <1>2 DEF Sockety, Planes
<1>6. plane'["proxy"] = "up" /\ plane'["backend"] = "none"
  BY <1>1, <1>2, <1>4 DEF Sockety, Ends
<1>7. LinksKnown'
  BY <1>1, <1>2, <1>4, <1>6 DEF LinksKnown, Ends, streamVars
<1>8. \A t \in Streams : SocketStep(t)
  BY <1>2, <1>4 DEF SocketStep, streamVars
<1> QED
  BY <1>3, <1>5, <1>7, <1>8, OfSockets

\* The backend registers its half, or turns the socket away.
LEMMA PlaneRegistersInv ==
  ASSUME IInv, PlaneRegisters
  PROVE  IInv'
<1>1. Shape /\ Sockety /\ LinksKnown
  BY DEF IInv
<1>2. /\ UNCHANGED <<stage, egress, routed, inbox, avail, held, book, read, got, lost, untold,
                     handler, manager, allowed, stuck, faults>>
      /\ "binary" \in link /\ plane["backend"] = "none"
  BY DEF PlaneRegisters
<1>3. CASE plane' = [plane EXCEPT !["backend"] = "up"] /\ UNCHANGED <<link, wire>>
  <2>1. Shape'
    BY <1>1, <1>2, <1>3 DEF Shape
  <2>2. Sockety'
    BY <1>1, <1>2, <1>3 DEF Sockety
  <2>3. plane'["backend"] = "up" /\ plane'["proxy"] = plane["proxy"]
    BY <1>1, <1>3 DEF Sockety, Ends
  <2>4. LinksKnown'
    BY <1>1, <1>2, <1>3, <2>3 DEF LinksKnown, Ends
  <2>5. \A t \in Streams : SocketStep(t)
    BY <1>2, <1>3 DEF SocketStep
  <2> QED
    BY <2>1, <2>2, <2>4, <2>5, OfSockets
<1>4. CASE link' = link \ {"binary"} /\ wire' = Without("binary") /\ UNCHANGED plane
  <2>1. /\ wire' \in [Ends -> [Streams -> [Planes -> Seq(Honest)]]]
        /\ \A e \in Ends, s \in Streams, r \in Planes :
              wire'[e][s][r] = IF r = "binary" THEN <<>> ELSE wire[e][s][r]
    <3>1. "binary" \in Planes
      BY DEF Planes
    <3> QED
      BY <1>1, <1>4, <3>1, WithoutIs
  <2>2. Shape'
    BY <1>1, <1>2, <2>1 DEF Shape
  <2>3. Sockety' /\ LinksKnown'
    BY <1>1, <1>2, <1>4 DEF Sockety, LinksKnown
  <2>4. \A t \in Streams : SocketStep(t)
    BY <1>2, <1>4, <2>1 DEF SocketStep
  <2> QED
    BY <2>2, <2>3, <2>4, OfSockets
<1> QED
  BY <1>3, <1>4 DEF PlaneRegisters

\* An end finds the data plane's socket dead.
LEMMA PlaneNoticedInv ==
  ASSUME IInv, NEW e \in Ends, PlaneNoticed(e)
  PROVE  IInv'
<1>1. Shape /\ Sockety /\ LinksKnown
  BY DEF IInv
<1>2. /\ UNCHANGED <<streamVars, link, handler, manager, allowed, stuck, faults>>
      /\ plane[e] = "up" /\ "binary" \notin link /\ plane' = [plane EXCEPT ![e] = "gone"]
  BY DEF PlaneNoticed
<1>3. Shape'
  BY <1>1, <1>2 DEF Shape, streamVars
<1>4. Sockety'
  BY <1>1, <1>2 DEF Sockety
<1>5. \A x \in Ends : plane'[x] = "none" <=> plane[x] = "none"
  BY <1>1, <1>2 DEF Sockety
<1>6. LinksKnown'
  BY <1>1, <1>2, <1>5 DEF LinksKnown, Ends, streamVars
<1>7. \A t \in Streams : SocketStep(t)
  BY <1>2 DEF SocketStep, streamVars
<1> QED
  BY <1>3, <1>4, <1>6, <1>7, OfSockets

\* A socket dies with what it carries.
LEMMA BreaksInv ==
  ASSUME IInv, NEW p \in Planes, Breaks(p)
  PROVE  IInv'
<1>1. Shape /\ Sockety /\ LinksKnown
  BY DEF IInv
<1>2. /\ UNCHANGED <<stage, egress, routed, inbox, avail, held, book, read, got, lost, untold,
                     plane, handler, manager, allowed, stuck>>
      /\ faults < MaxFaults /\ faults' = faults + 1 /\ link' = link \ {p} /\ wire' = Without(p)
  BY DEF Breaks
<1>3. /\ wire' \in [Ends -> [Streams -> [Planes -> Seq(Honest)]]]
      /\ \A e \in Ends, s \in Streams, r \in Planes :
            wire'[e][s][r] = IF r = p THEN <<>> ELSE wire[e][s][r]
  BY <1>1, <1>2, WithoutIs
<1>4. Shape'
  BY <1>1, <1>2, <1>3 DEF Shape
<1>5. Sockety'
  <2>1. faults' \in 0..MaxFaults
    BY <1>1, <1>2, TunnelAssumption DEF Sockety
  <2> QED
    BY <1>1, <1>2, <2>1 DEF Sockety
<1>6. LinksKnown'
  BY <1>1, <1>2 DEF LinksKnown
<1>7. \A t \in Streams : SocketStep(t)
  BY <1>2, <1>3 DEF SocketStep
<1> QED
  BY <1>4, <1>5, <1>6, <1>7, OfSockets

\* The proxy's manager shuts down.
LEMMA ShutsDownInv ==
  ASSUME IInv, ShutsDown
  PROVE  IInv'
<1>1. Shape /\ Sockety /\ LinksKnown /\ "proxy" \in Ends /\ "binary" \in Planes
  BY DEF IInv, Ends, Planes
<1>2. /\ UNCHANGED <<stage, egress, routed, avail, held, book, read, got, lost, untold, handler,
                     allowed, stuck, faults>>
      /\ manager' = FALSE /\ plane' = [plane EXCEPT !["proxy"] = "gone"]
      /\ link' = link \ {"binary"} /\ wire' = Without("binary")
  BY DEF ShutsDown
<1>3. inbox' = [inbox EXCEPT !["proxy"] =
                   [s \in Streams |-> IF s \in Handles THEN Append(inbox["proxy"][s], Note("close"))
                                      ELSE inbox["proxy"][s]]]
  BY <1>1 DEF ShutsDown, Shape
<1>4. /\ wire' \in [Ends -> [Streams -> [Planes -> Seq(Honest)]]]
      /\ \A e \in Ends, s \in Streams, r \in Planes :
            wire'[e][s][r] = IF r = "binary" THEN <<>> ELSE wire[e][s][r]
  BY <1>1, <1>2, WithoutIs
<1>5. /\ inbox' \in [Ends -> [Streams -> Seq(Honest)]]
      /\ \A x \in Ends, s \in Streams :
            inbox'[x][s] = inbox[x][s]
            \/ (x = "proxy" /\ s \in Handles /\ inbox'[x][s] = Append(inbox[x][s], Note("close")))
  BY <1>1, <1>3, ToldIs
<1>6. Shape'
  BY <1>1, <1>2, <1>4, <1>5 DEF Shape
<1>7. Sockety'
  BY <1>1, <1>2 DEF Sockety
<1>8. plane'["proxy"] = "gone" /\ plane'["backend"] = plane["backend"]
  BY <1>1, <1>2 DEF Sockety, Ends
<1>9. LinksKnown'
  BY <1>1, <1>2, <1>8 DEF LinksKnown, Ends
<1>10. \A t \in Streams : SocketStep(t)
  <2> SUFFICES ASSUME NEW t \in Streams PROVE SocketStep(t)
    OBVIOUS
  <2>1. t \in Handles => stage["backend"][t] \notin {"idle", "looked"}
    BY PastOpen
  <2> QED
    BY <1>2, <1>4, <1>5, <2>1 DEF SocketStep
<1> QED
  BY <1>6, <1>7, <1>9, <1>10, OfSockets

\* The backend closes the connection's tunnels.
LEMMA ReapsInv ==
  ASSUME IInv, Reaps
  PROVE  IInv'
<1>1. Shape /\ Sockety /\ LinksKnown /\ "backend" \in Ends
  BY DEF IInv, Ends
<1>2. /\ UNCHANGED <<stage, egress, wire, avail, held, book, read, got, lost, untold,
                     plane, link, manager, allowed, stuck, faults>>
      /\ handler' = "reaped" /\ "control" \notin link /\ routed' = {}
  BY DEF Reaps
<1>3. inbox' = [inbox EXCEPT !["backend"] =
                   [s \in Streams |-> IF s \in routed THEN Append(inbox["backend"][s], Note("close"))
                                      ELSE inbox["backend"][s]]]
  BY <1>1 DEF Reaps, Shape
<1>4. /\ inbox' \in [Ends -> [Streams -> Seq(Honest)]]
      /\ \A x \in Ends, s \in Streams :
            inbox'[x][s] = inbox[x][s]
            \/ (x = "backend" /\ s \in routed /\ inbox'[x][s] = Append(inbox[x][s], Note("close")))
  BY <1>1, <1>3, ToldIs
<1>5. Shape'
  BY <1>1, <1>2, <1>4 DEF Shape
<1>6. Sockety' /\ LinksKnown'
  BY <1>1, <1>2 DEF Sockety, LinksKnown
<1>7. \A t \in Streams : SocketStep(t)
  <2> SUFFICES ASSUME NEW t \in Streams PROVE SocketStep(t)
    OBVIOUS
  <2>1. t \in routed => stage["backend"][t] \notin {"idle", "looked"}
    BY PastOpen
  <2> QED
    BY <1>2, <1>4, <2>1 DEF SocketStep
<1> QED
  BY <1>5, <1>6, <1>7, OfSockets

\* The backend closes the connection's data plane.
LEMMA ClosesPlaneInv ==
  ASSUME IInv, ClosesPlane
  PROVE  IInv'
<1>1. Shape /\ Sockety /\ LinksKnown /\ "binary" \in Planes
  BY DEF IInv, Planes
<1>2. /\ UNCHANGED <<stage, egress, routed, inbox, avail, held, book, read, got, lost, untold,
                     manager, allowed, stuck, faults>>
      /\ handler = "reaped" /\ handler' = "closing"
  BY DEF ClosesPlane
<1>3. CASE /\ plane["backend"] = "up" /\ plane' = [plane EXCEPT !["backend"] = "gone"]
           /\ link' = link \ {"binary"} /\ wire' = Without("binary")
  <2>1. /\ wire' \in [Ends -> [Streams -> [Planes -> Seq(Honest)]]]
        /\ \A e \in Ends, s \in Streams, r \in Planes :
              wire'[e][s][r] = IF r = "binary" THEN <<>> ELSE wire[e][s][r]
    BY <1>1, <1>3, WithoutIs
  <2>2. Shape'
    BY <1>1, <1>2, <2>1 DEF Shape
  <2>3. Sockety'
    BY <1>1, <1>2, <1>3 DEF Sockety
  <2>4. plane'["backend"] = "gone" /\ plane'["proxy"] = plane["proxy"] /\ plane["proxy"] # "none"
    BY <1>1, <1>3 DEF Sockety, LinksKnown, Ends
  <2>5. LinksKnown'
    BY <1>1, <1>2, <1>3, <2>4 DEF LinksKnown, Ends
  <2>6. \A t \in Streams : SocketStep(t)
    BY <1>2, <1>3, <2>1 DEF SocketStep
  <2> QED
    BY <2>2, <2>3, <2>5, <2>6, OfSockets
<1>4. CASE UNCHANGED <<plane, link, wire>>
  <2>1. Shape'
    BY <1>1, <1>2, <1>4 DEF Shape
  <2>2. Sockety' /\ LinksKnown'
    BY <1>1, <1>2, <1>4 DEF Sockety, LinksKnown
  <2>3. \A t \in Streams : SocketStep(t)
    BY <1>2, <1>4 DEF SocketStep
  <2> QED
    BY <2>1, <2>2, <2>3, OfSockets
<1> QED
  BY <1>3, <1>4 DEF ClosesPlane

\* The handler leaves the registry and ends.
LEMMA HandlerInv ==
  ASSUME IInv, Unregisters \/ Joins
  PROVE  IInv'
<1>1. Shape /\ Sockety /\ LinksKnown
  BY DEF IInv
<1>2. /\ UNCHANGED <<streamVars, plane, link, manager, allowed, stuck, faults>>
      /\ handler \in {"closing", "left"} /\ handler' \in {"left", "done"}
  BY DEF Unregisters, Joins
<1>3. Shape'
  BY <1>1, <1>2 DEF Shape, streamVars
<1>4. Sockety' /\ LinksKnown'
  BY <1>1, <1>2 DEF Sockety, LinksKnown, streamVars
<1>5. \A t \in Streams : SocketStep(t)
  BY <1>2 DEF SocketStep, streamVars
<1> QED
  BY <1>3, <1>4, <1>5, OfSockets

\* A forward is revoked.
LEMMA RevokedInv ==
  ASSUME IInv, Revoked
  PROVE  IInv'
<1>1. Shape /\ Sockety /\ LinksKnown /\ "proxy" \in Ends
  BY DEF IInv, Ends
<1>2. /\ UNCHANGED <<stage, egress, routed, wire, avail, held, book, read, got, lost, untold,
                     socketVars, stuck>>
      /\ faults < MaxFaults /\ faults' = faults + 1 /\ allowed' = FALSE
  BY DEF Revoked
<1>3. inbox' = [inbox EXCEPT !["proxy"] =
                   [s \in Streams |-> IF s \in Handles THEN Append(inbox["proxy"][s], Note("close"))
                                      ELSE inbox["proxy"][s]]]
  BY <1>1 DEF Revoked, Shape
<1>4. /\ inbox' \in [Ends -> [Streams -> Seq(Honest)]]
      /\ \A x \in Ends, s \in Streams :
            inbox'[x][s] = inbox[x][s]
            \/ (x = "proxy" /\ s \in Handles /\ inbox'[x][s] = Append(inbox[x][s], Note("close")))
  BY <1>1, <1>3, ToldIs
<1>5. Shape'
  BY <1>1, <1>2, <1>4 DEF Shape
<1>6. Sockety' /\ LinksKnown'
  <2>1. faults' \in 0..MaxFaults
    BY <1>1, <1>2, TunnelAssumption DEF Sockety
  <2> QED
    BY <1>1, <1>2, <2>1 DEF Sockety, LinksKnown, socketVars
<1>7. \A t \in Streams : SocketStep(t)
  <2> SUFFICES ASSUME NEW t \in Streams PROVE SocketStep(t)
    OBVIOUS
  <2>1. t \in Handles => stage["backend"][t] \notin {"idle", "looked"}
    BY PastOpen
  <2> QED
    BY <1>2, <1>4, <2>1 DEF SocketStep, socketVars
<1> QED
  BY <1>5, <1>6, <1>7, OfSockets

\* A destination takes no more bytes.
LEMMA GetsStuckInv ==
  ASSUME IInv, NEW s \in Streams, NEW e \in Ends, GetsStuck(e, s)
  PROVE  IInv'
<1>1. Shape /\ Sockety /\ LinksKnown
  BY DEF IInv
<1>2. /\ UNCHANGED <<streamVars, socketVars, allowed>>
      /\ faults < MaxFaults /\ faults' = faults + 1 /\ stuck' = stuck \cup {<<e, s>>}
  BY DEF GetsStuck
<1>3. Shape'
  BY <1>1, <1>2 DEF Shape, streamVars
<1>4. Sockety' /\ LinksKnown'
  <2>1. faults' \in 0..MaxFaults
    BY <1>1, <1>2, TunnelAssumption DEF Sockety
  <2> QED
    BY <1>1, <1>2, <2>1 DEF Sockety, LinksKnown, socketVars, streamVars
<1>5. \A t \in Streams : SocketStep(t)
  BY <1>2 DEF SocketStep, streamVars, socketVars
<1> QED
  BY <1>3, <1>4, <1>5, OfSockets

-----------------------------------------------------------------------------
(* The theorems                                                            *)

\* At first every window is whole and nothing is under way.
LEMMA InitInv == Init => IInv
<1> SUFFICES ASSUME Init PROVE IInv
  OBVIOUS
<1>1. /\ \A e \in Ends, s \in Streams :
            /\ stage[e][s] = "idle" /\ inbox[e][s] = <<>> /\ avail[e][s] = Window
            /\ held[e][s] = 0 /\ book[e][s] = Window /\ read[e][s] = 0 /\ got[e][s] = <<>>
            /\ \A p \in Planes : wire[e][s][p] = <<>>
      /\ \A s \in Streams : egress[s] = "control"
      /\ routed = {} /\ link = {"control"} /\ plane = [e \in Ends |-> "none"]
      /\ "backend" \in Ends /\ "proxy" \in Ends /\ "control" \in Planes
  BY DEF Init, Everywhere, Ends, Planes
<1>2. Shape
  <2>1. <<>> \in Seq(Honest) /\ <<>> \in Seq(Nat) /\ Window \in Nat /\ 0 \in 0..MaxChunk
    BY BoundedType
  <2>2. /\ stage \in [Ends -> [Streams -> {"idle", "looked", "opening", "open", "ended"}]]
        /\ stage["proxy"] \in [Streams -> {"idle", "opening", "open", "ended"}]
        /\ egress \in [Streams -> Planes] /\ routed \subseteq Streams
    BY DEF Init, Everywhere, Ends, Planes
  <2>3. /\ inbox \in [Ends -> [Streams -> Seq(Honest)]]
        /\ wire \in [Ends -> [Streams -> [Planes -> Seq(Honest)]]]
        /\ got \in [Ends -> [Streams -> Seq(Nat)]]
    BY <2>1 DEF Init, Everywhere
  <2>4. /\ avail \in [Ends -> [Streams -> Nat]] /\ held \in [Ends -> [Streams -> 0..MaxChunk]]
        /\ book \in [Ends -> [Streams -> Int]] /\ read \in [Ends -> [Streams -> Nat]]
        /\ lost \in [Streams -> Nat] /\ untold \subseteq Streams
    BY <2>1 DEF Init, Everywhere
  <2> QED
    BY <2>2, <2>3, <2>4 DEF Shape
<1>3. Sockety /\ LinksKnown
  BY <1>1, TunnelAssumption DEF Init, Sockety, LinksKnown, Ends, Planes
<1>4. ASSUME NEW s \in Streams PROVE StreamInv(s)
  <2>1. Fresh(s) /\ Routed(s) /\ Pinned(s)
    BY <1>1 DEF Fresh, Routed, Pinned
  <2>2. Undialled(s) /\ OneOpen(s)
    <3>1. <<>> \in Seq(Quiet) /\ <<>> \in Seq(NotOpen)
      OBVIOUS
    <3> QED
      BY <1>1, <3>1 DEF Undialled, OneOpen
  <2>3. \A e \in Ends, kind \in {"data", "window"} : Way(kind, e, s) = 0 /\ Held(kind, e, s) = 0
    BY <1>1, SizeEmpty DEF Way, Held
  <2>4. Window \in Nat /\ \A e \in Ends : Other(e) \in Ends /\ Bytes[e] \in Nat
    BY BoundedType, OtherEnd
  <2>5. Booked(s)
    BY <1>1, <2>3, <2>4 DEF Booked
  <2>6. Credited(s)
    <3>1. \A e \in Ends : Missing(e, s) = 0
      BY DEF Init, Missing
    <3>2. \A e \in Ends : Total(e, s) = Window
      BY <1>1, <2>3, <2>4, <3>1 DEF Total
    <3> QED
      BY <1>1, <2>4, <3>2 DEF Credited
  <2>7. Turned(s)
    <3> SUFFICES ASSUME NEW e \in Ends
                 PROVE  /\ read[e][s] <= Bytes[e]
                        /\ \A i \in DOMAIN got[e][s] : got[e][s][i] = i
                        /\ \E m \in 0..read[Other(e)][s] :
                              /\ InTurn(inbox[e][s], Len(got[e][s]), m)
                              /\ Known(e, s) =>
                                    \E n \in 0..read[Other(e)][s] :
                                        /\ InTurn(wire[e][s][egress[s]], m, n)
                                        /\ egress[s] \in link => n = read[Other(e)][s]
      BY DEF Turned
    <3>1. ~Known(e, s)
      BY <1>1 DEF Known
    <3>2. Len(got[e][s]) = 0 /\ DOMAIN got[e][s] = {} /\ 0 \in 0..read[Other(e)][s]
      BY <1>1, <2>4
    <3>3. InTurn(inbox[e][s], Len(got[e][s]), 0)
      <4>1. InTurn(<<>>, 0, 0)
        BY TurnEmpty
      <4> QED
        BY <1>1, <3>2, <4>1
    <3> QED
      BY <1>1, <2>4, <3>1, <3>2, <3>3
  <2> QED
    BY <2>1, <2>2, <2>5, <2>6, <2>7 DEF StreamInv
<1> QED
  BY <1>2, <1>3, <1>4 DEF IInv

\* Every step keeps the invariant.
LEMMA NextInv == IInv /\ [Next]_vars => IInv'
<1> SUFFICES ASSUME IInv, [Next]_vars PROVE IInv'
  OBVIOUS
<1>1. ASSUME NEW s \in Streams, OpenLooks(s) PROVE IInv'
  BY <1>1, OpenLooksInv
<1>2. ASSUME NEW s \in Streams, Opening(s) PROVE IInv'
  <2>1. CASE OpenSends(s)
    BY <2>1, OpenSendsInv
  <2>2. CASE TakeVerdict(s)
    BY <2>2, TakeVerdictInv
  <2>3. CASE OpenTimesOut(s)
    BY <2>3, ClosesInv DEF OpenTimesOut, Ends
  <2> QED
    BY <1>2, <2>1, <2>2, <2>3 DEF Opening
<1>3. ASSUME NEW s \in Streams, Dialling(s) PROVE IInv'
  BY <1>3, DialSucceedsInv, DialFailsInv DEF Dialling
<1>4. ASSUME NEW s \in Streams, NEW e \in Ends,
             \/ Take(e, s) \/ Reads(e, s) \/ SourceEnds(e, s) \/ Process(e, s)
             \/ WriteFails(e, s) \/ GetsStuck(e, s)
      PROVE  IInv'
  <2>1. CASE Take(e, s)
    BY <2>1, TakeInv
  <2>2. CASE Reads(e, s)
    BY <2>2, ReadInv DEF Reads
  <2>3. CASE SourceEnds(e, s)
    BY <2>3, ClosesInv DEF SourceEnds
  <2>4. CASE Process(e, s)
    BY <2>4, ProcessInv
  <2>5. CASE WriteFails(e, s)
    BY <2>5, ClosesInv DEF WriteFails
  <2>6. CASE GetsStuck(e, s)
    BY <2>6, GetsStuckInv
  <2> QED
    BY <1>4, <2>1, <2>2, <2>3, <2>4, <2>5, <2>6
<1>5. ASSUME NEW s \in Streams, NEW e \in Ends, NEW p \in Planes, Receive(e, s, p) PROVE IInv'
  BY <1>5, ReceiveInv
<1>6. ASSUME Sockets PROVE IInv'
  BY <1>6, PlaneRegistersInv, ShutsDownInv, ReapsInv, ClosesPlaneInv, HandlerInv, PlaneNoticedInv
     DEF Sockets
<1>7. ASSUME PlaneAttaches \/ Revoked PROVE IInv'
  BY <1>7, PlaneAttachesInv, RevokedInv
<1>8. ASSUME NEW p \in Planes, Breaks(p) PROVE IInv'
  BY <1>8, BreaksInv
<1>9. CASE UNCHANGED vars
  <2>1. IInv' <=> IInv
    <3>1. Shape' /\ Sockety' /\ LinksKnown'
      BY <1>9 DEF IInv, Shape, Sockety, LinksKnown, vars, streamVars, socketVars
    <3>2. \A t \in Streams : SocketStep(t)
      BY <1>9 DEF SocketStep, vars, streamVars, socketVars
    <3> QED
      BY <3>1, <3>2, OfSockets
  <2> QED
    BY <2>1
<1> QED
  BY <1>1, <1>2, <1>3, <1>4, <1>5, <1>6, <1>7, <1>8, <1>9 DEF Next

\* The invariant holds of every reachable state.
THEOREM TunnelInvariant == Spec => []IInv
BY InitInv, NextInv, PTL DEF Spec

\* Written bytes are read bytes, in order, and no more than were read.
LEMMA InvOrder == IInv => InOrder
<1> SUFFICES ASSUME IInv, NEW s \in Streams, NEW e \in Ends
             PROVE  /\ Len(got[e][s]) <= read[Other(e)][s]
                    /\ \A i \in DOMAIN got[e][s] : got[e][s][i] = i
  BY DEF InOrder
<1>1. Shape /\ Turned(s) /\ Other(e) \in Ends
  BY OtherEnd DEF IInv, StreamInv
<1>2. /\ \A i \in DOMAIN got[e][s] : got[e][s][i] = i
      /\ \E m \in 0..read[Other(e)][s] : InTurn(inbox[e][s], Len(got[e][s]), m)
  BY <1>1 DEF Turned
<1>3. PICK m \in 0..read[Other(e)][s] : InTurn(inbox[e][s], Len(got[e][s]), m)
  BY <1>2
<1>4. read[Other(e)][s] \in Nat /\ inbox[e][s] \in Seq(Frames)
  BY <1>1, Sizes
<1>5. Len(got[e][s]) \in 0..m
  BY <1>3, <1>4, TurnStart
<1> QED
  BY <1>2, <1>4, <1>5

\* Each variable has its type: no counter leaves the window.
LEMMA InvTypeOK == IInv => TypeOK
<1> SUFFICES ASSUME IInv PROVE TypeOK
  OBVIOUS
<1>1. Shape /\ Sockety /\ InOrder
  BY InvOrder DEF IInv
<1>2. ASSUME NEW e \in Ends, NEW s \in Streams
      PROVE  /\ avail[e][s] \in 0..Window /\ book[e][s] \in 0..Window
             /\ read[e][s] \in 0..Bounded /\ inbox[e][s] \in Seq(Frames)
             /\ \A p \in Planes : wire[e][s][p] \in Seq(Frames)
  <2>1. /\ avail[e][s] \in Nat /\ held[e][s] \in Nat /\ book[e][s] \in Int /\ read[e][s] \in Nat
        /\ Held("data", e, s) \in Nat /\ Way("data", e, s) \in Nat /\ inbox[e][s] \in Seq(Frames)
        /\ \A p \in Planes : wire[e][s][p] \in Seq(Frames)
    BY <1>1, Sizes
  <2>2. /\ avail[e][s] + held[e][s] <= Window
        /\ book[e][s] + Held("data", e, s) = Window
        /\ Held("data", e, s) + Way("data", e, s) <= Window
        /\ read[e][s] <= Bytes[e]
    BY DEF IInv, StreamInv, Booked, Credited, Turned
  <2>3. Window \in Nat /\ Bytes[e] \in Nat /\ Bytes[e] <= Bounded /\ Bounded \in Nat
    BY BoundedType
  <2>4. avail[e][s] \in 0..Window
    BY <2>1, <2>2, <2>3
  <2>5. book[e][s] \in 0..Window
    BY <2>1, <2>2, <2>3
  <2>6. read[e][s] \in 0..Bounded
    BY <2>1, <2>2, <2>3
  <2> QED
    BY <2>1, <2>4, <2>5, <2>6
<1>3. ASSUME NEW e \in Ends, NEW s \in Streams
      PROVE  got[e][s] \in Seq(1..Bounded)
  <2>1. /\ Len(got[e][s]) <= read[Other(e)][s]
        /\ \A i \in DOMAIN got[e][s] : got[e][s][i] = i
    BY <1>1 DEF InOrder
  <2>2. got[e][s] \in Seq(Nat) /\ Len(got[e][s]) \in Nat
    BY <1>1, Sizes
  <2>3. read[Other(e)][s] \in 0..Bounded /\ Bounded \in Nat
    BY <1>2, OtherEnd, BoundedType
  <2>4. got[e][s] \in [1..Len(got[e][s]) -> Nat] /\ DOMAIN got[e][s] = 1..Len(got[e][s])
    BY <2>2, LenProperties
  <2> DEFINE n == Len(got[e][s])
             q == got[e][s]
  <2> HIDE DEF n, q
  <2>5. n \in Nat /\ n <= Bounded /\ DOMAIN q = 1..n /\ q \in [1..n -> Nat] /\ \A i \in 1..n : q[i] = i
    BY <2>1, <2>2, <2>3, <2>4 DEF n, q
  <2>6. q \in [1..n -> 1..Bounded]
    BY <2>3, <2>5
  <2>7. q \in Seq(1..Bounded)
    BY <2>5, <2>6, SeqDef
  <2> QED
    BY <2>7 DEF q
<1>4. \A e \in Ends : e = "backend" \/ e = "proxy"
  BY DEF Ends
<1>5. /\ inbox \in [Ends -> [Streams -> Seq(Frames)]]
      /\ wire \in [Ends -> [Streams -> [Planes -> Seq(Frames)]]]
      /\ avail \in [Ends -> [Streams -> 0..Window]]
      /\ book \in [Ends -> [Streams -> 0..Window]]
      /\ read \in [Ends -> [Streams -> 0..Bounded]]
      /\ got \in [Ends -> [Streams -> Seq(1..Bounded)]]
  <2>1. inbox \in [Ends -> [Streams -> Seq(Frames)]]
    BY <1>1, <1>2 DEF Shape
  <2>2. wire \in [Ends -> [Streams -> [Planes -> Seq(Frames)]]]
    <3>1. wire \in [Ends -> [Streams -> [Planes -> Seq(Honest)]]]
      BY <1>1 DEF Shape
    <3>2. ASSUME NEW e \in Ends, NEW s \in Streams
          PROVE  wire[e][s] \in [Planes -> Seq(Frames)]
      BY <1>2, <3>1
    <3> QED
      BY <3>1, <3>2
  <2>3. avail \in [Ends -> [Streams -> 0..Window]]
    BY <1>1, <1>2 DEF Shape
  <2>4. book \in [Ends -> [Streams -> 0..Window]]
    BY <1>1, <1>2 DEF Shape
  <2>5. read \in [Ends -> [Streams -> 0..Bounded]]
    BY <1>1, <1>2 DEF Shape
  <2>6. got \in [Ends -> [Streams -> Seq(1..Bounded)]]
    BY <1>1, <1>3 DEF Shape
  <2> QED
    BY <2>1, <2>2, <2>3, <2>4, <2>5, <2>6
<1>6. /\ stage \in [Ends -> [Streams -> {"idle", "looked", "opening", "open", "ended"}]]
      /\ egress \in [Streams -> Planes] /\ routed \subseteq Streams
      /\ held \in [Ends -> [Streams -> 0..MaxChunk]]
      /\ lost \in [Streams -> Nat] /\ untold \subseteq Streams
  BY <1>1 DEF Shape
<1> QED
  BY <1>1, <1>5, <1>6 DEF TypeOK, Sockety

\* The types of the tunnel's variables, for any window and chunk: no credit
\* gate or book leaves 0..Window, no byte is numbered past what was read.
THEOREM TunnelTypeOK == Spec => []TypeOK
BY TunnelInvariant, InvTypeOK, PTL

\* What one end wrote is a prefix of what the other read (copy loops,
\* tunnel.rs), over lost planes, refused and timed out opens and teardowns.
THEOREM BytesInOrder == Spec => []InOrder
BY TunnelInvariant, InvOrder, PTL

\* A stream's frames are on the plane it is pinned to.
LEMMA OnWireIsWay ==
  ASSUME IInv, NEW s \in Streams, NEW e \in Ends, NEW kind
  PROVE  OnWire(kind, e, s) = Way(kind, e, s)
<1>1. egress[s] \in Planes /\ Way(kind, e, s) \in Nat /\ Planes = {"control", "binary"}
  BY Sizes DEF IInv, Planes
<1>2. \A p \in Planes : p # egress[s] => wire[e][s][p] = <<>>
  BY DEF IInv, StreamInv, Pinned
<1>3. CASE egress[s] = "control"
  <2>1. SizeOf(kind, wire[e][s]["binary"]) = 0
    BY <1>1, <1>2, <1>3, SizeEmpty
  <2> QED
    BY <1>1, <1>3, <2>1 DEF OnWire, Way
<1>4. CASE egress[s] = "binary"
  <2>1. SizeOf(kind, wire[e][s]["control"]) = 0
    BY <1>1, <1>2, <1>4, SizeEmpty
  <2> QED
    BY <1>1, <1>4, <2>1 DEF OnWire, Way
<1> QED
  BY <1>1, <1>3, <1>4

\* The window is kept by a sender, on its way, or in the receiver's book.
LEMMA InvCredit == IInv => CreditKept
<1> SUFFICES ASSUME IInv PROVE CreditKept
  OBVIOUS
<1>1. ASSUME NEW s \in Streams, NEW e \in Ends, Live(s)
      PROVE  LET o == Other(e)
                 total == avail[e][s] + held[e][s] + OnWire("data", o, s) + Held("data", o, s)
                          + OnWire("window", e, s) + Held("window", e, s) + Missing(e, s)
             IN  /\ book[o][s] + Held("data", o, s) = Window
                 /\ total <= Window
                 /\ egress[s] \in link /\ Known(e, s) /\ Known(o, s) => total = Window
  <2> DEFINE o == Other(e)
  <2>1. o \in Ends /\ (e = "backend" \/ o = "backend") /\ "backend" \in Ends
    BY OtherEnd DEF Ends, Other
  <2>2. OnWire("data", o, s) = Way("data", o, s) /\ OnWire("window", e, s) = Way("window", e, s)
    BY <2>1, OnWireIsWay
  <2>3. /\ book[o][s] + Held("data", o, s) = Window
        /\ stage[e][s] # "ended" => Total(e, s) <= Window
        /\ Whole(s) => Total(e, s) = Window
    BY <2>1 DEF IInv, StreamInv, Booked, Credited
  <2>4. \A x \in Ends : stage[x][s] = "open"
    BY <1>1 DEF Live
  <2>5. egress[s] \in link /\ Known(e, s) /\ Known(o, s) => Whole(s)
    BY <2>1, <2>4 DEF Known, Whole
  <2> QED
    BY <2>2, <2>3, <2>4, <2>5 DEF Total
<1>2. ASSUME NEW s \in Streams, NEW e \in Ends
      PROVE  OnWire("data", e, s) <= book[e][s]
  <2>1. /\ book[e][s] + Held("data", e, s) = Window
        /\ Held("data", e, s) + Way("data", e, s) <= Window
    BY DEF IInv, StreamInv, Booked
  <2>2. /\ Held("data", e, s) \in Nat /\ Way("data", e, s) \in Nat /\ book[e][s] \in Int
        /\ Window \in Nat
    BY Sizes, BoundedType DEF IInv
  <2> QED
    BY <2>1, <2>2, OnWireIsWay
<1> QED
  BY <1>1, <1>2 DEF CreditKept

\* Credit is neither made nor lost (CreditGate and recv_credit, tunnel.rs) but
\* for the grants the backend's full channel refused, which are counted: with
\* them an open stream on a live plane has its whole window, any other open
\* stream no more than that, and no end is closed for bytes it had granted.
THEOREM CreditIsKept == Spec => []CreditKept
BY TunnelInvariant, InvCredit, PTL
=============================================================================
