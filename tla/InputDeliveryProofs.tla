------------------------- MODULE InputDeliveryProofs -------------------------
(***************************************************************************)
(* Proofs about InputDelivery, for any number of browsers, inputs,         *)
(* connections and faults and any size of the outbox and the gate.         *)
(*                                                                         *)
(* Two invariants carry them.  Settled says that what a report, a          *)
(* completion or the gate claims of an input has happened; with it nothing *)
(* a person typed vanishes.  OrderInv says that short of an accident the   *)
(* frames between the backend and the agent have no gap: before each of    *)
(* them comes everything with a lower number the agent has not yet taken   *)
(* or refused.  So an ack, which covers all lower numbers, deletes no row  *)
(* too early, and the agent takes inputs in order.                         *)
(***************************************************************************)
EXTENDS InputDelivery, Queues

\* The frames of the commands the agent's task was handed.
Carried(h) == [i \in DOMAIN h |-> h[i].frame]

Pending == inbox \o wire
Done == ToSet(taken) \cup refused
SettledIds == {f.id : f \in Done}

-----------------------------------------------------------------------------
(* What is claimed of an input has happened                                *)

\* A settled gate entry, a report and a completion each tell of an input the
\* agent took or refused; an ack tells of a number it took.
Settled ==
    /\ \A e \in ToSet(gate) : e.state \in Outcomes => e.id \in SettledIds
    /\ \A c \in Conns : \A m \in ToSet(reports[c]) :
          IF m.kind = "ack" THEN \E f \in ToSet(taken) : f.seq = m.n
                            ELSE m.n \in SettledIds
    /\ \A k \in completions :
          IF k.outcome = "accepted" THEN k.frame \in ToSet(taken) ELSE k.frame \in refused

-----------------------------------------------------------------------------
(* No gap between the backend and the agent                                *)

\* Before an element of q comes every element of N with a number no higher,
\* in q or in B.
NoGap(q, B, N) ==
    \A i \in DOMAIN q : \A g \in N :
        g.seq <= q[i].seq => g \in B \/ \E j \in 1..i : q[j] = g

\* A number is given once, also while its row is being written.
Numbering ==
    /\ \A f \in numbered : f.seq \in 1..inputSeq
    /\ \A f, g \in numbered : f.seq = g.seq => f = g
    /\ \A b \in Browsers : \A f \in numbering[b] :
          /\ f.seq \in 1..inputSeq
          /\ \A g \in numbered : f.seq # g.seq
    /\ \A a, b \in Browsers : \A f \in numbering[a], g \in numbering[b] :
          f.seq = g.seq => a = b

\* Only what was numbered is anywhere.
Known ==
    /\ rows \subseteq numbered /\ Done \subseteq numbered /\ toReplay \subseteq numbered
    /\ ToSet(Carried(handed)) \subseteq numbered /\ ToSet(Pending) \subseteq numbered
    /\ \A b \in Browsers : enqueuing[b] \subseteq numbered

\* A handler has one input in hand at a time.
OneEach ==
    \A b \in Browsers : /\ \A f, g \in enqueuing[b] : f = g
                        /\ \A f, g \in numbering[b] : f = g
                        /\ gated[b] = {} \/ enqueuing[b] = {}
                        /\ gated[b] = {} \/ numbering[b] = {}
                        /\ numbering[b] = {} \/ enqueuing[b] = {}

Sent == Done \cup ToSet(Carried(handed)) \cup ToSet(Pending)

\* What the agent took, what it was handed, what is on its way and what is to
\* be replayed follow each other without a gap, and the handler that serves
\* the connection has left no row out.
TakenInOrder ==
    \A f \in ToSet(taken) : \A g \in numbered : g.seq <= f.seq => g \in Done
HandedInOrder == NoGap(Carried(handed), Done, numbered)
PendingInOrder == NoGap(Pending, Done \cup ToSet(Carried(handed)), numbered)
ReplayInOrder ==
    \A f \in toReplay : \A g \in numbered : g.seq <= f.seq => g \in Sent \cup toReplay
ServesAll ==
    conn # 0 /\ stage[conn] = "serving" =>
        numbered \subseteq Sent \cup toReplay \cup UNION {enqueuing[b] : b \in Browsers}

\* A number whose row is not written yet is above all that was sent.
NumberedAhead ==
    \A b \in Browsers : \A g \in numbering[b] : \A f \in Sent \cup toReplay : f.seq < g.seq

Gapless ==
    /\ TakenInOrder /\ HandedInOrder /\ PendingInOrder /\ ReplayInOrder /\ ServesAll
    /\ NumberedAhead

RowsKept == numbered \subseteq rows \cup Done

OrderInv == Known /\ OneEach /\ (Clean => Numbering /\ Gapless /\ RowsKept)

-----------------------------------------------------------------------------
(* Resending                                                               *)

GateIds == {e.id : e \in ToSet(gate)}

\* What a browser's handler let pass and has no row for yet, and all that a
\* browser and its handler hold.
InHand(b) == gated[b] \cup {f.id : f \in numbering[b]}
Held(b) == ToSet(outbox[b]) \cup ToSet(webWire[b]) \cup InHand(b)

\* Only what was typed is anywhere.
TypedOnly ==
    /\ \A b \in Browsers : /\ ToSet(outbox[b]) \subseteq 1..typed
                           /\ ToSet(webWire[b]) \subseteq 1..typed
                           /\ InHand(b) \subseteq 1..typed
    /\ GateIds \subseteq 1..typed
    /\ {f.id : f \in numbered} \subseteq 1..typed

GateOnce == \A i, j \in DOMAIN gate : gate[i].id = gate[j].id => i = j
GateBounded == Len(gate) <= GateCap

\* Unless the gate is full it knows every input this backend numbered or is
\* about to.
GateComplete ==
    typed <= GateCap =>
        /\ remembered \subseteq GateIds
        /\ \A b \in Browsers : InHand(b) \subseteq GateIds \ remembered

GateKnows == GateOnce /\ GateBounded /\ GateComplete

\* An input belongs to the browser it was typed in.
Owned == \A a, b \in Browsers : Held(a) \cap Held(b) # {} => a = b

RowsOnce == \A r, q \in rows : r.id = q.id => r = q \/ "database" \in accidents

\* An input that gets a row has none yet.
RowFree ==
    "database" \notin accidents =>
        \A b \in Browsers : \A f \in numbering[b] : \A r \in rows : r.id # f.id

-----------------------------------------------------------------------------
(* What the operators on queues give                                       *)

Entries == [id : Inputs, state : GateStates]

\* An input that is recorded joins the others, and the oldest may go.
LEMMA RecordedIs ==
  ASSUME NEW box \in Seq(Inputs), NEW id \in Inputs
  PROVE  /\ Recorded(box, id) \in Seq(Inputs)
         /\ ToSet(Recorded(box, id)) \subseteq ToSet(box) \cup {id}
         /\ ToSet(box) \cup {id} \subseteq
              ToSet(Recorded(box, id)) \cup (IF Len(box) < OutboxCap THEN {} ELSE {Head(box)})
         /\ Len(box) < OutboxCap \/ Head(box) \in Inputs
<1>1. CASE Len(box) < OutboxCap
  <2>1. Recorded(box, id) = Append(box, id)
    BY <1>1 DEF Recorded
  <2> QED
    BY <1>1, <2>1, AppendHeld
<1>2. CASE ~(Len(box) < OutboxCap)
  <2>1. box # <<>>
    BY <1>2, InputBounds, EmptySeq
  <2> DEFINE rest == Tail(box)
  <2>2. rest \in Seq(Inputs) /\ Head(box) \in Inputs /\ ToSet(box) = ToSet(rest) \cup {Head(box)}
    BY <2>1, TailHeld
  <2>4. Recorded(box, id) = Append(rest, id)
    BY <1>2 DEF Recorded
  <2> HIDE DEF rest
  <2>3. Append(rest, id) \in Seq(Inputs) /\ ToSet(Append(rest, id)) = ToSet(rest) \cup {id}
    BY <2>2, AppendHeld
  <2> QED
    BY <1>2, <2>2, <2>3, <2>4
<1> QED
  BY <1>1, <1>2

\* Resolving an input keeps all others.
LEMMA ResolvedIs ==
  ASSUME NEW box \in Seq(Inputs), NEW id
  PROVE  /\ Resolved(box, id) \in Seq(Inputs)
         /\ ToSet(Resolved(box, id)) \subseteq ToSet(box)
         /\ ToSet(box) \subseteq ToSet(Resolved(box, id)) \cup {id}
<1>1. CASE Contains(box, id)
  <2> DEFINE k == CHOOSE i \in DOMAIN box : box[i] = id
  <2>1. k \in DOMAIN box /\ box[k] = id
    <3>1. \E i \in DOMAIN box : box[i] = id
      BY <1>1, LenProperties DEF Contains
    <3> QED
      BY <3>1
  <2>2. Resolved(box, id) = RemoveAt(box, k)
    BY <1>1 DEF Resolved
  <2> HIDE DEF k
  <2>3. RemoveAt(box, k) \in Seq(Inputs) /\ ToSet(box) = ToSet(RemoveAt(box, k)) \cup {id}
    BY <2>1, RemoveHeld
  <2> QED
    BY <2>2, <2>3
<1>2. CASE ~Contains(box, id)
  BY <1>2 DEF Resolved
<1> QED
  BY <1>1, <1>2

\* The gate remembers one entry more, and may forget its oldest.
LEMMA RememberIs ==
  ASSUME gate \in Seq(Entries), NEW id \in Inputs, NEW state \in GateStates
  PROVE  /\ Remember(id, state) \in Seq(Entries)
         /\ ToSet(Remember(id, state)) \subseteq ToSet(gate) \cup {[id |-> id, state |-> state]}
         /\ Len(gate) < GateCap =>
              ToSet(Remember(id, state)) = ToSet(gate) \cup {[id |-> id, state |-> state]}
<1> DEFINE e == [id |-> id, state |-> state]
           old == IF Len(gate) < GateCap THEN gate ELSE Tail(gate)
<1>1. e \in Entries
  BY DEF Entries
<1>2. old \in Seq(Entries) /\ ToSet(old) \subseteq ToSet(gate)
  <2>1. ~(Len(gate) < GateCap) => gate # <<>>
    BY InputBounds, EmptySeq
  <2> QED
    BY <2>1, TailHeld
<1>3. Remember(id, state) = Append(old, e)
  BY DEF Remember
<1>5. Len(gate) < GateCap => old = gate
  OBVIOUS
<1> HIDE DEF e, old
<1>4. Append(old, e) \in Seq(Entries) /\ ToSet(Append(old, e)) = ToSet(old) \cup {e}
  BY <1>1, <1>2, AppendHeld
<1> QED
  BY <1>2, <1>3, <1>4, <1>5 DEF e

GateAfter(id, outcome) ==
    [i \in DOMAIN gate |-> IF gate[i].id = id THEN [gate[i] EXCEPT !.state = outcome]
                                              ELSE gate[i]]

\* A terminal stage changes the state of its entries alone.
LEMMA GateAfterIs ==
  ASSUME gate \in Seq(Entries), NEW id, NEW outcome \in Outcomes
  PROVE  /\ GateAfter(id, outcome) \in Seq(Entries)
         /\ Len(GateAfter(id, outcome)) = Len(gate)
         /\ \A i \in DOMAIN gate : /\ GateAfter(id, outcome)[i].id = gate[i].id
                                   /\ \/ GateAfter(id, outcome)[i] = gate[i]
                                      \/ gate[i].id = id
<1> DEFINE g == GateAfter(id, outcome)
<1>1. Len(gate) \in Nat /\ DOMAIN gate = 1..Len(gate) /\ \A i \in 1..Len(gate) : gate[i] \in Entries
  BY LenProperties, ElementOfSeq
<1>2. \A i \in 1..Len(gate) :
        /\ g[i] \in Entries /\ g[i].id = gate[i].id
        /\ g[i] = gate[i] \/ gate[i].id = id
  BY <1>1 DEF GateAfter, Entries, GateStates
<1>3. g = [i \in 1..Len(gate) |-> g[i]]
  BY <1>1 DEF GateAfter
<1> HIDE DEF g
<1>4. g \in Seq(Entries) /\ Len(g) = Len(gate)
  BY <1>1, <1>2, <1>3, IsASeq, LenProperties
<1> QED
  BY <1>1, <1>2, <1>4 DEF g

\* What a completion task writes.
LEMMA WrittenIs ==
  ASSUME NEW k \in completions, completions \subseteq [frame : Frames, on : Conns, outcome : Outcomes]
  PROVE  /\ Written(k) \in Seq(Reports)
         /\ \A m \in ToSet(Written(k)) :
              \/ m.kind = k.outcome /\ m.n = k.frame.id
              \/ m.kind = "ack" /\ m.n = k.frame.seq /\ k.outcome = "accepted"
<1>1. k.frame.id \in Nat /\ k.frame.seq \in Nat /\ k.outcome \in Outcomes
  BY InputBounds DEF Frames, Inputs
<1> DEFINE a == [kind |-> "accepted", n |-> k.frame.id]
           b == [kind |-> "ack", n |-> k.frame.seq]
           f == [kind |-> "failed", n |-> k.frame.id]
<1>2. a \in Reports /\ b \in Reports /\ f \in Reports
  BY <1>1 DEF Reports, Outcomes
<1>3. \/ Written(k) = <<f>> /\ k.outcome = "failed"
      \/ Written(k) = <<>>
      \/ Written(k) = <<a, b>> /\ k.outcome = "accepted"
  BY <1>1 DEF Written, Failure, Outcomes
<1>4. /\ a.kind = "accepted" /\ a.n = k.frame.id /\ b.kind = "ack" /\ b.n = k.frame.seq
      /\ f.kind = "failed" /\ f.n = k.frame.id
  OBVIOUS
<1> HIDE DEF a, b, f
<1>5. /\ ToSet(<<f>>) = {f} /\ ToSet(<<>>) = {} /\ ToSet(<<a, b>>) = {a, b}
      /\ <<f>> \in Seq(Reports) /\ <<>> \in Seq(Reports) /\ <<a, b>> \in Seq(Reports)
  BY <1>2 DEF ToSet
<1> QED
  BY <1>3, <1>4, <1>5

\* A failed input has one report, of its own number.
LEMMA FailureIs ==
  ASSUME NEW f \in Frames
  PROVE  /\ Failure(f) \in Seq(Reports)
         /\ \A m \in ToSet(Failure(f)) : m.kind = "failed" /\ m.n = f.id
<1> DEFINE m == [kind |-> "failed", n |-> f.id]
<1>1. m \in Reports /\ m.kind = "failed" /\ m.n = f.id
  BY InputBounds DEF Reports, Outcomes, Frames, Inputs
<1>2. Failure(f) \in {<<>>, <<m>>}
  BY DEF Failure
<1> HIDE DEF m
<1>3. ToSet(<<m>>) = {m} /\ ToSet(<<>>) = {} /\ <<m>> \in Seq(Reports) /\ <<>> \in Seq(Reports)
  BY <1>1 DEF ToSet
<1> QED
  BY <1>1, <1>2, <1>3

\* The next input is the head of what is pending, and the rest stays.
LEMMA ReceivedIs ==
  ASSUME inbox \in Seq(Frames), wire \in Seq(Frames), Pending # <<>>
  PROVE  /\ Pending \in Seq(Frames) /\ NextInput = Head(Pending) /\ NextInput \in Frames
         /\ Tail(Pending) \in Seq(Frames)
         /\ ReceiveInput => /\ inbox' \in Seq(Frames) /\ wire' \in Seq(Frames)
                            /\ Pending' = Tail(Pending)
<1>1. Pending \in Seq(Frames)
  BY ConcatProperties DEF Pending
<1>2. Head(Pending) \in Frames /\ Tail(Pending) \in Seq(Frames)
  BY <1>1, HeadTailProperties
<1>3. NextInput = Head(Pending)
  BY DEF NextInput, Pending
<1>4. ASSUME ReceiveInput
      PROVE  inbox' \in Seq(Frames) /\ wire' \in Seq(Frames) /\ Pending' = Tail(Pending)
  <2>1. CASE inbox # <<>>
    <3>1. inbox' = Tail(inbox) /\ wire' = wire
      BY <1>4, <2>1 DEF ReceiveInput
    <3>2. Tail(inbox) \in Seq(Frames)
      BY <2>1, HeadTailProperties
    <3>3. Tail(inbox \o wire) = Tail(inbox) \o wire
      BY <2>1, TailOfConcat
    <3> QED
      BY <3>1, <3>2, <3>3 DEF Pending
  <2>2. CASE inbox = <<>>
    <3>1. inbox' = inbox /\ wire' = Tail(wire)
      BY <1>4, <2>2 DEF ReceiveInput
    <3>2. inbox \o wire = wire
      BY <2>2, ConcatEmptySeq
    <3>3. wire # <<>>
      BY <3>2 DEF Pending
    <3>4. Tail(wire) \in Seq(Frames) /\ inbox \o Tail(wire) = Tail(wire)
      BY <2>2, <3>3, HeadTailProperties, ConcatEmptySeq
    <3> QED
      BY <3>1, <3>2, <3>4 DEF Pending
  <2> QED
    BY <2>1, <2>2
<1> QED
  BY <1>1, <1>2, <1>3, <1>4

-----------------------------------------------------------------------------
(* Types                                                                   *)

\* What a report settles is an input.
LEMMA SettledAreInputs ==
  ASSUME TypeOK
  PROVE  SettledIds \subseteq Inputs /\ Done \subseteq Frames /\ ToSet(taken) \subseteq Frames
<1>1. ToSet(taken) \subseteq Frames /\ refused \subseteq Frames
  BY HeldIs DEF TypeOK, ProxyTypeOK
<1> QED
  BY <1>1 DEF SettledIds, Done, Frames

\* The head of a queue of reports is a report, and an input it names is one.
LEMMA ReportIs ==
  ASSUME TypeOK, Settled, NEW c \in Conns, reports[c] # <<>>
  PROVE  LET m == Head(reports[c]) IN
         /\ m \in Reports /\ m \in ToSet(reports[c])
         /\ m.kind # "ack" => m.n \in Inputs /\ m.kind \in Outcomes
         /\ Tail(reports[c]) \in Seq(Reports)
         /\ ToSet(Tail(reports[c])) \subseteq ToSet(reports[c])
<1>1. reports[c] \in Seq(Reports)
  BY DEF TypeOK, NetTypeOK
<1>2. /\ Head(reports[c]) \in Reports /\ Tail(reports[c]) \in Seq(Reports)
      /\ ToSet(reports[c]) = ToSet(Tail(reports[c])) \cup {Head(reports[c])}
  BY <1>1, TailHeld
<1> DEFINE m == Head(reports[c])
<1>3. m.kind # "ack" => m.n \in SettledIds /\ m.kind \in Outcomes
  BY <1>2 DEF Settled, Reports
<1> QED
  BY <1>2, <1>3, SettledAreInputs

\* A gate entry that settles goes, or stays as it was.
LEMMA SettleType ==
  ASSUME TypeOK, NEW id \in Inputs, NEW outcome \in Outcomes, Settle(id, outcome)
  PROVE  /\ gate' \in Seq(Entries) /\ outbox' \in [Browsers -> Seq(Inputs)]
         /\ \A e \in ToSet(gate') : e \in ToSet(gate) \/ e.id = id
<1>1. gate \in Seq(Entries) /\ outbox \in [Browsers -> Seq(Inputs)]
  BY DEF TypeOK, StoreTypeOK, WebTypeOK, Entries
<1>4. outbox' \in [Browsers -> Seq(Inputs)]
  <2>1. \A b \in Browsers : Resolved(outbox[b], id) \in Seq(Inputs)
    BY <1>1, ResolvedIs
  <2>2. outbox' = [b \in Browsers |-> IF webUp[b] THEN Resolved(outbox[b], id) ELSE outbox[b]]
    BY DEF Settle
  <2> QED
    BY <1>1, <2>1, <2>2
<1>2. CASE Tracked(id)
  <2>1. gate' = GateAfter(id, outcome)
    BY <1>2 DEF Settle, GateAfter
  <2>2. /\ gate' \in Seq(Entries) /\ Len(gate') = Len(gate)
        /\ \A i \in DOMAIN gate : gate'[i].id = gate[i].id /\ (gate'[i] = gate[i] \/ gate[i].id = id)
    BY <1>1, <2>1, GateAfterIs
  <2>3. DOMAIN gate' = DOMAIN gate
    BY <1>1, <2>2, LenProperties
  <2>4. \A e \in ToSet(gate') : e \in ToSet(gate) \/ e.id = id
    BY <2>2, <2>3 DEF ToSet
  <2> QED
    BY <1>4, <2>2, <2>4
<1>3. CASE ~Tracked(id)
  <2>1. gate' = Remember(id, outcome)
    BY <1>3 DEF Settle
  <2>2. outcome \in GateStates
    BY DEF GateStates
  <2>3. /\ gate' \in Seq(Entries)
        /\ ToSet(gate') \subseteq ToSet(gate) \cup {[id |-> id, state |-> outcome]}
    BY <1>1, <2>1, <2>2, RememberIs
  <2> QED
    BY <1>4, <2>3
<1> QED
  BY <1>2, <1>3

\* The browsers' variables keep their types.
LEMMA WebStepType ==
  ASSUME TypeOK, Settled, Next
  PROVE  WebTypeOK'
<1>1. /\ typed \in 0..MaxInputs /\ outbox \in [Browsers -> Seq(Inputs)]
      /\ webUp \in [Browsers -> BOOLEAN] /\ webWire \in [Browsers -> Seq(Inputs)]
      /\ evicted \subseteq Inputs
  BY DEF TypeOK, WebTypeOK
<1>2. ASSUME NEW b \in Browsers, Type(b) PROVE WebTypeOK'
  <2>1. typed + 1 \in Inputs /\ typed' = typed + 1 /\ typed' \in 0..MaxInputs /\ webUp' = webUp
    BY <1>1, <1>2, InputBounds DEF Type, Inputs
  <2>2. /\ Recorded(outbox[b], typed + 1) \in Seq(Inputs)
        /\ Len(outbox[b]) < OutboxCap \/ Head(outbox[b]) \in Inputs
    BY <1>1, <2>1, RecordedIs
  <2>3. Append(webWire[b], typed + 1) \in Seq(Inputs)
    BY <1>1, <2>1, AppendProperties
  <2>4. outbox' \in [Browsers -> Seq(Inputs)]
    BY <1>1, <1>2, <2>2 DEF Type
  <2>5. webWire' \in [Browsers -> Seq(Inputs)]
    BY <1>1, <1>2, <2>3 DEF Type
  <2>6. evicted' \subseteq Inputs
    BY <1>1, <1>2, <2>2 DEF Type
  <2> QED
    BY <1>1, <2>1, <2>4, <2>5, <2>6 DEF WebTypeOK
<1>3. ASSUME NEW b \in Browsers, WebDrop(b) PROVE WebTypeOK'
  <2>1. \A n \in 0..Len(webWire[b]) : SubSeq(webWire[b], 1, n) \in Seq(Inputs)
    BY <1>1, PartHeld
  <2>2. webWire' \in [Browsers -> Seq(Inputs)]
    BY <1>1, <1>3, <2>1 DEF WebDrop
  <2> QED
    BY <1>1, <1>3, <2>2 DEF WebDrop, WebTypeOK
<1>4. ASSUME NEW b \in Browsers, WebConnect(b) PROVE WebTypeOK'
  <2>1. webWire[b] \o outbox[b] \in Seq(Inputs)
    BY <1>1, ConcatProperties
  <2>2. webWire' \in [Browsers -> Seq(Inputs)]
    BY <1>1, <1>4, <2>1 DEF WebConnect
  <2> QED
    BY <1>1, <1>4, <2>2 DEF WebConnect, WebTypeOK
<1>5. ASSUME NEW b \in Browsers, HandleInput(b) PROVE WebTypeOK'
  <2>1. webWire[b] \in Seq(Inputs) /\ Tail(webWire[b]) \in Seq(Inputs)
    BY <1>1, <1>5, HeadTailProperties DEF HandleInput
  <2>2. webWire' \in [Browsers -> Seq(Inputs)]
    BY <1>1, <1>5, <2>1 DEF HandleInput
  <2>3. \A id : Resolved(outbox[b], id) \in Seq(Inputs)
    BY <1>1, ResolvedIs
  <2>5. outbox' = outbox \/ outbox' = [outbox EXCEPT ![b] = Resolved(@, Head(webWire[b]))]
    BY <1>5 DEF HandleInput, PassGate
  <2>4. outbox' \in [Browsers -> Seq(Inputs)]
    BY <1>1, <2>3, <2>5
  <2> QED
    BY <1>1, <1>5, <2>2, <2>4 DEF HandleInput, WebTypeOK
<1>6. ASSUME NEW c \in Conns, HandleReport(c) PROVE WebTypeOK'
  <2>1. outbox' \in [Browsers -> Seq(Inputs)]
    <3> DEFINE m == Head(reports[c])
    <3>1. reports[c] # <<>> /\ IF m.kind = "ack" THEN DeleteRows(m.n) ELSE Settle(m.n, m.kind)
      BY <1>6 DEF HandleReport
    <3>2. m.kind # "ack" => m.n \in Inputs /\ m.kind \in Outcomes
      BY <3>1, ReportIs
    <3> HIDE DEF m
    <3> QED
      BY <1>1, <3>1, <3>2, SettleType DEF DeleteRows
  <2> QED
    BY <1>1, <1>6, <2>1 DEF HandleReport, WebTypeOK
<1>7. CASE BackendRestart
  <2>1. /\ webUp' = [b \in Browsers |-> FALSE] /\ webWire' = [b \in Browsers |-> <<>>]
        /\ UNCHANGED <<typed, outbox, evicted>>
    BY <1>7 DEF BackendRestart
  <2>2. <<>> \in Seq(Inputs)
    OBVIOUS
  <2> QED
    BY <1>1, <2>1, <2>2 DEF WebTypeOK
<1>8. UNCHANGED webVars => WebTypeOK'
  BY <1>1 DEF webVars, WebTypeOK
<1>9. ASSUME NEW b \in Browsers,
             DropBacked(b) \/ NumberInput(b) \/ InsertRow(b) \/ HandOver(b)
      PROVE  WebTypeOK'
  BY <1>8, <1>9 DEF DropBacked, NumberInput, InsertRow, HandOver
<1>10. ASSUME NEW c \in Conns, HandlerEnds(c) PROVE WebTypeOK'
  BY <1>8, <1>10 DEF HandlerEnds
<1>11. CASE AckRegistration \/ ReadRows \/ ReplayRow
  BY <1>8, <1>11 DEF AckRegistration, ReadRows, ReplayRow
<1>12. CASE ProxyStep
  BY <1>8, <1>12 DEF ProxyStep, Connect, Disconnect, DeliverInput, AgentAccepts, AgentRejects,
     ReportCompletion, AgentStops, DeliverFails, Relaunch
<1> QED
  BY <1>2, <1>3, <1>4, <1>5, <1>6, <1>7, <1>9, <1>10, <1>11, <1>12
     DEF Next, BrowserStep, BackendStep

\* The backend's rows keep their types.
LEMMA StoreStepType ==
  ASSUME TypeOK, Settled, Next
  PROVE  StoreTypeOK'
<1>1. /\ gate \in Seq(Entries) /\ gated \in [Browsers -> SUBSET Inputs]
      /\ inputSeq \in Nat /\ rows \subseteq Frames
      /\ numbering \in [Browsers -> SUBSET Frames]
      /\ enqueuing \in [Browsers -> SUBSET Frames]
      /\ numbered \subseteq Frames /\ remembered \subseteq Inputs
  BY DEF TypeOK, StoreTypeOK, Entries
<1> DEFINE T == /\ gate' \in Seq(Entries) /\ gated' \in [Browsers -> SUBSET Inputs]
                /\ inputSeq' \in Nat /\ rows' \subseteq Frames
                /\ numbering' \in [Browsers -> SUBSET Frames]
                /\ enqueuing' \in [Browsers -> SUBSET Frames]
                /\ numbered' \subseteq Frames /\ remembered' \subseteq Inputs
<1>2. T => StoreTypeOK'
  BY DEF StoreTypeOK, Entries
<1>3. ASSUME NEW b \in Browsers, HandleInput(b) PROVE T
  <2>1. webWire[b] \in Seq(Inputs) /\ webWire[b] # <<>>
    BY <1>3 DEF HandleInput, TypeOK, WebTypeOK
  <2>2. Head(webWire[b]) \in Inputs
    BY <2>1, HeadTailProperties
  <2>3. Remember(Head(webWire[b]), "in flight") \in Seq(Entries)
    BY <1>1, <2>2, RememberIs DEF GateStates
  <2>4. gate' \in Seq(Entries)
    BY <1>1, <1>3, <2>3 DEF HandleInput, PassGate
  <2>6. gated' = gated \/ gated' = [gated EXCEPT ![b] = {Head(webWire[b])}]
    BY <1>3 DEF HandleInput, PassGate
  <2>5. gated' \in [Browsers -> SUBSET Inputs]
    BY <1>1, <2>2, <2>6
  <2> QED
    BY <1>1, <1>3, <2>4, <2>5 DEF HandleInput
<1>4. ASSUME NEW b \in Browsers, DropBacked(b) PROVE T
  BY <1>1, <1>4 DEF DropBacked
<1>5. ASSUME NEW b \in Browsers, NumberInput(b) PROVE T
  <2>1. PICK id \in gated[b] : Allocate(b, id) \/ NumberUnsafely(b, id)
    BY <1>5 DEF NumberInput
  <2>2. \A n \in Nat : [seq |-> n, id |-> id] \in Frames
    BY <1>1 DEF Frames
  <2>3. /\ inputSeq' \in Nat
        /\ \/ \E f \in Frames : Numbers(b, f)
           \/ numbering' = numbering /\ \E f \in Frames : Enqueue(b, f)
    BY <1>1, <2>1, <2>2 DEF Allocate, NumberUnsafely
  <2>4. ASSUME NEW f \in Frames, Numbers(b, f)
        PROVE  /\ numbering' \in [Browsers -> SUBSET Frames]
               /\ UNCHANGED <<enqueuing, numbered, remembered>>
    BY <1>1, <2>4 DEF Numbers
  <2>5. ASSUME NEW f \in Frames, Enqueue(b, f)
        PROVE  /\ enqueuing' \in [Browsers -> SUBSET Frames] /\ numbered' \subseteq Frames
               /\ remembered' \subseteq Inputs
    BY <1>1, <2>5 DEF Enqueue, Frames
  <2>6. gated' \in [Browsers -> SUBSET Inputs] /\ gate' = gate /\ rows' = rows
    BY <1>1, <1>5 DEF NumberInput
  <2>7. CASE \E f \in Frames : Numbers(b, f)
    BY <1>1, <2>3, <2>4, <2>6, <2>7
  <2>8. CASE numbering' = numbering /\ \E f \in Frames : Enqueue(b, f)
    BY <1>1, <2>3, <2>5, <2>6, <2>8
  <2> QED
    BY <2>3, <2>7, <2>8
<1>14. ASSUME NEW b \in Browsers, InsertRow(b) PROVE T
  <2>1. PICK f \in numbering[b] : Enqueue(b, f) /\ rows' \in {rows, rows \cup {f}}
    BY <1>14 DEF InsertRow
  <2>2. f \in Frames
    BY <1>1, <2>1
  <2>3. /\ enqueuing' \in [Browsers -> SUBSET Frames] /\ numbered' \subseteq Frames
        /\ remembered' \subseteq Inputs
    BY <1>1, <2>1, <2>2 DEF Enqueue, Frames
  <2>4. /\ numbering' = [numbering EXCEPT ![b] = {}]
        /\ UNCHANGED <<gate, gated, inputSeq>>
    BY <1>14 DEF InsertRow
  <2>5. rows' \subseteq Frames
    BY <1>1, <2>1, <2>2
  <2> QED
    BY <1>1, <2>3, <2>4, <2>5
<1>6. ASSUME NEW b \in Browsers, HandOver(b) PROVE T
  BY <1>1, <1>6 DEF HandOver
<1>7. ASSUME NEW c \in Conns, HandleReport(c) PROVE T
  <2> DEFINE m == Head(reports[c])
  <2>1. reports[c] # <<>> /\ IF m.kind = "ack" THEN DeleteRows(m.n) ELSE Settle(m.n, m.kind)
    BY <1>7 DEF HandleReport
  <2>2. m.kind # "ack" => m.n \in Inputs /\ m.kind \in Outcomes
    BY <2>1, ReportIs
  <2> HIDE DEF m
  <2>3. gate' \in Seq(Entries) /\ rows' \subseteq Frames
    BY <1>1, <2>1, <2>2, SettleType DEF DeleteRows, Settle
  <2> QED
    BY <1>1, <1>7, <2>3 DEF HandleReport
<1>8. ASSUME BackendRestart PROVE T
  <2>1. <<>> \in Seq(Entries)
    OBVIOUS
  <2> QED
    BY <1>1, <1>8, <2>1 DEF BackendRestart
<1>9. UNCHANGED storeVars => T
  BY <1>1 DEF storeVars
<1>10. ASSUME NEW b \in Browsers, Type(b) \/ WebDrop(b) \/ WebConnect(b) PROVE T
  BY <1>9, <1>10 DEF Type, WebDrop, WebConnect
<1>11. ASSUME NEW c \in Conns, HandlerEnds(c) PROVE T
  BY <1>9, <1>11 DEF HandlerEnds
<1>12. ASSUME AckRegistration \/ ReadRows \/ ReplayRow PROVE T
  BY <1>9, <1>12 DEF AckRegistration, ReadRows, ReplayRow
<1>13. ASSUME ProxyStep PROVE T
  BY <1>9, <1>13 DEF ProxyStep, Connect, Disconnect, DeliverInput, AgentAccepts, AgentRejects,
     ReportCompletion, AgentStops, DeliverFails, Relaunch
<1> HIDE DEF T
<1> QED
  BY <1>2, <1>3, <1>4, <1>5, <1>6, <1>7, <1>8, <1>10, <1>11, <1>12, <1>13, <1>14
     DEF Next, BrowserStep, BackendStep

Commands == [frame : Frames, on : Conns]

\* What is under way keeps its types.
LEMMA NetStepType ==
  ASSUME TypeOK, Settled, Next
  PROVE  NetTypeOK'
<1>1. /\ stage \in [Conns -> Stages] /\ toReplay \subseteq Frames
      /\ reports \in [Conns -> Seq(Reports)]
      /\ opened \in 0..MaxConns /\ conn \in 0..MaxConns /\ wire \in Seq(Frames)
  BY DEF TypeOK, NetTypeOK
<1>s. rows \subseteq Frames /\ inbox \in Seq(Frames) /\ enqueuing \in [Browsers -> SUBSET Frames]
  BY DEF TypeOK, StoreTypeOK, ProxyTypeOK
<1>c. conn # 0 => conn \in Conns
  BY <1>1, InputBounds DEF Conns
<1>e. <<>> \in Seq(Frames) /\ <<>> \in Seq(Reports)
  OBVIOUS
<1> DEFINE T == /\ stage' \in [Conns -> Stages] /\ toReplay' \subseteq Frames
                /\ reports' \in [Conns -> Seq(Reports)]
                /\ opened' \in 0..MaxConns /\ conn' \in 0..MaxConns /\ wire' \in Seq(Frames)
<1>2. T => NetTypeOK'
  BY DEF NetTypeOK
<1>3. ASSUME NEW b \in Browsers, HandOver(b) PROVE T
  <2>1. PICK f \in enqueuing[b] : wire' = wire \/ wire' = Append(wire, f)
    BY <1>3 DEF HandOver
  <2>2. f \in Frames
    BY <1>s, <2>1
  <2>3. wire' \in Seq(Frames)
    BY <1>1, <2>1, <2>2, AppendProperties
  <2> QED
    BY <1>1, <1>3, <2>3 DEF HandOver, proxyVars
<1>4. ASSUME Connect PROVE T
  <2>1. opened + 1 \in Conns /\ opened' \in 0..MaxConns /\ conn' \in 0..MaxConns
    BY <1>1, <1>4, InputBounds DEF Connect, Conns
  <2>2. stage' \in [Conns -> Stages]
    BY <1>1, <1>4, <2>1 DEF Connect, Stages
  <2> QED
    BY <1>1, <1>4, <2>1, <2>2 DEF Connect
<1>5. ASSUME AckRegistration \/ ReadRows PROVE T
  <2>1. stage' \in [Conns -> Stages]
    BY <1>1, <1>5 DEF AckRegistration, ReadRows, Stages
  <2> QED
    BY <1>1, <1>s, <1>5, <2>1 DEF AckRegistration, ReadRows, proxyVars
<1>6. ASSUME ReplayRow PROVE T
  <2>1. PICK f \in toReplay : wire' = Append(wire, f) /\ toReplay' = toReplay \ {f}
    BY <1>6 DEF ReplayRow
  <2>2. wire' \in Seq(Frames)
    BY <1>1, <2>1, AppendProperties
  <2> QED
    BY <1>1, <1>6, <2>1, <2>2 DEF ReplayRow, proxyVars
<1>7. ASSUME NEW c \in Conns, HandleReport(c) PROVE T
  <2>1. Tail(reports[c]) \in Seq(Reports)
    BY <1>1, <1>7, HeadTailProperties DEF HandleReport
  <2>2. reports' \in [Conns -> Seq(Reports)]
    BY <1>1, <1>7, <2>1 DEF HandleReport
  <2> QED
    BY <1>1, <1>7, <2>2 DEF HandleReport, proxyVars
<1>8. ASSUME NEW c \in Conns, HandlerEnds(c) PROVE T
  <2>1. stage' \in [Conns -> Stages]
    BY <1>1, <1>8 DEF HandlerEnds, Stages
  <2>2. reports' \in [Conns -> Seq(Reports)]
    BY <1>1, <1>e, <1>8 DEF HandlerEnds
  <2> QED
    BY <1>1, <1>8, <2>1, <2>2 DEF HandlerEnds, proxyVars
<1>9. ASSUME BackendRestart PROVE T
  <2>1. stage' \in [Conns -> Stages]
    BY <1>9 DEF BackendRestart, Stages
  <2>2. reports' \in [Conns -> Seq(Reports)]
    BY <1>e, <1>9 DEF BackendRestart
  <2> QED
    BY <1>1, <1>9, <2>1, <2>2 DEF BackendRestart, proxyVars
<1>10. ASSUME Disconnect \/ Relaunch PROVE T
  <2>1. 0 \in 0..MaxConns
    BY InputBounds
  <2>2. conn' = 0 /\ wire' = <<>> /\ toReplay' = {} /\ UNCHANGED <<stage, reports, opened>>
    BY <1>10 DEF Disconnect, Relaunch, ConnectionGone
  <2> QED
    BY <1>1, <1>e, <2>1, <2>2
<1>11. ASSUME DeliverInput PROVE T
  <2>1. Pending # <<>>
    BY <1>11 DEF DeliverInput, ReceiveInput, Pending
  <2>2. wire' \in Seq(Frames)
    BY <1>1, <1>s, <1>11, <2>1, ReceivedIs DEF DeliverInput
  <2> QED
    BY <1>1, <1>11, <2>2 DEF DeliverInput
<1>12. ASSUME ReportCompletion PROVE T
  <2>1. PICK k \in completions :
          reports' = IF k.on = conn /\ stage[conn] # "closed"
                     THEN [reports EXCEPT ![conn] = @ \o Written(k)] ELSE reports
    BY <1>12 DEF ReportCompletion
  <2>2. Written(k) \in Seq(Reports)
    BY <2>1, WrittenIs DEF TypeOK, ProxyTypeOK
  <2>3. \A d \in Conns : reports[d] \o Written(k) \in Seq(Reports)
    BY <1>1, <2>2, ConcatProperties
  <2>4. reports' \in [Conns -> Seq(Reports)]
    BY <1>1, <2>1, <2>3
  <2> QED
    BY <1>1, <1>12, <2>4 DEF ReportCompletion
<1>13. ASSUME DeliverFails PROVE T
  <2>1. Pending # <<>>
    BY <1>13 DEF DeliverFails, Pending
  <2>2. NextInput \in Frames
    BY <1>1, <1>s, <2>1, ReceivedIs
  <2>3. Failure(NextInput) \in Seq(Reports)
    BY <2>2, FailureIs
  <2>4. \A d \in Conns : reports[d] \o Failure(NextInput) \in Seq(Reports)
    BY <1>1, <2>3, ConcatProperties
  <2>5. reports' = reports \/ reports' = [reports EXCEPT ![conn] = @ \o Failure(NextInput)]
    BY <1>13 DEF DeliverFails
  <2>6. reports' \in [Conns -> Seq(Reports)]
    BY <1>1, <2>4, <2>5
  <2>7. 0 \in 0..MaxConns
    BY InputBounds
  <2>8. conn' = 0 /\ wire' = <<>> /\ toReplay' = {} /\ UNCHANGED <<stage, opened>>
    BY <1>13 DEF DeliverFails, ConnectionGone
  <2> QED
    BY <1>1, <1>e, <2>6, <2>7, <2>8
<1>14. UNCHANGED <<netVars, opened, conn>> => T
  BY <1>1 DEF netVars
<1>15. ASSUME NEW b \in Browsers, Type(b) \/ WebDrop(b) \/ WebConnect(b) PROVE T
  BY <1>14, <1>15 DEF Type, WebDrop, WebConnect, proxyVars
<1>16. ASSUME NEW b \in Browsers,
              HandleInput(b) \/ DropBacked(b) \/ NumberInput(b) \/ InsertRow(b)
       PROVE  T
  BY <1>14, <1>16 DEF HandleInput, DropBacked, NumberInput, InsertRow, proxyVars
<1>17. ASSUME AgentAccepts \/ AgentRejects \/ AgentStops PROVE T
  BY <1>14, <1>17 DEF AgentAccepts, AgentRejects, AgentStops
<1> HIDE DEF T
<1> QED
  BY <1>2, <1>3, <1>4, <1>5, <1>6, <1>7, <1>8, <1>9, <1>10, <1>11, <1>12, <1>13, <1>15, <1>16,
     <1>17 DEF Next, BrowserStep, BackendStep, ProxyStep

\* Faults and accidents are only added to.
LEMMA FaultsStep ==
  ASSUME TypeOK, Next
  PROVE  faults' \in Nat /\ accidents' \subseteq AccidentKinds
<1>1. faults \in Nat /\ accidents \subseteq AccidentKinds
  BY DEF TypeOK, ProxyTypeOK
<1>2. ASSUME NEW kind \in AccidentKinds, Accident(kind) PROVE accidents' \subseteq AccidentKinds
  BY <1>1, <1>2 DEF Accident
<1>3. ASSUME NEW b \in Browsers,
             \/ HandleInput(b) \/ DropBacked(b) \/ NumberInput(b) \/ InsertRow(b) \/ HandOver(b)
      PROVE  faults' = faults /\ accidents' \subseteq AccidentKinds
  <2>1. faults' = faults
    BY <1>3 DEF HandleInput, DropBacked, NumberInput, InsertRow, HandOver
  <2>2. accidents' = accidents \/ \E kind \in AccidentKinds : Accident(kind)
    BY <1>3 DEF HandleInput, DropBacked, NumberInput, InsertRow, HandOver, AccidentKinds
  <2> QED
    BY <1>1, <1>2, <2>1, <2>2
<1>7. ASSUME ReadRows PROVE faults' = faults /\ accidents' \subseteq AccidentKinds
  BY <1>1, <1>2, <1>7 DEF ReadRows, AccidentKinds
<1>4. BrowserStep => faults' \in {faults, faults + 1} /\ accidents' = accidents
  BY DEF BrowserStep, Type, WebDrop, WebConnect
<1>5. ProxyStep => faults' \in {faults, faults + 1} /\ accidents' = accidents
  BY DEF ProxyStep, Connect, Disconnect, DeliverInput, AgentAccepts, AgentRejects,
     ReportCompletion, AgentStops, DeliverFails, Relaunch
<1>6. \/ \E c \in Conns : HandleReport(c) \/ HandlerEnds(c)
      \/ AckRegistration \/ ReplayRow \/ BackendRestart
      => faults' \in {faults, faults + 1} /\ accidents' = accidents
  BY DEF HandleReport, HandlerEnds, AckRegistration, ReplayRow, BackendRestart
<1> QED
  BY <1>1, <1>3, <1>4, <1>5, <1>6, <1>7 DEF Next, BackendStep

\* The proxy's variables keep their types.
LEMMA ProxyStepType ==
  ASSUME TypeOK, Settled, Next
  PROVE  ProxyTypeOK'
<1>1. /\ inbox \in Seq(Frames) /\ handed \in Seq(Commands)
      /\ completions \subseteq [frame : Frames, on : Conns, outcome : Outcomes]
      /\ agentUp \in BOOLEAN /\ taken \in Seq(Frames) /\ refused \subseteq Frames
      /\ wire \in Seq(Frames) /\ conn \in 0..MaxConns
  BY DEF TypeOK, ProxyTypeOK, NetTypeOK, Commands
<1>c. conn # 0 => conn \in Conns
  BY <1>1, InputBounds DEF Conns
<1>e. <<>> \in Seq(Frames) /\ <<>> \in Seq(Commands)
  OBVIOUS
<1> DEFINE T == /\ inbox' \in Seq(Frames) /\ handed' \in Seq(Commands)
                /\ completions' \subseteq [frame : Frames, on : Conns, outcome : Outcomes]
                /\ agentUp' \in BOOLEAN /\ taken' \in Seq(Frames) /\ refused' \subseteq Frames
<1>2. T => ProxyTypeOK'
  BY FaultsStep DEF ProxyTypeOK, Commands
<1>3. ASSUME Disconnect PROVE T
  <2>1. PICK n \in 0..Len(wire) : inbox' = inbox \o SubSeq(wire, 1, n)
    BY <1>3 DEF Disconnect
  <2>2. SubSeq(wire, 1, n) \in Seq(Frames)
    BY <1>1, <2>1, PartHeld
  <2>3. inbox' \in Seq(Frames)
    BY <1>1, <2>1, <2>2, ConcatProperties
  <2> QED
    BY <1>1, <1>3, <2>3 DEF Disconnect
<1>4. ASSUME DeliverInput PROVE T
  <2>1. Pending # <<>> /\ conn \in Conns
    BY <1>c, <1>4 DEF DeliverInput, ReceiveInput, Pending
  <2>2. inbox' \in Seq(Frames) /\ NextInput \in Frames
    BY <1>1, <1>4, <2>1, ReceivedIs DEF DeliverInput
  <2> DEFINE cmd == [frame |-> NextInput, on |-> conn]
  <2>3. cmd \in Commands
    BY <2>1, <2>2 DEF Commands
  <2>4. handed' = Append(handed, cmd)
    BY <1>4 DEF DeliverInput
  <2> HIDE DEF cmd
  <2>5. handed' \in Seq(Commands)
    BY <1>1, <2>3, <2>4, AppendProperties
  <2> QED
    BY <1>1, <1>4, <2>2, <2>5 DEF DeliverInput
<1>5. ASSUME AgentAccepts \/ AgentRejects PROVE T
  <2>1. handed # <<>> /\ handed' = Tail(handed)
    BY <1>5 DEF AgentAccepts, AgentRejects
  <2>2. Head(handed) \in Commands /\ Tail(handed) \in Seq(Commands)
    BY <1>1, <2>1, HeadTailProperties
  <2>3. \A outcome \in Outcomes :
           Completion(Head(handed), outcome) \in [frame : Frames, on : Conns, outcome : Outcomes]
    BY <2>2 DEF Completion, Commands
  <2>4. completions' \subseteq [frame : Frames, on : Conns, outcome : Outcomes]
    BY <1>1, <1>5, <2>3 DEF AgentAccepts, AgentRejects, Outcomes
  <2>5. Head(handed).frame \in Frames
    BY <2>2 DEF Commands
  <2>6. Append(taken, Head(handed).frame) \in Seq(Frames)
    BY <1>1, <2>5, AppendProperties
  <2> QED
    BY <1>1, <1>5, <2>1, <2>2, <2>4, <2>5, <2>6 DEF AgentAccepts, AgentRejects
<1>6. ASSUME AgentStops PROVE T
  <2>1. \A i \in DOMAIN handed : handed[i] \in Commands
    BY <1>1, ElementOfSeq, LenProperties
  <2>2. \A i \in DOMAIN handed :
           /\ Completion(handed[i], "failed") \in [frame : Frames, on : Conns, outcome : Outcomes]
           /\ handed[i].frame \in Frames
    BY <2>1 DEF Completion, Commands, Outcomes
  <2>3. completions' \subseteq [frame : Frames, on : Conns, outcome : Outcomes]
    BY <1>1, <1>6, <2>2 DEF AgentStops
  <2>4. refused' \subseteq Frames
    BY <1>1, <1>6, <2>2 DEF AgentStops
  <2> QED
    BY <1>1, <1>e, <1>6, <2>3, <2>4 DEF AgentStops
<1>7. ASSUME DeliverFails PROVE T
  <2>1. Pending # <<>> /\ inbox' = Tail(Pending)
    BY <1>7 DEF DeliverFails, Pending
  <2>2. NextInput \in Frames /\ inbox' \in Seq(Frames)
    BY <1>1, <2>1, ReceivedIs
  <2> QED
    BY <1>1, <1>7, <2>2 DEF DeliverFails
<1>8. ASSUME Relaunch PROVE T
  BY <1>1, <1>e, <1>8 DEF Relaunch
<1>9. ASSUME ReportCompletion \/ Connect PROVE T
  BY <1>1, <1>9 DEF ReportCompletion, Connect
<1>10. UNCHANGED proxyVars => T
  BY <1>1 DEF proxyVars
<1>11. ASSUME BrowserStep PROVE T
  BY <1>10, <1>11 DEF BrowserStep, Type, WebDrop, WebConnect
<1>12. ASSUME BackendStep PROVE T
  BY <1>10, <1>12 DEF BackendStep, HandleInput, DropBacked, NumberInput, InsertRow, HandOver, HandleReport,
     HandlerEnds, AckRegistration, ReadRows, ReplayRow, BackendRestart
<1> HIDE DEF T
<1> QED
  BY <1>2, <1>3, <1>4, <1>5, <1>6, <1>7, <1>8, <1>9, <1>11, <1>12 DEF Next, ProxyStep

-----------------------------------------------------------------------------
(* Nothing a person typed vanishes                                         *)

\* What was taken or refused stays so.
LEMMA DoneGrows ==
  ASSUME TypeOK, Next
  PROVE  ToSet(taken) \subseteq ToSet(taken') /\ refused \subseteq refused'
<1>1. taken \in Seq(Frames) /\ handed \in Seq(Commands)
  BY DEF TypeOK, ProxyTypeOK, Commands
<1>2. CASE AgentAccepts
  <2> DEFINE f == Head(handed).frame
  <2>1. taken' = Append(taken, f) /\ handed # <<>> /\ refused' = refused
    BY <1>2 DEF AgentAccepts
  <2>4. Head(handed) \in Commands
    BY <1>1, <2>1, HeadTailProperties
  <2>2. f \in Frames
    BY <2>4 DEF Commands
  <2> HIDE DEF f
  <2>3. ToSet(Append(taken, f)) = ToSet(taken) \cup {f}
    BY <1>1, <2>2, AppendHeld
  <2> QED
    BY <2>1, <2>3
<1>3. CASE AgentRejects \/ AgentStops \/ DeliverFails
  BY <1>3 DEF AgentRejects, AgentStops, DeliverFails
<1>4. CASE Connect \/ Disconnect \/ DeliverInput \/ ReportCompletion \/ Relaunch
  BY <1>4 DEF Connect, Disconnect, DeliverInput, ReportCompletion, Relaunch
<1>5. CASE BrowserStep
  BY <1>5 DEF BrowserStep, Type, WebDrop, WebConnect, proxyVars
<1>6. CASE BackendStep
  BY <1>6 DEF BackendStep, HandleInput, DropBacked, NumberInput, InsertRow, HandOver, HandleReport,
     HandlerEnds, AckRegistration, ReadRows, ReplayRow, BackendRestart, proxyVars
<1> QED
  BY <1>2, <1>3, <1>4, <1>5, <1>6 DEF Next, ProxyStep

\* What the agent's task finishes has its completion.
LEMMA FinishedIs ==
  ASSUME TypeOK, AgentAccepts \/ AgentRejects
  PROVE  LET f == Head(handed).frame IN
         /\ handed # <<>> /\ f \in Frames /\ handed' = Tail(handed)
         /\ \/ /\ AgentAccepts
               /\ ToSet(taken') = ToSet(taken) \cup {f} /\ refused' = refused
               /\ completions' = completions \cup {Completion(Head(handed), "accepted")}
            \/ /\ AgentRejects
               /\ ToSet(taken') = ToSet(taken) /\ refused' = refused \cup {f}
               /\ completions' = completions \cup {Completion(Head(handed), "failed")}
<1> DEFINE f == Head(handed).frame
<1>1. taken \in Seq(Frames) /\ handed \in Seq(Commands) /\ handed # <<>>
  BY DEF TypeOK, ProxyTypeOK, Commands, AgentAccepts, AgentRejects
<1>5. Head(handed) \in Commands
  BY <1>1, HeadTailProperties
<1>2. f \in Frames
  BY <1>5 DEF Commands
<1>3. AgentAccepts => taken' = Append(taken, f)
  BY DEF AgentAccepts
<1>4. AgentAccepts => ToSet(taken') = ToSet(taken) \cup {f}
  <2> HIDE DEF f
  <2>1. ToSet(Append(taken, f)) = ToSet(taken) \cup {f}
    BY <1>1, <1>2, AppendHeld
  <2> QED
    BY <1>3, <2>1
<1>6. AgentAccepts => /\ handed' = Tail(handed) /\ refused' = refused
                      /\ completions' = completions \cup {Completion(Head(handed), "accepted")}
  BY DEF AgentAccepts
<1>7. AgentRejects => /\ handed' = Tail(handed) /\ taken' = taken /\ refused' = refused \cup {f}
                      /\ completions' = completions \cup {Completion(Head(handed), "failed")}
  BY DEF AgentRejects
<1> HIDE DEF f
<1>8. CASE AgentAccepts
  BY <1>1, <1>2, <1>4, <1>6, <1>8 DEF f
<1>9. CASE AgentRejects
  BY <1>1, <1>2, <1>7, <1>9 DEF f
<1> QED
  BY <1>8, <1>9

\* Every step keeps: what reports, completions and decided gate entries say of
\* an input, the agent has done.
LEMMA SettledStep ==
  ASSUME TypeOK, Settled, Next
  PROVE  Settled'
<1> DEFINE G == \A e \in ToSet(gate') : e.state \in Outcomes => e.id \in SettledIds'
           M(m) == IF m.kind = "ack" THEN \E f \in ToSet(taken') : f.seq = m.n
                                     ELSE m.n \in SettledIds'
           R == \A c \in Conns : \A m \in ToSet(reports'[c]) : M(m)
           K == \A k \in completions' :
                  IF k.outcome = "accepted" THEN k.frame \in ToSet(taken') ELSE k.frame \in refused'
<1>g. ToSet(taken) \subseteq ToSet(taken') /\ refused \subseteq refused' /\ SettledIds \subseteq SettledIds'
  BY DoneGrows DEF SettledIds, Done
<1>t. /\ gate \in Seq(Entries) /\ reports \in [Conns -> Seq(Reports)]
      /\ completions \subseteq [frame : Frames, on : Conns, outcome : Outcomes]
  BY DEF TypeOK, StoreTypeOK, NetTypeOK, ProxyTypeOK, Entries
<1>1. /\ gate' = gate => G
      /\ \A c \in Conns : \A m \in ToSet(reports[c]) : M(m)
      /\ completions' \subseteq completions => K
  BY <1>g DEF Settled
<1>2. /\ reports' = reports => R
      /\ (\A c \in Conns : ToSet(reports'[c]) \subseteq ToSet(reports[c])) => R
  BY <1>1
<1>3. G /\ R /\ K => Settled'
  BY DEF Settled
<1>4. ASSUME NEW b \in Browsers, HandleInput(b) PROVE G
  <2> DEFINE id == Head(webWire[b])
             e == [id |-> id, state |-> "in flight"]
  <2>1. webWire[b] \in Seq(Inputs) /\ webWire[b] # <<>>
    BY <1>4 DEF HandleInput, TypeOK, WebTypeOK
  <2>2. id \in Inputs /\ "in flight" \in GateStates
    BY <2>1, HeadTailProperties DEF GateStates
  <2>3. gate' = gate \/ gate' = Remember(id, "in flight")
    BY <1>4 DEF HandleInput, PassGate
  <2> HIDE DEF id
  <2>4. ToSet(Remember(id, "in flight")) \subseteq ToSet(gate) \cup {e}
    BY <1>t, <2>2, RememberIs
  <2>5. e.state \notin Outcomes
    BY DEF Outcomes
  <2> HIDE DEF e
  <2> QED
    BY <1>1, <1>g, <2>3, <2>4, <2>5 DEF Settled
<1>5. ASSUME NEW c \in Conns, HandleReport(c) PROVE G /\ R
  <2> DEFINE m == Head(reports[c])
  <2>1. /\ reports[c] # <<>> /\ IF m.kind = "ack" THEN DeleteRows(m.n) ELSE Settle(m.n, m.kind)
        /\ reports' = [reports EXCEPT ![c] = Tail(@)]
    BY <1>5 DEF HandleReport
  <2>2. /\ m.kind # "ack" => m.n \in Inputs /\ m.kind \in Outcomes
        /\ m \in ToSet(reports[c])
        /\ ToSet(Tail(reports[c])) \subseteq ToSet(reports[c])
    BY <2>1, ReportIs
  <2>3. m.kind # "ack" => m.n \in SettledIds
    BY <2>2 DEF Settled
  <2>4. R
    BY <1>t, <1>2, <2>1, <2>2
  <2> HIDE DEF m
  <2>5. m.kind = "ack" => G
    BY <1>1, <2>1 DEF DeleteRows
  <2>6. m.kind # "ack" => \A e \in ToSet(gate') : e \in ToSet(gate) \/ e.id = m.n
    BY <2>1, <2>2, SettleType
  <2>7. m.kind # "ack" => G
    BY <1>g, <2>3, <2>6 DEF Settled
  <2> QED
    BY <2>4, <2>5, <2>7
<1>6. ASSUME NEW c \in Conns, HandlerEnds(c) PROVE R
  BY <1>t, <1>2, <1>6, EmptyHeld DEF HandlerEnds
<1>7. ASSUME BackendRestart PROVE G /\ R
  BY <1>7, EmptyHeld DEF BackendRestart
<1>8. ASSUME ReportCompletion PROVE R /\ K
  <2>1. PICK k \in completions :
          /\ completions' = completions \ {k}
          /\ reports' = IF k.on = conn /\ stage[conn] # "closed"
                        THEN [reports EXCEPT ![conn] = @ \o Written(k)] ELSE reports
    BY <1>8 DEF ReportCompletion
  <2>2. /\ Written(k) \in Seq(Reports)
        /\ \A m \in ToSet(Written(k)) :
              \/ m.kind = k.outcome /\ m.n = k.frame.id
              \/ m.kind = "ack" /\ m.n = k.frame.seq /\ k.outcome = "accepted"
    BY <1>t, <2>1, WrittenIs
  <2>3. /\ k.outcome \in Outcomes
        /\ k.outcome = "accepted" => k.frame \in ToSet(taken)
        /\ k.outcome # "accepted" => k.frame \in refused
    BY <1>t, <2>1 DEF Settled
  <2>4. \A m \in ToSet(Written(k)) : M(m)
    <3>1. k.frame \in Done /\ k.frame.id \in SettledIds
      BY <2>3 DEF Done, SettledIds
    <3>2. k.outcome # "ack"
      BY <2>3 DEF Outcomes
    <3> QED
      BY <1>g, <2>2, <2>3, <3>1, <3>2
  <2> HIDE DEF M
  <2>5. \A d \in Conns : \A m \in ToSet(reports[d] \o Written(k)) : M(m)
    BY <1>t, <1>1, <2>2, <2>4, ConcatHeld
  <2>6. \A d \in Conns : reports'[d] \in {reports[d], reports[d] \o Written(k)}
    BY <1>t, <2>1
  <2>7. R
    BY <1>1, <2>5, <2>6
  <2> QED
    BY <1>1, <2>1, <2>7
<1>9. ASSUME DeliverFails PROVE R
  <2>1. /\ Pending # <<>> /\ refused' = refused \cup {NextInput}
        /\ reports' = IF stage[conn] = "closed" THEN reports
                      ELSE [reports EXCEPT ![conn] = @ \o Failure(NextInput)]
    BY <1>9 DEF DeliverFails, Pending
  <2>2. NextInput \in Frames
    BY <2>1, ReceivedIs DEF TypeOK, ProxyTypeOK, NetTypeOK
  <2>3. /\ Failure(NextInput) \in Seq(Reports)
        /\ \A m \in ToSet(Failure(NextInput)) : m.kind = "failed" /\ m.n = NextInput.id
    BY <2>2, FailureIs
  <2>4. \A m \in ToSet(Failure(NextInput)) : M(m)
    BY <2>1, <2>3 DEF SettledIds, Done
  <2> HIDE DEF M
  <2>5. \A d \in Conns : \A m \in ToSet(reports[d] \o Failure(NextInput)) : M(m)
    BY <1>t, <1>1, <2>3, <2>4, ConcatHeld
  <2>6. \A d \in Conns : reports'[d] \in {reports[d], reports[d] \o Failure(NextInput)}
    BY <1>t, <2>1
  <2> QED
    BY <1>1, <2>5, <2>6
<1>10. ASSUME AgentAccepts \/ AgentRejects PROVE K
  <2> DEFINE f == Head(handed).frame
  <2>1. \/ /\ f \in ToSet(taken')
           /\ completions' = completions \cup {Completion(Head(handed), "accepted")}
        \/ /\ f \in refused'
           /\ completions' = completions \cup {Completion(Head(handed), "failed")}
    BY <1>10, FinishedIs
  <2>2. \A k \in completions :
          IF k.outcome = "accepted" THEN k.frame \in ToSet(taken') ELSE k.frame \in refused'
    BY <1>g DEF Settled
  <2> QED
    BY <2>1, <2>2 DEF Completion
<1>11. ASSUME AgentStops PROVE K
  <2>1. \A k \in completions :
          IF k.outcome = "accepted" THEN k.frame \in ToSet(taken') ELSE k.frame \in refused'
    BY <1>g DEF Settled
  <2>2. \A i \in DOMAIN handed : /\ handed[i].frame \in refused'
                                 /\ Completion(handed[i], "failed").outcome = "failed"
                                 /\ Completion(handed[i], "failed").frame = handed[i].frame
    BY <1>11 DEF AgentStops, Completion
  <2>3. \A k \in completions' : k \in completions
          \/ \E i \in DOMAIN handed : k = Completion(handed[i], "failed")
    BY <1>11 DEF AgentStops
  <2> QED
    BY <2>1, <2>2, <2>3
<1> HIDE DEF G, R, K
<1>12. ASSUME BrowserStep PROVE G /\ R /\ K
  BY <1>1, <1>2, <1>12 DEF BrowserStep, Type, WebDrop, WebConnect, proxyVars, netVars, storeVars
<1>13. ASSUME NEW b \in Browsers, DropBacked(b) \/ NumberInput(b) \/ InsertRow(b) \/ HandOver(b) PROVE G /\ R /\ K
  BY <1>1, <1>2, <1>13 DEF DropBacked, NumberInput, InsertRow, HandOver, proxyVars, netVars
<1>14. ASSUME AckRegistration \/ ReadRows \/ ReplayRow PROVE G /\ R /\ K
  BY <1>1, <1>2, <1>14 DEF AckRegistration, ReadRows, ReplayRow, proxyVars, storeVars
<1>15. ASSUME Connect \/ Disconnect \/ DeliverInput \/ Relaunch PROVE G /\ R /\ K
  BY <1>1, <1>2, <1>15 DEF Connect, Disconnect, DeliverInput, Relaunch, storeVars, netVars
<1>16. ASSUME NEW b \in Browsers, HandleInput(b) PROVE R /\ K
  BY <1>1, <1>2, <1>16 DEF HandleInput, proxyVars, netVars
<1>17. ASSUME NEW c \in Conns, HandleReport(c) PROVE K
  BY <1>1, <1>17 DEF HandleReport, proxyVars
<1>18. ASSUME NEW c \in Conns, HandlerEnds(c) PROVE G /\ K
  BY <1>1, <1>18 DEF HandlerEnds, proxyVars, storeVars
<1>19. ASSUME BackendRestart PROVE K
  BY <1>1, <1>19 DEF BackendRestart, proxyVars
<1>20. ASSUME ReportCompletion \/ DeliverFails PROVE G
  BY <1>1, <1>20 DEF ReportCompletion, DeliverFails, storeVars
<1>21. ASSUME DeliverFails PROVE K
  BY <1>1, <1>21 DEF DeliverFails
<1>22. ASSUME AgentAccepts \/ AgentRejects \/ AgentStops PROVE G /\ R
  BY <1>1, <1>2, <1>22 DEF AgentAccepts, AgentRejects, AgentStops, storeVars, netVars
<1>23. ASSUME BackendStep PROVE G /\ R /\ K
  BY <1>4, <1>5, <1>6, <1>7, <1>13, <1>14, <1>16, <1>17, <1>18, <1>19, <1>23 DEF BackendStep
<1>24. ASSUME ProxyStep PROVE G /\ R /\ K
  BY <1>8, <1>9, <1>10, <1>11, <1>15, <1>20, <1>21, <1>22, <1>24 DEF ProxyStep
<1> QED
  BY <1>3, <1>12, <1>23, <1>24 DEF Next

\* Types hold of every reachable state, and no report or completion is of an
\* input the agent has not decided.
THEOREM InputInvariant == Spec => [](TypeOK /\ Settled)
<1>1. Init => TypeOK /\ Settled
  <2> SUFFICES ASSUME Init PROVE TypeOK /\ Settled
    OBVIOUS
  <2>1. /\ <<>> \in Seq(Inputs) /\ <<>> \in Seq([id : Inputs, state : GateStates])
        /\ <<>> \in Seq(Frames) /\ <<>> \in Seq(Reports) /\ <<>> \in Seq([frame : Frames, on : Conns])
    OBVIOUS
  <2>2. 0 \in 0..MaxInputs /\ 0 \in 0..MaxConns /\ 0 \in Nat
    BY InputBounds
  <2>3. WebTypeOK
    BY <2>1, <2>2 DEF Init, WebTypeOK
  <2>4. StoreTypeOK
    BY <2>1, <2>2 DEF Init, StoreTypeOK
  <2>5. NetTypeOK
    BY <2>1, <2>2 DEF Init, NetTypeOK, Stages
  <2>6. ProxyTypeOK
    BY <2>1, <2>2 DEF Init, ProxyTypeOK
  <2>7. Settled
    BY EmptyHeld DEF Init, Settled
  <2> QED
    BY <2>3, <2>4, <2>5, <2>6, <2>7 DEF TypeOK
<1>2. TypeOK /\ Settled /\ [Next]_vars => TypeOK' /\ Settled'
  <2>1. TypeOK /\ Settled /\ Next => TypeOK' /\ Settled'
    BY WebStepType, StoreStepType, NetStepType, ProxyStepType, SettledStep DEF TypeOK
  <2>2. TypeOK /\ Settled /\ UNCHANGED vars => TypeOK' /\ Settled'
    <3> SUFFICES ASSUME TypeOK, Settled, UNCHANGED vars PROVE TypeOK' /\ Settled'
      OBVIOUS
    <3>1. TypeOK'
      BY DEF vars, webVars, storeVars, netVars, proxyVars, TypeOK, WebTypeOK, StoreTypeOK,
         NetTypeOK, ProxyTypeOK
    <3>2. Settled'
      BY DEF vars, webVars, storeVars, netVars, proxyVars, Settled, SettledIds, Done
    <3> QED
      BY <3>1, <3>2
  <2> QED
    BY <2>1, <2>2
<1> QED
  BY <1>1, <1>2, PTL DEF Spec

\* Every variable stays within its type, whatever restarts and resends come.
THEOREM InputTypeOK == Spec => []TypeOK
BY InputInvariant, PTL

\* Every input typed is in its outbox, settled or shown as failed.
Accounted ==
    \A id \in 1..typed :
        (\E b \in Browsers : id \in ToSet(outbox[b])) \/ id \in SettledIds \cup evicted

\* No step loses sight of an input: it is under way, stored or has an outcome.
LEMMA AccountedStep ==
  ASSUME TypeOK, Settled, Accounted, Next
  PROVE  Accounted'
<1>g. SettledIds \subseteq SettledIds'
  BY DoneGrows DEF SettledIds, Done
<1>t. typed \in Nat /\ outbox \in [Browsers -> Seq(Inputs)]
  BY InputBounds DEF TypeOK, WebTypeOK
<1>1. UNCHANGED <<typed, outbox, evicted>> => Accounted'
  BY <1>g DEF Accounted
<1>2. ASSUME NEW id, \A b \in Browsers : ToSet(outbox[b]) \subseteq ToSet(outbox'[b]) \cup {id},
             id \in SettledIds, typed' = typed, evicted' = evicted
      PROVE  Accounted'
  BY <1>g, <1>2 DEF Accounted
<1>3. ASSUME NEW b \in Browsers, Type(b) PROVE Accounted'
  <2>1. typed + 1 \in Inputs /\ typed' = typed + 1
    BY <1>t, <1>3, InputBounds DEF Type, Inputs, TypeOK, WebTypeOK
  <2>2. ToSet(outbox[b]) \cup {typed + 1} \subseteq
          ToSet(outbox'[b]) \cup (IF Len(outbox[b]) < OutboxCap THEN {} ELSE {Head(outbox[b])})
    <3>1. outbox'[b] = Recorded(outbox[b], typed + 1)
      BY <1>t, <1>3 DEF Type
    <3> QED
      BY <1>t, <2>1, <3>1, RecordedIs
  <2>3. ToSet(outbox[b]) \cup {typed + 1} \subseteq ToSet(outbox'[b]) \cup evicted'
    BY <1>3, <2>2 DEF Type
  <2>4. \A a \in Browsers : a # b => outbox'[a] = outbox[a]
    BY <1>t, <1>3 DEF Type
  <2>5. evicted \subseteq evicted'
    BY <1>3 DEF Type
  <2>6. ASSUME NEW id \in 1..typed'
        PROVE  (\E a \in Browsers : id \in ToSet(outbox'[a])) \/ id \in SettledIds' \cup evicted'
    <3>1. CASE id = typed + 1
      BY <2>3, <3>1
    <3>2. CASE id # typed + 1
      <4>1. id \in 1..typed
        BY <1>t, <2>1, <3>2
      <4> QED
        BY <1>g, <2>3, <2>4, <2>5, <4>1 DEF Accounted
    <3> QED
      BY <3>1, <3>2
  <2> QED
    BY <2>6 DEF Accounted
<1>4. ASSUME NEW b \in Browsers, HandleInput(b) PROVE Accounted'
  <2> DEFINE id == Head(webWire[b])
  <2>1. typed' = typed /\ evicted' = evicted /\ PassGate(b, id)
    BY <1>4 DEF HandleInput
  <2>2. \/ outbox' = outbox
        \/ /\ outbox' = [outbox EXCEPT ![b] = Resolved(@, id)]
           /\ \E e \in GateEntries : e.id = id /\ e.state \in Outcomes
    BY <2>1 DEF PassGate, AnswersDuplicate
  <2> HIDE DEF id
  <2>3. (\E e \in GateEntries : e.id = id /\ e.state \in Outcomes) => id \in SettledIds
    BY DEF Settled, GateEntries, ToSet
  <2>4. ToSet(outbox[b]) \subseteq ToSet(Resolved(outbox[b], id)) \cup {id}
    BY <1>t, ResolvedIs
  <2> QED
    BY <1>1, <1>2, <1>t, <2>1, <2>2, <2>3, <2>4
<1>5. ASSUME NEW c \in Conns, HandleReport(c) PROVE Accounted'
  <2> DEFINE m == Head(reports[c])
  <2>1. /\ reports[c] # <<>> /\ IF m.kind = "ack" THEN DeleteRows(m.n) ELSE Settle(m.n, m.kind)
        /\ typed' = typed /\ evicted' = evicted
    BY <1>5 DEF HandleReport
  <2>2. m \in ToSet(reports[c])
    BY <2>1, ReportIs
  <2>3. m.kind # "ack" => m.n \in SettledIds
    BY <2>2 DEF Settled
  <2> HIDE DEF m
  <2>4. CASE m.kind = "ack"
    BY <1>1, <2>1, <2>4 DEF DeleteRows
  <2>5. CASE m.kind # "ack"
    <3>1. outbox' = [b \in Browsers |-> IF webUp[b] THEN Resolved(outbox[b], m.n) ELSE outbox[b]]
      BY <2>1, <2>5 DEF Settle
    <3>2. \A b \in Browsers : ToSet(outbox[b]) \subseteq ToSet(outbox'[b]) \cup {m.n}
      BY <1>t, <3>1, ResolvedIs
    <3> QED
      BY <1>2, <2>1, <2>3, <2>5, <3>2
  <2> QED
    BY <2>4, <2>5
<1>6. ASSUME NEW b \in Browsers, WebDrop(b) \/ WebConnect(b) PROVE Accounted'
  BY <1>1, <1>6 DEF WebDrop, WebConnect
<1>7. ASSUME NEW b \in Browsers, DropBacked(b) \/ NumberInput(b) \/ InsertRow(b) \/ HandOver(b) PROVE Accounted'
  BY <1>1, <1>7 DEF DropBacked, NumberInput, InsertRow, HandOver, webVars
<1>8. ASSUME NEW c \in Conns, HandlerEnds(c) PROVE Accounted'
  BY <1>1, <1>8 DEF HandlerEnds, webVars
<1>9. CASE AckRegistration \/ ReadRows \/ ReplayRow \/ BackendRestart
  BY <1>1, <1>9 DEF AckRegistration, ReadRows, ReplayRow, BackendRestart, webVars
<1>10. CASE ProxyStep
  BY <1>1, <1>10 DEF ProxyStep, Connect, Disconnect, DeliverInput, AgentAccepts, AgentRejects,
     ReportCompletion, AgentStops, DeliverFails, Relaunch, webVars
<1> QED
  BY <1>3, <1>4, <1>5, <1>6, <1>7, <1>8, <1>9, <1>10 DEF Next, BrowserStep, BackendStep

\* Whatever is lost, resent or restarted, an input that left its outbox was
\* taken, was refused, or is shown as failed.
THEOREM NoInputVanishes == Spec => []NothingVanishes
<1>1. Init => Accounted
  <2> SUFFICES ASSUME Init, NEW id \in 1..typed PROVE FALSE
    BY DEF Accounted
  <2>1. typed = 0
    BY DEF Init
  <2> QED
    BY <2>1
<1>2. TypeOK /\ Settled /\ Accounted /\ [Next]_vars => Accounted'
  BY AccountedStep DEF vars, webVars, proxyVars, Accounted, SettledIds, Done
<1>3. Accounted => NothingVanishes
  <2> SUFFICES ASSUME Accounted, NEW id \in 1..typed
               PROVE  \/ \E b \in Browsers : \E i \in DOMAIN outbox[b] : outbox[b][i] = id
                      \/ id \in TakenInputs \cup {f.id : f \in refused} \cup evicted
    BY DEF NothingVanishes
  <2>1. ASSUME id \in SettledIds PROVE id \in TakenInputs \cup {f.id : f \in refused}
    BY <2>1 DEF SettledIds, Done, TakenInputs, TakenFrames, ToSet
  <2>2. ASSUME NEW b \in Browsers, id \in ToSet(outbox[b])
        PROVE  \E i \in DOMAIN outbox[b] : outbox[b][i] = id
    BY <2>2 DEF ToSet
  <2> QED
    BY <2>1, <2>2 DEF Accounted
<1> QED
  BY <1>1, <1>2, <1>3, InputInvariant, PTL DEF Spec

-----------------------------------------------------------------------------
(* Queues without a gap                                                    *)

\* Nothing can be missing from an empty queue.
LEMMA NoGapEmpty ==
  ASSUME NEW B, NEW N
  PROVE  NoGap(<<>>, B, N)
BY DEF NoGap

\* An element may join at the end if everything with a lower number is there.
LEMMA NoGapAppend ==
  ASSUME NEW q \in Seq(Frames), NEW x \in Frames, NEW B, NEW N, NoGap(q, B, N),
         \A g \in N : g.seq <= x.seq => g \in B \cup ToSet(q) \cup {x}
  PROVE  NoGap(Append(q, x), B, N)
<1> DEFINE p == Append(q, x)
           n == Len(q)
<1>1. /\ n \in Nat /\ DOMAIN q = 1..n /\ p \in Seq(Frames) /\ Len(p) = n + 1
      /\ DOMAIN p = 1..n + 1 /\ p[n + 1] = x /\ \A i \in 1..n : p[i] = q[i]
  BY LenProperties, AppendProperties
<1>2. \A g \in N : g.seq <= x.seq => g \in B \/ \E j \in 1..n + 1 : p[j] = g
  <2> SUFFICES ASSUME NEW g \in N, g.seq <= x.seq, g \notin B
               PROVE  \E j \in 1..n + 1 : p[j] = g
    OBVIOUS
  <2>1. g = x \/ g \in ToSet(q)
    OBVIOUS
  <2>2. g \in ToSet(q) => \E j \in 1..n : q[j] = g
    BY <1>1 DEF ToSet
  <2> HIDE DEF p, n
  <2>3. n + 1 \in 1..n + 1 /\ 1..n \subseteq 1..n + 1
    BY <1>1
  <2> QED
    BY <1>1, <2>1, <2>2, <2>3
<1> HIDE DEF p, n
<1>3. ASSUME NEW i \in 1..n + 1, NEW g \in N, g.seq <= p[i].seq
      PROVE  g \in B \/ \E j \in 1..i : p[j] = g
  <2>1. CASE i = n + 1
    BY <1>1, <1>2, <1>3, <2>1
  <2>2. CASE i # n + 1
    <3>1. i \in 1..n /\ p[i] = q[i] /\ \A j \in 1..i : j \in 1..n
      BY <1>1, <2>2
    <3>2. g \in B \/ \E j \in 1..i : q[j] = g
      BY <1>1, <1>3, <3>1 DEF NoGap
    <3> QED
      BY <1>1, <3>1, <3>2
  <2> QED
    BY <2>1, <2>2
<1> QED
  BY <1>1, <1>3 DEF NoGap, p

\* When the head leaves, everything with a lower number has left before.
LEMMA NoGapTail ==
  ASSUME NEW q \in Seq(Frames), q # <<>>, NEW B, NEW N, NoGap(q, B, N)
  PROVE  /\ NoGap(Tail(q), B \cup {Head(q)}, N)
         /\ \A g \in N : g.seq <= Head(q).seq => g \in B \cup {Head(q)}
<1> DEFINE p == Tail(q)
           n == Len(q)
<1>1. n \in Nat \ {0} /\ DOMAIN q = 1..n /\ Head(q) = q[1]
  BY LenProperties, EmptySeq, HeadTailProperties
<1>2. p \in Seq(Frames) /\ Len(p) = n - 1 /\ \A i \in 1..n - 1 : p[i] = q[i + 1]
  BY HeadTailProperties
<1>3. DOMAIN p = 1..n - 1
  BY <1>2, LenProperties
<1> HIDE DEF p, n
<1>4. \A g \in N : g.seq <= q[1].seq => g \in B \cup {q[1]}
  <2> SUFFICES ASSUME NEW g \in N, g.seq <= q[1].seq PROVE g \in B \cup {q[1]}
    OBVIOUS
  <2>1. 1 \in DOMAIN q
    BY <1>1
  <2>2. g \in B \/ \E j \in 1..1 : q[j] = g
    BY <2>1 DEF NoGap
  <2> QED
    BY <2>2
<1>5. ASSUME NEW i \in 1..n - 1, NEW g \in N, g.seq <= p[i].seq
      PROVE  g \in B \cup {q[1]} \/ \E j \in 1..i : p[j] = g
  <2>1. i + 1 \in 1..n /\ p[i] = q[i + 1]
    BY <1>1, <1>2
  <2>2. g \in B \/ \E j \in 1..i + 1 : q[j] = g
    BY <1>1, <1>5, <2>1 DEF NoGap
  <2>3. ASSUME NEW j \in 1..i + 1, q[j] = g, j # 1
        PROVE  \E k \in 1..i : p[k] = g
    <3>1. j - 1 \in 1..i /\ j - 1 \in 1..n - 1 /\ j - 1 + 1 = j
      BY <1>1, <2>3
    <3>2. p[j - 1] = g
      BY <1>2, <2>3, <3>1
    <3> QED
      BY <3>1, <3>2
  <2> QED
    BY <2>2, <2>3
<1> QED
  BY <1>1, <1>3, <1>4, <1>5 DEF NoGap, p

\* Cutting a queue off leaves no gap in the rest.
LEMMA NoGapPrefix ==
  ASSUME NEW q \in Seq(Frames), NEW p \in Seq(Frames), NEW n \in 0..Len(p),
         NEW B, NEW N, NoGap(q \o p, B, N)
  PROVE  /\ NoGap(q \o SubSeq(p, 1, n), B, N)
         /\ q \o SubSeq(p, 1, n) \in Seq(Frames)
         /\ ToSet(q \o SubSeq(p, 1, n)) \subseteq ToSet(q \o p)
<1> DEFINE s == q \o p
           r == SubSeq(p, 1, n)
           t == q \o r
<1>1. Len(q) \in Nat /\ Len(p) \in Nat /\ \A i \in 1..Len(p) : p[i] \in Frames
  BY LenProperties, ElementOfSeq
<1>2. r \in Seq(Frames) /\ Len(r) = n /\ \A i \in 1..n : r[i] = p[i]
  <2>1. n \in Nat /\ 1 \in 1..Len(p) + 1
    BY <1>1
  <2>2. \A i \in 1..n : p[i] \in Frames
    BY <1>1
  <2>3. /\ r \in Seq(Frames)
        /\ Len(r) = IF 1 <= n THEN n - 1 + 1 ELSE 0
        /\ \A i \in 1..(n - 1 + 1) : r[i] = p[1 + i - 1]
    BY <1>1, <2>1, <2>2, SubSeqProperties
  <2> HIDE DEF r
  <2> QED
    BY <2>1, <2>3
<1> HIDE DEF r
<1>3. /\ s \in Seq(Frames) /\ Len(s) = Len(q) + Len(p)
      /\ \A i \in 1..Len(q) + Len(p) : s[i] = IF i <= Len(q) THEN q[i] ELSE p[i - Len(q)]
  BY ConcatProperties
<1>4. /\ t \in Seq(Frames) /\ Len(t) = Len(q) + n
      /\ \A i \in 1..Len(q) + Len(r) : t[i] = IF i <= Len(q) THEN q[i] ELSE r[i - Len(q)]
  BY <1>2, ConcatProperties
<1>5. DOMAIN s = 1..Len(q) + Len(p) /\ DOMAIN t = 1..Len(q) + n
  BY <1>3, <1>4, LenProperties
<1> HIDE DEF s, t
<1>6. ASSUME NEW i \in 1..Len(q) + n PROVE t[i] = s[i] /\ i \in 1..Len(q) + Len(p)
  <2>1. CASE i <= Len(q)
    BY <1>1, <1>2, <1>3, <1>4, <2>1
  <2>2. CASE ~(i <= Len(q))
    <3>1. i - Len(q) \in 1..n
      BY <1>1, <2>2
    <3> QED
      BY <1>1, <1>2, <1>3, <1>4, <2>2, <3>1
  <2> QED
    BY <2>1, <2>2
<1>7. NoGap(t, B, N)
  <2> SUFFICES ASSUME NEW i \in 1..Len(q) + n, NEW g \in N, g.seq <= t[i].seq
               PROVE  g \in B \/ \E j \in 1..i : t[j] = g
    BY <1>5 DEF NoGap
  <2>1. g \in B \/ \E j \in 1..i : s[j] = g
    BY <1>5, <1>6 DEF NoGap, s
  <2>2. \A j \in 1..i : j \in 1..Len(q) + n
    BY <1>1
  <2> QED
    BY <1>6, <2>1, <2>2
<1>8. ToSet(t) \subseteq ToSet(s)
  BY <1>5, <1>6 DEF ToSet
<1> QED
  BY <1>4, <1>7, <1>8 DEF s, t, r

\* More may have left, and what joins N may come after all of the queue.
LEMMA NoGapGrows ==
  ASSUME NEW q \in Seq(Frames), NEW B, NEW N, NEW A, NEW M, NoGap(q, B, N), B \subseteq A,
         \A g \in M : g \in N \/ \A x \in ToSet(q) : ~(g.seq <= x.seq)
  PROVE  NoGap(q, A, M)
BY DEF NoGap, ToSet

\* The frames of a queue of commands.
LEMMA CarriedIs ==
  ASSUME NEW h \in Seq(Commands)
  PROVE  /\ Carried(h) \in Seq(Frames) /\ Len(Carried(h)) = Len(h)
         /\ \A i \in 1..Len(h) : Carried(h)[i] = h[i].frame
<1>1. Len(h) \in Nat /\ DOMAIN h = 1..Len(h) /\ \A i \in 1..Len(h) : h[i] \in Commands
  BY LenProperties, ElementOfSeq
<1>2. \A i \in 1..Len(h) : h[i].frame \in Frames
  BY <1>1 DEF Commands
<1>3. Carried(h) = [i \in 1..Len(h) |-> h[i].frame]
  BY <1>1 DEF Carried
<1>4. Carried(h) \in Seq(Frames) /\ DOMAIN Carried(h) = 1..Len(h)
  BY <1>1, <1>2, <1>3, IsASeq
<1>5. Len(Carried(h)) = Len(h)
  BY <1>1, <1>4, LenProperties
<1> QED
  BY <1>3, <1>4, <1>5

\* A command handed over is carried last.
LEMMA CarriedAppend ==
  ASSUME NEW h \in Seq(Commands), NEW x \in Commands
  PROVE  Carried(Append(h, x)) = Append(Carried(h), x.frame)
<1> DEFINE p == Append(h, x)
           a == Carried(p)
           n == Len(h)
           f == x.frame
<1>1. n \in Nat /\ p \in Seq(Commands) /\ Len(p) = n + 1 /\ p[n + 1] = x /\ \A i \in 1..n : p[i] = h[i]
  BY LenProperties, AppendProperties
<1>2. a \in Seq(Frames) /\ Len(a) = Len(p) /\ \A i \in 1..Len(p) : a[i] = p[i].frame
  BY <1>1, CarriedIs
<1>3. /\ Carried(h) \in Seq(Frames) /\ Len(Carried(h)) = n
      /\ \A i \in 1..n : Carried(h)[i] = h[i].frame
  BY CarriedIs
<1>4. f \in Frames
  BY DEF Commands
<1> DEFINE old == Carried(h)
           b == Append(old, f)
<1> HIDE DEF f, old
<1>5. /\ b \in Seq(Frames) /\ Len(b) = n + 1 /\ b[n + 1] = f /\ \A i \in 1..n : b[i] = old[i]
  BY <1>3, <1>4, AppendProperties DEF old
<1> HIDE DEF p, a, b, n
<1>6. \A i \in 1..n + 1 : a[i] = b[i]
  <2> SUFFICES ASSUME NEW i \in 1..n + 1 PROVE a[i] = b[i]
    OBVIOUS
  <2>1. CASE i = n + 1
    BY <1>1, <1>2, <1>5, <2>1 DEF f
  <2>2. CASE i # n + 1
    <3>1. i \in 1..n
      BY <1>1, <2>2
    <3> QED
      BY <1>1, <1>2, <1>3, <1>5, <3>1 DEF old
  <2> QED
    BY <2>1, <2>2
<1>7. a = b
  BY <1>1, <1>2, <1>5, <1>6, SeqEqual
<1> QED
  BY <1>7 DEF a, b, p, old, f

\* A command taken was carried first.
LEMMA CarriedTail ==
  ASSUME NEW h \in Seq(Commands), h # <<>>
  PROVE  /\ Carried(h) # <<>> /\ Head(Carried(h)) = Head(h).frame
         /\ Carried(Tail(h)) = Tail(Carried(h))
<1> DEFINE t == Tail(h)
           a == Carried(t)
           c == Carried(h)
           b == Tail(c)
           n == Len(h)
<1>1. n \in Nat \ {0} /\ Head(h) = h[1] /\ t \in Seq(Commands) /\ Len(t) = n - 1
      /\ \A i \in 1..n - 1 : t[i] = h[i + 1]
  <2>1. Len(h) \in Nat \ {0} /\ Head(h) = h[1] /\ Tail(h) \in Seq(Commands)
        /\ Len(Tail(h)) = Len(h) - 1 /\ \A i \in 1..Len(h) - 1 : Tail(h)[i] = h[i + 1]
    BY LenProperties, EmptySeq, HeadTailProperties
  <2> QED
    BY <2>1
<1>2. c \in Seq(Frames) /\ Len(c) = n /\ \A i \in 1..n : c[i] = h[i].frame
  BY CarriedIs
<1>3. a \in Seq(Frames) /\ Len(a) = Len(t) /\ \A i \in 1..Len(t) : a[i] = t[i].frame
  <2> HIDE DEF t
  <2> QED
    BY <1>1, CarriedIs
<1> HIDE DEF c
<1>4. c # <<>>
  BY <1>1, <1>2, EmptySeq
<1>5. /\ Head(c) = c[1] /\ b \in Seq(Frames) /\ Len(b) = n - 1
      /\ \A i \in 1..n - 1 : b[i] = c[i + 1]
  BY <1>2, <1>4, HeadTailProperties
<1> HIDE DEF a, b, n, t
<1>6. 1 \in 1..n /\ Head(c) = Head(h).frame
  BY <1>1, <1>2, <1>5
<1>7. \A i \in 1..n - 1 : a[i] = b[i]
  <2> SUFFICES ASSUME NEW i \in 1..n - 1 PROVE a[i] = b[i]
    OBVIOUS
  <2>1. i + 1 \in 1..n
    BY <1>1
  <2> QED
    BY <1>1, <1>2, <1>3, <1>5, <2>1
<1>8. a = b
  BY <1>1, <1>3, <1>5, <1>7, SeqEqual
<1> QED
  BY <1>4, <1>6, <1>8 DEF a, b, c, t

-----------------------------------------------------------------------------
(* The order of the frames                                                 *)

\* The types the order of inputs is about.
LEMMA OrderTypes ==
  ASSUME TypeOK
  PROVE  /\ numbered \subseteq Frames /\ rows \subseteq Frames /\ toReplay \subseteq Frames
         /\ Done \subseteq Frames /\ taken \in Seq(Frames) /\ refused \subseteq Frames
         /\ inputSeq \in Nat /\ conn \in 0..MaxConns /\ stage \in [Conns -> Stages]
         /\ enqueuing \in [Browsers -> SUBSET Frames] /\ gated \in [Browsers -> SUBSET Inputs]
         /\ numbering \in [Browsers -> SUBSET Frames]
         /\ handed \in Seq(Commands) /\ Carried(handed) \in Seq(Frames)
         /\ inbox \in Seq(Frames) /\ wire \in Seq(Frames) /\ Pending \in Seq(Frames)
         /\ conn # 0 => conn \in Conns
<1>1. handed \in Seq(Commands) /\ inbox \in Seq(Frames) /\ wire \in Seq(Frames)
  BY DEF TypeOK, ProxyTypeOK, NetTypeOK, Commands
<1>2. Carried(handed) \in Seq(Frames) /\ Pending \in Seq(Frames)
  BY <1>1, CarriedIs, ConcatProperties DEF Pending
<1>3. conn \in 0..MaxConns /\ (conn # 0 => conn \in Conns)
  BY InputBounds DEF TypeOK, NetTypeOK, Conns
<1> QED
  BY <1>1, <1>2, <1>3, SettledAreInputs DEF TypeOK, StoreTypeOK, NetTypeOK, ProxyTypeOK

\* Steps that move no frame keep the order.
LEMMA SameOrder ==
  ASSUME OrderInv, OneEach',
         UNCHANGED <<numbered, inputSeq, rows, taken, refused, handed, inbox, wire, accidents>>,
         toReplay' \in {toReplay, {}}, \A b \in Browsers : enqueuing'[b] \subseteq enqueuing[b],
         \A b \in Browsers : numbering'[b] \subseteq numbering[b],
         conn' # 0 /\ stage'[conn'] = "serving" =>
            /\ conn # 0 /\ stage[conn] = "serving" /\ toReplay' = toReplay
            /\ \A b \in Browsers : enqueuing'[b] = enqueuing[b]
  PROVE  OrderInv'
<1>1. UNCHANGED <<Done, Pending, Sent, Clean>>
  BY DEF Done, Pending, Sent, Clean
<1>2. Known'
  BY <1>1 DEF OrderInv, Known
<1>3. ASSUME Clean PROVE Numbering' /\ RowsKept' /\ Gapless'
  <2>1. Numbering /\ RowsKept /\ Gapless
    BY <1>3 DEF OrderInv
  <2>2. RowsKept' /\ TakenInOrder' /\ HandedInOrder' /\ PendingInOrder'
    BY <1>1, <2>1 DEF RowsKept, Gapless, TakenInOrder, HandedInOrder, PendingInOrder
  <2>3. ReplayInOrder'
    BY <1>1, <2>1 DEF Gapless, ReplayInOrder
  <2>4. ServesAll'
    BY <1>1, <2>1 DEF Gapless, ServesAll
  <2>5. Numbering'
    BY <2>1 DEF Numbering
  <2>6. NumberedAhead'
    BY <1>1, <2>1 DEF Gapless, NumberedAhead
  <2> QED
    BY <2>2, <2>3, <2>4, <2>5, <2>6 DEF Gapless
<1> QED
  BY <1>1, <1>2, <1>3 DEF OrderInv

\* An input gets a number above all others; one that is numbered unsafely is an
\* accident.
LEMMA NumberOrder ==
  ASSUME TypeOK, OrderInv, NEW b \in Browsers, NumberInput(b)
  PROVE  OrderInv'
<1>t. /\ numbered \subseteq Frames /\ inputSeq \in Nat /\ rows \subseteq Frames
      /\ enqueuing \in [Browsers -> SUBSET Frames] /\ gated \in [Browsers -> SUBSET Inputs]
      /\ numbering \in [Browsers -> SUBSET Frames]
  BY OrderTypes
<1>1. /\ UNCHANGED <<taken, refused, handed, inbox, wire, toReplay, conn, stage, rows>>
      /\ gated' = [gated EXCEPT ![b] = {}]
  BY DEF NumberInput, netVars, proxyVars
<1>2. UNCHANGED <<Done, Pending, Sent, Carried(handed)>>
  BY <1>1 DEF Done, Pending, Sent
<1>3. PICK id \in gated[b] :
        \/ ~HasRow(id) /\ Allocate(b, id) /\ UNCHANGED accidents
        \/ NumberUnsafely(b, id) /\ Accident("database")
  BY DEF NumberInput
<1>4. enqueuing[b] = {} /\ numbering[b] = {}
  BY <1>3 DEF OrderInv, OneEach
<1>5. \/ \E f : Numbers(b, f)
      \/ numbering' = numbering /\ \E f : Enqueue(b, f)
  BY <1>3 DEF Allocate, NumberUnsafely
<1>6. ASSUME NEW f, Numbers(b, f) PROVE Known' /\ OneEach'
  <2>1. /\ numbering' = [numbering EXCEPT ![b] = {f}]
        /\ UNCHANGED <<enqueuing, numbered>>
    BY <1>6 DEF Numbers
  <2>2. Known'
    BY <1>1, <1>2, <2>1 DEF OrderInv, Known
  <2>3. OneEach'
    BY <1>t, <1>1, <1>4, <2>1 DEF OrderInv, OneEach
  <2> QED
    BY <2>2, <2>3
<1>7. ASSUME numbering' = numbering, NEW f, Enqueue(b, f) PROVE Known' /\ OneEach'
  <2>1. numbered' = numbered \cup {f} /\ enqueuing' = [enqueuing EXCEPT ![b] = {f}]
    BY <1>7 DEF Enqueue
  <2>2. \A a \in Browsers : enqueuing'[a] \subseteq numbered'
    BY <1>t, <2>1 DEF OrderInv, Known
  <2>3. Known'
    BY <1>1, <1>2, <2>1, <2>2 DEF OrderInv, Known
  <2>4. OneEach'
    BY <1>t, <1>1, <1>4, <1>7, <2>1 DEF OrderInv, OneEach
  <2> QED
    BY <2>3, <2>4
<1>8. ASSUME Clean' PROVE Numbering' /\ Gapless' /\ RowsKept'
  <2> DEFINE g == [seq |-> inputSeq + 1, id |-> id]
  <2>1. ~Accident("database")
    BY <1>8 DEF Accident, Clean
  <2>2. accidents' = accidents /\ inputSeq' = inputSeq + 1 /\ Numbers(b, g) /\ g.seq = inputSeq + 1
    BY <1>3, <2>1 DEF Allocate
  <2>3. Numbering /\ Gapless /\ RowsKept
    BY <1>8, <2>2 DEF OrderInv, Clean
  <2> HIDE DEF g
  <2>4. numbering' = [numbering EXCEPT ![b] = {g}] /\ UNCHANGED <<enqueuing, numbered>>
    BY <2>2 DEF Numbers
  <2>5. \A a \in Browsers : numbering'[a] = IF a = b THEN {g} ELSE numbering[a]
    BY <1>t, <2>4
  <2>6. Numbering'
    <3>1. \A n \in 1..inputSeq : n \in 1..inputSeq' /\ n # g.seq
      BY <1>t, <2>2
    <3>2. \A x \in numbered : x.seq \in 1..inputSeq
      BY <2>3 DEF Numbering
    <3>3. g.seq \in 1..inputSeq'
      BY <1>t, <2>2
    <3>4. \A a \in Browsers : \A x \in numbering'[a] :
             x.seq \in 1..inputSeq' /\ \A y \in numbered : x.seq # y.seq
      BY <2>3, <2>5, <3>1, <3>2, <3>3 DEF Numbering
    <3>5. ASSUME NEW a \in Browsers, NEW d \in Browsers, NEW x \in numbering'[a],
                 NEW y \in numbering'[d], x.seq = y.seq
          PROVE  a = d
      <4>1. CASE a = b /\ d = b
        BY <4>1
      <4>2. CASE a = b /\ d # b
        BY <2>3, <2>5, <3>1, <3>5, <4>2 DEF Numbering
      <4>3. CASE a # b /\ d = b
        BY <2>3, <2>5, <3>1, <3>5, <4>3 DEF Numbering
      <4>4. CASE a # b /\ d # b
        BY <2>3, <2>5, <3>5, <4>4 DEF Numbering
      <4> QED
        BY <4>1, <4>2, <4>3, <4>4
    <3>6. \A x, y \in numbered : x.seq = y.seq => x = y
      BY <2>3 DEF Numbering
    <3> QED
      BY <2>4, <3>1, <3>2, <3>4, <3>5, <3>6 DEF Numbering
  <2>7. RowsKept' /\ TakenInOrder' /\ HandedInOrder' /\ PendingInOrder'
    BY <1>1, <1>2, <2>3, <2>4
       DEF RowsKept, Gapless, TakenInOrder, HandedInOrder, PendingInOrder
  <2>8. ReplayInOrder' /\ ServesAll'
    BY <1>1, <1>2, <2>3, <2>4 DEF Gapless, ReplayInOrder, ServesAll
  <2>9. NumberedAhead'
    <3>1. \A f \in Sent \cup toReplay : f \in numbered
      BY DEF OrderInv, Known, Sent
    <3>2. \A f \in numbered : f.seq < g.seq
      BY <1>t, <2>2, <2>3 DEF Numbering
    <3> QED
      BY <1>1, <1>2, <2>3, <2>5, <3>1, <3>2 DEF Gapless, NumberedAhead
  <2> QED
    BY <2>6, <2>7, <2>8, <2>9 DEF Gapless
<1> QED
  BY <1>5, <1>6, <1>7, <1>8 DEF OrderInv

\* A row that is written has a number above all that was sent.
LEMMA InsertOrder ==
  ASSUME TypeOK, OrderInv, NEW b \in Browsers, InsertRow(b)
  PROVE  OrderInv'
<1>t. /\ numbered \subseteq Frames /\ inputSeq \in Nat
      /\ enqueuing \in [Browsers -> SUBSET Frames] /\ gated \in [Browsers -> SUBSET Inputs]
      /\ numbering \in [Browsers -> SUBSET Frames]
      /\ Carried(handed) \in Seq(Frames) /\ Pending \in Seq(Frames)
  BY OrderTypes
<1>1. /\ UNCHANGED <<taken, refused, handed, inbox, wire, toReplay, conn, stage, inputSeq, gated>>
      /\ numbering' = [numbering EXCEPT ![b] = {}]
  BY DEF InsertRow, netVars, proxyVars
<1>2. UNCHANGED <<Done, Pending, Sent, Carried(handed)>>
  BY <1>1 DEF Done, Pending, Sent
<1>3. PICK g \in numbering[b] :
        /\ Enqueue(b, g)
        /\ \/ rows' = rows \cup {g} /\ UNCHANGED accidents
           \/ rows' = rows /\ Accident("database")
  BY DEF InsertRow
<1>4. enqueuing[b] = {} /\ gated[b] = {}
  BY <1>3 DEF OrderInv, OneEach
<1>5. numbered' = numbered \cup {g} /\ enqueuing' = [enqueuing EXCEPT ![b] = {g}]
  BY <1>3 DEF Enqueue
<1>6. \A a \in Browsers : /\ numbering'[a] \subseteq numbering[a] /\ (a = b => numbering'[a] = {})
                          /\ enqueuing'[a] = IF a = b THEN {g} ELSE enqueuing[a]
  BY <1>t, <1>1, <1>5
<1>7. Known'
  <2>1. rows' \subseteq numbered'
    BY <1>3, <1>5 DEF OrderInv, Known
  <2>2. \A a \in Browsers : enqueuing'[a] \subseteq numbered'
    BY <1>5, <1>6 DEF OrderInv, Known
  <2> QED
    BY <1>1, <1>2, <1>5, <2>1, <2>2 DEF OrderInv, Known
<1>8. OneEach'
  BY <1>1, <1>4, <1>6 DEF OrderInv, OneEach
<1>9. ASSUME Clean' PROVE Numbering' /\ Gapless' /\ RowsKept'
  <2>1. ~Accident("database")
    BY <1>9 DEF Accident, Clean
  <2>2. accidents' = accidents /\ rows' = rows \cup {g}
    BY <1>3, <2>1
  <2>3. Numbering /\ Gapless /\ RowsKept
    BY <1>9, <2>2 DEF OrderInv, Clean
  <2>4. g \in Frames /\ g.seq \in 1..inputSeq /\ \A x \in numbered : g.seq # x.seq
    BY <1>t, <1>3, <2>3 DEF Numbering
  <2>5. \A x \in Sent \cup toReplay : x \in numbered /\ ~(g.seq <= x.seq)
    <3>1. \A x \in Sent \cup toReplay : x \in numbered /\ x.seq < g.seq
      BY <1>3, <2>3 DEF OrderInv, Known, Sent, Gapless, NumberedAhead
    <3>2. \A x \in numbered : x.seq \in Nat
      BY <1>t DEF Frames
    <3> QED
      BY <1>t, <2>4, <3>1, <3>2 DEF Frames
  <2>6. Numbering'
    <3>1. \A x \in numbered' : x.seq \in 1..inputSeq
      BY <1>5, <2>3, <2>4 DEF Numbering
    <3>2. \A x, y \in numbered' : x.seq = y.seq => x = y
      BY <1>5, <2>3, <2>4 DEF Numbering
    <3>3. ASSUME NEW a \in Browsers, NEW x \in numbering'[a]
          PROVE  /\ x \in numbering[a] /\ a # b /\ x.seq \in 1..inputSeq
                 /\ \A y \in numbered' : x.seq # y.seq
      <4>1. x \in numbering[a] /\ a # b
        BY <1>6
      <4> QED
        BY <1>3, <1>5, <2>3, <4>1 DEF Numbering
    <3>4. \A a, d \in Browsers : \A x \in numbering'[a], y \in numbering'[d] :
             x.seq = y.seq => a = d
      BY <2>3, <3>3 DEF Numbering
    <3> QED
      BY <1>1, <3>1, <3>2, <3>3, <3>4 DEF Numbering
  <2>8. RowsKept'
    BY <1>2, <2>2, <2>3, <1>5 DEF RowsKept
  <2>9. TakenInOrder'
    <3>1. \A x \in ToSet(taken) : x \in Sent
      BY DEF Sent, Done
    <3> QED
      BY <1>1, <1>2, <1>5, <2>3, <2>5, <3>1 DEF Gapless, TakenInOrder
  <2>10. \A x \in numbered' : x \in numbered \/ x = g
    BY <1>5
  <2>11. HandedInOrder'
    <3>1. NoGap(Carried(handed), Done, numbered) /\ ToSet(Carried(handed)) \subseteq Sent
      BY <2>3 DEF Gapless, HandedInOrder, Sent
    <3>2. NoGap(Carried(handed), Done, numbered')
      BY <1>t, <2>5, <2>10, <3>1, NoGapGrows
    <3> QED
      BY <1>1, <1>2, <3>2 DEF HandedInOrder
  <2>12. PendingInOrder'
    <3> DEFINE B == Done \cup ToSet(Carried(handed))
    <3>1. NoGap(Pending, B, numbered) /\ ToSet(Pending) \subseteq Sent
      BY <2>3 DEF Gapless, PendingInOrder, Sent
    <3> HIDE DEF B
    <3>2. NoGap(Pending, B, numbered')
      BY <1>t, <2>5, <2>10, <3>1, NoGapGrows
    <3> QED
      BY <1>1, <1>2, <3>2 DEF PendingInOrder, B
  <2>13. ReplayInOrder'
    BY <1>1, <1>2, <1>5, <2>3, <2>5 DEF Gapless, ReplayInOrder
  <2>14. ServesAll'
    <3> SUFFICES ASSUME conn # 0, stage[conn] = "serving", NEW x \in numbered'
                 PROVE  x \in Sent \cup toReplay \cup UNION {enqueuing'[a] : a \in Browsers}
      BY <1>1, <1>2 DEF ServesAll
    <3>1. CASE x = g
      BY <1>6, <3>1
    <3>2. CASE x # g
      <4>1. x \in Sent \cup toReplay \cup UNION {enqueuing[a] : a \in Browsers}
        BY <2>3, <1>5, <3>2 DEF Gapless, ServesAll
      <4>2. \A a \in Browsers : enqueuing[a] \subseteq enqueuing'[a]
        BY <1>4, <1>6
      <4> QED
        BY <4>1, <4>2
    <3> QED
      BY <3>1, <3>2
  <2>15. NumberedAhead'
    BY <1>1, <1>2, <1>6, <2>3 DEF Gapless, NumberedAhead
  <2> QED
    BY <2>6, <2>8, <2>9, <2>11, <2>12, <2>13, <2>14, <2>15 DEF Gapless
<1> QED
  BY <1>7, <1>8, <1>9 DEF OrderInv

\* What is written to the connection joins the end of what is pending.
LEMMA PendingGrows ==
  ASSUME TypeOK, NEW f \in Frames, wire' = Append(wire, f), inbox' = inbox
  PROVE  Pending' = Append(Pending, f) /\ ToSet(Pending') = ToSet(Pending) \cup {f}
<1>1. inbox \in Seq(Frames) /\ wire \in Seq(Frames) /\ Pending \in Seq(Frames)
  BY OrderTypes
<1>2. <<f>> \in Seq(Frames)
  OBVIOUS
<1>3. Append(wire, f) = wire \o <<f>> /\ Append(Pending, f) = Pending \o <<f>>
  BY <1>1, AppendIsConcat
<1>4. inbox \o (wire \o <<f>>) = (inbox \o wire) \o <<f>>
  BY <1>1, <1>2, ConcatAssociative
<1>5. Pending' = Append(Pending, f)
  BY <1>3, <1>4 DEF Pending
<1> QED
  BY <1>1, <1>5, AppendHeld

\* A frame may be written to the connection if everything with a lower number
\* was sent before.
LEMMA WireGrows ==
  ASSUME TypeOK, OrderInv, NEW f \in numbered, wire' = Append(wire, f), OneEach',
         UNCHANGED <<numbered, inputSeq, rows, taken, refused, handed, inbox, conn, stage>>,
         numbering' = numbering, toReplay' \subseteq toReplay, toReplay \subseteq toReplay' \cup {f},
         \A b \in Browsers : enqueuing'[b] \subseteq enqueuing[b],
         \A b \in Browsers : enqueuing[b] \subseteq enqueuing'[b] \cup {f},
         Clean' => /\ Clean
                   /\ \A g \in numbered : g.seq <= f.seq => g \in Sent \cup {f}
                   /\ \A b \in Browsers : \A g \in numbering[b] : f.seq < g.seq
  PROVE  OrderInv'
<1>t. numbered \subseteq Frames /\ Carried(handed) \in Seq(Frames) /\ Pending \in Seq(Frames)
  BY OrderTypes
<1>1. Pending' = Append(Pending, f) /\ ToSet(Pending') = ToSet(Pending) \cup {f}
  BY <1>t, PendingGrows
<1>2. Done' = Done /\ Sent' = Sent \cup {f}
  BY <1>1 DEF Done, Sent
<1>3. Known'
  BY <1>1, <1>2 DEF OrderInv, Known
<1>4. ASSUME Clean' PROVE Numbering' /\ Gapless' /\ RowsKept'
  <2>1. Numbering /\ Gapless /\ RowsKept /\ \A g \in numbered : g.seq <= f.seq => g \in Sent \cup {f}
    BY <1>4 DEF OrderInv
  <2>2. Numbering' /\ RowsKept'
    BY <1>2, <2>1 DEF Numbering, RowsKept
  <2>3. TakenInOrder' /\ HandedInOrder'
    BY <1>2, <2>1 DEF Gapless, TakenInOrder, HandedInOrder
  <2>4. PendingInOrder'
    <3> DEFINE B == Done \cup ToSet(Carried(handed))
    <3>1. NoGap(Pending, B, numbered)
      BY <2>1 DEF Gapless, PendingInOrder
    <3>2. \A g \in numbered : g.seq <= f.seq => g \in B \cup ToSet(Pending) \cup {f}
      BY <2>1 DEF Sent
    <3> HIDE DEF B
    <3>3. NoGap(Append(Pending, f), B, numbered)
      BY <1>t, <3>1, <3>2, NoGapAppend
    <3> QED
      BY <1>1, <1>2, <3>3 DEF PendingInOrder, B
  <2>5. ReplayInOrder'
    BY <1>2, <2>1 DEF Gapless, ReplayInOrder
  <2>6. ServesAll'
    <3> SUFFICES ASSUME conn # 0, stage[conn] = "serving", NEW x \in numbered, x # f,
                        x \notin Sent, x \notin toReplay
                 PROVE  \E b \in Browsers : x \in enqueuing'[b]
      BY <1>2 DEF ServesAll
    <3>1. \E b \in Browsers : x \in enqueuing[b]
      BY <2>1 DEF Gapless, ServesAll
    <3> QED
      BY <3>1
  <2>7. NumberedAhead'
    BY <1>2, <1>4, <2>1 DEF Gapless, NumberedAhead
  <2> QED
    BY <2>2, <2>3, <2>4, <2>5, <2>6, <2>7 DEF Gapless
<1> QED
  BY <1>3, <1>4 DEF OrderInv

\* Live input that does not overtake leaves no gap.
LEMMA HandOverOrder ==
  ASSUME TypeOK, OrderInv, NEW b \in Browsers, HandOver(b)
  PROVE  OrderInv'
<1>t. /\ numbered \subseteq Frames /\ toReplay \subseteq Frames /\ rows \subseteq Frames
      /\ enqueuing \in [Browsers -> SUBSET Frames] /\ numbering \in [Browsers -> SUBSET Frames]
  BY OrderTypes
<1>1. /\ UNCHANGED <<numbered, inputSeq, rows, taken, refused, handed, inbox, toReplay, conn>>
      /\ UNCHANGED <<stage, gated, numbering>>
  BY DEF HandOver, proxyVars
<1>2. enqueuing' = [enqueuing EXCEPT ![b] = {}]
  BY DEF HandOver
<1>3. OneEach'
  BY <1>t, <1>1, <1>2 DEF OrderInv, OneEach
<1>4. PICK f \in enqueuing[b] :
        IF conn # 0 /\ stage[conn] \in {"acked", "serving"}
        THEN /\ wire' = Append(wire, f)
             /\ IF Overtakes(f) THEN Accident("overtaking") ELSE UNCHANGED accidents
        ELSE UNCHANGED <<wire, accidents>>
  BY DEF HandOver
<1>5. f \in numbered /\ enqueuing[b] = {f}
  BY <1>4 DEF OrderInv, Known, OneEach
<1>6. CASE conn # 0 /\ stage[conn] \in {"acked", "serving"}
  <2>1. /\ wire' = Append(wire, f)
        /\ IF Overtakes(f) THEN Accident("overtaking") ELSE UNCHANGED accidents
    BY <1>4, <1>6
  <2>2. ASSUME Clean'
        PROVE  /\ Clean
               /\ \A g \in numbered : g.seq <= f.seq => g \in Sent \cup {f}
               /\ \A a \in Browsers : \A g \in numbering[a] : f.seq < g.seq
    <3>1. ~Overtakes(f) /\ Clean
      BY <2>1, <2>2 DEF Clean, Accident
    <3>2. Numbering /\ Gapless /\ RowsKept
      BY <3>1 DEF OrderInv
    <3>3. ASSUME NEW g \in numbered, g.seq <= f.seq, g # f PROVE g \in Sent
      <4>1. g.seq < f.seq
        <5>1. g.seq # f.seq
          BY <1>5, <3>2, <3>3 DEF Numbering
        <5>2. g.seq \in Nat /\ f.seq \in Nat
          BY <1>t, <1>5 DEF Frames
        <5> QED
          BY <3>3, <5>1, <5>2
      <4>2. CASE stage[conn] = "serving"
        <5>1. g \in Sent \cup toReplay \cup UNION {enqueuing[a] : a \in Browsers}
          BY <1>6, <3>2, <4>2 DEF Gapless, ServesAll
        <5> QED
          BY <3>1, <4>1, <5>1 DEF Overtakes
      <4>3. CASE stage[conn] = "acked"
        <5>1. g \in rows \cup Done
          BY <3>2 DEF RowsKept
        <5>2. g \notin rows
          BY <3>1, <4>1, <4>3 DEF Overtakes
        <5> QED
          BY <5>1, <5>2 DEF Sent
      <4> QED
        BY <1>6, <4>2, <4>3
    <3>4. ASSUME NEW a \in Browsers, NEW g \in numbering[a] PROVE f.seq < g.seq
      <4>1. g.seq # f.seq
        BY <1>5, <3>2 DEF Numbering
      <4>2. ~(g.seq < f.seq)
        BY <3>1 DEF Overtakes
      <4>3. g.seq \in Nat /\ f.seq \in Nat
        BY <1>t, <1>5 DEF Frames
      <4> QED
        BY <4>1, <4>2, <4>3
    <3> QED
      BY <3>1, <3>3, <3>4
  <2>3. /\ \A a \in Browsers : enqueuing'[a] \subseteq enqueuing[a]
        /\ \A a \in Browsers : enqueuing[a] \subseteq enqueuing'[a] \cup {f}
    BY <1>t, <1>2, <1>5
  <2> QED
    BY <1>1, <1>3, <1>5, <2>1, <2>2, <2>3, WireGrows
<1>7. CASE ~(conn # 0 /\ stage[conn] \in {"acked", "serving"})
  <2>1. UNCHANGED <<wire, accidents>>
    BY <1>4, <1>7
  <2>2. \A a \in Browsers : enqueuing'[a] \subseteq enqueuing[a]
    BY <1>t, <1>2
  <2> QED
    BY <1>1, <1>3, <1>7, <2>1, <2>2, SameOrder
<1> QED
  BY <1>6, <1>7

\* The oldest row that is still to be replayed goes next.
LEMMA ReplayOrder ==
  ASSUME TypeOK, OrderInv, ReplayRow
  PROVE  OrderInv'
<1>t. numbered \subseteq Frames /\ toReplay \subseteq Frames
  BY OrderTypes
<1>1. /\ UNCHANGED <<numbered, inputSeq, rows, taken, refused, handed, inbox, conn, stage>>
      /\ UNCHANGED <<enqueuing, gated, numbering, accidents>>
  BY DEF ReplayRow, proxyVars, storeVars
<1>2. PICK f \in toReplay : IsOldest(f, toReplay) /\ wire' = Append(wire, f) /\ toReplay' = toReplay \ {f}
  BY DEF ReplayRow
<1>3. f \in numbered
  BY DEF OrderInv, Known
<1>4. OneEach'
  BY <1>1 DEF OrderInv, OneEach
<1>5. ASSUME Clean'
      PROVE  /\ Clean
             /\ \A g \in numbered : g.seq <= f.seq => g \in Sent \cup {f}
             /\ \A b \in Browsers : \A g \in numbering[b] : f.seq < g.seq
  <2>1. Clean
    BY <1>1, <1>5 DEF Clean
  <2>2. Numbering /\ Gapless
    BY <2>1 DEF OrderInv
  <2>3. ASSUME NEW g \in numbered, g.seq <= f.seq, g \notin Sent PROVE g = f
    <3>1. g \in toReplay
      BY <2>2, <2>3 DEF Gapless, ReplayInOrder
    <3>2. f.seq <= g.seq /\ g.seq \in Nat /\ f.seq \in Nat
      BY <1>t, <1>2, <3>1 DEF IsOldest, Frames
    <3>3. f.seq = g.seq
      BY <2>3, <3>2
    <3> QED
      BY <1>3, <2>2, <3>3 DEF Numbering
  <2>4. \A b \in Browsers : \A g \in numbering[b] : f.seq < g.seq
    BY <2>2 DEF Gapless, NumberedAhead
  <2> QED
    BY <2>1, <2>3, <2>4
<1> QED
  BY <1>1, <1>2, <1>3, <1>4, <1>5, WireGrows

\* Frames on their way to the agent may move on in order, or be lost with
\* their connection, which forgets what it was to replay.
LEMMA FramesMove ==
  ASSUME OrderInv,
         UNCHANGED <<numbered, inputSeq, rows, enqueuing, gated, numbering, accidents>>,
         Done \subseteq Done', Done' \subseteq Sent,
         ToSet(Carried(handed))' \subseteq Sent, ToSet(Pending)' \subseteq Sent,
         \/ UNCHANGED <<toReplay, conn, stage>> /\ Sent \subseteq Sent'
         \/ toReplay' = {} /\ conn' = 0,
         Clean => TakenInOrder' /\ HandedInOrder' /\ PendingInOrder'
  PROVE  OrderInv'
<1>1. Sent \subseteq numbered
  BY DEF OrderInv, Known, Sent
<1>2. Known' /\ OneEach'
  BY <1>1 DEF OrderInv, Known, OneEach
<1>3. Clean' = Clean
  BY DEF Clean
<1>4. ASSUME Clean PROVE Numbering' /\ RowsKept' /\ Gapless'
  <2>1. Numbering /\ RowsKept /\ Gapless
    BY <1>4 DEF OrderInv
  <2>2. Numbering' /\ RowsKept'
    BY <2>1 DEF Numbering, RowsKept
  <2>3. ReplayInOrder'
    BY <2>1 DEF Gapless, ReplayInOrder
  <2>4. ServesAll'
    BY <2>1 DEF Gapless, ServesAll
  <2>5. NumberedAhead'
    <3>1. Sent' \subseteq Sent /\ toReplay' \subseteq toReplay
      BY DEF Sent
    <3> QED
      BY <2>1, <3>1 DEF Gapless, NumberedAhead
  <2> QED
    BY <1>4, <2>2, <2>3, <2>4, <2>5 DEF Gapless
<1> QED
  BY <1>2, <1>3, <1>4 DEF OrderInv

\* What is read is the head of what is pending.
LEMMA DeliverOrder ==
  ASSUME TypeOK, OrderInv, DeliverInput
  PROVE  OrderInv'
<1>t. /\ handed \in Seq(Commands) /\ Carried(handed) \in Seq(Frames)
      /\ inbox \in Seq(Frames) /\ wire \in Seq(Frames) /\ Pending \in Seq(Frames)
      /\ conn # 0 => conn \in Conns
  BY OrderTypes
<1> DEFINE f == Head(Pending)
           old == Carried(handed)
           B == Done \cup ToSet(old)
<1>1. /\ UNCHANGED <<numbered, inputSeq, rows, enqueuing, gated, numbering>>
      /\ UNCHANGED <<accidents, toReplay, conn, stage>>
      /\ UNCHANGED <<taken, refused>> /\ ReceiveInput /\ conn # 0 /\ Pending # <<>>
      /\ handed' = Append(handed, [frame |-> NextInput, on |-> conn])
  BY DEF DeliverInput, storeVars, ReceiveInput, Pending
<1>2. /\ NextInput = f /\ f \in Frames /\ Pending' = Tail(Pending) /\ Tail(Pending) \in Seq(Frames)
      /\ ToSet(Pending) = ToSet(Tail(Pending)) \cup {f}
  BY <1>t, <1>1, ReceivedIs, TailHeld
<1>3. Carried(handed)' = Append(old, f)
  <2>1. [frame |-> f, on |-> conn] \in Commands /\ [frame |-> f, on |-> conn].frame = f
    BY <1>t, <1>1, <1>2 DEF Commands
  <2> HIDE DEF f
  <2>2. Carried(Append(handed, [frame |-> f, on |-> conn])) = Append(old, f)
    BY <1>t, <2>1, CarriedAppend
  <2> QED
    BY <1>1, <1>2, <2>2 DEF Carried
<1> HIDE DEF f
<1>4. ToSet(Append(old, f)) = ToSet(old) \cup {f}
  BY <1>t, <1>2, AppendHeld
<1>5. Done' = Done /\ Sent' = Sent
  BY <1>1, <1>2, <1>3, <1>4 DEF Done, Sent
<1>6. ASSUME Clean PROVE TakenInOrder' /\ HandedInOrder' /\ PendingInOrder'
  <2>1. TakenInOrder /\ NoGap(old, Done, numbered) /\ NoGap(Pending, B, numbered)
    BY <1>6 DEF OrderInv, Gapless, HandedInOrder, PendingInOrder
  <2> HIDE DEF B, old
  <2>2. /\ NoGap(Tail(Pending), B \cup {f}, numbered)
        /\ \A g \in numbered : g.seq <= f.seq => g \in B \cup {f}
    BY <1>t, <1>1, <2>1, NoGapTail DEF f
  <2>3. NoGap(Append(old, f), Done, numbered)
    BY <1>t, <1>2, <2>1, <2>2, NoGapAppend DEF B, old
  <2>4. TakenInOrder'
    BY <1>1, <1>5, <2>1 DEF TakenInOrder
  <2>5. HandedInOrder'
    BY <1>1, <1>3, <1>5, <2>3 DEF HandedInOrder
  <2>6. Done' \cup ToSet(Carried(handed))' = B \cup {f}
    BY <1>3, <1>4, <1>5 DEF B, old
  <2>7. PendingInOrder'
    BY <1>1, <1>2, <2>2, <2>6 DEF PendingInOrder
  <2> QED
    BY <2>4, <2>5, <2>7
<1>7. ToSet(Carried(handed))' \subseteq Sent /\ ToSet(Pending)' \subseteq Sent
  BY <1>2, <1>3, <1>4 DEF Sent
<1> QED
  BY <1>1, <1>5, <1>6, <1>7, FramesMove DEF Sent

\* The agent's task takes its commands in order.
LEMMA AgentOrder ==
  ASSUME TypeOK, OrderInv, AgentAccepts \/ AgentRejects
  PROVE  OrderInv'
<1>t. /\ handed \in Seq(Commands) /\ Carried(handed) \in Seq(Frames)
      /\ Pending \in Seq(Frames) /\ taken \in Seq(Frames)
  BY OrderTypes
<1> DEFINE old == Carried(handed)
           f == Head(old)
           B == Done \cup ToSet(old)
<1>1. /\ UNCHANGED <<numbered, inputSeq, rows, enqueuing, gated, numbering>>
      /\ UNCHANGED <<accidents, toReplay, conn, stage>>
      /\ UNCHANGED <<inbox, wire>> /\ handed # <<>> /\ handed' = Tail(handed)
      /\ \/ taken' = Append(taken, Head(handed).frame) /\ refused' = refused
         \/ taken' = taken /\ refused' = refused \cup {Head(handed).frame}
  BY DEF AgentAccepts, AgentRejects, storeVars, netVars
<1>2. old # <<>> /\ f = Head(handed).frame /\ Carried(handed)' = Tail(old)
  BY <1>t, <1>1, CarriedTail DEF Carried
<1>3. f \in Frames /\ ToSet(old) = ToSet(Tail(old)) \cup {f}
  BY <1>t, <1>2, TailHeld
<1> HIDE DEF f
<1>4. ToSet(taken') \subseteq ToSet(taken) \cup {f} /\ Done' = Done \cup {f}
  <2>1. ToSet(Append(taken, f)) = ToSet(taken) \cup {f}
    BY <1>t, <1>3, AppendHeld
  <2> QED
    BY <1>1, <1>2, <2>1 DEF Done
<1>5. Pending' = Pending /\ Sent' = Sent /\ Done' \cup ToSet(Carried(handed))' = B
  BY <1>1, <1>2, <1>3, <1>4 DEF Pending, Sent
<1>6. ASSUME Clean PROVE TakenInOrder' /\ HandedInOrder' /\ PendingInOrder'
  <2>1. TakenInOrder /\ NoGap(old, Done, numbered) /\ NoGap(Pending, B, numbered)
    BY <1>6 DEF OrderInv, Gapless, HandedInOrder, PendingInOrder
  <2> HIDE DEF B, old
  <2>2. /\ NoGap(Tail(old), Done \cup {f}, numbered)
        /\ \A g \in numbered : g.seq <= f.seq => g \in Done \cup {f}
    BY <1>t, <1>2, <2>1, NoGapTail DEF f, old
  <2>3. TakenInOrder'
    BY <1>1, <1>4, <2>1, <2>2 DEF TakenInOrder
  <2>4. HandedInOrder'
    BY <1>1, <1>2, <1>4, <2>2 DEF HandedInOrder
  <2>5. PendingInOrder'
    BY <1>1, <1>5, <2>1 DEF PendingInOrder
  <2> QED
    BY <2>3, <2>4, <2>5
<1>7. ToSet(Carried(handed))' \subseteq Sent /\ ToSet(Pending)' \subseteq Sent /\ Done' \subseteq Sent
  BY <1>2, <1>3, <1>4, <1>5 DEF Sent
<1> QED
  BY <1>1, <1>4, <1>5, <1>6, <1>7, FramesMove

\* What the agent's task had not accepted when it ended is refused.
LEMMA StopOrder ==
  ASSUME TypeOK, OrderInv, AgentStops
  PROVE  OrderInv'
<1>t. handed \in Seq(Commands) /\ Carried(handed) \in Seq(Frames)
  BY OrderTypes
<1> DEFINE old == Carried(handed)
           B == Done \cup ToSet(old)
<1>1. /\ UNCHANGED <<numbered, inputSeq, rows, enqueuing, gated, numbering>>
      /\ UNCHANGED <<accidents, toReplay, conn, stage>>
      /\ UNCHANGED <<inbox, wire, taken>> /\ handed' = <<>>
      /\ refused' = refused \cup {handed[i].frame : i \in DOMAIN handed}
  BY DEF AgentStops, storeVars, netVars
<1>2. {handed[i].frame : i \in DOMAIN handed} = ToSet(old)
  BY DEF Carried, ToSet
<1>3. Carried(handed)' = <<>> /\ ToSet(Carried(handed))' = {}
  BY <1>1 DEF Carried, ToSet
<1>4. Done' = B /\ Pending' = Pending /\ Sent' = Sent
  BY <1>1, <1>2, <1>3 DEF Done, Pending, Sent
<1>5. ASSUME Clean PROVE TakenInOrder' /\ HandedInOrder' /\ PendingInOrder'
  <2>1. TakenInOrder /\ NoGap(Pending, B, numbered)
    BY <1>5 DEF OrderInv, Gapless, PendingInOrder
  <2>2. TakenInOrder'
    BY <1>1, <1>4, <2>1 DEF TakenInOrder
  <2>3. HandedInOrder'
    BY <1>3, NoGapEmpty DEF HandedInOrder
  <2>4. PendingInOrder'
    BY <1>1, <1>3, <1>4, <2>1 DEF PendingInOrder
  <2> QED
    BY <2>2, <2>3, <2>4
<1> QED
  BY <1>1, <1>3, <1>4, <1>5, FramesMove DEF Sent

\* An input that finds the agent gone is refused, and the connection ends.
LEMMA DeliverFailsOrder ==
  ASSUME TypeOK, OrderInv, DeliverFails
  PROVE  OrderInv'
<1>t. /\ Carried(handed) \in Seq(Frames) /\ Pending \in Seq(Frames)
      /\ inbox \in Seq(Frames) /\ wire \in Seq(Frames)
  BY OrderTypes
<1> DEFINE f == Head(Pending)
           C == ToSet(Carried(handed))
           B == Done \cup C
<1>1. /\ UNCHANGED <<numbered, inputSeq, rows, enqueuing, gated, numbering>>
      /\ UNCHANGED <<accidents, handed, taken>>
      /\ toReplay' = {} /\ conn' = 0 /\ Pending # <<>> /\ refused' = refused \cup {f}
      /\ inbox' = Tail(Pending) /\ wire' = <<>>
  BY DEF DeliverFails, storeVars, ConnectionGone, Pending, NextInput
<1>2. Tail(Pending) \in Seq(Frames) /\ ToSet(Pending) = ToSet(Tail(Pending)) \cup {f}
  BY <1>t, <1>1, TailHeld
<1>3. Pending' = Tail(Pending)
  BY <1>1, <1>2, ConcatEmptySeq DEF Pending
<1> HIDE DEF f
<1>4. Done' = Done \cup {f} /\ Carried(handed)' = Carried(handed)
  BY <1>1 DEF Done
<1>5. ASSUME Clean PROVE TakenInOrder' /\ HandedInOrder' /\ PendingInOrder'
  <2>1. TakenInOrder /\ NoGap(Carried(handed), Done, numbered) /\ NoGap(Pending, B, numbered)
    BY <1>5 DEF OrderInv, Gapless, HandedInOrder, PendingInOrder
  <2>2. NoGap(Tail(Pending), B \cup {f}, numbered)
    <3> HIDE DEF B
    <3> QED
      BY <1>t, <1>1, <2>1, NoGapTail DEF f
  <2>3. NoGap(Carried(handed), Done', numbered)
    BY <1>t, <1>4, <2>1, NoGapGrows
  <2>4. TakenInOrder'
    BY <1>1, <1>4, <2>1 DEF TakenInOrder
  <2>5. HandedInOrder'
    BY <1>1, <1>4, <2>3 DEF HandedInOrder
  <2>6. Done' \cup ToSet(Carried(handed))' = B \cup {f}
    BY <1>4
  <2>7. PendingInOrder'
    BY <1>1, <1>3, <2>2, <2>6 DEF PendingInOrder
  <2> QED
    BY <2>4, <2>5, <2>7
<1>6. /\ ToSet(Carried(handed))' \subseteq Sent /\ ToSet(Pending)' \subseteq Sent
      /\ Done \subseteq Done' /\ Done' \subseteq Sent
  BY <1>2, <1>3, <1>4 DEF Sent
<1> QED
  BY <1>1, <1>5, <1>6, FramesMove

\* What the reader had not read is lost with the connection.
LEMMA DisconnectOrder ==
  ASSUME TypeOK, OrderInv, Disconnect
  PROVE  OrderInv'
<1>t. inbox \in Seq(Frames) /\ wire \in Seq(Frames)
  BY OrderTypes
<1> DEFINE B == Done \cup ToSet(Carried(handed))
<1>1. /\ UNCHANGED <<numbered, inputSeq, rows, enqueuing, gated, numbering>>
      /\ UNCHANGED <<accidents, handed, taken, refused>>
      /\ toReplay' = {} /\ conn' = 0 /\ wire' = <<>>
  BY DEF Disconnect, storeVars, ConnectionGone
<1>2. PICK n \in 0..Len(wire) : inbox' = inbox \o SubSeq(wire, 1, n)
  BY DEF Disconnect
<1>3. inbox' \in Seq(Frames) /\ ToSet(inbox') \subseteq ToSet(Pending)
  <2>1. NoGap(inbox \o wire, {}, {})
    BY DEF NoGap
  <2> QED
    BY <1>t, <1>2, <2>1, NoGapPrefix DEF Pending
<1>4. Pending' = inbox'
  BY <1>1, <1>3, ConcatEmptySeq DEF Pending
<1>5. Done' = Done /\ Carried(handed)' = Carried(handed)
  BY <1>1 DEF Done
<1>6. ASSUME Clean PROVE TakenInOrder' /\ HandedInOrder' /\ PendingInOrder'
  <2>1. TakenInOrder /\ HandedInOrder /\ NoGap(inbox \o wire, B, numbered)
    BY <1>6 DEF OrderInv, Gapless, PendingInOrder, Pending
  <2>2. TakenInOrder' /\ HandedInOrder'
    BY <1>1, <1>5, <2>1 DEF TakenInOrder, HandedInOrder
  <2> HIDE DEF B
  <2>3. NoGap(inbox', B, numbered)
    BY <1>t, <1>2, <2>1, NoGapPrefix
  <2>4. PendingInOrder'
    BY <1>1, <1>4, <1>5, <2>3 DEF PendingInOrder, B
  <2> QED
    BY <2>2, <2>4
<1>7. /\ ToSet(Carried(handed))' \subseteq Sent /\ ToSet(Pending)' \subseteq Sent
      /\ Done \subseteq Done' /\ Done' \subseteq Sent
  BY <1>3, <1>4, <1>5 DEF Sent
<1> QED
  BY <1>1, <1>6, <1>7, FramesMove

\* A new process of the proxy starts with nothing.
LEMMA RelaunchOrder ==
  ASSUME TypeOK, OrderInv, Relaunch
  PROVE  OrderInv'
<1>1. /\ UNCHANGED <<numbered, inputSeq, rows, enqueuing, gated, numbering>>
      /\ UNCHANGED <<accidents, taken, refused>>
      /\ toReplay' = {} /\ conn' = 0 /\ wire' = <<>> /\ inbox' = <<>> /\ handed' = <<>>
  BY DEF Relaunch, storeVars, ConnectionGone
<1>2. /\ Pending' = <<>> /\ Carried(handed)' = <<>> /\ Done' = Done
      /\ ToSet(Pending)' = {} /\ ToSet(Carried(handed))' = {}
  <2>1. Pending' = <<>>
    BY <1>1, ConcatEmptySeq DEF Pending
  <2>2. Carried(handed)' = <<>>
    BY <1>1 DEF Carried
  <2> QED
    BY <1>1, <2>1, <2>2, EmptyHeld DEF Done
<1>3. ASSUME Clean PROVE TakenInOrder' /\ HandedInOrder' /\ PendingInOrder'
  <2>1. TakenInOrder'
    BY <1>1, <1>2, <1>3 DEF OrderInv, Gapless, TakenInOrder
  <2> QED
    BY <1>2, <2>1, NoGapEmpty DEF HandedInOrder, PendingInOrder
<1> QED
  BY <1>1, <1>2, <1>3, FramesMove DEF Sent

\* Replaying starts from all rows there are, unless one below them is missing.
LEMMA ReadRowsOrder ==
  ASSUME TypeOK, OrderInv, ReadRows
  PROVE  OrderInv'
<1>t. numbered \subseteq Frames /\ rows \subseteq Frames /\ numbering \in [Browsers -> SUBSET Frames]
  BY OrderTypes
<1>1. /\ UNCHANGED <<numbered, inputSeq, rows, enqueuing, gated, numbering, taken, refused>>
      /\ UNCHANGED <<conn, wire, inbox, handed>> /\ toReplay' = rows
      /\ IF Misses THEN Accident("overtaking") ELSE UNCHANGED accidents
  BY DEF ReadRows, storeVars, proxyVars
<1>2. UNCHANGED <<Done, Pending, Sent, Carried(handed)>>
  BY <1>1 DEF Done, Pending, Sent
<1>3. Known' /\ OneEach'
  BY <1>1, <1>2 DEF OrderInv, Known, OneEach
<1>4. ASSUME Clean' PROVE Numbering' /\ RowsKept' /\ Gapless'
  <2>1. ~Misses /\ Clean
    BY <1>1, <1>4 DEF Accident, Clean
  <2>2. Numbering /\ RowsKept /\ Gapless
    BY <2>1 DEF OrderInv
  <2>3. Numbering' /\ RowsKept' /\ TakenInOrder' /\ HandedInOrder' /\ PendingInOrder'
    BY <1>1, <1>2, <2>2 DEF Numbering, RowsKept, Gapless, TakenInOrder, HandedInOrder, PendingInOrder
  <2>4. numbered \subseteq Sent' \cup toReplay'
    BY <1>1, <1>2, <2>2 DEF RowsKept, Sent
  <2>5. ReplayInOrder' /\ ServesAll'
    BY <1>1, <2>4 DEF ReplayInOrder, ServesAll
  <2>6. ASSUME NEW b \in Browsers, NEW g \in numbering[b], NEW r \in rows PROVE r.seq < g.seq
    <3>1. ~(g.seq < r.seq)
      BY <2>1 DEF Misses
    <3>2. g.seq # r.seq
      BY <2>2 DEF OrderInv, Known, Numbering
    <3>3. g.seq \in Nat /\ r.seq \in Nat
      BY <1>t DEF Frames
    <3> QED
      BY <3>1, <3>2, <3>3
  <2>7. NumberedAhead'
    BY <1>1, <1>2, <2>2, <2>6 DEF Gapless, NumberedAhead
  <2> QED
    BY <2>3, <2>5, <2>7 DEF Gapless
<1> QED
  BY <1>3, <1>4 DEF OrderInv

\* An ack is of a number the agent took, and so everything below is settled.
LEMMA ReportOrder ==
  ASSUME TypeOK, Settled, OrderInv, NEW c \in Conns, HandleReport(c)
  PROVE  OrderInv'
<1>1. /\ UNCHANGED <<numbered, inputSeq, enqueuing, gated, numbering, accidents, taken, refused>>
      /\ UNCHANGED <<conn, wire, inbox, handed, toReplay, stage>>
  BY DEF HandleReport, proxyVars
<1>2. OneEach'
  BY <1>1 DEF OrderInv, OneEach
<1> DEFINE m == Head(reports[c])
<1>3. IF m.kind = "ack" THEN DeleteRows(m.n) ELSE Settle(m.n, m.kind)
  BY DEF HandleReport
<1>4. CASE m.kind # "ack"
  <2>1. rows' = rows
    BY <1>3, <1>4 DEF Settle
  <2> QED
    BY <1>1, <1>2, <2>1, SameOrder
<1>5. CASE m.kind = "ack"
  <2>1. reports[c] # <<>>
    BY DEF HandleReport
  <2>2. PICK f \in ToSet(taken) : f.seq = m.n
    BY <1>5, <2>1, ReportIs DEF Settled
  <2> HIDE DEF m
  <2>3. rows' \subseteq rows /\ \A r \in rows : r \in rows' \/ r.seq <= f.seq
    BY <1>3, <1>5, <2>2 DEF DeleteRows, Covered
  <2>4. UNCHANGED <<Done, Pending, Sent, Clean, Carried(handed)>>
    BY <1>1 DEF Done, Pending, Sent, Clean
  <2>5. Known'
    BY <1>1, <2>3, <2>4 DEF OrderInv, Known
  <2>6. ASSUME Clean PROVE Numbering' /\ RowsKept' /\ Gapless'
    <3>1. Numbering /\ RowsKept /\ Gapless
      BY <2>6 DEF OrderInv
    <3>2. RowsKept'
      <4> SUFFICES ASSUME NEW g \in numbered, g \notin rows' PROVE g \in Done
        BY <1>1, <2>4 DEF RowsKept
      <4>1. g \in Done \/ g \in rows
        BY <3>1 DEF RowsKept
      <4>2. g \in rows => g.seq <= f.seq
        BY <2>3
      <4> QED
        BY <2>2, <3>1, <4>1, <4>2 DEF Gapless, TakenInOrder
    <3>3. Numbering' /\ TakenInOrder' /\ HandedInOrder' /\ PendingInOrder'
      BY <1>1, <2>4, <3>1 DEF Numbering, Gapless, TakenInOrder, HandedInOrder, PendingInOrder
    <3>4. ReplayInOrder' /\ ServesAll' /\ NumberedAhead'
      BY <1>1, <2>4, <3>1 DEF Gapless, ReplayInOrder, ServesAll, NumberedAhead
    <3> QED
      BY <3>2, <3>3, <3>4 DEF Gapless
  <2> QED
    BY <1>2, <2>4, <2>5, <2>6 DEF OrderInv
<1> QED
  BY <1>4, <1>5

\* Every step keeps the order of inputs.
LEMMA OrderStep ==
  ASSUME TypeOK, Settled, OrderInv, Next
  PROVE  OrderInv'
<1>t. /\ stage \in [Conns -> Stages] /\ (conn # 0 => conn \in Conns)
      /\ enqueuing \in [Browsers -> SUBSET Frames] /\ gated \in [Browsers -> SUBSET Inputs]
      /\ numbering \in [Browsers -> SUBSET Frames]
  BY OrderTypes
<1>1. UNCHANGED <<enqueuing, gated, numbering>> => OneEach'
  BY DEF OrderInv, OneEach
<1>2. ASSUME BrowserStep PROVE OrderInv'
  <2>1. UNCHANGED <<storeVars, netVars, proxyVars, accidents>>
    BY <1>2 DEF BrowserStep, Type, WebDrop, WebConnect
  <2> QED
    BY <1>1, <2>1, SameOrder DEF storeVars, netVars, proxyVars
<1>3. ASSUME NEW b \in Browsers, HandleInput(b) PROVE OrderInv'
  <2>1. /\ UNCHANGED <<numbered, inputSeq, rows, enqueuing, numbering>>
        /\ UNCHANGED <<netVars, proxyVars, accidents>>
        /\ enqueuing[b] = {} /\ numbering[b] = {}
    BY <1>3 DEF HandleInput
  <2>2. gated' = gated \/ gated' = [gated EXCEPT ![b] = {Head(webWire[b])}]
    BY <1>3 DEF HandleInput, PassGate
  <2>3. OneEach'
    BY <1>t, <2>1, <2>2 DEF OrderInv, OneEach
  <2> QED
    BY <2>1, <2>3, SameOrder DEF netVars, proxyVars
<1>4. ASSUME NEW b \in Browsers, DropBacked(b) PROVE OrderInv'
  <2>1. /\ UNCHANGED <<numbered, inputSeq, rows, enqueuing, numbering>>
        /\ UNCHANGED <<netVars, proxyVars, accidents>>
        /\ gated' = [gated EXCEPT ![b] = {}]
    BY <1>4 DEF DropBacked
  <2>2. OneEach'
    BY <1>t, <2>1 DEF OrderInv, OneEach
  <2> QED
    BY <2>1, <2>2, SameOrder DEF netVars, proxyVars
<1>5. ASSUME NEW c \in Conns, HandlerEnds(c) PROVE OrderInv'
  <2>1. /\ UNCHANGED <<storeVars, wire, proxyVars, accidents>>
        /\ stage' = [stage EXCEPT ![c] = "closed"]
        /\ toReplay' = IF c = conn THEN {} ELSE toReplay
    BY <1>5 DEF HandlerEnds
  <2>2. conn' # 0 /\ stage'[conn'] = "serving" => stage[conn] = "serving" /\ toReplay' = toReplay
    BY <1>t, <2>1 DEF proxyVars
  <2>3. OneEach'
    BY <1>1, <2>1 DEF storeVars
  <2> QED
    BY <2>1, <2>2, <2>3, SameOrder DEF storeVars, proxyVars
<1>6. ASSUME BackendRestart PROVE OrderInv'
  <2>1. /\ UNCHANGED <<inputSeq, rows, numbered, wire, proxyVars, accidents>>
        /\ stage' = [c \in Conns |-> "closed"] /\ toReplay' = {}
        /\ gated' = [b \in Browsers |-> {}]
        /\ numbering' = [b \in Browsers |-> {}] /\ enqueuing' = [b \in Browsers |-> {}]
    BY <1>6 DEF BackendRestart
  <2>2. ~(conn' # 0 /\ stage'[conn'] = "serving")
    BY <1>t, <2>1 DEF proxyVars
  <2>3. /\ OneEach'
        /\ \A b \in Browsers : enqueuing'[b] \subseteq enqueuing[b] /\ numbering'[b] \subseteq numbering[b]
    BY <2>1 DEF OneEach
  <2> QED
    BY <2>1, <2>2, <2>3, SameOrder DEF proxyVars
<1>7. ASSUME Connect \/ AckRegistration PROVE OrderInv'
  <2>1. /\ UNCHANGED <<storeVars, toReplay, wire, inbox, handed, taken, refused, accidents>>
        /\ \/ /\ conn' = opened + 1 /\ stage' = [stage EXCEPT ![opened + 1] = "registered"]
              /\ opened < MaxConns
           \/ conn' = conn /\ conn # 0 /\ stage' = [stage EXCEPT ![conn] = "acked"]
    BY <1>7 DEF Connect, AckRegistration, proxyVars
  <2>2. opened < MaxConns => opened + 1 \in Conns
    BY InputBounds DEF TypeOK, NetTypeOK, Conns
  <2>3. ~(conn' # 0 /\ stage'[conn'] = "serving")
    BY <1>t, <2>1, <2>2
  <2>4. OneEach'
    BY <1>1, <2>1 DEF storeVars
  <2> QED
    BY <2>1, <2>3, <2>4, SameOrder DEF storeVars
<1>8. ASSUME ReportCompletion PROVE OrderInv'
  <2>1. UNCHANGED <<storeVars, stage, toReplay, wire, conn, inbox, handed, taken, refused, accidents>>
    BY <1>8 DEF ReportCompletion
  <2> QED
    BY <1>1, <2>1, SameOrder DEF storeVars
<1>9. ASSUME BackendStep PROVE OrderInv'
  BY <1>3, <1>4, <1>5, <1>6, <1>7, <1>9, NumberOrder, InsertOrder, HandOverOrder, ReportOrder,
     ReadRowsOrder, ReplayOrder DEF BackendStep
<1>10. ASSUME ProxyStep PROVE OrderInv'
  BY <1>7, <1>8, <1>10, DisconnectOrder, DeliverOrder, AgentOrder, StopOrder, DeliverFailsOrder,
     RelaunchOrder DEF ProxyStep
<1> QED
  BY <1>2, <1>9, <1>10 DEF Next

\* At first nothing has a number.
LEMMA OrderInit ==
  ASSUME Init
  PROVE  OrderInv
<1>1. Carried(handed) = <<>> /\ Pending = <<>> /\ Done = {} /\ numbered = {}
  <2>1. Carried(<<>>) = <<>>
    BY DEF Carried
  <2>2. <<>> \o <<>> = <<>>
    BY ConcatEmptySeq
  <2> QED
    BY <2>1, <2>2, EmptyHeld DEF Init, Pending, Done
<1>2. Known /\ OneEach
  BY <1>1, EmptyHeld DEF Init, Known, OneEach
<1>3. Numbering
  BY <1>1 DEF Init, Numbering
<1>4. /\ TakenInOrder /\ HandedInOrder /\ PendingInOrder /\ ReplayInOrder /\ ServesAll /\ RowsKept
      /\ NumberedAhead
  BY <1>1, NoGapEmpty DEF Init, TakenInOrder, HandedInOrder, PendingInOrder, ReplayInOrder,
     ServesAll, RowsKept, NumberedAhead
<1> QED
  BY <1>2, <1>3, <1>4 DEF OrderInv, Gapless

\* Short of an accident no frame comes to the agent before one with a lower
\* number.
THEOREM InputOrder == Spec => []OrderInv
<1>1. TypeOK /\ Settled /\ OrderInv /\ [Next]_vars => OrderInv'
  <2>1. ASSUME OrderInv, UNCHANGED vars PROVE OrderInv'
    <3>1. UNCHANGED <<storeVars, netVars, proxyVars, accidents>>
      BY <2>1 DEF vars
    <3>2. OneEach'
      BY <2>1, <3>1 DEF storeVars, OrderInv, OneEach
    <3> QED
      BY <2>1, <3>1, <3>2, SameOrder DEF storeVars, netVars, proxyVars
  <2> QED
    BY <2>1, OrderStep
<1> QED
  BY <1>1, OrderInit, InputInvariant, PTL DEF Spec

\* Short of an accident a row lives until the agent took its input or refused
\* it: an ack, which covers all lower numbers, deletes none too early.
THEOREM InputKeptUntilTaken == Spec => []KeptUntilTaken
<1>1. OrderInv => KeptUntilTaken
  BY DEF OrderInv, RowsKept, Done, KeptUntilTaken, TakenFrames, ToSet
<1> QED
  BY <1>1, InputOrder, PTL

-----------------------------------------------------------------------------
(* The agent's inputs are a durable log                                    *)

Kept == {f.seq : f \in TakenFrames}
Gone == {0} \cup {f.seq : f \in refused} \cup Skipped

\* An accident is not forgotten.
LEMMA AccidentsStay ==
  ASSUME Next
  PROVE  accidents \subseteq accidents'
<1>1. BrowserStep => accidents' = accidents
  BY DEF BrowserStep, Type, WebDrop, WebConnect
<1>2. ProxyStep => accidents' = accidents
  BY DEF ProxyStep, Connect, Disconnect, DeliverInput, AgentAccepts, AgentRejects,
     ReportCompletion, AgentStops, DeliverFails, Relaunch
<1>3. ASSUME NEW b \in Browsers, NumberInput(b) \/ InsertRow(b) \/ HandOver(b)
      PROVE  accidents \subseteq accidents'
  BY <1>3 DEF NumberInput, InsertRow, HandOver, Accident
<1>4. ASSUME NEW b \in Browsers, HandleInput(b) \/ DropBacked(b) PROVE accidents' = accidents
  BY <1>4 DEF HandleInput, DropBacked
<1>5. ASSUME NEW c \in Conns, HandleReport(c) \/ HandlerEnds(c) PROVE accidents' = accidents
  BY <1>5 DEF HandleReport, HandlerEnds
<1>6. AckRegistration \/ ReplayRow \/ BackendRestart => accidents' = accidents
  BY DEF AckRegistration, ReplayRow, BackendRestart
<1>7. ReadRows => accidents \subseteq accidents'
  BY DEF ReadRows, Accident
<1> QED
  BY <1>1, <1>2, <1>3, <1>4, <1>5, <1>6, <1>7 DEF Next, BackendStep

\* The next input of the agent follows on those it took or refused.
LEMMA TakesNext ==
  ASSUME TypeOK, OrderInv, Clean, handed # <<>>
  PROVE  LET n == Head(handed).frame.seq IN
         /\ n \in 1..inputSeq
         /\ \A m \in 0..n : m < n => m \in Kept \cup Gone
<1>t. handed \in Seq(Commands) /\ Carried(handed) \in Seq(Frames) /\ numbered \subseteq Frames
      /\ inputSeq \in Nat
  BY OrderTypes
<1> DEFINE old == Carried(handed)
           f == Head(old)
<1>1. old # <<>> /\ f = Head(handed).frame
  BY <1>t, CarriedTail
<1>2. f \in ToSet(old) /\ NoGap(old, Done, numbered) /\ Numbering
  BY <1>t, <1>1, TailHeld DEF OrderInv, Gapless, HandedInOrder
<1>3. f \in numbered
  BY <1>2 DEF OrderInv, Known
<1>4. \A g \in numbered : g.seq <= f.seq => g \in Done \cup {f}
  BY <1>t, <1>1, <1>2, NoGapTail
<1> HIDE DEF f
<1>5. f.seq \in 1..inputSeq
  BY <1>2, <1>3 DEF Numbering
<1>7. \A b \in Browsers : \A g \in numbering[b] : f.seq < g.seq
  BY <1>2 DEF OrderInv, Gapless, NumberedAhead, Sent
<1>6. ASSUME NEW m \in 0..f.seq, m < f.seq PROVE m \in Kept \cup Gone
  <2>1. CASE m = 0
    BY <2>1 DEF Gone
  <2>2. CASE m # 0
    <3>1. m \in 1..inputSeq
      BY <1>t, <1>5, <1>6, <2>2
    <3>2. CASE \E g \in numbered : g.seq = m
      <4>1. PICK g \in numbered : g.seq = m
        BY <3>2
      <4>2. g.seq <= f.seq /\ g # f
        BY <1>t, <1>5, <1>6, <3>1, <4>1
      <4>3. g \in Done
        BY <1>4, <4>2
      <4> QED
        BY <4>1, <4>3 DEF Done, Kept, Gone, TakenFrames, ToSet
    <3>3. CASE ~\E g \in numbered : g.seq = m
      <4>1. \A b \in Browsers : \A g \in numbering[b] : g.seq # m
        BY <1>t, <1>5, <1>6, <1>7
      <4>2. m \in Skipped
        BY <3>1, <3>3, <4>1 DEF Skipped
      <4> QED
        BY <4>2 DEF Gone
    <3> QED
      BY <3>2, <3>3
  <2> QED
    BY <2>1, <2>2
<1> QED
  BY <1>1, <1>5, <1>6

\* While an input is being numbered its number is not skipped; one whose
\* handler a restart ended is.
LEMMA SkippedIs ==
  ASSUME TypeOK, OrderInv
  PROVE  /\ Skipped \subseteq 1..inputSeq
         /\ UNCHANGED <<inputSeq, numbered, numbering>> => Skipped' = Skipped
         /\ \A b \in Browsers : InsertRow(b) => Skipped' = Skipped
         /\ \A b \in Browsers : NumberInput(b) /\ Clean' => Skipped' = Skipped
         /\ BackendRestart => Skipped \subseteq Skipped' /\ Skipped' \subseteq 1..inputSeq
<1>t. inputSeq \in Nat /\ numbering \in [Browsers -> SUBSET Frames]
  BY OrderTypes
<1> DEFINE W == numbered \cup UNION {numbering[b] : b \in Browsers}
<1>1. Skipped = (1..inputSeq) \ {f.seq : f \in W}
  BY DEF Skipped
<1>2. Skipped' = (1..inputSeq') \ {f.seq : f \in W'}
  BY DEF Skipped
<1>3. ASSUME UNCHANGED <<inputSeq, numbered, numbering>> PROVE Skipped' = Skipped
  BY <1>3 DEF Skipped
<1>4. ASSUME NEW b \in Browsers, InsertRow(b) PROVE Skipped' = Skipped
  <2>1. PICK g \in numbering[b] : numbered' = numbered \cup {g}
    BY <1>4 DEF InsertRow, Enqueue
  <2>2. numbering' = [numbering EXCEPT ![b] = {}] /\ inputSeq' = inputSeq
    BY <1>4 DEF InsertRow
  <2>3. numbering[b] = {g}
    BY <2>1 DEF OrderInv, OneEach
  <2>4. W' = W
    <3>1. \A a \in Browsers : numbering'[a] = IF a = b THEN {} ELSE numbering[a]
      BY <1>t, <2>2
    <3> QED
      BY <2>1, <2>3, <3>1
  <2> QED
    BY <1>1, <1>2, <2>2, <2>4
<1>5. ASSUME NEW b \in Browsers, NumberInput(b), Clean' PROVE Skipped' = Skipped
  <2>1. PICK id \in gated[b] : Allocate(b, id)
    BY <1>5 DEF NumberInput, Accident, Clean
  <2> DEFINE g == [seq |-> inputSeq + 1, id |-> id]
  <2>2. inputSeq' = inputSeq + 1 /\ Numbers(b, g) /\ g.seq = inputSeq + 1
    BY <2>1 DEF Allocate
  <2> HIDE DEF g
  <2>3. numbering' = [numbering EXCEPT ![b] = {g}] /\ numbered' = numbered
    BY <2>2 DEF Numbers
  <2>4. numbering[b] = {}
    BY <2>1 DEF OrderInv, OneEach
  <2>5. W' = W \cup {g}
    <3>1. \A a \in Browsers : numbering'[a] = IF a = b THEN {g} ELSE numbering[a]
      BY <1>t, <2>3
    <3> QED
      BY <2>3, <2>4, <3>1
  <2>6. {f.seq : f \in W'} = {f.seq : f \in W} \cup {inputSeq + 1}
    BY <2>2, <2>5
  <2>7. 1..inputSeq' = (1..inputSeq) \cup {inputSeq + 1} /\ inputSeq + 1 \notin 1..inputSeq
    BY <1>t, <2>2
  <2> HIDE DEF W
  <2> QED
    BY <1>1, <1>2, <2>6, <2>7
<1>6. ASSUME BackendRestart PROVE Skipped \subseteq Skipped' /\ Skipped' \subseteq 1..inputSeq
  <2>1. numbered' = numbered /\ inputSeq' = inputSeq /\ \A b \in Browsers : numbering'[b] = {}
    BY <1>6 DEF BackendRestart
  <2> QED
    BY <1>1, <1>2, <2>1
<1> QED
  BY <1>1, <1>3, <1>4, <1>5, <1>6

\* Every step is a step of the abstract log, or leaves it alone.
LEMMA LogStep ==
  ASSUME TypeOK, TypeOK', OrderInv, OrderInv', Next
  PROVE  Log!Next \/ UNCHANGED Log!vars
<1>t. numbered \subseteq Frames /\ inputSeq \in Nat /\ taken \in Seq(Frames) /\ refused \subseteq Frames
  BY OrderTypes
<1>1. CASE ~Clean'
  BY <1>1 DEF Log!Next, Log!Lapse
<1>2. CASE Clean'
  <2>1. Clean /\ accidents' = accidents
    BY <1>2, AccidentsStay DEF Clean
  <2>s. UNCHANGED <<inputSeq, numbered, numbering>> => Skipped' = Skipped
    BY SkippedIs
  <2>2. ASSUME UNCHANGED <<inputSeq, taken, refused>>, Skipped' = Skipped
        PROVE  UNCHANGED Log!vars
    BY <2>1, <2>2 DEF Log!vars, TakenFrames, Clean
  <2>3. ASSUME UNCHANGED <<inputSeq, taken>>, refused \subseteq refused',
               Skipped \subseteq Skipped', Skipped' \subseteq 1..inputSeq
        PROVE  Log!GiveUp
    <3>1. \A f \in refused' : f.seq \in 1..inputSeq
      <4>1. refused' \subseteq numbered' /\ Numbering'
        BY <1>2 DEF OrderInv, Known, Done
      <4> QED
        BY <2>3, <4>1 DEF Numbering
    <3>2. Gone \subseteq Gone' /\ Gone' \subseteq Gone \cup {m \in 0..inputSeq + 1 : m < inputSeq + 1}
      <4>1. \A m \in 1..inputSeq : m \in {n \in 0..inputSeq + 1 : n < inputSeq + 1}
        BY <1>t
      <4> QED
        BY <2>3, <3>1, <4>1 DEF Gone
    <3>3. TakenFrames' = TakenFrames /\ Clean' = Clean
      BY <2>1, <2>3 DEF TakenFrames, Clean
    <3> QED
      BY <2>3, <3>2, <3>3 DEF Log!GiveUp, Log!Below, Gone
  <2>4. ASSUME NEW b \in Browsers, NumberInput(b) PROVE Log!Number
    <3>1. UNCHANGED <<taken, refused>>
      BY <2>4 DEF NumberInput, proxyVars
    <3>2. inputSeq' = inputSeq + 1
      BY <1>2, <2>4 DEF NumberInput, Allocate, Accident, Clean
    <3>3. UNCHANGED <<TakenFrames, Clean>>
      BY <2>1, <3>1 DEF TakenFrames, Clean
    <3>4. Skipped' = Skipped
      BY <1>2, <2>4, SkippedIs
    <3> QED
      BY <1>t, <3>1, <3>2, <3>3, <3>4 DEF Log!Number
  <2>12. ASSUME NEW b \in Browsers, InsertRow(b) PROVE UNCHANGED Log!vars
    <3>1. Skipped' = Skipped
      BY <2>12, SkippedIs
    <3> QED
      BY <2>2, <2>12, <3>1 DEF InsertRow, proxyVars
  <2>5. ASSUME AgentAccepts PROVE Log!Keep
    <3> DEFINE f == Head(handed).frame
    <3>1. handed # <<>> /\ taken' = Append(taken, f) /\ UNCHANGED <<inputSeq, refused>>
      BY <2>5 DEF AgentAccepts, storeVars
    <3>8. Skipped' = Skipped
      BY <2>5, <2>s DEF AgentAccepts, storeVars
    <3>2. handed \in Seq(Commands) /\ f \in Frames
      <4>1. handed \in Seq(Commands)
        BY OrderTypes
      <4>2. Head(handed) \in Commands
        BY <3>1, <4>1, HeadTailProperties
      <4> QED
        BY <4>1, <4>2 DEF Commands
    <3>3. /\ f.seq \in 1..inputSeq
          /\ \A m \in 0..f.seq : m < f.seq => m \in Kept \cup Gone
      BY <2>1, <3>1, TakesNext
    <3> HIDE DEF f
    <3>4. TakenFrames' = TakenFrames \cup {f}
      <4>1. ToSet(Append(taken, f)) = ToSet(taken) \cup {f}
        BY <1>t, <3>2, AppendHeld
      <4> QED
        BY <3>1, <4>1 DEF TakenFrames, ToSet
    <3>5. Kept' = Kept \cup {f.seq}
      BY <3>4 DEF Kept
    <3>6. f.seq \in Log!Below(inputSeq + 1) /\ Log!Below(f.seq) \subseteq Kept \cup Gone
      BY <1>t, <3>3 DEF Log!Below
    <3>7. Clean' = Clean
      BY <2>1 DEF Clean
    <3> QED
      BY <3>1, <3>5, <3>6, <3>7, <3>8 DEF Log!Keep, Kept, Gone
  <2>6. ASSUME AgentRejects \/ AgentStops \/ DeliverFails PROVE Log!GiveUp
    <3>1. UNCHANGED <<inputSeq, taken, numbered, numbering>> /\ refused \subseteq refused'
      BY <2>6 DEF AgentRejects, AgentStops, DeliverFails, storeVars
    <3>2. Skipped' = Skipped /\ Skipped \subseteq 1..inputSeq
      BY <2>s, <3>1, SkippedIs
    <3> QED
      BY <2>3, <3>1, <3>2
  <2>13. ASSUME BackendRestart PROVE Log!GiveUp
    <3>1. UNCHANGED <<inputSeq, taken, refused>>
      BY <2>13 DEF BackendRestart, proxyVars
    <3>2. Skipped \subseteq Skipped' /\ Skipped' \subseteq 1..inputSeq
      BY <2>13, SkippedIs
    <3> QED
      BY <2>3, <3>1, <3>2
  <2>7. ASSUME NEW b \in Browsers, HandleInput(b) \/ DropBacked(b) \/ HandOver(b)
        PROVE  UNCHANGED Log!vars
    BY <2>2, <2>s, <2>7 DEF HandleInput, DropBacked, HandOver, proxyVars
  <2>8. ASSUME NEW c \in Conns, HandleReport(c) \/ HandlerEnds(c) PROVE UNCHANGED Log!vars
    BY <2>2, <2>s, <2>8 DEF HandleReport, HandlerEnds, proxyVars, storeVars
  <2>9. ASSUME AckRegistration \/ ReadRows \/ ReplayRow
        PROVE  UNCHANGED Log!vars
    BY <2>2, <2>s, <2>9 DEF AckRegistration, ReadRows, ReplayRow, proxyVars, storeVars
  <2>10. ASSUME Connect \/ Disconnect \/ DeliverInput \/ ReportCompletion \/ Relaunch
         PROVE  UNCHANGED Log!vars
    BY <2>2, <2>s, <2>10 DEF Connect, Disconnect, DeliverInput, ReportCompletion, Relaunch, storeVars
  <2>11. ASSUME BrowserStep PROVE UNCHANGED Log!vars
    BY <2>2, <2>s, <2>11 DEF BrowserStep, Type, WebDrop, WebConnect, proxyVars, storeVars
  <2> HIDE DEF Log!vars, Log!Number, Log!Keep, Log!GiveUp
  <2> QED
    BY <2>4, <2>5, <2>6, <2>7, <2>8, <2>9, <2>10, <2>11, <2>12, <2>13
       DEF Next, BackendStep, ProxyStep, Log!Next
<1> QED
  BY <1>1, <1>2

\* Short of an accident the agent takes inputs in the order of their numbers,
\* leaving out only what it refused and what a restart kept from its row: its
\* inputs are a durable log.
THEOREM InputsInOrder == Spec => InOrder
<1>1. Init => Log!Init
  <2> SUFFICES ASSUME Init PROVE Log!Init
    OBVIOUS
  <2>1. TakenFrames = {} /\ refused = {} /\ inputSeq = 0 /\ Clean
    BY DEF Init, TakenFrames, Clean
  <2>2. Skipped = {}
    BY <2>1 DEF Skipped
  <2> QED
    BY <2>1, <2>2 DEF Log!Init
<1>2. TypeOK /\ TypeOK' /\ OrderInv /\ OrderInv' /\ [Next]_vars => [Log!Next]_(Log!vars)
  <2>1. UNCHANGED vars => UNCHANGED Log!vars
    BY DEF vars, storeVars, proxyVars, Log!vars, TakenFrames, Clean, Skipped
  <2> QED
    BY <2>1, LogStep
<1> QED
  BY <1>1, <1>2, InputTypeOK, InputOrder, PTL DEF Spec, InOrder, Log!Spec

-----------------------------------------------------------------------------
(* Resending is idempotent                                                 *)

\* The inputs the gate tracks are those of its entries.
LEMMA GateIdsAre ==
  ASSUME gate \in Seq(Entries)
  PROVE  /\ Len(gate) \in Nat /\ DOMAIN gate = 1..Len(gate)
         /\ \A i \in 1..Len(gate) : gate[i] \in Entries /\ gate[i].id \in GateIds
         /\ \A id : id \in GateIds <=> \E i \in 1..Len(gate) : gate[i].id = id
         /\ \A id : Tracked(id) <=> id \in GateIds
<1>1. Len(gate) \in Nat /\ DOMAIN gate = 1..Len(gate) /\ \A i \in 1..Len(gate) : gate[i] \in Entries
  BY LenProperties, ElementOfSeq
<1>2. \A id : id \in GateIds <=> \E i \in 1..Len(gate) : gate[i].id = id
  BY <1>1 DEF GateIds, ToSet
<1>3. \A id : Tracked(id) <=> id \in GateIds
  BY DEF Tracked, GateEntries, GateIds, ToSet
<1> QED
  BY <1>1, <1>2, <1>3

\* As long as no more inputs were typed than the gate holds, there is room for
\* one it does not know.
LEMMA GateRoom ==
  ASSUME gate \in Seq(Entries), typed \in Nat, GateOnce, GateIds \subseteq 1..typed,
         NEW id \in 1..typed, id \notin GateIds, typed <= GateCap
  PROVE  Len(gate) < GateCap
<1> DEFINE n == Len(gate)
           T == (1..typed) \ {id}
           f == [i \in 1..n |-> gate[i].id]
<1>1. n \in Nat /\ DOMAIN gate = 1..n /\ \A i \in 1..n : gate[i].id \in GateIds
  BY GateIdsAre
<1>2. f \in [1..n -> T] /\ \A i, j \in 1..n : f[i] = f[j] => i = j
  BY <1>1 DEF GateOnce
<1>3. IsFiniteSet(T) /\ Cardinality(T) = typed - 1
  <2>1. IsFiniteSet(1..typed) /\ Cardinality(1..typed) = typed
    BY FS_Interval
  <2> QED
    BY <2>1, FS_RemoveElement
<1> HIDE DEF n
<1>4. IsFiniteSet(1..n) /\ Cardinality(1..n) = n
  <2>1. IsFiniteSet(1..n) /\ Cardinality(1..n) = IF 1 > n THEN 0 ELSE n - 1 + 1
    BY <1>1, FS_Interval
  <2> QED
    BY <1>1, <2>1
<1> HIDE DEF T, f
<1>5. ~(typed - 1 < n)
  <2> SUFFICES ASSUME Cardinality(T) < Cardinality(1..n) PROVE FALSE
    BY <1>3, <1>4
  <2>1. \E i, j \in 1..n : i # j /\ f[i] = f[j]
    BY <1>2, <1>3, <1>4, FS_PigeonHole
  <2> QED
    BY <1>2, <2>1
<1> QED
  BY <1>1, <1>5, InputBounds DEF n

\* The gate remembers an input it does not know.
LEMMA RememberGate ==
  ASSUME gate \in Seq(Entries), typed \in Nat, GateOnce, GateBounded, GateIds \subseteq 1..typed,
         NEW id \in 1..typed, id \in Inputs, ~Tracked(id), NEW state \in GateStates,
         gate' = Remember(id, state)
  PROVE  /\ GateOnce' /\ GateBounded' /\ GateIds' \subseteq GateIds \cup {id}
         /\ typed <= GateCap => GateIds' = GateIds \cup {id}
<1> DEFINE n == Len(gate)
           old == IF n < GateCap THEN gate ELSE Tail(gate)
           m == Len(old)
           e == [id |-> id, state |-> state]
<1>1. /\ n \in Nat /\ DOMAIN gate = 1..n /\ id \notin GateIds /\ n <= GateCap
      /\ \A i \in 1..n : gate[i] \in Entries /\ gate[i].id \in GateIds
  BY GateIdsAre DEF GateBounded
<1>2. e \in Entries /\ e.id = id
  BY DEF Entries
<1>3. /\ old \in Seq(Entries) /\ m \in Nat /\ m < GateCap
      /\ \A i \in 1..m : old[i].id \in GateIds
      /\ \A i, j \in 1..m : old[i].id = old[j].id => i = j
  <2>1. CASE n < GateCap
    BY <1>1, <2>1 DEF GateOnce
  <2>2. CASE ~(n < GateCap)
    <3>1. old = Tail(gate) /\ gate # <<>>
      BY <1>1, <2>2, InputBounds, EmptySeq
    <3>2. Tail(gate) \in Seq(Entries) /\ Len(Tail(gate)) = n - 1
          /\ \A i \in 1..n - 1 : Tail(gate)[i] = gate[i + 1]
      BY <3>1, HeadTailProperties
    <3>3. m = n - 1 /\ n \in Nat \ {0} /\ \A i \in 1..m : i + 1 \in 1..n /\ old[i] = gate[i + 1]
      BY <1>1, <2>2, <3>1, <3>2, InputBounds
    <3> HIDE DEF m, n, old
    <3>4. \A i \in 1..m : old[i].id \in GateIds
      BY <1>1, <3>3
    <3>5. ASSUME NEW i \in 1..m, NEW j \in 1..m, old[i].id = old[j].id PROVE i = j
      <4>1. i + 1 \in DOMAIN gate /\ j + 1 \in DOMAIN gate
        BY <1>1, <3>3
      <4>2. gate[i + 1].id = gate[j + 1].id
        BY <3>3, <3>5
      <4>3. i + 1 = j + 1
        BY <4>1, <4>2 DEF GateOnce
      <4> QED
        BY <3>3, <4>3
    <3>6. m \in Nat /\ m < GateCap
      BY <1>1, <3>3, InputBounds
    <3> QED
      BY <3>1, <3>2, <3>4, <3>5, <3>6
  <2> QED
    BY <2>1, <2>2
<1>4. gate' = Append(old, e)
  BY DEF Remember
<1>5. typed <= GateCap => old = gate
  BY <1>1, GateRoom
<1> HIDE DEF m, n, old, e
<1>6. /\ Append(old, e) \in Seq(Entries) /\ Len(Append(old, e)) = m + 1
      /\ Append(old, e)[m + 1] = e /\ \A i \in 1..m : Append(old, e)[i] = old[i]
  BY <1>2, <1>3, AppendProperties DEF m
<1>7. DOMAIN gate' = 1..m + 1 /\ Len(gate') = m + 1
  BY <1>3, <1>4, <1>6, LenProperties
<1>8. \A i \in 1..m + 1 : i \in 1..m \/ i = m + 1
  BY <1>3
<1>9. GateOnce'
  BY <1>1, <1>2, <1>3, <1>4, <1>6, <1>7, <1>8 DEF GateOnce
<1>10. GateBounded'
  BY <1>3, <1>7, InputBounds DEF GateBounded
<1>11. ToSet(gate') = ToSet(old) \cup {e}
  BY <1>2, <1>3, <1>4, AppendHeld
<1>12. GateIds' = {x.id : x \in ToSet(old)} \cup {id}
  BY <1>2, <1>11 DEF GateIds
<1>13. \A x \in ToSet(old) : x.id \in GateIds
  <2>1. DOMAIN old = 1..m
    BY <1>3, LenProperties DEF m
  <2> QED
    BY <1>3, <2>1 DEF ToSet
<1> QED
  BY <1>5, <1>9, <1>10, <1>12, <1>13 DEF GateIds

\* A terminal stage is remembered too, and forgets nothing as long as there is
\* room.
LEMMA SettleGate ==
  ASSUME gate \in Seq(Entries), typed \in Nat, GateOnce, GateBounded, GateIds \subseteq 1..typed,
         NEW id \in 1..typed, id \in Inputs, NEW outcome \in Outcomes, Settle(id, outcome)
  PROVE  /\ GateOnce' /\ GateBounded' /\ GateIds' \subseteq GateIds \cup {id}
         /\ typed <= GateCap => GateIds \subseteq GateIds'
<1>1. CASE Tracked(id)
  <2>1. gate' = GateAfter(id, outcome)
    BY <1>1 DEF Settle, GateAfter
  <2>2. /\ gate' \in Seq(Entries) /\ Len(gate') = Len(gate)
        /\ \A i \in DOMAIN gate : gate'[i].id = gate[i].id
    BY <2>1, GateAfterIs
  <2>3. DOMAIN gate' = DOMAIN gate
    BY <2>2, LenProperties
  <2>4. GateOnce' /\ GateBounded'
    BY <2>2, <2>3 DEF GateOnce, GateBounded
  <2>5. GateIds' = GateIds
    BY <2>2, <2>3 DEF GateIds, ToSet
  <2> QED
    BY <2>4, <2>5
<1>2. CASE ~Tracked(id)
  <2>1. gate' = Remember(id, outcome) /\ outcome \in GateStates
    BY <1>2 DEF Settle, GateStates
  <2> QED
    BY <1>2, <2>1, RememberGate
<1> QED
  BY <1>1, <1>2

ResendInv == TypedOnly /\ GateKnows /\ RowsOnce /\ RowFree

\* The types resends are about.
LEMMA ResendTypes ==
  ASSUME TypeOK
  PROVE  /\ typed \in Nat /\ typed <= MaxInputs /\ 1..typed \subseteq Inputs
         /\ outbox \in [Browsers -> Seq(Inputs)] /\ webWire \in [Browsers -> Seq(Inputs)]
         /\ gate \in Seq(Entries) /\ gated \in [Browsers -> SUBSET Inputs]
         /\ numbering \in [Browsers -> SUBSET Frames]
<1>1. typed \in Nat /\ typed <= MaxInputs
  BY InputBounds DEF TypeOK, WebTypeOK
<1>2. 1..typed \subseteq Inputs
  BY <1>1, InputBounds DEF Inputs
<1> QED
  BY <1>1, <1>2 DEF TypeOK, WebTypeOK, StoreTypeOK, Entries

\* A step that touches no gate, outbox or number keeps the invariant of resends.
LEMMA SameResend ==
  ASSUME ResendInv, UNCHANGED <<typed, outbox, webWire, gate, gated, numbering, numbered>>,
         UNCHANGED <<remembered, rows>>, accidents \subseteq accidents'
  PROVE  ResendInv'
<1>1. GateIds' = GateIds /\ \A b \in Browsers : InHand(b)' = InHand(b)
  BY DEF GateIds, InHand
<1>2. TypedOnly'
  BY <1>1 DEF ResendInv, TypedOnly
<1>3. GateKnows'
  BY <1>1 DEF ResendInv, GateKnows, GateOnce, GateBounded, GateComplete
<1>4. RowsOnce' /\ RowFree'
  BY DEF ResendInv, RowsOnce, RowFree
<1> QED
  BY <1>2, <1>3, <1>4 DEF ResendInv

\* A browser sends again what it holds, and nothing else.
LEMMA BrowserResend ==
  ASSUME TypeOK, ResendInv, BrowserStep
  PROVE  ResendInv'
<1>t. /\ typed \in Nat /\ outbox \in [Browsers -> Seq(Inputs)] /\ webWire \in [Browsers -> Seq(Inputs)]
  BY ResendTypes
<1>1. UNCHANGED <<gate, gated, numbering, numbered, remembered, rows, accidents>>
  BY DEF BrowserStep, Type, WebDrop, WebConnect, storeVars
<1>2. GateIds' = GateIds /\ \A a \in Browsers : InHand(a)' = InHand(a)
  BY <1>1 DEF GateIds, InHand
<1>3. PICK b \in Browsers : Type(b) \/ WebDrop(b) \/ WebConnect(b)
  BY DEF BrowserStep
<1>4. typed' \in {typed, typed + 1}
  BY <1>3 DEF Type, WebDrop, WebConnect
<1>5. typed <= typed' /\ 1..typed \subseteq 1..typed' /\ typed' \in Nat
  BY <1>t, <1>4
<1>6. ASSUME NEW a \in Browsers
      PROVE  ToSet(outbox'[a]) \subseteq 1..typed' /\ ToSet(webWire'[a]) \subseteq 1..typed'
  <2>1. ToSet(outbox[a]) \subseteq 1..typed /\ ToSet(webWire[a]) \subseteq 1..typed
    BY DEF ResendInv, TypedOnly
  <2>2. CASE Type(b)
    <3> DEFINE id == typed + 1
    <3>1. id \in 1..typed' /\ id \in Inputs
      BY <1>t, <2>2, InputBounds DEF Type, Inputs, TypeOK, WebTypeOK
    <3>2. /\ outbox'[a] \in {outbox[a], Recorded(outbox[a], id)}
          /\ webWire'[a] \in {webWire[a], Append(webWire[a], id)}
      BY <1>t, <2>2 DEF Type
    <3> HIDE DEF id
    <3>3. ToSet(Recorded(outbox[a], id)) \subseteq ToSet(outbox[a]) \cup {id}
      BY <1>t, <3>1, RecordedIs
    <3>4. ToSet(Append(webWire[a], id)) = ToSet(webWire[a]) \cup {id}
      BY <1>t, <3>1, AppendHeld
    <3> QED
      BY <1>5, <2>1, <3>1, <3>2, <3>3, <3>4
  <2>3. CASE WebDrop(b)
    <3>1. outbox' = outbox
      BY <2>3 DEF WebDrop
    <3>2. PICK n \in 0..Len(webWire[b]) : webWire' = [webWire EXCEPT ![b] = SubSeq(@, 1, n)]
      BY <2>3 DEF WebDrop
    <3>3. a = b => ToSet(webWire'[a]) \subseteq ToSet(webWire[a])
      <4>1. ToSet(SubSeq(webWire[b], 1, n)) \subseteq ToSet(webWire[b])
        BY <1>t, PartHeld
      <4> QED
        BY <1>t, <3>2, <4>1
    <3>4. a # b => webWire'[a] = webWire[a]
      BY <1>t, <3>2
    <3> QED
      BY <1>5, <2>1, <3>1, <3>3, <3>4
  <2>4. CASE WebConnect(b)
    <3>1. outbox' = outbox /\ webWire'[a] \in {webWire[a], webWire[a] \o outbox[a]}
      BY <1>t, <2>4 DEF WebConnect
    <3>2. ToSet(webWire[a] \o outbox[a]) = ToSet(webWire[a]) \cup ToSet(outbox[a])
      BY <1>t, ConcatHeld
    <3> QED
      BY <1>5, <2>1, <3>1, <3>2
  <2> QED
    BY <1>3, <2>2, <2>3, <2>4
<1>7. TypedOnly'
  BY <1>1, <1>2, <1>5, <1>6 DEF ResendInv, TypedOnly
<1>8. GateOnce' /\ GateBounded' /\ RowsOnce' /\ RowFree'
  BY <1>1 DEF ResendInv, GateKnows, GateOnce, GateBounded, RowsOnce, RowFree
<1>9. GateComplete'
  <2>1. typed' <= GateCap => typed <= GateCap
    BY <1>5, <1>t, InputBounds
  <2> QED
    BY <1>1, <1>2, <2>1 DEF ResendInv, GateKnows, GateComplete
<1> QED
  BY <1>7, <1>8, <1>9 DEF ResendInv, GateKnows

\* The gate lets an input pass that it does not know, and knows it from then on.
LEMMA GateResend ==
  ASSUME TypeOK, ResendInv, NEW b \in Browsers, HandleInput(b)
  PROVE  ResendInv'
<1>t. /\ typed \in Nat /\ outbox \in [Browsers -> Seq(Inputs)] /\ webWire \in [Browsers -> Seq(Inputs)]
      /\ gate \in Seq(Entries) /\ gated \in [Browsers -> SUBSET Inputs] /\ 1..typed \subseteq Inputs
  BY ResendTypes
<1> DEFINE id == Head(webWire[b])
<1>1. /\ UNCHANGED <<typed, numbering, numbered, remembered, rows, accidents>> /\ webWire[b] # <<>>
      /\ webWire' = [webWire EXCEPT ![b] = Tail(@)] /\ gated[b] = {} /\ PassGate(b, id)
  BY DEF HandleInput
<1>2. ToSet(webWire[b]) = ToSet(Tail(webWire[b])) \cup {id}
  BY <1>t, <1>1, TailHeld
<1>3. id \in 1..typed /\ id \in Inputs
  <2>1. ToSet(webWire[b]) \subseteq 1..typed
    BY DEF ResendInv, TypedOnly
  <2> QED
    BY <1>t, <1>2, <2>1
<1> HIDE DEF id
<1>4. \A a \in Browsers : ToSet(webWire'[a]) \subseteq 1..typed
  <2>1. \A a \in Browsers : ToSet(webWire'[a]) \subseteq ToSet(webWire[a])
    BY <1>t, <1>1, <1>2
  <2> QED
    BY <2>1 DEF ResendInv, TypedOnly
<1>5. \A a \in Browsers : ToSet(outbox'[a]) \subseteq 1..typed
  <2>1. \A a \in Browsers : ToSet(Resolved(outbox[a], id)) \subseteq ToSet(outbox[a])
    BY <1>t, ResolvedIs
  <2>2. outbox' = outbox \/ outbox' = [outbox EXCEPT ![b] = Resolved(@, id)]
    BY <1>1 DEF PassGate
  <2>3. \A a \in Browsers : ToSet(outbox'[a]) \subseteq ToSet(outbox[a])
    BY <1>t, <2>1, <2>2
  <2> QED
    BY <2>3 DEF ResendInv, TypedOnly
<1>6. RowsOnce' /\ RowFree'
  BY <1>1 DEF ResendInv, RowsOnce, RowFree
<1>7. CASE Tracked(id)
  <2>1. UNCHANGED <<gate, gated>>
    BY <1>1, <1>7 DEF PassGate
  <2>2. GateIds' = GateIds /\ \A a \in Browsers : InHand(a)' = InHand(a)
    BY <1>1, <2>1 DEF GateIds, InHand
  <2>3. TypedOnly'
    BY <1>1, <1>4, <1>5, <2>1, <2>2 DEF ResendInv, TypedOnly
  <2>4. GateKnows'
    BY <1>1, <2>1, <2>2 DEF ResendInv, GateKnows, GateOnce, GateBounded, GateComplete
  <2> QED
    BY <1>6, <2>3, <2>4 DEF ResendInv
<1>8. CASE ~Tracked(id)
  <2>1. gate' = Remember(id, "in flight") /\ gated' = [gated EXCEPT ![b] = {id}]
    BY <1>1, <1>8 DEF PassGate
  <2>2. id \notin GateIds
    BY <1>t, <1>8, GateIdsAre
  <2>3. GateOnce /\ GateBounded /\ GateIds \subseteq 1..typed /\ "in flight" \in GateStates
    BY DEF ResendInv, GateKnows, TypedOnly, GateStates
  <2>4. /\ GateOnce' /\ GateBounded' /\ GateIds' \subseteq GateIds \cup {id}
        /\ typed <= GateCap => GateIds' = GateIds \cup {id}
    BY <1>t, <1>3, <1>8, <2>1, <2>3, RememberGate
  <2>5. \A a \in Browsers : InHand(a)' \subseteq InHand(a) \cup (IF a = b THEN {id} ELSE {})
    <3>1. \A a \in Browsers : gated'[a] = IF a = b THEN {id} ELSE gated[a]
      BY <1>t, <2>1
    <3> QED
      BY <1>1, <3>1 DEF InHand
  <2>6. TypedOnly'
    <3>1. \A a \in Browsers : InHand(a)' \subseteq 1..typed
      BY <1>3, <2>5 DEF ResendInv, TypedOnly
    <3> QED
      BY <1>1, <1>3, <1>4, <1>5, <2>3, <2>4, <3>1 DEF ResendInv, TypedOnly
  <2>7. GateComplete'
    <3> SUFFICES ASSUME typed <= GateCap
                 PROVE  /\ remembered \subseteq GateIds'
                        /\ \A a \in Browsers : InHand(a)' \subseteq GateIds' \ remembered
      BY <1>1 DEF GateComplete
    <3>1. /\ remembered \subseteq GateIds
          /\ \A a \in Browsers : InHand(a) \subseteq GateIds \ remembered
      BY DEF ResendInv, GateKnows, GateComplete
    <3>2. GateIds' = GateIds \cup {id}
      BY <2>4
    <3>3. ASSUME NEW a \in Browsers PROVE InHand(a)' \subseteq GateIds' \ remembered
      BY <2>2, <2>5, <3>1, <3>2
    <3> QED
      BY <3>1, <3>2, <3>3
  <2> QED
    BY <1>6, <2>4, <2>6, <2>7 DEF ResendInv, GateKnows
<1> QED
  BY <1>7, <1>8

\* What a handler hands on under a number it let pass, no other handler has it
\* in hand, and the gate still knows it.
LEMMA EnqueueResend ==
  ASSUME TypeOK, ResendInv, Owned, NEW b \in Browsers, NEW f \in Frames, f.id \in InHand(b),
         Enqueue(b, f), InHand(b)' = {}, \A a \in Browsers : a # b => InHand(a)' = InHand(a),
         UNCHANGED <<typed, outbox, webWire, gate>>
  PROVE  /\ TypedOnly' /\ GateKnows'
         /\ \A g \in numbered' \ numbered : g.id \in remembered => typed > GateCap
<1>t. typed \in Nat
  BY ResendTypes
<1>1. numbered' = numbered \cup {f} /\ remembered' = remembered \cup {f.id}
  BY DEF Enqueue
<1>2. GateIds' = GateIds
  BY DEF GateIds
<1>3. TypedOnly'
  <2>1. f.id \in 1..typed
    BY DEF ResendInv, TypedOnly
  <2>2. \A g \in numbered' : g.id \in 1..typed
    BY <1>1, <2>1 DEF ResendInv, TypedOnly
  <2>3. \A a \in Browsers : InHand(a)' \subseteq 1..typed
    BY DEF ResendInv, TypedOnly
  <2> QED
    BY <1>2, <2>2, <2>3 DEF ResendInv, TypedOnly
<1>4. GateOnce' /\ GateBounded'
  BY DEF ResendInv, GateKnows, GateOnce, GateBounded
<1>5. ASSUME typed <= GateCap
      PROVE  /\ f.id \notin remembered /\ remembered' \subseteq GateIds
             /\ \A a \in Browsers : InHand(a)' \subseteq GateIds \ remembered'
  <2>1. /\ remembered \subseteq GateIds
        /\ \A a \in Browsers : InHand(a) \subseteq GateIds \ remembered
    BY <1>5 DEF ResendInv, GateKnows, GateComplete
  <2>2. f.id \in GateIds \ remembered
    BY <2>1
  <2>3. \A a \in Browsers : a # b => f.id \notin InHand(a)
    BY DEF Owned, Held
  <2> QED
    BY <1>1, <2>1, <2>2, <2>3
<1>6. GateComplete'
  BY <1>2, <1>5 DEF GateComplete
<1>7. \A g \in numbered' \ numbered : g.id \in remembered => typed > GateCap
  <2> SUFFICES ASSUME f.id \in remembered PROVE typed > GateCap
    BY <1>1
  <2> QED
    BY <1>t, <1>5, InputBounds
<1> QED
  BY <1>3, <1>4, <1>6, <1>7 DEF GateKnows

\* An input that gets a number stays in its handler's hand, or is handed on
\* without one.
LEMMA NumberResend ==
  ASSUME TypeOK, OrderInv, ResendInv, Owned, NEW b \in Browsers, NumberInput(b)
  PROVE  /\ ResendInv'
         /\ \A f \in numbered' \ numbered : f.id \in remembered => typed > GateCap
<1>t. /\ typed \in Nat /\ gated \in [Browsers -> SUBSET Inputs]
      /\ numbering \in [Browsers -> SUBSET Frames] /\ inputSeq \in Nat
  BY ResendTypes, OrderTypes
<1>1. /\ UNCHANGED <<typed, outbox, webWire, gate, rows>>
      /\ gated' = [gated EXCEPT ![b] = {}]
  BY DEF NumberInput, webVars
<1>2. PICK id \in gated[b] :
        \/ ~HasRow(id) /\ Allocate(b, id) /\ UNCHANGED accidents
        \/ NumberUnsafely(b, id) /\ Accident("database")
  BY DEF NumberInput
<1>3. /\ id \in InHand(b) /\ numbering[b] = {}
      /\ \A a \in Browsers : gated'[a] = IF a = b THEN {} ELSE gated[a]
  BY <1>t, <1>1, <1>2 DEF InHand, OrderInv, OneEach
<1>4. RowsOnce'
  BY <1>1, <1>2 DEF ResendInv, RowsOnce, Accident
<1>5. ASSUME NEW n \in Nat, Numbers(b, [seq |-> n, id |-> id]),
             (~HasRow(id) /\ UNCHANGED accidents) \/ Accident("database")
      PROVE  /\ TypedOnly' /\ GateKnows' /\ RowFree' /\ numbered' = numbered
  <2> DEFINE f == [seq |-> n, id |-> id]
  <2>1. Numbers(b, f) /\ f.id = id
    BY <1>5
  <2> HIDE DEF f
  <2>2. numbering' = [numbering EXCEPT ![b] = {f}] /\ UNCHANGED <<numbered, remembered>>
    BY <2>1 DEF Numbers
  <2>3. \A a \in Browsers : numbering'[a] = IF a = b THEN {f} ELSE numbering[a]
    BY <1>t, <2>2
  <2>4. \A a \in Browsers : InHand(a)' \subseteq InHand(a)
    BY <1>3, <2>1, <2>3 DEF InHand
  <2>5. GateIds' = GateIds
    BY <1>1 DEF GateIds
  <2>6. TypedOnly'
    BY <1>1, <2>2, <2>4, <2>5 DEF ResendInv, TypedOnly
  <2>7. GateKnows'
    BY <1>1, <2>2, <2>4, <2>5 DEF ResendInv, GateKnows, GateOnce, GateBounded, GateComplete
  <2>8. RowFree'
    <3>1. CASE Accident("database")
      BY <3>1 DEF Accident, RowFree
    <3>2. CASE ~HasRow(id) /\ UNCHANGED accidents
      BY <1>1, <2>1, <2>3, <3>2 DEF HasRow, ResendInv, RowFree
    <3> QED
      BY <1>5, <3>1, <3>2
  <2> QED
    BY <2>2, <2>6, <2>7, <2>8
<1>6. ASSUME Enqueue(b, [seq |-> 0, id |-> id]), numbering' = numbering, Accident("database")
      PROVE  /\ TypedOnly' /\ GateKnows' /\ RowFree'
             /\ \A f \in numbered' \ numbered : f.id \in remembered => typed > GateCap
  <2> DEFINE f == [seq |-> 0, id |-> id]
  <2>1. Enqueue(b, f) /\ f.id = id /\ f \in Frames
    BY <1>t, <1>2, <1>6 DEF Frames
  <2> HIDE DEF f
  <2>2. \A a \in Browsers : InHand(a)' = IF a = b THEN {} ELSE InHand(a)
    BY <1>3, <1>6 DEF InHand
  <2>3. RowFree'
    BY <1>6 DEF Accident, RowFree
  <2>4. f.id \in InHand(b)
    BY <1>3, <2>1
  <2>5. UNCHANGED <<typed, outbox, webWire, gate>>
    BY <1>1
  <2>6. InHand(b)' = {} /\ \A a \in Browsers : a # b => InHand(a)' = InHand(a)
    BY <2>2
  <2> QED
    BY <2>1, <2>3, <2>4, <2>5, <2>6, EnqueueResend
<1>7. \/ \E n \in Nat : Numbers(b, [seq |-> n, id |-> id]) /\
             ((~HasRow(id) /\ UNCHANGED accidents) \/ Accident("database"))
      \/ Enqueue(b, [seq |-> 0, id |-> id]) /\ numbering' = numbering /\ Accident("database")
  BY <1>t, <1>2 DEF Allocate, NumberUnsafely
<1> QED
  BY <1>4, <1>5, <1>6, <1>7 DEF ResendInv

\* An input that gets its row had none.
LEMMA InsertResend ==
  ASSUME TypeOK, OrderInv, ResendInv, Owned, NEW b \in Browsers, InsertRow(b)
  PROVE  /\ ResendInv'
         /\ \A f \in numbered' \ numbered : f.id \in remembered => typed > GateCap
<1>t. numbering \in [Browsers -> SUBSET Frames]
  BY ResendTypes
<1>1. /\ UNCHANGED <<typed, outbox, webWire, gate, gated>>
      /\ numbering' = [numbering EXCEPT ![b] = {}]
  BY DEF InsertRow, webVars
<1>2. PICK f \in numbering[b] :
        /\ Enqueue(b, f)
        /\ \/ rows' = rows \cup {f} /\ UNCHANGED accidents
           \/ rows' = rows /\ Accident("database")
  BY DEF InsertRow
<1>3. f \in Frames /\ f.id \in InHand(b) /\ gated[b] = {}
  BY <1>t, <1>2 DEF InHand, OrderInv, OneEach
<1>4. \A a \in Browsers : numbering'[a] = IF a = b THEN {} ELSE numbering[a]
  BY <1>t, <1>1
<1>5. InHand(b)' = {} /\ \A a \in Browsers : a # b => InHand(a)' = InHand(a)
  BY <1>1, <1>3, <1>4 DEF InHand
<1>6. /\ TypedOnly' /\ GateKnows'
      /\ \A g \in numbered' \ numbered : g.id \in remembered => typed > GateCap
  BY <1>1, <1>2, <1>3, <1>5, EnqueueResend
<1>7. CASE rows' = rows /\ Accident("database")
  BY <1>6, <1>7 DEF Accident, ResendInv, RowsOnce, RowFree
<1>8. CASE rows' = rows \cup {f} /\ UNCHANGED accidents
  <2>1. CASE "database" \in accidents
    BY <1>6, <1>8, <2>1 DEF ResendInv, RowsOnce, RowFree
  <2>2. CASE "database" \notin accidents
    <3>1. \A r \in rows : r.id # f.id
      BY <1>2, <2>2 DEF ResendInv, RowFree
    <3>2. RowsOnce'
      BY <1>8, <3>1 DEF ResendInv, RowsOnce
    <3>3. ASSUME NEW a \in Browsers, NEW g \in numbering'[a] PROVE g \in numbering[a] /\ g.id # f.id
      <4>1. g \in numbering[a] /\ a # b
        BY <1>4, <3>3
      <4>2. g.id \in Held(a) /\ f.id \in Held(b)
        BY <1>3, <4>1 DEF Held, InHand
      <4> QED
        BY <4>1, <4>2 DEF Owned
    <3>4. RowFree'
      BY <1>8, <2>2, <3>3 DEF ResendInv, RowFree
    <3> QED
      BY <1>6, <3>2, <3>4 DEF ResendInv
  <2> QED
    BY <2>1, <2>2
<1> QED
  BY <1>2, <1>6, <1>7, <1>8

\* A report settles what was typed, and deletes rows only.
LEMMA ReportResend ==
  ASSUME TypeOK, Settled, OrderInv, ResendInv, NEW c \in Conns, HandleReport(c)
  PROVE  ResendInv'
<1>t. /\ typed \in Nat /\ outbox \in [Browsers -> Seq(Inputs)] /\ 1..typed \subseteq Inputs
      /\ gate \in Seq(Entries)
  BY ResendTypes
<1> DEFINE m == Head(reports[c])
<1>1. /\ UNCHANGED <<typed, webWire, gated, numbering, numbered, remembered, accidents>>
      /\ reports[c] # <<>>
      /\ IF m.kind = "ack" THEN DeleteRows(m.n) ELSE Settle(m.n, m.kind)
  BY DEF HandleReport
<1>h. \A b \in Browsers : InHand(b)' = InHand(b)
  BY <1>1 DEF InHand
<1>2. CASE m.kind = "ack"
  <2>1. UNCHANGED <<gate, outbox>> /\ rows' \subseteq rows
    BY <1>1, <1>2 DEF DeleteRows
  <2>2. GateIds' = GateIds
    BY <2>1 DEF GateIds
  <2>3. TypedOnly' /\ RowsOnce' /\ RowFree'
    BY <1>1, <1>h, <2>1, <2>2 DEF ResendInv, TypedOnly, RowsOnce, RowFree
  <2>4. GateKnows'
    BY <1>1, <1>h, <2>1, <2>2 DEF ResendInv, GateKnows, GateOnce, GateBounded, GateComplete
  <2> QED
    BY <2>3, <2>4 DEF ResendInv
<1>3. CASE m.kind # "ack"
  <2>1. m \in ToSet(reports[c]) /\ m.kind \in Outcomes
    BY <1>1, <1>3, ReportIs
  <2>2. m.n \in SettledIds
    BY <1>3, <2>1 DEF Settled
  <2> HIDE DEF m
  <2>3. m.n \in 1..typed /\ m.n \in Inputs
    BY <1>t, <2>2 DEF SettledIds, OrderInv, Known, ResendInv, TypedOnly
  <2>4. Settle(m.n, m.kind) /\ GateOnce /\ GateBounded /\ GateIds \subseteq 1..typed
    BY <1>1, <1>3 DEF ResendInv, GateKnows, TypedOnly
  <2>5. /\ GateOnce' /\ GateBounded' /\ GateIds' \subseteq GateIds \cup {m.n}
        /\ typed <= GateCap => GateIds \subseteq GateIds'
    BY <1>t, <2>1, <2>3, <2>4, SettleGate
  <2>6. \A b \in Browsers : ToSet(outbox'[b]) \subseteq ToSet(outbox[b])
    <3>1. outbox' = [b \in Browsers |-> IF webUp[b] THEN Resolved(outbox[b], m.n) ELSE outbox[b]]
      BY <2>4 DEF Settle
    <3> QED
      BY <1>t, <3>1, ResolvedIs
  <2>7. TypedOnly'
    BY <1>1, <1>h, <2>3, <2>4, <2>5, <2>6 DEF ResendInv, TypedOnly
  <2>8. GateComplete'
    BY <1>1, <1>h, <2>5 DEF ResendInv, GateKnows, GateComplete
  <2>9. RowsOnce' /\ RowFree'
    BY <1>1, <2>4 DEF Settle, ResendInv, RowsOnce, RowFree
  <2> QED
    BY <2>5, <2>7, <2>8, <2>9 DEF ResendInv, GateKnows
<1> QED
  BY <1>2, <1>3

\* A handler that finds a row has nothing in hand any more; nor has one of a
\* backend that just started.
LEMMA DropResend ==
  ASSUME TypeOK, ResendInv, (\E b \in Browsers : DropBacked(b)) \/ BackendRestart
  PROVE  ResendInv'
<1>t. typed \in Nat /\ gated \in [Browsers -> SUBSET Inputs] /\ gate \in Seq(Entries)
  BY ResendTypes
<1>1. CASE \E b \in Browsers : DropBacked(b)
  <2>1. /\ UNCHANGED <<typed, outbox, webWire, gate, numbering, numbered, remembered, rows>>
        /\ UNCHANGED accidents
    BY <1>1 DEF DropBacked, webVars
  <2>2. \A a \in Browsers : InHand(a)' \subseteq InHand(a)
    <3>1. \A a \in Browsers : gated'[a] \subseteq gated[a]
      BY <1>t, <1>1 DEF DropBacked
    <3> QED
      BY <2>1, <3>1 DEF InHand
  <2>3. GateIds' = GateIds
    BY <2>1 DEF GateIds
  <2>4. TypedOnly' /\ RowsOnce' /\ RowFree'
    BY <2>1, <2>2, <2>3 DEF ResendInv, TypedOnly, RowsOnce, RowFree
  <2>5. GateKnows'
    BY <2>1, <2>2, <2>3 DEF ResendInv, GateKnows, GateOnce, GateBounded, GateComplete
  <2> QED
    BY <2>4, <2>5 DEF ResendInv
<1>2. CASE BackendRestart
  <2>1. /\ UNCHANGED <<typed, outbox, numbered, rows, accidents>> /\ remembered' = {} /\ gate' = <<>>
        /\ gated' = [b \in Browsers |-> {}] /\ webWire' = [b \in Browsers |-> <<>>]
        /\ numbering' = [b \in Browsers |-> {}]
    BY <1>2 DEF BackendRestart
  <2>2. GateIds' = {} /\ \A a \in Browsers : InHand(a)' = {}
    BY <2>1, EmptyHeld DEF GateIds, InHand
  <2>3. TypedOnly' /\ RowsOnce' /\ RowFree'
    BY <2>1, <2>2, EmptyHeld DEF ResendInv, TypedOnly, RowsOnce, RowFree
  <2>4. Len(gate') = 0 /\ DOMAIN gate' = {}
    BY <2>1
  <2>5. GateOnce' /\ GateBounded' /\ GateComplete'
    BY <2>1, <2>2, <2>4, InputBounds DEF GateOnce, GateBounded, GateComplete
  <2> QED
    BY <2>3, <2>5 DEF ResendInv, GateKnows
<1> QED
  BY <1>1, <1>2

\* No input passes from one browser to another.
LEMMA OwnedStep ==
  ASSUME TypeOK, Settled, ResendInv, Owned, Next
  PROVE  Owned'
<1>t. /\ typed \in Nat /\ outbox \in [Browsers -> Seq(Inputs)] /\ webWire \in [Browsers -> Seq(Inputs)]
      /\ gated \in [Browsers -> SUBSET Inputs] /\ numbering \in [Browsers -> SUBSET Frames]
  BY ResendTypes
<1>1. ASSUME \A a \in Browsers : Held(a)' \subseteq Held(a) PROVE Owned'
  BY <1>1 DEF Owned
<1>2. UNCHANGED <<outbox, webWire, gated, numbering>> => Owned'
  BY DEF Owned, Held, InHand
<1>3. ASSUME NEW b \in Browsers, Type(b) PROVE Owned'
  <2> DEFINE id == typed + 1
  <2>1. id \in Inputs /\ UNCHANGED <<gated, numbering>>
    BY <1>t, <1>3, InputBounds DEF Type, storeVars, Inputs, TypeOK, WebTypeOK
  <2>2. \A a \in Browsers : /\ outbox'[a] \in {outbox[a], Recorded(outbox[a], id)}
                            /\ webWire'[a] \in {webWire[a], Append(webWire[a], id)}
                            /\ a # b => outbox'[a] = outbox[a] /\ webWire'[a] = webWire[a]
    BY <1>t, <1>3 DEF Type
  <2>3. \A a \in Browsers : id \notin Held(a)
    <3>1. id \notin 1..typed
      BY <1>t
    <3> QED
      BY <3>1 DEF Held, ResendInv, TypedOnly
  <2> HIDE DEF id
  <2>4. \A a \in Browsers : /\ ToSet(Recorded(outbox[a], id)) \subseteq ToSet(outbox[a]) \cup {id}
                            /\ ToSet(Append(webWire[a], id)) = ToSet(webWire[a]) \cup {id}
    BY <1>t, <2>1, RecordedIs, AppendHeld
  <2>5. \A a \in Browsers : Held(a)' \subseteq Held(a) \cup (IF a = b THEN {id} ELSE {})
    BY <2>1, <2>2, <2>4 DEF Held, InHand
  <2> QED
    BY <2>3, <2>5 DEF Owned
<1>4. ASSUME NEW b \in Browsers, WebDrop(b) PROVE Owned'
  <2>1. PICK n \in 0..Len(webWire[b]) : webWire' = [webWire EXCEPT ![b] = SubSeq(@, 1, n)]
    BY <1>4 DEF WebDrop
  <2>2. ToSet(SubSeq(webWire[b], 1, n)) \subseteq ToSet(webWire[b])
    BY <1>t, PartHeld
  <2>3. \A a \in Browsers : ToSet(webWire'[a]) \subseteq ToSet(webWire[a])
    BY <1>t, <2>1, <2>2
  <2>4. UNCHANGED <<outbox, gated, numbering>>
    BY <1>4 DEF WebDrop, storeVars
  <2> QED
    BY <1>1, <2>3, <2>4 DEF Held, InHand
<1>5. ASSUME NEW b \in Browsers, WebConnect(b) PROVE Owned'
  <2>1. /\ UNCHANGED <<outbox, gated, numbering>>
        /\ \A a \in Browsers : webWire'[a] \in {webWire[a], webWire[a] \o outbox[a]}
    BY <1>t, <1>5 DEF WebConnect, storeVars
  <2>2. \A a \in Browsers : ToSet(webWire[a] \o outbox[a]) = ToSet(webWire[a]) \cup ToSet(outbox[a])
    BY <1>t, ConcatHeld
  <2> QED
    BY <1>1, <2>1, <2>2 DEF Held, InHand
<1>6. ASSUME NEW b \in Browsers, HandleInput(b) PROVE Owned'
  <2> DEFINE id == Head(webWire[b])
  <2>1. /\ UNCHANGED numbering /\ webWire[b] # <<>>
        /\ webWire' = [webWire EXCEPT ![b] = Tail(@)]
        /\ outbox' = outbox \/ outbox' = [outbox EXCEPT ![b] = Resolved(@, id)]
        /\ gated' = gated \/ gated' = [gated EXCEPT ![b] = {id}]
    BY <1>6 DEF HandleInput, PassGate
  <2> HIDE DEF id
  <2>2. ToSet(webWire[b]) = ToSet(Tail(webWire[b])) \cup {id}
    BY <1>t, <2>1, TailHeld DEF id
  <2>3. \A a \in Browsers : ToSet(Resolved(outbox[a], id)) \subseteq ToSet(outbox[a])
    BY <1>t, ResolvedIs
  <2>4. \A a \in Browsers : /\ ToSet(webWire'[a]) \subseteq ToSet(webWire[a])
                            /\ ToSet(outbox'[a]) \subseteq ToSet(outbox[a])
                            /\ gated'[a] \subseteq gated[a] \cup ToSet(webWire[a])
    BY <1>t, <2>1, <2>2, <2>3
  <2> QED
    BY <1>1, <2>1, <2>4 DEF Held, InHand
<1>7. ASSUME NEW b \in Browsers, DropBacked(b) PROVE Owned'
  <2>1. UNCHANGED <<outbox, webWire, numbering>> /\ \A a \in Browsers : gated'[a] \subseteq gated[a]
    BY <1>t, <1>7 DEF DropBacked, webVars
  <2> QED
    BY <1>1, <2>1 DEF Held, InHand
<1>8. ASSUME NEW b \in Browsers, NumberInput(b) PROVE Owned'
  <2>1. UNCHANGED <<outbox, webWire>> /\ gated' = [gated EXCEPT ![b] = {}]
    BY <1>8 DEF NumberInput, webVars
  <2>2. PICK id \in gated[b] : \/ numbering' = numbering
                              \/ \E f : f.id = id /\ numbering' = [numbering EXCEPT ![b] = {f}]
    BY <1>8 DEF NumberInput, Allocate, NumberUnsafely, Numbers
  <2>3. \A a \in Browsers : /\ gated'[a] \subseteq gated[a]
                            /\ {f.id : f \in numbering'[a]} \subseteq InHand(a)
    <3>1. CASE numbering' = numbering
      BY <1>t, <2>1, <3>1 DEF InHand
    <3>2. CASE \E f : f.id = id /\ numbering' = [numbering EXCEPT ![b] = {f}]
      <4>1. PICK f : f.id = id /\ numbering' = [numbering EXCEPT ![b] = {f}]
        BY <3>2
      <4>2. \A a \in Browsers : numbering'[a] = IF a = b THEN {f} ELSE numbering[a]
        BY <1>t, <4>1
      <4>3. \A a \in Browsers : gated'[a] \subseteq gated[a]
        BY <1>t, <2>1
      <4> QED
        BY <2>2, <4>1, <4>2, <4>3 DEF InHand
    <3> QED
      BY <2>2, <3>1, <3>2
  <2> QED
    BY <1>1, <2>1, <2>3 DEF Held, InHand
<1>9. ASSUME NEW b \in Browsers, InsertRow(b) PROVE Owned'
  <2>1. /\ UNCHANGED <<outbox, webWire, gated>>
        /\ \A a \in Browsers : numbering'[a] \subseteq numbering[a]
    BY <1>t, <1>9 DEF InsertRow, webVars
  <2> QED
    BY <1>1, <2>1 DEF Held, InHand
<1>10. ASSUME NEW c \in Conns, HandleReport(c) PROVE Owned'
  <2> DEFINE m == Head(reports[c])
  <2>1. /\ UNCHANGED <<webWire, gated, numbering>>
        /\ IF m.kind = "ack" THEN DeleteRows(m.n) ELSE Settle(m.n, m.kind)
    BY <1>10 DEF HandleReport
  <2> HIDE DEF m
  <2>2. \/ outbox' = outbox
        \/ outbox' = [b \in Browsers |-> IF webUp[b] THEN Resolved(outbox[b], m.n) ELSE outbox[b]]
    BY <2>1 DEF DeleteRows, Settle
  <2>4. \A a \in Browsers : ToSet(Resolved(outbox[a], m.n)) \subseteq ToSet(outbox[a])
    BY <1>t, ResolvedIs
  <2>3. \A a \in Browsers : ToSet(outbox'[a]) \subseteq ToSet(outbox[a])
    BY <2>2, <2>4
  <2> QED
    BY <1>1, <2>1, <2>3 DEF Held, InHand
<1>11. ASSUME BackendRestart PROVE Owned'
  <2>1. /\ UNCHANGED outbox
        /\ \A a \in Browsers : webWire'[a] = <<>> /\ gated'[a] = {} /\ numbering'[a] = {}
    BY <1>11 DEF BackendRestart
  <2> QED
    BY <1>1, <2>1, EmptyHeld DEF Held, InHand
<1>12. ASSUME NEW b \in Browsers, HandOver(b) PROVE Owned'
  BY <1>2, <1>12 DEF HandOver, webVars
<1>13. ASSUME NEW c \in Conns, HandlerEnds(c) PROVE Owned'
  BY <1>2, <1>13 DEF HandlerEnds, webVars, storeVars
<1>14. ASSUME AckRegistration \/ ReadRows \/ ReplayRow PROVE Owned'
  BY <1>2, <1>14 DEF AckRegistration, ReadRows, ReplayRow, webVars, storeVars
<1>15. ASSUME ProxyStep PROVE Owned'
  BY <1>2, <1>15 DEF ProxyStep, Connect, Disconnect, DeliverInput, AgentAccepts, AgentRejects,
     ReportCompletion, AgentStops, DeliverFails, Relaunch, webVars, storeVars
<1> QED
  BY <1>3, <1>4, <1>5, <1>6, <1>7, <1>8, <1>9, <1>10, <1>11, <1>12, <1>13, <1>14, <1>15
     DEF Next, BrowserStep, BackendStep

\* Every step keeps the invariant of resends.
LEMMA ResendStep ==
  ASSUME TypeOK, Settled, OrderInv, ResendInv, Owned, Next
  PROVE  ResendInv'
<1>1. accidents \subseteq accidents'
  BY AccidentsStay
<1>2. ASSUME ProxyStep PROVE ResendInv'
  BY <1>1, <1>2, SameResend DEF ProxyStep, Connect, Disconnect, DeliverInput, AgentAccepts,
     AgentRejects, ReportCompletion, AgentStops, DeliverFails, Relaunch, webVars, storeVars
<1>3. ASSUME AckRegistration \/ ReadRows \/ ReplayRow PROVE ResendInv'
  BY <1>1, <1>3, SameResend DEF AckRegistration, ReadRows, ReplayRow, webVars, storeVars
<1>4. ASSUME NEW b \in Browsers, HandOver(b) PROVE ResendInv'
  BY <1>1, <1>4, SameResend DEF HandOver, webVars
<1>5. ASSUME NEW c \in Conns, HandlerEnds(c) PROVE ResendInv'
  BY <1>1, <1>5, SameResend DEF HandlerEnds, webVars, storeVars
<1>6. ASSUME BackendStep PROVE ResendInv'
  BY <1>3, <1>4, <1>5, <1>6, GateResend, DropResend, NumberResend, InsertResend,
     ReportResend DEF BackendStep
<1> QED
  BY <1>2, <1>6, BrowserResend DEF Next

\* Only what was typed is anywhere, the gate has one entry for each input while
\* it has room for all, and an input has one row unless the database failed.
THEOREM ResendInvariant == Spec => [](ResendInv /\ Owned)
<1>1. Init => ResendInv /\ Owned
  <2> SUFFICES ASSUME Init PROVE ResendInv /\ Owned
    OBVIOUS
  <2>0. \A b \in Browsers : Held(b) = {} /\ InHand(b) = {}
    BY EmptyHeld DEF Init, Held, InHand
  <2>1. GateIds = {} /\ DOMAIN gate = {} /\ Len(gate) = 0
    BY EmptyHeld DEF Init, GateIds
  <2>2. TypedOnly
    BY <2>0, <2>1, EmptyHeld DEF Init, TypedOnly
  <2>3. GateKnows
    BY <2>0, <2>1, InputBounds DEF Init, GateKnows, GateOnce, GateBounded, GateComplete
  <2>4. RowsOnce /\ RowFree
    BY DEF Init, RowsOnce, RowFree
  <2>5. Owned
    BY <2>0 DEF Owned
  <2> QED
    BY <2>2, <2>3, <2>4, <2>5 DEF ResendInv
<1>2. TypeOK /\ Settled /\ OrderInv /\ ResendInv /\ Owned /\ [Next]_vars => ResendInv' /\ Owned'
  <2>1. ResendInv /\ UNCHANGED vars => ResendInv'
    BY SameResend DEF vars, webVars, storeVars
  <2>2. Owned /\ UNCHANGED vars => Owned'
    BY DEF vars, webVars, storeVars, Owned, Held, InHand
  <2> QED
    BY <2>1, <2>2, ResendStep, OwnedStep
<1> QED
  BY <1>1, <1>2, InputInvariant, InputOrder, PTL DEF Spec

\* Resending is idempotent: a backend process numbers an input once unless
\* more were typed than the gate holds, and two rows hold the same input only
\* if the database failed.
THEOREM ResendsAreIdempotent == Spec => ResendsCollapse
<1> DEFINE A == /\ \A f \in numbered' \ numbered : f.id \in remembered => typed > GateCap
                /\ \A r, q \in rows' : r.id = q.id => r = q \/ "database" \in accidents'
<1>1. ASSUME TypeOK, OrderInv, ResendInv, Owned, ResendInv', [Next]_vars PROVE A
  <2>1. \A r, q \in rows' : r.id = q.id => r = q \/ "database" \in accidents'
    BY <1>1 DEF ResendInv, RowsOnce
  <2>2. ASSUME NEW b \in Browsers, NumberInput(b) \/ InsertRow(b)
        PROVE  \A f \in numbered' \ numbered : f.id \in remembered => typed > GateCap
    BY <1>1, <2>2, NumberResend, InsertResend
  <2>3. (\E b \in Browsers : NumberInput(b) \/ InsertRow(b)) \/ numbered' = numbered
    BY <1>1 DEF Next, BrowserStep, Type, WebDrop, WebConnect, BackendStep, HandleInput, DropBacked,
       HandOver, HandleReport, HandlerEnds, AckRegistration, ReadRows, ReplayRow, BackendRestart,
       ProxyStep, Connect, Disconnect, DeliverInput, AgentAccepts, AgentRejects, ReportCompletion,
       AgentStops, DeliverFails, Relaunch, storeVars, vars
  <2> QED
    BY <2>1, <2>2, <2>3
<1>2. TypeOK /\ OrderInv /\ ResendInv /\ Owned /\ ResendInv' /\ [Next]_vars => [A]_vars
  BY <1>1
<1> QED
  BY <1>2, InputTypeOK, InputOrder, ResendInvariant, PTL DEF Spec, ResendsCollapse
=============================================================================
