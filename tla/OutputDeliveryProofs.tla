------------------------ MODULE OutputDeliveryProofs ------------------------
(* Theorems about OutputDelivery, for every value of its constants. *)
EXTENDS OutputDelivery, Queues

\* push keeps the buffer well typed and gives up only on buffered outputs.
LEMMA PushType ==
  ASSUME buffer \in BufferState, pushed \subseteq Frames, dropped \subseteq Outputs,
         NEW id \in Outputs, Push(id)
  PROVE  /\ NewFrame(id) \in Frames
         /\ buffer' \in BufferState
         /\ pushed' \subseteq Frames
         /\ dropped' \subseteq Outputs
<1>1. NewFrame(id) \in Frames
  BY DEF NewFrame, BufferState, Frames
<1>2. \A S : Overflow(S) \subseteq S
  BY DEF Overflow
<1>3. buffer.pending \cup {NewFrame(id)} \subseteq Frames
  BY <1>1 DEF BufferState
<1>4. buffer' \in BufferState
  BY <1>2, <1>3 DEF Push, BufferState
<1>5. pushed' \subseteq Frames
  BY <1>1 DEF Push
<1>6. \A f \in Overflow(buffer.pending \cup {NewFrame(id)}) : f.id \in Outputs
  BY <1>2, <1>3 DEF Frames
<1>7. dropped' \subseteq Outputs
  BY <1>6 DEF Push
<1> QED
  BY <1>1, <1>4, <1>5, <1>7

\* Ending a connection forgets what output_tx held, which is outputs.
LEMMA EndConnectionType ==
  ASSUME queue \in Seq(Outputs), dropped \subseteq Outputs, EndConnection
  PROVE  dropped' \subseteq Outputs
<1>1. \A i \in DOMAIN queue : queue[i] \in Outputs
  OBVIOUS
<1> QED
  BY <1>1 DEF EndConnection

\* The state of every component stays within its type.
THEOREM TypeCorrect == Spec => []TypeOK
<1>1. Init => TypeOK
  BY OutputBounds DEF Init, TypeOK, ProxyTypeOK, NetTypeOK, BackendTypeOK,
     CountersTypeOK, EmptyBuffer, BufferState, Phases, Conns
<1>2. TypeOK /\ [Next]_vars => TypeOK'
  <2> SUFFICES ASSUME TypeOK, [Next]_vars PROVE TypeOK'
    OBVIOUS
  <2> USE OutputBounds DEF TypeOK, ProxyTypeOK, NetTypeOK, BackendTypeOK,
      CountersTypeOK, Phases
  <2>1. CASE Connect
    <3>1. buffer' \in BufferState /\ dropped' \subseteq Outputs /\ replayFailures' \in Nat
      <4>1. \A f \in buffer.pending : f.id \in Outputs
        BY DEF BufferState, Frames
      <4>2. dropped' \subseteq Outputs
        <5>1. dropped' = dropped \/ dropped' = dropped \cup {f.id : f \in buffer.pending}
          BY <2>1 DEF Connect
        <5> SUFFICES ASSUME NEW x \in dropped' PROVE x \in Outputs
          OBVIOUS
        <5>2. x \in dropped \/ \E f \in buffer.pending : x = f.id
          BY <5>1
        <5> QED
          BY <4>1, <5>2
      <4>3. buffer' \in BufferState
        BY <2>1 DEF Connect, BufferState
      <4> QED
        BY <2>1, <4>2, <4>3 DEF Connect
    <3>2. opened' \in Conns
      BY <2>1 DEF Connect, Conns
    <3>3. opened' \in 0 .. MaxConns /\ conn' \in 0 .. MaxConns /\ live' \subseteq Conns
      BY <2>1, <3>2 DEF Connect, Conns
    <3> QED
      BY <2>1, <3>1, <3>2, <3>3 DEF Connect, backendVars, faultVars
  <2>2. CASE ConnectFails
    BY <2>2 DEF ConnectFails, netVars, backendVars, faultVars, history
  <2>3. CASE ReplayNext
    BY <2>3 DEF ReplayNext, Transmit, BufferState, backendVars, faultVars, history
  <2>4. CASE ReplayDone
    BY <2>4 DEF ReplayDone, netVars, backendVars, faultVars, history
  <2>5. CASE Announce
    <3>1. emitted < MaxOutputs /\ emitted' = emitted + 1 /\ Push(emitted + 1)
      BY <2>5 DEF Announce
    <3>2. emitted + 1 \in Outputs /\ emitted' \in 0 .. MaxOutputs
      BY <3>1 DEF Outputs
    <3>3. inlining' \subseteq Frames
      BY <2>5, <3>1, <3>2, PushType DEF Announce
    <3>4. buffer' \in BufferState /\ pushed' \subseteq Frames /\ dropped' \subseteq Outputs
      BY <3>1, <3>2, PushType
    <3> QED
      BY <2>5, <3>2, <3>3, <3>4 DEF Announce, netVars, backendVars, faultVars
  <2>6. CASE Disconnect
    <3>1. EndConnection
      BY <2>6 DEF Disconnect
    <3>2. dropped' \subseteq Outputs
      BY <3>1, EndConnectionType
    <3>3. acks' \in [Conns -> Seq(Nat)] /\ replayFailures' \in Nat
      BY <2>6 DEF Disconnect
    <3>4. ProxyTypeOK'
      <4>1. /\ conn' = 0 /\ phase' = "down" /\ replayed' = {}
            /\ queue' = <<>> /\ forwarding' = {} /\ inlining' = {}
            /\ firstConnection' = FALSE /\ disk' = buffer
            /\ UNCHANGED <<claude, buffer, emitted>>
        BY <2>6, <3>1 DEF Disconnect, EndConnection
      <4>2. disk' \in BufferState /\ buffer' \in BufferState
        BY <4>1
      <4>3. queue' \in Seq(Outputs) /\ conn' \in 0 .. MaxConns
        BY <4>1
      <4> QED
        BY <3>3, <4>1, <4>2, <4>3
    <3>5. NetTypeOK' /\ BackendTypeOK'
      BY <2>6, <3>3 DEF Disconnect, backendVars
    <3> QED
      BY <2>6, <3>2, <3>4, <3>5 DEF Disconnect, faultVars
  <2>7. CASE ReplayFails
    <3>1. EndConnection
      BY <2>7 DEF ReplayFails
    <3>2. dropped' \subseteq Outputs
      BY <3>1, EndConnectionType
    <3>3. acks' \in [Conns -> Seq(Nat)] /\ replayFailures' \in Nat
      BY <2>7 DEF ReplayFails
    <3>4. ProxyTypeOK'
      <4>1. /\ conn' = 0 /\ phase' = "down" /\ replayed' = {}
            /\ queue' = <<>> /\ forwarding' = {} /\ inlining' = {}
            /\ firstConnection' = FALSE /\ disk' = buffer
            /\ UNCHANGED <<claude, buffer, emitted>>
        BY <2>7, <3>1 DEF ReplayFails, EndConnection
      <4>2. disk' \in BufferState /\ buffer' \in BufferState
        BY <4>1
      <4>3. queue' \in Seq(Outputs) /\ conn' \in 0 .. MaxConns
        BY <4>1
      <4> QED
        BY <3>3, <4>1, <4>2, <4>3
    <3>5. NetTypeOK' /\ BackendTypeOK'
      BY <2>7, <3>3 DEF ReplayFails, backendVars
    <3> QED
      BY <2>7, <3>2, <3>4, <3>5 DEF ReplayFails, faultVars
  <2>8. CASE Relaunch
    <3>1. buffer' \in BufferState
      BY <2>8 DEF Relaunch, Reloaded, BufferState
    <3> QED
      BY <2>8, <3>1 DEF Relaunch, backendVars
  <2>9. CASE ProxyCrash
    <3>1. buffer' \in BufferState
      BY <2>9 DEF ProxyCrash, Reloaded, BufferState
    <3>2. \A f \in buffer.pending \ disk.pending : f.id \in Outputs
      BY DEF BufferState, Frames
    <3>3. \A i \in DOMAIN queue : queue[i] \in Outputs
      OBVIOUS
    <3>4. dropped' \subseteq Outputs
      BY <2>9, <3>2, <3>3 DEF ProxyCrash
    <3>5. accidents' \subseteq AccidentKinds
      BY <2>9 DEF ProxyCrash, Accident, AccidentKinds
    <3>6. ProxyTypeOK'
      <4>1. /\ conn' = 0 /\ phase' = "down" /\ replayed' = {}
            /\ queue' = <<>> /\ forwarding' = {} /\ inlining' = {}
            /\ firstConnection' = TRUE /\ replayFailures' = 0
            /\ UNCHANGED <<claude, disk, emitted>>
        BY <2>9 DEF ProxyCrash
      <4> QED
        BY <3>1, <4>1
    <3>7. NetTypeOK' /\ BackendTypeOK'
      <4>1. acks' = [c \in Conns |-> <<>>] /\ UNCHANGED <<opened, live, wire, backendVars>>
        BY <2>9 DEF ProxyCrash
      <4> QED
        BY <4>1 DEF backendVars
    <3> QED
      BY <2>9, <3>4, <3>5, <3>6, <3>7 DEF ProxyCrash
  <2>10. CASE TakeOutput
    BY <2>10 DEF TakeOutput, Outputs, netVars, backendVars, faultVars, history
  <2>11. CASE PushInline
    <3>1. emitted < MaxOutputs /\ emitted' = emitted + 1 /\ Push(emitted + 1)
      BY <2>11 DEF PushInline
    <3>2. emitted + 1 \in Outputs /\ emitted' \in 0 .. MaxOutputs
      BY <3>1 DEF Outputs
    <3>3. accidents' \subseteq AccidentKinds
      BY <2>11 DEF PushInline, Accident, AccidentKinds
    <3>4. inlining' \subseteq Frames
      BY <2>11, <3>1, <3>2, PushType DEF PushInline
    <3>5. buffer' \in BufferState /\ pushed' \subseteq Frames /\ dropped' \subseteq Outputs
      BY <3>1, <3>2, PushType
    <3> QED
      BY <2>11, <3>2, <3>3, <3>4, <3>5 DEF PushInline, netVars, backendVars
  <2>12. CASE SendInline
    BY <2>12 DEF SendInline, Transmit, backendVars, faultVars, history
  <2>13. CASE ForwarderPush
    <3>1. Head(queue) \in Outputs /\ Tail(queue) \in Seq(Outputs) /\ Push(Head(queue))
      BY <2>13 DEF ForwarderPush
    <3> QED
      BY <2>13, <3>1, PushType DEF ForwarderPush, netVars, backendVars, faultVars
  <2>14. CASE ForwarderSend
    BY <2>14 DEF ForwarderSend, Transmit, backendVars, faultVars, history
  <2>15. CASE ReceiveAck
    <3>1. buffer' \in BufferState
      <4>1. conn \in Conns /\ acks[conn] # <<>> /\ buffer' = Acknowledged(buffer, Head(acks[conn]))
        BY <2>15 DEF ReceiveAck, MainLoopReady
      <4>2. Head(acks[conn]) \in Nat
        BY <4>1
      <4> QED
        BY <4>1, <4>2 DEF Acknowledged, BufferState
    <3>2. acks' \in [Conns -> Seq(Nat)]
      BY <2>15 DEF ReceiveAck, MainLoopReady
    <3> QED
      BY <2>15, <3>1, <3>2 DEF ReceiveAck, backendVars, faultVars, history
  <2>16. ASSUME NEW c \in Conns, TestFrame(c) PROVE TypeOK'
    <3>1. wire[c] \in Seq(Frames) /\ wire[c] # <<>>
      BY <2>16 DEF TestFrame
    <3>2. Head(wire[c]) \in Frames /\ Tail(wire[c]) \in Seq(Frames)
      BY <3>1
    <3>3. Head(wire[c]).seq \in Nat
      BY <3>2 DEF Frames
    <3>4. acks' \in [Conns -> Seq(Nat)]
      <4>1. \/ UNCHANGED acks
            \/ acks' = [acks EXCEPT ![c] = Append(@, Head(wire[c]).seq)]
        BY <2>16 DEF TestFrame, AckDuplicate, SendAck
      <4>2. Append(acks[c], Head(wire[c]).seq) \in Seq(Nat)
        BY <3>3
      <4> QED
        BY <4>1, <4>2
    <3>5. handling' \in [Conns -> SUBSET Frames] /\ recording' = recording
      BY <2>16, <3>2 DEF TestFrame
    <3>6. wire' \in [Conns -> Seq(Frames)]
      BY <2>16, <3>2 DEF TestFrame
    <3> QED
      BY <2>16, <3>4, <3>5, <3>6 DEF TestFrame, proxyVars, faultVars, history
  <2>17. ASSUME NEW c \in Conns, StoreFrame(c) PROVE TypeOK'
    <3>1. PICK f \in handling[c] : /\ transcript' = Append(transcript, f)
                                    /\ recording' = [recording EXCEPT ![c] = {f}]
      BY <2>17 DEF StoreFrame
    <3>2. f \in Frames /\ {f} \in SUBSET Frames
      OBVIOUS
    <3>3. handling' \in [Conns -> SUBSET Frames] /\ recording' \in [Conns -> SUBSET Frames]
      <4>1. handling' = [handling EXCEPT ![c] = {}]
        BY <2>17 DEF StoreFrame
      <4>2. handling' \in [Conns -> SUBSET Frames]
        BY <4>1
      <4>3. recording' \in [Conns -> SUBSET Frames]
        BY <3>1, <3>2
      <4> QED
        BY <4>2, <4>3
    <3>4. transcript' \in Seq(Frames)
      BY <3>1, <3>2
    <3> QED
      BY <2>17, <3>3, <3>4 DEF StoreFrame, proxyVars, netVars, faultVars, history
  <2>18. ASSUME NEW c \in Conns, StoreFails(c) PROVE TypeOK'
    <3>1. PICK f \in handling[c] : \/ recording' = [recording EXCEPT ![c] = {f}]
                                   \/ UNCHANGED recording
      BY <2>18 DEF StoreFails
    <3>2. handling' \in [Conns -> SUBSET Frames] /\ recording' \in [Conns -> SUBSET Frames]
      <4>1. f \in Frames /\ {f} \in SUBSET Frames
        OBVIOUS
      <4>2. recording' \in [Conns -> SUBSET Frames]
        BY <3>1, <4>1
      <4>3. handling' = [handling EXCEPT ![c] = {}]
        BY <2>18 DEF StoreFails
      <4>4. handling' \in [Conns -> SUBSET Frames]
        BY <4>3
      <4> QED
        BY <4>2, <4>4
    <3> QED
      BY <2>18, <3>2 DEF StoreFails, Accident, AccidentKinds, proxyVars, netVars, history
  <2>22. ASSUME NEW c \in Conns, RecordFrame(c) PROVE TypeOK'
    <3>1. PICK f \in recording[c] : RecordAck(f.seq) /\ SendAck(c, f.seq)
      BY <2>22 DEF RecordFrame
    <3>2. f.seq \in Nat
      BY DEF Frames
    <3>3. backendAck' \in Nat /\ acks' \in [Conns -> Seq(Nat)]
      BY <3>1, <3>2 DEF RecordAck, SendAck
    <3>4. recording' \in [Conns -> SUBSET Frames]
      BY <2>22 DEF RecordFrame
    <3> QED
      BY <2>22, <3>3, <3>4 DEF RecordFrame, proxyVars, faultVars, history
  <2>19. ASSUME NEW c \in Conns, HandlerEnds(c) PROVE TypeOK'
    BY <2>19 DEF HandlerEnds, proxyVars, backendVars, faultVars, history
  <2>20. CASE BackendRestart
    BY <2>20 DEF BackendRestart, proxyVars, history
  <2>21. CASE UNCHANGED vars
    BY <2>21 DEF vars, proxyVars, netVars, backendVars, faultVars, history
  <2> QED
    BY <2>1, <2>2, <2>3, <2>4, <2>5, <2>6, <2>7, <2>8, <2>9, <2>10, <2>11,
       <2>12, <2>13, <2>14, <2>15, <2>16, <2>17, <2>18, <2>19, <2>20, <2>21, <2>22
    DEF Next, ProxyStep, BackendStep
<1> QED
  BY <1>1, <1>2, PTL DEF Spec

-----------------------------------------------------------------------------
(***************************************************************************)
(* HeldUntilStored is not inductive: an ack empties the buffer, so what is *)
(* acknowledged must be known to be stored, and that rests on the frames   *)
(* of a connection arriving without gaps.  CleanInv adds what a frame on   *)
(* its way, an ack on its way and the stage of the proxy say about the     *)
(* frames with lower numbers.                                              *)
(***************************************************************************)

Settled(f) == f.id \in Stored \cup dropped

\* Every output with a number up to n is settled; n was given out.
Known(n) ==
    /\ n = 0 \/ n < buffer.next
    /\ \A f \in pushed : 0 < f.seq /\ f.seq <= n => Settled(f)

\* Connection c has carried f, or need not.
Sent(c, f) ==
    \/ Settled(f) \/ f \in handling[c]
    \/ \E i \in DOMAIN wire[c] : wire[c][i] = f

Numbering ==
    /\ buffer.pending \subseteq pushed
    /\ \A f \in pushed : f.seq < buffer.next
    /\ \A f, g \in pushed : f.seq = g.seq => f = g

AcksKnown ==
    /\ Known(backendAck) /\ Known(buffer.lastAck)
    /\ \A c \in Conns : \A i \in DOMAIN acks[c] : Known(acks[c][i])

\* Below position i of wire[c] nothing is missing.
GapFree(c, i) ==
    \A f \in pushed :
        0 < f.seq /\ f.seq < wire[c][i].seq
        => \/ Settled(f) \/ f \in handling[c]
           \/ \E j \in 1 .. (i - 1) : wire[c][j] = f

\* A handler has one frame at most, everything below it is settled, and past
\* the insert so is the frame.
Handled(c) ==
    /\ \A h \in handling[c] \cup recording[c] :
          /\ h \in pushed /\ \A g \in handling[c] \cup recording[c] : g = h
          /\ \A f \in pushed : 0 < f.seq /\ f.seq < h.seq => Settled(f)
    /\ \A h \in recording[c] : Settled(h)
    /\ handling[c] = {} \/ recording[c] = {}

WiresGapFree ==
    \A c \in Conns :
        /\ \A i \in DOMAIN wire[c] : wire[c][i] \in pushed /\ GapFree(c, i)
        /\ Handled(c)
        /\ c > opened => wire[c] = <<>> /\ handling[c] = {}

\* One task at a time has a frame in hand, and it is the newest.
Staged ==
    /\ phase # "looping" => queue = <<>> /\ forwarding = {} /\ inlining = {}
    /\ ~claude \/ inlining # {} => queue = <<>> /\ forwarding = {}
    /\ \A f \in forwarding \cup inlining :
          f \in pushed /\ \A g \in pushed : g.seq <= f.seq

ConnectionSent ==
    /\ conn <= opened
    /\ conn \in live /\ phase = "replaying" =>
         \A f \in buffer.pending \cap replayed : f.seq > 0 => Sent(conn, f)
    /\ conn \in live /\ phase \in {"announcing", "looping"} =>
         \A f \in pushed \ (forwarding \cup inlining) : f.seq > 0 => Sent(conn, f)

Held == \A f \in pushed : f.seq > 0 => f \in buffer.pending \/ Settled(f)

CleanInv == Numbering /\ AcksKnown /\ WiresGapFree /\ Staged /\ ConnectionSent /\ Held

\* A row appended to the transcript settles its output and no other.
LEMMA StoredAppend ==
  ASSUME transcript \in Seq(Frames), NEW f \in Frames, transcript' = Append(transcript, f)
  PROVE  Stored' = Stored \cup {f.id}
<1>1. DOMAIN transcript' = DOMAIN transcript \cup {Len(transcript) + 1}
  OBVIOUS
<1>2. \A i \in DOMAIN transcript : transcript'[i] = transcript[i]
  OBVIOUS
<1>3. transcript'[Len(transcript) + 1] = f
  OBVIOUS
<1> QED
  BY <1>1, <1>2, <1>3 DEF Stored

\* The part of the state that says which outputs are settled only grows.
Grows == /\ pushed' = pushed /\ buffer.next' = buffer.next
         /\ Stored \subseteq Stored' /\ dropped \subseteq dropped'

\* What is settled or known stays so while the store grows.
LEMMA SettledGrows ==
  ASSUME Grows
  PROVE  /\ \A f : Settled(f) => Settled(f)'
         /\ \A n : Known(n) => Known(n)'
<1>1. \A f : Settled(f) => Settled(f)'
  BY DEF Grows, Settled
<1> QED
  BY <1>1 DEF Grows, Known

\* Steps that leave the connections alone keep them gap-free.
LEMMA QuietWires ==
  ASSUME TypeOK, WiresGapFree, Grows, UNCHANGED <<wire, handling, recording>>,
         opened' \in Nat, opened <= opened'
  PROVE  /\ WiresGapFree'
         /\ \A c, f : Sent(c, f) => Sent(c, f)'
<1>1. \A f : Settled(f) => Settled(f)'
  BY SettledGrows
<1>2. \A c \in Conns : \A i \in DOMAIN wire[c] : GapFree(c, i) => GapFree(c, i)'
  BY <1>1 DEF GapFree, Grows
<1>3. \A c \in Conns : Handled(c) => Handled(c)'
  BY <1>1 DEF Handled, Grows
<1>4. \A c \in Conns : c > opened' => c > opened
  BY DEF Conns, TypeOK, NetTypeOK
<1>5. WiresGapFree'
  BY <1>2, <1>3, <1>4 DEF WiresGapFree, Grows
<1> QED
  BY <1>1, <1>5 DEF Sent

\* A frame joins the end of a connection that has carried all lower ones.
LEMMA TransmitWires ==
  ASSUME TypeOK, WiresGapFree, NEW f \in pushed, Transmit(f),
         NEW k \in Conns, k = conn, k <= opened,
         k \in live => \A g \in pushed : 0 < g.seq /\ g.seq < f.seq => Sent(k, g),
         UNCHANGED <<handling, recording, transcript, pushed, dropped, opened>>
  PROVE  /\ WiresGapFree'
         /\ \A c \in Conns, g \in pushed : Sent(c, g) => Sent(c, g)'
         /\ k \in live => Sent(k, f)'
<1>1. wire \in [Conns -> Seq(Frames)] /\ f \in Frames
  BY DEF TypeOK, NetTypeOK, CountersTypeOK
<1>2. \A g : Settled(g) <=> Settled(g)'
  BY DEF Settled, Stored
<1>3. CASE k \notin live
  <2>1. UNCHANGED wire
    BY <1>3 DEF Transmit
  <2> QED
    BY <1>2, <1>3, <2>1 DEF WiresGapFree, GapFree, Handled, Sent
<1>4. CASE k \in live
  <2>1. wire' = [wire EXCEPT ![k] = Append(wire[k], f)]
    BY <1>4 DEF Transmit
  <2> PICK n \in Nat : n = Len(wire[k]) + 1
    BY <1>1
  <2>2. \A c \in Conns : c # k => wire'[c] = wire[c]
    BY <1>1, <2>1
  <2>3. wire'[k] = Append(wire[k], f)
    BY <1>1, <2>1
  <2>4. /\ wire[k] \in Seq(Frames)
        /\ DOMAIN wire'[k] = DOMAIN wire[k] \cup {n}
        /\ \A i \in DOMAIN wire[k] : wire'[k][i] = wire[k][i]
        /\ wire'[k][n] = f
    BY <1>1, <2>3
  <2>5. \A c \in Conns : \A i \in DOMAIN wire[c] : i \in DOMAIN wire'[c] /\ wire'[c][i] = wire[c][i]
    BY <2>2, <2>4
  <2>6. \A c \in Conns, g \in pushed : Sent(c, g) => Sent(c, g)'
    BY <1>2, <2>5 DEF Sent
  <2>7. Sent(k, f)'
    BY <2>4 DEF Sent
  <2>8. \A c \in Conns : \A i \in DOMAIN wire[c] : GapFree(c, i) => GapFree(c, i)'
    <3> SUFFICES ASSUME NEW c \in Conns, NEW i \in DOMAIN wire[c], GapFree(c, i),
                        NEW g \in pushed, 0 < g.seq, g.seq < wire[c][i].seq
                 PROVE  \/ Settled(g)' \/ g \in handling'[c]
                        \/ \E j \in 1 .. (i - 1) : wire'[c][j] = g
      BY <2>5 DEF GapFree
    <3>1. \/ Settled(g) \/ g \in handling[c]
          \/ \E j \in 1 .. (i - 1) : wire[c][j] = g
      BY DEF GapFree
    <3>2. \A j \in 1 .. (i - 1) : j \in DOMAIN wire[c]
      BY <1>1
    <3> QED
      BY <1>2, <2>5, <3>1, <3>2
  <2>9. GapFree(k, n)'
    <3> SUFFICES ASSUME NEW g \in pushed, 0 < g.seq, g.seq < f.seq
                 PROVE  \/ Settled(g)' \/ g \in handling'[k]
                        \/ \E j \in 1 .. (n - 1) : wire'[k][j] = g
      BY <2>4 DEF GapFree
    <3>1. Sent(k, g)
      BY <1>4
    <3>2. \A i \in DOMAIN wire[k] : i \in 1 .. (n - 1)
      BY <1>1
    <3> QED
      BY <1>2, <2>4, <3>1, <3>2 DEF Sent
  <2>10. \A c \in Conns : Handled(c) => Handled(c)'
    BY <1>2 DEF Handled
  <2>11. ~(k > opened)
    BY DEF TypeOK, NetTypeOK, Conns
  <2>12. WiresGapFree'
    BY <2>2, <2>4, <2>5, <2>8, <2>9, <2>10, <2>11 DEF WiresGapFree
  <2> QED
    BY <2>6, <2>7, <2>12
<1> QED
  BY <1>3, <1>4

\* An ack sent joins the end of its connection's acks.
LEMMA AckAppended ==
  ASSUME acks \in [Conns -> Seq(Nat)], NEW k \in Conns, NEW n \in Nat, SendAck(k, n)
  PROVE  \A c \in Conns : \A i \in DOMAIN acks'[c] :
            \/ i \in DOMAIN acks[c] /\ acks'[c][i] = acks[c][i]
            \/ acks'[c][i] = n
<1>1. CASE UNCHANGED acks
  BY <1>1
<1>2. CASE acks' = [acks EXCEPT ![k] = Append(acks[k], n)]
  <2>1. \A c \in Conns : c # k => acks'[c] = acks[c]
    BY <1>2
  <2>2. acks'[k] = Append(acks[k], n) /\ acks[k] \in Seq(Nat)
    BY <1>2
  <2>3. \A i \in DOMAIN acks'[k] :
           \/ i \in DOMAIN acks[k] /\ acks'[k][i] = acks[k][i]
           \/ acks'[k][i] = n
    BY <2>2
  <2> QED
    BY <2>1, <2>3
<1> QED
  BY <1>1, <1>2 DEF SendAck

\* The handler takes the first frame: a duplicate is settled, any other frame
\* is in hand, and what follows it loses nothing.
LEMMA TestKeeps ==
  ASSUME TypeOK, CleanInv, NEW k \in Conns, TestFrame(k)
  PROVE  CleanInv'
<1> USE DEF CleanInv
<1> DEFINE h == Head(wire[k])
<1>1. /\ wire \in [Conns -> Seq(Frames)] /\ handling \in [Conns -> SUBSET Frames]
      /\ acks \in [Conns -> Seq(Nat)] /\ backendAck \in Nat /\ pushed \subseteq Frames
      /\ buffer.next \in Nat
  BY DEF TypeOK, ProxyTypeOK, NetTypeOK, BackendTypeOK, CountersTypeOK, BufferState
<1>2. /\ k \in live /\ handling[k] = {} /\ recording[k] = {} /\ wire[k] # <<>>
      /\ wire' = [wire EXCEPT ![k] = Tail(wire[k])]
      /\ UNCHANGED <<recording, backendAck, transcript, pushed, dropped, opened, live>>
      /\ UNCHANGED <<claude, buffer, queue, forwarding, inlining, conn, phase, replayed>>
  BY DEF TestFrame, history, proxyVars
<1>3. \/ h.seq <= backendAck /\ AckDuplicate(k, h) /\ UNCHANGED handling
      \/ /\ ~(h.seq <= backendAck) /\ UNCHANGED acks
         /\ handling' = [handling EXCEPT ![k] = {h}]
  BY DEF TestFrame, IsDuplicate
<1>4. /\ h = wire[k][1] /\ 1 \in DOMAIN wire[k] /\ h \in pushed /\ GapFree(k, 1)
  BY <1>1, <1>2 DEF WiresGapFree
<1>5. h.seq \in Nat /\ h.seq < buffer.next
  BY <1>1, <1>4 DEF Frames, Numbering
<1>6. \A f : Settled(f) <=> Settled(f)'
  BY <1>2 DEF Settled, Stored
<1>7. \A n : Known(n) <=> Known(n)'
  BY <1>2, <1>6 DEF Known
<1>8. /\ \A i \in DOMAIN wire'[k] : i + 1 \in DOMAIN wire[k] /\ wire'[k][i] = wire[k][i + 1]
      /\ \A i \in DOMAIN wire[k] : i # 1 => i - 1 \in DOMAIN wire'[k] /\ wire'[k][i - 1] = wire[k][i]
  <2>1. wire'[k] = Tail(wire[k]) /\ wire[k] \in Seq(Frames)
    BY <1>1, <1>2
  <2> QED
    BY <2>1, <1>2
<1>9. \A c \in Conns : c # k => wire'[c] = wire[c] /\ handling'[c] = handling[c]
  BY <1>1, <1>2, <1>3
\* the head is settled or in hand
<1>10. \A f \in pushed : f = h /\ f.seq > 0 => Settled(f) \/ f \in handling'[k]
  <2>1. CASE h.seq <= backendAck
    BY <1>1, <2>1 DEF AcksKnown, Known
  <2>2. CASE ~(h.seq <= backendAck)
    BY <1>1, <1>3, <2>2
  <2> QED
    BY <2>1, <2>2
<1>11. \A c \in Conns, f \in pushed : f.seq > 0 /\ Sent(c, f) => Sent(c, f)'
  <2> SUFFICES ASSUME NEW c \in Conns, NEW f \in pushed, f.seq > 0, Sent(c, f)
               PROVE  Sent(c, f)'
    OBVIOUS
  <2>1. CASE c # k
    BY <1>6, <1>9, <2>1 DEF Sent
  <2>2. CASE c = k
    <3>1. CASE Settled(f)
      BY <1>6, <3>1 DEF Sent
    <3>2. CASE \E i \in DOMAIN wire[k] : wire[k][i] = f
      <4>1. PICK i \in DOMAIN wire[k] : wire[k][i] = f
        BY <3>2
      <4>2. CASE i = 1
        BY <1>4, <1>6, <1>10, <2>2, <4>1, <4>2 DEF Sent
      <4>3. CASE i # 1
        BY <1>8, <2>2, <4>1, <4>3 DEF Sent
      <4> QED
        BY <4>2, <4>3
    <3> QED
      BY <1>2, <2>2, <3>1, <3>2 DEF Sent
  <2> QED
    BY <2>1, <2>2
<1>12. \A i \in DOMAIN wire'[k] : GapFree(k, i)'
  <2> SUFFICES ASSUME NEW i \in DOMAIN wire'[k], NEW f \in pushed,
                      0 < f.seq, f.seq < wire'[k][i].seq
               PROVE  \/ Settled(f)' \/ f \in handling'[k]
                      \/ \E j \in 1 .. (i - 1) : wire'[k][j] = f
    BY <1>2 DEF GapFree
  <2>0. i \in Nat /\ i + 1 <= Len(wire[k]) /\ DOMAIN wire[k] = 1 .. Len(wire[k])
    <3>1. wire[k] \in Seq(Frames) /\ wire'[k] = Tail(wire[k])
      BY <1>1, <1>2
    <3>2. wire'[k] \in Seq(Frames)
      BY <1>2, <3>1
    <3> QED
      BY <1>8, <3>1, <3>2
  <2> PICK n \in Nat : n = i + 1
    BY <2>0
  <2>1. GapFree(k, n) /\ f.seq < wire[k][n].seq
    BY <1>8 DEF WiresGapFree
  <2>2. \/ Settled(f) \/ \E j \in 1 .. (n - 1) : wire[k][j] = f
    <3>1. f \notin handling[k] /\ f \in pushed /\ 0 < f.seq
      BY <1>2
    <3> QED
      BY <2>1, <3>1 DEF GapFree
  <2>3. CASE \E j \in 1 .. (n - 1) : wire[k][j] = f
    <3>2. PICK j \in 1 .. i : wire[k][j] = f
      BY <2>0, <2>3
    <3>3. CASE j = 1
      BY <1>4, <1>6, <1>10, <3>2, <3>3
    <3>4. CASE j # 1
      <4>1. j \in DOMAIN wire[k] /\ j - 1 \in 1 .. (i - 1)
        BY <2>0, <3>2, <3>4
      <4> QED
        BY <1>8, <3>2, <3>4, <4>1
    <3> QED
      BY <3>3, <3>4
  <2> QED
    BY <1>6, <2>2, <2>3
<1>13. Handled(k)'
  <2>1. \A g \in handling'[k] \cup recording'[k] : g = h
    BY <1>1, <1>2, <1>3
  <2>2. \A f \in pushed : 0 < f.seq /\ f.seq < h.seq => Settled(f)
    BY <1>2, <1>4 DEF GapFree
  <2> QED
    BY <1>2, <1>4, <1>6, <2>1, <2>2 DEF Handled
<1>14. \A c \in Conns : c # k => Handled(c)' /\ \A i \in DOMAIN wire'[c] : GapFree(c, i)'
  BY <1>2, <1>6, <1>9 DEF Handled, GapFree, WiresGapFree
<1>15. k <= opened
  BY <1>1, <1>2 DEF WiresGapFree, TypeOK, NetTypeOK, Conns
<1>16. WiresGapFree'
  <2>1. \A i \in DOMAIN wire'[k] : wire'[k][i] \in pushed'
    BY <1>2, <1>8 DEF WiresGapFree
  <2>2. ~(k > opened)
    BY <1>15 DEF TypeOK, NetTypeOK, Conns
  <2> QED
    BY <1>2, <1>9, <1>12, <1>13, <1>14, <2>1, <2>2 DEF WiresGapFree
<1>17. AcksKnown'
  <2>1. h.seq <= backendAck => Known(h.seq)
    BY <1>1, <1>5 DEF AcksKnown, Known, Frames
  <2>3. \A c \in Conns : \A i \in DOMAIN acks'[c] :
           \/ i \in DOMAIN acks[c] /\ acks'[c][i] = acks[c][i]
           \/ h.seq <= backendAck /\ acks'[c][i] = h.seq
    BY <1>1, <1>3, <1>5, AckAppended DEF AckDuplicate
  <2> QED
    BY <1>2, <1>7, <2>1, <2>3 DEF AcksKnown
<1>18. Numbering' /\ Staged' /\ Held'
  BY <1>2, <1>6 DEF Numbering, Staged, Held
<1>19. ConnectionSent'
  <2>1. conn \in live => conn \in Conns
    BY DEF TypeOK, NetTypeOK
  <2> QED
    BY <1>1, <1>2, <1>11, <2>1 DEF ConnectionSent, Numbering
<1> QED
  BY <1>16, <1>17, <1>18, <1>19

\* The row a handler inserts completes everything up to its number.
LEMMA StoreKeeps ==
  ASSUME TypeOK, CleanInv, NEW k \in Conns, StoreFrame(k)
  PROVE  CleanInv'
<1> USE DEF CleanInv
<1>1. /\ handling \in [Conns -> SUBSET Frames] /\ recording \in [Conns -> SUBSET Frames]
      /\ pushed \subseteq Frames /\ transcript \in Seq(Frames) /\ opened \in Nat
  BY DEF TypeOK, NetTypeOK, BackendTypeOK, CountersTypeOK
<1>2. PICK h \in handling[k] :
        transcript' = Append(transcript, h) /\ recording' = [recording EXCEPT ![k] = {h}]
  BY DEF StoreFrame
<1>3. /\ handling' = [handling EXCEPT ![k] = {}]
      /\ UNCHANGED <<wire, acks, backendAck, pushed, dropped, opened, live>>
      /\ UNCHANGED <<claude, buffer, queue, forwarding, inlining, conn, phase, replayed>>
  BY DEF StoreFrame, history, proxyVars, netVars
<1>4. h \in Frames /\ h \in pushed
  BY <1>1 DEF WiresGapFree, Handled
<1>5. Stored' = Stored \cup {h.id}
  BY <1>1, <1>2, <1>4, StoredAppend
<1>6. Grows
  BY <1>3, <1>5 DEF Grows
<1>7. /\ \A f : Settled(f) => Settled(f)'
      /\ \A n : Known(n) => Known(n)'
  BY <1>6, SettledGrows
<1>8. Settled(h)'
  BY <1>5 DEF Settled
<1>10. \A f \in handling[k] : f = h
  BY DEF WiresGapFree, Handled
<1>11. \A c \in Conns : c # k => handling'[c] = handling[c] /\ recording'[c] = recording[c]
  BY <1>1, <1>2, <1>3
<1>12. handling'[k] = {} /\ recording'[k] = {h}
  BY <1>1, <1>2, <1>3
<1>13. \A c \in Conns : \A f : Sent(c, f) => Sent(c, f)'
  BY <1>3, <1>7, <1>8, <1>10, <1>11, <1>12 DEF Sent
<1>14. \A c \in Conns : \A i \in DOMAIN wire[c] : GapFree(c, i) => GapFree(c, i)'
  BY <1>3, <1>7, <1>8, <1>10, <1>11, <1>12 DEF GapFree
<1>15. \A c \in Conns : Handled(c) => Handled(c)'
  <2>1. Handled(k) => Handled(k)'
    BY <1>2, <1>3, <1>7, <1>8, <1>12 DEF Handled
  <2>2. \A c \in Conns : c # k => (Handled(c) => Handled(c)')
    BY <1>3, <1>7, <1>11 DEF Handled
  <2> QED
    BY <2>1, <2>2
<1>16. WiresGapFree'
  BY <1>3, <1>11, <1>12, <1>14, <1>15 DEF WiresGapFree
<1>17. AcksKnown'
  BY <1>3, <1>7 DEF AcksKnown, Known
<1>18. Numbering' /\ Staged' /\ Held'
  BY <1>3, <1>7 DEF Numbering, Staged, Held
<1>19. ConnectionSent'
  <2>1. conn \in live => conn \in Conns
    BY DEF TypeOK, NetTypeOK
  <2> QED
    BY <1>3, <1>13, <2>1 DEF ConnectionSent
<1> QED
  BY <1>16, <1>17, <1>18, <1>19

\* The number a handler records and acknowledges is known: its row is there and
\* so is everything below.
LEMMA RecordKeeps ==
  ASSUME TypeOK, CleanInv, NEW k \in Conns, RecordFrame(k)
  PROVE  CleanInv'
<1> USE DEF CleanInv
<1>1. /\ recording \in [Conns -> SUBSET Frames] /\ acks \in [Conns -> Seq(Nat)]
      /\ backendAck \in Nat /\ pushed \subseteq Frames /\ buffer.next \in Nat
  BY DEF TypeOK, ProxyTypeOK, NetTypeOK, BackendTypeOK, CountersTypeOK, BufferState
<1>2. PICK h \in recording[k] : RecordAck(h.seq) /\ SendAck(k, h.seq)
  BY DEF RecordFrame
<1>3. /\ recording' = [recording EXCEPT ![k] = {}]
      /\ UNCHANGED <<wire, handling, transcript, pushed, dropped, opened, live>>
      /\ UNCHANGED <<claude, buffer, queue, forwarding, inlining, conn, phase, replayed>>
  BY DEF RecordFrame, history, proxyVars
<1>4. /\ h \in pushed /\ h.seq \in Nat /\ h.seq < buffer.next /\ Settled(h)
      /\ \A f \in pushed : 0 < f.seq /\ f.seq < h.seq => Settled(f)
  BY <1>1 DEF WiresGapFree, Handled, Numbering, Frames
<1>5. /\ \A f : Settled(f) <=> Settled(f)'
      /\ \A n : Known(n) <=> Known(n)'
  BY <1>3 DEF Settled, Stored, Known
<1>6. Known(h.seq)
  <2> SUFFICES ASSUME NEW f \in pushed, 0 < f.seq, f.seq <= h.seq PROVE Settled(f)
    BY <1>4 DEF Known
  <2>1. f.seq \in Nat
    BY <1>1 DEF Frames
  <2>2. CASE f.seq = h.seq
    BY <1>4, <2>2 DEF Numbering
  <2>3. CASE f.seq # h.seq
    BY <1>4, <2>1, <2>3
  <2> QED
    BY <2>2, <2>3
<1>7. \A c \in Conns : recording'[c] \subseteq recording[c]
  BY <1>1, <1>3
<1>8. WiresGapFree'
  <2>1. \A c \in Conns : \A i \in DOMAIN wire[c] : GapFree(c, i) => GapFree(c, i)'
    BY <1>3, <1>5 DEF GapFree
  <2>2. \A c \in Conns : Handled(c) => Handled(c)'
    BY <1>3, <1>5, <1>7 DEF Handled
  <2> QED
    BY <1>3, <2>1, <2>2 DEF WiresGapFree
<1>9. AcksKnown'
  <2>1. backendAck' = h.seq \/ backendAck' = backendAck
    BY <1>2 DEF RecordAck
  <2>2. \A c \in Conns : \A i \in DOMAIN acks'[c] :
           \/ i \in DOMAIN acks[c] /\ acks'[c][i] = acks[c][i]
           \/ acks'[c][i] = h.seq
    BY <1>1, <1>2, <1>4, AckAppended
  <2>3. Known(backendAck') /\ Known(buffer.lastAck)
    BY <1>6, <2>1 DEF AcksKnown
  <2>4. \A c \in Conns : \A i \in DOMAIN acks'[c] : Known(acks'[c][i])
    BY <1>6, <2>2 DEF AcksKnown
  <2>5. \A n : Known(n) => /\ n = 0 \/ n < buffer.next'
                           /\ \A f \in pushed' : 0 < f.seq /\ f.seq <= n => Settled(f)'
    BY <1>5 DEF Known
  <2> QED
    BY <1>3, <2>3, <2>4, <2>5 DEF AcksKnown, Known
<1>10. \A c \in Conns : \A f : Sent(c, f) => Sent(c, f)'
  BY <1>3, <1>5 DEF Sent
<1>11. Numbering' /\ Staged' /\ Held'
  BY <1>3, <1>5 DEF Numbering, Staged, Held
<1>12. ConnectionSent'
  <2>1. conn \in live => conn \in Conns
    BY DEF TypeOK, NetTypeOK
  <2> QED
    BY <1>3, <1>10, <2>1 DEF ConnectionSent
<1> QED
  BY <1>8, <1>9, <1>11, <1>12

\* What a handler leaves unread is lost with its connection, which was not the
\* proxy's any more or no longer counts.
LEMMA EndsKeeps ==
  ASSUME TypeOK, CleanInv, NEW k \in Conns, HandlerEnds(k)
  PROVE  CleanInv'
<1> USE DEF CleanInv
<1>1. wire \in [Conns -> Seq(Frames)]
  BY DEF TypeOK, NetTypeOK
<1>2. /\ handling[k] = {} /\ live' = live \ {k}
      /\ wire' = [wire EXCEPT ![k] = <<>>]
      /\ UNCHANGED <<handling, recording, acks, backendAck, transcript, pushed, dropped, opened>>
      /\ UNCHANGED <<claude, buffer, queue, forwarding, inlining, conn, phase, replayed>>
  BY DEF HandlerEnds, history, proxyVars, backendVars
<1>3. /\ \A f : Settled(f) <=> Settled(f)'
      /\ \A n : Known(n) <=> Known(n)'
  BY <1>2 DEF Settled, Stored, Known
<1>4. wire'[k] = <<>> /\ \A c \in Conns : c # k => wire'[c] = wire[c]
  BY <1>1, <1>2
<1>5. \A c \in Conns : \A f : c # k /\ Sent(c, f) => Sent(c, f)'
  BY <1>2, <1>3, <1>4 DEF Sent
<1>6. \A c \in Conns : c # k => \A i \in DOMAIN wire[c] : GapFree(c, i) => GapFree(c, i)'
  BY <1>2, <1>3, <1>4 DEF GapFree
<1>7. \A c \in Conns : Handled(c) => Handled(c)'
  BY <1>2, <1>3 DEF Handled
<1>8. WiresGapFree'
  BY <1>2, <1>4, <1>6, <1>7 DEF WiresGapFree
<1>9. AcksKnown'
  BY <1>2, <1>3 DEF AcksKnown
<1>10. Numbering' /\ Staged' /\ Held'
  BY <1>2, <1>3 DEF Numbering, Staged, Held
<1>11. ConnectionSent'
  <2>1. conn \in live => conn \in Conns
    BY DEF TypeOK, NetTypeOK
  <2>2. conn' \in live' => conn \in live /\ conn # k
    BY <1>2
  <2> QED
    BY <1>2, <1>5, <2>1, <2>2 DEF ConnectionSent
<1> QED
  BY <1>8, <1>9, <1>10, <1>11

\* A restart forgets last_ack and every connection; nothing then claims to have
\* been sent or acknowledged that was not.
LEMMA RestartKeeps ==
  ASSUME TypeOK, CleanInv, BackendRestart
  PROVE  CleanInv'
<1> USE DEF CleanInv
<1>1. /\ live' = {} /\ wire' = [c \in Conns |-> <<>>]
      /\ handling' = [c \in Conns |-> {}] /\ recording' = [c \in Conns |-> {}]
      /\ backendAck' = 0
      /\ UNCHANGED <<acks, transcript, pushed, dropped, opened>>
      /\ UNCHANGED <<claude, buffer, queue, forwarding, inlining, conn, phase, replayed>>
  BY DEF BackendRestart, history, proxyVars
<1>2. /\ \A f : Settled(f) <=> Settled(f)'
      /\ \A n : Known(n) <=> Known(n)'
  BY <1>1 DEF Settled, Stored, Known
<1>3. \A c \in Conns : wire'[c] = <<>> /\ handling'[c] = {} /\ recording'[c] = {}
  BY <1>1
<1>4. WiresGapFree'
  BY <1>3 DEF WiresGapFree, GapFree, Handled
<1>5. Known(backendAck)'
  <2>1. \A f \in pushed : f.seq \in Nat
    BY DEF TypeOK, CountersTypeOK, Frames
  <2> QED
    BY <1>1, <2>1 DEF Known
<1>6. AcksKnown'
  BY <1>1, <1>2, <1>5 DEF AcksKnown
<1>7. Numbering' /\ Staged' /\ Held' /\ ConnectionSent'
  BY <1>1, <1>2 DEF Numbering, Staged, Held, ConnectionSent
<1> QED
  BY <1>4, <1>6, <1>7

\* A step of the proxy that gives out no number and sends nothing keeps what is
\* known, what is held and the gap-freedom of the connections.
LEMMA QuietKeeps ==
  ASSUME TypeOK, CleanInv, Grows, UNCHANGED <<wire, handling, recording, backendAck>>,
         opened' \in Nat, opened <= opened',
         buffer.pending' \subseteq buffer.pending,
         Known(buffer.lastAck'),
         \A f \in buffer.pending : f \in buffer.pending' \/ f.seq = 0 \/ Settled(f)',
         \A c \in Conns : \A i \in DOMAIN acks'[c] :
            \E j \in DOMAIN acks[c] : acks'[c][i] = acks[c][j]
  PROVE  /\ Numbering' /\ AcksKnown' /\ WiresGapFree' /\ Held'
         /\ \A c, f : Sent(c, f) => Sent(c, f)'
<1>1. /\ \A f : Settled(f) => Settled(f)'
      /\ \A n : Known(n) => Known(n)'
  BY SettledGrows
<1>2. WiresGapFree' /\ \A c, f : Sent(c, f) => Sent(c, f)'
  BY QuietWires DEF CleanInv
<1>3. Numbering'
  BY DEF Numbering, CleanInv, Grows
<1>4. Held'
  BY <1>1 DEF Held, CleanInv, Grows
<1>5. AcksKnown'
  <2>1. \A n : Known(n) => /\ n = 0 \/ n < buffer.next'
                           /\ \A f \in pushed' : 0 < f.seq /\ f.seq <= n => Settled(f)'
    BY <1>1 DEF Known
  <2>2. Known(backendAck)'
    BY <2>1 DEF AcksKnown, CleanInv, Known
  <2>3. Known(buffer.lastAck)'
    BY <2>1 DEF Known
  <2>4. \A c \in Conns : \A i \in DOMAIN acks'[c] : Known(acks[c][i])'
    <3> SUFFICES ASSUME NEW c \in Conns, NEW i \in DOMAIN acks'[c] PROVE Known(acks[c][i])'
      OBVIOUS
    <3>1. PICK j \in DOMAIN acks[c] : acks'[c][i] = acks[c][j]
      OBVIOUS
    <3>2. Known(acks[c][j])
      BY DEF AcksKnown, CleanInv
    <3> QED
      BY <2>1, <3>1, <3>2 DEF Known
  <2> QED
    BY <2>2, <2>3, <2>4 DEF AcksKnown
<1> QED
  BY <1>2, <1>3, <1>4, <1>5

\* When a connection ends nothing is in hand, and a buffer read back drops only
\* what its own ack covers.
LEMMA EndedKeeps ==
  ASSUME TypeOK, CleanInv,
         conn' = 0, phase' = "down",
         queue' = <<>>, forwarding' = {}, inlining' = {},
         acks' = [acks EXCEPT ![conn] = <<>>],
         buffer' = buffer \/ buffer' = Reloaded(buffer),
         dropped \subseteq dropped',
         UNCHANGED <<wire, handling, recording, backendAck, transcript, pushed, opened, live>>
  PROVE  CleanInv'
<1>1. opened \in Nat /\ live \subseteq Conns /\ pushed \subseteq Frames
      /\ acks \in [Conns -> Seq(Nat)] /\ buffer \in BufferState
  BY DEF TypeOK, ProxyTypeOK, NetTypeOK, CountersTypeOK
<1>2. buffer'.next = buffer.next /\ buffer'.lastAck = buffer.lastAck
      /\ buffer'.pending \subseteq buffer.pending
  BY DEF Reloaded
<1>3. Grows
  BY <1>2 DEF Grows, Stored
<1>4. Known(buffer.lastAck')
  BY <1>2 DEF CleanInv, AcksKnown
<1>5. \A f : Settled(f) => Settled(f)'
  BY <1>3, SettledGrows
<1>6. \A f \in buffer.pending : f \in buffer.pending' \/ f.seq = 0 \/ Settled(f)'
  <2> SUFFICES ASSUME NEW f \in buffer.pending, f \notin buffer.pending'
               PROVE  f.seq = 0 \/ Settled(f)'
    OBVIOUS
  <2>1. f \in pushed /\ f.seq \in Nat /\ buffer.lastAck \in Nat
    BY <1>1 DEF CleanInv, Numbering, Frames, BufferState
  <2>2. f.seq <= buffer.lastAck
    BY <2>1 DEF Reloaded
  <2> QED
    BY <1>5, <2>1, <2>2 DEF CleanInv, AcksKnown, Known
<1>7. \A c \in Conns : \A i \in DOMAIN acks'[c] :
         \E j \in DOMAIN acks[c] : acks'[c][i] = acks[c][j]
  BY <1>1
<1>8. opened' \in Nat /\ opened <= opened'
  BY <1>1
<1>9. Numbering' /\ AcksKnown' /\ WiresGapFree' /\ Held'
  BY <1>2, <1>3, <1>4, <1>6, <1>7, <1>8, QuietKeeps
<1>10. Staged'
  BY DEF Staged
<1>11. ConnectionSent'
  BY <1>1 DEF ConnectionSent, Conns
<1> QED
  BY <1>9, <1>10, <1>11 DEF CleanInv

\* A lost connection, a failed replay and a relaunch keep the invariant.
LEMMA DisconnectKeeps ==
  ASSUME TypeOK, CleanInv, Disconnect \/ ReplayFails \/ Relaunch
  PROVE  CleanInv'
<1>1. dropped \subseteq dropped'
  BY DEF Disconnect, ReplayFails, Relaunch, EndConnection
<1>2. /\ conn' = 0 /\ phase' = "down" /\ queue' = <<>> /\ forwarding' = {} /\ inlining' = {}
      /\ acks' = [acks EXCEPT ![conn] = <<>>]
      /\ buffer' = buffer \/ buffer' = Reloaded(buffer)
  BY DEF Disconnect, ReplayFails, Relaunch, EndConnection
<1>3. UNCHANGED <<wire, handling, recording, backendAck, transcript, pushed, opened, live>>
  BY DEF Disconnect, ReplayFails, Relaunch, backendVars
<1> QED
  BY <1>1, <1>2, <1>3, EndedKeeps

\* Nothing below an ack the proxy reads is lost with the frames it covers.
LEMMA ReceiveAckKeeps ==
  ASSUME TypeOK, CleanInv, ReceiveAck
  PROVE  CleanInv'
<1> DEFINE n == Head(acks[conn])
<1>1. /\ opened \in Nat /\ live \subseteq Conns /\ pushed \subseteq Frames
      /\ acks \in [Conns -> Seq(Nat)] /\ buffer \in BufferState
  BY DEF TypeOK, ProxyTypeOK, NetTypeOK, CountersTypeOK
<1>2. /\ phase = "looping" /\ conn \in Conns /\ acks[conn] # <<>>
      /\ buffer' = Acknowledged(buffer, n)
      /\ acks' = [acks EXCEPT ![conn] = Tail(acks[conn])]
      /\ UNCHANGED <<claude, queue, forwarding, inlining, conn, phase, replayed>>
      /\ UNCHANGED <<opened, live, wire, handling, recording, backendAck, transcript, pushed, dropped>>
  BY DEF ReceiveAck, MainLoopReady, backendVars, history, TypeOK, ProxyTypeOK
<1>3. n = acks[conn][1] /\ 1 \in DOMAIN acks[conn] /\ n \in Nat
  BY <1>1, <1>2
<1>4. Known(n)
  BY <1>2, <1>3 DEF CleanInv, AcksKnown
<1>5. Grows
  BY <1>2 DEF Grows, Stored, Acknowledged
<1>6. \A f : Settled(f) => Settled(f)'
  BY <1>5, SettledGrows
<1>7. Known(buffer.lastAck')
  BY <1>2, <1>4 DEF Acknowledged, CleanInv, AcksKnown
<1>8. \A f \in buffer.pending : f \in buffer.pending' \/ f.seq = 0 \/ Settled(f)'
  <2> SUFFICES ASSUME NEW f \in buffer.pending, f \notin buffer.pending'
               PROVE  f.seq = 0 \/ Settled(f)'
    OBVIOUS
  <2>1. f \in pushed /\ f.seq \in Nat
    BY <1>1 DEF CleanInv, Numbering, Frames
  <2>2. f.seq <= n
    BY <1>2, <1>3, <2>1 DEF Acknowledged
  <2> QED
    BY <1>4, <1>6, <2>1, <2>2 DEF Known
<1>9. \A c \in Conns : \A i \in DOMAIN acks'[c] :
         \E j \in DOMAIN acks[c] : acks'[c][i] = acks[c][j]
  <2> PICK k \in Conns : k = conn
    BY <1>2
  <2>1. \A c \in Conns : c # k => acks'[c] = acks[c]
    BY <1>1, <1>2
  <2>2. acks'[k] = Tail(acks[k]) /\ acks[k] \in Seq(Nat) /\ acks[k] # <<>>
    BY <1>1, <1>2
  <2>3. \A i \in DOMAIN acks'[k] : i + 1 \in DOMAIN acks[k] /\ acks'[k][i] = acks[k][i + 1]
    BY <2>2
  <2> QED
    BY <2>1, <2>3
<1>10. opened' \in Nat /\ opened <= opened'
  BY <1>1, <1>2
<1>11. buffer.pending' \subseteq buffer.pending
  BY <1>2 DEF Acknowledged
<1>12. /\ Numbering' /\ AcksKnown' /\ WiresGapFree' /\ Held'
       /\ \A c, f : Sent(c, f) => Sent(c, f)'
  BY <1>2, <1>5, <1>7, <1>8, <1>9, <1>10, <1>11, QuietKeeps
<1>13. Staged'
  BY <1>2 DEF Staged, CleanInv
<1>14. ConnectionSent'
  <2> PICK k \in Conns : k = conn
    BY <1>2
  <2>1. \A f : Sent(k, f) => Sent(k, f)'
    BY <1>12
  <2> QED
    BY <1>2, <2>1 DEF ConnectionSent, CleanInv, Sent
<1> QED
  BY <1>12, <1>13, <1>14 DEF CleanInv

\* A failed first attempt, the end of the replay and an output taken from the
\* agent move nothing.
LEMMA IdleKeeps ==
  ASSUME TypeOK, CleanInv, ConnectFails \/ ReplayDone \/ TakeOutput
  PROVE  CleanInv'
<1>1. opened \in Nat /\ pushed \subseteq Frames
  BY DEF TypeOK, NetTypeOK, CountersTypeOK
<1>2. /\ UNCHANGED <<claude, buffer, forwarding, inlining, conn, replayed>>
      /\ UNCHANGED <<opened, live, wire, acks, handling, recording, backendAck, transcript, pushed, dropped>>
  BY DEF ConnectFails, ReplayDone, TakeOutput, netVars, backendVars, history
<1>3. Grows
  BY <1>2 DEF Grows, Stored
<1>4. Known(buffer.lastAck')
  BY <1>2 DEF CleanInv, AcksKnown
<1>5. \A c \in Conns : \A i \in DOMAIN acks'[c] :
         \E j \in DOMAIN acks[c] : acks'[c][i] = acks[c][j]
  BY <1>2
<1>6. /\ Numbering' /\ AcksKnown' /\ WiresGapFree' /\ Held'
      /\ \A c, f : Sent(c, f) => Sent(c, f)'
  BY <1>1, <1>2, <1>3, <1>4, <1>5, QuietKeeps
<1>7. Staged'
  <2>1. CASE ConnectFails
    BY <1>2, <2>1 DEF ConnectFails, Staged, CleanInv
  <2>2. CASE ReplayDone
    BY <1>2, <2>2 DEF ReplayDone, Staged, CleanInv
  <2>3. CASE TakeOutput
    BY <1>2, <2>3 DEF TakeOutput, MainLoopReady, Staged, CleanInv
  <2> QED
    BY <2>1, <2>2, <2>3
<1>8. ConnectionSent'
  <2> PICK k \in Nat : k = conn
    BY DEF TypeOK, ProxyTypeOK
  <2>1. \A f : Sent(k, f) => Sent(k, f)'
    BY <1>6
  <2>2. CASE ConnectFails \/ TakeOutput
    <3>1. UNCHANGED phase
      BY <2>2 DEF ConnectFails, TakeOutput
    <3> QED
      BY <1>2, <2>1, <3>1 DEF ConnectionSent, CleanInv, Sent
  <2>3. CASE ReplayDone
    <3>1. /\ phase = "replaying" /\ buffer.pending \subseteq replayed
          /\ phase' \in {"announcing", "looping"}
      BY <2>3 DEF ReplayDone, ReplayComplete
    <3>2. k \in live => \A f \in buffer.pending : f.seq > 0 => Sent(k, f)
      BY <3>1 DEF ConnectionSent, CleanInv, Sent
    <3>3. k \in live => \A f \in pushed : f.seq > 0 => Sent(k, f)
      BY <3>2 DEF Held, CleanInv, Sent
    <3>4. k \in live => \A f \in pushed : f.seq > 0 => Sent(k, f)'
      BY <2>1, <3>3
    <3> QED
      BY <1>2, <3>1, <3>4 DEF ConnectionSent, CleanInv, Sent
  <2> QED
    BY <2>2, <2>3
<1> QED
  BY <1>6, <1>7, <1>8 DEF CleanInv

\* A new connection has carried nothing; what clear drops is given up on.
LEMMA ConnectKeeps ==
  ASSUME TypeOK, CleanInv, Connect
  PROVE  CleanInv'
<1>1. opened \in Nat /\ pushed \subseteq Frames /\ buffer \in BufferState
  BY DEF TypeOK, ProxyTypeOK, NetTypeOK, CountersTypeOK
<1>2. /\ conn = 0 /\ opened' = opened + 1 /\ conn' = opened + 1
      /\ replayed' = {} /\ phase' = "replaying"
      /\ UNCHANGED <<claude, queue, forwarding, inlining>>
      /\ UNCHANGED <<wire, acks, handling, recording, backendAck, transcript, pushed>>
  BY DEF Connect, backendVars
<1>3. \/ UNCHANGED <<buffer, dropped>>
      \/ /\ buffer' = [next |-> buffer.next, lastAck |-> buffer.lastAck, pending |-> {}]
         /\ dropped' = dropped \cup {f.id : f \in buffer.pending}
  BY DEF Connect
<1>4. Grows
  BY <1>2, <1>3 DEF Grows, Stored
<1>5. \A f : Settled(f) => Settled(f)'
  BY <1>4, SettledGrows
<1>6. Known(buffer.lastAck')
  BY <1>3 DEF CleanInv, AcksKnown
<1>7. \A f \in buffer.pending : f \in buffer.pending' \/ f.seq = 0 \/ Settled(f)'
  BY <1>3 DEF Settled
<1>8. buffer.pending' \subseteq buffer.pending
  BY <1>3
<1>9. Numbering' /\ AcksKnown' /\ WiresGapFree' /\ Held'
  BY <1>1, <1>2, <1>4, <1>6, <1>7, <1>8, QuietKeeps
<1>10. phase = "down"
  BY <1>2 DEF TypeOK, ProxyTypeOK, Conns
<1>11. Staged'
  BY <1>2, <1>10 DEF Staged, CleanInv
<1>12. ConnectionSent'
  BY <1>1, <1>2 DEF ConnectionSent
<1> QED
  BY <1>9, <1>11, <1>12 DEF CleanInv

\* A frame sent in order is accounted for wherever it ends up.
LEMMA SendKeeps ==
  ASSUME TypeOK, CleanInv, NEW f \in pushed, Transmit(f),
         NEW k \in Conns, k = conn,
         k \in live => \A g \in pushed : 0 < g.seq /\ g.seq < f.seq => Sent(k, g),
         UNCHANGED <<buffer, handling, recording, backendAck, transcript, pushed, dropped, opened, acks>>
  PROVE  /\ Numbering' /\ AcksKnown' /\ WiresGapFree' /\ Held'
         /\ \A g \in pushed : Sent(k, g) => Sent(k, g)'
         /\ k \in live => Sent(k, f)'
<1>1. k <= opened /\ WiresGapFree
  BY DEF CleanInv, ConnectionSent
<1>2. /\ WiresGapFree'
      /\ \A c \in Conns, g \in pushed : Sent(c, g) => Sent(c, g)'
      /\ k \in live => Sent(k, f)'
  BY <1>1, TransmitWires
<1>3. \A g : Settled(g) <=> Settled(g)'
  BY DEF Settled, Stored
<1>4. \A n : Known(n) <=> Known(n)'
  BY <1>3 DEF Known
<1>5. Numbering' /\ Held'
  BY <1>3 DEF Numbering, Held, CleanInv
<1>6. AcksKnown'
  BY <1>4 DEF AcksKnown, CleanInv
<1> QED
  BY <1>2, <1>5, <1>6

\* One frame replayed keeps the invariant.
LEMMA ReplayNextKeeps ==
  ASSUME TypeOK, CleanInv, ReplayNext
  PROVE  CleanInv'
<1>1. PICK f \in buffer.pending : /\ IsOldest(f, buffer.pending \ replayed) /\ Transmit(f)
                                  /\ replayed' = replayed \cup {f}
  BY DEF ReplayNext
<1>2. /\ phase = "replaying" /\ conn \in Conns
      /\ UNCHANGED <<claude, buffer, queue, forwarding, inlining, conn, phase>>
      /\ UNCHANGED <<opened, live, acks, handling, recording, backendAck, transcript, pushed, dropped>>
  BY DEF ReplayNext, backendVars, history, TypeOK, ProxyTypeOK
<1>3. f \in pushed /\ f.seq \in Nat /\ \A g \in pushed : g.seq \in Nat
  BY DEF CleanInv, Numbering, TypeOK, CountersTypeOK, Frames
<1> PICK k \in Conns : k = conn
  BY <1>2
<1>4. k \in live => \A g \in pushed : 0 < g.seq /\ g.seq < f.seq => Sent(k, g)
  <2> SUFFICES ASSUME k \in live, NEW g \in pushed, 0 < g.seq, g.seq < f.seq
               PROVE  Sent(k, g)
    OBVIOUS
  <2>1. CASE Settled(g)
    BY <2>1 DEF Sent
  <2>2. CASE g \in buffer.pending
    <3>1. g \in replayed
      BY <1>1, <1>3, <2>2 DEF IsOldest
    <3> QED
      BY <1>2, <2>2, <3>1 DEF CleanInv, ConnectionSent
  <2> QED
    BY <1>3, <2>1, <2>2 DEF CleanInv, Held
<1>5. /\ Numbering' /\ AcksKnown' /\ WiresGapFree' /\ Held'
      /\ \A g \in pushed : Sent(k, g) => Sent(k, g)'
      /\ k \in live => Sent(k, f)'
  BY <1>1, <1>2, <1>3, <1>4, SendKeeps
<1>6. Staged'
  BY <1>2 DEF Staged, CleanInv
<1>7. ConnectionSent'
  BY <1>1, <1>2, <1>5 DEF ConnectionSent, CleanInv, Numbering, Sent
<1> QED
  BY <1>5, <1>6, <1>7 DEF CleanInv

\* The frame a task sends is the newest, and everything below it was sent.
LEMMA TaskSendKeeps ==
  ASSUME TypeOK, CleanInv, SendInline \/ ForwarderSend
  PROVE  CleanInv'
<1>1. /\ UNCHANGED <<claude, buffer, queue, conn, phase, replayed>>
      /\ UNCHANGED <<opened, live, acks, handling, recording, backendAck, transcript, pushed, dropped>>
  BY DEF SendInline, ForwarderSend, backendVars, history
<1>2. PICK f \in forwarding \cup inlining : Transmit(f)
  BY DEF SendInline, ForwarderSend
<1>3. /\ f \in pushed /\ \A g \in pushed : g.seq <= f.seq
      /\ phase = "looping" /\ conn \in Conns
  BY DEF CleanInv, Staged, TypeOK, ProxyTypeOK
<1>4. \A g \in forwarding \cup inlining : g = f
  <2> SUFFICES ASSUME NEW g \in forwarding \cup inlining PROVE g = f
    OBVIOUS
  <2>1. f.seq \in Nat /\ g.seq \in Nat /\ g \in pushed /\ f.seq <= g.seq /\ g.seq <= f.seq
    BY <1>3 DEF CleanInv, Staged, TypeOK, CountersTypeOK, Frames
  <2>2. g.seq = f.seq
    BY <2>1
  <2> QED
    BY <1>3, <2>1, <2>2 DEF CleanInv, Numbering
<1>5. forwarding' = {} /\ inlining' = {}
  BY <1>1 DEF SendInline, ForwarderSend, CleanInv, Staged
<1> PICK k \in Conns : k = conn
  BY <1>3
<1>6. k \in live => \A g \in pushed \ {f} : g.seq > 0 => Sent(k, g)
  BY <1>3, <1>4 DEF CleanInv, ConnectionSent
<1>7. k \in live => \A g \in pushed : 0 < g.seq /\ g.seq < f.seq => Sent(k, g)
  BY <1>6 DEF TypeOK, CountersTypeOK, Frames
<1>8. /\ Numbering' /\ AcksKnown' /\ WiresGapFree' /\ Held'
      /\ \A g \in pushed : Sent(k, g) => Sent(k, g)'
      /\ k \in live => Sent(k, f)'
  BY <1>1, <1>2, <1>3, <1>7, SendKeeps
<1>9. Staged'
  BY <1>1, <1>5 DEF Staged, CleanInv
<1>10. k \in live => \A g \in pushed : g.seq > 0 => Sent(k, g)'
  BY <1>6, <1>8
<1>11. ConnectionSent'
  BY <1>1, <1>3, <1>10 DEF ConnectionSent, CleanInv, Sent
<1> QED
  BY <1>8, <1>9, <1>11 DEF CleanInv

\* What a step of a task numbers is an output.
LEMMA NextOutput ==
  ASSUME TypeOK
  PROVE  /\ emitted < MaxOutputs => emitted + 1 \in Outputs
         /\ queue # <<>> => Head(queue) \in Outputs
<1>1. emitted \in 0 .. MaxOutputs /\ queue \in Seq(Outputs) /\ MaxOutputs \in Nat
  BY OutputBounds DEF TypeOK, ProxyTypeOK
<1>2. emitted < MaxOutputs => emitted + 1 \in Outputs
  BY <1>1 DEF Outputs
<1>3. queue # <<>> => Head(queue) \in Outputs
  BY <1>1
<1> QED
  BY <1>2, <1>3

\* A new number is above everything known, so it disturbs none of it; what the
\* limit of the buffer pushes out is given up on.
LEMMA PushKeeps ==
  ASSUME TypeOK, CleanInv, NEW id \in Outputs, Push(id),
         UNCHANGED <<wire, handling, recording, backendAck, transcript, opened, acks>>
  PROVE  /\ Numbering' /\ AcksKnown' /\ WiresGapFree' /\ Held'
         /\ \A c, g : Sent(c, g) => Sent(c, g)'
         /\ pushed' = pushed \cup {NewFrame(id)}
         /\ \A g \in pushed' : g.seq <= NewFrame(id).seq
<1> DEFINE n == NewFrame(id)
           grown == buffer.pending \cup {n}
<1> USE DEF CleanInv
<1>1. /\ n.seq = buffer.next /\ n.id = id /\ buffer.next \in Nat
      /\ pushed \subseteq Frames /\ wire \in [Conns -> Seq(Frames)] /\ backendAck \in Nat
      /\ acks \in [Conns -> Seq(Nat)] /\ buffer.lastAck \in Nat
  BY DEF NewFrame, TypeOK, ProxyTypeOK, NetTypeOK, BackendTypeOK, CountersTypeOK, BufferState
<1>2. /\ buffer'.next = buffer.next + 1 /\ buffer'.lastAck = buffer.lastAck
      /\ buffer'.pending = grown \ Overflow(grown)
      /\ dropped' = dropped \cup {f.id : f \in Overflow(grown)}
      /\ pushed' = pushed \cup {n}
  BY DEF Push
<1> HIDE DEF n
<1>3. \A f \in pushed : f.seq \in Nat /\ f.seq < n.seq
  BY <1>1 DEF Numbering, Frames
<1>4. \A f : Settled(f) => Settled(f)'
  BY <1>2 DEF Settled, Stored
<1>5. Numbering'
  BY <1>1, <1>2, <1>3 DEF Numbering
<1>6. ASSUME NEW m \in Nat, Known(m)
      PROVE  /\ m = 0 \/ m < buffer.next'
             /\ \A f \in pushed' : 0 < f.seq /\ f.seq <= m => Settled(f)'
  BY <1>1, <1>2, <1>4, <1>6 DEF Known
<1>7. AcksKnown'
  <2>1. Known(backendAck)' /\ Known(buffer.lastAck)'
    BY <1>1, <1>2, <1>6 DEF AcksKnown, Known
  <2>2. \A c \in Conns : \A i \in DOMAIN acks[c] : acks[c][i] \in Nat /\ Known(acks[c][i])
    BY <1>1 DEF AcksKnown
  <2>3. \A c \in Conns : \A i \in DOMAIN acks'[c] : Known(acks[c][i])'
    BY <1>6, <2>2 DEF Known
  <2> QED
    BY <2>1, <2>3 DEF AcksKnown
<1>8. WiresGapFree'
  <2>1. \A c \in Conns : \A i \in DOMAIN wire[c] :
           wire[c][i] \in pushed /\ wire[c][i].seq < n.seq /\ GapFree(c, i)
    BY <1>3 DEF WiresGapFree
  <2>2. ASSUME NEW c \in Conns, NEW i \in DOMAIN wire[c] PROVE GapFree(c, i)'
    <3>1. ~(n.seq < wire[c][i].seq)
      BY <1>1, <1>3, <2>1
    <3> QED
      BY <1>2, <1>4, <2>1, <3>1 DEF GapFree
  <2>3. ASSUME NEW c \in Conns PROVE Handled(c)'
    <3>1. Handled(c)
      BY DEF WiresGapFree
    <3>2. \A h \in handling[c] \cup recording[c] : ~(n.seq < h.seq)
      BY <1>1, <1>3, <3>1 DEF Handled
    <3> QED
      BY <1>2, <1>4, <3>1, <3>2 DEF Handled
  <2> QED
    BY <1>2, <2>1, <2>2, <2>3 DEF WiresGapFree
<1>9. Held'
  BY <1>2, <1>4 DEF Held, Settled
<1>10. \A c, g : Sent(c, g) => Sent(c, g)'
  BY <1>4 DEF Sent
<1>11. \A g \in pushed' : g.seq <= n.seq
  BY <1>1, <1>2, <1>3
<1> QED
  BY <1>2, <1>5, <1>7, <1>8, <1>9, <1>10, <1>11 DEF n

\* The task that pushes has nothing else in hand and the other task nothing at
\* all, so everything older was sent.
LEMMA TaskPushKeeps ==
  ASSUME TypeOK, CleanInv,
         Announce \/ (PushInline /\ ~claude) \/ ForwarderPush
  PROVE  CleanInv'
<1>1. /\ UNCHANGED <<claude, conn, replayed>>
      /\ UNCHANGED <<opened, live, wire, acks, handling, recording, backendAck, transcript>>
  BY DEF Announce, PushInline, ForwarderPush, netVars, backendVars
<1>2. /\ forwarding = {} /\ inlining = {} /\ phase \in {"announcing", "looping"}
      /\ phase' = "looping"
  <2>1. CASE Announce
    BY <2>1 DEF Announce, CleanInv, Staged
  <2>2. CASE PushInline /\ ~claude
    BY <2>2 DEF PushInline, MainLoopReady, CleanInv, Staged
  <2>3. CASE ForwarderPush
    BY <2>3 DEF ForwarderPush, CleanInv, Staged
  <2> QED
    BY <2>1, <2>2, <2>3
<1>3. PICK id \in Outputs : Push(id) /\ forwarding' \cup inlining' = {NewFrame(id)}
  <2>1. CASE Announce \/ PushInline
    <3>1. emitted + 1 \in Outputs
      BY <2>1, NextOutput DEF Announce, PushInline
    <3> QED
      BY <1>2, <2>1, <3>1 DEF Announce, PushInline
  <2>2. CASE ForwarderPush
    <3>1. Head(queue) \in Outputs
      BY <2>2, NextOutput DEF ForwarderPush
    <3> QED
      BY <1>2, <2>2, <3>1 DEF ForwarderPush
  <2> QED
    BY <2>1, <2>2
<1>4. /\ Numbering' /\ AcksKnown' /\ WiresGapFree' /\ Held'
      /\ \A c, g : Sent(c, g) => Sent(c, g)'
      /\ pushed' = pushed \cup {NewFrame(id)}
      /\ \A g \in pushed' : g.seq <= NewFrame(id).seq
  BY <1>1, <1>3, PushKeeps
<1>5. Staged'
  <2>1. ~claude' \/ inlining' # {} => queue' = <<>> /\ forwarding' = {}
    <3>1. CASE Announce
      BY <1>2, <3>1 DEF Announce, CleanInv, Staged
    <3>2. CASE PushInline /\ ~claude
      BY <1>2, <3>2 DEF PushInline, CleanInv, Staged
    <3>3. CASE ForwarderPush
      BY <1>2, <3>3 DEF ForwarderPush, CleanInv, Staged
    <3> QED
      BY <3>1, <3>2, <3>3
  <2>2. \A f \in forwarding' \cup inlining' : f \in pushed' /\ \A g \in pushed' : g.seq <= f.seq
    BY <1>3, <1>4
  <2> QED
    BY <1>2, <2>1, <2>2 DEF Staged
<1>6. ConnectionSent'
  <2> PICK k \in Nat : k = conn
    BY DEF TypeOK, ProxyTypeOK
  <2>1. k \in live => \A f \in pushed : f.seq > 0 => Sent(k, f)
    BY <1>2 DEF CleanInv, ConnectionSent
  <2>2. k \in live => \A f \in pushed : f.seq > 0 => Sent(k, f)'
    BY <1>4, <2>1
  <2> QED
    BY <1>1, <1>2, <1>3, <1>4, <2>2 DEF CleanInv, ConnectionSent, Sent
<1> QED
  BY <1>4, <1>5, <1>6 DEF CleanInv

Inv == Clean => CleanInv

\* Every step keeps the invariant.
LEMMA InvInductive ==
  ASSUME TypeOK, Inv, [Next]_vars
  PROVE  Inv'
<1> SUFFICES ASSUME Clean' PROVE CleanInv'
  BY DEF Inv
\* An accident stays on record.
<1>1. accidents \subseteq accidents'
  BY DEF Next, ProxyStep, BackendStep, Connect, ConnectFails, ReplayNext, ReplayDone,
     Announce, Disconnect, ReplayFails, Relaunch, ProxyCrash, TakeOutput, PushInline,
     SendInline, ForwarderPush, ForwarderSend, ReceiveAck, TestFrame, StoreFrame,
     StoreFails, RecordFrame, HandlerEnds, BackendRestart, Accident, faultVars, vars
<1>2. CleanInv
  BY <1>1 DEF Clean, Inv
<1>3. CASE Disconnect \/ ReplayFails \/ Relaunch
  BY <1>2, <1>3, DisconnectKeeps
<1>4. CASE ConnectFails \/ ReplayDone \/ TakeOutput
  BY <1>2, <1>4, IdleKeeps
<1>5. CASE SendInline \/ ForwarderSend
  BY <1>2, <1>5, TaskSendKeeps
<1>6. ~ProxyCrash
  BY DEF ProxyCrash, Accident, Clean
<1>7. CASE PushInline
  <2>1. ~claude
    BY <1>7 DEF PushInline, Accident, Clean
  <2> QED
    BY <1>2, <1>7, <2>1, TaskPushKeeps
<1>8. ASSUME NEW c \in Conns, StoreFails(c) PROVE FALSE
  BY <1>8 DEF StoreFails, Accident, Clean
<1>9. CASE UNCHANGED vars
  BY <1>2, <1>9 DEF vars, proxyVars, netVars, backendVars, history, CleanInv, Numbering,
     AcksKnown, Known, WiresGapFree, GapFree, Handled, Staged, ConnectionSent, Sent,
     Held, Settled, Stored
<1>10. CASE Connect
  BY <1>2, <1>10, ConnectKeeps
<1>11. CASE ReplayNext
  BY <1>2, <1>11, ReplayNextKeeps
<1>12. CASE Announce \/ ForwarderPush
  BY <1>2, <1>12, TaskPushKeeps
<1>13. CASE ReceiveAck
  BY <1>2, <1>13, ReceiveAckKeeps
<1>14. ASSUME NEW c \in Conns,
              TestFrame(c) \/ StoreFrame(c) \/ RecordFrame(c) \/ HandlerEnds(c)
       PROVE  CleanInv'
  BY <1>2, <1>14, TestKeeps, StoreKeeps, RecordKeeps, EndsKeeps
<1>15. CASE BackendRestart
  BY <1>2, <1>15, RestartKeeps
<1> QED
  BY <1>3, <1>4, <1>5, <1>6, <1>7, <1>8, <1>9, <1>10, <1>11, <1>12, <1>13, <1>14, <1>15
  DEF Next, ProxyStep, BackendStep

\* At first nothing is buffered or stored.
LEMMA InvInitially == Init => Inv
<1> SUFFICES ASSUME Init PROVE CleanInv
  BY DEF Inv
<1>1. \A c \in Conns : wire[c] = <<>> /\ handling[c] = {} /\ recording[c] = {} /\ acks[c] = <<>>
  BY DEF Init
<1>2. Numbering /\ AcksKnown /\ Staged /\ ConnectionSent /\ Held
  BY <1>1 DEF Init, EmptyBuffer, Numbering, AcksKnown, Known, Staged, ConnectionSent, Held
<1>3. WiresGapFree
  BY <1>1 DEF WiresGapFree, Handled
<1> QED
  BY <1>2, <1>3 DEF CleanInv

\* "Messages are held until the backend acknowledges receipt" (output_buffer.rs):
\* short of an accident no numbered output but number 0 is ever missing from
\* the buffer and from the transcript without having been given up on.
THEOREM OutputHeld == Spec => []HeldUntilStored
<1>1. Inv => HeldUntilStored
  BY DEF Inv, CleanInv, Held, HeldUntilStored, Settled
<1>2. TypeOK /\ Inv /\ [Next]_vars => Inv'
  BY InvInductive
<1> QED
  BY <1>1, <1>2, InvInitially, TypeCorrect, PTL DEF Spec

-----------------------------------------------------------------------------
(* Sequence numbers are unique as long as no process is killed. *)

NumberInv == "proxy crash" \notin accidents => Numbering

\* The sequence number next_seq only moves with push, and moves past it.
LEMMA NumberingStep ==
  ASSUME TypeOK, Numbering, [Next]_vars, ~ProxyCrash
  PROVE  Numbering'
<1>1. ASSUME NEW id \in Outputs, Push(id) PROVE Numbering'
  <2> DEFINE n == NewFrame(id)
  <2>1. /\ n.seq = buffer.next /\ buffer.next \in Nat /\ \A f \in pushed : f.seq \in Nat
    BY DEF NewFrame, TypeOK, ProxyTypeOK, CountersTypeOK, BufferState, Frames
  <2>2. /\ buffer'.next = buffer.next + 1 /\ pushed' = pushed \cup {n}
        /\ buffer'.pending \subseteq buffer.pending \cup {n}
    BY <1>1 DEF Push
  <2> HIDE DEF n
  <2>3. \A f \in pushed : f.seq \in Nat /\ f.seq < n.seq
    BY <2>1 DEF Numbering
  <2>4. \A f \in pushed' : f.seq < buffer.next'
    BY <2>1, <2>2, <2>3
  <2>5. \A f, g \in pushed' : f.seq = g.seq => f = g
    BY <2>2, <2>3 DEF Numbering
  <2>6. buffer.pending' \subseteq pushed'
    BY <2>2 DEF Numbering
  <2> QED
    BY <2>4, <2>5, <2>6 DEF Numbering
<1>2. ASSUME buffer.next' = buffer.next, buffer.pending' \subseteq buffer.pending, pushed' = pushed
      PROVE  Numbering'
  BY <1>2 DEF Numbering
<1>3. CASE Connect
  <2>1. \/ buffer' = buffer
        \/ buffer' = [next |-> buffer.next, lastAck |-> buffer.lastAck, pending |-> {}]
    BY <1>3 DEF Connect
  <2>2. buffer.next' = buffer.next /\ buffer.pending' \subseteq buffer.pending
    BY <2>1
  <2>3. UNCHANGED pushed
    BY <1>3 DEF Connect
  <2> QED
    BY <1>2, <2>2, <2>3
<1>4. CASE Relaunch
  BY <1>2, <1>4 DEF Relaunch, Reloaded
<1>5. CASE ReceiveAck
  BY <1>2, <1>5 DEF ReceiveAck, Acknowledged, history
<1>6. CASE Announce \/ PushInline
  <2>1. emitted + 1 \in Outputs
    BY <1>6, NextOutput DEF Announce, PushInline
  <2> QED
    BY <1>1, <1>6, <2>1 DEF Announce, PushInline
<1>7. CASE ForwarderPush
  <2>1. Head(queue) \in Outputs
    BY <1>7, NextOutput DEF ForwarderPush
  <2> QED
    BY <1>1, <1>7, <2>1 DEF ForwarderPush
<1>8. CASE UNCHANGED <<buffer, pushed>>
  BY <1>2, <1>8
<1>9. CASE ConnectFails \/ ReplayNext \/ ReplayDone \/ Disconnect \/ ReplayFails
            \/ TakeOutput \/ SendInline \/ ForwarderSend
  BY <1>8, <1>9 DEF ConnectFails, ReplayNext, ReplayDone, Disconnect, ReplayFails,
     TakeOutput, SendInline, ForwarderSend, history
<1>10. CASE BackendStep \/ UNCHANGED vars
  BY <1>8, <1>10 DEF BackendStep, TestFrame, StoreFrame, StoreFails, RecordFrame, HandlerEnds,
     BackendRestart, proxyVars, history, vars
<1> QED
  BY <1>3, <1>4, <1>5, <1>6, <1>7, <1>9, <1>10 DEF Next, ProxyStep

\* No step gives a number twice.
LEMMA NumberInductive ==
  ASSUME TypeOK, NumberInv, [Next]_vars
  PROVE  NumberInv'
<1>1. accidents \subseteq accidents'
  BY DEF Next, ProxyStep, BackendStep, Connect, ConnectFails, ReplayNext, ReplayDone,
     Announce, Disconnect, ReplayFails, Relaunch, ProxyCrash, TakeOutput, PushInline,
     SendInline, ForwarderPush, ForwarderSend, ReceiveAck, TestFrame, StoreFrame,
     StoreFails, RecordFrame, HandlerEnds, BackendRestart, Accident, faultVars, vars
<1>2. ProxyCrash => "proxy crash" \in accidents'
  BY DEF ProxyCrash, Accident
<1> QED
  BY <1>1, <1>2, NumberingStep DEF NumberInv

\* No two outputs of a session share a sequence number unless the process was
\* killed before it could persist: push numbers on from next_seq, and neither
\* clear, an ack nor a reload turns it back.
THEOREM NumbersNeverShared == Spec => []NumbersUnique
<1>1. Init => NumberInv
  BY DEF Init, EmptyBuffer, NumberInv, Numbering
<1>2. TypeOK /\ NumberInv /\ [Next]_vars => NumberInv'
  BY NumberInductive
<1>3. NumberInv => NumbersUnique
  BY DEF NumberInv, Numbering, NumbersUnique
<1> QED
  BY <1>1, <1>2, <1>3, TypeCorrect, PTL DEF Spec

-----------------------------------------------------------------------------
(***************************************************************************)
(* Identities.  A frame is compared with the transcript by its output and  *)
(* with last_ack by its number, so both the duplicate test and the log     *)
(* rest on a frame being told by either: an output is numbered once, and   *)
(* whatever is on its way or stored was numbered.  These hold through every*)
(* accident.                                                               *)
(***************************************************************************)

OnlyPushed ==
    /\ buffer.pending \cup disk.pending \subseteq pushed
    /\ forwarding \cup inlining \subseteq pushed
    /\ \A c \in Conns :
          handling[c] \cup recording[c] \subseteq pushed /\ ToSet(wire[c]) \subseteq pushed
    /\ ToSet(transcript) \subseteq pushed

IdsOnce ==
    /\ \A f, g \in pushed : f.id = g.id => f = g
    /\ \A f \in pushed : f.id <= emitted
    /\ \A i \in DOMAIN queue : queue[i] <= emitted /\ \A f \in pushed : f.id # queue[i]
    /\ \A i, j \in DOMAIN queue : queue[i] = queue[j] => i = j

\* A handler works on one frame at a time.
OneInHand ==
    \A c \in Conns :
        /\ handling[c] = {} \/ recording[c] = {}
        /\ \A f, g \in recording[c] : f = g

\* What is stored is covered by last_ack, or its handler is about to record it.
LastAckKnows ==
    restarts = 0 => \A f \in ToSet(transcript) :
                       f.seq <= backendAck \/ \E d \in Conns : f \in recording[d]

NoneSkipped ==
    Clean => \A n \in 0 .. buffer.next : n < buffer.next => \E f \in pushed : f.seq = n

\* What was pushed stays, and push adds its frame.
LEMMA PushAdds ==
  ASSUME TypeOK, NEW id \in Outputs, Push(id)
  PROVE  /\ NewFrame(id) \in Frames
         /\ pushed' = pushed \cup {NewFrame(id)}
         /\ buffer'.pending \subseteq buffer.pending \cup {NewFrame(id)}
         /\ buffer'.next = buffer.next + 1
<1>1. NewFrame(id) \in Frames
  BY PushType DEF TypeOK, ProxyTypeOK, CountersTypeOK
<1> QED
  BY <1>1 DEF Push

\* A frame sent goes to the end of its wire, if anywhere.
LEMMA TransmitAdds ==
  ASSUME TypeOK, NEW f \in Frames, Transmit(f), NEW c \in Conns
  PROVE  ToSet(wire'[c]) \subseteq ToSet(wire[c]) \cup {f}
<1>1. wire \in [Conns -> Seq(Frames)] /\ wire[c] \in Seq(Frames)
  BY DEF TypeOK, NetTypeOK
<1>2. wire'[c] = wire[c] \/ wire'[c] = Append(wire[c], f)
  BY <1>1 DEF Transmit
<1>3. ToSet(Append(wire[c], f)) = ToSet(wire[c]) \cup {f}
  BY <1>1, AppendHeld
<1> QED
  BY <1>2, <1>3

\* A step of the proxy sends, buffers and persists only what was pushed.
LEMMA ProxyPushed ==
  ASSUME TypeOK, OnlyPushed, ProxyStep
  PROVE  OnlyPushed'
<1> USE DEF OnlyPushed
<1>1. ASSUME NEW id \in Outputs, Push(id), UNCHANGED <<disk, wire, handling, recording, transcript>>,
             forwarding' \cup inlining' \subseteq forwarding \cup inlining \cup {NewFrame(id)}
      PROVE  OnlyPushed'
  BY <1>1, PushAdds
<1>2. ASSUME UNCHANGED <<pushed, wire, handling, recording, transcript>>,
             buffer'.pending \cup disk'.pending \subseteq buffer.pending \cup disk.pending,
             forwarding' \cup inlining' \subseteq forwarding \cup inlining
      PROVE  OnlyPushed'
  BY <1>2
<1>3. ASSUME NEW f \in pushed, Transmit(f), UNCHANGED <<buffer, disk, pushed, handling, recording, transcript>>,
             forwarding' \cup inlining' \subseteq forwarding \cup inlining
      PROVE  OnlyPushed'
  <2>1. f \in Frames
    BY DEF TypeOK, CountersTypeOK
  <2>2. \A c \in Conns : ToSet(wire'[c]) \subseteq pushed
    BY <1>3, <2>1, TransmitAdds
  <2> QED
    BY <1>3, <2>2
<1>4. CASE Announce \/ PushInline
  <2>1. emitted + 1 \in Outputs
    BY <1>4, NextOutput DEF Announce, PushInline
  <2> QED
    BY <1>1, <1>4, <2>1 DEF Announce, PushInline, netVars, backendVars
<1>5. CASE ForwarderPush
  <2>1. Head(queue) \in Outputs
    BY <1>5, NextOutput DEF ForwarderPush
  <2> QED
    BY <1>1, <1>5, <2>1 DEF ForwarderPush, netVars, backendVars
<1>6. CASE ReplayNext
  BY <1>3, <1>6 DEF ReplayNext, backendVars, history
<1>7. CASE SendInline \/ ForwarderSend
  BY <1>3, <1>7 DEF SendInline, ForwarderSend, backendVars, history
<1>8. CASE Connect
  BY <1>2, <1>8 DEF Connect, backendVars
<1>9. CASE ConnectFails \/ ReplayDone \/ TakeOutput
  BY <1>2, <1>9 DEF ConnectFails, ReplayDone, TakeOutput, netVars, backendVars, history
<1>10. CASE Disconnect \/ ReplayFails
  BY <1>2, <1>10 DEF Disconnect, ReplayFails, EndConnection, backendVars
<1>11. CASE Relaunch \/ ProxyCrash
  <2>1. /\ UNCHANGED <<pushed, wire, handling, recording, transcript>> /\ forwarding' = {} /\ inlining' = {}
        /\ disk' = buffer \/ disk' = disk
        /\ buffer' = Reloaded(buffer) \/ buffer' = Reloaded(disk)
    BY <1>11 DEF Relaunch, ProxyCrash, backendVars
  <2>2. buffer'.pending \subseteq buffer.pending \cup disk.pending
    BY <2>1 DEF Reloaded
  <2> QED
    BY <1>2, <2>1, <2>2
<1>12. CASE ReceiveAck
  <2>1. buffer'.pending \subseteq buffer.pending /\ disk' = buffer'
    BY <1>12 DEF ReceiveAck, Acknowledged
  <2> QED
    BY <1>2, <1>12, <2>1 DEF ReceiveAck, backendVars, history
<1> QED
  BY <1>4, <1>5, <1>6, <1>7, <1>8, <1>9, <1>10, <1>11, <1>12 DEF ProxyStep

\* A step of the backend handles and stores only what was pushed.
LEMMA BackendPushed ==
  ASSUME TypeOK, OnlyPushed, BackendStep
  PROVE  OnlyPushed'
<1> USE DEF OnlyPushed
<1>t. /\ wire \in [Conns -> Seq(Frames)] /\ transcript \in Seq(Frames)
      /\ handling \in [Conns -> SUBSET Frames] /\ recording \in [Conns -> SUBSET Frames]
  BY DEF TypeOK, NetTypeOK, BackendTypeOK
<1>u. UNCHANGED <<buffer, disk, forwarding, inlining, pushed>>
  BY DEF BackendStep, TestFrame, StoreFrame, StoreFails, RecordFrame, HandlerEnds, BackendRestart,
     proxyVars, history
<1>1. ASSUME NEW c \in Conns, TestFrame(c) PROVE OnlyPushed'
  <2>1. /\ wire[c] # <<>> /\ wire' = [wire EXCEPT ![c] = Tail(@)] /\ UNCHANGED <<transcript, recording>>
        /\ handling' = handling \/ handling' = [handling EXCEPT ![c] = {Head(wire[c])}]
    BY <1>1 DEF TestFrame
  <2>2. ToSet(wire[c]) = ToSet(Tail(wire[c])) \cup {Head(wire[c])}
    BY <1>t, <2>1, TailHeld
  <2> QED
    BY <1>t, <1>u, <2>1, <2>2
<1>2. ASSUME NEW c \in Conns, StoreFrame(c) PROVE OnlyPushed'
  <2>1. PICK f \in handling[c] :
          transcript' = Append(transcript, f) /\ recording' = [recording EXCEPT ![c] = {f}]
    BY <1>2 DEF StoreFrame
  <2>2. ToSet(transcript') = ToSet(transcript) \cup {f}
    BY <1>t, <2>1, AppendHeld
  <2>3. /\ wire' = wire /\ handling' = [handling EXCEPT ![c] = {}]
        /\ recording' = [recording EXCEPT ![c] = {f}]
    BY <1>2, <2>1 DEF StoreFrame, netVars
  <2> QED
    BY <1>t, <1>u, <2>2, <2>3
<1>3. ASSUME NEW c \in Conns, StoreFails(c) PROVE OnlyPushed'
  <2>1. PICK f \in handling[c] :
          recording' = [recording EXCEPT ![c] = {f}] \/ UNCHANGED recording
    BY <1>3 DEF StoreFails
  <2>2. /\ UNCHANGED <<wire, transcript>> /\ handling' = [handling EXCEPT ![c] = {}]
    BY <1>3 DEF StoreFails, netVars
  <2> QED
    BY <1>t, <1>u, <2>1, <2>2
<1>6. ASSUME NEW c \in Conns, RecordFrame(c) PROVE OnlyPushed'
  BY <1>t, <1>u, <1>6 DEF RecordFrame
<1>4. ASSUME NEW c \in Conns, HandlerEnds(c) PROVE OnlyPushed'
  BY <1>t, <1>u, <1>4, EmptyHeld DEF HandlerEnds, backendVars
<1>5. CASE BackendRestart
  BY <1>t, <1>u, <1>5, EmptyHeld DEF BackendRestart
<1> QED
  BY <1>1, <1>2, <1>3, <1>4, <1>5, <1>6 DEF BackendStep

\* No step numbers an output again: push takes one the queue held once, or a
\* new one.
LEMMA IdsStep ==
  ASSUME TypeOK, IdsOnce, [Next]_vars
  PROVE  IdsOnce'
<1> USE DEF IdsOnce
<1>t. /\ emitted \in Nat /\ queue \in Seq(Outputs) /\ Outputs \subseteq Nat
      /\ pushed \subseteq Frames /\ \A f \in pushed : f.id \in Nat
  BY DEF TypeOK, ProxyTypeOK, CountersTypeOK, Outputs, Frames
<1>q. \A i \in DOMAIN queue : queue[i] \in Nat
  <2>1. \A i \in DOMAIN queue : queue[i] \in Outputs
    BY <1>t
  <2> QED
    BY <1>t, <2>1
<1>1. ASSUME UNCHANGED <<pushed, emitted>>, queue' = queue \/ queue' = <<>> PROVE IdsOnce'
  BY <1>1
<1>2. CASE Announce \/ PushInline
  <2>1. emitted + 1 \in Outputs /\ Push(emitted + 1) /\ emitted' = emitted + 1 /\ queue' = queue
    BY <1>2, NextOutput DEF Announce, PushInline
  <2>2. pushed' = pushed \cup {NewFrame(emitted + 1)} /\ NewFrame(emitted + 1).id = emitted + 1
    BY <2>1, PushAdds DEF NewFrame
  <2> DEFINE n == NewFrame(emitted + 1)
  <2> HIDE DEF n
  <2>3. pushed' = pushed \cup {n} /\ n.id = emitted + 1
    BY <2>2 DEF n
  <2>4. \A f \in pushed : f.id # n.id /\ f.id <= emitted'
    BY <1>t, <2>1, <2>3
  <2>5. \A i \in DOMAIN queue : queue[i] \in Nat /\ queue[i] # n.id /\ queue[i] <= emitted'
    BY <1>t, <1>q, <2>1, <2>3
  <2>6. n.id <= emitted'
    BY <1>t, <2>1, <2>3
  <2> QED
    BY <2>1, <2>3, <2>4, <2>5, <2>6
<1>3. CASE ForwarderPush
  <2>1. /\ queue # <<>> /\ Head(queue) \in Outputs /\ Push(Head(queue))
        /\ queue' = Tail(queue) /\ emitted' = emitted
    BY <1>3, NextOutput DEF ForwarderPush
  <2> DEFINE n == NewFrame(Head(queue))
  <2>2. pushed' = pushed \cup {n} /\ n.id = Head(queue)
    BY <2>1, PushAdds DEF NewFrame
  <2> HIDE DEF n
  <2>3. /\ n.id = queue[1] /\ 1 \in DOMAIN queue
        /\ \A i \in DOMAIN queue' : /\ i \in Nat \ {0} /\ i + 1 \in DOMAIN queue
                                    /\ queue'[i] = queue[i + 1]
    BY <1>t, <2>1, <2>2
  <2>4. \A f \in pushed : f.id # n.id /\ f.id <= emitted
    BY <2>3
  <2>5. \A i \in DOMAIN queue' :
          /\ queue'[i] <= emitted /\ queue'[i] # n.id
          /\ \A f \in pushed : f.id # queue'[i]
    BY <2>3
  <2>6. \A i, j \in DOMAIN queue' : queue'[i] = queue'[j] => i = j
    BY <2>3
  <2>7. n.id <= emitted
    BY <2>3
  <2> QED
    BY <2>1, <2>2, <2>4, <2>5, <2>6, <2>7
<1>4. CASE TakeOutput
  <2>1. queue' = Append(queue, emitted + 1) /\ emitted' = emitted + 1 /\ pushed' = pushed
    BY <1>4 DEF TakeOutput, history
  <2>2. \A i \in DOMAIN queue' : \/ i \in DOMAIN queue /\ queue'[i] = queue[i]
                                 \/ i = Len(queue) + 1 /\ queue'[i] = emitted + 1
    BY <1>t, <2>1
  <2>4. \A i \in DOMAIN queue' : queue'[i] <= emitted' /\ \A f \in pushed : f.id # queue'[i]
    BY <1>t, <1>q, <2>1, <2>2
  <2>5. \A i, j \in DOMAIN queue' : queue'[i] = queue'[j] => i = j
    BY <1>t, <1>q, <2>1, <2>2
  <2>6. \A f \in pushed : f.id <= emitted'
    BY <1>t, <2>1
  <2> QED
    BY <2>1, <2>4, <2>5, <2>6
<1>5. CASE Connect \/ ConnectFails \/ ReplayNext \/ ReplayDone \/ SendInline \/ ForwarderSend
           \/ ReceiveAck
  BY <1>1, <1>5 DEF Connect, ConnectFails, ReplayNext, ReplayDone, SendInline, ForwarderSend,
     ReceiveAck, history
<1>6. CASE Disconnect \/ ReplayFails \/ Relaunch \/ ProxyCrash
  BY <1>1, <1>6 DEF Disconnect, ReplayFails, Relaunch, ProxyCrash, EndConnection
<1>7. CASE BackendStep \/ UNCHANGED vars
  BY <1>1, <1>7 DEF BackendStep, TestFrame, StoreFrame, StoreFails, RecordFrame, HandlerEnds,
     BackendRestart, proxyVars, history, vars
<1> QED
  BY <1>2, <1>3, <1>4, <1>5, <1>6, <1>7 DEF Next, ProxyStep

\* Each of a handler's steps takes its frame one stage on.
LEMMA OneInHandStep ==
  ASSUME TypeOK, OneInHand, [Next]_vars
  PROVE  OneInHand'
<1> USE DEF OneInHand
<1>t. handling \in [Conns -> SUBSET Frames] /\ recording \in [Conns -> SUBSET Frames]
  BY DEF TypeOK, BackendTypeOK
<1>1. CASE UNCHANGED <<handling, recording>>
  BY <1>1
<1>2. ASSUME NEW c \in Conns, TestFrame(c) PROVE OneInHand'
  BY <1>t, <1>2 DEF TestFrame
<1>3. ASSUME NEW c \in Conns, StoreFrame(c) PROVE OneInHand'
  BY <1>t, <1>3 DEF StoreFrame
<1>4. ASSUME NEW c \in Conns, StoreFails(c) PROVE OneInHand'
  <2>1. PICK f \in handling[c] :
          recording' = [recording EXCEPT ![c] = {f}] \/ UNCHANGED recording
    BY <1>4 DEF StoreFails
  <2>2. handling' = [handling EXCEPT ![c] = {}]
    BY <1>4 DEF StoreFails
  <2> QED
    BY <1>t, <2>1, <2>2
<1>5. ASSUME NEW c \in Conns, RecordFrame(c) PROVE OneInHand'
  BY <1>t, <1>5 DEF RecordFrame
<1>6. CASE BackendRestart
  BY <1>t, <1>6 DEF BackendRestart
<1>7. ASSUME NEW c \in Conns, HandlerEnds(c) PROVE OneInHand'
  BY <1>1, <1>7 DEF HandlerEnds, backendVars
<1>8. CASE ProxyStep \/ UNCHANGED vars
  BY <1>1, <1>8 DEF ProxyStep, Connect, ConnectFails, ReplayNext, ReplayDone, Announce,
     Disconnect, ReplayFails, Relaunch, ProxyCrash, TakeOutput, PushInline, SendInline,
     ForwarderPush, ForwarderSend, ReceiveAck, backendVars, vars
<1> QED
  BY <1>2, <1>3, <1>4, <1>5, <1>6, <1>7, <1>8 DEF Next, BackendStep

\* last_ack never goes back while the backend runs, and a row's number is in
\* its handler's hand until it is recorded.
LEMMA LastAckStep ==
  ASSUME TypeOK, OneInHand, LastAckKnows, [Next]_vars
  PROVE  LastAckKnows'
<1> USE DEF LastAckKnows
<1>t. /\ backendAck \in Nat /\ transcript \in Seq(Frames) /\ restarts \in Nat
      /\ handling \in [Conns -> SUBSET Frames] /\ recording \in [Conns -> SUBSET Frames]
  BY DEF TypeOK, BackendTypeOK, CountersTypeOK
<1>1. ASSUME UNCHANGED <<restarts, recording, backendAck, transcript>> PROVE LastAckKnows'
  BY <1>1
<1>2. ASSUME NEW c \in Conns, StoreFrame(c) PROVE LastAckKnows'
  <2>1. PICK f \in handling[c] :
          transcript' = Append(transcript, f) /\ recording' = [recording EXCEPT ![c] = {f}]
    BY <1>2 DEF StoreFrame
  <2>2. ToSet(transcript') = ToSet(transcript) \cup {f}
    BY <1>t, <2>1, AppendHeld
  <2>3. UNCHANGED <<restarts, backendAck>>
    BY <1>2 DEF StoreFrame, faultVars
  <2>4. recording[c] = {}
    BY <2>1 DEF OneInHand
  <2>5. \A d \in Conns : \A g \in recording[d] : g \in recording'[d]
    BY <1>t, <2>1, <2>4
  <2>6. f \in recording'[c]
    BY <1>t, <2>1
  <2> QED
    BY <2>2, <2>3, <2>5, <2>6
<1>3. ASSUME NEW c \in Conns, StoreFails(c) PROVE LastAckKnows'
  <2>1. PICK f \in handling[c] :
          recording' = [recording EXCEPT ![c] = {f}] \/ UNCHANGED recording
    BY <1>3 DEF StoreFails
  <2>2. UNCHANGED <<restarts, backendAck, transcript>>
    BY <1>3 DEF StoreFails
  <2>3. recording[c] = {}
    BY <2>1 DEF OneInHand
  <2>4. \A d \in Conns : \A g \in recording[d] : g \in recording'[d]
    BY <1>t, <2>1, <2>3
  <2> QED
    BY <2>2, <2>4
<1>4. ASSUME NEW c \in Conns, RecordFrame(c) PROVE LastAckKnows'
  <2>1. PICK f \in recording[c] : RecordAck(f.seq)
    BY <1>4 DEF RecordFrame
  <2>2. /\ recording' = [recording EXCEPT ![c] = {}]
        /\ UNCHANGED <<restarts, transcript>>
    BY <1>4 DEF RecordFrame, faultVars
  <2>3. f.seq \in Nat
    BY <1>t DEF Frames
  <2>4. backendAck' \in Nat /\ backendAck <= backendAck' /\ f.seq <= backendAck'
    BY <1>t, <2>1, <2>3 DEF RecordAck
  <2>5. \A d \in Conns : \A g \in recording[d] : g \in recording'[d] \/ g = f
    BY <1>t, <2>2 DEF OneInHand
  <2>6. \A g \in ToSet(transcript) : g.seq \in Nat
    <3>1. ToSet(transcript) \subseteq Frames
      BY <1>t, HeldIs
    <3> QED
      BY <3>1 DEF Frames
  <2>7. \A g \in ToSet(transcript) : g.seq <= backendAck => g.seq <= backendAck'
    BY <1>t, <2>4, <2>6
  <2> QED
    BY <2>2, <2>4, <2>5, <2>7
<1>5. CASE BackendRestart
  BY <1>t, <1>5 DEF BackendRestart
<1>6. ASSUME NEW c \in Conns, TestFrame(c) \/ HandlerEnds(c) PROVE LastAckKnows'
  BY <1>1, <1>6 DEF TestFrame, HandlerEnds, backendVars, faultVars
<1>7. CASE ProxyStep \/ UNCHANGED vars
  BY <1>1, <1>7 DEF ProxyStep, Connect, ConnectFails, ReplayNext, ReplayDone, Announce,
     Disconnect, ReplayFails, Relaunch, ProxyCrash, TakeOutput, PushInline, SendInline,
     ForwarderPush, ForwarderSend, ReceiveAck, backendVars, faultVars, vars
<1> QED
  BY <1>2, <1>3, <1>4, <1>5, <1>6, <1>7 DEF Next, BackendStep

\* An accident stays on record.
LEMMA AccidentsStay ==
  ASSUME [Next]_vars
  PROVE  accidents \subseteq accidents' /\ (ProxyCrash => accidents' # {})
<1>1. accidents \subseteq accidents'
  BY DEF Next, ProxyStep, BackendStep, Connect, ConnectFails, ReplayNext, ReplayDone,
     Announce, Disconnect, ReplayFails, Relaunch, ProxyCrash, TakeOutput, PushInline,
     SendInline, ForwarderPush, ForwarderSend, ReceiveAck, TestFrame, StoreFrame,
     StoreFails, RecordFrame, HandlerEnds, BackendRestart, Accident, faultVars, vars
<1>2. ProxyCrash => accidents' # {}
  BY DEF ProxyCrash, Accident
<1> QED
  BY <1>1, <1>2

\* What a step does to the numbering: it gives the next number, or none.
LEMMA NumberOrNot ==
  ASSUME TypeOK, [Next]_vars, ~ProxyCrash
  PROVE  \/ /\ \E id \in Outputs : Push(id)
            /\ transcript' = transcript
         \/ buffer'.next = buffer.next /\ pushed' = pushed /\ dropped \subseteq dropped'
<1>1. CASE Announce \/ PushInline
  <2>1. emitted + 1 \in Outputs
    BY <1>1, NextOutput DEF Announce, PushInline
  <2> QED
    BY <1>1, <2>1 DEF Announce, PushInline, backendVars
<1>2. CASE ForwarderPush
  <2>1. Head(queue) \in Outputs
    BY <1>2, NextOutput DEF ForwarderPush
  <2> QED
    BY <1>2, <2>1 DEF ForwarderPush, backendVars
<1>3. CASE Connect
  <2>1. \/ buffer' = buffer
        \/ buffer' = [next |-> buffer.next, lastAck |-> buffer.lastAck, pending |-> {}]
    BY <1>3 DEF Connect
  <2>2. dropped \subseteq dropped' /\ pushed' = pushed
    BY <1>3 DEF Connect
  <2> QED
    BY <2>1, <2>2
<1>4. CASE Relaunch
  BY <1>4 DEF Relaunch, Reloaded
<1>5. CASE ReceiveAck
  <2>1. buffer'.next = buffer.next
    BY <1>5 DEF ReceiveAck, Acknowledged
  <2> QED
    BY <1>5, <2>1 DEF ReceiveAck, history
<1>6. CASE Disconnect \/ ReplayFails
  BY <1>6 DEF Disconnect, ReplayFails, EndConnection
<1>7. CASE ConnectFails \/ ReplayNext \/ ReplayDone \/ TakeOutput \/ SendInline \/ ForwarderSend
  BY <1>7 DEF ConnectFails, ReplayNext, ReplayDone, TakeOutput, SendInline, ForwarderSend, history
<1>8. CASE BackendStep \/ UNCHANGED vars
  BY <1>8 DEF BackendStep, TestFrame, StoreFrame, StoreFails, RecordFrame, HandlerEnds, BackendRestart,
     proxyVars, history, vars
<1> QED
  BY <1>1, <1>2, <1>3, <1>4, <1>5, <1>6, <1>7, <1>8 DEF Next, ProxyStep

\* Every number below next_seq was given out.
LEMMA SkippedStep ==
  ASSUME TypeOK, NoneSkipped, [Next]_vars
  PROVE  NoneSkipped'
<1> SUFFICES ASSUME Clean' PROVE NoneSkipped'
  BY DEF NoneSkipped
<1>1. Clean /\ ~ProxyCrash
  BY AccidentsStay DEF Clean
<1>t. buffer.next \in Nat
  BY DEF TypeOK, ProxyTypeOK, BufferState
<1>2. \A n \in 0 .. buffer.next : n < buffer.next => \E f \in pushed : f.seq = n
  BY <1>1 DEF NoneSkipped
<1>3. ASSUME NEW id \in Outputs, Push(id) PROVE NoneSkipped'
  <2> DEFINE g == NewFrame(id)
  <2>1. pushed' = pushed \cup {g} /\ buffer'.next = buffer.next + 1 /\ g.seq = buffer.next
    BY <1>3, PushAdds DEF NewFrame
  <2> HIDE DEF g
  <2>2. ASSUME NEW n \in 0 .. buffer'.next, n < buffer'.next
        PROVE  \E f \in pushed' : f.seq = n
    <3>1. n = buffer.next \/ (n \in 0 .. buffer.next /\ n < buffer.next)
      BY <1>t, <2>1, <2>2
    <3> QED
      BY <1>2, <2>1, <3>1
  <2> QED
    BY <2>2 DEF NoneSkipped
<1>4. CASE buffer'.next = buffer.next /\ pushed' = pushed
  BY <1>2, <1>4 DEF NoneSkipped
<1> QED
  BY <1>1, <1>3, <1>4, NumberOrNot

IdentityInv == OnlyPushed /\ IdsOnce /\ OneInHand /\ LastAckKnows /\ NoneSkipped

\* Identities hold of every state, crashes, restarts and failed inserts included.
THEOREM IdentitiesKept == Spec => []IdentityInv
<1>1. Init => IdentityInv
  <2> SUFFICES ASSUME Init PROVE IdentityInv
    OBVIOUS
  <2>1. OnlyPushed
    BY EmptyHeld DEF Init, OnlyPushed, EmptyBuffer
  <2>2. IdsOnce /\ OneInHand /\ LastAckKnows
    BY EmptyHeld DEF Init, IdsOnce, OneInHand, LastAckKnows
  <2>3. NoneSkipped
    BY DEF Init, NoneSkipped, EmptyBuffer
  <2> QED
    BY <2>1, <2>2, <2>3 DEF IdentityInv
<1>2. TypeOK /\ IdentityInv /\ [Next]_vars => IdentityInv'
  <2> SUFFICES ASSUME TypeOK, IdentityInv, [Next]_vars PROVE IdentityInv'
    OBVIOUS
  <2>1. CASE UNCHANGED vars
    BY <2>1 DEF IdentityInv, OnlyPushed, IdsOnce, OneInHand, LastAckKnows, NoneSkipped, Clean,
       vars, proxyVars, netVars, backendVars, faultVars, history
  <2>2. OnlyPushed /\ ~UNCHANGED vars => OnlyPushed'
    BY ProxyPushed, BackendPushed DEF Next
  <2> QED
    BY <2>1, <2>2, IdsStep, OneInHandStep, LastAckStep, SkippedStep DEF IdentityInv
<1> QED
  BY <1>1, <1>2, TypeCorrect, PTL DEF Spec

-----------------------------------------------------------------------------
(* The duplicate test                                                      *)

\* The frame that passes the duplicate test is not stored, or last_ack does not
\* say so yet.
LEMMA PassesOnlyNew ==
  ASSUME TypeOK, IdentityInv, [Next]_vars, NEW c \in Conns, NEW f \in handling'[c] \ handling[c],
         f.id \in Stored
  PROVE  restarts > 0 \/ \E d \in Conns \ {c} : f \in recording[d]
<1>t. /\ wire \in [Conns -> Seq(Frames)] /\ handling \in [Conns -> SUBSET Frames]
      /\ transcript \in Seq(Frames) /\ backendAck \in Nat /\ restarts \in Nat
  BY DEF TypeOK, NetTypeOK, BackendTypeOK, CountersTypeOK
<1>1. ASSUME NEW k \in Conns, TestFrame(k)
      PROVE  restarts > 0 \/ \E d \in Conns \ {c} : f \in recording[d]
  <2>1. wire[k] # <<>> /\ f = Head(wire[k]) /\ ~IsDuplicate(f) /\ c = k /\ recording[c] = {}
    BY <1>t, <1>1 DEF TestFrame
  <2>2. f \in ToSet(wire[k]) /\ f \in Frames
    BY <1>t, <2>1, TailHeld
  <2>3. f \in pushed
    BY <2>2 DEF IdentityInv, OnlyPushed
  <2>4. PICK i \in DOMAIN transcript : transcript[i].id = f.id
    BY DEF Stored
  <2> DEFINE g == transcript[i]
  <2>5. g \in ToSet(transcript) /\ g \in pushed
    BY <2>4 DEF ToSet, IdentityInv, OnlyPushed
  <2>6. g = f
    BY <2>3, <2>4, <2>5 DEF IdentityInv, IdsOnce
  <2>7. ~(f.seq <= backendAck)
    BY <2>1 DEF IsDuplicate
  <2>8. restarts # 0 \/ \E d \in Conns : f \in recording[d]
    BY <2>5, <2>6, <2>7 DEF IdentityInv, LastAckKnows
  <2> QED
    BY <1>t, <2>1, <2>8
<1>2. ASSUME NEW k \in Conns, StoreFrame(k) \/ StoreFails(k) \/ RecordFrame(k) PROVE FALSE
  BY <1>t, <1>2 DEF StoreFrame, StoreFails, RecordFrame
<1>3. ASSUME NEW k \in Conns, HandlerEnds(k) PROVE FALSE
  BY <1>3 DEF HandlerEnds, backendVars
<1>4. CASE BackendRestart
  BY <1>4 DEF BackendRestart
<1>5. CASE ProxyStep \/ UNCHANGED vars
  BY <1>5 DEF ProxyStep, Connect, ConnectFails, ReplayNext, ReplayDone, Announce,
     Disconnect, ReplayFails, Relaunch, ProxyCrash, TakeOutput, PushInline, SendInline,
     ForwarderPush, ForwarderSend, ReceiveAck, backendVars, vars
<1> QED
  BY <1>1, <1>2, <1>3, <1>4, <1>5 DEF Next, BackendStep

\* handle_agent_output lets a frame that the transcript already holds pass its
\* test only after a restart made the backend forget last_ack, or between the
\* insert of the same frame and record_ack_seq in the handler of another
\* connection.
THEOREM DuplicatesTested == Spec => DuplicateTestSound
<1>1. TypeOK /\ IdentityInv /\ [Next]_vars =>
        [\A c \in Conns : \A f \in handling'[c] \ handling[c] :
           f.id \in Stored =>
              restarts > 0 \/ \E d \in Conns \ {c} : f \in recording[d]]_vars
  BY PassesOnlyNew
<1> QED
  BY <1>1, TypeCorrect, IdentitiesKept, PTL DEF Spec, DuplicateTestSound

-----------------------------------------------------------------------------
(* The transcript is a durable log                                         *)

KeptNumbers == {transcript[i].seq : i \in DOMAIN transcript}
GoneNumbers == {0} \cup {f.seq : f \in {g \in pushed : g.id \in dropped}}

\* The frame a handler is about to store has every lower number behind it.
LEMMA StoresNext ==
  ASSUME TypeOK, Inv, IdentityInv, Clean, NEW c \in Conns, NEW h \in handling[c]
  PROVE  /\ h.seq \in 0 .. buffer.next /\ h.seq < buffer.next
         /\ \A m \in 0 .. h.seq : m < h.seq => m \in KeptNumbers \cup GoneNumbers
<1>t. pushed \subseteq Frames /\ buffer.next \in Nat /\ \A f \in pushed : f.seq \in Nat
  BY DEF TypeOK, ProxyTypeOK, CountersTypeOK, BufferState, Frames
<1>1. /\ h \in pushed /\ h.seq < buffer.next
      /\ \A f \in pushed : 0 < f.seq /\ f.seq < h.seq => Settled(f)
  <2>1. Handled(c) /\ Numbering
    BY DEF Inv, CleanInv, WiresGapFree
  <2> QED
    BY <2>1 DEF Handled, Numbering
<1>2. ASSUME NEW m \in 0 .. h.seq, m < h.seq PROVE m \in KeptNumbers \cup GoneNumbers
  <2>1. CASE m = 0
    BY <2>1 DEF GoneNumbers
  <2>2. CASE m # 0
    <3>1. m \in 0 .. buffer.next /\ m < buffer.next /\ 0 < m
      BY <1>t, <1>1, <1>2, <2>2
    <3>2. PICK f \in pushed : f.seq = m
      BY <3>1 DEF IdentityInv, NoneSkipped
    <3>3. Settled(f)
      BY <1>1, <1>2, <3>1, <3>2
    <3>4. CASE f.id \in dropped
      BY <3>2, <3>4 DEF GoneNumbers
    <3>5. CASE f.id \in Stored
      <4>1. PICK i \in DOMAIN transcript : transcript[i].id = f.id
        BY <3>5 DEF Stored
      <4>2. transcript[i] \in pushed
        BY DEF ToSet, IdentityInv, OnlyPushed
      <4>3. transcript[i] = f
        BY <4>1, <4>2 DEF IdentityInv, IdsOnce
      <4> QED
        BY <3>2, <4>3 DEF KeptNumbers
    <3> QED
      BY <3>3, <3>4, <3>5 DEF Settled
  <2> QED
    BY <2>1, <2>2
<1> QED
  BY <1>t, <1>1, <1>2

\* Every step is a step of the abstract log, or leaves it alone.
LEMMA LogStep ==
  ASSUME TypeOK, TypeOK', Inv, Inv', IdentityInv, [Next]_vars
  PROVE  Log!Next \/ UNCHANGED Log!vars
<1>1. CASE ~Clean'
  BY <1>1 DEF Log!Next, Log!Lapse
<1>2. CASE Clean'
  <2>1. Clean /\ Clean' = Clean /\ ~ProxyCrash
    BY <1>2, AccidentsStay DEF Clean
  <2>t. /\ transcript \in Seq(Frames) /\ buffer.next \in Nat
        /\ pushed' \subseteq Frames /\ \A f \in pushed' : f.seq \in Nat
    BY DEF TypeOK, ProxyTypeOK, BackendTypeOK, CountersTypeOK, BufferState, Frames
  <2>n. \A f \in pushed' : f.seq < buffer'.next
    BY <1>2 DEF Inv, CleanInv, Numbering
  <2>g. ASSUME pushed \subseteq pushed', dropped \subseteq dropped', buffer'.next \in Nat \ {0}
        PROVE  /\ GoneNumbers \subseteq GoneNumbers'
               /\ GoneNumbers' \subseteq GoneNumbers \cup Log!Below(buffer'.next)
    <3>1. \A f \in pushed' : f.seq \in Log!Below(buffer'.next)
      BY <2>t, <2>n, <2>g DEF Log!Below
    <3> QED
      BY <2>g, <3>1 DEF GoneNumbers
  <2>2. ASSUME NEW id \in Outputs, Push(id), transcript' = transcript PROVE Log!Number
    <3>1. /\ buffer'.next = buffer.next + 1 /\ pushed \subseteq pushed' /\ dropped \subseteq dropped'
      BY <2>2, PushAdds DEF Push
    <3>2. buffer'.next \in Nat \ {0}
      BY <2>t, <3>1
    <3>3. KeptNumbers' = KeptNumbers
      BY <2>2 DEF KeptNumbers
    <3> QED
      BY <2>1, <2>g, <3>1, <3>2, <3>3 DEF Log!Number, KeptNumbers, GoneNumbers
  <2>3. ASSUME buffer'.next = buffer.next, pushed' = pushed, dropped \subseteq dropped',
               transcript' = transcript
        PROVE  Log!GiveUp
    <3>1. KeptNumbers' = KeptNumbers
      BY <2>3 DEF KeptNumbers
    <3>2. /\ GoneNumbers \subseteq GoneNumbers'
          /\ GoneNumbers' \subseteq GoneNumbers \cup Log!Below(buffer.next)
      <4>1. CASE buffer.next = 0
        <5>1. pushed' = {}
          BY <2>t, <2>n, <2>3, <4>1
        <5> QED
          BY <2>3, <5>1 DEF GoneNumbers
      <4>2. CASE buffer.next # 0
        BY <2>t, <2>g, <2>3, <4>2
      <4> QED
        BY <4>1, <4>2
    <3> QED
      BY <2>1, <2>3, <3>1, <3>2 DEF Log!GiveUp, KeptNumbers, GoneNumbers
  <2>4. ASSUME NEW c \in Conns, StoreFrame(c) PROVE Log!Keep
    <3>1. PICK h \in handling[c] : transcript' = Append(transcript, h)
      BY <2>4 DEF StoreFrame
    <3>2. h \in Frames
      BY DEF TypeOK, BackendTypeOK
    <3>3. /\ h.seq \in 0 .. buffer.next /\ h.seq < buffer.next
          /\ \A m \in 0 .. h.seq : m < h.seq => m \in KeptNumbers \cup GoneNumbers
      BY <2>1, StoresNext
    <3>4. KeptNumbers' = KeptNumbers \cup {h.seq}
      <4>1. ToSet(transcript') = ToSet(transcript) \cup {h}
        BY <2>t, <3>1, <3>2, AppendHeld
      <4>2. KeptNumbers = {f.seq : f \in ToSet(transcript)}
        BY DEF KeptNumbers, ToSet
      <4>3. KeptNumbers' = {f.seq : f \in ToSet(transcript')}
        BY DEF KeptNumbers, ToSet
      <4> QED
        BY <4>1, <4>2, <4>3
    <3>5. UNCHANGED <<buffer, pushed, dropped>>
      BY <2>4 DEF StoreFrame, proxyVars, history
    <3>6. GoneNumbers' = GoneNumbers
      BY <3>5 DEF GoneNumbers
    <3>7. h.seq \in Log!Below(buffer.next) /\ Log!Below(h.seq) \subseteq KeptNumbers \cup GoneNumbers
      BY <3>3 DEF Log!Below
    <3> QED
      BY <2>1, <3>4, <3>5, <3>6, <3>7 DEF Log!Keep, KeptNumbers, GoneNumbers
  <2>5. ASSUME transcript' = transcript PROVE Log!Next
    <3> HIDE DEF Log!Number, Log!GiveUp
    <3> QED
      BY <2>1, <2>2, <2>3, <2>5, NumberOrNot DEF Log!Next
  <2>6. ASSUME \A c \in Conns : ~StoreFrame(c) PROVE transcript' = transcript
    BY <2>6 DEF Next, ProxyStep, BackendStep, Connect, ConnectFails, ReplayNext, ReplayDone,
       Announce, Disconnect, ReplayFails, Relaunch, ProxyCrash, TakeOutput, PushInline,
       SendInline, ForwarderPush, ForwarderSend, ReceiveAck, TestFrame, StoreFails,
       RecordFrame, HandlerEnds, BackendRestart, backendVars, vars
  <2> HIDE DEF Log!Keep
  <2> QED
    BY <2>4, <2>5, <2>6 DEF Log!Next
<1> QED
  BY <1>1, <1>2

\* Short of an accident the transcript grows from the bottom up: an output is
\* stored only once every lower number is stored or was given up on, and a
\* stored one stays.
THEOREM TranscriptIsLog == Spec => LogSpec
<1>1. Init => Log!Init
  <2> SUFFICES ASSUME Init PROVE Log!Init
    OBVIOUS
  <2>1. /\ buffer.next = 0 /\ {transcript[i].seq : i \in DOMAIN transcript} = {} /\ Clean
        /\ {f.seq : f \in {g \in pushed : g.id \in dropped}} = {}
    BY DEF Init, EmptyBuffer, Clean
  <2> QED
    BY <2>1 DEF Log!Init
<1>2. TypeOK /\ TypeOK' /\ Inv /\ Inv' /\ IdentityInv /\ [Next]_vars => [Log!Next]_(Log!vars)
  BY LogStep
<1>3. TypeOK /\ Inv /\ [Next]_vars => Inv'
  BY InvInductive
<1> QED
  BY <1>1, <1>2, <1>3, InvInitially, TypeCorrect, IdentitiesKept, PTL DEF Spec, LogSpec, Log!Spec
=============================================================================
