-------------------------- MODULE PermissionsProofs --------------------------
(* Theorems about ProxyRegistry and Permissions, for every set of messages   *)
(* and any number of connections, faults and reloads.                        *)
EXTENDS Permissions, Queues

-----------------------------------------------------------------------------
(* Types of the registry                                                   *)

\* Frames written to a connection keep its type.
LEMMA WrittenType ==
  ASSUME RegistryTypeOK, NEW c \in Conns, NEW ms \in Seq(Messages \cup {RegisterAck})
  PROVE  Written(c, ms) \in [Conns -> Seq(Messages \cup {RegisterAck})]
<1>1. down[c] \o ms \in Seq(Messages \cup {RegisterAck})
  BY DEF RegistryTypeOK
<1> QED
  BY <1>1 DEF RegistryTypeOK, Written

\* What is left of a queue without its oldest messages is a queue.
LEMMA YoungerType ==
  ASSUME NEW q \in Seq(Messages), NEW old \in 0..Len(q)
  PROVE  SubSeq(q, old + 1, Len(q)) \in Seq(Messages \cup {RegisterAck})
<1>1. q \in Seq(Messages \cup {RegisterAck})
  OBVIOUS
<1>2. Len(q) \in Nat
  OBVIOUS
<1>3. \A i \in old + 1..Len(q) : q[i] \in Messages \cup {RegisterAck}
  BY <1>1, <1>2
<1> QED
  BY <1>1, <1>2, <1>3, SubSeqProperties

\* A handler's steps keep the registry's types.
LEMMA HandlerType ==
  ASSUME RegistryTypeOK, NEW c \in Conns, Handler(c)
  PROVE  RegistryTypeOK'
<1> USE DEF RegistryTypeOK, proxySide, background, At, Steps
<1>1. CASE Admit(c)
  BY <1>1 DEF Admit
<1>2. CASE Drain(c)
  <2>1. PICK old \in 0..Len(queue) :
          down' = Written(c, SubSeq(queue, old + 1, Len(queue)))
    BY <1>2 DEF Drain
  <2>2. down' \in [Conns -> Seq(Messages \cup {RegisterAck})]
    BY <2>1, YoungerType, WrittenType
  <2> QED
    BY <1>2, <2>2 DEF Drain
<1>3. CASE Insert(c)
  BY <1>3 DEF Insert
<1>4. CASE Acknowledge(c)
  <2>1. <<RegisterAck>> \in Seq(Messages \cup {RegisterAck})
    OBVIOUS
  <2>2. down' \in [Conns -> Seq(Messages \cup {RegisterAck})]
    BY <1>4, <2>1, WrittenType DEF Acknowledge
  <2> QED
    BY <1>4, <2>2 DEF Acknowledge
<1>5. CASE Closes(c)
  BY <1>5 DEF Closes
<1>6. CASE WriteDisconnected(c)
  BY <1>6 DEF WriteDisconnected
<1>7. CASE Unregister(c)
  BY <1>7 DEF Unregister, Without
<1> QED
  BY <1>1, <1>2, <1>3, <1>4, <1>5, <1>6, <1>7 DEF Handler

\* A message sent or queued keeps the registry's types.
LEMMA SendType ==
  ASSUME RegistryTypeOK, NEW m \in Messages, SendOrQueue(m)
  PROVE  RegistryTypeOK'
<1> USE DEF RegistryTypeOK, proxySide, background
<1>1. CASE SendLive(m)
  <2>1. <<m>> \in Seq(Messages \cup {RegisterAck})
    OBVIOUS
  <2>2. registered \in Conns
    BY <1>1 DEF SendLive
  <2>3. down' \in [Conns -> Seq(Messages \cup {RegisterAck})]
    BY <1>1, <2>1, <2>2, WrittenType DEF SendLive
  <2> QED
    BY <1>1, <2>3 DEF SendLive, SendOrQueue
<1>2. CASE SendEvicts(m)
  BY <1>2 DEF SendEvicts, SendOrQueue
<1>3. CASE SendQueued(m)
  BY <1>3 DEF SendQueued, SendOrQueue
<1> QED
  BY <1>1, <1>2, <1>3 DEF SendOrQueue

\* A message read keeps the registry's types.
LEMMA ReadsType ==
  ASSUME RegistryTypeOK, NEW c \in Conns, NEW m \in Messages \cup {RegisterAck}, Reads(c, m)
  PROVE  RegistryTypeOK'
<1>1. down[c] \in Seq(Messages \cup {RegisterAck}) /\ down[c] # <<>>
  BY DEF RegistryTypeOK, Reads
<1>2. Tail(down[c]) \in Seq(Messages \cup {RegisterAck})
  BY <1>1
<1>3. down' \in [Conns -> Seq(Messages \cup {RegisterAck})]
  BY <1>2 DEF RegistryTypeOK, Reads
<1> QED
  BY <1>3 DEF RegistryTypeOK, Reads, background

\* Every step of the registry keeps its types.
LEMMA RegistryStepType ==
  ASSUME RegistryTypeOK, RegistryNext
  PROVE  RegistryTypeOK'
<1> USE RegistryAssumption DEF RegistryTypeOK, proxySide, background, Steps
<1>1. ASSUME NEW c \in Conns, Dial(c) PROVE RegistryTypeOK'
  BY <1>1 DEF Dial, At
<1>2. ASSUME NEW c \in Conns, Leaves(c) PROVE RegistryTypeOK'
  <2>1. faults' \in 0..MaxFaults
    BY <1>2 DEF Leaves
  <2>2. down' \in [Conns -> Seq(Messages \cup {RegisterAck})]
    BY <1>2 DEF Leaves
  <2>3. dialled' \in Conns \cup {None} /\ heard' \in BOOLEAN
    BY <1>2 DEF Leaves
  <2> QED
    BY <1>2, <2>1, <2>2, <2>3 DEF Leaves
<1>3. ASSUME NEW c \in Conns, NEW m \in Messages \cup {RegisterAck}, Reads(c, m)
      PROVE  RegistryTypeOK'
  BY <1>3, ReadsType
<1>4. CASE SweepJudges
  BY <1>4 DEF SweepJudges
<1>5. CASE SweepEvicts
  BY <1>5 DEF SweepEvicts, Without
<1>6. CASE HealLooks
  BY <1>6 DEF HealLooks
<1>7. CASE HealWrites
  BY <1>7 DEF HealWrites
<1>8. CASE GraceLooks
  BY <1>8 DEF GraceLooks
<1>9. CASE GraceWrites
  BY <1>9 DEF GraceWrites
<1>10. CASE Restart
  <2>1. faults' \in 0..MaxFaults
    BY <1>10 DEF Restart
  <2>2. /\ queue' \in Seq(Messages)
        /\ down' \in [Conns -> Seq(Messages \cup {RegisterAck})]
    BY <1>10 DEF Restart
  <2>3. sock' \in [Conns -> Steps]
    BY <1>10 DEF Restart
  <2> QED
    BY <1>10, <2>1, <2>2, <2>3 DEF Restart
<1> QED
  BY <1>1, <1>2, <1>3, <1>4, <1>5, <1>6, <1>7, <1>8, <1>9, <1>10, HandlerType, SendType
     DEF RegistryNext, Background

-----------------------------------------------------------------------------
(* The entry of the registry                                               *)

\* The proxy's connection is being served: its handler has not begun to clean
\* up, and will not while the proxy holds it.
DialledIsServed ==
    dialled # None => sock[dialled] \in {"dialled", "admitted", "drained", "entered", "open"}

\* The sweep's candidate is a connection the proxy has left for good.
VictimIsGone ==
    victim # None => victim # dialled /\ sock[victim] # "unused"

\* EntryHasHandler alone is inductive; that no cleanup takes the live entry
\* needs to know where the live connection and the candidate can be.
RegistryInv == RegistryTypeOK /\ EntryHasHandler /\ DialledIsServed /\ VictimIsGone

\* A handler's steps keep the registry's invariant.
LEMMA HandlerInv ==
  ASSUME RegistryInv, NEW c \in Conns, Handler(c)
  PROVE  (EntryHasHandler /\ DialledIsServed /\ VictimIsGone)'
<1> USE DEF RegistryInv, RegistryTypeOK, EntryHasHandler, DialledIsServed, VictimIsGone,
        proxySide, background, At, Conns, None
<1>1. CASE Admit(c)
  BY <1>1 DEF Admit
<1>2. CASE Drain(c)
  BY <1>2 DEF Drain
<1>3. CASE Insert(c)
  BY <1>3 DEF Insert
<1>4. CASE Acknowledge(c)
  BY <1>4 DEF Acknowledge
<1>5. CASE Closes(c)
  BY <1>5 DEF Closes, IsCurrent
<1>6. CASE WriteDisconnected(c)
  BY <1>6 DEF WriteDisconnected
<1>7. CASE Unregister(c)
  BY <1>7 DEF Unregister, Without
<1> QED
  BY <1>1, <1>2, <1>3, <1>4, <1>5, <1>6, <1>7 DEF Handler

\* Every step of the registry keeps its invariant.
LEMMA RegistryStepInv ==
  ASSUME RegistryInv, RegistryNext
  PROVE  RegistryInv'
<1>1. RegistryTypeOK'
  BY RegistryStepType DEF RegistryInv
<1> DEFINE Rest == EntryHasHandler /\ DialledIsServed /\ VictimIsGone
<1>2. Rest'
  <2> USE DEF RegistryInv, RegistryTypeOK, EntryHasHandler, DialledIsServed, VictimIsGone,
          proxySide, background, Conns, None
  <2>1. ASSUME NEW c \in Conns, Dial(c) PROVE Rest'
    BY <2>1 DEF Dial, At
  <2>2. ASSUME NEW c \in Conns, Leaves(c) PROVE Rest'
    BY <2>2 DEF Leaves
  <2>3. ASSUME NEW c \in Conns, NEW m \in Messages \cup {RegisterAck}, Reads(c, m)
        PROVE  Rest'
    BY <2>3 DEF Reads
  <2>4. ASSUME NEW m \in Messages, SendOrQueue(m) PROVE Rest'
    BY <2>4 DEF SendOrQueue, SendLive, SendEvicts, SendQueued
  <2>5. CASE SweepJudges
    BY <2>5 DEF SweepJudges
  <2>6. CASE SweepEvicts
    BY <2>6 DEF SweepEvicts, Without
  <2>7. CASE HealLooks
    BY <2>7 DEF HealLooks
  <2>8. CASE HealWrites
    BY <2>8 DEF HealWrites
  <2>9. CASE GraceLooks
    BY <2>9 DEF GraceLooks
  <2>10. CASE GraceWrites
    BY <2>10 DEF GraceWrites
  <2>11. CASE Restart
    BY <2>11 DEF Restart
  <2> HIDE DEF Rest
  <2>12. ASSUME NEW c \in Conns, Handler(c) PROVE Rest'
    BY <2>12, HandlerInv DEF Rest
  <2> QED
    BY <2>1, <2>2, <2>3, <2>4, <2>5, <2>6, <2>7, <2>8, <2>9, <2>10, <2>11, <2>12
       DEF RegistryNext, Background
<1> QED
  BY <1>1, <1>2 DEF RegistryInv

\* The registry starts without an entry.
LEMMA RegistryInitInv == RegistryInit => RegistryInv
<1> SUFFICES ASSUME RegistryInit PROVE RegistryInv
  OBVIOUS
<1>1. down \in [Conns -> Seq(Messages \cup {RegisterAck})] /\ queue \in Seq(Messages)
  BY DEF RegistryInit
<1>2. faults \in 0..MaxFaults
  BY RegistryAssumption DEF RegistryInit
<1>3. RegistryTypeOK
  BY <1>1, <1>2 DEF RegistryInit, RegistryTypeOK, Steps
<1> QED
  BY <1>3 DEF RegistryInit, RegistryInv, EntryHasHandler, DialledIsServed, VictimIsGone

\* The invariant of the registry, whatever sends messages through it.
THEOREM RegistryInvariant == RegistrySpec => []RegistryInv
<1>1. RegistryInv /\ [RegistryNext]_registryVars => RegistryInv'
  <2>1. RegistryInv /\ UNCHANGED registryVars => RegistryInv'
    BY DEF RegistryInv, RegistryTypeOK, EntryHasHandler, DialledIsServed, VictimIsGone,
       registryVars
  <2> QED
    BY <2>1, RegistryStepInv
<1> QED
  BY <1>1, RegistryInitInv, PTL DEF RegistrySpec

\* Where the entry is taken, it is not the live connection's.
LEMMA EntryTaken ==
  ASSUME RegistryInv, RegistryNext, registered # None, registered = dialled,
         dialled' = dialled
  PROVE  registered' # None
<1> USE DEF RegistryInv, RegistryTypeOK, DialledIsServed, VictimIsGone, proxySide,
        background, Conns, None
<1>1. ASSUME NEW c \in Conns, Handler(c) PROVE registered' # None
  <2>1. CASE Insert(c)
    BY <2>1 DEF Insert
  <2>2. CASE Unregister(c)
    BY <2>2 DEF Unregister, Without
  <2> QED
    BY <1>1, <2>1, <2>2 DEF Handler, Admit, Drain, Acknowledge, Closes, WriteDisconnected
<1>2. ASSUME NEW m \in Messages, SendOrQueue(m) PROVE registered' # None
  BY <1>2 DEF SendOrQueue, SendLive, SendEvicts, SendQueued
<1>3. CASE SweepEvicts
  BY <1>3 DEF SweepEvicts, Without
<1>4. CASE Restart
  BY <1>4 DEF Restart
<1> QED
  BY <1>1, <1>2, <1>3, <1>4 DEF RegistryNext, Background, Dial, Leaves, Reads, SweepJudges,
     HealLooks, HealWrites, GraceLooks, GraceWrites

\* No cleanup, eviction or sweep takes the entry of the live connection.
THEOREM RegistryLiveKeepsEntry == RegistrySpec => LiveKeepsEntry
<1> DEFINE Keeps == registered # None /\ registered = dialled /\ dialled' = dialled
                    => registered' # None
<1>1. RegistryInv /\ [RegistryNext]_registryVars => [Keeps]_registryVars
  BY EntryTaken
<1> QED
  BY <1>1, RegistryInvariant, PTL DEF RegistrySpec, LiveKeepsEntry

-----------------------------------------------------------------------------
(* Which connection has been acknowledged                                  *)

\* The RegisterAck travels on an open connection, the one the proxy holds: a
\* proxy that has heard it is served.
AckHeard ==
    /\ heard => dialled # None /\ sock[dialled] = "open"
    /\ \A c \in Conns : Contains(down[c], RegisterAck) => sock[c] = "open" /\ dialled = c

\* Messages for the proxy are no RegisterAck.
LEMMA NoAck ==
  ASSUME NEW ms \in Seq(Messages)
  PROVE  ~Contains(ms, RegisterAck)
<1>1. \A k \in 1..Len(ms) : ms[k] \in Messages
  OBVIOUS
<1> QED
  BY <1>1, RegistryAssumption DEF Contains, RegisterAck

\* What a connection holds after a write.
LEMMA WrittenHolds ==
  ASSUME RegistryTypeOK, NEW c \in Conns, NEW ms \in Seq(Messages \cup {RegisterAck}),
         NEW d \in Conns, NEW e
  PROVE  Contains(Written(c, ms)[d], e)
           <=> Contains(down[d], e) \/ (d = c /\ dialled = c /\ Contains(ms, e))
<1>1. down[d] \in Seq(Messages \cup {RegisterAck})
  BY DEF RegistryTypeOK
<1>2. Written(c, ms)[d] = IF d = c /\ dialled = c THEN down[d] \o ms ELSE down[d]
  BY DEF Written, RegistryTypeOK
<1> QED
  BY <1>1, <1>2, ConcatHolds

\* Every step of the registry keeps: only an open, dialled connection has or
\* awaits its acknowledgement.
LEMMA AckHeardStep ==
  ASSUME RegistryInv, AckHeard, RegistryNext
  PROVE  AckHeard'
<1> USE DEF AckHeard
<1>t. RegistryTypeOK /\ None \notin Conns
  BY DEF RegistryInv, None, Conns
<1>1. ASSUME NEW c \in Conns, Dial(c) PROVE AckHeard'
  BY <1>1, <1>t DEF Dial, At, RegistryTypeOK
<1>2. ASSUME NEW c \in Conns, Leaves(c) PROVE AckHeard'
  <2>1. \A d \in Conns : Contains(down'[d], RegisterAck) => d # c /\ Contains(down[d], RegisterAck)
    <3>1. down' = [down EXCEPT ![c] = <<>>]
      BY <1>2 DEF Leaves
    <3>2. \A d \in Conns : down'[d] = IF d = c THEN <<>> ELSE down[d]
      BY <1>t, <3>1 DEF RegistryTypeOK
    <3> QED
      BY <3>2, EmptyHolds
  <2>2. dialled = c /\ heard' = FALSE
    BY <1>2 DEF Leaves
  <2>3. \A d \in Conns : ~Contains(down'[d], RegisterAck)
    BY <2>1, <2>2
  <2> QED
    BY <2>2, <2>3
<1>3. ASSUME NEW c \in Conns, NEW m \in Messages \cup {RegisterAck}, Reads(c, m)
      PROVE  AckHeard'
  <2>1. down[c] \in Seq(Messages \cup {RegisterAck}) /\ down[c] # <<>> /\ Head(down[c]) = m
    BY <1>3, <1>t DEF Reads, RegistryTypeOK
  <2>2. m = RegisterAck => Contains(down[c], RegisterAck)
    BY <2>1, TailHolds
  <2>3. \A d \in Conns : Contains(down'[d], RegisterAck) => Contains(down[d], RegisterAck)
    BY <1>3, <1>t, <2>1, TailHolds DEF Reads, RegistryTypeOK
  <2>4. heard' => heard \/ m = RegisterAck
    BY <1>3, <1>t DEF Reads, RegistryTypeOK
  <2>5. dialled = c /\ c # None /\ UNCHANGED <<sock, dialled>>
    BY <1>3, <1>t DEF Reads
  <2>6. heard' => dialled # None /\ sock[dialled] = "open"
    BY <2>2, <2>4, <2>5
  <2> QED
    BY <2>3, <2>5, <2>6
<1>4. ASSUME NEW c \in Conns, Handler(c) PROVE AckHeard'
  <2>1. CASE Drain(c)
    <3>1. PICK old \in 0..Len(queue) :
            down' = Written(c, SubSeq(queue, old + 1, Len(queue)))
      BY <2>1 DEF Drain
    <3> DEFINE ms == SubSeq(queue, old + 1, Len(queue))
    <3>2. ms \in Seq(Messages)
      <4>1. queue \in Seq(Messages)
        BY <1>t DEF RegistryTypeOK
      <4>2. Len(queue) \in Nat /\ \A i \in old + 1..Len(queue) : queue[i] \in Messages
        BY <4>1
      <4> QED
        BY <4>1, <4>2, SubSeqProperties
    <3>3. ms \in Seq(Messages \cup {RegisterAck})
      BY <1>t, YoungerType DEF RegistryTypeOK
    <3>5. down' = Written(c, ms)
      BY <3>1
    <3> HIDE DEF ms
    <3>4. \A d \in Conns : Contains(down'[d], RegisterAck) <=> Contains(down[d], RegisterAck)
      BY <1>t, <3>2, <3>3, <3>5, NoAck, WrittenHolds
    <3> QED
      BY <1>t, <2>1, <3>4 DEF Drain, At, proxySide, RegistryTypeOK
  <2>2. CASE Acknowledge(c)
    <3>1. <<RegisterAck>> \in Seq(Messages \cup {RegisterAck})
      OBVIOUS
    <3>2. \A d \in Conns : Contains(down'[d], RegisterAck)
            => Contains(down[d], RegisterAck) \/ (d = c /\ dialled = c)
      BY <1>t, <2>2, <3>1, WrittenHolds DEF Acknowledge
    <3> QED
      BY <1>t, <2>2, <3>2 DEF Acknowledge, At, proxySide, RegistryTypeOK
  <2>3. CASE Admit(c) \/ Insert(c) \/ Closes(c) \/ WriteDisconnected(c) \/ Unregister(c)
    BY <1>t, <2>3 DEF Admit, Insert, Closes, WriteDisconnected, Unregister, At, proxySide,
       RegistryTypeOK
  <2> QED
    BY <1>4, <2>1, <2>2, <2>3 DEF Handler
<1>5. ASSUME NEW m \in Messages, SendOrQueue(m) PROVE AckHeard'
  <2>1. CASE down' = down
    BY <1>5, <2>1 DEF SendOrQueue, proxySide
  <2>2. CASE SendLive(m)
    <3>1. <<m>> \in Seq(Messages \cup {RegisterAck}) /\ <<m>> \in Seq(Messages)
      OBVIOUS
    <3>2. registered \in Conns
      BY <1>t, <2>2 DEF SendLive, RegistryTypeOK
    <3>3. \A d \in Conns : Contains(down'[d], RegisterAck) <=> Contains(down[d], RegisterAck)
      BY <1>t, <2>2, <3>1, <3>2, NoAck, WrittenHolds DEF SendLive
    <3> QED
      BY <1>5, <3>3 DEF SendOrQueue, proxySide
  <2> QED
    BY <1>5, <2>1, <2>2 DEF SendOrQueue, SendEvicts, SendQueued
<1>6. CASE Background
  BY <1>6 DEF Background, SweepJudges, SweepEvicts, HealLooks, HealWrites, GraceLooks,
     GraceWrites, proxySide
<1>7. CASE Restart
  BY <1>7, EmptyHolds DEF Restart
<1> QED
  BY <1>1, <1>2, <1>3, <1>4, <1>5, <1>6, <1>7 DEF RegistryNext

-----------------------------------------------------------------------------
(* Permissions is a client of the registry                                 *)

\* Every step is a step of the registry, or leaves it alone.
LEMMA ClientStep ==
  ASSUME answers \in Seq(Requests), Next
  PROVE  RegistryNext \/ UNCHANGED registryVars
<1>1. ASSUME NEW c \in Conns, ConnectionStep(c) PROVE RegistryNext
  BY <1>1 DEF ConnectionStep, RegistryNext
<1>2. ASSUME NEW c \in Conns, NEW m \in Requests \cup {RegisterAck}, ReadFrame(c, m)
      PROVE  RegistryNext
  BY <1>2 DEF ReadFrame, RegistryNext, Requests
<1>3. CASE BackgroundStep
  BY <1>3 DEF BackgroundStep, RegistryNext
<1>4. CASE BackendRestarts
  BY <1>4 DEF BackendRestarts, RegistryNext
<1>5. CASE HandleResponse
  <2>1. Head(answers) \in Messages
    BY <1>5 DEF HandleResponse, Requests
  <2> QED
    BY <1>5, <2>1 DEF HandleResponse, RegistryNext
<1> QED
  BY <1>1, <1>2, <1>3, <1>4, <1>5
     DEF Next, Ask, Withdraw, TakeEvent, TakeFrame, Answer, BrowserDrops, BrowserReturns

\* The types of what Permissions adds to the registry.
OwnTypeOK ==
    /\ asked \in [Requests -> {"not yet", "waiting", "answered", "withdrawn"}]
    /\ events \in Seq(Frames)
    /\ slot \in Requests \cup {None}
    /\ up \in [Conns -> Seq(Frames)]
    /\ row \in Requests \cup {None}
    /\ dialog \in Requests \cup {None}
    /\ online \in BOOLEAN
    /\ answers \in Seq(Requests)
    /\ reloads \in 0..MaxReloads

\* A request makes a frame.
LEMMA FrameType ==
  ASSUME NEW r \in Requests, NEW k \in {"request", "cancelled"}
  PROVE  Frame(k, r) \in Frames
BY DEF Frame, Frames

AskedType == [Requests -> {"not yet", "waiting", "answered", "withdrawn"}]

\* The prompts' own variables keep their types.
LEMMA OwnStepType ==
  ASSUME RegistryInv, OwnTypeOK, Next
  PROVE  OwnTypeOK'
<1> DEFINE A == asked \in AskedType
           E == events \in Seq(Frames)
           S == slot \in Requests \cup {None}
           U == up \in [Conns -> Seq(Frames)]
           P == row \in Requests \cup {None} /\ dialog \in Requests \cup {None}
           B == online \in BOOLEAN /\ answers \in Seq(Requests) /\ reloads \in 0..MaxReloads
           Typed == A /\ E /\ S /\ U /\ P /\ B
<1>1. Typed
  BY DEF OwnTypeOK, AskedType
<1>2. Typed' => OwnTypeOK'
  BY DEF OwnTypeOK, AskedType
<1>e. <<>> \in Seq(Frames) /\ <<>> \in Seq(Requests)
  OBVIOUS
<1>3. ASSUME NEW r \in Requests, Ask(r) \/ Withdraw(r) PROVE Typed'
  <2>1. A'
    <3>1. \/ asked' = [asked EXCEPT ![r] = "waiting"]
          \/ asked' = [asked EXCEPT ![r] = "withdrawn"]
      BY <1>3 DEF Ask, Withdraw
    <3> QED
      BY <1>1, <3>1 DEF AskedType
  <2>2. E'
    <3>1. PICK f \in Frames : events' = Append(events, f)
      BY <1>3, FrameType DEF Ask, Withdraw
    <3> QED
      BY <1>1, <3>1
  <2>3. UNCHANGED <<slot, up, row, dialog, online, answers, reloads>>
    BY <1>3 DEF Ask, Withdraw, browserVars
  <2> QED
    BY <1>1, <2>1, <2>2, <2>3
<1>4. CASE TakeEvent
  <2>1. Head(events) \in Frames /\ Tail(events) \in Seq(Frames)
    BY <1>1, <1>4 DEF TakeEvent
  <2>2. U'
    <3>1. up' = [up EXCEPT ![dialled] = Append(@, Head(events))]
      BY <1>4 DEF TakeEvent
    <3>2. ASSUME NEW c \in Conns PROVE Append(up[c], Head(events)) \in Seq(Frames)
      BY <1>1, <2>1
    <3> QED
      BY <1>1, <3>1, <3>2
  <2>3. S'
    <3>1. Head(events).id \in Requests
      BY <2>1 DEF Frames
    <3>2. slot' \in {Head(events).id, slot, None}
      BY <1>4 DEF TakeEvent, SlotAfter, Cleared
    <3> QED
      BY <1>1, <3>1, <3>2
  <2>4. events' = Tail(events) /\ UNCHANGED <<asked, row, dialog, online, answers, reloads>>
    BY <1>4 DEF TakeEvent, browserVars
  <2> QED
    BY <1>1, <1>2, <2>1, <2>2, <2>3, <2>4
<1>5. ASSUME NEW c \in Conns, ConnectionStep(c) PROVE Typed'
  <2>1. up' = [up EXCEPT ![c] = <<>>] \/ up' = [up EXCEPT ![c] = @]
    BY <1>5 DEF ConnectionStep
  <2>2. U'
    BY <1>1, <1>e, <2>1
  <2>3. UNCHANGED <<asked, events, slot, row, dialog, online, answers, reloads>>
    BY <1>5 DEF ConnectionStep, agentVars, browserVars
  <2> QED
    BY <1>1, <2>2, <2>3
<1>6. ASSUME NEW c \in Conns, TakeFrame(c) PROVE Typed'
  <2>1. up[c] \in Seq(Frames) /\ up[c] # <<>>
    BY <1>1, <1>6 DEF TakeFrame
  <2>2. Head(up[c]) \in Frames /\ Tail(up[c]) \in Seq(Frames)
    BY <2>1
  <2>3. Head(up[c]).id \in Requests
    BY <2>2 DEF Frames
  <2>4. P'
    <3>1. row' \in {Head(up[c]).id, row, None} /\ dialog' \in {Head(up[c]).id, dialog, None}
      BY <1>6 DEF TakeFrame, StoreRequest, ClearCancelled, Cleared
    <3> QED
      BY <1>1, <2>3, <3>1
  <2>5. U'
    <3>1. up' = [up EXCEPT ![c] = Tail(up[c])]
      BY <1>6 DEF TakeFrame
    <3> QED
      BY <1>1, <2>2, <3>1
  <2>6. UNCHANGED <<asked, events, slot, online, answers, reloads>>
    BY <1>6 DEF TakeFrame, agentVars
  <2> QED
    BY <1>1, <2>4, <2>5, <2>6
<1>7. ASSUME NEW c \in Conns, NEW m \in Requests \cup {RegisterAck}, ReadFrame(c, m)
      PROVE  Typed'
  <2>1. S' /\ A'
    <3>1. slot' \in {slot, None}
      BY <1>7 DEF ReadFrame, TakeAnswer
    <3>2. \/ asked' = asked
          \/ asked' = [asked EXCEPT ![m] = IF @ = "waiting" THEN "answered" ELSE @]
      BY <1>7 DEF ReadFrame, TakeAnswer
    <3>3. A'
      BY <1>1, <3>2 DEF AskedType
    <3> QED
      BY <1>1, <3>1, <3>3
  <2>2. UNCHANGED <<events, up, row, dialog, online, answers, reloads>>
    BY <1>7 DEF ReadFrame, browserVars
  <2> QED
    BY <1>1, <2>1, <2>2
<1>8. CASE HandleResponse
  <2>1. answers' \in Seq(Requests)
    BY <1>1, <1>8 DEF HandleResponse
  <2>2. row' = None /\ UNCHANGED <<asked, events, slot, up, dialog, online, reloads>>
    BY <1>8 DEF HandleResponse, agentVars
  <2> QED
    BY <1>1, <1>2, <2>1, <2>2
<1>9. CASE Answer
  <2>1. dialog \in Requests
    BY <1>1, <1>9 DEF Answer
  <2>2. answers' = Append(answers, dialog) \/ answers' = answers
    BY <1>9 DEF Answer
  <2>3. answers' \in Seq(Requests)
    BY <1>1, <2>1, <2>2
  <2>4. dialog' = None /\ UNCHANGED <<asked, events, slot, up, row, online, reloads>>
    BY <1>9 DEF Answer, agentVars
  <2> QED
    BY <1>1, <1>2, <2>3, <2>4
<1>10. CASE BrowserDrops
  <2>1. reloads' \in 0..MaxReloads
    BY <1>1, <1>10, PermissionsAssumption DEF BrowserDrops
  <2>2. /\ online' = FALSE /\ answers' = <<>>
        /\ UNCHANGED <<asked, events, slot, up, row, dialog>>
    BY <1>10 DEF BrowserDrops, agentVars
  <2> QED
    BY <1>1, <1>2, <1>e, <2>1, <2>2
<1>11. CASE BrowserReturns
  <2>1. /\ online' = TRUE /\ dialog' = row
        /\ UNCHANGED <<asked, events, slot, up, row, answers, reloads>>
    BY <1>11 DEF BrowserReturns, agentVars
  <2> QED
    BY <1>1, <1>2, <2>1
<1>12. CASE BackgroundStep
  <2>1. UNCHANGED <<asked, events, slot, up, row, dialog, online, answers, reloads>>
    BY <1>12 DEF BackgroundStep, ownVars, agentVars, browserVars
  <2> QED
    BY <1>1, <1>2, <2>1
<1>13. CASE BackendRestarts
  <2>1. /\ up' = [c \in Conns |-> <<>>] /\ online' = FALSE /\ answers' = <<>>
        /\ UNCHANGED <<asked, events, slot, row, dialog, reloads>>
    BY <1>13 DEF BackendRestarts, agentVars
  <2> QED
    BY <1>1, <1>2, <1>e, <2>1
<1> HIDE DEF Typed
<1> QED
  BY <1>2, <1>3, <1>4, <1>5, <1>6, <1>7, <1>8, <1>9, <1>10, <1>11, <1>12, <1>13 DEF Next

\* The invariant of the composition.
THEOREM PermissionsInvariant == Spec => [](RegistryInv /\ OwnTypeOK)
<1>1. Init => RegistryInv /\ OwnTypeOK
  <2> SUFFICES ASSUME Init PROVE RegistryInv /\ OwnTypeOK
    OBVIOUS
  <2>1. events \in Seq(Frames) /\ answers \in Seq(Requests) /\ up \in [Conns -> Seq(Frames)]
    <3>1. events = <<>> /\ answers = <<>> /\ up = [c \in Conns |-> <<>>]
      BY DEF Init
    <3>2. <<>> \in Seq(Frames) /\ <<>> \in Seq(Requests)
      OBVIOUS
    <3> QED
      BY <3>1, <3>2
  <2>2. reloads = 0
    BY DEF Init
  <2>3. reloads \in 0..MaxReloads
    BY <2>2, PermissionsAssumption
  <2>4. asked \in AskedType
    BY DEF Init, AskedType
  <2>5. OwnTypeOK
    BY <2>1, <2>3, <2>4 DEF Init, OwnTypeOK, AskedType
  <2> QED
    BY <2>5, RegistryInitInv DEF Init
<1>2. RegistryInv /\ OwnTypeOK /\ [Next]_vars => RegistryInv' /\ OwnTypeOK'
  <2> SUFFICES ASSUME RegistryInv, OwnTypeOK, [Next]_vars PROVE RegistryInv' /\ OwnTypeOK'
    OBVIOUS
  <2>1. UNCHANGED registryVars => RegistryInv'
    BY DEF RegistryInv, RegistryTypeOK, EntryHasHandler, DialledIsServed, VictimIsGone,
       registryVars
  <2>2. CASE Next
    <3>1. RegistryNext \/ UNCHANGED registryVars
      BY <2>2, ClientStep DEF OwnTypeOK
    <3> QED
      BY <2>1, <2>2, <3>1, RegistryStepInv, OwnStepType
  <2>3. CASE UNCHANGED vars
    BY <2>1, <2>3 DEF vars, ownVars, agentVars, browserVars, OwnTypeOK
  <2> QED
    BY <2>2, <2>3
<1> QED
  BY <1>1, <1>2, PTL DEF Spec

\* The state of every component stays within its type.
THEOREM PermissionsTypeOK == Spec => []TypeOK
<1>1. RegistryInv /\ OwnTypeOK => TypeOK
  BY DEF RegistryInv, OwnTypeOK, TypeOK
<1> QED
  BY <1>1, PermissionsInvariant, PTL

\* An entry never outlives its handler.
THEOREM PermissionsEntryHasHandler == Spec => []EntryHasHandler
<1>1. RegistryInv /\ OwnTypeOK => EntryHasHandler
  BY DEF RegistryInv
<1> QED
  BY <1>1, PermissionsInvariant, PTL

\* Every step of the prompts is a step of the registry or leaves it alone.
THEOREM PermissionsUseRegistry == Spec => RegistrySpec
<1>1. RegistryInv /\ OwnTypeOK /\ [Next]_vars => [RegistryNext]_registryVars
  BY ClientStep DEF OwnTypeOK, vars
<1>2. Init => RegistryInit
  BY DEF Init
<1> QED
  BY <1>1, <1>2, PermissionsInvariant, PTL DEF Spec, RegistrySpec

\* No cleanup takes the live connection's entry while prompts are on their way.
THEOREM PermissionsLiveKeepsEntry == Spec => LiveKeepsEntry
BY PermissionsUseRegistry, RegistryLiveKeepsEntry, PTL

-----------------------------------------------------------------------------
(* Where the frames of a request are                                       *)

Sent(f) == Contains(events, f) \/ \E c \in Conns : Contains(up[c], f)

\* Frames wait only for an open connection: a handler takes what it has not
\* read with it.
ReadByOpen == \A c \in Conns : up[c] # <<>> => sock[c] = "open"

\* A cancellation is on its way only for a request the agent has withdrawn.
Cancels == \A r \in Requests : Sent(Frame("cancelled", r)) => asked[r] = "withdrawn"

\* A request is on its way once, and no longer when it has been stored or shown:
\* otherwise a late copy would take the dialog from a later request.
AskedOnce ==
    \A r \in Requests :
       LET f == Frame("request", r) IN
       /\ Once(events, f) /\ \A c \in Conns : Once(up[c], f)
       /\ \A c \in Conns : Contains(up[c], f) => ~Contains(events, f)
       /\ \A c, d \in Conns : Contains(up[c], f) /\ Contains(up[d], f) => c = d
       /\ r \in {row, dialog} => ~Sent(f)
       /\ asked[r] = "not yet" => ~Sent(f) /\ r \notin {row, dialog}

PromptInv == AckHeard /\ ReadByOpen /\ Cancels /\ AskedOnce
Typed == RegistryInv /\ OwnTypeOK

\* No request is the absence of one, and frames of different kinds differ.
LEMMA RequestNames ==
  /\ None \notin Requests /\ None \notin Conns
  /\ \A q, r \in Requests : /\ Frame("cancelled", q) # Frame("request", r)
                            /\ Frame("request", q) = Frame("request", r) => q = r
                            /\ Frame("cancelled", q) = Frame("cancelled", r) => q = r
  BY RegistryAssumption DEF None, Requests, Frame, Conns

\* A step that sends nothing new and only loses frames.
LEMMA ShrinkStep ==
  ASSUME Typed, ReadByOpen, Cancels, AskedOnce, events' = events,
         \A c \in Conns : up'[c] = <<>> \/ (up'[c] = up[c] /\ sock'[c] = sock[c]),
         row' \in {row, dialog, None}, dialog' \in {row, dialog, None},
         \A r \in Requests : /\ asked'[r] = "not yet" => asked[r] = "not yet"
                             /\ asked[r] = "withdrawn" => asked'[r] = "withdrawn"
  PROVE  ReadByOpen' /\ Cancels' /\ AskedOnce'
<1>1. \A f : Sent(f)' => Sent(f)
  BY EmptyHolds DEF Sent
<1>2. \A c \in Conns : \A f : Contains(up'[c], f) => Contains(up[c], f)
  BY EmptyHolds
<1>3. \A c \in Conns : \A f : Once(up[c], f) => Once(up'[c], f)
  BY EmptyHolds
<1>4. ReadByOpen'
  BY DEF ReadByOpen
<1>5. Cancels'
  BY <1>1 DEF Cancels
<1>6. ASSUME NEW r \in Requests
      PROVE  LET f == Frame("request", r) IN
             /\ Once(events', f) /\ \A c \in Conns : Once(up'[c], f)
             /\ \A c \in Conns : Contains(up'[c], f) => ~Contains(events', f)
             /\ \A c, d \in Conns : Contains(up'[c], f) /\ Contains(up'[d], f) => c = d
             /\ r \in {row', dialog'} => ~Sent(f)'
             /\ asked'[r] = "not yet" => ~Sent(f)' /\ r \notin {row', dialog'}
  BY <1>1, <1>2, <1>3, RequestNames DEF AskedOnce
<1> QED
  BY <1>4, <1>5, <1>6 DEF AskedOnce

\* A frame the agent sends is the last of the events.
LEMMA EventAppended ==
  ASSUME Typed, NEW e \in Frames, events' = Append(events, e), up' = up, NEW f
  PROVE  /\ Contains(events', f) <=> Contains(events, f) \/ e = f
         /\ Sent(f)' <=> Sent(f) \/ e = f
         /\ Once(events, f) /\ (e = f => ~Contains(events, f)) => Once(events', f)
<1>1. events \in Seq(Frames)
  BY DEF Typed, OwnTypeOK
<1> QED
  BY <1>1, AppendHolds, AppendOnce DEF Sent

\* A new prompt keeps the invariant of prompts.
LEMMA AskPrompt ==
  ASSUME Typed, ReadByOpen, Cancels, AskedOnce, NEW q \in Requests, Ask(q)
  PROVE  ReadByOpen' /\ Cancels' /\ AskedOnce'
<1> DEFINE e == Frame("request", q)
<1>1. /\ asked[q] = "not yet" /\ events' = Append(events, e)
      /\ UNCHANGED <<sock, up, row, dialog>>
      /\ asked' = [asked EXCEPT ![q] = "waiting"]
  BY DEF Ask, registryVars, browserVars
<1>2. e \in Frames
  BY FrameType
<1>3. asked'[q] = "waiting" /\ \A r \in Requests : r # q => asked'[r] = asked[r]
  BY <1>1 DEF Typed, OwnTypeOK
<1>4. ReadByOpen'
  BY <1>1 DEF ReadByOpen
<1>5. ASSUME NEW r \in Requests, Sent(Frame("cancelled", r))'
      PROVE  asked'[r] = "withdrawn"
  <2>1. Sent(Frame("cancelled", r))
    BY <1>1, <1>2, <1>5, EventAppended, RequestNames
  <2> QED
    BY <1>1, <1>3, <2>1 DEF Cancels
<1>6. ASSUME NEW r \in Requests
      PROVE  LET f == Frame("request", r) IN
             /\ Once(events', f) /\ \A c \in Conns : Once(up'[c], f)
             /\ \A c \in Conns : Contains(up'[c], f) => ~Contains(events', f)
             /\ \A c, d \in Conns : Contains(up'[c], f) /\ Contains(up'[d], f) => c = d
             /\ r \in {row', dialog'} => ~Sent(f)'
             /\ asked'[r] = "not yet" => ~Sent(f)' /\ r \notin {row', dialog'}
  <2> DEFINE f == Frame("request", r)
  <2>1. e = f <=> r = q
    BY RequestNames
  <2>2. r = q => ~Sent(f) /\ r \notin {row, dialog} /\ ~Contains(events, f)
    BY <1>1 DEF AskedOnce, Sent
  <2>3. /\ Contains(events', f) <=> Contains(events, f) \/ r = q
        /\ Sent(f)' <=> Sent(f) \/ r = q
        /\ Once(events, f) => Once(events', f)
    BY <1>1, <1>2, <2>1, <2>2, EventAppended
  <2> HIDE DEF f, e
  <2>4. /\ Once(events, f) /\ \A c \in Conns : Once(up[c], f)
        /\ \A c \in Conns : Contains(up[c], f) => ~Contains(events, f)
        /\ \A c, d \in Conns : Contains(up[c], f) /\ Contains(up[d], f) => c = d
        /\ r \in {row, dialog} => ~Sent(f)
        /\ asked[r] = "not yet" => ~Sent(f) /\ r \notin {row, dialog}
    BY DEF AskedOnce, f
  <2>5. r = q => \A c \in Conns : ~Contains(up[c], f)
    BY <2>2 DEF Sent
  <2> QED
    BY <1>1, <1>3, <2>2, <2>3, <2>4, <2>5 DEF f
<1> QED
  BY <1>4, <1>5, <1>6 DEF AskedOnce, Cancels

\* A withdrawn prompt keeps the invariant of prompts.
LEMMA WithdrawPrompt ==
  ASSUME Typed, ReadByOpen, Cancels, AskedOnce, NEW q \in Requests, Withdraw(q)
  PROVE  ReadByOpen' /\ Cancels' /\ AskedOnce'
<1> DEFINE e == Frame("cancelled", q)
<1>1. /\ events' = Append(events, e)
      /\ UNCHANGED <<sock, up, row, dialog>>
      /\ asked' = [asked EXCEPT ![q] = "withdrawn"]
  BY DEF Withdraw, registryVars, browserVars
<1>2. e \in Frames
  BY FrameType
<1>3. asked'[q] = "withdrawn" /\ \A r \in Requests : r # q => asked'[r] = asked[r]
  BY <1>1 DEF Typed, OwnTypeOK
<1>4. ReadByOpen'
  BY <1>1 DEF ReadByOpen
<1>5. ASSUME NEW r \in Requests, Sent(Frame("cancelled", r))'
      PROVE  asked'[r] = "withdrawn"
  <2>1. Sent(Frame("cancelled", r)) \/ r = q
    BY <1>1, <1>2, <1>5, EventAppended, RequestNames
  <2> QED
    BY <1>3, <2>1 DEF Cancels
<1>6. ASSUME NEW r \in Requests
      PROVE  LET f == Frame("request", r) IN
             /\ Once(events', f) /\ \A c \in Conns : Once(up'[c], f)
             /\ \A c \in Conns : Contains(up'[c], f) => ~Contains(events', f)
             /\ \A c, d \in Conns : Contains(up'[c], f) /\ Contains(up'[d], f) => c = d
             /\ r \in {row', dialog'} => ~Sent(f)'
             /\ asked'[r] = "not yet" => ~Sent(f)' /\ r \notin {row', dialog'}
  <2> DEFINE f == Frame("request", r)
  <2>1. e # f
    BY RequestNames
  <2>2. /\ Contains(events', f) <=> Contains(events, f)
        /\ Sent(f)' <=> Sent(f)
        /\ Once(events, f) => Once(events', f)
    BY <1>1, <1>2, <2>1, EventAppended
  <2> QED
    BY <1>1, <1>3, <2>2 DEF AskedOnce
<1> QED
  BY <1>4, <1>5, <1>6 DEF AskedOnce, Cancels

\* An event on its way to the backend is one less for the main loop.
LEMMA EventMoves ==
  ASSUME Typed, AckHeard, TakeEvent, NEW f
  PROVE  /\ Contains(events, f) <=> Head(events) = f \/ Contains(events', f)
         /\ \A c \in Conns : Contains(up'[c], f)
              <=> Contains(up[c], f) \/ (c = dialled /\ Head(events) = f)
         /\ Sent(f)' <=> Sent(f)
         /\ Once(events, f) => Once(events', f) /\ (Head(events) = f => ~Contains(events', f))
         /\ \A c \in Conns : Once(up[c], f) /\ (Head(events) = f => ~Contains(up[c], f))
              => Once(up'[c], f)
<1>1. dialled \in Conns
  BY DEF TakeEvent, AckHeard, Typed, RegistryInv, RegistryTypeOK
<1>2. events \in Seq(Frames) /\ events # <<>> /\ Head(events) \in Frames /\ events' = Tail(events)
  <2>1. events \in Seq(Frames)
    BY DEF Typed, OwnTypeOK
  <2>2. events # <<>> /\ events' = Tail(events)
    BY DEF TakeEvent
  <2> QED
    BY <2>1, <2>2, HeadTailProperties
<1>3. \A c \in Conns : /\ up[c] \in Seq(Frames)
                       /\ up'[c] = IF c = dialled THEN Append(up[c], Head(events)) ELSE up[c]
  BY DEF TakeEvent, Typed, OwnTypeOK
<1>4. /\ Contains(events, f) <=> Head(events) = f \/ Contains(events', f)
      /\ Once(events, f) => Once(events', f) /\ (Head(events) = f => ~Contains(events', f))
  BY <1>2, TailHolds, TailOnce
<1>5. \A c \in Conns : Contains(up'[c], f)
        <=> Contains(up[c], f) \/ (c = dialled /\ Head(events) = f)
  BY <1>2, <1>3, AppendHolds
<1>6. \A c \in Conns : Once(up[c], f) /\ (Head(events) = f => ~Contains(up[c], f))
        => Once(up'[c], f)
  BY <1>2, <1>3, AppendOnce
<1>7. Sent(f)' <=> Sent(f)
  BY <1>1, <1>4, <1>5 DEF Sent
<1> QED
  BY <1>4, <1>5, <1>6, <1>7

\* An event of the agent keeps the invariant of prompts.
LEMMA TakeEventPrompt ==
  ASSUME Typed, AckHeard, ReadByOpen, Cancels, AskedOnce, TakeEvent
  PROVE  ReadByOpen' /\ Cancels' /\ AskedOnce'
<1>1. /\ UNCHANGED <<sock, asked, row, dialog>>
      /\ heard /\ up' = [up EXCEPT ![dialled] = Append(@, Head(events))]
  BY DEF TakeEvent, registryVars, browserVars
<1>2. ReadByOpen'
  <2>1. \A c \in Conns : c # dialled => up'[c] = up[c]
    BY <1>1 DEF Typed, OwnTypeOK
  <2> QED
    BY <1>1, <2>1 DEF ReadByOpen, AckHeard
<1>3. Cancels'
  BY <1>1, EventMoves DEF Cancels
<1>4. ASSUME NEW r \in Requests
      PROVE  LET f == Frame("request", r) IN
             /\ Once(events', f) /\ \A c \in Conns : Once(up'[c], f)
             /\ \A c \in Conns : Contains(up'[c], f) => ~Contains(events', f)
             /\ \A c, d \in Conns : Contains(up'[c], f) /\ Contains(up'[d], f) => c = d
             /\ r \in {row', dialog'} => ~Sent(f)'
             /\ asked'[r] = "not yet" => ~Sent(f)' /\ r \notin {row', dialog'}
  <2> DEFINE f == Frame("request", r)
  <2>1. /\ Once(events, f) /\ \A c \in Conns : Once(up[c], f)
        /\ \A c \in Conns : Contains(up[c], f) => ~Contains(events, f)
        /\ \A c, d \in Conns : Contains(up[c], f) /\ Contains(up[d], f) => c = d
        /\ r \in {row, dialog} => ~Sent(f)
        /\ asked[r] = "not yet" => ~Sent(f) /\ r \notin {row, dialog}
    BY DEF AskedOnce
  <2> HIDE DEF f
  <2>2. /\ Contains(events, f) <=> Head(events) = f \/ Contains(events', f)
        /\ \A c \in Conns : Contains(up'[c], f)
             <=> Contains(up[c], f) \/ (c = dialled /\ Head(events) = f)
        /\ Sent(f)' <=> Sent(f)
        /\ Once(events, f) => Once(events', f) /\ (Head(events) = f => ~Contains(events', f))
        /\ \A c \in Conns : Once(up[c], f) /\ (Head(events) = f => ~Contains(up[c], f))
             => Once(up'[c], f)
    BY EventMoves
  <2> QED
    BY <1>1, <2>1, <2>2 DEF f
<1> QED
  BY <1>2, <1>3, <1>4 DEF AskedOnce

\* What a handler takes off its connection is on its way no more.
LEMMA FrameTaken ==
  ASSUME Typed, NEW c \in Conns, TakeFrame(c)
  PROVE  /\ Head(up[c]) \in Frames
         /\ \A f : /\ Contains(up[c], f) <=> Head(up[c]) = f \/ Contains(up'[c], f)
                   /\ Once(up[c], f)
                        => Once(up'[c], f) /\ (Head(up[c]) = f => ~Contains(up'[c], f))
         /\ \A d \in Conns : d # c => up'[d] = up[d]
<1>1. up \in [Conns -> Seq(Frames)]
  BY DEF Typed, OwnTypeOK
<1>2. up[c] \in Seq(Frames)
  BY <1>1
<1>3. up[c] # <<>> /\ up' = [up EXCEPT ![c] = Tail(@)]
  BY DEF TakeFrame
<1>4. up'[c] = Tail(up[c]) /\ \A d \in Conns : d # c => up'[d] = up[d]
  BY <1>1, <1>3
<1>5. Head(up[c]) \in Frames
  BY <1>2, <1>3, HeadTailProperties
<1> QED
  BY <1>2, <1>3, <1>4, <1>5, TailHolds, TailOnce

\* What is stored is a request that was on its way; what is cleared was stored.
LEMMA RowTaken ==
  ASSUME Typed, NEW c \in Conns, TakeFrame(c)
  PROVE  \E q \in Requests :
           \/ /\ Head(up[c]) = Frame("request", q)
              /\ row' = q /\ dialog' = IF online THEN q ELSE dialog
           \/ /\ Head(up[c]) = Frame("cancelled", q)
              /\ row' = Cleared(row, q)
              /\ dialog' = IF online THEN Cleared(dialog, q) ELSE dialog
<1>1. Head(up[c]) \in Frames
  BY FrameTaken
<1>2. PICK q \in Requests : Head(up[c]).id = q /\ Head(up[c]) = Frame(Head(up[c]).kind, q)
  BY <1>1 DEF Frames, Frame
<1> QED
  BY <1>2 DEF TakeFrame, StoreRequest, ClearCancelled

\* A frame at the backend keeps the invariant of prompts.
LEMMA TakeFramePrompt ==
  ASSUME Typed, ReadByOpen, Cancels, AskedOnce, NEW c \in Conns, TakeFrame(c)
  PROVE  ReadByOpen' /\ Cancels' /\ AskedOnce'
<1>1. UNCHANGED <<sock, asked, events>> /\ sock[c] = "open"
  BY DEF TakeFrame, registryVars, agentVars
<1>2. /\ \A f : /\ Contains(up[c], f) <=> Head(up[c]) = f \/ Contains(up'[c], f)
                /\ Once(up[c], f)
                     => Once(up'[c], f) /\ (Head(up[c]) = f => ~Contains(up'[c], f))
      /\ \A d \in Conns : d # c => up'[d] = up[d]
  BY FrameTaken
<1>3. \A f : Sent(f)' => Sent(f)
  BY <1>1, <1>2 DEF Sent
<1>4. ReadByOpen'
  BY <1>1, <1>2 DEF ReadByOpen
<1>5. Cancels'
  BY <1>1, <1>3 DEF Cancels
<1>6. PICK q \in Requests :
           \/ /\ Head(up[c]) = Frame("request", q)
              /\ row' = q /\ dialog' = IF online THEN q ELSE dialog
           \/ /\ Head(up[c]) = Frame("cancelled", q)
              /\ row' = Cleared(row, q)
              /\ dialog' = IF online THEN Cleared(dialog, q) ELSE dialog
  BY RowTaken
<1>7. ASSUME NEW r \in Requests
      PROVE  LET f == Frame("request", r) IN
             /\ Once(events', f) /\ \A d \in Conns : Once(up'[d], f)
             /\ \A d \in Conns : Contains(up'[d], f) => ~Contains(events', f)
             /\ \A d, e \in Conns : Contains(up'[d], f) /\ Contains(up'[e], f) => d = e
             /\ r \in {row', dialog'} => ~Sent(f)'
             /\ asked'[r] = "not yet" => ~Sent(f)' /\ r \notin {row', dialog'}
  <2> DEFINE f == Frame("request", r)
  <2>1. /\ Once(events, f) /\ \A d \in Conns : Once(up[d], f)
        /\ \A d \in Conns : Contains(up[d], f) => ~Contains(events, f)
        /\ \A d, e \in Conns : Contains(up[d], f) /\ Contains(up[e], f) => d = e
        /\ r \in {row, dialog} => ~Sent(f)
        /\ asked[r] = "not yet" => ~Sent(f) /\ r \notin {row, dialog}
    BY DEF AskedOnce
  <2>2. r \in {row', dialog'} => r \in {row, dialog} \/ Head(up[c]) = f
    BY <1>6, RequestNames DEF Cleared
  <2> HIDE DEF f
  <2>3. Head(up[c]) = f => Contains(up[c], f) /\ ~Contains(up'[c], f)
    BY <1>2, <2>1
  <2>4. Head(up[c]) = f => ~Sent(f)'
    BY <1>1, <1>2, <2>1, <2>3 DEF Sent
  <2>5. Head(up[c]) = f => Sent(f)
    BY <2>3 DEF Sent
  <2>6. /\ Once(events', f) /\ \A d \in Conns : Once(up'[d], f)
        /\ \A d \in Conns : Contains(up'[d], f) => ~Contains(events', f)
        /\ \A d, e \in Conns : Contains(up'[d], f) /\ Contains(up'[e], f) => d = e
    BY <1>1, <1>2, <2>1
  <2>7. r \in {row', dialog'} => ~Sent(f)'
    BY <1>3, <2>1, <2>2, <2>4
  <2>8. asked'[r] = "not yet" => ~Sent(f)' /\ r \notin {row', dialog'}
    BY <1>1, <1>3, <2>1, <2>2, <2>5
  <2> QED
    BY <2>6, <2>7, <2>8 DEF f
<1> QED
  BY <1>4, <1>5, <1>7 DEF AskedOnce

\* Only an open connection's handler closes it, so a handler that makes any
\* other step has no frames waiting.
LEMMA FramesOutliveSteps ==
  ASSUME Typed, ReadByOpen, NEW c \in Conns, ConnectionStep(c)
  PROVE  \A d \in Conns : up'[d] = <<>> \/ (up'[d] = up[d] /\ sock'[d] = sock[d])
<1>1. up \in [Conns -> Seq(Frames)] /\ sock \in [Conns -> Steps]
  BY DEF Typed, OwnTypeOK, RegistryInv, RegistryTypeOK
<1>2. /\ up' = [up EXCEPT ![c] = IF sock'[c] \in {"closing", "closed"} THEN <<>> ELSE @]
      /\ Dial(c) \/ Leaves(c) \/ Handler(c)
  BY DEF ConnectionStep
<1>3. \A d \in Conns : d # c => sock'[d] = sock[d] /\ up'[d] = up[d]
  BY <1>1, <1>2 DEF Dial, Leaves, Handler, Admit, Drain, Insert, Acknowledge, Closes,
     WriteDisconnected, Unregister, At
<1>4. sock'[c] = sock[c] \/ sock[c] # "open" \/ sock'[c] \in {"closing", "closed"}
  BY <1>1, <1>2 DEF Dial, Leaves, Handler, Admit, Drain, Insert, Acknowledge, Closes,
     WriteDisconnected, Unregister, At
<1> QED
  BY <1>1, <1>2, <1>3, <1>4 DEF ReadByOpen

\* Types and the invariant of prompts hold of every reachable state.
THEOREM PromptInvariant == Spec => [](Typed /\ PromptInv)
<1>1. Init => PromptInv
  <2> SUFFICES ASSUME Init PROVE PromptInv
    OBVIOUS
  <2>1. /\ heard = FALSE /\ events = <<>> /\ \A c \in Conns : up[c] = <<>> /\ down[c] = <<>>
        /\ row = None /\ dialog = None
    BY DEF Init, RegistryInit
  <2>2. AckHeard
    BY <2>1, EmptyHolds DEF AckHeard
  <2>3. \A f : ~Sent(f) /\ Once(events, f) /\ \A c \in Conns : Once(up[c], f)
    BY <2>1, EmptyHolds DEF Sent
  <2>4. \A f : \A c \in Conns : ~Contains(up[c], f)
    BY <2>1, EmptyHolds
  <2> QED
    BY <2>1, <2>2, <2>3, <2>4, RequestNames DEF PromptInv, ReadByOpen, Cancels, AskedOnce
<1>2. Typed /\ PromptInv /\ [Next]_vars => PromptInv'
  <2> SUFFICES ASSUME Typed, PromptInv, [Next]_vars PROVE PromptInv'
    OBVIOUS
  <2>1. CASE UNCHANGED vars
    BY <2>1 DEF vars, registryVars, ownVars, agentVars, browserVars, PromptInv, AckHeard,
       ReadByOpen, Cancels, AskedOnce, Sent
  <2>2. CASE Next
    <3> DEFINE P == ReadByOpen' /\ Cancels' /\ AskedOnce'
    <3>1. AckHeard'
      <4>1. RegistryNext \/ UNCHANGED registryVars
        BY <2>2, ClientStep DEF Typed, OwnTypeOK
      <4>2. UNCHANGED registryVars => AckHeard'
        BY DEF PromptInv, AckHeard, registryVars
      <4> QED
        BY <4>1, <4>2, AckHeardStep DEF PromptInv, Typed, RegistryInv
    <3>2. ASSUME NEW r \in Requests, Ask(r) \/ Withdraw(r) PROVE P
      BY <3>2, AskPrompt, WithdrawPrompt DEF PromptInv
    <3>3. ASSUME TakeEvent PROVE P
      BY <3>3, TakeEventPrompt DEF PromptInv
    <3>4. ASSUME NEW c \in Conns, TakeFrame(c) PROVE P
      BY <3>4, TakeFramePrompt DEF PromptInv
    <3>5. ASSUME NEW c \in Conns, ConnectionStep(c) PROVE P
      <4>1. UNCHANGED <<events, asked, row, dialog>>
        BY <3>5 DEF ConnectionStep, agentVars, browserVars
      <4>2. \A d \in Conns : up'[d] = <<>> \/ (up'[d] = up[d] /\ sock'[d] = sock[d])
        BY <3>5, FramesOutliveSteps DEF PromptInv
      <4> QED
        BY <4>1, <4>2, ShrinkStep DEF PromptInv
    <3>6. ASSUME NEW c \in Conns, NEW m \in Requests \cup {RegisterAck}, ReadFrame(c, m)
          PROVE  P
      <4>1. UNCHANGED <<sock, events, up, row, dialog>>
        BY <3>6 DEF ReadFrame, Reads, browserVars
      <4>2. \A r \in Requests : /\ asked'[r] = "not yet" => asked[r] = "not yet"
                                /\ asked[r] = "withdrawn" => asked'[r] = "withdrawn"
        BY <3>6 DEF ReadFrame, TakeAnswer, Typed, OwnTypeOK
      <4> QED
        BY <4>1, <4>2, ShrinkStep DEF PromptInv
    <3>7. ASSUME HandleResponse \/ Answer \/ BrowserDrops \/ BrowserReturns \/ BackgroundStep PROVE P
      <4>1. UNCHANGED <<sock, events, asked, up>>
        BY <3>7 DEF HandleResponse, SendOrQueue, Answer, BrowserDrops, BrowserReturns,
           BackgroundStep, Background, SweepJudges, SweepEvicts, HealLooks, HealWrites,
           GraceLooks, GraceWrites, registryVars, ownVars, agentVars
      <4>2. row' \in {row, dialog, None} /\ dialog' \in {row, dialog, None}
        BY <3>7 DEF HandleResponse, Answer, BrowserDrops, BrowserReturns, BackgroundStep,
           ownVars, browserVars
      <4> QED
        BY <4>1, <4>2, ShrinkStep DEF PromptInv
    <3>8. ASSUME BackendRestarts PROVE P
      <4>1. UNCHANGED <<events, asked, row, dialog>> /\ \A c \in Conns : up'[c] = <<>>
        BY <3>8 DEF BackendRestarts, agentVars
      <4> QED
        BY <4>1, ShrinkStep DEF PromptInv
    <3> HIDE DEF P
    <3>9. P
      BY <2>2, <3>2, <3>3, <3>4, <3>5, <3>6, <3>7, <3>8 DEF Next
    <3> QED
      BY <3>1, <3>9 DEF P, PromptInv
  <2> QED
    BY <2>1, <2>2
<1> QED
  BY <1>1, <1>2, PermissionsInvariant, PTL DEF Spec, Typed

-----------------------------------------------------------------------------
(* Why a prompt is let go of                                               *)

\* The answers a proxy that has heard its RegisterAck, or has not yet, will
\* take from a connection that holds q.
TakenOf(q, hears) ==
    IF hears THEN Range(q)
    ELSE LET acks == {i \in DOMAIN q : q[i] = RegisterAck}
         IN  {q[i] : i \in {j \in DOMAIN q : \E a \in acks : a < j}}

\* An answer will be taken if it stands behind a RegisterAck, or one was heard.
LEMMA TakenBehindAck ==
  ASSUME NEW S, NEW q \in Seq(S), NEW hears \in BOOLEAN, NEW r
  PROVE  r \in TakenOf(q, hears) <=>
           \E i \in 1..Len(q) :
              q[i] = r /\ (hears \/ \E a \in 1..Len(q) : q[a] = RegisterAck /\ a < i)
<1>1. DOMAIN q = 1..Len(q)
  BY LenProperties
<1>2. CASE hears
  BY <1>1, <1>2 DEF TakenOf, Range
<1>3. CASE ~hears
  BY <1>1, <1>3 DEF TakenOf
<1> QED
  BY <1>2, <1>3

\* What is sent after it keeps no answer from being taken.
LEMMA TakenAfterMore ==
  ASSUME NEW S, NEW q \in Seq(S), NEW p \in Seq(S), NEW hears \in BOOLEAN,
         NEW r \in TakenOf(q, hears)
  PROVE  r \in TakenOf(q \o p, hears)
<1>1. /\ Len(q) \in Nat /\ Len(p) \in Nat /\ Len(q \o p) = Len(q) + Len(p)
      /\ \A k \in 1..Len(q) : (q \o p)[k] = q[k]
      /\ q \o p \in Seq(S)
  BY LenProperties, ConcatProperties
<1>2. PICK i \in 1..Len(q) :
         q[i] = r /\ (hears \/ \E a \in 1..Len(q) : q[a] = RegisterAck /\ a < i)
  BY TakenBehindAck
<1>3. i \in 1..Len(q \o p) /\ (q \o p)[i] = r
  BY <1>1, <1>2
<1>4. hears \/ \E a \in 1..Len(q \o p) : (q \o p)[a] = RegisterAck /\ a < i
  <2>1. ASSUME NEW a \in 1..Len(q), q[a] = RegisterAck, a < i
        PROVE  a \in 1..Len(q \o p) /\ (q \o p)[a] = RegisterAck
    BY <1>1, <2>1
  <2> QED
    BY <1>2, <2>1
<1> QED
  BY <1>1, <1>3, <1>4, TakenBehindAck

\* Reading the head of a connection takes no other answer from it.
LEMMA TakenAfterRead ==
  ASSUME NEW S, NEW q \in Seq(S), q # <<>>, NEW hears \in BOOLEAN,
         NEW r \in TakenOf(q, hears), hears => Head(q) # r
  PROVE  r \in TakenOf(Tail(q), hears \/ Head(q) = RegisterAck)
<1> DEFINE t == Tail(q)
           h == hears \/ Head(q) = RegisterAck
<1>1. /\ Len(q) \in Nat \ {0} /\ Head(q) = q[1] /\ Len(t) = Len(q) - 1
      /\ \A k \in 1..Len(q) - 1 : t[k] = q[k + 1]
      /\ t \in Seq(S)
  BY LenProperties, EmptySeq, HeadTailProperties
<1>2. h \in BOOLEAN
  OBVIOUS
<1>3. PICK i \in 1..Len(q) :
         q[i] = r /\ (hears \/ \E a \in 1..Len(q) : q[a] = RegisterAck /\ a < i)
  BY TakenBehindAck
<1> HIDE DEF t
<1>4. i # 1
  BY <1>1, <1>3
<1>5. i - 1 \in 1..Len(t) /\ t[i - 1] = r
  BY <1>1, <1>3, <1>4
<1>6. h \/ \E a \in 1..Len(t) : t[a] = RegisterAck /\ a < i - 1
  <2>1. ASSUME NEW a \in 1..Len(q), q[a] = RegisterAck, a < i, ~h
        PROVE  \E b \in 1..Len(t) : t[b] = RegisterAck /\ b < i - 1
    <3>1. a # 1
      BY <1>1, <2>1
    <3>2. a - 1 \in 1..Len(t) /\ t[a - 1] = RegisterAck /\ a - 1 < i - 1
      BY <1>1, <2>1, <3>1
    <3> QED
      BY <3>2
  <2> QED
    BY <1>3, <2>1
<1> HIDE DEF h
<1>7. r \in TakenOf(t, h)
  BY <1>1, <1>2, <1>5, <1>6, TakenBehindAck
<1> QED
  BY <1>7 DEF t, h

\* A step that takes nothing from a request leaves it in hand.
LEMMA HandKept ==
  ASSUME NEW r \in Requests, InHand(r),
         Contains(events, Frame("request", r)) => InHand(r)',
         slot = r => slot' = r, row = r => row' = r, dialog = r => dialog' = r,
         \A c \in Conns : Contains(up[c], Frame("request", r))
                            => Contains(up'[c], Frame("request", r)),
         answers' = answers, dialled' = dialled,
         dialled # None /\ r \in TakenOf(down[dialled], heard)
            => r \in TakenOf(down'[dialled], heard')
  PROVE  InHand(r)'
<1>1. /\ \A d : WillBeTaken(d) = TakenOf(down[d], heard)
      /\ \A d : WillBeTaken(d)' = TakenOf(down'[d], heard')
  BY DEF WillBeTaken, TakenOf
<1> QED
  BY <1>1 DEF InHand

\* No reason to let go of a prompt.
NoCause ==
    /\ dialled' = dialled /\ online' = online
    /\ online \/ dialog' = dialog
    /\ \A c \in Conns : sock[c] = "open" => sock'[c] = "open"
    /\ slot' \in {slot, None} /\ row' \in {row, None}
    /\ answers' = answers

\* A prompt in hand stays in hand when the agent asks or withdraws another.
LEMMA AgentKeeps ==
  ASSUME Typed, NEW r \in Requests, InHand(r), NEW q \in Requests, Ask(q) \/ Withdraw(q)
  PROVE  InHand(r)'
<1> DEFINE f == Frame("request", r)
<1>1. UNCHANGED <<slot, row, dialog, up, answers, dialled, down, heard>>
  BY DEF Ask, Withdraw, registryVars, browserVars
<1>2. PICK e \in Frames : events' = Append(events, e)
  BY FrameType DEF Ask, Withdraw
<1>3. Contains(events, f) => Contains(events', f)
  BY <1>1, <1>2, EventAppended
<1>4. Contains(events', f) => InHand(r)'
  BY DEF InHand
<1> QED
  BY <1>1, <1>3, <1>4, HandKept

\* A request the main loop takes keeps its slot, for a cancellation of it is
\* not on its way, and goes on to the backend.
LEMMA TakeEventKeeps ==
  ASSUME Typed, PromptInv, NEW r \in Requests, Waiting(r), InHand(r), NoCause, TakeEvent
  PROVE  InHand(r)'
<1> DEFINE f == Frame("request", r)
<1>1. /\ UNCHANGED <<row, dialog, answers, dialled, down, heard>>
      /\ heard /\ slot' = SlotAfter(Head(events))
  BY DEF TakeEvent, registryVars, browserVars
<1>2. dialled \in Conns
  BY <1>1 DEF PromptInv, AckHeard, Typed, RegistryInv, RegistryTypeOK
<1>3. /\ Contains(events, f) <=> Head(events) = f \/ Contains(events', f)
      /\ \A c \in Conns : Contains(up'[c], f)
           <=> Contains(up[c], f) \/ (c = dialled /\ Head(events) = f)
  BY EventMoves DEF PromptInv
<1>4. Contains(events', f) => InHand(r)'
  BY DEF InHand
<1>5. Head(events) = f => InHand(r)'
  <2>1. Head(events) = f => slot' = r
    BY <1>1 DEF SlotAfter, Frame
  <2>2. Head(events) = f => Contains(up'[dialled], f)
    BY <1>2, <1>3
  <2> QED
    BY <1>2, <2>1, <2>2 DEF InHand
<1>6. slot = r => slot' = r
  <2>1. PICK q \in Requests :
           Head(events) = Frame("request", q) \/ Head(events) = Frame("cancelled", q)
    <3>1. events \in Seq(Frames)
      BY DEF Typed, OwnTypeOK
    <3>2. Head(events) \in Frames
      BY <3>1, HeadTailProperties DEF TakeEvent
    <3> QED
      BY <3>2 DEF Frames, Frame
  <2>2. CASE Head(events) = Frame("request", q)
    BY <1>1, <2>2, RequestNames DEF SlotAfter, Frame, NoCause
  <2>3. CASE Head(events) = Frame("cancelled", q)
    <3>1. Contains(events, Frame("cancelled", q))
      <4>1. events \in Seq(Frames) /\ events # <<>>
        BY DEF Typed, OwnTypeOK, TakeEvent
      <4> QED
        BY <2>3, <4>1, TailHolds
    <3>2. q # r
      BY <3>1 DEF PromptInv, Cancels, Sent, Waiting
    <3> QED
      BY <1>1, <2>3, <3>2 DEF SlotAfter, Frame, Cleared
  <2> QED
    BY <2>1, <2>2, <2>3
<1>7. \A c \in Conns : Contains(up[c], f) => Contains(up'[c], f)
  BY <1>3
<1>8. Contains(events, f) => InHand(r)'
  BY <1>3, <1>4, <1>5
<1> QED
  BY <1>1, <1>6, <1>7, <1>8, HandKept

\* A request that is stored takes the row from another; a cancellation
\* takes it only from the request it names.
LEMMA TakeFrameKeeps ==
  ASSUME Typed, PromptInv, NEW r \in Requests, Waiting(r), InHand(r), NoCause,
         NEW c \in Conns, TakeFrame(c)
  PROVE  InHand(r)'
<1> DEFINE f == Frame("request", r)
<1>1. UNCHANGED <<events, slot, answers, dialled, down, heard>>
  BY DEF TakeFrame, registryVars, agentVars
<1>2. \A g : Contains(up[c], g) <=> Head(up[c]) = g \/ Contains(up'[c], g)
  BY FrameTaken
<1>3. \A d \in Conns : d # c => up'[d] = up[d]
  BY FrameTaken
<1>4. PICK q \in Requests :
           \/ /\ Head(up[c]) = Frame("request", q)
              /\ row' = q /\ dialog' = IF online THEN q ELSE dialog
           \/ /\ Head(up[c]) = Frame("cancelled", q)
              /\ row' = Cleared(row, q)
              /\ dialog' = IF online THEN Cleared(dialog, q) ELSE dialog
  BY RowTaken
<1>5. Head(up[c]) # Frame("request", q)
  <2>1. ASSUME Head(up[c]) = Frame("request", q) PROVE FALSE
    <3>1. row' = q
      BY <1>4, <2>1, RequestNames
    <3>2. row = q
      BY <3>1, RequestNames DEF NoCause
    <3>3. Sent(Frame("request", q))
      BY <1>2, <2>1 DEF Sent
    <3> QED
      BY <3>2, <3>3 DEF PromptInv, AskedOnce
  <2> QED
    BY <2>1
<1>6. q # r
  <2>1. Sent(Frame("cancelled", q))
    BY <1>2, <1>4, <1>5 DEF Sent
  <2> QED
    BY <2>1 DEF PromptInv, Cancels, Waiting
<1>7. (row = r => row' = r) /\ (dialog = r => dialog' = r)
  BY <1>4, <1>5, <1>6 DEF Cleared
<1>8. Head(up[c]) # f
  BY <1>4, <1>5, RequestNames
<1>9. \A d \in Conns : Contains(up[d], f) => Contains(up'[d], f)
  BY <1>2, <1>3, <1>8
<1>10. Contains(events, f) => InHand(r)'
  BY <1>1 DEF InHand
<1> QED
  BY <1>1, <1>7, <1>9, <1>10, HandKept

\* The session clears its slot only for the answer that settles the request.
LEMMA ReadFrameKeeps ==
  ASSUME Typed, NEW r \in Requests, Waiting(r)', InHand(r), NEW c \in Conns,
         NEW m \in Requests \cup {RegisterAck}, ReadFrame(c, m)
  PROVE  InHand(r)'
<1> DEFINE f == Frame("request", r)
<1>1. /\ UNCHANGED <<events, up, row, dialog, answers, dialled>>
      /\ dialled = c /\ down[c] # <<>> /\ m = Head(down[c])
      /\ down' = [down EXCEPT ![c] = Tail(@)]
      /\ heard' = (heard \/ m = RegisterAck)
      /\ IF m = RegisterAck \/ Discards(m) THEN UNCHANGED <<slot, asked>> ELSE TakeAnswer(m)
  BY DEF ReadFrame, Reads, browserVars
<1>2. r # RegisterAck
  BY RegistryAssumption DEF Requests, RegisterAck
<1>3. slot = r => slot' = r
  BY <1>1 DEF TakeAnswer, Waiting, Typed, OwnTypeOK
<1>4. slot = r /\ heard => m # r
  BY <1>1, <1>2 DEF TakeAnswer, Discards, Waiting, Typed, OwnTypeOK
<1>5. slot = r /\ r \in TakenOf(down[dialled], heard) => r \in TakenOf(down'[dialled], heard')
  <2>1. down[c] \in Seq(Messages \cup {RegisterAck}) /\ heard \in BOOLEAN
    BY DEF Typed, RegistryInv, RegistryTypeOK
  <2>2. down'[c] = Tail(down[c])
    BY <1>1 DEF Typed, RegistryInv, RegistryTypeOK
  <2> QED
    BY <1>1, <1>4, <2>1, <2>2, TakenAfterRead
<1>6. Contains(events, f) => InHand(r)'
  BY <1>1 DEF InHand
<1>7. CASE slot = r
  BY <1>1, <1>3, <1>5, <1>6, <1>7, HandKept
<1>8. CASE slot # r
  BY <1>6, <1>8 DEF InHand
<1> QED
  BY <1>7, <1>8

\* A handler that stays open loses no frames, and only adds to what the
\* proxy will read.
LEMMA ConnectionKeeps ==
  ASSUME Typed, PromptInv, NEW r \in Requests, InHand(r), NoCause,
         NEW c \in Conns, ConnectionStep(c)
  PROVE  InHand(r)'
<1> DEFINE f == Frame("request", r)
<1>1. UNCHANGED <<events, slot, row, dialog, answers>>
  BY DEF ConnectionStep, agentVars, browserVars
<1>2. dialled' = dialled
  BY DEF NoCause
<1>3. None \notin Conns
  BY DEF None, Conns
<1>4. Handler(c)
  BY <1>2, <1>3 DEF ConnectionStep, Dial, Leaves
<1>5. \A d \in Conns : Contains(up[d], f) => Contains(up'[d], f)
  <2>1. ASSUME NEW d \in Conns, Contains(up[d], f) PROVE Contains(up'[d], f)
    <3>1. up[d] # <<>>
      BY <2>1, EmptyHolds
    <3>2. sock'[d] = "open"
      BY <3>1 DEF PromptInv, ReadByOpen, NoCause
    <3>3. up'[d] = up[d]
      BY <3>2 DEF ConnectionStep, Typed, OwnTypeOK
    <3> QED
      BY <2>1, <3>3
  <2> QED
    BY <2>1
<1>6. heard' = heard
  BY <1>4 DEF Handler, Admit, Drain, Insert, Acknowledge, Closes, WriteDisconnected,
     Unregister, proxySide
<1>7. dialled \in Conns /\ r \in TakenOf(down[dialled], heard)
        => r \in TakenOf(down'[dialled], heard)
  <2> DEFINE F == Messages \cup {RegisterAck}
  <2>1. /\ down \in [Conns -> Seq(F)] /\ heard \in BOOLEAN
        /\ dialled \in Conns => down[dialled] \in Seq(F)
    BY DEF Typed, RegistryInv, RegistryTypeOK
  <2>2. \E ms \in Seq(F) : down' = down \/ down' = Written(c, ms)
    <3>1. CASE Drain(c)
      <4>1. PICK old \in 0..Len(queue) : down' = Written(c, SubSeq(queue, old + 1, Len(queue)))
        BY <3>1 DEF Drain
      <4>2. SubSeq(queue, old + 1, Len(queue)) \in Seq(F)
        BY YoungerType DEF Typed, RegistryInv, RegistryTypeOK
      <4> QED
        BY <4>1, <4>2
    <3>2. CASE Acknowledge(c)
      <4>1. <<RegisterAck>> \in Seq(F)
        OBVIOUS
      <4> QED
        BY <3>2, <4>1 DEF Acknowledge
    <3>3. CASE down' = down
      <4>1. <<>> \in Seq(F)
        OBVIOUS
      <4> QED
        BY <3>3, <4>1
    <3> QED
      BY <1>4, <3>1, <3>2, <3>3 DEF Handler, Admit, Insert, Closes, WriteDisconnected, Unregister
  <2>3. PICK ms \in Seq(F) : down' = down \/ down' = Written(c, ms)
    BY <2>2
  <2>4. dialled \in Conns =>
          down'[dialled] = down[dialled] \/ down'[dialled] = down[dialled] \o ms
    BY <2>1, <2>3 DEF Written
  <2> HIDE DEF F
  <2> QED
    BY <2>1, <2>4, TakenAfterMore
<1>8. dialled \in Conns \cup {None}
  BY DEF Typed, RegistryInv, RegistryTypeOK
<1>9. Contains(events, f) => InHand(r)'
  BY <1>1 DEF InHand
<1> QED
  BY <1>1, <1>2, <1>5, <1>6, <1>7, <1>8, <1>9, HandKept

\* A request the agent waits on is let go of only for a cause.
THEOREM PromptLetGoForCause == Spec => LetGoForCause
<1> DEFINE Cause == \/ dialled' # dialled \/ online' # online
                    \/ ~online /\ dialog' # dialog
                    \/ \E c \in Conns : sock[c] = "open" /\ sock'[c] # "open"
                    \/ slot' \notin {slot, None} \/ row' \notin {row, None}
                    \/ answers' # answers
<1>1. Typed /\ PromptInv /\ [Next]_vars =>
        [\A r \in Requests : Waiting(r) /\ Waiting(r)' /\ InHand(r) /\ ~InHand(r)' => Cause]_vars
  <2> SUFFICES ASSUME Typed, PromptInv, Next, NEW r \in Requests, Waiting(r), Waiting(r)',
                      InHand(r), ~Cause
               PROVE  InHand(r)'
    OBVIOUS
  <2>1. NoCause
    BY DEF NoCause
  <2> HIDE DEF Cause
  <2>2. ASSUME NEW q \in Requests, Ask(q) \/ Withdraw(q) PROVE InHand(r)'
    BY <2>2, AgentKeeps
  <2>3. CASE TakeEvent
    BY <2>1, <2>3, TakeEventKeeps
  <2>4. ASSUME NEW c \in Conns, ConnectionStep(c) PROVE InHand(r)'
    BY <2>1, <2>4, ConnectionKeeps
  <2>5. ASSUME NEW c \in Conns, TakeFrame(c) PROVE InHand(r)'
    BY <2>1, <2>5, TakeFrameKeeps
  <2>6. ASSUME NEW c \in Conns, NEW m \in Requests \cup {RegisterAck}, ReadFrame(c, m)
        PROVE  InHand(r)'
    BY <2>6, ReadFrameKeeps
  <2>7. ~HandleResponse
    <3>1. HandleResponse => answers' # answers
      <4>1. answers \in Seq(Requests)
        BY DEF Typed, OwnTypeOK
      <4>2. answers # <<>> => Len(Tail(answers)) # Len(answers)
        BY <4>1, HeadTailProperties, LenProperties, EmptySeq
      <4> QED
        BY <4>2 DEF HandleResponse
    <3> QED
      BY <2>1, <3>1 DEF NoCause
  <2>8. ~Answer
    <3>1. answers \in Seq(Requests) /\ dialog \in Requests \cup {None}
      BY DEF Typed, OwnTypeOK
    <3>2. dialog \in Requests => Len(Append(answers, dialog)) # Len(answers)
      BY <3>1, AppendProperties, LenProperties
    <3> QED
      BY <2>1, <3>1, <3>2 DEF Answer, NoCause
  <2>9. ~BrowserDrops /\ ~BrowserReturns
    BY <2>1 DEF BrowserDrops, BrowserReturns, NoCause
  <2>10. CASE BackgroundStep
    <3>1. UNCHANGED <<events, slot, row, dialog, up, answers, dialled, down, heard>>
      BY <2>10 DEF BackgroundStep, Background, SweepJudges, SweepEvicts, HealLooks, HealWrites,
         GraceLooks, GraceWrites, proxySide, ownVars, agentVars, browserVars
    <3>2. Contains(events, Frame("request", r)) => InHand(r)'
      BY <3>1 DEF InHand
    <3> QED
      BY <3>1, <3>2, HandKept
  <2>11. CASE BackendRestarts
    <3>1. UNCHANGED <<events, slot, row, dialog, answers>> /\ dialled' = None /\ dialled = None
      BY <2>1, <2>11 DEF BackendRestarts, Restart, agentVars, NoCause
    <3>2. \A c \in Conns : sock[c] # "open"
      BY <2>1, <2>11 DEF BackendRestarts, Restart, NoCause
    <3>3. \A c \in Conns : ~Contains(up[c], Frame("request", r))
      BY <3>2, EmptyHolds DEF PromptInv, ReadByOpen
    <3>4. Contains(events, Frame("request", r)) => InHand(r)'
      BY <3>1 DEF InHand
    <3> QED
      BY <3>1, <3>3, <3>4, HandKept
  <2> QED
    BY <2>2, <2>3, <2>4, <2>5, <2>6, <2>7, <2>8, <2>9, <2>10, <2>11 DEF Next
<1> QED
  BY <1>1, PromptInvariant, PTL DEF Spec, LetGoForCause
=============================================================================
