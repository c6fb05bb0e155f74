--------------------------- MODULE EditStackProofs ---------------------------
(* Theorems about EditStack, for any number of items, requests and faults.   *)
EXTENDS EditStack, Queues

-----------------------------------------------------------------------------
(* Types                                                                     *)

\* The rows the agent has accepted are those whose acknowledgement is on its
\* way: without it an acknowledgement could find no row to delete.
AckInv == taken = Count(frames, {"ack"})

\* A user's request and a fault are counted up to their bounds.
LEMMA SpentType ==
  ASSUME spent \in [requests : 0..MaxRequests, faults : 0..MaxFaults],
         Request \/ Fault \/ NoFault
  PROVE  spent' \in [requests : 0..MaxRequests, faults : 0..MaxFaults]
<1>1. CASE Request
  <2>1. spent.requests + 1 \in 0..MaxRequests
    BY <1>1, BoundsAssumption DEF Request
  <2> QED
    BY <1>1, <2>1 DEF Request
<1>2. CASE Fault
  <2>1. spent.faults + 1 \in 0..MaxFaults
    BY <1>2, BoundsAssumption DEF Fault
  <2> QED
    BY <1>2, <2>1 DEF Fault
<1> QED
  BY <1>1, <1>2 DEF NoFault

\* The dispatcher picks an item: one that is pending.
LEMMA PicksPending ==
  ASSUME TypeOK, Pending # {}
  PROVE  Min(Pending) \in Pending
<1>1. Pending \in SUBSET Nat
  BY NAssumption DEF Pending, Items
<1>2. \E x \in Pending : \A y \in Pending : x <= y
  BY <1>1, LeastOf
<1> QED
  BY <1>2 DEF Min

\* What the proxy emits goes to the end of its frames.
LEMMA EmittedTwo ==
  ASSUME NEW q \in Seq(Frames), NEW a \in Frames, NEW b \in Frames
  PROVE  /\ q \o <<a>> = Append(q, a)
         /\ q \o <<a, b>> = Append(Append(q, a), b)
  OBVIOUS

\* Only an acknowledgement counts as one.
LEMMA AcksAppended ==
  ASSUME NEW q \in Seq(Frames), NEW f \in Frames
  PROVE  /\ Append(q, f) \in Seq(Frames)
         /\ Count(q, {"ack"}) \in Nat
         /\ Count(Append(q, f), {"ack"}) = Count(q, {"ack"}) + (IF f = "ack" THEN 1 ELSE 0)
<1>1. Append(q, f) \in Seq(Frames)
  OBVIOUS
<1>2. Count(Append(q, f), {"ack"}) = Count(q, {"ack"}) + (IF f \in {"ack"} THEN 1 ELSE 0)
  BY CountAppend
<1> QED
  BY <1>1, <1>2, CountType

\* The agent takes a row: its acknowledgement, and the turn it begins, go out.
LEMMA AcceptType ==
  ASSUME TypeOK, AckInv, Accept
  PROVE  TypeOK' /\ AckInv'
<1>1. "ack" \in Frames /\ "busy" \in Frames /\ frames \in Seq(Frames)
  BY DEF Frames, TypeOK
<1>2. frames' = IF turn THEN Append(frames, "ack") ELSE Append(Append(frames, "ack"), "busy")
  BY <1>1, EmittedTwo DEF Accept, Emits
<1>3. /\ Append(frames, "ack") \in Seq(Frames)
      /\ Count(frames, {"ack"}) \in Nat
      /\ Count(Append(frames, "ack"), {"ack"}) = Count(frames, {"ack"}) + 1
  BY <1>1, AcksAppended
<1>4. /\ Append(Append(frames, "ack"), "busy") \in Seq(Frames)
      /\ Count(Append(Append(frames, "ack"), "busy"), {"ack"}) = Count(Append(frames, "ack"), {"ack"}) + 0
  BY <1>1, <1>3, AcksAppended
<1>5. frames' \in Seq(Frames) /\ Count(frames', {"ack"}) = Count(frames, {"ack"}) + 1
  BY <1>2, <1>3, <1>4
<1>6. AckInv'
  BY <1>5 DEF AckInv, Accept
<1>7. taken' \in 0..Len(rows')
  BY DEF Accept, TypeOK, backend
<1> QED
  BY <1>5, <1>6, <1>7 DEF Accept, TypeOK, backend, stack, memory, browser

\* The end of an agent's turn keeps the types.
LEMMA EndTurnType ==
  ASSUME TypeOK, AckInv, EndTurn
  PROVE  TypeOK' /\ AckInv'
<1>1. "result" \in Frames /\ "boundary" \in Frames /\ frames \in Seq(Frames)
  BY DEF Frames, TypeOK
<1>2. \/ frames' = Append(frames, "result")
      \/ frames' = Append(Append(frames, "boundary"), "result")
  BY <1>1, EmittedTwo DEF EndTurn, Emits
<1>3. /\ Append(frames, "result") \in Seq(Frames)
      /\ Append(frames, "boundary") \in Seq(Frames)
      /\ Count(frames, {"ack"}) \in Nat
      /\ Count(Append(frames, "result"), {"ack"}) = Count(frames, {"ack"}) + 0
      /\ Count(Append(frames, "boundary"), {"ack"}) = Count(frames, {"ack"}) + 0
  BY <1>1, AcksAppended
<1>4. /\ Append(Append(frames, "boundary"), "result") \in Seq(Frames)
      /\ Count(Append(Append(frames, "boundary"), "result"), {"ack"})
           = Count(Append(frames, "boundary"), {"ack"}) + 0
  BY <1>1, <1>3, AcksAppended
<1>5. frames' \in Seq(Frames) /\ Count(frames', {"ack"}) = Count(frames, {"ack"})
  <2>1. CASE frames' = Append(frames, "result")
    BY <2>1, <1>3
  <2>2. CASE frames' = Append(Append(frames, "boundary"), "result")
    BY <2>2, <1>3, <1>4
  <2> QED
    BY <1>2, <2>1, <2>2
<1>6. AckInv'
  BY <1>5 DEF AckInv, EndTurn
<1> QED
  BY <1>5, <1>6 DEF EndTurn, TypeOK, backend, stack, memory, browser

\* The socket's handler takes the head of the frames.
LEMMA TakenFrame ==
  ASSUME TypeOK, NEW frame \in Frames, TakeFrame(frame)
  PROVE  /\ frames' \in Seq(Frames)
         /\ Count(frames', {"ack"}) = Count(frames, {"ack"}) - (IF frame = "ack" THEN 1 ELSE 0)
<1>1. frames \in Seq(Frames) /\ frames # <<>> /\ Head(frames) = frame /\ frames' = Tail(frames)
  BY DEF TypeOK, TakeFrame
<1>2. frames' \in Seq(Frames)
  BY <1>1
<1>3. Count(Tail(frames), {"ack"})
        = Count(frames, {"ack"}) - (IF Head(frames) \in {"ack"} THEN 1 ELSE 0)
  BY <1>1, CountTail
<1> QED
  BY <1>1, <1>2, <1>3

\* What travels between backend and proxy keeps the types.
LEMMA SocketType ==
  ASSUME TypeOK, AckInv, Socket
  PROVE  TypeOK' /\ AckInv'
<1> USE DEF Frames
<1>1. CASE HandleAck
  <2>1. TakeFrame("ack")
    BY <1>1 DEF HandleAck
  <2>2. frames' \in Seq(Frames) /\ Count(frames', {"ack"}) = Count(frames, {"ack"}) - 1
    BY <2>1, TakenFrame
  <2>3. Count(frames, {"ack"}) \in Nat /\ Count(frames, {"ack"}) > 0
    <3>1. frames \in Seq(Frames) /\ frames # <<>> /\ Head(frames) = "ack"
      BY <2>1 DEF TypeOK, TakeFrame
    <3>2. 1 \in 1..Len(frames) /\ frames[1] \in {"ack"}
      BY <3>1
    <3> QED
      BY <3>1, <3>2, CountPositive, CountType
  <2>4. taken \in Nat /\ taken > 0 /\ taken' = taken - 1
    BY <1>1, <2>3 DEF AckInv, HandleAck
  <2>5. rows' \in Seq(0..N) /\ Len(rows') = Len(rows) - 1
    BY <1>1, <2>4 DEF HandleAck, Unacknowledged, TypeOK
  <2>6. taken' \in 0..Len(rows')
    BY <2>4, <2>5 DEF TypeOK
  <2>7. patches' \subseteq Patches
    BY <1>1 DEF HandleAck, BrowserSeesAccepted, TypeOK, Patches, Items, None
  <2>8. AckInv'
    BY <2>2, <2>4 DEF AckInv
  <2> QED
    BY <1>1, <2>2, <2>5, <2>6, <2>7, <2>8 DEF HandleAck, TypeOK, stack, memory
<1>2. CASE HandleBusy
  <2>1. frames' \in Seq(Frames) /\ Count(frames', {"ack"}) = Count(frames, {"ack"}) - 0
    BY <1>2, TakenFrame DEF HandleBusy
  <2>2. AckInv'
    BY <1>2, <2>1, CountType DEF AckInv, HandleBusy, agent, TypeOK
  <2> QED
    BY <1>2, <2>1, <2>2 DEF HandleBusy, TypeOK, stack, memory, agent, browser
<1>3. CASE HandleBoundary
  <2>1. frames' \in Seq(Frames) /\ Count(frames', {"ack"}) = Count(frames, {"ack"}) - 0
    BY <1>3, TakenFrame DEF HandleBoundary
  <2>2. AckInv'
    BY <1>3, <2>1, CountType DEF AckInv, HandleBoundary, agent, TypeOK
  <2> QED
    BY <1>3, <2>1, <2>2 DEF HandleBoundary, TypeOK, stack, memory, agent, browser, Phases
<1>4. CASE HandleResult
  <2>1. frames' \in Seq(Frames) /\ Count(frames', {"ack"}) = Count(frames, {"ack"}) - 0
    BY <1>4, TakenFrame DEF HandleResult
  <2>2. AckInv'
    BY <1>4, <2>1, CountType DEF AckInv, HandleResult, agent, TypeOK
  <2>3. patches' \subseteq Patches /\ held' \in 0..N
    BY <1>4, NAssumption DEF HandleResult, BrowserSeesResult, TypeOK, Patches, Items, None
  <2>4. /\ phase' \in Phases /\ signal' \in {"idle", "busy"} /\ timer' \in BOOLEAN
        /\ at' \in [Dispatchers -> Places]
        /\ spent' \in [requests : 0..MaxRequests, faults : 0..MaxFaults]
    <3>1. phase' \in Phases
      BY <1>4 DEF HandleResult, OnTurnEnd, TypeOK, Phases
    <3>2. spent' \in [requests : 0..MaxRequests, faults : 0..MaxFaults]
      BY <1>4, SpentType DEF HandleResult, TypeOK
    <3>3. signal' \in {"idle", "busy"} /\ at' \in [Dispatchers -> Places]
      BY <1>4 DEF HandleResult, Goto, TypeOK, Places
    <3>4. timer' \in BOOLEAN
      BY <1>4 DEF HandleResult, TypeOK
    <3> QED
      BY <3>1, <3>2, <3>3, <3>4
  <2> QED
    BY <1>4, <2>1, <2>2, <2>3, <2>4 DEF HandleResult, TypeOK, stack, memory, agent
<1> QED
  BY <1>1, <1>2, <1>3, <1>4 DEF Socket

\* The steps of one dispatcher keep the types.
LEMMA DispatchType ==
  ASSUME TypeOK, AckInv, NEW d \in Dispatchers, Dispatch(d)
  PROVE  TypeOK' /\ AckInv'
<1> USE NAssumption DEF TypeOK, stack, agent, browser, Done, Goto, Places
<1>1. CASE NothingToSend(d)
  BY <1>1 DEF NothingToSend, None, AckInv
<1>2. CASE Hold(d)
  BY <1>2 DEF Hold, None, AckInv
<1>3. CASE Proceed(d)
  <2>1. Min(Pending) \in 0..N
    BY <1>3, PicksPending, NAssumption DEF Proceed, Finds, Pending, Items
  <2> QED
    BY <1>3, <2>1 DEF Proceed, Phases, AckInv
<1>4. CASE RequestCompaction(d)
  <2>1. rows' \in Seq(0..N) /\ Len(rows') = Len(rows) + 1
    BY <1>4, NAssumption DEF RequestCompaction, Enqueued, None
  <2>2. taken' \in 0..Len(rows')
    BY <1>4, <2>1 DEF RequestCompaction
  <2> QED
    BY <1>4, <2>1, <2>2 DEF RequestCompaction, Enqueued, None, Phases, AckInv
<1>5. CASE Claim(d)
  <2>1. at' \in [Dispatchers -> Places] /\ beaten' \in BOOLEAN
    BY <1>5 DEF Claim
  <2>3. picked' \in [Dispatchers -> 0..N]
    BY <1>5 DEF Claim, None
  <2>2. status' \in [Items -> Statuses]
    BY <1>5 DEF Claim, Statuses
  <2> QED
    BY <1>5, <2>1, <2>2, <2>3 DEF Claim, AckInv
<1>6. CASE SendItem(d)
  <2>1. rows' \in Seq(0..N) /\ Len(rows') = Len(rows) + 1
    BY <1>6, NAssumption DEF SendItem, Enqueued, None
  <2>2. taken' \in 0..Len(rows')
    BY <1>6, <2>1 DEF SendItem
  <2>3. sends' \in [Items -> Nat]
    <3>1. ASSUME NEW i \in Items PROVE sends[i] + 1 \in Nat /\ sends[i] \in Nat
      BY <3>1
    <3> QED
      BY <1>6, <3>1 DEF SendItem
  <2> QED
    BY <1>6, <2>1, <2>2, <2>3 DEF SendItem, Enqueued, None, AckInv
<1> QED
  BY <1>1, <1>2, <1>3, <1>4, <1>5, <1>6 DEF Dispatch

\* What users do keeps the types.
LEMMA UsersType ==
  ASSUME TypeOK, AckInv, Users
  PROVE  TypeOK' /\ AckInv'
<1> USE NAssumption DEF TypeOK
<1>1. CASE UserPrompts
  <2>1. rows' \in Seq(0..N) /\ Len(rows') = Len(rows) + 1
    BY <1>1 DEF UserPrompts, Enqueued, None
  <2>2. taken' \in 0..Len(rows')
    BY <1>1, <2>1 DEF UserPrompts, agent
  <2>3. spent' \in [requests : 0..MaxRequests, faults : 0..MaxFaults]
    BY <1>1, SpentType DEF UserPrompts
  <2> QED
    BY <1>1, <2>1, <2>2, <2>3 DEF UserPrompts, Enqueued, AckInv, stack, agent, browser
<1>2. ASSUME NEW i \in Items, Create(i)
      PROVE  TypeOK' /\ AckInv'
  BY <1>2 DEF Create, Statuses, Goto, Places, agent, browser, AckInv
<1>3. ASSUME NEW i \in Items, Dismiss(i)
      PROVE  TypeOK' /\ AckInv'
  <2>1. spent' \in [requests : 0..MaxRequests, faults : 0..MaxFaults]
    BY <1>3, SpentType DEF Dismiss
  <2>2. held' \in 0..N /\ status' \in [Items -> Statuses]
    BY <1>3 DEF Dismiss, Statuses, None
  <2> QED
    BY <1>3, <2>1, <2>2 DEF Dismiss, memory, agent, AckInv
<1> QED
  BY <1>1, <1>2, <1>3 DEF Users

\* What the browsers do keeps the types.
LEMMA BrowserType ==
  ASSUME TypeOK, AckInv, Browser
  PROVE  TypeOK' /\ AckInv'
<1> USE NAssumption DEF TypeOK
<1>1. CASE HandlePatch
  <2>1. PICK p \in patches :
          /\ patches' = patches \ {p}
          /\ status' = IF p.to = "finished" \/ MaySend(status[p.of])
                       THEN [status EXCEPT ![p.of] = p.to] ELSE status
    BY <1>1 DEF HandlePatch
  <2>2. p.to \in Statuses
    BY DEF Patches, Statuses
  <2> QED
    BY <1>1, <2>1, <2>2 DEF HandlePatch, memory, agent, AckInv
<1>2. ASSUME NEW i \in Items, BrowserSends(i)
      PROVE  TypeOK' /\ AckInv'
  <2>1. rows' \in Seq(0..N) /\ Len(rows') = Len(rows) + 1
    BY <1>2 DEF BrowserSends, Enqueued, Items
  <2>2. taken' \in 0..Len(rows')
    BY <1>2, <2>1 DEF BrowserSends, agent
  <2>3. spent' \in [requests : 0..MaxRequests, faults : 0..MaxFaults]
    BY <1>2, SpentType DEF BrowserSends
  <2>4. held' \in 0..N
    BY <1>2 DEF BrowserSends, Items
  <2> QED
    BY <1>2, <2>1, <2>2, <2>3, <2>4 DEF BrowserSends, Enqueued, AckInv, stack, agent
<1> QED
  BY <1>1, <1>2 DEF Browser

\* Timeouts and restarts keep the types.
LEMMA RestartType ==
  ASSUME TypeOK, AckInv, ReminderTimesOut \/ BackendRestarts \/ ProxyDies
  PROVE  TypeOK' /\ AckInv'
<1> USE NAssumption DEF TypeOK
<1>1. CASE ReminderTimesOut
  BY <1>1 DEF ReminderTimesOut, Phases, Goto, Places, stack, agent, browser, AckInv
<1>2. CASE BackendRestarts
  <2>1. spent' \in [requests : 0..MaxRequests, faults : 0..MaxFaults]
    BY <1>2, SpentType DEF BackendRestarts
  <2>2. active' \in BOOLEAN
    BY <1>2, Zenon DEF BackendRestarts
  <2>3. at' \in [Dispatchers -> Places]
    BY <1>2 DEF BackendRestarts, Places
  <2>4. picked' \in [Dispatchers -> 0..N]
    BY <1>2 DEF BackendRestarts, None
  <2>5. phase' \in Phases /\ timer' \in BOOLEAN
    BY <1>2 DEF BackendRestarts, Phases
  <2> QED
    BY <1>2, <2>1, <2>2, <2>3, <2>4, <2>5 DEF BackendRestarts, stack, agent, browser, AckInv
<1>3. CASE ProxyDies
  <2>1. spent' \in [requests : 0..MaxRequests, faults : 0..MaxFaults]
    BY <1>3, SpentType DEF ProxyDies
  <2>2. taken' \in 0..Len(rows') /\ frames' \in Seq(Frames)
    BY <1>3 DEF ProxyDies
  <2>3. AckInv'
    BY <1>3, CountEmpty DEF ProxyDies, AckInv
  <2> QED
    BY <1>3, <2>1, <2>2, <2>3 DEF ProxyDies, stack, browser
<1> QED
  BY <1>1, <1>2, <1>3

\* Every row the agent has accepted is acknowledged once, so the row a
\* deletion takes is there, and what the dispatchers pick is an item.
THEOREM EditStackTypeOK == Spec => []TypeOK
<1>1. Init => TypeOK /\ AckInv
  <2> SUFFICES ASSUME Init PROVE TypeOK /\ AckInv
    OBVIOUS
  <2>1. AckInv
    BY CountEmpty DEF Init, AckInv
  <2>2. TypeOK
    <3> USE NAssumption, BoundsAssumption DEF Init
    <3>1. /\ status \in [Items -> Statuses] /\ sends \in [Items -> Nat] /\ beaten \in BOOLEAN
      BY DEF Statuses
    <3>5. /\ rows \in Seq(0..N) /\ frames \in Seq(Frames) /\ taken \in 0..Len(rows)
      OBVIOUS
    <3>2. /\ turn \in BOOLEAN /\ active \in BOOLEAN /\ full \in BOOLEAN
          /\ signal \in {"idle", "busy"} /\ phase \in Phases /\ timer \in BOOLEAN
      BY DEF Phases
    <3>3. /\ at \in [Dispatchers -> Places] /\ picked \in [Dispatchers -> 0..N]
          /\ held \in 0..N /\ patches \subseteq Patches
      BY DEF Places, None
    <3>4. spent \in [requests : 0..MaxRequests, faults : 0..MaxFaults]
      OBVIOUS
    <3> QED
      BY <3>1, <3>2, <3>3, <3>4, <3>5 DEF TypeOK
  <2> QED
    BY <2>1, <2>2
<1>2. TypeOK /\ AckInv /\ [Next]_vars => TypeOK' /\ AckInv'
  <2> SUFFICES ASSUME TypeOK, AckInv, [Next]_vars PROVE TypeOK' /\ AckInv'
    OBVIOUS
  <2>1. CASE UNCHANGED vars
    BY <2>1 DEF vars, backend, stack, memory, agent, browser, TypeOK, AckInv
  <2>2. CASE Next
    BY <2>2, DispatchType, UsersType, AcceptType, EndTurnType, SocketType, BrowserType,
       RestartType DEF Next, Agent
  <2> QED
    BY <2>1, <2>2
<1> QED
  BY <1>1, <1>2, PTL DEF Spec

-----------------------------------------------------------------------------
(* An item is sent once                                                      *)

\* A dispatcher that is past its claim owns the item: it is no longer pending,
\* has not been sent by the backend, and no other dispatcher holds it.  Nothing
\* becomes pending again.
Owns(d, i) == at[d] = "enqueue" /\ picked[d] = i
SendsInv ==
  /\ \A i \in Items : sends[i] <= (IF status[i] \in {"new", "pending"} THEN 0 ELSE 1)
  /\ \A d \in Dispatchers : at[d] \in {"claim", "enqueue"} => picked[d] \in Items
  /\ \A d \in Dispatchers, i \in Items :
       Owns(d, i) => sends[i] = 0 /\ status[i] \in {"sent", "finished"}
  /\ \A d, e \in Dispatchers, i \in Items : Owns(d, i) /\ Owns(e, i) => d = e

Over == {"sent", "finished"}

\* A step that neither claims nor sends: dispatchers may only return or set out,
\* and no item that is over comes back.
LEMMA QuietStep ==
  ASSUME TypeOK, SendsInv, TypeOK', sends' = sends,
         \A d \in Dispatchers : at'[d] \in {"claim", "enqueue"} =>
                                  at'[d] = at[d] /\ picked'[d] = picked[d],
         \A i \in Items : status[i] \in Over => status'[i] \in Over
  PROVE  SendsInv'
<1>1. \A d \in Dispatchers, i \in Items : Owns(d, i)' => Owns(d, i)
  BY DEF Owns
<1>2. \A i \in Items : sends'[i] <= (IF status'[i] \in {"new", "pending"} THEN 0 ELSE 1)
  <2> TAKE i \in Items
  <2>1. sends[i] \in Nat /\ status[i] \in Statuses /\ status'[i] \in Statuses
    BY DEF TypeOK
  <2>2. sends[i] <= (IF status[i] \in {"new", "pending"} THEN 0 ELSE 1)
    BY DEF SendsInv
  <2>3. status'[i] \in {"new", "pending"} => status[i] \in {"new", "pending"}
    BY <2>1 DEF Statuses, Over
  <2> QED
    BY <2>1, <2>2, <2>3
<1>3. \A d \in Dispatchers : at'[d] \in {"claim", "enqueue"} => picked'[d] \in Items
  BY DEF SendsInv
<1>4. \A d \in Dispatchers, i \in Items :
        Owns(d, i)' => sends'[i] = 0 /\ status'[i] \in {"sent", "finished"}
  BY <1>1 DEF SendsInv, Over
<1>5. \A d, e \in Dispatchers, i \in Items : Owns(d, i)' /\ Owns(e, i)' => d = e
  BY <1>1 DEF SendsInv
<1> QED
  BY <1>2, <1>3, <1>4, <1>5 DEF SendsInv

\* A dispatcher that goes on sends nothing yet.
LEMMA ProceedOnce ==
  ASSUME TypeOK, SendsInv, TypeOK', NEW d \in Dispatchers, Proceed(d)
  PROVE  SendsInv'
<1>1. /\ at' = [at EXCEPT ![d] = "claim"] /\ picked' = [picked EXCEPT ![d] = Min(Pending)]
      /\ UNCHANGED <<status, sends>>
  BY DEF Proceed, stack
<1>2. Min(Pending) \in Items
  BY PicksPending DEF Proceed, Finds, Pending
<1>3. \A e \in Dispatchers, i \in Items : Owns(e, i)' => Owns(e, i)
  BY <1>1 DEF Owns, TypeOK
<1>4. \A e \in Dispatchers : at'[e] \in {"claim", "enqueue"} => picked'[e] \in Items
  BY <1>1, <1>2 DEF SendsInv, TypeOK
<1> QED
  BY <1>1, <1>3, <1>4 DEF SendsInv

\* A claim that succeeds finds the item pending, so nobody owned it before.
LEMMA ClaimOnce ==
  ASSUME TypeOK, SendsInv, TypeOK', NEW d \in Dispatchers, Claim(d)
  PROVE  SendsInv'
<1>1. CASE ~Claims(picked[d])
  <2>1. /\ at' = [at EXCEPT ![d] = "idle"] /\ picked' = [picked EXCEPT ![d] = None]
        /\ UNCHANGED <<status, sends>>
    BY <1>1 DEF Claim, Done, Goto
  <2> QED
    BY <2>1, QuietStep DEF TypeOK
<1>2. CASE Claims(picked[d])
  <2> DEFINE p == picked[d]
  <2>1. /\ at[d] = "claim" /\ at' = [at EXCEPT ![d] = "enqueue"] /\ picked' = picked
        /\ status' = [status EXCEPT ![p] = "sent"] /\ sends' = sends
    BY <1>2 DEF Claim, Goto
  <2>2. p \in Items /\ status[p] = "pending"
    BY <1>2, <2>1 DEF SendsInv, Claims
  <2>3. sends[p] = 0 /\ \A e \in Dispatchers : ~Owns(e, p)
    <3>1. sends[p] <= 0 /\ sends[p] \in Nat
      BY <2>2 DEF SendsInv, TypeOK
    <3>2. \A e \in Dispatchers : ~Owns(e, p)
      BY <2>2 DEF SendsInv
    <3> QED
      BY <3>1, <3>2
  <2>4. \A e \in Dispatchers, i \in Items :
          Owns(e, i)' => (IF e = d THEN i = p ELSE i # p /\ Owns(e, i))
    BY <2>1, <2>3 DEF Owns, TypeOK
  <2>5. \A i \in Items : i # p => status'[i] = status[i]
    BY <2>1 DEF TypeOK
  <2>6. status'[p] = "sent"
    BY <2>1, <2>2 DEF TypeOK
  <2>7. \A i \in Items : sends'[i] <= (IF status'[i] \in {"new", "pending"} THEN 0 ELSE 1)
    BY <2>1, <2>3, <2>5, <2>6 DEF SendsInv
  <2>8. \A e \in Dispatchers : at'[e] \in {"claim", "enqueue"} => picked'[e] \in Items
    BY <2>1, <2>2 DEF SendsInv, TypeOK
  <2>9. \A e \in Dispatchers, i \in Items :
          Owns(e, i)' => sends'[i] = 0 /\ status'[i] \in {"sent", "finished"}
    BY <2>1, <2>3, <2>4, <2>5, <2>6 DEF SendsInv
  <2>10. \A e, f \in Dispatchers, i \in Items : Owns(e, i)' /\ Owns(f, i)' => e = f
    BY <2>4 DEF SendsInv
  <2> QED
    BY <2>7, <2>8, <2>9, <2>10 DEF SendsInv
<1> QED
  BY <1>1, <1>2

\* A send is of the item the dispatcher holds, whose mark it has set.
LEMMA SendOnce ==
  ASSUME TypeOK, SendsInv, TypeOK', NEW d \in Dispatchers, SendItem(d)
  PROVE  SendsInv'
<1> DEFINE p == picked[d]
<1>1. /\ at[d] = "enqueue" /\ at' = [at EXCEPT ![d] = "idle"]
      /\ picked' = [picked EXCEPT ![d] = None]
      /\ sends' = [sends EXCEPT ![p] = @ + 1] /\ status' = status
  BY DEF SendItem, Done, Goto
<1>2. p \in Items /\ Owns(d, p)
  BY <1>1 DEF SendsInv, Owns
<1>3. sends[p] = 0 /\ status[p] \in Over /\ \A e \in Dispatchers : Owns(e, p) => e = d
  BY <1>2 DEF SendsInv, Over
<1>4. \A e \in Dispatchers, i \in Items : Owns(e, i)' => i # p /\ Owns(e, i)
  BY <1>1, <1>3 DEF Owns, TypeOK
<1>5. \A i \in Items : sends'[i] = (IF i = p THEN 1 ELSE sends[i])
  BY <1>1, <1>3 DEF TypeOK
<1>6. \A i \in Items : sends'[i] <= (IF status'[i] \in {"new", "pending"} THEN 0 ELSE 1)
  BY <1>1, <1>3, <1>5 DEF SendsInv, Over
<1>7. \A e \in Dispatchers : at'[e] \in {"claim", "enqueue"} => picked'[e] \in Items
  BY <1>1 DEF SendsInv, TypeOK
<1>8. \A e \in Dispatchers, i \in Items :
        Owns(e, i)' => sends'[i] = 0 /\ status'[i] \in {"sent", "finished"}
  BY <1>1, <1>4, <1>5 DEF SendsInv
<1>9. \A e, f \in Dispatchers, i \in Items : Owns(e, i)' /\ Owns(f, i)' => e = f
  BY <1>4 DEF SendsInv
<1> QED
  BY <1>6, <1>7, <1>8, <1>9 DEF SendsInv

\* No step of any actor sends an item twice.
LEMMA SendsInductive ==
  ASSUME TypeOK, SendsInv, TypeOK', [Next]_vars
  PROVE  SendsInv'
<1> USE DEF stack, memory, backend, agent, browser
<1>1. ASSUME NEW d \in Dispatchers, NothingToSend(d) \/ Hold(d) \/ RequestCompaction(d)
      PROVE  SendsInv'
  <2>1. /\ at' = [at EXCEPT ![d] = "idle"] /\ picked' = [picked EXCEPT ![d] = None]
        /\ UNCHANGED <<status, sends>>
    BY <1>1 DEF NothingToSend, Hold, RequestCompaction, Done, Goto
  <2> QED
    BY <2>1, QuietStep DEF TypeOK
<1>2. ASSUME NEW i \in Items, Create(i) \/ Dismiss(i)
      PROVE  SendsInv'
  <2>1. /\ UNCHANGED <<sends, picked>>
        /\ \/ at' = at
           \/ at' = [at EXCEPT !["post"] = "look"]
    BY <1>2 DEF Create, Dismiss, Goto
  <2>2. \A d \in Dispatchers : at'[d] \in {"claim", "enqueue"} =>
                                  at'[d] = at[d] /\ picked'[d] = picked[d]
    BY <2>1 DEF TypeOK
  <2>3. \A j \in Items : status[j] \in Over => status'[j] \in Over
    BY <1>2 DEF Create, Dismiss, IsNext, Over, TypeOK
  <2> QED
    BY <2>1, <2>2, <2>3, QuietStep
<1>3. CASE HandlePatch
  <2>1. UNCHANGED <<sends, at, picked>>
    BY <1>3 DEF HandlePatch
  <2>2. \A j \in Items : status[j] \in Over => status'[j] \in Over
    BY <1>3 DEF HandlePatch, Over, TypeOK, Patches
  <2> QED
    BY <2>1, <2>2, QuietStep
<1>4. CASE HandleResult \/ ReminderTimesOut
  <2>1. /\ UNCHANGED <<status, sends, picked>>
        /\ \/ at' = at
           \/ \E d \in Dispatchers : at' = [at EXCEPT ![d] = "look"]
    BY <1>4 DEF HandleResult, ReminderTimesOut, Goto, Dispatchers
  <2>2. \A d \in Dispatchers : at'[d] \in {"claim", "enqueue"} =>
                                  at'[d] = at[d] /\ picked'[d] = picked[d]
    BY <2>1 DEF TypeOK
  <2> QED
    BY <2>1, <2>2, QuietStep
<1>5. CASE BackendRestarts
  BY <1>5, QuietStep DEF BackendRestarts
<1>6. CASE UNCHANGED <<status, sends, at, picked>>
  BY <1>6, QuietStep
<1>7. CASE \/ UserPrompts \/ Accept \/ EndTurn \/ HandleAck \/ HandleBusy \/ HandleBoundary
           \/ ProxyDies \/ UNCHANGED vars
  BY <1>6, <1>7 DEF UserPrompts, Accept, EndTurn, HandleAck, HandleBusy, HandleBoundary,
     ProxyDies, vars
<1>8. ASSUME NEW i \in Items, BrowserSends(i)
      PROVE  SendsInv'
  BY <1>6, <1>8 DEF BrowserSends
<1> QED
  BY <1>1, <1>2, <1>3, <1>4, <1>5, <1>7, <1>8, ProceedOnce, ClaimOnce, SendOnce
     DEF Next, Dispatch, Users, Agent, Socket, Browser

\* However the end of a turn, a forwarded POST and the reminder's timeout
\* interleave, and across restarts: the claim takes an item only while it is
\* pending, and nothing becomes pending twice.
THEOREM BackendSendsItemOnce == Spec => []BackendSendsOnce
<1>1. Init => SendsInv
  <2> SUFFICES ASSUME Init PROVE SendsInv
    OBVIOUS
  <2>1. \A d \in Dispatchers : at[d] = "idle"
    BY DEF Init
  <2>2. \A i \in Items : sends[i] = 0 /\ status[i] = "new"
    BY DEF Init
  <2> QED
    BY <2>1, <2>2 DEF SendsInv, Owns
<1>2. TypeOK /\ TypeOK' /\ SendsInv /\ [Next]_vars => SendsInv'
  BY SendsInductive
<1>3. TypeOK /\ SendsInv => BackendSendsOnce
  <2> SUFFICES ASSUME TypeOK, SendsInv, NEW i \in Items PROVE sends[i] <= 1
    BY DEF BackendSendsOnce
  <2> QED
    BY DEF SendsInv, TypeOK
<1> QED
  BY <1>1, <1>2, <1>3, EditStackTypeOK, PTL DEF Spec

-----------------------------------------------------------------------------
(* A finished item stays finished                                            *)

\* No step takes a finished item's status away.
LEMMA FinishedStep ==
  ASSUME TypeOK, [Next]_vars, NEW i \in Items, status[i] = "finished"
  PROVE  status'[i] = "finished"
<1> USE DEF stack, memory, backend, agent, browser
<1>1. ASSUME NEW d \in Dispatchers, Claim(d) PROVE status'[i] = "finished"
  BY <1>1 DEF Claim, Claims, TypeOK
<1>2. ASSUME NEW j \in Items, Create(j) \/ Dismiss(j) PROVE status'[i] = "finished"
  BY <1>2 DEF Create, Dismiss, IsNext, TypeOK
<1>3. CASE HandlePatch
  BY <1>3 DEF HandlePatch, MaySend, TypeOK, Patches
<1>4. CASE UNCHANGED status
  BY <1>4
<1>5. ASSUME NEW d \in Dispatchers,
             NothingToSend(d) \/ Hold(d) \/ Proceed(d) \/ RequestCompaction(d) \/ SendItem(d)
      PROVE  status'[i] = "finished"
  BY <1>4, <1>5 DEF NothingToSend, Hold, Proceed, RequestCompaction, SendItem
<1>6. ASSUME NEW j \in Items, BrowserSends(j) PROVE status'[i] = "finished"
  BY <1>4, <1>6 DEF BrowserSends
<1>7. CASE \/ UserPrompts \/ Agent \/ Socket \/ ReminderTimesOut \/ BackendRestarts
           \/ ProxyDies \/ UNCHANGED vars
  BY <1>4, <1>7 DEF UserPrompts, Agent, Accept, EndTurn, Socket, HandleAck, HandleBusy,
     HandleBoundary, HandleResult, ReminderTimesOut, BackendRestarts, ProxyDies, vars
<1> QED
  BY <1>1, <1>2, <1>3, <1>5, <1>6, <1>7 DEF Next, Dispatch, Users, Browser

\* An item completed or dismissed is not sent again, by a dispatcher that had
\* read it as pending or by a PATCH that arrives late.
THEOREM FinishedItemStays == Spec => FinishedStays
<1>1. TypeOK /\ [Next]_vars
        => \A i \in Items : status[i] = "finished" => status'[i] = "finished"
  BY FinishedStep
<1> QED
  BY <1>1, EditStackTypeOK, PTL DEF Spec, FinishedStays
=============================================================================
