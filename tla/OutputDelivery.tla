--------------------------- MODULE OutputDelivery ---------------------------
(***************************************************************************)
(* Delivery of agent output from a proxy to the backend's transcript.      *)
(*                                                                         *)
(* Proxy side: PendingOutputBuffer (session-lib/src/output_buffer.rs), the *)
(* reconnect loop that replays it (claude-session-lib supervisor.rs), and  *)
(* the two tasks that push to it and then send: the output forwarder and   *)
(* the main loop.  Backend side: handle_agent_output and the in-memory     *)
(* last_ack.  Its duplicate test, its insert and the recording of the      *)
(* number are three steps, because the handlers of an old and of a new     *)
(* connection of one session run in parallel.                              *)
(*                                                                         *)
(* Abstractions.  An output is its position in the agent's event order; a  *)
(* frame is that output with the sequence number push gave it.  A          *)
(* connection is numbered; its two directions are FIFO until an end        *)
(* closes.  Registration is one step (what it discards concerns the        *)
(* input direction).  Broadcast to browsers, media and git refreshes are   *)
(* left out.  Time is left out: a back-off is only a later Connect.        *)
(***************************************************************************)
EXTENDS Naturals, Sequences, FiniteSets

CONSTANTS
    MaxOutputs,        \* bound: outputs the agent and the portal produce
    MaxConns,          \* bound: successful connections of the session
    MaxFaults,         \* bound: backend restarts, relaunches of the proxy and
                       \* kinds of accident, together
    BufferCap,         \* MAX_MEMORY_MESSAGES
    MaxReplayFailures  \* MAX_REPLAY_FAILURES

ASSUME OutputBounds ==
    /\ MaxOutputs \in Nat /\ MaxConns \in Nat /\ MaxFaults \in Nat
    /\ BufferCap \in Nat \ {0} /\ MaxReplayFailures \in Nat \ {0}

Outputs == 1 .. MaxOutputs
Conns == 1 .. MaxConns
Frames == [seq : Nat, id : Outputs]
BufferState == [next : Nat, lastAck : Nat, pending : SUBSET Frames]
Phases == {"down", "replaying", "announcing", "looping"}
AccidentKinds == {"proxy crash", "insert failed", "inline notice"}

VARIABLES
    claude,       \* the agent's outputs take the forwarder, not the main loop
    buffer,       \* PendingOutputBuffer.state
    disk,         \* the persisted copy of it
    emitted,      \* outputs the connection's main loop has taken so far
    queue,        \* output_tx: taken, not yet given a sequence number
    forwarding,   \* at most one frame: pushed by the forwarder, not yet sent
    inlining,     \* at most one frame: pushed by the main loop, not yet sent
    firstConnection, replayFailures,
    conn, phase,  \* the proxy's current connection (0: none) and its stage
    replayed,     \* frames of `pending' this connection has replayed
    opened,       \* connections opened so far
    live,         \* connections whose backend handler is running
    wire,         \* per connection: frames sent and not yet handled
    handling,     \* per connection: at most one frame past the duplicate test
    recording,    \* per connection: at most one frame past the insert, its
                  \* number not yet recorded
    acks,         \* per connection: OutputAcks on their way to the proxy
    backendAck,   \* SessionManager.last_ack_seq of the session
    transcript,   \* rows of the messages table, in insertion order
    restarts, relaunches, accidents,
    pushed,       \* history: every frame the buffer ever numbered
    dropped       \* history: outputs the proxy gave up on (overflow, clear,
                  \* output_tx aborted, memory lost in a crash)

proxyVars == <<buffer, disk, emitted, queue, forwarding, inlining,
               firstConnection, replayFailures, conn, phase, replayed>>
netVars == <<opened, live, wire, acks>>
backendVars == <<handling, recording, backendAck, transcript>>
faultVars == <<restarts, relaunches, accidents>>
history == <<pushed, dropped>>
vars == <<claude, proxyVars, netVars, backendVars, faultVars, history>>

-----------------------------------------------------------------------------
(* PendingOutputBuffer *)

EmptyBuffer == [next |-> 0, lastAck |-> 0, pending |-> {}]

IsOldest(f, S) == f \in S /\ \A g \in S : f.seq <= g.seq

\* What push drops to get back under the limit.
Overflow(S) == {f \in S : Cardinality(S) > BufferCap /\ IsOldest(f, S)}

\* Mutant: outputs counted from one too many.
NewFrameShifted(id) == [seq |-> buffer.next, id |-> id + 1]

NewFrame(id) == [seq |-> buffer.next, id |-> id]

Push(id) ==
    LET grown == buffer.pending \cup {NewFrame(id)}
    IN  /\ buffer' = [next |-> buffer.next + 1,
                      lastAck |-> buffer.lastAck,
                      pending |-> grown \ Overflow(grown)]
        /\ dropped' = dropped \cup {f.id : f \in Overflow(grown)}
        /\ pushed' = pushed \cup {NewFrame(id)}

\* Mutant: the ack is taken for the first number not received.
AcknowledgedOneMore(b, ack) ==
    IF ack <= b.lastAck
    THEN b
    ELSE [next |-> b.next, lastAck |-> ack,
          pending |-> {f \in b.pending : f.seq > ack + 1}]

Acknowledged(b, ack) ==
    IF ack <= b.lastAck
    THEN b
    ELSE [next |-> b.next, lastAck |-> ack,
          pending |-> {f \in b.pending : f.seq > ack}]

\* Mutant: numbering resumes after the last acknowledged number.
ReloadedAtAck(b) ==
    [next |-> b.lastAck + 1, lastAck |-> b.lastAck, pending |-> {}]

\* A buffer read back from disk keeps only what its own ack does not cover.
Reloaded(b) ==
    [next |-> b.next, lastAck |-> b.lastAck,
     pending |-> {f \in b.pending : f.seq > b.lastAck}]

-----------------------------------------------------------------------------
(* The proxy's connection loop *)

Init ==
    /\ claude \in BOOLEAN
    /\ buffer = EmptyBuffer /\ disk = EmptyBuffer
    /\ emitted = 0 /\ queue = <<>> /\ forwarding = {} /\ inlining = {}
    /\ firstConnection = TRUE /\ replayFailures = 0
    /\ conn = 0 /\ phase = "down" /\ replayed = {}
    /\ opened = 0 /\ live = {}
    /\ wire = [c \in Conns |-> <<>>]
    /\ acks = [c \in Conns |-> <<>>]
    /\ handling = [c \in Conns |-> {}]
    /\ recording = [c \in Conns |-> {}]
    /\ backendAck = 0 /\ transcript = <<>>
    /\ restarts = 0 /\ relaunches = 0 /\ accidents = {}
    /\ pushed = {} /\ dropped = {}

\* conn.send: the frame reaches the handler only while that is running.
Transmit(f) ==
    wire' = IF conn \in live THEN [wire EXCEPT ![conn] = Append(@, f)] ELSE wire

\* run_single_connection, up to a successful registration.  After
\* MaxReplayFailures failed replays what is pending is dropped instead.
Connect ==
    /\ conn = 0 /\ opened < MaxConns
    /\ opened' = opened + 1
    /\ conn' = opened + 1
    /\ live' = live \cup {opened + 1}
    /\ replayed' = {}
    /\ phase' = "replaying"
    /\ IF buffer.pending # {} /\ replayFailures >= MaxReplayFailures
       THEN /\ buffer' = [next |-> buffer.next, lastAck |-> buffer.lastAck,
                          pending |-> {}]
            /\ dropped' = dropped \cup {f.id : f \in buffer.pending}
            /\ replayFailures' = 0
       ELSE UNCHANGED <<buffer, dropped, replayFailures>>
    /\ UNCHANGED <<claude, disk, emitted, queue, forwarding, inlining,
                   firstConnection, wire, acks, backendVars, faultVars, pushed>>

\* A first attempt that fails still uses up the announcement.
ConnectFails ==
    /\ conn = 0 /\ firstConnection
    /\ firstConnection' = FALSE
    /\ disk' = buffer
    /\ UNCHANGED <<claude, buffer, emitted, queue, forwarding, inlining,
                   replayFailures, conn, phase, replayed, netVars,
                   backendVars, faultVars, history>>

ReplayNext ==
    /\ phase = "replaying"
    /\ \E f \in buffer.pending :
          /\ IsOldest(f, buffer.pending \ replayed)
          /\ Transmit(f)
          /\ replayed' = replayed \cup {f}
    /\ UNCHANGED <<claude, buffer, disk, emitted, queue, forwarding, inlining,
                   firstConnection, replayFailures, conn, phase, opened, live,
                   acks, backendVars, faultVars, history>>

\* Mutant: the message loop does not wait for the replay.
ReplayNotAwaited == TRUE

ReplayComplete == buffer.pending \subseteq replayed

ReplayDone ==
    /\ phase = "replaying" /\ ReplayComplete
    /\ replayFailures' = IF buffer.pending = {} THEN replayFailures ELSE 0
    /\ phase' = IF firstConnection THEN "announcing" ELSE "looping"
    /\ UNCHANGED <<claude, buffer, disk, emitted, queue, forwarding, inlining,
                   firstConnection, conn, replayed, netVars, backendVars,
                   faultVars, history>>

\* "Session started": the message loop starts once this is sent.
Announce ==
    /\ phase = "announcing" /\ emitted < MaxOutputs
    /\ emitted' = emitted + 1
    /\ Push(emitted + 1)
    /\ inlining' = {NewFrame(emitted + 1)}
    /\ phase' = "looping"
    /\ UNCHANGED <<claude, disk, queue, forwarding, firstConnection,
                   replayFailures, conn, replayed, netVars, backendVars,
                   faultVars>>

\* The connection ends, for whatever reason the proxy notices: the tasks of
\* the connection are aborted with what output_tx still held, and the buffer is
\* persisted.
EndConnection ==
    /\ conn' = 0 /\ phase' = "down" /\ replayed' = {}
    /\ queue' = <<>> /\ forwarding' = {} /\ inlining' = {}
    /\ firstConnection' = FALSE
    /\ disk' = buffer
    /\ dropped' = dropped \cup {queue[i] : i \in DOMAIN queue}

\* Frames already sent may still be read by the backend, so it is only the
\* proxy's end that closes here.
MayLose(c) == c \notin live \/ opened < MaxConns

Disconnect ==
    /\ conn # 0 /\ phase = "looping" /\ MayLose(conn)
    /\ EndConnection
    /\ acks' = [acks EXCEPT ![conn] = <<>>]
    /\ UNCHANGED <<claude, buffer, emitted, replayFailures, opened, live, wire,
                   backendVars, faultVars, pushed>>

\* A send fails during the replay.
ReplayFails ==
    /\ phase = "replaying" /\ ~ReplayComplete /\ MayLose(conn)
    /\ replayFailures' = replayFailures + 1
    /\ EndConnection
    /\ acks' = [acks EXCEPT ![conn] = <<>>]
    /\ UNCHANGED <<claude, buffer, emitted, opened, live, wire, backendVars,
                   faultVars, pushed>>

FaultsLeft == restarts + relaunches + Cardinality(accidents) < MaxFaults

\* AgentExited or SessionTerminated, then the session is launched again: the
\* new process reads the file the old one persisted.
Relaunch ==
    /\ phase = "looping" /\ opened < MaxConns /\ emitted < MaxOutputs
    /\ FaultsLeft
    /\ relaunches' = relaunches + 1
    /\ conn' = 0 /\ phase' = "down" /\ replayed' = {}
    /\ queue' = <<>> /\ forwarding' = {} /\ inlining' = {}
    /\ disk' = buffer
    /\ buffer' = Reloaded(buffer)
    /\ firstConnection' = TRUE /\ replayFailures' = 0
    /\ dropped' = dropped \cup {queue[i] : i \in DOMAIN queue}
    /\ acks' = [acks EXCEPT ![conn] = <<>>]
    /\ UNCHANGED <<claude, emitted, opened, live, wire, backendVars, restarts,
                   accidents, pushed>>

Accident(kind) ==
    /\ kind \in accidents \/ FaultsLeft
    /\ accidents' = accidents \cup {kind}

\* The process is killed: what memory held and the file did not is gone, and
\* the new process numbers on from the file's next_seq.
ProxyCrash ==
    /\ "proxy crash" \notin accidents /\ Accident("proxy crash")
    /\ opened < MaxConns /\ emitted < MaxOutputs
    /\ buffer' = Reloaded(disk)
    /\ dropped' = dropped \cup {queue[i] : i \in DOMAIN queue}
                          \cup {f.id : f \in buffer.pending \ disk.pending}
    /\ conn' = 0 /\ phase' = "down" /\ replayed' = {}
    /\ queue' = <<>> /\ forwarding' = {} /\ inlining' = {}
    /\ firstConnection' = TRUE /\ replayFailures' = 0
    /\ acks' = [c \in Conns |-> <<>>]
    /\ UNCHANGED <<claude, disk, emitted, opened, live, wire, backendVars,
                   restarts, relaunches, pushed>>

-----------------------------------------------------------------------------
(* The message loop and the output forwarder *)

MainLoopReady == phase = "looping" /\ inlining = {}

\* A Claude output goes to the forwarder's channel.
TakeOutput ==
    /\ MainLoopReady /\ claude /\ emitted < MaxOutputs
    /\ emitted' = emitted + 1
    /\ queue' = Append(queue, emitted + 1)
    /\ UNCHANGED <<claude, buffer, disk, forwarding, inlining,
                   firstConnection, replayFailures, conn, phase, replayed,
                   netVars, backendVars, faultVars, history>>

\* The main loop numbers an output itself: every output of an agent that is
\* not Claude, and a portal notice or loop announcement of a Claude session.
PushInline ==
    /\ MainLoopReady /\ emitted < MaxOutputs
    /\ IF claude THEN Accident("inline notice") ELSE UNCHANGED accidents
    /\ emitted' = emitted + 1
    /\ Push(emitted + 1)
    /\ inlining' = {NewFrame(emitted + 1)}
    /\ UNCHANGED <<claude, disk, queue, forwarding, firstConnection,
                   replayFailures, conn, phase, replayed, netVars,
                   backendVars, restarts, relaunches>>

SendInline ==
    /\ \E f \in inlining : Transmit(f)
    /\ inlining' = {}
    /\ UNCHANGED <<claude, buffer, disk, emitted, queue, forwarding,
                   firstConnection, replayFailures, conn, phase, replayed,
                   opened, live, acks, backendVars, faultVars, history>>

ForwarderPush ==
    /\ phase = "looping" /\ forwarding = {} /\ queue # <<>>
    /\ Push(Head(queue))
    /\ forwarding' = {NewFrame(Head(queue))}
    /\ queue' = Tail(queue)
    /\ UNCHANGED <<claude, disk, emitted, inlining, firstConnection,
                   replayFailures, conn, phase, replayed, netVars,
                   backendVars, faultVars>>

ForwarderSend ==
    /\ \E f \in forwarding : Transmit(f)
    /\ forwarding' = {}
    /\ UNCHANGED <<claude, buffer, disk, emitted, queue, inlining,
                   firstConnection, replayFailures, conn, phase, replayed,
                   opened, live, acks, backendVars, faultVars, history>>

ReceiveAck ==
    /\ MainLoopReady /\ acks[conn] # <<>>
    /\ buffer' = Acknowledged(buffer, Head(acks[conn]))
    /\ disk' = buffer'
    /\ acks' = [acks EXCEPT ![conn] = Tail(@)]
    /\ UNCHANGED <<claude, emitted, queue, forwarding, inlining,
                   firstConnection, replayFailures, conn, phase, replayed,
                   opened, live, wire, backendVars, faultVars, history>>

-----------------------------------------------------------------------------
(* The backend: one handler per connection *)

\* OutputAck on the handler's own connection; nobody reads it once the proxy
\* has moved on.
SendAck(c, n) ==
    acks' = IF c = conn THEN [acks EXCEPT ![c] = Append(@, n)] ELSE acks

\* The duplicate test of handle_agent_output.
IsDuplicate(f) == f.seq <= backendAck

\* Mutant: a duplicate is dropped without a second ack.
DropDuplicate(c, f) == UNCHANGED acks

\* The first ack of a duplicate may have been lost with its connection.
AckDuplicate(c, f) == SendAck(c, f.seq)

TestFrame(c) ==
    /\ c \in live /\ handling[c] = {} /\ recording[c] = {} /\ wire[c] # <<>>
    /\ LET f == Head(wire[c])
       IN  \/ IsDuplicate(f) /\ AckDuplicate(c, f) /\ UNCHANGED handling
          \/ /\ ~IsDuplicate(f)
             /\ handling' = [handling EXCEPT ![c] = {f}]
             /\ UNCHANGED acks
    /\ wire' = [wire EXCEPT ![c] = Tail(@)]
    /\ UNCHANGED <<claude, proxyVars, opened, live, recording, backendAck,
                   transcript, faultVars, history>>

\* The insert, alone: attention, metadata and activity are written before the
\* number is recorded.
StoreFrame(c) ==
    /\ \E f \in handling[c] :
          /\ transcript' = Append(transcript, f)
          /\ recording' = [recording EXCEPT ![c] = {f}]
    /\ handling' = [handling EXCEPT ![c] = {}]
    /\ UNCHANGED <<claude, proxyVars, netVars, backendAck, faultVars, history>>

\* The insert fails and is only logged; or there is no database connection and
\* the frame is broadcast without being stored or acknowledged.
StoreFails(c) ==
    /\ Accident("insert failed")
    /\ \E f \in handling[c] :
          \/ recording' = [recording EXCEPT ![c] = {f}]
          \/ UNCHANGED recording
    /\ handling' = [handling EXCEPT ![c] = {}]
    /\ UNCHANGED <<claude, proxyVars, netVars, backendAck, transcript, restarts,
                   relaunches, history>>

\* Mutant: the last number recorded wins.
RecordAckLast(n) == backendAck' = n

RecordAck(n) == backendAck' = IF n > backendAck THEN n ELSE backendAck

\* record_ack_seq and the OutputAck.
RecordFrame(c) ==
    /\ \E f \in recording[c] : RecordAck(f.seq) /\ SendAck(c, f.seq)
    /\ recording' = [recording EXCEPT ![c] = {}]
    /\ UNCHANGED <<claude, proxyVars, opened, live, wire, handling, transcript,
                   faultVars, history>>

\* The handler sees the connection end, or the server evicts it; what it has
\* not read is lost.
HandlerEnds(c) ==
    /\ c \in live /\ handling[c] = {} /\ recording[c] = {}
    /\ c # conn \/ opened < MaxConns
    /\ live' = live \ {c}
    /\ wire' = [wire EXCEPT ![c] = <<>>]
    /\ UNCHANGED <<claude, proxyVars, opened, acks, backendVars, faultVars,
                   history>>

\* Every in-memory map starts empty again; the database stays.
BackendRestart ==
    /\ FaultsLeft /\ opened < MaxConns
    /\ restarts' = restarts + 1
    /\ live' = {}
    /\ wire' = [c \in Conns |-> <<>>]
    /\ handling' = [c \in Conns |-> {}]
    /\ recording' = [c \in Conns |-> {}]
    /\ backendAck' = 0
    /\ UNCHANGED <<claude, proxyVars, opened, acks, transcript, relaunches,
                   accidents, history>>

-----------------------------------------------------------------------------

ProxyStep ==
    \/ Connect \/ ConnectFails \/ ReplayNext \/ ReplayDone \/ Announce
    \/ Disconnect \/ ReplayFails \/ Relaunch \/ ProxyCrash
    \/ TakeOutput \/ PushInline \/ SendInline
    \/ ForwarderPush \/ ForwarderSend \/ ReceiveAck

BackendStep ==
    \/ \E c \in Conns :
          \/ TestFrame(c) \/ StoreFrame(c) \/ StoreFails(c) \/ RecordFrame(c)
          \/ HandlerEnds(c)
    \/ BackendRestart

Next == ProxyStep \/ BackendStep

Spec == Init /\ [][Next]_vars

\* The tasks of a running process are scheduled; the heartbeat watchdog ends a
\* connection whose other end is gone.
Fairness ==
    /\ WF_vars(Connect) /\ WF_vars(ReplayNext) /\ WF_vars(ReplayDone)
    /\ WF_vars(Announce) /\ WF_vars(SendInline) /\ WF_vars(ForwarderPush)
    /\ WF_vars(ForwarderSend) /\ WF_vars(ReceiveAck)
    /\ WF_vars(conn \notin live /\ Disconnect)
    /\ \A c \in Conns :
          WF_vars(TestFrame(c)) /\ WF_vars(StoreFrame(c)) /\ WF_vars(RecordFrame(c))

FairSpec == Spec /\ Fairness

-----------------------------------------------------------------------------
(* Properties *)

Stored == {transcript[i].id : i \in DOMAIN transcript}
Clean == accidents = {}

ProxyTypeOK ==
    /\ claude \in BOOLEAN
    /\ buffer \in BufferState /\ disk \in BufferState
    /\ emitted \in 0 .. MaxOutputs /\ queue \in Seq(Outputs)
    /\ forwarding \subseteq Frames /\ inlining \subseteq Frames
    /\ firstConnection \in BOOLEAN /\ replayFailures \in Nat
    /\ conn \in 0 .. MaxConns /\ phase \in Phases /\ replayed \subseteq Frames
    /\ phase # "down" => conn \in Conns

NetTypeOK ==
    /\ opened \in 0 .. MaxConns /\ live \subseteq Conns
    /\ wire \in [Conns -> Seq(Frames)] /\ acks \in [Conns -> Seq(Nat)]

BackendTypeOK ==
    /\ handling \in [Conns -> SUBSET Frames] /\ recording \in [Conns -> SUBSET Frames]
    /\ backendAck \in Nat /\ transcript \in Seq(Frames)

CountersTypeOK ==
    /\ restarts \in Nat /\ relaunches \in Nat
    /\ accidents \subseteq AccidentKinds
    /\ pushed \subseteq Frames /\ dropped \subseteq Outputs

\* The types of the state; a stage of a connection only while there is one.
TypeOK == ProxyTypeOK /\ NetTypeOK /\ BackendTypeOK /\ CountersTypeOK

\* "Messages are held until the backend acknowledges receipt": short of an
\* accident, an output that was given a sequence number is in the buffer, in
\* the transcript, or among those the proxy gave up on.  Number 0 is excepted:
\* see FirstOutputHeld.
HeldUntilStored ==
    Clean => \A f \in pushed :
                f.seq > 0 => f \in buffer.pending \/ f.id \in Stored \cup dropped

\* The same of every number, 0 included, which is what output_buffer.rs
\* promises.  last_ack starts at 0 on both sides, so 0 looks acknowledged.
FirstOutputHeld ==
    Clean => \A f \in pushed : f \in buffer.pending \/ f.id \in Stored \cup dropped

\* Short of an accident the transcript grows without holes: the numbers stored
\* form a DurableLog, number 0 counting as given up on.
Log == INSTANCE DurableLog WITH
    next <- buffer.next,
    kept <- {transcript[i].seq : i \in DOMAIN transcript},
    gone <- {0} \cup {f.seq : f \in {g \in pushed : g.id \in dropped}},
    sound <- Clean

LogSpec == Log!Spec

\* The duplicate test lets a stored frame pass only after a restart made the
\* backend forget last_ack, or while another connection's handler that has the
\* same frame has yet to record its number.
DuplicateTestSound ==
    [][\A c \in Conns : \A f \in handling'[c] \ handling[c] :
          f.id \in Stored =>
             restarts > 0 \/ \E d \in Conns \ {c} : f \in recording[d]]_vars

\* No two outputs of a session ever share a number unless a process was killed
\* before it could persist: reloading and clearing never turn next_seq back.
NumbersUnique ==
    "proxy crash" \notin accidents =>
        \A f, g \in pushed : f.seq = g.seq => f = g

\* Short of an accident the buffer empties: an output with a number above 0 is
\* stored or given up on, and is then acknowledged.
EventuallyStored ==
    \A id \in Outputs :
        (\E f \in buffer.pending : f.id = id /\ f.seq > 0)
            ~> \/ id \in Stored /\ \A f \in buffer.pending : f.id # id
               \/ id \in dropped \/ ~Clean
=============================================================================
