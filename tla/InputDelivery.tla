---------------------------- MODULE InputDelivery ----------------------------
(***************************************************************************)
(* Delivery of a person's inputs from browsers to the agent of one session.*)
(*                                                                         *)
(* Four places may send an input again: the browser's outbox (outbox.rs)   *)
(* after a reconnect, the pending_inputs rows after the proxy's, the       *)
(* proxy's input channel, which outlives a connection, and the person.     *)
(* Two test for duplicates: the idempotency gate (input_dedup.rs) and the  *)
(* row that backs it after a restart.  A row lives until an InputAck of    *)
(* its number or of a higher one.                                          *)
(*                                                                         *)
(* Abstractions.  An input is its client_msg_id; each is typed in one      *)
(* browser.  A browser's frames reach the backend in order, also across    *)
(* its own reconnects; a terminal stage reaches the browsers connected at  *)
(* that moment, a lost one being one that met no browser.  The end of a    *)
(* handler and its unregistration are one step, so the registered          *)
(* connection is the newest unless its handler ended.  The proxy's reader  *)
(* is any amount ahead of its main loop.  What send_or_queue holds for an  *)
(* absent proxy is written to the next connection before its RegisterAck,  *)
(* where the proxy's register_session discards it: only the row counts,    *)
(* and the queue is no variable.  Progress stages short of a terminal one, *)
(* viewers, slash commands and the wiggum channel are left out.            *)
(***************************************************************************)
EXTENDS Naturals, Sequences, FiniteSets, SequencesExt

CONSTANTS
    Browsers,
    MaxInputs,    \* bound: inputs typed
    MaxConns,     \* bound: connections of the proxy
    MaxFaults,    \* bound: browser connections lost, restarts, relaunches,
                  \* refusals and kinds of accident, together
    OutboxCap,    \* MAX_OUTBOX_ENTRIES
    GateCap       \* MAX_TRACKED_IDS_PER_SESSION

ASSUME InputBounds ==
    /\ MaxInputs \in Nat /\ MaxConns \in Nat /\ MaxFaults \in Nat
    /\ OutboxCap \in Nat \ {0} /\ GateCap \in Nat \ {0}

Inputs == 1 .. MaxInputs
Conns == 1 .. MaxConns
Frames == [seq : Nat, id : Inputs]
Outcomes == {"accepted", "failed"}
GateStates == Outcomes \cup {"in flight"}
Reports == [kind : Outcomes \cup {"ack"}, n : Nat]
Stages == {"closed", "registered", "acked", "serving"}
AccidentKinds == {"database", "overtaking"}

VARIABLES
    typed,        \* inputs typed so far, in all browsers
    outbox,       \* per browser: inputs not resolved, oldest first
    webUp,        \* per browser: connected
    webWire,      \* per browser: inputs sent and not yet handled
    gate,         \* input_dedup of the session: ids with their state, in order
    inputSeq,     \* sessions.input_seq
    rows,         \* pending_inputs
    gated,        \* per browser handler: at most one input the gate let pass,
                  \* whose row is not looked up yet
    numbering,    \* per browser handler: at most one frame with its number
                  \* allocated, whose row is not written yet
    enqueuing,    \* per browser handler: at most one frame with its row
                  \* written, not yet handed to the proxy's connection
    stage,        \* per connection: how far its handler is
    toReplay,     \* rows read for the current connection, not yet sent
    reports,      \* per connection: progress and acks on their way to backend
    opened,       \* connections opened so far
    conn,         \* the proxy's current connection (0: none)
    wire,         \* frames sent on it
    inbox,        \* input_tx: frames an earlier connection left in it
    handed,       \* commands of the agent's task: frame and connection
    completions,  \* delivery completion tasks that have not reported
    agentUp,      \* the agent's task runs
    taken,        \* frames the agent accepted, in order
    faults, accidents,
    numbered,     \* history: every frame enqueue_input numbered and tried to store
    refused,      \* history: frames the proxy reported Failed
    evicted,      \* history: inputs the outbox showed as failed: backlog full
    remembered    \* history: ids this backend process numbered

webVars == <<typed, outbox, webUp, webWire, evicted>>
storeVars == <<gate, gated, inputSeq, numbering, rows, enqueuing, numbered, remembered>>
proxyVars == <<opened, conn, inbox, handed, completions, agentUp, taken, refused>>
netVars == <<stage, toReplay, reports, wire>>
vars == <<webVars, storeVars, netVars, proxyVars, faults, accidents>>

Init ==
    /\ typed = 0 /\ faults = 0 /\ accidents = {}
    /\ outbox = [b \in Browsers |-> <<>>]
    /\ webUp = [b \in Browsers |-> TRUE]
    /\ webWire = [b \in Browsers |-> <<>>]
    /\ gate = <<>> /\ inputSeq = 0 /\ rows = {}
    /\ gated = [b \in Browsers |-> {}]
    /\ numbering = [b \in Browsers |-> {}] /\ enqueuing = [b \in Browsers |-> {}]
    /\ stage = [c \in Conns |-> "closed"]
    /\ toReplay = {}
    /\ reports = [c \in Conns |-> <<>>]
    /\ opened = 0 /\ conn = 0 /\ wire = <<>>
    /\ inbox = <<>> /\ handed = <<>> /\ completions = {} /\ agentUp = TRUE
    /\ taken = <<>>
    /\ numbered = {} /\ refused = {} /\ evicted = {} /\ remembered = {}

FaultsLeft == faults + Cardinality(accidents) < MaxFaults

Accident(kind) ==
    /\ kind \in accidents \/ FaultsLeft
    /\ accidents' = accidents \cup {kind}

-----------------------------------------------------------------------------
(* The browser: Outbox *)

\* Mutant: inputs counted from one too many.
RecordedShifted(box, id) ==
    IF Len(box) < OutboxCap THEN Append(box, id + 1) ELSE Append(Tail(box), id + 1)

\* record evicts the oldest beyond the cap and shows it as failed.
Recorded(box, id) ==
    IF Len(box) < OutboxCap THEN Append(box, id) ELSE Append(Tail(box), id)

Type(b) ==
    /\ typed < MaxInputs
    /\ typed' = typed + 1
    /\ outbox' = [outbox EXCEPT ![b] = Recorded(@, typed + 1)]
    /\ evicted' = IF Len(outbox[b]) < OutboxCap THEN evicted
                                                ELSE evicted \cup {Head(outbox[b])}
    /\ webWire' = IF webUp[b] THEN [webWire EXCEPT ![b] = Append(@, typed + 1)]
                              ELSE webWire
    /\ UNCHANGED <<webUp, storeVars, netVars, proxyVars, faults,
                   accidents>>

\* What the handler has not read may be lost.
WebDrop(b) ==
    /\ webUp[b] /\ FaultsLeft
    /\ faults' = faults + 1
    /\ webUp' = [webUp EXCEPT ![b] = FALSE]
    /\ \E n \in 0 .. Len(webWire[b]) :
          webWire' = [webWire EXCEPT ![b] = SubSeq(@, 1, n)]
    /\ UNCHANGED <<typed, outbox, evicted, storeVars, netVars, proxyVars,
                   accidents>>

\* flush_outbox: everything unresolved is sent again.
WebConnect(b) ==
    /\ ~webUp[b]
    /\ webUp' = [webUp EXCEPT ![b] = TRUE]
    /\ webWire' = [webWire EXCEPT ![b] = @ \o outbox[b]]
    /\ UNCHANGED <<typed, outbox, evicted, storeVars, netVars,
                   proxyVars, faults, accidents>>

\* Both terminal stages resolve the entry; an id is fresh when it is typed, so
\* there is one at most.
Resolved(box, id) ==
    IF Contains(box, id) THEN RemoveAt(box, CHOOSE i \in DOMAIN box : box[i] = id) ELSE box

-----------------------------------------------------------------------------
(* The backend: gate, rows, and the handler of each browser *)

GateEntries == {gate[i] : i \in DOMAIN gate}

\* Mutant: only inputs in flight are recognised.
TrackedInFlight(id) == \E e \in GateEntries : e.id = id /\ e.state = "in flight"

Tracked(id) == \E e \in GateEntries : e.id = id

Remember(id, state) ==
    Append(IF Len(gate) < GateCap THEN gate ELSE Tail(gate),
           [id |-> id, state |-> state])

HasRow(id) == \E r \in rows : r.id = id

\* Mutant: an input in flight is answered like a settled one.
AnswersAnyDuplicate(e) == e.state \in GateStates

\* Mutant: every duplicate is dropped in silence.
AnswersNoDuplicate(e) == e.state \notin GateStates

\* A settled duplicate gets its terminal stage again; one in flight nothing.
AnswersDuplicate(e) == e.state \in Outcomes

\* check_and_record_input
PassGate(b, id) ==
    IF Tracked(id)
    THEN /\ \E e \in GateEntries :
               /\ e.id = id
               /\ outbox' = IF AnswersDuplicate(e) /\ webUp[b]
                            THEN [outbox EXCEPT ![b] = Resolved(@, id)] ELSE outbox
         /\ UNCHANGED <<gate, gated>>
    ELSE /\ gate' = Remember(id, "in flight")
         /\ gated' = [gated EXCEPT ![b] = {id}]
         /\ UNCHANGED outbox

HandleInput(b) ==
    /\ webWire[b] # <<>> /\ gated[b] = {} /\ numbering[b] = {} /\ enqueuing[b] = {}
    /\ PassGate(b, Head(webWire[b]))
    /\ webWire' = [webWire EXCEPT ![b] = Tail(@)]
    /\ UNCHANGED <<typed, webUp, evicted, inputSeq, numbering, rows, enqueuing,
                   numbered, remembered, netVars, proxyVars, faults, accidents>>

\* The gate forgets in a restart, but a row proves that the input was accepted.
DropBacked(b) ==
    /\ \E id \in gated[b] : HasRow(id)
    /\ gated' = [gated EXCEPT ![b] = {}]
    /\ UNCHANGED <<webVars, gate, inputSeq, numbering, rows, enqueuing, numbered,
                   remembered, netVars, proxyVars, faults, accidents>>

Enqueue(b, f) ==
    /\ enqueuing' = [enqueuing EXCEPT ![b] = {f}]
    /\ numbered' = numbered \cup {f}
    /\ remembered' = remembered \cup {f.id}

Numbers(b, f) ==
    /\ numbering' = [numbering EXCEPT ![b] = {f}]
    /\ UNCHANGED <<enqueuing, numbered, remembered>>

Allocate(b, id) ==
    /\ inputSeq' = inputSeq + 1
    /\ Numbers(b, [seq |-> inputSeq + 1, id |-> id])

\* The look-up of the row fails and finds none; the bump of the sequence fails,
\* and number 1 is used; or there is no connection, and the input goes out
\* without a number.
NumberUnsafely(b, id) ==
    \/ HasRow(id) /\ Allocate(b, id)
    \/ inputSeq' = inputSeq /\ Numbers(b, [seq |-> 1, id |-> id])
    \/ Enqueue(b, [seq |-> 0, id |-> id]) /\ UNCHANGED <<inputSeq, numbering>>

\* enqueue_input: the UPDATE of input_seq ...
NumberInput(b) ==
    /\ \E id \in gated[b] :
          \/ ~HasRow(id) /\ Allocate(b, id) /\ UNCHANGED accidents
          \/ NumberUnsafely(b, id) /\ Accident("database")
    /\ gated' = [gated EXCEPT ![b] = {}]
    /\ UNCHANGED <<webVars, gate, rows, netVars, proxyVars, faults>>

\* ... and the INSERT of the row, which fails if the number has one.
InsertRow(b) ==
    /\ \E f \in numbering[b] :
          /\ Enqueue(b, f)
          /\ \/ /\ \A r \in rows : r.seq # f.seq
                /\ rows' = rows \cup {f} /\ UNCHANGED accidents
             \/ rows' = rows /\ Accident("database")
    /\ numbering' = [numbering EXCEPT ![b] = {}]
    /\ UNCHANGED <<webVars, gate, gated, inputSeq, netVars, proxyVars, faults>>

\* Some lower number has not been sent on the current connection yet.
Overtakes(f) ==
    \/ stage[conn] = "acked" /\ \E r \in rows : r.seq < f.seq
    \/ \E r \in toReplay : r.seq < f.seq
    \/ \E b \in Browsers : \E g \in numbering[b] \cup enqueuing[b] : g.seq < f.seq

\* send_or_queue
HandOver(b) ==
    /\ \E f \in enqueuing[b] :
          IF conn # 0 /\ stage[conn] \in {"acked", "serving"}
          THEN /\ wire' = Append(wire, f)
               /\ IF Overtakes(f) THEN Accident("overtaking") ELSE UNCHANGED accidents
          ELSE UNCHANGED <<wire, accidents>>
    /\ enqueuing' = [enqueuing EXCEPT ![b] = {}]
    /\ UNCHANGED <<webVars, gate, gated, inputSeq, numbering, rows, numbered,
                   remembered, stage, toReplay, reports, proxyVars, faults>>

-----------------------------------------------------------------------------
(* The backend: the handler of each connection of the proxy *)

\* Registration up to the entry in SessionManager.sessions.
Connect ==
    /\ conn = 0 /\ agentUp /\ opened < MaxConns
    /\ opened' = opened + 1
    /\ conn' = opened + 1
    /\ stage' = [stage EXCEPT ![opened + 1] = "registered"]
    /\ UNCHANGED <<webVars, storeVars, toReplay, reports, wire, inbox, handed,
                   completions, agentUp, taken, refused, faults, accidents>>

AckRegistration ==
    /\ conn # 0 /\ stage[conn] = "registered"
    /\ stage' = [stage EXCEPT ![conn] = "acked"]
    /\ UNCHANGED <<webVars, storeVars, toReplay, reports, wire, proxyVars,
                   faults, accidents>>

\* Some number has no row yet although a higher one has.
Misses == \E b \in Browsers : \E g \in numbering[b] : \E r \in rows : g.seq < r.seq

\* replay_pending_inputs_from_db reads the rows once ...
ReadRows ==
    /\ conn # 0 /\ stage[conn] = "acked"
    /\ stage' = [stage EXCEPT ![conn] = "serving"]
    /\ toReplay' = rows
    /\ IF Misses THEN Accident("overtaking") ELSE UNCHANGED accidents
    /\ UNCHANGED <<webVars, storeVars, reports, wire, proxyVars, faults>>

\* Mutant: the rows are read newest first.
IsNewest(f, S) == f \in S /\ \A g \in S : f.seq >= g.seq

IsOldest(f, S) == f \in S /\ \A g \in S : f.seq <= g.seq

\* ... and sends them in the order of their numbers.
ReplayRow ==
    /\ \E f \in toReplay :
          /\ IsOldest(f, toReplay)
          /\ wire' = Append(wire, f)
          /\ toReplay' = toReplay \ {f}
    /\ UNCHANGED <<webVars, storeVars, stage, reports, proxyVars, faults,
                   accidents>>

\* record_input_terminal, and the broadcast to the browsers.
Settle(id, outcome) ==
    /\ gate' = IF Tracked(id)
               THEN [i \in DOMAIN gate |->
                        IF gate[i].id = id THEN [gate[i] EXCEPT !.state = outcome]
                                           ELSE gate[i]]
               ELSE Remember(id, outcome)
    /\ outbox' = [b \in Browsers |->
                     IF webUp[b] THEN Resolved(outbox[b], id) ELSE outbox[b]]
    /\ UNCHANGED rows

\* Mutant: the ack is taken for the next number expected.
CoveredWithNext(r, n) == r.seq <= n + 1

Covered(r, n) == r.seq <= n

\* handle_input_ack
DeleteRows(n) ==
    /\ rows' = {r \in rows : ~Covered(r, n)}
    /\ UNCHANGED <<gate, outbox>>

\* A handler reads nothing while it replays.
HandleReport(c) ==
    /\ stage[c] = "serving" /\ reports[c] # <<>> /\ (c = conn => toReplay = {})
    /\ LET m == Head(reports[c])
       IN  IF m.kind = "ack" THEN DeleteRows(m.n) ELSE Settle(m.n, m.kind)
    /\ reports' = [reports EXCEPT ![c] = Tail(@)]
    /\ UNCHANGED <<typed, webUp, webWire, evicted, gated, inputSeq, numbering,
                   enqueuing, numbered, remembered, stage, toReplay, wire,
                   proxyVars, faults, accidents>>

\* The handler sees its connection end, or evicts it as silent.
HandlerEnds(c) ==
    /\ stage[c] # "closed"
    /\ c # conn \/ opened < MaxConns
    /\ stage' = [stage EXCEPT ![c] = "closed"]
    /\ toReplay' = IF c = conn THEN {} ELSE toReplay
    /\ reports' = [reports EXCEPT ![c] = <<>>]
    /\ UNCHANGED <<webVars, storeVars, wire, proxyVars, faults, accidents>>

\* Every in-memory map starts empty again; the database stays.
BackendRestart ==
    /\ FaultsLeft /\ opened < MaxConns
    /\ faults' = faults + 1
    /\ webUp' = [b \in Browsers |-> FALSE]
    /\ webWire' = [b \in Browsers |-> <<>>]
    /\ gate' = <<>> /\ remembered' = {}
    /\ gated' = [b \in Browsers |-> {}]
    /\ numbering' = [b \in Browsers |-> {}] /\ enqueuing' = [b \in Browsers |-> {}]
    /\ stage' = [c \in Conns |-> "closed"]
    /\ toReplay' = {}
    /\ reports' = [c \in Conns |-> <<>>]
    /\ UNCHANGED <<typed, outbox, evicted, inputSeq, rows, numbered,
                   wire, proxyVars, accidents>>

-----------------------------------------------------------------------------
(* The proxy *)

ConnectionGone == conn' = 0 /\ wire' = <<>> /\ toReplay' = {}

\* What the reader has read stays in the input channel.
Disconnect ==
    /\ conn # 0
    /\ stage[conn] = "closed" \/ opened < MaxConns
    /\ ConnectionGone
    /\ \E n \in 0 .. Len(wire) : inbox' = inbox \o SubSeq(wire, 1, n)
    /\ UNCHANGED <<webVars, storeVars, stage, reports, opened, handed,
                   completions, agentUp, taken, refused, faults, accidents>>

\* The next input the main loop receives: first what is left of earlier
\* connections.
NextInput == Head(inbox \o wire)

ReceiveInput ==
    /\ inbox \o wire # <<>>
    /\ IF inbox # <<>> THEN inbox' = Tail(inbox) /\ wire' = wire
                       ELSE wire' = Tail(wire) /\ inbox' = inbox

\* handle_input, when the agent's task takes commands.
DeliverInput ==
    /\ conn # 0 /\ agentUp
    /\ ReceiveInput
    /\ handed' = Append(handed, [frame |-> NextInput, on |-> conn])
    /\ UNCHANGED <<webVars, storeVars, stage, toReplay, reports, opened, conn,
                   completions, agentUp, taken, refused, faults, accidents>>

Completion(h, outcome) == [frame |-> h.frame, on |-> h.on, outcome |-> outcome]

AgentAccepts ==
    /\ agentUp /\ handed # <<>>
    /\ taken' = Append(taken, Head(handed).frame)
    /\ completions' = completions \cup {Completion(Head(handed), "accepted")}
    /\ handed' = Tail(handed)
    /\ UNCHANGED <<webVars, storeVars, netVars, opened, conn, inbox, agentUp,
                   refused, faults, accidents>>

AgentRejects ==
    /\ agentUp /\ handed # <<>> /\ FaultsLeft
    /\ faults' = faults + 1
    /\ refused' = refused \cup {Head(handed).frame}
    /\ completions' = completions \cup {Completion(Head(handed), "failed")}
    /\ handed' = Tail(handed)
    /\ UNCHANGED <<webVars, storeVars, netVars, opened, conn, inbox, agentUp,
                   taken, accidents>>

\* An input without a number is sent without its client_msg_id either.
Failure(f) == IF f.seq = 0 THEN <<>> ELSE <<[kind |-> "failed", n |-> f.id]>>

\* What a completion task writes: AgentAccepted and the ack, or Failed alone.
Written(k) ==
    IF k.outcome = "failed" THEN Failure(k.frame)
    ELSE IF k.frame.seq = 0 THEN <<>>
    ELSE <<[kind |-> "accepted", n |-> k.frame.id], [kind |-> "ack", n |-> k.frame.seq]>>

\* The task writes to the connection its input was delivered on.
ReportCompletion ==
    /\ \E k \in completions :
          /\ completions' = completions \ {k}
          /\ reports' = IF k.on = conn /\ stage[conn] # "closed"
                        THEN [reports EXCEPT ![conn] = @ \o Written(k)] ELSE reports
    /\ UNCHANGED <<webVars, storeVars, stage, toReplay, wire, opened, conn,
                   inbox, handed, agentUp, taken, refused, faults, accidents>>

\* The agent's task ends: what it had not accepted fails.
AgentStops ==
    /\ agentUp /\ FaultsLeft /\ opened < MaxConns
    /\ faults' = faults + 1
    /\ agentUp' = FALSE
    /\ refused' = refused \cup {handed[i].frame : i \in DOMAIN handed}
    /\ completions' = completions \cup
                      {Completion(handed[i], "failed") : i \in DOMAIN handed}
    /\ handed' = <<>>
    /\ UNCHANGED <<webVars, storeVars, netVars, opened, conn, inbox, taken,
                   accidents>>

\* handle_input, when the agent is gone: the input fails and the loop ends.
DeliverFails ==
    /\ conn # 0 /\ ~agentUp /\ inbox \o wire # <<>>
    /\ refused' = refused \cup {NextInput}
    /\ reports' = IF stage[conn] = "closed" THEN reports
                  ELSE [reports EXCEPT ![conn] = @ \o Failure(NextInput)]
    /\ inbox' = Tail(inbox \o wire)
    /\ ConnectionGone
    /\ UNCHANGED <<webVars, storeVars, stage, opened, handed, completions,
                   agentUp, taken, faults, accidents>>

\* The process ends, or is killed, and the session is launched again.
Relaunch ==
    /\ IF agentUp THEN FaultsLeft /\ opened < MaxConns /\ faults' = faults + 1
                  ELSE UNCHANGED faults
    /\ agentUp' = TRUE
    /\ ConnectionGone
    /\ inbox' = <<>> /\ handed' = <<>> /\ completions' = {}
    /\ UNCHANGED <<webVars, storeVars, stage, reports, opened, taken, refused,
                   accidents>>

-----------------------------------------------------------------------------

BrowserStep ==
    \E b \in Browsers : Type(b) \/ WebDrop(b) \/ WebConnect(b)

BackendStep ==
    \/ \E b \in Browsers :
          \/ HandleInput(b) \/ DropBacked(b) \/ NumberInput(b) \/ InsertRow(b)
          \/ HandOver(b)
    \/ \E c \in Conns : HandleReport(c) \/ HandlerEnds(c)
    \/ AckRegistration \/ ReadRows \/ ReplayRow \/ BackendRestart

ProxyStep ==
    \/ Connect \/ Disconnect \/ DeliverInput \/ AgentAccepts
    \/ AgentRejects \/ ReportCompletion \/ AgentStops \/ DeliverFails \/ Relaunch

Next == BrowserStep \/ BackendStep \/ ProxyStep

Spec == Init /\ [][Next]_vars

\* Tasks of a running process are scheduled, a browser and a proxy reconnect,
\* the heartbeat ends a dead connection and the launcher relaunches the session.
Fairness ==
    /\ \A b \in Browsers :
          /\ WF_vars(WebConnect(b)) /\ WF_vars(HandleInput(b))
          /\ WF_vars(DropBacked(b)) /\ WF_vars(NumberInput(b))
          /\ WF_vars(InsertRow(b)) /\ WF_vars(HandOver(b))
    /\ \A c \in Conns : WF_vars(HandleReport(c))
    /\ WF_vars(AckRegistration) /\ WF_vars(ReadRows) /\ WF_vars(ReplayRow)
    /\ WF_vars(Connect) /\ WF_vars(DeliverInput) /\ WF_vars(AgentAccepts)
    /\ WF_vars(ReportCompletion)
    /\ WF_vars(~agentUp /\ Relaunch)
    /\ WF_vars(conn # 0 /\ stage[conn] = "closed" /\ Disconnect)

FairSpec == Spec /\ Fairness

-----------------------------------------------------------------------------
(* Properties *)

Clean == accidents = {}
TakenFrames == {taken[i] : i \in DOMAIN taken}
TakenInputs == {f.id : f \in TakenFrames}

WebTypeOK ==
    /\ typed \in 0 .. MaxInputs
    /\ outbox \in [Browsers -> Seq(Inputs)] /\ webUp \in [Browsers -> BOOLEAN]
    /\ webWire \in [Browsers -> Seq(Inputs)]
    /\ evicted \subseteq Inputs

StoreTypeOK ==
    /\ gate \in Seq([id : Inputs, state : GateStates])
    /\ gated \in [Browsers -> SUBSET Inputs]
    /\ inputSeq \in Nat /\ rows \subseteq Frames
    /\ numbering \in [Browsers -> SUBSET Frames]
    /\ enqueuing \in [Browsers -> SUBSET Frames]
    /\ numbered \subseteq Frames /\ remembered \subseteq Inputs

NetTypeOK ==
    /\ stage \in [Conns -> Stages] /\ toReplay \subseteq Frames
    /\ reports \in [Conns -> Seq(Reports)]
    /\ opened \in 0 .. MaxConns /\ conn \in 0 .. MaxConns
    /\ wire \in Seq(Frames)

ProxyTypeOK ==
    /\ inbox \in Seq(Frames)
    /\ handed \in Seq([frame : Frames, on : Conns])
    /\ completions \subseteq [frame : Frames, on : Conns, outcome : Outcomes]
    /\ agentUp \in BOOLEAN /\ taken \in Seq(Frames) /\ refused \subseteq Frames
    /\ faults \in Nat /\ accidents \subseteq AccidentKinds

\* The types of the state.
TypeOK == WebTypeOK /\ StoreTypeOK /\ NetTypeOK /\ ProxyTypeOK

\* Short of an accident a row lives until the agent took its input or refused
\* it: no ack, which also covers lower numbers, deletes it too early.
KeptUntilTaken ==
    Clean => numbered \subseteq rows \cup TakenFrames \cup refused

\* Frames on their way from the backend to the agent.
Underway ==
    UNION {enqueuing[b] : b \in Browsers}
        \cup {wire[i] : i \in DOMAIN wire} \cup {inbox[i] : i \in DOMAIN inbox}
        \cup {handed[i].frame : i \in DOMAIN handed}

\* README.md: a dropped connection never drops a message; PROTOCOL.md: an input
\* is stored until acknowledged.  Even if live input overtakes a replay or
\* another handler's input, one that has lost its row is taken, refused or on
\* its way, as long as the database works and no process restarts.
KeptThoughOvertaken ==
    "database" \notin accidents /\ faults = 0 =>
        numbered \subseteq rows \cup TakenFrames \cup refused \cup Underway

\* Numbers that were allocated and will have no row: the backend restarted
\* between the two.
Skipped == (1 .. inputSeq)
             \ {f.seq : f \in numbered \cup UNION {numbering[b] : b \in Browsers}}

\* Short of an accident the agent takes inputs in the order of their numbers,
\* leaving out only what it refused and what a restart kept from its row.
Log == INSTANCE DurableLog WITH
    next <- inputSeq + 1,
    kept <- {f.seq : f \in TakenFrames},
    gone <- {0} \cup {f.seq : f \in refused} \cup Skipped,
    sound <- Clean

InOrder == Log!Spec

\* Whatever happens, an input that left its outbox was taken, was refused, or
\* is shown as failed: nothing a person typed disappears without a word.
NothingVanishes ==
    \A id \in 1 .. typed :
        \/ \E b \in Browsers : \E i \in DOMAIN outbox[b] : outbox[b][i] = id
        \/ id \in TakenInputs \cup {f.id : f \in refused} \cup evicted

\* Resending is idempotent: a backend process numbers an input once unless the
\* gate is full, and two rows hold the same input only if the database failed.
ResendsCollapse ==
    [][/\ \A f \in numbered' \ numbered : f.id \in remembered => typed > GateCap
       /\ \A r, q \in rows' :
             r.id = q.id => r = q \/ "database" \in accidents']_vars

\* README.md: a dropped connection never duplicates a message.  After the
\* proxy has reconnected, and with no fault at all, what the agent takes it has
\* not taken before.
NeverTwice ==
    [][Clean /\ faults = 0 /\ conn > 1 /\ taken' # taken
          => taken'[Len(taken')].id \notin TakenInputs]_vars

\* Short of an accident every input in an outbox is resolved.
EventuallyResolved ==
    \A b \in Browsers : \A id \in Inputs :
        (\E i \in DOMAIN outbox[b] : outbox[b][i] = id)
            ~> \/ \A i \in DOMAIN outbox[b] : outbox[b][i] # id
               \/ ~Clean
=============================================================================
