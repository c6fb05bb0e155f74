# Agent-portal: models, checks and proofs

Agent-portal lets a person drive coding agents (Claude, Codex and others) that
run on their own machines from a browser.  Three kinds of process take part.

    browser  <--ws-->  backend (Axum, Postgres)  <--ws-->  proxy  <--pipes-->  agent
                              ^
                              +----------ws----------  launcher (starts proxies)

The *proxy* owns an agent process and must get every output of it into the
backend's transcript across disconnects, relaunches and restarts.  The
*backend* must get every input of a person to the agent, once.  The *launcher*
keeps the sessions running that the database says should run.

This directory holds TLA+ modules of the parts of that system that are
protocols, configurations that check them with TLC, and theorems that TLAPS
proves.  Paths below are relative to the repository.

## 1. Inventory

For each component: the state it keeps, what changes it, what is hard about
it, and what makes it correct.

**Output buffer and replay** (`session-lib/src/output_buffer.rs`).
State: `next_seq`, `last_ack_seq`, the pending outputs, a JSON file with a copy
of all three.  Operations: push, acknowledge, clear, persist, reload.  Pushed
to by two tasks of the proxy, acknowledged by a third.  Hard: bounded size,
cumulative acks, the file lags behind memory.  Correct when nothing that has a
number is dropped before it is stored, and no number is given twice.

**Proxy connection loop** (`claude-session-lib/src/proxy_session/`:
`supervisor.rs`, `mod.rs`, `session_event.rs`, `output_forwarder.rs`).
State: the session's channels, buffer and back-off, which outlive a
connection; the tasks of one connection, which do not.  Operations: connect,
register, replay, announce, the select loop, disconnect, relaunch.  Hard: the
forwarder and the main loop both send; aborting tasks loses what they hold.
Correct when replayed output precedes new output and a lost connection costs
nothing but time.

**Backend output handler** (`backend/src/handlers/websocket/`:
`proxy_socket.rs`, `message_handlers.rs`, `session_manager/session_tracking.rs`).
State: the `messages` table, `last_ack_seq` per session (memory only), one task
per connection.  Operations: the duplicate test, the insert, the ack.  Hard:
test, insert and recording of the number are three steps, two connections of one
session overlap, a restart forgets `last_ack_seq`.  Correct when the transcript
has every numbered output, in order.

**Input delivery** (`frontend/.../session_view/outbox.rs`,
`web_client_socket.rs`, `session_manager/input_dedup.rs`, `input_queue.rs`,
`session-lib/src/proxy_session/input_delivery.rs`, `ws_reader.rs`).
State: the browser's outbox, the idempotency gate (memory, 256 ids), the
`pending_inputs` rows, the proxy's input channel, which outlives connections.
Operations: send, resend, gate, enqueue, replay of rows, deliver to the agent,
InputAck.  Hard: four places may retry, only two test for duplicates.  Correct
when every accepted input reaches the agent, once and in order.

**Connection registry and pending queue** (`session_manager/proxy_lifecycle.rs`,
`pending_queue.rs`, `liveness.rs`, `registration.rs`).
State: the connection of each session with its generation, a queue of at most
100 messages for a proxy that is away, `sessions.status` in the database.
Operations: register, send or queue, evict, clean up, sweep for silence.  Hard:
a handler ends long after its successor registered; what is checked and what is
written are under different locks.  Correct when only the current generation
changes the registry or the status and nothing queued is lost.

**Permission prompts** (`permissions.rs`, `session-lib/src/session.rs`,
`permission_bridge.rs`, `wiggum.rs`).
State: one row per session, one slot in the proxy's session.  Operations: ask,
show again at reconnect, answer, cancel.  Hard: parallel prompts share a slot.
Correct when an agent that waits has a prompt a person can answer.

**Edit stack and compaction gate** (`edit_stack.rs`,
`session_manager/edit_stack_compaction.rs`).
State: queued work items, the turn of each session, the phase of a compaction.
Operations: try to send the next item, request, observe and time out a
compaction.  Hard: readiness is read, then the item is claimed.  Correct when
one item is in flight per session and a held stack is released.

**Launcher registry and RPC** (`launcher_registry.rs`, `launcher_rpc.rs`,
`correlation.rs`, `launcher_socket.rs`).
State: launchers, requests waiting for a reply, launch leases.  Hard: late and
crossed replies.  Correct when a reply completes only its own request and one
launcher starts a session.

**Launcher process manager and scheduler** (`launcher/src/`).
State: running tasks per session, work queue, next run of each schedule.  Hard:
overlapping runs, reconciliation of desired and running sessions.  Correct when
a session never runs twice and a desired session is eventually running.

**Port-forward tunnel** (`session-lib/src/tunnel.rs`, `tunnel_client.rs`,
`data_plane.rs`, `tunnel_ticket.rs`).
State: streams with send and receive windows, one-time tickets.  Hard: window
credit across two planes, half-closed streams.  Correct when a stream neither
overruns its window nor stalls with credit outstanding.

**Session launch control** (`db/session_lifecycle.rs`, `handlers/sessions.rs`,
`launcher_socket.rs`, `process_manager.rs`, `registration.rs`,
`proxy_tokens.rs`).
State: the session's row (paused, active, lease, failures, back-off), the
tokens of its launches, the launcher's table of tasks and its channel of exits.
Operations: stop, pause, resume, heartbeat and reconciliation, spawn, exit,
registration.  Hard: a wish is persisted while a launch is under way; exits are
reported late.  Correct when a desired session gets one agent and a stopped one
ends.

**Continuations and overload retries** (`continuations.rs`,
`launcher/src/scheduler.rs`, `launcher/src/connection/`).
State: a row per continuation, the launcher's copy of the scheduled rows, its
claims, a queue that outlives connections.  Operations: schedule, load and send
the list, fire, inject or relaunch, mark fired or dropped, reconnect.  Hard:
lists are sent by several handlers at once; a send that failed may have
arrived.  Correct when a prompt goes in once and its row says so.

**File transfer** (`file_transfer.rs`, `uploads.rs`), **plugin context inbox**
(`context_inbox.rs`), **device flow, federation and tokens**, **browser fan-out
and history replay** (`client_fanout.rs`, `replay.rs`), **agent I/O tasks**
(`*/io_task.rs`, `turn_tracker.rs`): smaller machines, see section 6.

**HTTP API and retention, front ends, libraries and tools**: requests over
Postgres, rendering, wire types, archive files, speech, updating.  No protocol
of their own; not modelled.

## 2. What is modelled

| module | what it is |
|---|---|
| `DurableLog` | abstract: a log of numbered entries that becomes durable from the bottom up; both directions implement it |
| `OutputDelivery` | buffer, connection loop, network, backend handlers; implements `DurableLog` |
| `MCOutputDelivery` | the small instance TLC checks, with two configurations |
| `OutputDeliveryProofs` | the theorems about `OutputDelivery` |
| `InputDelivery` | browser outbox, idempotency gate, rows, proxy channel, agent; implements `DurableLog` |
| `MCInputDelivery` | its small instances, four configurations |
| `InputDeliveryProofs` | the theorems about `InputDelivery` |
| `LaunchControl`, `MCLaunchControl` | a session's row, requests, launches, the launcher's tasks and their registrations |
| `LaunchControlProofs` | the theorems about `LaunchControl` |
| `EditStack`, `MCEditStack` | queued items, dispatchers, the compaction gate |
| `EditStackProofs` | the theorems about `EditStack` |
| `ProxyRegistry` | the entry, queue and status of a session's proxy; also the abstract specification of the next module |
| `Permissions`, `MCPermissions` | permission prompts over `ProxyRegistry`, which it implements |
| `PermissionsProofs` | the theorems about `ProxyRegistry` and `Permissions` |
| `Tunnel`, `MCTunnel` | forwarded streams, their credit, the control socket and the data plane |
| `TunnelProofs` | the theorems about `Tunnel` |
| `Continuations`, `MCContinuations` | scheduled prompts between backend and launcher |
| `ContinuationsProofs` | the theorems about `Continuations` |
| `Queues` | lemmas on queues that the proofs share: what they hold, hold once and count when one grows at its end, is put behind another or loses an element |

Definitions whose comment says `MUTANT` are no part of a specification: each is
a plausible mistake, kept to show that a property notices it (`PROJECT.json`,
"mutants").

### OutputDelivery

| state | code |
|---|---|
| `buffer`, `disk` | `PendingOutputBuffer.state` and the file `persist` writes |
| `claude` | whether outputs pass through the forwarder (Claude) or are sent by the main loop (`session_event.rs:42`) |
| `emitted`, `queue` | outputs the main loop took; those still in `output_tx` |
| `forwarding`, `inlining` | the frame a task has pushed and not yet sent: the two tasks interleave here |
| `firstConnection`, `replayFailures`, `conn`, `phase`, `replayed` | the supervisor's loop and one connection's stage |
| `live`, `wire`, `acks` | backend handlers that run, frames and OutputAcks under way |
| `handling`, `recording` | the frame a handler holds between its duplicate test and its insert, and from there to `record_ack_seq` |
| `backendAck`, `transcript` | `last_ack_seq`, and the `messages` rows |
| `pushed`, `dropped` | history, read only by properties |

Each action is one stretch of code between two points where another task can
run: `Connect`, `ConnectFails`, `ReplayNext`, `ReplayDone`, `ReplayFails`,
`Announce`, `Disconnect`, `Relaunch`, `ProxyCrash` (supervisor), `TakeOutput`,
`PushInline`, `SendInline`, `ReceiveAck` (main loop), `ForwarderPush`,
`ForwarderSend` (forwarder task), `TestFrame`, `StoreFrame`, `StoreFails`,
`RecordFrame`, `HandlerEnds` (a backend handler), `BackendRestart`.  `push` appears as `Push`
in three of them.  `PROJECT.json` gives the lines of each definition.

An output is a position in the agent's event order, a frame that position with
its sequence number: no property looks at contents.  Registration is a single
step.  Media, git refresh, turn metrics, broadcast and back-off times are left
out.

Three events are *accidents*, after which the code promises less: the proxy is
killed before it persisted, an insert fails and is only logged
(`message_handlers.rs:398`), and a Claude session's main loop pushes a notice
of its own beside the forwarder (`session_event.rs:89`), whose frames may then
leave in the wrong order.  They are actions like the others; the properties
that they void say so (`Clean`, or the kind by name).  Lost connections, lost
acks, overlapping handlers, relaunches, a full buffer, five failed replays and
backend restarts are *not* accidents: the properties hold through them.

### InputDelivery

| state | code |
|---|---|
| `outbox`, `webUp`, `webWire` | a browser's `Outbox`, its socket, the frames on it (`outbox.rs`, `component.rs`) |
| `gate` | `input_dedup` of the session: ids with their state, oldest first, at most `GateCap` |
| `inputSeq`, `rows` | `sessions.input_seq` and the `pending_inputs` table |
| `gated`, `numbering`, `enqueuing` | how far the handler of a browser is with one input: past the gate, number allocated, row written |
| `stage`, `toReplay`, `reports` | handler of a proxy connection, rows it read at registration, what the proxy sent it |
| `conn`, `wire`, `inbox` | the proxy's connection, frames under way on it, `input_rx`, which outlives it |
| `handed`, `completions` | commands of the agent's I/O task, tasks that wait for its verdict |
| `agentUp`, `taken` | the agent's I/O task, what it accepted |
| `numbered`, `refused`, `evicted`, `remembered` | history, read only by properties |

The browser's actions are `Type`, `WebDrop`, `WebConnect`; those of its handler
in the backend `HandleInput` (the gate), `DropBacked` (a row proves a
duplicate), `NumberInput` (the `UPDATE` of `input_seq`), `InsertRow` (the
`INSERT` of the row, a statement of its own), `HandOver` (`send_or_queue`).
Between any two of them other handlers run, as they do in the code.  A proxy
connection goes through `Connect`, `AckRegistration`, `ReadRows`, `ReplayRow`,
then `HandleReport`; `HandlerEnds` and `BackendRestart` end it.  The proxy has
`Disconnect`, `DeliverInput`, `DeliverFails`, `ReportCompletion`, `Relaunch`,
the agent's I/O task `AgentAccepts`, `AgentRejects`, `AgentStops`.

Two accidents.  *database*: a look-up, bump or insert of `enqueue_input` fails
and is only logged, so an input goes out with no row, with number 1, or with no
number.  *overtaking*: a live input reaches the connection before a lower
number, because two browsers' handlers interleave between number and send, or
because a replay is under way; or a registration reads a higher row while a
lower number has none yet, so that its replay leaves the lower one out.  The pending queue of an absent proxy is no
variable: what it holds is written before the `RegisterAck`
(`proxy_lifecycle.rs:33`), and the proxy discards everything up to that message
(`proxy_session/mod.rs:302`), so for an input only its row counts.

Left out: the wiggum channel, slash commands, viewers, inputs of other agents,
stages short of a terminal one, linked portals (which never resend), a page
reload, which empties the outbox.

### LaunchControl

| state | code |
|---|---|
| `row` | the session's row: `paused`, active status, launch lease, failures, back-off |
| `token` | the token minted for each launch: revoked, not yet bound, bound to the session |
| `reported`, `reconcile` | `running_sessions` of the launcher's entry; a heartbeat handler past its look at the row |
| `request` | a stop, pause or resume being served, step by step |
| `linked`, `down`, `up` | the launcher's socket and the frames on it |
| `task`, `exits`, `alive` | `ProcessManager.tasks`, `exit_rx`, the agents that run |
| `socket`, `current` | each task's proxy connection, and the backend's entry |

User: `PauseRow`, `Disconnect`, `StopOnLauncher`, `ResumeRow`, `ResumeSend`.
Backend: `HandleHeartbeat`, `ReconcileSkips`, `ReconcileNoToken`,
`ReconcileLaunches`, `HandleFailed`, `HandleExited`, `LeaseExpires`,
`BackoffEnds`.  Launcher: `Heartbeat`, `HandleLaunch`, `HandleStop`,
`HandleExit`.  Proxy: `Dial`, `HandleRegister`, `RevokeOthers`, `SocketCloses`,
`TaskEnds`.  Faults: `LinkDrops`, `LauncherDies`.  When no name of a launch is
free the token is not minted, which the code also does for other reasons.

A registration takes three steps.  `Dial` connects and verifies the token: who
revokes it between the two could have done so before.  `HandleRegister` updates
the row and binds the token, the first of `link_token_to_session`'s two updates:
only revocations touch the token in between, and they spare an unbound one and
end a bound one for good, before as after.  `RevokeOthers` is the second update,
on its own because other registrations and exits do see the time between the
two, and ends with `register_session`.  Left out: an update that fails, which
`link_token_to_session` logs or ignores, and the development mode that admits
without a token.

Seen in the code, with no run of its own: the first registration of a launch
un-pauses the row (`registration.rs:177`), so a stop served while that launch
is on its way is undone, contrary to `registration.rs:173` ("A concurrent stop
must win over a late bound proxy reconnect") and `sessions.rs:316-326`;
`PauseOutlastsReconnects` allows exactly that and a resume.
`claim_launch_lease` does not look at `paused`; a resume bypasses the lease; a
resume that is cancelled sets `paused` although the reconciler may have
launched; `pause_session` sends nothing to a launcher that has not reported
the session; an exit reported late revokes the token of a newer registration;
two registrations at once, each between its two updates, revoke each other's
token and leave none, contrary to `proxy_tokens.rs:477` ("keeps exactly one live
token per session"); a stop that overtakes a registration, admitted but not yet
in the registry, while the launcher is away, leaves the agent running on a paused
row (`StoppedEnds` excepts it);
the path of a failed launch never pauses the row, whatever its count;
`exit_rx` is read only while the launcher is connected.

### EditStack

| state | code |
|---|---|
| `status`, `rows` | `session_edit_stack_items.status`, `pending_inputs` |
| `active`, `signal`, `full` | `active_turns`; what the latest stored messages and turn metric say |
| `phase`, `timer` | the entry of `edit_stack_compaction`, its timeouts as one |
| `at`, `picked` | how far each dispatcher is (end of turn, forwarded POST, timer), the item it read |
| `taken`, `turn`, `frames` | the agent, and the proxy's frames to the backend |
| `held`, `patches` | the browser's own sender and its PATCH requests |

A dispatcher reads readiness and its gate in one step, then picks, claims and
enqueues, with other dispatchers between.  Seen in the code: a dispatcher
whose claim finds the item gone gives up without trying the next (`beaten`);
two dispatchers may send two items, or an item and `/compact`, at once or out
of order (`edit_stack.rs:213`); a browser may send an item a dispatcher is
sending; a result ends the turn of whatever was sent last, also a user's; the
reminder is never a turn of its own, so a compaction ends by the 60 s timeout
or a user's turn; what is held stays held after a restart, an agent's death or
a failed insert until something else triggers a dispatch.  `StackFollows`
excludes those.  Readiness that depends on a permission prompt is part of
the active turn; the time to live of a compaction and the reminder's timeout
are one flag.

### ProxyRegistry and Permissions

| state | code |
|---|---|
| `sock`, `registered`, `queue`, `status` | what the handler of each connection is at; `SessionManager.sessions`, `pending_messages`; `sessions.status` |
| `down`, `dialled`, `heard` | frames to the proxy, the connection it holds, whether it read the RegisterAck |
| `victim`, `healing`, `grace` | the liveness sweep, the status reconciler and the start-up cleanup between their look and their write |
| `asked`, `events`, `slot` | the agent's requests, the proxy's events, `Session.pending_permission` |
| `up`, `row`, `dialog`, `online`, `answers` | frames to the backend, the session's one row, the browser |

A handler registers in the steps `Admit`, `Drain`, `Insert`, `Acknowledge` and
cleans up in `Closes`, `WriteDisconnected`, `Unregister`; two of them
interleave, and a Register the proxy gave up on is served all the same.
`Permissions` EXTENDS the registry; each of its actions is a registry step or
leaves the registry alone, and the run checks that as a refinement
(`RegistrySpec`).

Seen in the code: what is drained from the pending queue, and what is sent
live before the ack, precedes the RegisterAck, and the proxy discards it
(`Ok(_) => continue`), contrary to `pending_queue.rs:1-3`; a message queued
between drain and insertion waits for the next connection; a Register given up
on and served after a newer one replaces the live connection's entry, and its
cleanup leaves a live proxy unregistered; the reconciler reads the live set
and writes later, so it can revive a session that is gone
(`background.rs:156`); answering one prompt deletes the row of another
(`permissions.rs:168-232`), so what `PROTOCOL.md:235` says of replay does not hold
for parallel prompts; an answer lost with its connection leaves the agent
waiting.  `LetGoForCause` lists those causes, no others.

Abstracted: generations are compared for equality only; refused registrations
are in `LaunchControl`; one browser; broadcasts arrive at once; the sweep
judges only connections the proxy has left.

### Tunnel

| state | code |
|---|---|
| `stage`, `egress`, `routed` | a stream's life at either end, the socket it was opened on, the entry in the maps |
| `wire`, `inbox` | frames per end, stream and socket; the channel of the stream's task |
| `avail`, `held`, `book` | `CreditGate`, what an uplink took and has not sent, what the receiver still allows |
| `plane`, `link`, `handler` | the data plane as each end knows it, the sockets alive, the teardown of the connection |
| `read`, `got` | bytes read at an end and handed to its plane, bytes written at the other: what the properties compare |
| `lost`, `untold` | history: credit the backend's full channel refused, streams whose close it refused |

The ends are one set of actions indexed by end (`Take`, `Read`, `Process`,
`Receive`, `SourceEnds`, `WriteFails`), plus the opening handshake at the
backend, the dial at the proxy, the data plane's attachment and loss, and the
steps of the teardown in `proxy_socket.rs`.  The backend sends through the
bounded channel of the connection, which is shared with all its other traffic
(`ConnSender`, `session_manager/mod.rs:119-144`): how full it is is not
counted, any frame of the backend may be refused while the socket lives
(`Refused`, and the second half of `OpenSends` and `Read`).  A refused open or
data frame ends the stream; a refused grant or close is ignored.  The proxy's
sends wait for room.  One connection and one port; read and
send are one step; aborted tasks stop at once; the allow-list's grace period
and the probes are left out.

Seen in the code: the comment on `ConnSender` says a full channel is treated as
a closed one, for the caller's handling of the failure evicts the connection.
`run_relay` and the timeout of an open do not look at the result of a grant or
a close (`tunnel_client.rs:447`, `571`, `583`), so either can be lost while the
connection goes on: the proxy's uplink is short of that credit for good, and
stops when the whole window is gone; a stream whose close is lost stays open at
the proxy and holds its slot.  `CreditKept` counts the one, `AllArrives` and
`BothForget` except what the two can do and no more.
A stream on a lost data plane does not end at the proxy, for
the result of its send is ignored (`tunnel.rs:519`), contrary to the comment at
`tunnel.rs:477-479`; it reads on until its credit is used up, and keeps its
slot.  TLC refutes "it ends"; `BothForget` and `AllArrives` therefore except a
lost socket.  A relay that hangs in a write
does not read its Close, so the handler waits in `send_task.await`, contrary to
`proxy_socket.rs:107-112`; `NoneOutlives` excepts it (`Stuck`).  The end of a
source is not seen while the uplink waits for credit.

### Continuations

| state | code |
|---|---|
| `row`, `edits`, `paused` | `session_continuations.status`; the session's details, which a list repeats; `sessions.paused` |
| `loading`, `loaded` | handlers that changed a row and have not loaded the list, and lists loaded and not sent |
| `link`, `up`, `down` | the launcher's socket ("dead": lost, not noticed), frames both ways; the handler of the connection left reads on |
| `armed`, `claimed`, `launches` | `Scheduler`: `continuations`, `claimed_continuations`, `pending_launches` |
| `synced`, `snapshot`, `queue` | `LauncherConnectionSupervisor`: the authoritative list, the deliveries waiting |
| `injected`, `cause`, `misled` | history, read only by properties |

`LimitReached`, `Overloaded`, `UserSchedules` change a row and are followed by
`Load` and `SendSync`, as is every terminal status; the three parts are
separate because handlers of several sockets run them at once.  `TakeSync`,
`TakeLaunch`, `Due` are the launcher's loop, each with the supervisor's `Flush`
at its end; over a dead socket a flush loses what it tried and keeps the
rest.  `TakeUp` is the backend's handler of the launcher's frames.

Seen in the code: the list is loaded and sent in two steps by whichever
handler changed a row (`continuations.rs:370-371`), so an older list can
follow a newer one.  It arms a continuation that has fired, and its prompt is
injected again, or it disarms one just scheduled; a load without a database
connection sends an empty list, with the same effect.  `misled` records both.
A claim is released only by a list without it, so a failed spawn, a lost
frame, a discarded (edited) delivery or a failed update leave the row
"scheduled" until the daemon restarts.  A restart then fires it again, also if
it was injected, as `docs/TROUBLESHOOTING.md:519-525` says.
`update_terminal_status` does not look at the status it replaces.

Left out: the pace and the cap of retries (one retry a row), the reset time
(any armed continuation may come due), several sessions, deleted sessions, the
drop for want of a directory (a list always has one), scheduled tasks, and a
pause check that fails: the backend then launches a paused session
all the same (`launcher_socket.rs:909`), which no property speaks of.

## 3. Runs

| run | shows |
|---|---|
| `output_delivery` | six properties of `OutputDelivery` under fairness |
| `output_first_lost` | the counterexample for output number 0 |
| `input_delivery` | five safety properties of `InputDelivery` |
| `input_resolved` | every input in an outbox is resolved, under fairness |
| `input_twice` | the counterexample: an input taken twice |
| `input_overtaken` | the counterexample: a row deleted before its input was received |
| `launch_control` | a desired session gets its agent, a stopped one ends, under fairness |
| `launch_twice` | the counterexample: two agents of one session |
| `edit_stack` | items are sent once, and the stack follows through compactions |
| `permissions` | prompts and registry: refinement, safety, resolution |
| `tunnel` | credit, order, arrival and the end of streams |
| `continuations` | prompts injected once, rows that tell the truth, and settle |

`output_delivery`, 3 outputs, 3 connections, 1 fault, a buffer of 2, 1 failed
replay allowed: about 620 000 states.

- `TypeOK`.
- `HeldUntilStored`: an output that has a number above 0 is in the buffer, in
  the transcript, or was given up on by an overflow or a clear.  An ack is
  cumulative, so this relates the proxy's buffer, two connections and the
  watermark of the backend.
- `NumbersUnique`: reloads and clears never turn `next_seq` back.
- `LogSpec`: the transcript implements `DurableLog`, that is, it is filled in
  the order of the numbers.
- `DuplicateTestSound`: what passes the duplicate test is not stored yet,
  unless a restart emptied `last_ack_seq` or the handler of another connection
  that has the same frame stands between its insert (`message_handlers.rs:364`)
  and `record_ack_seq` (line 431).  The rows it would then store twice are
  there in the model; a number recorded late must not turn the watermark back.
- `EventuallyStored`: every numbered output is stored and acknowledged, or
  given up on.

Why these bounds are enough to be interesting: two connections overlap and a
third replays what either left behind; three outputs overflow a buffer of two
and leave one with a higher and a lower neighbour; one fault is enough for a
restart between a store and its ack; one failed replay reaches the clear.

*Bounds.*  `MaxOutputs`, `MaxConns`, `MaxFaults` cap counters in guards.  The
last connection does not fail (`MayLose`): otherwise the bound, not the code,
would strand the buffer.  `CHECK_DEADLOCK` is off because a bounded system
stops once its outputs are stored.

*Fairness.*  Weak fairness of every task of a running process (tokio schedules
a ready task), of `Connect` (the loop retries for ever), and of `Disconnect`
when the other end is gone (the heartbeat watchdog).  None of the losing
actions, agent outputs or faults is fair.

`output_first_lost`: `output_buffer.rs:3-5` says that messages are held until
the backend acknowledges receipt and that none is lost, and
`docs/PROTOCOL.md:122` that an OutputAck confirms storage of all messages up to its number.  The
buffer numbers from 0 and the backend's watermark starts at 0
(`session_tracking.rs:17`), so `handle_agent_output` (`message_handlers.rs:215`)
takes the first output for a duplicate and acknowledges it unstored.  TLC finds
it without a fault.  `HeldUntilStored` therefore speaks of numbers above 0.

`input_delivery`, 2 inputs, 2 browsers, 2 proxy connections, 1 fault, a gate and
an outbox of one entry: about 2 000 000 states.  The browsers are symmetric, and a
constraint (`FaultsAlone`) keeps both at work only while nothing has gone wrong
and the agent has reported nothing: from the first fault, accident or report
on, the run follows the states in which one of them is.  The theorems
`InputKeptUntilTaken` and `InputsInOrder` have no such limit.

- `TypeOK`.
- `KeptUntilTaken`: short of an accident, an input that has a number has its
  row until the agent took it or refused it.  Acks are cumulative and come from
  independent tasks, so the order in which inputs enter the proxy's channel
  carries the property.
- `NothingVanishes`: through accidents too, an input that left its outbox was
  taken, was refused, or is shown as failed.
- `InOrder`: what the agent took implements `DurableLog`: in the order of the
  numbers, nothing skipped that was not refused, but for numbers that got no
  row because the backend restarted between the two statements.
- `ResendsCollapse`: a backend process numbers an input twice only if the gate
  is full, and two rows hold the same input only if the database failed.

`input_resolved`, 1 input, 2 proxy connections, 2 faults: about 98 000 states;
`EventuallyResolved`.  Two faults, so that a restart and a lost browser
connection, or a lost report and a refusal, meet.  One input, so the gate is
never at its limit: with two inputs, a gate and an outbox of one, TLC refutes
the property.  A late report of "accepted" evicts the second input's gate
entry, its resend becomes a new entry in flight and is dropped as a duplicate
of a row, and nothing resolves it.  With the 256 entries of the code that takes
256 inputs between a send and its resend.

*Bounds.*  A gate and an outbox of one entry are full at the second input, and
the first input meets both when they are not.  A second connection is enough
for rows to be replayed beside a channel that still holds them.  As for
output, losses stop at the last connection.  Two browsers are at work at once
so that numbers, rows and sends of two handlers interleave, with each other and
with a registration; with a fault on top of that the state space passes fifteen
million, hence the constraint.  The theorems below have neither bound.

*Fairness.*  Weak fairness of every task of a running process; of `Connect`
(the loop retries for ever), of `Relaunch` when the agent is gone (the launcher
restarts a desired session) and of `Disconnect` when the handler has ended (the
heartbeat).  Also of `WebConnect`: the browser reconnects, but it stops after
ten failed attempts (`component.rs:2685`); then what its outbox holds stays
there, and `EventuallyResolved` does not speak of that.

`input_twice`: `README.md:68-70` of the repository says that a dropped
connection never duplicates a message.  An ack is written to the connection its input
came on; when that one is gone the row stays, and the next registration replays
it although the agent has the input.  The run needs no fault beyond one
dropped proxy connection.  `taken` is therefore a sequence that may repeat, and
the other properties allow it.

`input_overtaken`: the same lines say that a dropped connection never drops a
message, and `docs/PROTOCOL.md:157` that an input is stored until acknowledged.
Input 1 is typed while the proxy is away; input 2 is between its row and its
send when the proxy registers and its handler reads both rows.  The live send of
number 2 gets ahead of the replay, its ack deletes rows 1 and 2, and the
connection is lost before number 1 is read.  Then no row, channel or
agent has number 1.  Its browser still does, but the gate has it in flight and
drops every resend.
`KeptUntilTaken` holds only because overtaking is an accident.

`launch_control`, two launch names, one request, one fault, give-up after two
failures: about 1 500 000 states.

- `TrackedRunsOrReports`: an entry of the launcher's table stands for an agent
  that runs or an exit still to be reported; otherwise heartbeats would say
  "running" for ever.
- `OneBoundToken`: two launches hold a bound token only while a registration is
  between its two updates; nothing is said of there being one at all.
- `PauseOutlastsReconnects`: a pause is undone only by a resume or a first
  registration.
- `DesiredComesBack`, `StoppedEnds`: liveness, but for the registration a stop
  overtakes, under weak fairness of every handler, of the heartbeat, of time (leases and back-offs end) and of the
  reconnection of the launcher; no fault, exit or request is fair.

Two names suffice for a launch beside the one it replaces; the run stops being
small with a third.  `launch_twice` needs two requests (a stop, a resume) and
no fault: `ProcessManager::stop` removes the entry at once, the exit it causes
is read after the next spawn, and `remove_finished` removes the new entry by
session id (`process_manager.rs:713`).  The guard at `process_manager.rs:575-587`
is meant to exclude just that.

`edit_stack`, two items, two frames, one user request, one fault: about 960 000
states; `BackendSendsOnce` (claims against all dispatchers and restarts),
`FinishedStays` (against a dispatcher that read the item earlier, and late
PATCH requests), `StackFollows` (liveness of the chain dispatch, compaction,
timeout, next dispatch).  Fair are the backend's tasks, the agent's turns and
the timer.  Two items are one sent and one that must follow.

`permissions`, two prompts, two connections, one fault, one reload: about 340 000
states.  `EntryHasHandler` and `LiveKeepsEntry`: the entry belongs to a handler
that runs, and no late cleanup takes it from a live connection.
`LiveShownActive`: writers of the status that looked earlier are repaired by
the reconciler.  `RegistrySpec`: refinement.  `LetGoForCause`, `PromptsResolve`,
`RowsClear`: what may make the agent wait for nothing, and nothing else.  Two
prompts are what one slot and one row cannot hold.  Fair are the proxy's
reconnection, handlers, the reconciler, the browser's return, and that a user
answers what is shown.

`tunnel`, one stream, a window of two, three bytes to the browser and one back,
chunks of at most two, one fault: about 234 000 states.  `CreditKept` (sender's
credit, frames both ways, the receiver's book and the grants a full channel
refused make up the window, and no end closes for bytes the other had credit
for), `InOrder`, `AllArrives` (as long as not the whole window was refused),
`BothForget` (unless the close was refused), `NoneOutlives` (with no such
exception).  A channel may be full at any send, so the window can be lost in
one grant of two or in two of one.  Three bytes need a refund before the last; with
one stream the limit of streams refuses nothing, the allow-list does.  Fair are
tasks, frames on a live socket, dials and timeouts, and sources that have
bytes.

`continuations`, one continuation after a limit and one after an overload, one
browser's or proxy's handler beside the launcher's two, one change of the
session, one failure: about 1 400 000 states.

- `InjectedOnce`: a prompt is accepted twice only after the daemon died with
  the claim or the launcher was given a list out of date.
- `RowTellsTrue`: "fired" means injected, "dropped" means not injected, through
  failed sends that may have arrived.
- `Settles`: a scheduled row becomes fired or dropped, unless a cause in the
  model's list stranded it: reconnects alone do not.  Any recorded cause excuses
  it, whether or not that cause was enough, so it says little beyond that.

Fairness is that some step of a handler, of the launcher or of time happens
while one can: each can happen only so often.  Two continuations make a flush
with a tail to keep.  Exits, pauses and edits of the session are bounded, and
with them its starts.  The three invariants also hold with two failures and no
change of the session, about four million states.

*Deadlock.*  `CHECK_DEADLOCK` is off in `edit_stack`, `permissions`, `tunnel`
and `continuations`: with the users' bounded requests used up those systems
stop.

## 4. Theorems

`OutputDeliveryProofs`, for all values of the constants that satisfy
`OutputBounds` (naturals, the two limits of the code positive):

- `TypeCorrect`: `Spec => []TypeOK`.
- `OutputHeld`: `Spec => []HeldUntilStored`.
- `NumbersNeverShared`: `Spec => []NumbersUnique`.
- `DuplicatesTested`: `Spec => DuplicateTestSound`, an action property.
- `TranscriptIsLog`: `Spec => LogSpec`, the refinement of `DurableLog`.

*Why `HeldUntilStored` needs an invariant.*  `ReceiveAck` empties the buffer up
to the acknowledged number, so it is safe only if every lower number is settled
(stored or given up on) whenever an ack is under way.  That holds of the ack
only if it held when the backend tested and stored the frame, steps before it
sent the ack, which holds only
if everything below the frame was either stored or ahead of it on the same
wire.  The invariant `Inv` says so, in named parts, for runs with no accident:
every number below `next_seq` was pushed and none above (`Numbering`); every
ack under way, the watermark and the proxy's own ack cover settled numbers only
(`AcksKnown`); on each wire and in each handler, whatever precedes a frame is settled
or earlier on that connection (`WiresGapFree`); the frames that wait between a push and
a send (`Staged`), and what the current connection has sent (`ConnectionSent`),
leave no gap either; and what is pushed is pending or settled (`Held`).  One lemma
per action shows that it keeps the invariant.

`NumbersUnique` rests on a smaller one: every pushed number is below
`next_seq`, in memory and, short of a crash, at each reload.

The last two compare frames with rows, so they need identities (`IdentityInv`),
which hold through every accident: whatever is buffered, persisted, on a wire, in a
handler or stored was pushed (`OnlyPushed`), an output is pushed once at most
(`IdsOnce`: ids are taken off a queue that holds each once), the backend's
watermark covers its rows until it restarts, but for those whose number a handler
has yet to record (`LastAckKnows`; a handler has one frame at a time,
`OneInHand`), and, short of an
accident, no number below `next_seq` was skipped (`NoneSkipped`).  The frame a
handler stores then has every lower number among the rows or given up on, which is
the guard of `DurableLog`'s `Keep`; every other step is its `Number`, its
`GiveUp` or its `Lapse`.

`PermissionsProofs`, for any set of messages and any bounds:

- `PermissionsTypeOK`: `Spec => []TypeOK`.
- `PermissionsEntryHasHandler`: `Spec => []EntryHasHandler`.
- `PermissionsUseRegistry`: `Spec => RegistrySpec`, the refinement.
- `PermissionsLiveKeepsEntry`: `Spec => LiveKeepsEntry`, an action property.
- `PromptLetGoForCause`: `Spec => LetGoForCause`, an action property.

The registry's properties are proved of `RegistrySpec` and come to
`Permissions` by the refinement.  `EntryHasHandler` alone is not inductive: the
sweep evicts an entry on an earlier judgement, and the insertion replaces an
entry of a handler that is still to clean up.  `RegistryInv` adds that the
connection the proxy holds and was acknowledged on has an open handler
(`DialledIsServed`) and that whom the sweep judged has been left
(`VictimIsGone`); with the types these are inductive, one step per action.

`LetGoForCause` rests on `PromptInv`: a cancellation anywhere between the agent
and the backend is of a request the agent has withdrawn (`Cancels`), so a
cancellation read can only take the row of a request nobody waits on; a request
is under way once at most (`AskedOnce`), so the one that is taken is the one
that was in hand; frames that are under way have an open reader (`ReadByOpen`).

`LaunchControlProofs`, for any finite set of launches, any number of failures
before the reconciler gives up, and any bounds:

- `LaunchControlTypeOK`: `Spec => []TypeOK`.
- `EntryRunsOrReports`: `Spec => []TrackedRunsOrReports`.
- `OneTokenIsBound`: `Spec => []OneBoundToken`.
- `PauseIsKept`: `Spec => PauseOutlastsReconnects`, an action property.

The two invariants are inductive with the types: an entry changes only with the
spawn that fills it, an exit is in the channel from the moment the task ends to
the moment the entry goes, and only a registration binds a token, which leaves
its socket between the two updates; who makes the second leaves no bound token
but its own.

`EditStackProofs`, for any number of items and any bounds:

- `EditStackTypeOK`: `Spec => []TypeOK`.  It needs `AckInv`, that the rows the
  agent has accepted are as many as the acknowledgements on their way: else an
  acknowledgement could find no row to delete.
- `BackendSendsItemOnce`: `Spec => []BackendSendsOnce`.  It needs `SendsInv`: a
  dispatcher past its claim owns its item alone, the item is not pending and
  has not been sent, and an item that is pending never was.
- `FinishedItemStays`: `Spec => FinishedStays`, an action property.

`InputDeliveryProofs`, for any number of inputs, browsers, connections and
faults, and positive capacities of outbox and gate:

- `InputTypeOK`: `Spec => []TypeOK`.
- `NoInputVanishes`: `Spec => []NothingVanishes`, with every fault and accident.
- `InputKeptUntilTaken`: `Spec => []KeptUntilTaken`.
- `InputsInOrder`: `Spec => InOrder`, the refinement of `DurableLog`.
- `ResendsAreIdempotent`: `Spec => ResendsCollapse`, an action property.

*What is claimed has happened.*  A browser drops an input on a report, so nothing
vanishes only if reports are true.  `Settled` says that of the whole chain: a gate
entry with an outcome, a report to the backend and a completion in the agent's
task each speak of an input the agent took or refused.  It is inductive with
the types, whatever restarts, and `Accounted` follows it step by step.

*No gap.*  `KeptUntilTaken` needs more, because an ack of a number deletes every
lower row.  Short of an accident (`Clean`), whatever the agent takes next is the
lowest number not settled: `OrderInv` says that the list of those taken, the
agent's queue, the proxy's inbox with the wire behind it, and the rows a replay has
yet to send each leave out no lower number that is not ahead of them
(`Gapless`), that a serving connection has been sent all that was numbered
(`ServesAll`), that a number is given once (`Numbering`), that a handler has one
input in hand (`OneEach`), and that what was read for a replay has above it every
number whose row was missing (`NumberedAhead`, part of `Gapless`).  A number whose
row a restart prevented is skipped (`Skipped`).  The refinement then maps each step to a step of the log or a
stutter (`LogStep`): taking an input appends the lowest number left, and no other
step changes what is kept.

*Resending.*  `ResendsCollapse` needs that the gate knows every input this
backend numbered as long as fewer were typed than it has room for
(`GateComplete`); that an entry is evicted only beyond that follows from
counting its entries, which are distinct (`GateOnce`) and all typed
(`TypedOnly`).  That two rows hold an input only after the database failed is
`RowsOnce`: the input in a handler's hand belongs to its browser alone
(`Owned`), so between look-up and `INSERT` no other handler writes its row
(`RowFree`).  All are inductive together (`ResendInv`, `Owned`).

`TunnelProofs`, for any finite set of streams, any window, chunk and slot count
that are positive, and any number of bytes and faults:

- `TunnelTypeOK`: `Spec => []TypeOK`.
- `CreditIsKept`: `Spec => []CreditKept`, with refused grants counted.
- `BytesInOrder`: `Spec => []InOrder`.

Credit is kept only if frames are on the one plane the stream was opened on
(`Pinned`), nothing but the handshake is under way before both know the stream (`Fresh`,
`Undialled`), the open comes first and once (`OneOpen`), and a plane counted as up
is one both ends take frames from (`LinksKnown`).  With those, `IInv` states for
each end that its book and what is queued for it make up the window (`Booked`)
and that what a sender may send, holds, has sent, will be granted and was refused
(`Total`, with `Missing`) is at most the window, and equal to it while both ends live and the plane is up (`Credited`,
`Whole`).  The second half of `CreditKept`, that no end is closed for bytes the
other had credit for, is `Booked` again.  For the order of bytes, `Turned` lays
marks along inbox and wire: each data frame starts one byte after the mark
before it and ends at the mark after it, from the last byte written to the
last byte read.  A step touches one stream or, when a socket goes, every stream
alike; lemmas about one stream's step (`SendStep`, `ReadStep`, `WriteStep`,
`GrantStep`, `IngestStep`, `DropStep`, ...) say what becomes of each part, and
each action is shown to be one of them and nothing elsewhere.

`ContinuationsProofs`, for any finite set of continuations and overload
retries, and any number of edits, pauses, lost connections and restarts:

- `ContinuationsTypeOK`: `Spec => []TypeOK`.  It needs `EditsCounted`: each edit
  of the session is one of the counted changes.
- `PromptInjectedOnce`: `Spec => []InjectedOnce`.
- `RowsTellTrue`: `Spec => []RowTellsTrue`.

*What a prompt can come from.*  `Tokens(c)` counts the deliveries queued for
`c`, its frames to the backend on either connection, its launch on the way
back and its injections.  `InjectedOnce` holds because that is at most one, and
each step moves a token or loses it: `WorkOf` and `Sent` make one frame that asks
of each delivery at most (`FlushedWell`), and a launch is asked for once.  A token is
made only where a claim is, of a configuration that is armed, so what must not
happen is that a claim is let go and the prompt armed again.  Both are done by
lists, which are taken long after they were made.  `Story` therefore speaks of
all `Places` of lists on their way: a scheduled prompt is in all lists from some
on (`Grow`), in every one once it was claimed or armed (`AllLists`); one that is
over is in those up to some (`Shrink`), in none once its claim was released
(`NoList`).  That is inductive as long as lists are loaded whole and sent in the
order they were loaded, and no daemon died with a claim (`Excused` is the case where this fails).

*What a row says.*  `Reports` says of a report not read yet that it is behind its
injection on the same connection (`Paired`), and needs no excuse.  A row is
"dropped" by the handler that takes the prompt's only token, which `Story` keeps.
Steps that tell a continuation nothing new (`Quiet`), and leave a part of the lists in
their order (`Embeds`), are shown to keep both parts by one lemma.

Only model-checked:

- Liveness and `ENABLED`, beyond the prover: `EventuallyStored`,
  `EventuallyResolved`, `DesiredComesBack`, `StoppedEnds`, `StackFollows`,
  `LiveShownActive`, `PromptsResolve`, `RowsClear`, `AllArrives`, `BothForget`,
  `NoneOutlives` and `Settles`.

## 5. Findings

Four, each with its run above: the first output of a session is acknowledged
but not stored (`output_first_lost`), a dropped proxy connection makes the
agent take an input twice (`input_twice`), an ack deletes the row of a lower
number that was overtaken (`input_overtaken`), and a stop followed by a resume
runs two agents of one session (`launch_twice`).  Section 2 names, under "seen
in the code", what else the models had to allow.

## 6. Not modelled, and the plan

- HTTP API, persistence, retention, front ends, libraries: most of the
  repository's lines.  Requests over rows, rendering, parsing and wire types;
  what TLC could say of them is what a unit test says.
- Scheduled tasks of the launcher's scheduler: cron arithmetic, with the
  delivery that `Continuations` shows.
- Agent I/O tasks of the four agents: `InputDelivery` has the verdict on an
  input and `OutputDelivery` the order of outputs; the translation of each
  agent's own protocol is left out.
- File transfer, the context inbox, replies to launcher requests other than
  launches, device flow and federation, browser fan-out.

Next, in this order:

1. Composition of `InputDelivery` with `ProxyRegistry`, whose queue it argues away
   in a comment.
2. The turn tracker and Codex's turns; file transfer; launcher RPC.
