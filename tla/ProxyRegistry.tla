--------------------------- MODULE ProxyRegistry ---------------------------
(***************************************************************************)
(* One session's proxy connections as the backend keeps them: the entry of *)
(* SessionManager.sessions, the queue of messages for an absent proxy, and *)
(* the status column of the session's row.                                 *)
(*                                                                         *)
(* A connection is a number; it stands for the socket, its handler task    *)
(* and its generation, which the code only compares for equality.  The     *)
(* handler of a connection takes several steps to register and several to  *)
(* clean up, and the handlers of two connections of one session interleave.*)
(* A Register frame the proxy has given up on (it waits ten seconds for    *)
(* the acknowledgment) is served all the same.                             *)
(*                                                                         *)
(* Abstracted: refused registrations (LaunchControl has them), the age and *)
(* the cap of a queue (old messages are dropped, any number of them),      *)
(* writers of the status column that belong to the launcher.  The liveness *)
(* sweep judges only connections the proxy has left: a proxy that is there *)
(* sends heartbeats well within the deadline.                              *)
(***************************************************************************)
EXTENDS Integers, Sequences

CONSTANTS
    Messages,       \* what the backend has to tell the proxy
    MaxConns,       \* connections the proxy opens
    MaxFaults       \* connections lost and backend restarts

ASSUME RegistryAssumption ==
    /\ Messages \subseteq Nat \ {0}
    /\ MaxFaults \in Nat
    /\ MaxConns \in Nat /\ MaxConns > MaxFaults

Conns == 1..MaxConns
None == 0
RegisterAck == 0

VARIABLES
    sock,           \* what the backend's handler of a connection is at
    registered,     \* SessionManager.sessions: the connection of the entry
    status,         \* sessions.status
    queue,          \* SessionManager.pending_messages
    down,           \* frames on their way to the proxy, per connection
    dialled,        \* the connection the proxy holds
    heard,          \* the proxy has read the RegisterAck of that connection
    victim,         \* the connection the liveness sweep judged silent
    healing,        \* the status reconciler has read that the session is live
    grace,          \* the stale-session cleanup of the last start
    faults

registryVars == <<sock, registered, status, queue, down, dialled, heard,
                  victim, healing, grace, faults>>
proxySide == <<dialled, heard, faults>>
background == <<victim, healing, grace>>

Steps == {"unused", "dialled", "admitted", "drained", "entered", "open",
          "closing", "reported", "closed"}

RegistryTypeOK ==
    /\ sock \in [Conns -> Steps]
    /\ registered \in Conns \cup {None}
    /\ status \in {"active", "disconnected"}
    /\ queue \in Seq(Messages)
    /\ down \in [Conns -> Seq(Messages \cup {RegisterAck})]
    /\ dialled \in Conns \cup {None}
    /\ heard \in BOOLEAN
    /\ victim \in Conns \cup {None}
    /\ healing \in BOOLEAN
    /\ grace \in {"waiting", "stale", "done"}
    /\ faults \in 0..MaxFaults

\* The proxy has not dialled yet; the backend has been up for a while.
RegistryInit ==
    /\ sock = [c \in Conns |-> "unused"]
    /\ registered = None
    /\ status = "disconnected"
    /\ queue = <<>>
    /\ down = [c \in Conns |-> <<>>]
    /\ dialled = None
    /\ heard = FALSE
    /\ victim = None
    /\ healing = FALSE
    /\ grace = "done"
    /\ faults = 0

At(c, step) == sock' = [sock EXCEPT ![c] = step]

\* Frames written to a connection the proxy has left reach nobody.
Written(c, ms) == IF dialled = c THEN [down EXCEPT ![c] = @ \o ms] ELSE down

-----------------------------------------------------------------------------
(* The proxy                                                               *)

\* connect_to_backend and the Register frame of register_session.
Dial(c) ==
    /\ dialled = None
    /\ sock[c] = "unused"
    /\ \A b \in Conns : b < c => sock[b] # "unused"
    /\ dialled' = c
    /\ heard' = FALSE
    /\ At(c, "dialled")
    /\ UNCHANGED <<registered, status, queue, down, background, faults>>

\* register_session drops every frame that precedes the RegisterAck.
Discards(m) == ~heard /\ m # RegisterAck

\* The proxy takes the next frame m off its connection.
Reads(c, m) ==
    /\ dialled = c
    /\ down[c] # <<>>
    /\ m = Head(down[c])
    /\ down' = [down EXCEPT ![c] = Tail(@)]
    /\ heard' = (heard \/ m = RegisterAck)
    /\ UNCHANGED <<sock, registered, status, queue, dialled, background, faults>>

\* The connection breaks, or the RegisterAck does not come in time.
Leaves(c) ==
    /\ faults < MaxFaults
    /\ faults' = faults + 1
    /\ dialled = c
    /\ dialled' = None
    /\ heard' = FALSE
    /\ down' = [down EXCEPT ![c] = <<>>]
    /\ UNCHANGED <<sock, registered, status, queue, background>>

-----------------------------------------------------------------------------
(* A connection's handler                                                  *)

\* register_or_update_session: the row turns active before the connection
\* is known to the session manager.
Admit(c) ==
    /\ sock[c] = "dialled"
    /\ At(c, "admitted")
    /\ status' = "active"
    /\ UNCHANGED <<registered, queue, down, proxySide, background>>

\* replay_pending_messages: the queue is emptied into the connection's
\* channel, less what has grown too old.
Drain(c) ==
    /\ sock[c] = "admitted"
    /\ At(c, "drained")
    /\ \E old \in 0..Len(queue) :
          down' = Written(c, SubSeq(queue, old + 1, Len(queue)))
    /\ queue' = <<>>
    /\ UNCHANGED <<registered, status, proxySide, background>>

\* The entry, whoever it was before, is this connection's now.
Insert(c) ==
    /\ sock[c] = "drained"
    /\ At(c, "entered")
    /\ registered' = c
    /\ UNCHANGED <<status, queue, down, proxySide, background>>

\* Mutant: the reply goes through the session manager, as other messages do,
\* and not through the handler's own end of the channel.
AcknowledgedByKey(c) ==
    /\ sock[c] = "entered"
    /\ At(c, "open")
    /\ IF registered = None
       THEN queue' = Append(queue, RegisterAck) /\ UNCHANGED down
       ELSE down' = Written(registered, <<RegisterAck>>) /\ UNCHANGED queue
    /\ UNCHANGED <<registered, status, proxySide, background>>

Acknowledge(c) ==
    /\ sock[c] = "entered"
    /\ At(c, "open")
    /\ down' = Written(c, <<RegisterAck>>)
    /\ UNCHANGED <<registered, status, queue, proxySide, background>>

\* Mutant: the generation is compared with the last one given out.
IsNewest(c) == \A b \in Conns : b > c => sock[b] = "unused"

\* is_current_connection: an absent entry counts as this connection's.
IsCurrent(c) == registered \in {None, c}

\* The handler finds its socket closed, or its cancel token fired, and asks
\* whether a newer connection has the entry; a stale handler cleans nothing up.
Closes(c) ==
    /\ dialled # c
    /\ \/ sock[c] = "dialled" /\ At(c, "closed")
       \/ sock[c] = "open" /\ At(c, IF IsCurrent(c) THEN "closing" ELSE "closed")
    /\ UNCHANGED <<registered, status, queue, down, proxySide, background>>

\* The answer to that question may be old by now.
WriteDisconnected(c) ==
    /\ sock[c] = "closing"
    /\ At(c, "reported")
    /\ status' = "disconnected"
    /\ UNCHANGED <<registered, queue, down, proxySide, background>>

\* Mutant: the entry is removed by session id alone.
WithoutAny(c) == None

\* unregister_session and evict_dead_connection remove an entry only if it
\* is still the one they mean.
Without(c) == IF registered = c THEN None ELSE registered

Unregister(c) ==
    /\ sock[c] = "reported"
    /\ At(c, "closed")
    /\ registered' = Without(c)
    /\ UNCHANGED <<status, queue, down, proxySide, background>>

-----------------------------------------------------------------------------
(* Messages for the proxy                                                  *)

SendLive(m) ==
    /\ registered # None
    /\ down' = Written(registered, <<m>>)
    /\ UNCHANGED <<registered, queue>>

\* The channel of the entry turns out closed (its writer met a broken
\* socket): the entry goes, and the message is queued.
SendEvicts(m) ==
    /\ registered # None
    /\ dialled # registered
    /\ registered' = None
    /\ queue' = Append(queue, m)
    /\ UNCHANGED down

SendQueued(m) ==
    /\ registered = None
    /\ queue' = Append(queue, m)
    /\ UNCHANGED <<registered, down>>

SendOrQueue(m) ==
    /\ SendLive(m) \/ SendEvicts(m) \/ SendQueued(m)
    /\ UNCHANGED <<sock, status, proxySide, background>>

-----------------------------------------------------------------------------
(* Background tasks                                                        *)

\* sweep_stale_connections judges first and evicts afterwards.
SweepJudges ==
    /\ registered # None
    /\ dialled # registered
    /\ victim' = registered
    /\ UNCHANGED <<sock, registered, status, queue, down, proxySide, healing, grace>>

SweepEvicts ==
    /\ victim # None
    /\ registered' = Without(victim)
    /\ victim' = None
    /\ UNCHANGED <<sock, status, queue, down, proxySide, healing, grace>>

\* reconcile_session_status reads who is registered, and writes later.
HealLooks ==
    /\ registered # None
    /\ healing' = TRUE
    /\ UNCHANGED <<sock, registered, status, queue, down, proxySide, victim, grace>>

\* Mutant: the filter of the update names the other status.
HealsActive ==
    /\ healing
    /\ status' = IF status = "active" THEN "active" ELSE status
    /\ healing' = FALSE
    /\ UNCHANGED <<sock, registered, queue, down, proxySide, victim, grace>>

HealWrites ==
    /\ healing
    /\ status' = "active"
    /\ healing' = FALSE
    /\ UNCHANGED <<sock, registered, queue, down, proxySide, victim, grace>>

\* spawn_stale_session_cleanup, once after a start: a row that is active
\* without an entry is to be written disconnected ...
GraceLooks ==
    /\ grace = "waiting"
    /\ grace' = IF status = "active" /\ registered = None THEN "stale" ELSE "done"
    /\ UNCHANGED <<sock, registered, status, queue, down, proxySide, victim, healing>>

\* ... and is, whoever registered since the entries were read.
GraceWrites ==
    /\ grace = "stale"
    /\ grace' = "done"
    /\ status' = "disconnected"
    /\ UNCHANGED <<sock, registered, queue, down, proxySide, victim, healing>>

\* The backend restarts: only the rows survive.
Restart ==
    /\ faults < MaxFaults
    /\ faults' = faults + 1
    /\ sock' = [c \in Conns |-> IF sock[c] = "unused" THEN "unused" ELSE "closed"]
    /\ registered' = None
    /\ queue' = <<>>
    /\ down' = [c \in Conns |-> <<>>]
    /\ dialled' = None
    /\ heard' = FALSE
    /\ victim' = None
    /\ healing' = FALSE
    /\ grace' = "waiting"
    /\ UNCHANGED status

-----------------------------------------------------------------------------

Handler(c) ==
    \/ Admit(c) \/ Drain(c) \/ Insert(c) \/ Acknowledge(c)
    \/ Closes(c) \/ WriteDisconnected(c) \/ Unregister(c)

Background == SweepJudges \/ SweepEvicts \/ HealLooks \/ HealWrites
              \/ GraceLooks \/ GraceWrites

RegistryNext ==
    \/ \E c \in Conns :
          \/ Dial(c) \/ Leaves(c) \/ Handler(c)
          \/ \E m \in Messages \cup {RegisterAck} : Reads(c, m)
    \/ \E m \in Messages : SendOrQueue(m)
    \/ Background
    \/ Restart

RegistrySpec == RegistryInit /\ [][RegistryNext]_registryVars

-----------------------------------------------------------------------------
(* Properties                                                              *)

\* An entry never outlives the handler of its connection, nor precedes it:
\* otherwise messages would be sent to a channel nobody reads, and nothing
\* would ever remove the entry.
EntryHasHandler ==
    registered # None => sock[registered] \in {"entered", "open", "closing", "reported"}

\* Cleanup of an old connection, an eviction or the sweep never takes the
\* entry of the connection the proxy holds; only a registration replaces it.
LiveKeepsEntry ==
    [][ registered # None /\ registered = dialled /\ dialled' = dialled
        => registered' # None ]_registryVars

\* A session with a registered connection is not shown as disconnected for
\* ever, whichever of the late writes hit its row.
LiveShownActive == (registered # None) ~> (registered = None \/ status = "active")
=============================================================================
