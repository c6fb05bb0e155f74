---------------------------- MODULE Continuations ----------------------------
(***************************************************************************)
(* One-shot prompts that continue a session after a usage limit or a       *)
(* provider overload: the row of each in the database, the lists of        *)
(* scheduled rows the backend sends to the launcher, the launcher's        *)
(* scheduler with its claims, its supervisor with the deliveries it keeps  *)
(* over a reconnect, and the relaunch of a session that no longer runs.    *)
(*                                                                         *)
(* All continuations are of one session of one launcher.  A list is loaded *)
(* and sent by whichever handler changed a row, so the handlers are named: *)
(* those of browsers and proxies, of the launcher's live connection and of *)
(* the one it left, which may still be reading.                            *)
(*                                                                         *)
(* Abstracted: a pause check that fails, after which a paused session is   *)
(* launched all the same.                                                  *)
(***************************************************************************)
EXTENDS Naturals, Sequences, SequencesExt

CONSTANTS Ids,        \* continuations
          Overloads,  \* those whose reason is an overload, not a limit
          Hubs,       \* handlers of browsers and proxies
          MaxChanges, \* bound: exits, pauses and edits of the session
          MaxFaults   \* bound: failures and restarts

ASSUME IdsAssumption == IsFiniteSet(Ids) /\ Overloads \subseteq Ids
ASSUME HubsAssumption == Hubs \cap {"live", "left"} = {}
ASSUME BoundsAssumption == MaxChanges \in Nat /\ MaxFaults \in Nat

VARIABLES
  row,       \* session_continuations.status of each
  edits,     \* the session's details a ContinuationConfig repeats
  paused,    \* sessions.paused
  running,   \* the launcher runs the session
  loading,   \* handlers that changed a row and have yet to load the list
  loaded,    \* lists loaded and not yet sent, in the order of loading
  link,      \* the launcher's socket; "dead" is lost, and not noticed
  up,        \* frames each of the launcher's connections has yet to read
  down,      \* frames to the launcher
  armed,     \* Scheduler.continuations
  claimed,   \* Scheduler.claimed_continuations
  launches,  \* Scheduler.pending_launches
  synced, snapshot, \* LauncherConnectionSupervisor.continuations
  queue,     \* LauncherConnectionSupervisor.pending
  injected,  \* how often each prompt was accepted as input
  cause,     \* why a continuation may be left as it is
  misled,    \* the launcher was, or will be, given a list out of date
  changes, faults

database == <<row, edits, paused>>
syncs == <<loading, loaded>>
wire == <<link, up, down>>
scheduler == <<armed, claimed, launches>>
supervisor == <<synced, snapshot, queue>>
history == <<injected, cause, misled>>
spent == <<changes, faults>>
vars == <<database, running, syncs, wire, scheduler, supervisor, history, spent>>

Connections == {"live", "left"}
Handlers == Connections \cup Hubs
Statuses == {"none", "pending", "scheduled", "fired", "dropped"}
Causes == {"lost", "unspawned", "unstored", "edited", "restarted"}

Configs == [id : Ids, edit : 0..MaxChanges]
Deliveries == [config : Configs, kind : {"inject", "launch"}]
UpFrames == [kind : {"inject", "fired", "launch"}, id : Ids]
Frame(kind, c) == [kind |-> kind, id |-> c]
SyncFrame(configs) == [kind |-> "sync", configs |-> configs]
DownFrames == [kind : {"launch"}, id : Ids] \cup [kind : {"sync"}, configs : SUBSET Configs]

TypeOK ==
    /\ row \in [Ids -> Statuses] /\ edits \in 0..MaxChanges /\ paused \in BOOLEAN
    /\ running \in BOOLEAN
    /\ loading \subseteq Handlers
    /\ loaded \in Seq([by : Handlers, configs : SUBSET Configs])
    /\ link \in {"up", "dead", "down"}
    /\ up \in [Connections -> Seq(UpFrames)]
    /\ down \in Seq(DownFrames)
    /\ armed \subseteq Configs /\ claimed \subseteq Ids /\ launches \subseteq Ids
    /\ synced \in BOOLEAN /\ snapshot \subseteq Configs
    /\ queue \in Seq(Deliveries)
    /\ injected \in [Ids -> 0..2]
    /\ cause \in [Ids -> SUBSET Causes]
    /\ misled \in BOOLEAN
    /\ changes \in 0..MaxChanges /\ faults \in 0..MaxFaults

Init ==
    /\ row = [c \in Ids |-> "none"] /\ edits = 0 /\ paused = FALSE
    /\ running = TRUE
    /\ loading = {} /\ loaded = <<>>
    /\ link = "up" /\ up = [h \in Connections |-> <<>>] /\ down = <<>>
    /\ armed = {} /\ claimed = {} /\ launches = {}
    /\ synced = TRUE /\ snapshot = {} /\ queue = <<>>
    /\ injected = [c \in Ids |-> 0] /\ cause = [c \in Ids |-> {}]
    /\ misled = FALSE
    /\ changes = 0 /\ faults = 0

Fault == faults < MaxFaults /\ faults' = faults + 1 /\ UNCHANGED changes
NoFault == UNCHANGED spent
Change == changes < MaxChanges /\ changes' = changes + 1 /\ UNCHANGED faults

Busy == loading \cup {loaded[k].by : k \in DOMAIN loaded}
IdsOf(frames) == {frames[k].id : k \in DOMAIN frames}
LaunchesOf(frames) == {frames[k].id : k \in {j \in DOMAIN frames : frames[j].kind = "launch"}}
Blame(why, ids) == [c \in Ids |-> IF c \in ids THEN cause[c] \cup {why} ELSE cause[c]]

\* What the rows say should be scheduled.
ScheduledConfigs == [id : {c \in Ids : row[c] = "scheduled"}, edit : {edits}]

\* send_to_launcher: what a dead socket is given is lost.
SendDown(frame) == down' = IF link = "up" THEN Append(down, frame) ELSE down

-----------------------------------------------------------------------------
(* The rows                                                                *)

\* handle_session_limit_reached; the row waits for the user.
LimitReached(h, c) ==
    /\ c \notin Overloads
    /\ row[c] = "none" /\ running /\ h \notin Busy
    /\ row' = [row EXCEPT ![c] = "pending"]
    /\ loading' = loading \cup {h}
    /\ UNCHANGED <<edits, paused, running, loaded, wire, scheduler, supervisor, history, spent>>

\* schedule_overloaded_retry, while the session's proxy is connected.
Overloaded(h, c) ==
    /\ c \in Overloads
    /\ row[c] = "none" /\ running /\ h \notin Busy
    /\ row' = [row EXCEPT ![c] = "scheduled"]
    /\ loading' = loading \cup {h}
    /\ UNCHANGED <<edits, paused, running, loaded, wire, scheduler, supervisor, history, spent>>

\* schedule_limit_continuation.
UserSchedules(h, c) ==
    /\ row[c] = "pending" /\ h \notin Busy
    /\ row' = [row EXCEPT ![c] = "scheduled"]
    /\ loading' = loading \cup {h}
    /\ UNCHANGED <<edits, paused, running, loaded, wire, scheduler, supervisor, history, spent>>

\* load_scheduled_continuations; without a database the list is empty.
Load(h) ==
    /\ h \in loading
    /\ loading' = loading \ {h}
    /\ \/ /\ loaded' = Append(loaded, [by |-> h, configs |-> ScheduledConfigs])
          /\ NoFault /\ UNCHANGED misled
       \/ /\ ScheduledConfigs # {}
          /\ loaded' = Append(loaded, [by |-> h, configs |-> {}])
          /\ Fault /\ misled' = TRUE
    /\ UNCHANGED <<database, running, wire, scheduler, supervisor, injected, cause>>

\* The rest of sync_continuations_for_launcher.  Handlers run at once, so the
\* k-th list loaded may be sent before those loaded earlier.
SendSync(k) ==
    /\ k \in DOMAIN loaded
    /\ loaded' = RemoveAt(loaded, k)
    /\ SendDown(SyncFrame(loaded[k].configs))
    /\ misled' = (misled \/ /\ link = "up"
                            /\ \E j \in 1..(k - 1) : loaded[j].configs # loaded[k].configs)
    /\ UNCHANGED <<database, running, loading, link, up, scheduler, supervisor,
                   injected, cause, spent>>

-----------------------------------------------------------------------------
(* The handlers of the launcher's connections                              *)

Inject(c) ==
    /\ injected' = [injected EXCEPT ![c] = IF @ < 2 THEN @ + 1 ELSE @]
    /\ UNCHANGED <<row, loading, down, cause>>

\* MUTANT: a drop is recorded as the "failed" the browser is shown.
MarkFailed(h, c, status) ==
    /\ row' = [row EXCEPT ![c] = IF status = "dropped" THEN "failed" ELSE status]
    /\ loading' = loading \cup {h}
    /\ UNCHANGED <<injected, down, cause>>

\* update_terminal_status, whatever the status was.
MarkTerminal(h, c, status) ==
    /\ row' = [row EXCEPT ![c] = status]
    /\ loading' = loading \cup {h}
    /\ UNCHANGED <<injected, down, cause>>

RequestLaunch(h, c) ==
    IF paused THEN MarkTerminal(h, c, "dropped")
    ELSE /\ SendDown(Frame("launch", c))
         /\ cause' = IF link = "up" THEN cause ELSE Blame("lost", {c})
         /\ UNCHANGED <<row, loading, injected>>

Ready(h) == up[h] # <<>> /\ h \notin Busy

\* handle_launcher_message: InjectInput, ContinuationFired, RequestLaunch.
TakeUp(h) ==
    /\ Ready(h)
    /\ LET f == Head(up[h]) IN
          CASE f.kind = "inject" -> Inject(f.id)
            [] f.kind = "fired"  -> MarkTerminal(h, f.id, "fired")
            [] f.kind = "launch" -> RequestLaunch(h, f.id)
    /\ up' = [up EXCEPT ![h] = Tail(@)]
    /\ UNCHANGED <<edits, paused, running, loaded, link, scheduler, supervisor,
                   misled, spent>>

\* Without a database, or a token, the handler logs and returns.
HandlerFails(h) ==
    /\ Ready(h)
    /\ Fault
    /\ LET f == Head(up[h]) IN
          cause' = Blame(IF f.kind = "inject" THEN "unstored" ELSE "lost", {f.id})
    /\ up' = [up EXCEPT ![h] = Tail(@)]
    /\ UNCHANGED <<database, running, syncs, link, down, scheduler, supervisor, injected, misled>>

-----------------------------------------------------------------------------
(* The launcher's loop                                                     *)

Authorized(delivery, configs) == delivery.config \in configs

\* MUTANT: the launcher reports first and injects then.
FiredFirst(delivery) ==
    LET c == delivery.config.id IN
    IF delivery.kind = "inject" THEN <<Frame("fired", c), Frame("inject", c)>>
    ELSE <<Frame("launch", c)>>

FramesOf(delivery) ==
    LET c == delivery.config.id IN
    IF delivery.kind = "inject" THEN <<Frame("inject", c), Frame("fired", c)>>
    ELSE <<Frame("launch", c)>>

DeliveryIds(deliveries) == {deliveries[k].config.id : k \in DOMAIN deliveries}
Allowed(work, configs) ==
    {work[k].config.id : k \in {j \in DOMAIN work : Authorized(work[j], configs)}}
Discarded(work, configs) ==
    {work[k].config.id : k \in {j \in DOMAIN work : ~Authorized(work[j], configs)}}

\* The frames of one delivery after the other, short of those discarded.
Sent(work, configs) ==
    LET upTo[n \in 0..Len(work)] ==
            IF n = 0 THEN <<>>
            ELSE upTo[n - 1] \o IF Authorized(work[n], configs) THEN FramesOf(work[n]) ELSE <<>>
    IN  upTo[Len(work)]

\* flush over a socket that works: work the list no longer holds is discarded
\* and its launch forgotten, though its claim stays.
FlushUp(work, configs, pending) ==
    /\ link = "up"
    /\ up' = [up EXCEPT !["live"] = @ \o Sent(work, configs)]
    /\ queue' = <<>>
    /\ launches' = pending \ Discarded(work, configs)
    /\ cause' = Blame("edited", Discarded(work, configs))
    /\ UNCHANGED link

\* flush over a dead socket: the sends succeed into nothing, or one fails,
\* which ends the connection and keeps the deliveries after it.
FlushDead(work, configs, pending) ==
    /\ link = "dead"
    /\ \E k \in 1..Len(work) :
          LET tried == SubSeq(work, 1, k) IN
          /\ link' \in IF k = Len(work) THEN {"dead", "down"} ELSE {"down"}
          /\ queue' = SubSeq(work, k + 1, Len(work))
          /\ launches' = pending \ Discarded(tried, configs)
          /\ cause' = [c \in Ids |->
                 Blame("edited", Discarded(tried, configs))[c]
                 \cup IF c \in Allowed(tried, configs) THEN {"lost"} ELSE {}]
    /\ UNCHANGED up

Flush(work, configs, pending) ==
    FlushUp(work, configs, pending) \/ FlushDead(work, configs, pending)

\* ready_continuations and due_continuations: what is due is claimed, and
\* injected if its session runs, else the session's launch is asked for.
Due(configs) ==
    /\ link # "down" /\ synced
    /\ configs # {} /\ configs \subseteq armed
    /\ armed' = armed \ configs
    /\ claimed' = claimed \cup {config.id : config \in configs}
    /\ \E order \in SetToSeqs(configs) :
          LET work == [k \in DOMAIN order |->
                          [config |-> order[k],
                           kind |-> IF running THEN "inject" ELSE "launch"]]
          IN  Flush(queue \o work, snapshot,
                    IF running THEN launches ELSE launches \cup DeliveryIds(work))
    /\ UNCHANGED <<database, running, syncs, down, synced, snapshot, injected, misled, spent>>

\* MUTANT: a list arms what is claimed as well.
TakeSyncUnclaimed ==
    /\ link = "up" /\ down # <<>> /\ Head(down).kind = "sync"
    /\ LET configs == Head(down).configs IN
          /\ synced' = TRUE /\ snapshot' = configs
          /\ claimed' = claimed \cap {config.id : config \in configs}
          /\ armed' = configs
          /\ FlushUp(queue, configs, launches)
    /\ down' = Tail(down)
    /\ UNCHANGED <<database, running, syncs, injected, misled, spent>>

\* observe, update_continuations and flush.
TakeSync ==
    /\ link = "up" /\ down # <<>> /\ Head(down).kind = "sync"
    /\ LET configs == Head(down).configs IN
          /\ synced' = TRUE /\ snapshot' = configs
          /\ claimed' = claimed \cap {config.id : config \in configs}
          /\ armed' = {config \in configs : config.id \notin claimed}
          /\ FlushUp(queue, configs, launches)
    /\ down' = Tail(down)
    /\ UNCHANGED <<database, running, syncs, injected, misled, spent>>

\* LaunchSession: the launch of a continuation injects its prompt past the
\* supervisor's queue; one the scheduler does not know is a launch like any.
Spawn(c) ==
    /\ running' = TRUE
    /\ launches' = launches \ {c}
    /\ up' = IF c \in launches
             THEN [up EXCEPT !["live"] = @ \o <<Frame("inject", c), Frame("fired", c)>>]
             ELSE up
    /\ NoFault /\ UNCHANGED cause

\* clear_pending_launch: nobody takes the claim back.
SpawnFails(c) ==
    /\ Fault
    /\ launches' = launches \ {c}
    /\ cause' = Blame("unspawned", {c})
    /\ UNCHANGED <<running, up>>

TakeLaunch ==
    /\ link = "up" /\ down # <<>> /\ Head(down).kind = "launch"
    /\ Spawn(Head(down).id) \/ SpawnFails(Head(down).id)
    /\ down' = Tail(down)
    /\ UNCHANGED <<database, syncs, link, armed, claimed, supervisor, injected, misled>>

-----------------------------------------------------------------------------
(* The session                                                             *)

AgentExits ==
    /\ Change
    /\ running
    /\ running' = FALSE
    /\ UNCHANGED <<database, syncs, wire, scheduler, supervisor, history>>

AgentStarts ==
    /\ ~running /\ ~paused
    /\ running' = TRUE
    /\ UNCHANGED <<database, syncs, wire, scheduler, supervisor, history, spent>>

\* Pausing stops the agent as well; resuming is AgentStarts again.
Pauses ==
    /\ Change
    /\ ~paused
    /\ paused' = TRUE /\ running' = FALSE
    /\ UNCHANGED <<row, edits, syncs, wire, scheduler, supervisor, history>>

Resumes ==
    /\ paused
    /\ paused' = FALSE
    /\ UNCHANGED <<row, edits, running, syncs, wire, scheduler, supervisor, history, spent>>

\* The session is renamed or its arguments change; no list is sent for it.
Edits ==
    /\ Change
    /\ edits' = edits + 1
    /\ UNCHANGED <<row, paused, running, syncs, wire, scheduler, supervisor, history>>

-----------------------------------------------------------------------------
(* Lost connections and restarts                                           *)

\* The handler of a lost connection is from now on that of the one left.
Left(h) == IF h = "live" THEN "left" ELSE h
HandlerIsLeft ==
    /\ loading' = {Left(h) : h \in loading}
    /\ loaded' = [k \in DOMAIN loaded |-> [loaded[k] EXCEPT !.by = Left(@)]]

\* The socket dies; its handler still reads what had arrived.
LoseSocket(kept) ==
    /\ up["left"] = <<>> /\ "left" \notin Busy
    /\ up' = [live |-> <<>>, left |-> SubSeq(up["live"], 1, kept)]
    /\ down' = <<>>
    /\ HandlerIsLeft

LostWith(kept) ==
    IdsOf(SubSeq(up["live"], kept + 1, Len(up["live"]))) \cup LaunchesOf(down)

Breaks ==
    /\ link = "up"
    /\ Fault
    /\ \E kept \in 0..Len(up["live"]) :
          /\ LoseSocket(kept)
          /\ cause' = Blame("lost", LostWith(kept))
    /\ link' = "dead"
    /\ UNCHANGED <<database, running, scheduler, supervisor, injected, misled>>

\* The daemon forgets its claims and its queue, and its agents die with it.
LauncherRestarts ==
    /\ Fault
    /\ \/ /\ link = "up"
          /\ \E kept \in 0..Len(up["live"]) :
                /\ LoseSocket(kept)
                /\ cause' = [c \in Ids |-> Blame("lost", LostWith(kept))[c]
                                           \cup IF c \in claimed THEN {"restarted"} ELSE {}]
       \/ /\ link # "up"
          /\ cause' = Blame("restarted", claimed)
          /\ UNCHANGED <<up, down, syncs>>
    /\ link' = "down" /\ running' = FALSE
    /\ armed' = {} /\ claimed' = {} /\ launches' = {}
    /\ synced' = FALSE /\ snapshot' = {} /\ queue' = <<>>
    /\ UNCHANGED <<database, injected, misled>>

BackendRestarts ==
    /\ Fault
    /\ link' = IF link = "up" THEN "dead" ELSE link
    /\ cause' = Blame("lost", UNION {IdsOf(up[h]) : h \in Connections} \cup LaunchesOf(down))
    /\ up' = [h \in Connections |-> <<>>] /\ down' = <<>>
    /\ loading' = {} /\ loaded' = <<>>
    /\ UNCHANGED <<database, running, scheduler, supervisor, injected, misled>>

\* No heartbeat is acknowledged, or the socket reports its end.
Notices ==
    /\ link = "dead"
    /\ link' = "down"
    /\ UNCHANGED <<database, running, syncs, up, down, scheduler, supervisor, history, spent>>

\* MUTANT: only a change of a row has a list sent.
ReconnectsUnsynced ==
    /\ link = "down"
    /\ link' = "up"
    /\ synced' = FALSE /\ snapshot' = {}
    /\ UNCHANGED <<database, running, syncs, up, down, scheduler, queue, history, spent>>

\* The launcher registers again and is sent the list as it is loaded then;
\* until it comes nothing queued may be sent.
Reconnects ==
    /\ link = "down"
    /\ link' = "up"
    /\ synced' = FALSE /\ snapshot' = {}
    /\ loading' = loading \cup {"live"}
    /\ UNCHANGED <<database, running, loaded, up, down, scheduler, queue, history, spent>>

-----------------------------------------------------------------------------

Works ==
    \/ \E h \in Handlers : Load(h)
    \/ \E k \in DOMAIN loaded : SendSync(k)
    \/ \E h \in Connections : TakeUp(h)
    \/ TakeSync \/ TakeLaunch
    \/ \E configs \in SUBSET armed : Due(configs)
    \/ Notices \/ Reconnects

Next ==
    \/ Works
    \/ \E h \in Hubs, c \in Ids : LimitReached(h, c) \/ Overloaded(h, c) \/ UserSchedules(h, c)
    \/ \E h \in Connections : HandlerFails(h)
    \/ AgentExits \/ AgentStarts \/ Pauses \/ Resumes \/ Edits
    \/ Breaks \/ LauncherRestarts \/ BackendRestarts

Spec == Init /\ [][Next]_vars

\* Handlers run, frames arrive, the clock passes every reset time, and a
\* launcher without a connection dials again.  Each of these can happen only
\* so often before there is none left to do, so it is enough that one of them
\* happens while any can.  Nobody has to schedule, start, pause, edit or
\* break anything.
Fairness == WF_vars(Works)

FairSpec == Spec /\ Fairness

-----------------------------------------------------------------------------
(* Properties                                                              *)

\* A prompt is put into the conversation once, whatever lists and lost
\* connections come between: only a daemon that died with the claim, or a
\* list out of date, has it sent again.
InjectedOnce ==
    \A c \in Ids : injected[c] > 1 => misled \/ "restarted" \in cause[c]

\* The row does not claim what did not happen: a fired continuation was
\* injected, unless its input could not be stored, and a dropped one was not.
RowTellsTrue ==
    \A c \in Ids :
        /\ row[c] = "fired" => injected[c] > 0 \/ "unstored" \in cause[c]
        /\ row[c] = "dropped" => injected[c] = 0 \/ misled \/ "restarted" \in cause[c]

\* A scheduled continuation is fired or dropped in the end, or there is a
\* reason it is not: reconnects alone never strand one.
Settles ==
    \A c \in Ids :
        row[c] = "scheduled" ~> row[c] \in {"fired", "dropped"} \/ cause[c] # {} \/ misled
=============================================================================
