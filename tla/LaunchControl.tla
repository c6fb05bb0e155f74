--------------------------- MODULE LaunchControl ---------------------------
(***************************************************************************)
(* How one session's agent is started, stopped and started again: the      *)
(* session's row in the database, the stop and resume requests, the        *)
(* reconciliation that every launcher heartbeat runs, the launcher's table *)
(* of tasks with its channel of exits, and the proxies the tasks run.      *)
(*                                                                         *)
(* A launch is named by a member of Launches: the token minted for it, the *)
(* task the launcher spawns from it and the socket that task dials all     *)
(* bear its name.  A name nobody refers to any more is used again.         *)
(***************************************************************************)
EXTENDS Naturals, Sequences, SequencesExt, FiniteSets

CONSTANTS Launches,   \* names of launches
          None,       \* no launch
          GiveUp,     \* consecutive failures after which the row is paused
          MaxRequests,\* bound: stop and resume requests of the user
          MaxFaults   \* bound: exits, failures and lost connections

ASSUME LaunchesAssumption == IsFiniteSet(Launches) /\ None \notin Launches
ASSUME GiveUpAssumption == GiveUp \in Nat \ {0}
ASSUME BoundsAssumption == MaxRequests \in Nat /\ MaxFaults \in Nat

VARIABLES
  row,       \* the session's row: paused, active, leased, failures, cooling
  token,     \* each launch's token
  reported,  \* the session is in the launcher's running_sessions
  reconcile, \* a heartbeat's handler found the session desired
  request,   \* the stop or resume request being served, and its progress
  linked,    \* the launcher's socket is open
  down, up,  \* frames to and from the launcher
  task,      \* the session's entry in ProcessManager.tasks
  exits,     \* the channel exit_rx
  alive,     \* tasks whose agent runs
  socket,    \* each task's connection to the backend
  current,   \* the connection in the backend's registry
  spent      \* requests and faults so far

backend == <<row, token, reported, reconcile, current>>
launcher == <<task, exits, alive>>
wire == <<linked, down, up>>
vars == <<backend, request, launcher, wire, socket, spent>>

TokenStates == {"void", "unbound", "bound"}   \* never minted or revoked: "void"
\* "registering": its token is verified; "linked": its token is bound.
SocketStates == {"closed", "registering", "linked", "open", "terminating", "rejected"}
Reasons == {"completed", "failed", "stopped"}
Requests == {"idle", "pausedForStop", "pausedForPause", "disconnectedForStop",
             "disconnectedForPause", "resumed"}

\* "owed": the request's id is in pending_launch_sessions.
LaunchFrame(i, owed) == [type |-> "launch", of |-> i, owed |-> owed]
StopFrame == [type |-> "stop", of |-> None]
FailedFrame(launch) == [type |-> "failed", owed |-> launch.owed]
ExitFrame(exit) == [type |-> "exited", why |-> exit.why]
HeartbeatFrame(running) == [type |-> "heartbeat", running |-> running]

DownFrames == {StopFrame} \cup [type : {"launch"}, of : Launches, owed : BOOLEAN]
UpFrames == [type : {"failed"}, owed : BOOLEAN] \cup [type : {"exited"}, why : Reasons]
            \cup [type : {"heartbeat"}, running : BOOLEAN]
Exits == [of : Launches, why : Reasons]

TypeOK ==
  /\ row \in [paused : BOOLEAN, active : BOOLEAN, leased : BOOLEAN,
              failures : 0..GiveUp, cooling : BOOLEAN]
  /\ token \in [Launches -> TokenStates]
  /\ reported \in BOOLEAN /\ reconcile \in BOOLEAN
  /\ request \in Requests
  /\ linked \in BOOLEAN
  /\ down \in Seq(DownFrames)
  /\ up \in Seq(UpFrames)
  /\ task \in Launches \cup {None}
  /\ exits \in Seq(Exits)
  /\ alive \subseteq Launches
  /\ socket \in [Launches -> SocketStates]
  /\ current \in Launches \cup {None}
  /\ spent \in [requests : 0..MaxRequests, faults : 0..MaxFaults]

\* The backend and a launcher without tasks have just met; the row, running or
\* stopped, is what the database kept.
Init ==
  /\ \E paused \in BOOLEAN :
       row = [paused |-> paused, active |-> FALSE, leased |-> FALSE,
              failures |-> 0, cooling |-> FALSE]
  /\ token = [i \in Launches |-> "void"]
  /\ reported = FALSE /\ reconcile = FALSE
  /\ request = "idle"
  /\ linked = TRUE /\ down = <<>> /\ up = <<>>
  /\ task = None /\ exits = <<>> /\ alive = {}
  /\ socket = [i \in Launches |-> "closed"]
  /\ current = None
  /\ spent = [requests |-> 0, faults |-> 0]

Mentions(frames, i) == \E k \in DOMAIN frames : frames[k].of = i
Unused(i) == /\ task # i /\ i \notin alive /\ socket[i] = "closed" /\ current # i
             /\ ~Mentions(exits, i) /\ ~Mentions(down, i)
Fresh == {i \in Launches : Unused(i)}
AFresh == CHOOSE i \in Fresh : TRUE

\* mint_launch_token and send_to_launcher; what a dead socket is given is lost.
Launch(owed) ==
  \/ /\ linked /\ Fresh # {}
     /\ token' = [token EXCEPT ![AFresh] = "unbound"]
     /\ down' = Append(down, LaunchFrame(AFresh, owed))
  \/ /\ ~linked
     /\ UNCHANGED <<token, down>>

Fault == /\ spent.faults < MaxFaults
         /\ spent' = [spent EXCEPT !.faults = @ + 1]
NoFault == UNCHANGED spent

-----------------------------------------------------------------------------
(* The owner's requests.  Each persists its wish before it acts.           *)

Ask(step) == /\ request = "idle" /\ spent.requests < MaxRequests
             /\ spent' = [spent EXCEPT !.requests = @ + 1]
             /\ request' = step

\* stop_session and pause_session: the row first.
PauseRow ==
  /\ \E step \in {"pausedForStop", "pausedForPause"} : Ask(step)
  /\ row' = [row EXCEPT !.paused = TRUE, !.active = FALSE]
  /\ UNCHANGED <<token, reported, reconcile, current, launcher, wire, socket>>

\* Mutant: the launcher is trusted to stop the process.
ToldNobody(i) == FALSE
\* disconnect_session: the registered proxy is told not to come back.
ToldToEnd(i) == i = current /\ socket[i] = "open"
Disconnect ==
  /\ request \in {"pausedForStop", "pausedForPause"}
  /\ request' = IF request = "pausedForStop" THEN "disconnectedForStop"
                                             ELSE "disconnectedForPause"
  /\ socket' = [i \in Launches |->
       IF ToldToEnd(i) THEN "terminating" ELSE socket[i]]
  /\ UNCHANGED <<backend, launcher, wire, spent>>

\* A stop goes to the row's launcher in any case, a pause only to a launcher
\* that has reported the session as running.
StopOnLauncher ==
  /\ request \in {"disconnectedForStop", "disconnectedForPause"}
  /\ down' = IF linked /\ (request = "disconnectedForStop" \/ reported)
             THEN Append(down, StopFrame) ELSE down
  /\ request' = "idle"
  /\ UNCHANGED <<backend, launcher, linked, up, socket, spent>>

\* resume_session clears the row's flag and leaves lease and failures alone.
ResumeRow ==
  /\ linked
  /\ Ask("resumed")
  /\ row' = [row EXCEPT !.paused = FALSE]
  /\ UNCHANGED <<token, reported, reconcile, current, launcher, wire, socket>>

\* The launch is sent without the lease; without a launcher the flag comes back.
ResumeSend ==
  /\ request = "resumed" /\ request' = "idle"
  /\ IF linked
     THEN /\ Launch(FALSE)
          /\ UNCHANGED row
     ELSE /\ row' = [row EXCEPT !.paused = TRUE]
          /\ UNCHANGED <<token, down>>
  /\ UNCHANGED <<reported, reconcile, current, launcher, linked, up, socket, spent>>

-----------------------------------------------------------------------------
(* The backend's handler of the launcher's frames.                         *)

TakeUp(type) == /\ up # <<>> /\ Head(up).type = type /\ ~reconcile
                /\ up' = Tail(up)

\* Mutant: one failure is enough to leave a session alone.
DesiredUntilFailed(r, running) == ~r.paused /\ ~running /\ ~r.cooling /\ r.failures = 0
\* update_launcher_running_sessions, then reconcile_desired_sessions up to the
\* claim: only an unpaused row, not running and not backing off, is desired.
Desired(r, running) == ~r.paused /\ ~running /\ ~r.cooling
HandleHeartbeat ==
  /\ TakeUp("heartbeat")
  /\ reported' = Head(up).running
  /\ reconcile' = Desired(row, Head(up).running)
  /\ UNCHANGED <<row, token, current, request, launcher, linked, down, socket, spent>>

\* claim_launch_lease
MayClaim(r) == ~r.leased
ReconcileSkips ==
  /\ reconcile /\ ~MayClaim(row)
  /\ reconcile' = FALSE
  /\ UNCHANGED <<row, token, reported, current, request, launcher, wire, socket, spent>>
\* A token that cannot be minted leaves the lease to run out: a fault, and what
\* running out of names for launches is taken for.
NoToken == Fault \/ (linked /\ Fresh = {} /\ NoFault)
ReconcileNoToken ==
  /\ reconcile /\ MayClaim(row) /\ NoToken
  /\ reconcile' = FALSE
  /\ row' = [row EXCEPT !.leased = TRUE]
  /\ UNCHANGED <<token, reported, current, request, launcher, wire, socket>>
ReconcileLaunches ==
  /\ reconcile /\ MayClaim(row)
  /\ reconcile' = FALSE
  /\ row' = [row EXCEPT !.leased = TRUE]
  /\ Launch(TRUE)
  /\ UNCHANGED <<reported, current, request, launcher, linked, up, socket, spent>>

OneMore(failures) == IF failures < GiveUp THEN failures + 1 ELSE GiveUp
\* A failed launch counts, releases the lease and never pauses the row; that
\* of a resume is not in pending_launch_sessions and records nothing.
LaunchFailed(r) == [r EXCEPT !.failures = OneMore(@), !.cooling = TRUE,
                             !.active = FALSE, !.leased = FALSE]
HandleFailed ==
  /\ TakeUp("failed")
  /\ row' = IF Head(up).owed THEN LaunchFailed(row) ELSE row
  /\ UNCHANGED <<token, reported, reconcile, current, request, launcher, linked, down, socket, spent>>

\* revoke_tokens_for_session, then record_exit_for_backoff.
Revoke(tokens) == [i \in Launches |-> IF tokens[i] = "bound" THEN "void" ELSE tokens[i]]
\* Mutant: a healthy run takes one failure back instead of all of them.
AfterExitOneBack(r, why) == IF why = "completed" THEN [r EXCEPT !.failures = @ - 1] ELSE r
AfterExit(r, why) ==
  CASE why = "completed" -> [r EXCEPT !.failures = 0, !.cooling = FALSE]
    [] why = "failed" -> [r EXCEPT !.failures = OneMore(@), !.cooling = TRUE,
                                   !.paused = @ \/ OneMore(r.failures) = GiveUp]
    [] OTHER -> r
HandleExited ==
  /\ TakeUp("exited")
  /\ token' = Revoke(token)
  /\ row' = AfterExit(row, Head(up).why)
  /\ UNCHANGED <<reported, reconcile, current, request, launcher, linked, down, socket, spent>>

\* Time passes: a lease runs out, a backoff ends.
LeaseExpires ==
  /\ row.leased
  /\ row' = [row EXCEPT !.leased = FALSE]
  /\ UNCHANGED <<token, reported, reconcile, current, request, launcher, wire, socket, spent>>
BackoffEnds ==
  /\ row.cooling
  /\ row' = [row EXCEPT !.cooling = FALSE]
  /\ UNCHANGED <<token, reported, reconcile, current, request, launcher, wire, socket, spent>>

-----------------------------------------------------------------------------
(* The launcher.                                                           *)

Send(frame) == up' = Append(up, frame)

\* running_session_ids; one heartbeat under way at a time is enough.
Heartbeat ==
  /\ linked /\ \A k \in DOMAIN up : up[k].type # "heartbeat"
  /\ Send(HeartbeatFrame(task # None))
  /\ UNCHANGED <<backend, request, launcher, linked, down, socket, spent>>

\* ProcessManager::spawn: a session with an entry is never spawned again.  The
\* result of a launch that went well changes nothing here.
SpawnTask(i) == IF task = None THEN task' = i /\ alive' = alive \cup {i}
                               ELSE UNCHANGED <<task, alive>>
HandleLaunch ==
  /\ linked /\ down # <<>> /\ Head(down).type = "launch"
  /\ down' = Tail(down)
  /\ LET i == Head(down).of IN
     \/ /\ SpawnTask(i)
        /\ NoFault
        /\ UNCHANGED up
     \/ /\ Send(FailedFrame(Head(down)))
        /\ Fault
        /\ UNCHANGED <<task, alive>>
  /\ UNCHANGED <<backend, request, exits, linked, socket>>

\* ProcessManager::stop: the entry goes at once and the task is cancelled; it
\* reports its exit unless it has to be aborted after five seconds.
HandleStop ==
  /\ linked /\ down # <<>> /\ Head(down).type = "stop"
  /\ down' = Tail(down)
  /\ task' = None
  /\ alive' = alive \ {task}
  /\ \/ /\ exits' = IF task \in alive THEN Append(exits, [of |-> task, why |-> "stopped"])
                                      ELSE exits
        /\ NoFault
     \/ /\ task \in alive /\ Fault
        /\ UNCHANGED exits
  /\ UNCHANGED <<backend, request, linked, up, socket>>

\* Mutant: the report is passed on, the entry stays.
EntryStays(i) == task' = task
\* remove_finished goes by the session's id: it takes whatever task is there.
RemoveFinished(i) == task' = None
HandleExit ==
  /\ linked /\ exits # <<>>
  /\ exits' = Tail(exits)
  /\ RemoveFinished(Head(exits).of)
  /\ Send(ExitFrame(Head(exits)))
  /\ UNCHANGED <<backend, request, alive, linked, down, socket, spent>>

-----------------------------------------------------------------------------
(* A task's proxy and its socket.                                          *)

\* A task connects, and get_user_id_from_token turns a revoked token away, here
\* and only here.
Dial(i) ==
  /\ i \in alive /\ socket[i] = "closed"
  /\ socket' = [socket EXCEPT ![i] = IF token[i] = "void" THEN "rejected" ELSE "registering"]
  /\ UNCHANGED <<backend, request, launcher, wire, spent>>

\* Mutant: a bound proxy comes back whatever the row says.
AdmitsPaused(i) == TRUE
\* register_or_update_session: a paused row turns a token away that was bound
\* when it was verified; an unbound one, a first registration, clears the flag.
Admits(i) == token[i] = "unbound" \/ ~row.paused
\* The row, then the first update of link_token_to_session: what others do
\* between the two they could as well do before the first.  The update binds the
\* token whatever became of it meanwhile: what is revoked stays revoked.
HandleRegister(i) ==
  /\ socket[i] = "registering"
  /\ IF Admits(i)
     THEN /\ row' = [row EXCEPT !.active = TRUE, !.paused = FALSE, !.leased = FALSE]
          /\ token' = [token EXCEPT ![i] = IF @ = "unbound" THEN "bound" ELSE @]
          /\ socket' = [socket EXCEPT ![i] = "linked"]
     ELSE /\ socket' = [socket EXCEPT ![i] = "rejected"]
          /\ UNCHANGED <<row, token>>
  /\ UNCHANGED <<reported, reconcile, current, request, launcher, wire, spent>>

\* Mutant: the token the session was bound to stays valid.
SpareAll(tokens, i) == tokens
\* The second update of link_token_to_session revokes every bound token but its
\* own, one bound a moment ago included; then register_session.
Supersede(tokens, i) == [j \in Launches |->
  IF j # i /\ tokens[j] = "bound" THEN "void" ELSE tokens[j]]
RevokeOthers(i) ==
  /\ socket[i] = "linked"
  /\ token' = Supersede(token, i)
  /\ current' = i
  /\ socket' = [socket EXCEPT ![i] = "open"]
  /\ UNCHANGED <<row, reported, reconcile, request, launcher, wire, spent>>

\* The end of handle_session_socket: cleanup unless another connection took over.
Cleanup(i) == IF current \in {i, None}
              THEN row' = [row EXCEPT !.active = FALSE] /\ current' = None
              ELSE UNCHANGED <<row, current>>
SocketCloses(i) ==
  /\ socket[i] \in {"open", "terminating", "rejected"}
  /\ socket' = [socket EXCEPT ![i] = "closed"]
  /\ IF socket[i] = "rejected" THEN UNCHANGED <<row, current>> ELSE Cleanup(i)
  /\ IF i \in alive THEN socket[i] # "rejected" /\ Fault ELSE NoFault
  /\ UNCHANGED <<token, reported, reconcile, request, launcher, wire>>

\* The task ends and reports why: its agent completed or failed, the backend
\* said SessionTerminated (an early end counts as a failure), or turned it away.
TaskEnds(i) ==
  /\ i \in alive
  /\ \E why \in {"completed", "failed"} :
       /\ exits' = Append(exits, [of |-> i, why |-> why])
       /\ socket[i] = "rejected" => why = "failed"
  /\ alive' = alive \ {i}
  /\ IF socket[i] \in {"terminating", "rejected"} THEN NoFault ELSE Fault
  /\ UNCHANGED <<backend, request, task, wire, socket>>

-----------------------------------------------------------------------------
(* The launcher's socket drops, opens again, or the launcher dies with all *)
(* its tasks.  A dropped socket loses what it carried.                     *)

LinkDrops ==
  /\ linked /\ Fault
  /\ linked' = FALSE /\ down' = <<>> /\ up' = <<>>
  /\ reported' = FALSE
  /\ UNCHANGED <<row, token, reconcile, current, request, launcher, socket>>
LinkOpens ==
  /\ ~linked /\ ~reconcile
  /\ linked' = TRUE
  /\ UNCHANGED <<backend, request, launcher, down, up, socket, spent>>
LauncherDies ==
  /\ Fault
  /\ linked' = FALSE /\ down' = <<>> /\ up' = <<>>
  /\ reported' = FALSE
  /\ task' = None /\ exits' = <<>> /\ alive' = {}
  /\ UNCHANGED <<row, token, reconcile, current, request, socket>>

User == PauseRow \/ Disconnect \/ StopOnLauncher \/ ResumeRow \/ ResumeSend
Backend == HandleHeartbeat \/ ReconcileSkips \/ ReconcileNoToken \/ ReconcileLaunches
           \/ HandleFailed \/ HandleExited \/ LeaseExpires \/ BackoffEnds
Launcher == Heartbeat \/ HandleLaunch \/ HandleStop \/ HandleExit
Proxy(i) == Dial(i) \/ HandleRegister(i) \/ RevokeOthers(i) \/ SocketCloses(i) \/ TaskEnds(i)
LauncherLink == LinkDrops \/ LinkOpens \/ LauncherDies

Next == User \/ Backend \/ Launcher \/ (\E i \in Launches : Proxy(i)) \/ LauncherLink

Spec == Init /\ [][Next]_vars

\* The handlers of the owner's request, of the launcher's socket, of the launcher's
\* own loop and of each proxy's socket go on; so do the timers.
Fairness ==
  /\ WF_vars(Disconnect \/ StopOnLauncher \/ ResumeSend)
  /\ WF_vars(\/ HandleHeartbeat \/ HandleFailed \/ HandleExited
             \/ ReconcileSkips \/ (ReconcileNoToken /\ NoFault) \/ ReconcileLaunches)
  /\ WF_vars(LeaseExpires) /\ WF_vars(BackoffEnds)
  /\ WF_vars(Heartbeat) /\ WF_vars(HandleLaunch \/ HandleStop)
  /\ WF_vars(HandleExit) /\ WF_vars(LinkOpens)
  /\ \A i \in Launches :
       /\ WF_vars(Dial(i) \/ HandleRegister(i) \/ RevokeOthers(i) \/ (SocketCloses(i) /\ NoFault))
       /\ WF_vars(TaskEnds(i) /\ NoFault)
FairSpec == Spec /\ Fairness

-----------------------------------------------------------------------------
(* The session's entry in the launcher's table stands for an agent that    *)
(* runs or for an exit the launcher has yet to report: however stops, exits*)
(* and launches interleave, no entry is left that keeps the heartbeat      *)
(* saying "running" and every relaunch from being spawned.                 *)
TrackedRunsOrReports ==
  task # None => task \in alive \/ Mentions(exits, task)

(* link_token_to_session binds in one update and revokes in a second: two  *)
(* launches of a session hold a bound token only while one of them has its *)
(* second update to come, however registrations, exits and launches        *)
(* interleave; once both are through at most one of them may reconnect.    *)
OneBoundToken == \A i, j \in Launches :
  token[i] = "bound" /\ token[j] = "bound" /\ i # j => "linked" \in {socket[i], socket[j]}

(* What un-pauses a row is the owner's resume or the first registration of *)
(* a launch, never the reconnection of a proxy that was already bound to   *)
(* the session, whatever exits and stale reports come in between.          *)
PauseOutlastsReconnects ==
  [][row.paused /\ ~row'.paused =>
       \/ request' = "resumed"
       \/ \E i \in Launches : token[i] = "unbound" /\ token'[i] = "bound"]_vars

(* Reconciliation: a session that is not paused gets an agent, through     *)
(* lost launches, leases that nobody releases, failed launches and         *)
(* backoffs, unless it is paused meanwhile: it never stays both unpaused   *)
(* and without an agent for good.                                          *)
DesiredComesBack == []<>(alive # {} \/ row.paused)

(* stop_session: once the row is paused every agent of the session ends,   *)
(* the one whose launch was still under way included, unless the row is    *)
(* resumed meanwhile.  Excepted is the connection that the stop overtakes: *)
(* admitted before the row was paused, not yet in the registry when the    *)
(* registered proxy is told.                                               *)
Overtaken == \E i \in Launches : socket[i] = "linked"
StoppedEnds ==
  request = "pausedForStop" /\ ~Overtaken ~> (alive = {} \/ ~row.paused)

(* ProcessManager::spawn: "never spawn a second task for a session that's  *)
(* already running", the old one being orphaned.                           *)
OneAgent == Cardinality(alive) <= 1
=============================================================================
