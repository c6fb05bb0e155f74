------------------------- MODULE LaunchControlProofs -------------------------
(* Theorems about LaunchControl, for any set of launches and any number of   *)
(* requests and faults.                                                      *)
EXTENDS LaunchControl, SequenceTheorems, TLAPS

Rows == [paused : BOOLEAN, active : BOOLEAN, leased : BOOLEAN,
         failures : 0..GiveUp, cooling : BOOLEAN]
Spending == [requests : 0..MaxRequests, faults : 0..MaxFaults]

-----------------------------------------------------------------------------
(* Types                                                                     *)

\* A request and a fault are counted up to their bounds.
LEMMA SpentType ==
  ASSUME spent \in Spending, \/ Fault \/ NoFault \/ \E step \in Requests : Ask(step)
  PROVE  spent' \in Spending
<1>1. CASE \E step \in Requests : Ask(step)
  <2>1. spent.requests + 1 \in 0..MaxRequests /\ spent' = [spent EXCEPT !.requests = @ + 1]
    BY <1>1, BoundsAssumption DEF Ask, Spending
  <2> QED
    BY <2>1 DEF Spending
<1>2. CASE Fault
  <2>1. spent.faults + 1 \in 0..MaxFaults
    BY <1>2, BoundsAssumption DEF Fault, Spending
  <2> QED
    BY <1>2, <2>1 DEF Fault, Spending
<1> QED
  BY <1>1, <1>2 DEF NoFault

\* A fresh name is one of the launches.
LEMMA FreshType ==
  ASSUME Fresh # {}
  PROVE  AFresh \in Launches
  BY DEF AFresh, Fresh

\* A launch sent or lost.
LEMMA LaunchType ==
  ASSUME TypeOK, NEW owed \in BOOLEAN, Launch(owed)
  PROVE  token' \in [Launches -> TokenStates] /\ down' \in Seq(DownFrames)
<1>1. CASE UNCHANGED <<token, down>>
  BY <1>1 DEF TypeOK
<1>2. CASE linked /\ Fresh # {} /\ token' = [token EXCEPT ![AFresh] = "unbound"]
           /\ down' = Append(down, LaunchFrame(AFresh, owed))
  <2>1. LaunchFrame(AFresh, owed) \in DownFrames
    BY <1>2, FreshType DEF LaunchFrame, DownFrames
  <2>2. token' \in [Launches -> TokenStates]
    BY <1>2 DEF TypeOK, TokenStates
  <2>3. down \in Seq(DownFrames)
    BY DEF TypeOK
  <2> QED
    BY <1>2, <2>1, <2>2, <2>3, AppendProperties
<1> QED
  BY <1>1, <1>2 DEF Launch

\* The frames a handler takes are what their type says.
LEMMA UpFrameType ==
  ASSUME TypeOK, up # <<>>
  PROVE  /\ Tail(up) \in Seq(UpFrames)
         /\ Head(up).type = "failed" => Head(up).owed \in BOOLEAN
         /\ Head(up).type = "exited" => Head(up).why \in Reasons
         /\ Head(up).type = "heartbeat" => Head(up).running \in BOOLEAN
<1>1. Head(up) \in UpFrames /\ Tail(up) \in Seq(UpFrames)
  BY DEF TypeOK
<1> QED
  BY <1>1 DEF UpFrames

\* The first frame to the launcher is one of its types.
LEMMA DownFrameType ==
  ASSUME TypeOK, down # <<>>
  PROVE  /\ Tail(down) \in Seq(DownFrames)
         /\ Head(down).type = "launch" => Head(down).owed \in BOOLEAN /\ Head(down).of \in Launches
<1>1. Head(down) \in DownFrames /\ Tail(down) \in Seq(DownFrames)
  BY DEF TypeOK
<1> QED
  BY <1>1 DEF DownFrames, StopFrame

\* What users do keeps the types.
LEMMA UserType ==
  ASSUME TypeOK, User
  PROVE  TypeOK'
<1> USE DEF TypeOK, launcher, wire, backend
<1>1. CASE PauseRow
  <2>1. spent' \in Spending /\ request' \in Requests
    BY <1>1, SpentType DEF PauseRow, Ask, Requests, Spending
  <2>2. row' \in Rows
    BY <1>1 DEF PauseRow, Rows
  <2> QED
    BY <1>1, <2>1, <2>2 DEF PauseRow, Rows, Spending
<1>2. CASE Disconnect
  BY <1>2 DEF Disconnect, Requests, SocketStates
<1>3. CASE StopOnLauncher
  <2>1. down' \in Seq(DownFrames)
    BY <1>3 DEF StopOnLauncher, DownFrames
  <2> QED
    BY <1>3, <2>1 DEF StopOnLauncher, Requests
<1>4. CASE ResumeRow
  <2>1. spent' \in Spending /\ request' \in Requests
    BY <1>4, SpentType DEF ResumeRow, Ask, Requests, Spending
  <2>2. row' \in Rows
    BY <1>4 DEF ResumeRow, Rows
  <2> QED
    BY <1>4, <2>1, <2>2 DEF ResumeRow, Rows, Spending
<1>5. CASE ResumeSend
  <2>1. token' \in [Launches -> TokenStates] /\ down' \in Seq(DownFrames)
    BY <1>5, LaunchType DEF ResumeSend
  <2>2. row' \in Rows
    BY <1>5 DEF ResumeSend, Rows
  <2>3. request' \in Requests
    BY <1>5 DEF ResumeSend, Requests
  <2> QED
    BY <1>5, <2>1, <2>2, <2>3 DEF ResumeSend, Rows
<1> QED
  BY <1>1, <1>2, <1>3, <1>4, <1>5 DEF User

\* What the backend does keeps the types.
LEMMA BackendType ==
  ASSUME TypeOK, Backend
  PROVE  TypeOK'
<1> USE DEF TypeOK, launcher, wire
<1>1. CASE HandleHeartbeat
  <2>1. up' \in Seq(UpFrames) /\ reported' \in BOOLEAN
    BY <1>1, UpFrameType DEF HandleHeartbeat, TakeUp
  <2>2. reconcile' \in BOOLEAN
    BY <1>1, Zenon DEF HandleHeartbeat, Desired
  <2> QED
    BY <1>1, <2>1, <2>2 DEF HandleHeartbeat
<1>2. CASE ReconcileSkips
  BY <1>2 DEF ReconcileSkips
<1>3. CASE ReconcileNoToken
  <2>1. spent' \in Spending
    BY <1>3, SpentType DEF ReconcileNoToken, NoToken, Spending
  <2>2. row' \in Rows
    BY <1>3 DEF ReconcileNoToken, Rows
  <2> QED
    BY <1>3, <2>1, <2>2 DEF ReconcileNoToken, Rows, Spending
<1>4. CASE ReconcileLaunches
  <2>1. token' \in [Launches -> TokenStates] /\ down' \in Seq(DownFrames)
    BY <1>4, LaunchType DEF ReconcileLaunches
  <2>2. row' \in Rows
    BY <1>4 DEF ReconcileLaunches, Rows
  <2> QED
    BY <1>4, <2>1, <2>2 DEF ReconcileLaunches, Rows
<1>5. CASE HandleFailed
  <2>1. up' \in Seq(UpFrames)
    BY <1>5, UpFrameType DEF HandleFailed, TakeUp
  <2>2. OneMore(row.failures) \in 0..GiveUp
    BY GiveUpAssumption DEF OneMore
  <2>3. row' \in Rows
    BY <1>5, <2>2 DEF HandleFailed, LaunchFailed, Rows
  <2> QED
    BY <1>5, <2>1, <2>3 DEF HandleFailed, Rows
<1>6. CASE HandleExited
  <2>1. up' \in Seq(UpFrames)
    BY <1>6, UpFrameType DEF HandleExited, TakeUp
  <2>2. OneMore(row.failures) \in 0..GiveUp /\ 0 \in 0..GiveUp
    BY GiveUpAssumption DEF OneMore
  <2>3. row' \in Rows
    <3>1. (row.paused \/ OneMore(row.failures) = GiveUp) \in BOOLEAN
      OBVIOUS
    <3> QED
      BY <1>6, <2>2, <3>1 DEF HandleExited, AfterExit, Rows
  <2>4. token' \in [Launches -> TokenStates]
    BY <1>6 DEF HandleExited, Revoke, TokenStates
  <2> QED
    BY <1>6, <2>1, <2>3, <2>4 DEF HandleExited, Rows
<1>7. CASE LeaseExpires \/ BackoffEnds
  BY <1>7 DEF LeaseExpires, BackoffEnds
<1> QED
  BY <1>1, <1>2, <1>3, <1>4, <1>5, <1>6, <1>7 DEF Backend

\* What the launcher does keeps the types.
LEMMA LauncherType ==
  ASSUME TypeOK, Launcher
  PROVE  TypeOK'
<1> USE DEF TypeOK, backend
<1>1. CASE Heartbeat
  <2>1. HeartbeatFrame(task # None) \in UpFrames
    <3>1. (task # None) \in BOOLEAN
      OBVIOUS
    <3> QED
      BY <3>1 DEF HeartbeatFrame, UpFrames
  <2>2. up' \in Seq(UpFrames)
    BY <1>1, <2>1 DEF Heartbeat, Send
  <2> QED
    BY <1>1, <2>2 DEF Heartbeat, launcher
<1>2. CASE HandleLaunch
  <2>1. /\ down' \in Seq(DownFrames)
        /\ Head(down).owed \in BOOLEAN /\ Head(down).of \in Launches
    BY <1>2, DownFrameType DEF HandleLaunch
  <2>2. FailedFrame(Head(down)) \in UpFrames
    BY <2>1 DEF FailedFrame, UpFrames
  <2>3. up' \in Seq(UpFrames)
    <3>1. up' = Append(up, FailedFrame(Head(down))) \/ up' = up
      BY <1>2 DEF HandleLaunch, Send
    <3>2. up \in Seq(UpFrames)
      OBVIOUS
    <3> HIDE DEF TypeOK
    <3>3. Append(up, FailedFrame(Head(down))) \in Seq(UpFrames)
      BY <2>2, <3>2, AppendProperties
    <3> QED
      BY <3>1, <3>2, <3>3
  <2>4. task' \in Launches \cup {None} /\ alive' \subseteq Launches
    BY <1>2, <2>1 DEF HandleLaunch, SpawnTask
  <2>5. spent' \in Spending
    BY <1>2, SpentType DEF HandleLaunch, Spending
  <2> QED
    BY <1>2, <2>1, <2>3, <2>4, <2>5 DEF HandleLaunch, Spending
<1>3. CASE HandleStop
  <2>1. down' \in Seq(DownFrames)
    BY <1>3, DownFrameType DEF HandleStop
  <2>2. exits' \in Seq(Exits)
    <3> DEFINE exit == [of |-> task, why |-> "stopped"]
    <3>1. task \in alive => exit \in Exits
      BY DEF Exits, Reasons
    <3>2. exits' = exits \/ (task \in alive /\ exits' = Append(exits, exit))
      BY <1>3 DEF HandleStop
    <3> HIDE DEF exit
    <3>3. exits \in Seq(Exits)
      OBVIOUS
    <3>4. exit \in Exits => Append(exits, exit) \in Seq(Exits)
      BY <3>3, AppendProperties
    <3> QED
      BY <3>1, <3>2, <3>3, <3>4, Zenon
  <2>3. spent' \in Spending
    BY <1>3, SpentType DEF HandleStop, Spending
  <2> QED
    BY <1>3, <2>1, <2>2, <2>3 DEF HandleStop, Spending
<1>4. CASE HandleExit
  <2>1. Head(exits) \in Exits /\ exits' \in Seq(Exits)
    BY <1>4 DEF HandleExit
  <2>2. ExitFrame(Head(exits)) \in UpFrames
    BY <2>1 DEF ExitFrame, UpFrames, Exits
  <2>3. up' \in Seq(UpFrames)
    BY <1>4, <2>2 DEF HandleExit, Send
  <2> QED
    BY <1>4, <2>1, <2>3 DEF HandleExit, RemoveFinished
<1> QED
  BY <1>1, <1>2, <1>3, <1>4 DEF Launcher

\* What a proxy does keeps the types.
LEMMA ProxyType ==
  ASSUME TypeOK, NEW i \in Launches, Proxy(i)
  PROVE  TypeOK'
<1> USE DEF TypeOK, wire
<1>1. CASE Dial(i)
  <2>1. (IF token[i] = "void" THEN "rejected" ELSE "registering") \in SocketStates
    BY DEF SocketStates
  <2> QED
    BY <1>1, <2>1 DEF Dial, backend, launcher
<1>2. CASE HandleRegister(i)
  <2>1. row' \in Rows
    BY <1>2 DEF HandleRegister, Rows
  <2>2. token' \in [Launches -> TokenStates]
    <3>1. (IF token[i] = "unbound" THEN "bound" ELSE token[i]) \in TokenStates
      BY DEF TokenStates
    <3> QED
      BY <1>2, <3>1 DEF HandleRegister
  <2>3. socket' \in [Launches -> SocketStates]
    BY <1>2 DEF HandleRegister, SocketStates
  <2> QED
    BY <1>2, <2>1, <2>2, <2>3 DEF HandleRegister, Rows, launcher
<1>3. CASE SocketCloses(i)
  <2>1. row' \in Rows /\ current' \in Launches \cup {None}
    BY <1>3 DEF SocketCloses, Cleanup, Rows
  <2>2. spent' \in Spending
    BY <1>3, SpentType DEF SocketCloses, Spending
  <2>3. socket' \in [Launches -> SocketStates]
    BY <1>3 DEF SocketCloses, SocketStates
  <2> QED
    BY <1>3, <2>1, <2>2, <2>3 DEF SocketCloses, Rows, Spending, launcher
<1>4. CASE TaskEnds(i)
  <2>1. PICK why \in {"completed", "failed"} : exits' = Append(exits, [of |-> i, why |-> why])
    BY <1>4 DEF TaskEnds
  <2>2. exits' \in Seq(Exits)
    BY <2>1 DEF Exits, Reasons
  <2>3. spent' \in Spending
    BY <1>4, SpentType DEF TaskEnds, Spending
  <2> QED
    BY <1>4, <2>2, <2>3 DEF TaskEnds, Spending, backend
<1>5. CASE RevokeOthers(i)
  <2>1. token' \in [Launches -> TokenStates]
    BY <1>5 DEF RevokeOthers, Supersede, TokenStates
  <2>2. socket' \in [Launches -> SocketStates]
    BY <1>5 DEF RevokeOthers, SocketStates
  <2> QED
    BY <1>5, <2>1, <2>2 DEF RevokeOthers, launcher
<1> QED
  BY <1>1, <1>2, <1>3, <1>4, <1>5 DEF Proxy

\* The launcher's link keeps the types.
LEMMA LinkType ==
  ASSUME TypeOK, LauncherLink
  PROVE  TypeOK'
<1> USE DEF TypeOK
<1>1. CASE LinkDrops
  <2>1. spent' \in Spending
    BY <1>1, SpentType DEF LinkDrops, Spending
  <2>2. down' \in Seq(DownFrames) /\ up' \in Seq(UpFrames)
    BY <1>1 DEF LinkDrops
  <2> QED
    BY <1>1, <2>1, <2>2 DEF LinkDrops, Spending, launcher
<1>2. CASE LinkOpens
  BY <1>2 DEF LinkOpens, launcher, backend
<1>3. CASE LauncherDies
  <2>1. spent' \in Spending
    BY <1>3, SpentType DEF LauncherDies, Spending
  <2>2. down' \in Seq(DownFrames) /\ up' \in Seq(UpFrames) /\ exits' \in Seq(Exits)
    BY <1>3 DEF LauncherDies
  <2> QED
    BY <1>3, <2>1, <2>2 DEF LauncherDies, Spending
<1> QED
  BY <1>1, <1>2, <1>3 DEF LauncherLink

\* The row, the tokens, the launcher's table and what is on the wire keep
\* their types; in particular the count of failures never passes GiveUp.
THEOREM LaunchControlTypeOK == Spec => []TypeOK
<1>1. Init => TypeOK
  <2> SUFFICES ASSUME Init PROVE TypeOK
    OBVIOUS
  <2> USE DEF Init
  <2>1. row \in Rows /\ spent \in Spending
    BY GiveUpAssumption, BoundsAssumption DEF Rows, Spending
  <2>2. down \in Seq(DownFrames) /\ up \in Seq(UpFrames) /\ exits \in Seq(Exits)
    OBVIOUS
  <2>3. token \in [Launches -> TokenStates] /\ socket \in [Launches -> SocketStates]
    BY DEF TokenStates, SocketStates
  <2> QED
    BY <2>1, <2>2, <2>3 DEF TypeOK, Rows, Spending, Requests
<1>2. TypeOK /\ [Next]_vars => TypeOK'
  <2> SUFFICES ASSUME TypeOK, [Next]_vars PROVE TypeOK'
    OBVIOUS
  <2>1. CASE UNCHANGED vars
    BY <2>1 DEF TypeOK, vars, backend, launcher, wire
  <2> QED
    BY <2>1, UserType, BackendType, LauncherType, ProxyType, LinkType DEF Next
<1> QED
  BY <1>1, <1>2, PTL DEF Spec

-----------------------------------------------------------------------------
(* The launcher's table                                                      *)

\* An exit appended to the channel is mentioned in it, and so is what was before.
LEMMA MentionsAppend ==
  ASSUME NEW q \in Seq(Exits), NEW e \in Exits, NEW i
  PROVE  /\ Mentions(Append(q, e), e.of)
         /\ Mentions(q, i) => Mentions(Append(q, e), i)
<1>1. /\ Len(q) \in Nat /\ Append(q, e)[Len(q) + 1] = e
      /\ DOMAIN q = 1..Len(q) /\ DOMAIN Append(q, e) = 1..Len(q) + 1
      /\ \A k \in 1..Len(q) : Append(q, e)[k] = q[k]
  OBVIOUS
<1>2. Mentions(Append(q, e), e.of)
  BY <1>1 DEF Mentions
<1>3. ASSUME Mentions(q, i) PROVE Mentions(Append(q, e), i)
  BY <1>1, <1>3 DEF Mentions
<1> QED
  BY <1>2, <1>3

\* Every step keeps an entry's task running or its exit on the way.
LEMMA TrackedStep ==
  ASSUME TypeOK, TrackedRunsOrReports, [Next]_vars
  PROVE  TrackedRunsOrReports'
<1> USE DEF TrackedRunsOrReports
<1>1. CASE HandleLaunch
  <2>1. exits' = exits
    BY <1>1 DEF HandleLaunch
  <2>2. \/ UNCHANGED <<task, alive>>
        \/ task' \in alive'
    BY <1>1 DEF HandleLaunch, SpawnTask
  <2> QED
    BY <2>1, <2>2 DEF Mentions
<1>2. CASE HandleStop \/ HandleExit \/ LauncherDies
  BY <1>2 DEF HandleStop, HandleExit, RemoveFinished, LauncherDies
<1>3. ASSUME NEW i \in Launches, TaskEnds(i)
      PROVE  TrackedRunsOrReports'
  <2>1. /\ task' = task /\ alive' = alive \ {i} /\ exits \in Seq(Exits)
        /\ \E why \in {"completed", "failed"} : exits' = Append(exits, [of |-> i, why |-> why])
    BY <1>3 DEF TaskEnds, TypeOK
  <2>2. PICK e \in Exits : e.of = i /\ exits' = Append(exits, e)
    BY <2>1 DEF Exits, Reasons
  <2>3. Mentions(exits', i) /\ (Mentions(exits, task) => Mentions(exits', task))
    BY <2>1, <2>2, MentionsAppend
  <2>4. task # None => task' \in alive' \/ Mentions(exits', task')
    BY <2>1, <2>3
  <2> QED
    BY <2>1, <2>4
<1>4. CASE UNCHANGED <<task, exits, alive>>
  BY <1>4 DEF Mentions
<1>5. CASE User \/ Backend \/ Heartbeat \/ LinkDrops \/ LinkOpens \/ UNCHANGED vars
  BY <1>4, <1>5 DEF User, PauseRow, Disconnect, StopOnLauncher, ResumeRow, ResumeSend, Backend,
     HandleHeartbeat, ReconcileSkips, ReconcileNoToken, ReconcileLaunches, HandleFailed,
     HandleExited, LeaseExpires, BackoffEnds, Heartbeat, LinkDrops, LinkOpens, vars, launcher
<1>6. ASSUME NEW i \in Launches,
             Dial(i) \/ HandleRegister(i) \/ RevokeOthers(i) \/ SocketCloses(i)
      PROVE  TrackedRunsOrReports'
  BY <1>4, <1>6 DEF Dial, HandleRegister, RevokeOthers, SocketCloses, launcher
<1> QED
  BY <1>1, <1>2, <1>3, <1>5, <1>6 DEF Next, Launcher, LauncherLink, Proxy

\* The entry in ProcessManager.tasks never outlives both its agent and the
\* report of its exit, however stops, exits and launches interleave: so it never
\* keeps a session from being launched for good.
THEOREM EntryRunsOrReports == Spec => []TrackedRunsOrReports
<1>1. Init => TrackedRunsOrReports
  BY DEF Init, TrackedRunsOrReports
<1>2. TypeOK /\ TrackedRunsOrReports /\ [Next]_vars => TrackedRunsOrReports'
  BY TrackedStep
<1> QED
  BY <1>1, <1>2, LaunchControlTypeOK, PTL DEF Spec

-----------------------------------------------------------------------------
(* Tokens                                                                    *)

\* What is bound after a step was bound before it, but for the token a
\* registration binds; and no socket but that of a registration leaves "linked".
LEMMA TokenStep ==
  ASSUME TypeOK, OneBoundToken, [Next]_vars
  PROVE  OneBoundToken'
<1> DEFINE NoneBinds == \A i \in Launches : token'[i] = "bound" => token[i] = "bound"
           NoneLeaves == \A i \in Launches : socket[i] = "linked" => socket'[i] = "linked"
<1>0. NoneBinds /\ NoneLeaves => OneBoundToken'
  BY DEF OneBoundToken
<1>1. ASSUME NEW owed, Launch(owed), UNCHANGED socket
      PROVE  OneBoundToken'
  <2>1. NoneBinds
    BY <1>1 DEF Launch, TypeOK
  <2> QED
    BY <1>0, <1>1, <2>1
<1>2. ASSUME NEW i \in Launches, HandleRegister(i)
      PROVE  OneBoundToken'
  <2>1. CASE Admits(i)
    <3>1. /\ socket'[i] = "linked"
          /\ \A j \in Launches \ {i} : token'[j] = token[j] /\ socket'[j] = socket[j]
      BY <1>2, <2>1 DEF HandleRegister, TypeOK
    <3> QED
      BY <3>1 DEF OneBoundToken
  <2>2. CASE ~Admits(i)
    <3>1. NoneBinds
      BY <1>2, <2>2 DEF HandleRegister
    <3>2. NoneLeaves
      BY <1>2, <2>2 DEF HandleRegister, TypeOK
    <3> QED
      BY <1>0, <3>1, <3>2
  <2> QED
    BY <2>1, <2>2
<1>3. ASSUME NEW i \in Launches, RevokeOthers(i)
      PROVE  OneBoundToken'
  <2>1. \A j \in Launches : token'[j] = "bound" => j = i
    BY <1>3 DEF RevokeOthers, Supersede, TypeOK
  <2> QED
    BY <2>1 DEF OneBoundToken
<1>4. CASE HandleExited
  <2>1. NoneBinds /\ NoneLeaves
    BY <1>4 DEF HandleExited, Revoke
  <2> QED
    BY <1>0, <2>1
<1>5. CASE UNCHANGED token /\ NoneLeaves
  BY <1>0, <1>5
<1>6. CASE ResumeSend \/ ReconcileLaunches
  <2>1. UNCHANGED socket
    BY <1>6 DEF ResumeSend, ReconcileLaunches
  <2> QED
    BY <1>1, <1>5, <1>6, <2>1 DEF ResumeSend, ReconcileLaunches
<1>7. CASE \/ PauseRow \/ StopOnLauncher \/ ResumeRow \/ HandleHeartbeat
           \/ ReconcileSkips \/ ReconcileNoToken \/ HandleFailed \/ LeaseExpires
           \/ BackoffEnds \/ Launcher \/ LauncherLink \/ UNCHANGED vars
  <2>1. UNCHANGED <<token, socket>>
    BY <1>7 DEF PauseRow, StopOnLauncher, ResumeRow, HandleHeartbeat,
       ReconcileSkips, ReconcileNoToken, HandleFailed, LeaseExpires, BackoffEnds, Launcher,
       Heartbeat, HandleLaunch, HandleStop, HandleExit, LauncherLink, LinkDrops, LinkOpens,
       LauncherDies, vars, backend
  <2> QED
    BY <1>5, <2>1
<1>8. CASE Disconnect
  <2>1. NoneLeaves
    BY <1>8 DEF Disconnect, ToldToEnd
  <2> QED
    BY <1>5, <1>8, <2>1 DEF Disconnect, backend
<1>9. ASSUME NEW i \in Launches, Dial(i) \/ SocketCloses(i) \/ TaskEnds(i)
      PROVE  OneBoundToken'
  <2>1. UNCHANGED token
    BY <1>9 DEF Dial, SocketCloses, TaskEnds, backend
  <2>2. NoneLeaves
    BY <1>9 DEF Dial, SocketCloses, TaskEnds, TypeOK
  <2> QED
    BY <1>5, <2>1, <2>2
<1> QED
  BY <1>2, <1>3, <1>4, <1>6, <1>7, <1>8, <1>9 DEF Next, User, Backend, Proxy

\* Two launches of a session hold a bound token only while a registration has
\* its second update to come: between registrations at most one may reconnect.
THEOREM OneTokenIsBound == Spec => []OneBoundToken
<1>1. Init => OneBoundToken
  BY DEF Init, OneBoundToken
<1>2. TypeOK /\ OneBoundToken /\ [Next]_vars => OneBoundToken'
  BY TokenStep
<1> QED
  BY <1>1, <1>2, LaunchControlTypeOK, PTL DEF Spec

-----------------------------------------------------------------------------
(* A pause outlasts reconnections                                            *)

\* A pause ends by a resume or by a proxy that registers.
LEMMA PauseStep ==
  ASSUME TypeOK, [Next]_vars, row.paused, ~row'.paused
  PROVE  \/ request' = "resumed"
         \/ \E i \in Launches : token[i] = "unbound" /\ token'[i] = "bound"
<1>1. CASE ResumeRow
  BY <1>1 DEF ResumeRow, Ask
<1>2. ASSUME NEW i \in Launches, HandleRegister(i)
      PROVE  \E j \in Launches : token[j] = "unbound" /\ token'[j] = "bound"
  <2>1. /\ Admits(i)
        /\ token' = [token EXCEPT ![i] = IF @ = "unbound" THEN "bound" ELSE @]
    BY <1>2 DEF HandleRegister
  <2>2. token[i] = "unbound" /\ token'[i] = "bound"
    BY <2>1 DEF Admits, TypeOK
  <2> QED
    BY <2>2
<1>4. ASSUME PauseRow \/ ResumeSend \/ ReconcileNoToken \/ ReconcileLaunches \/ HandleFailed
             \/ HandleExited \/ LeaseExpires \/ BackoffEnds
      PROVE  FALSE
  <2>1. CASE PauseRow
    BY <2>1 DEF PauseRow, TypeOK
  <2>2. CASE ResumeSend
    BY <2>2 DEF ResumeSend, TypeOK
  <2>3. CASE ReconcileNoToken \/ ReconcileLaunches \/ LeaseExpires \/ BackoffEnds
    BY <2>3 DEF ReconcileNoToken, ReconcileLaunches, LeaseExpires, BackoffEnds, TypeOK
  <2>4. CASE HandleFailed
    BY <2>4 DEF HandleFailed, LaunchFailed, TypeOK
  <2>5. CASE HandleExited
    BY <2>5 DEF HandleExited, AfterExit, TypeOK
  <2> QED
    BY <1>4, <2>1, <2>2, <2>3, <2>4, <2>5
<1>5. ASSUME NEW i \in Launches, SocketCloses(i)
      PROVE  FALSE
  BY <1>5 DEF SocketCloses, Cleanup, TypeOK
<1>6. ASSUME \/ Disconnect \/ StopOnLauncher \/ HandleHeartbeat \/ ReconcileSkips \/ Launcher
             \/ LauncherLink \/ UNCHANGED vars
      PROVE  FALSE
  BY <1>6 DEF Disconnect, StopOnLauncher, HandleHeartbeat, ReconcileSkips, Launcher,
     Heartbeat, HandleLaunch, HandleStop, HandleExit, LauncherLink, LinkDrops, LinkOpens,
     LauncherDies, vars, backend
<1>7. ASSUME NEW i \in Launches, Dial(i) \/ RevokeOthers(i) \/ TaskEnds(i)
      PROVE  FALSE
  BY <1>7 DEF Dial, RevokeOthers, TaskEnds, backend
<1> QED
  BY <1>1, <1>2, <1>4, <1>5, <1>6, <1>7 DEF Next, User, Backend, Proxy

\* A row is un-paused by its owner or by a launch that registers for the first
\* time, never by a proxy that was bound to the session and comes back.
THEOREM PauseIsKept == Spec => PauseOutlastsReconnects
<1>1. TypeOK /\ [Next]_vars =>
        (row.paused /\ ~row'.paused =>
           \/ request' = "resumed"
           \/ \E i \in Launches : token[i] = "unbound" /\ token'[i] = "bound")
  BY PauseStep
<1> QED
  BY <1>1, LaunchControlTypeOK, PTL DEF Spec, PauseOutlastsReconnects
=============================================================================
