------------------------------ MODULE EditStack ------------------------------
(***************************************************************************)
(* The edit stack of one Claude session: items a user or a plugin queues,  *)
(* and the backend's dispatchers that send the next one when the session   *)
(* is idle, asking the agent to compact its context first.  A dispatcher   *)
(* runs at the end of every turn (in the proxy socket's handler), after a  *)
(* forwarded POST, and when a timer gives up waiting for a reminder.  The  *)
(* browser can send items of its own accord, from its copy of the stack.   *)
(*                                                                         *)
(* Delivery of an input and of an output is what InputDelivery and         *)
(* OutputDelivery show: in order, and not lost while the proxy lives.      *)
(***************************************************************************)
EXTENDS Naturals, Sequences, FiniteSets, FiniteSetsExt

CONSTANTS N,          \* items, numbered in the order they are created
          MaxFrames,  \* bound: frames on their way to the backend
          MaxRequests, \* bound: prompts, items dismissed, items the browser sends
          MaxFaults   \* bound: restarts, deaths, failed inserts

ASSUME NAssumption == N \in Nat \ {0}
ASSUME BoundsAssumption == MaxFrames \in Nat \ {0} /\ MaxRequests \in Nat /\ MaxFaults \in Nat

VARIABLES
  status,   \* session_edit_stack_items.status
  rows,     \* pending_inputs, by seq_num: the item the browser sent, or None
  active,   \* active_turns has the session
  signal,   \* what persisted_activity_states makes of the latest messages
  full,     \* the latest turn metric is at or over the compaction fraction
  phase,    \* edit_stack_compaction's entry
  at,       \* where each dispatcher is
  picked,   \* the item each dispatcher read
  timer,    \* a reminder timeout is under way
  taken,    \* how many of the rows the agent has accepted
  turn,     \* the agent works
  frames,   \* the proxy's frames to the backend
  held,     \* the browser's edit_stack_active
  patches,  \* the browser's PATCH requests under way
  sends,    \* history: how often the backend enqueued each item
  beaten,   \* history: a claim found its item gone
  spent     \* requests of users and faults so far

stack == <<status, sends, beaten>>
memory == <<active, phase, at, picked, timer>>
backend == <<stack, rows, signal, full, memory>>
agent == <<taken, turn>>
browser == <<held, patches>>
vars == <<backend, agent, frames, browser, spent>>

Items == 1..N
None == 0
Dispatchers == {"turn", "post", "timer"}
Statuses == {"new", "pending", "sent", "finished"}
Phases == {"none", "requested", "compacted", "awaitingReminder", "justCompacted"}
Places == {"idle", "look", "claim", "enqueue"}

Frames == {"ack", "busy", "boundary", "result"}
Patches == [to : {"sent", "finished"}, of : Items]

TypeOK ==
  /\ status \in [Items -> Statuses]
  /\ sends \in [Items -> Nat] /\ beaten \in BOOLEAN
  /\ rows \in Seq(0..N) /\ frames \in Seq(Frames)
  /\ taken \in 0..Len(rows)
  /\ turn \in BOOLEAN
  /\ active \in BOOLEAN /\ full \in BOOLEAN
  /\ signal \in {"idle", "busy"}
  /\ phase \in Phases
  /\ at \in [Dispatchers -> Places]
  /\ picked \in [Dispatchers -> 0..N]
  /\ timer \in BOOLEAN
  /\ held \in 0..N
  /\ patches \subseteq Patches
  /\ spent \in [requests : 0..MaxRequests, faults : 0..MaxFaults]

Init ==
  /\ status = [i \in Items |-> "new"]
  /\ sends = [i \in Items |-> 0] /\ beaten = FALSE
  /\ rows = <<>> /\ frames = <<>>
  /\ taken = 0 /\ turn = FALSE
  /\ active = FALSE /\ signal = "idle" /\ full \in BOOLEAN
  /\ phase = "none"
  /\ at = [d \in Dispatchers |-> "idle"] /\ picked = [d \in Dispatchers |-> None]
  /\ timer = FALSE
  /\ held = None /\ patches = {}
  /\ spent = [requests |-> 0, faults |-> 0]

Fault == /\ spent.faults < MaxFaults
         /\ spent' = [spent EXCEPT !.faults = @ + 1]
NoFault == UNCHANGED spent
Request == /\ spent.requests < MaxRequests
           /\ spent' = [spent EXCEPT !.requests = @ + 1]
Goto(d, place) == at' = [at EXCEPT ![d] = place]

\* A dispatcher that returns.
Done(d) == Goto(d, "idle") /\ picked' = [picked EXCEPT ![d] = None]

\* enqueue_input: the row, the frame to the proxy, and the session is active.
Enqueued(byHand) == rows' = Append(rows, byHand) /\ active' = TRUE

-----------------------------------------------------------------------------
(* Items come and go.                                                      *)

IsNext(i) == status[i] = "new" /\ \A j \in 1..(i - 1) : status[j] # "new"

\* create_edit_stack_items dispatches nothing; a forwarded POST does.
Create(i) ==
  /\ IsNext(i)
  /\ status' = [status EXCEPT ![i] = "pending"]
  /\ \/ UNCHANGED at
     \/ at["post"] = "idle" /\ Goto("post", "look")
  /\ UNCHANGED <<sends, beaten, rows, signal, full, active, phase, picked, timer,
                 agent, frames, browser, spent>>

\* delete_edit_stack_item, whatever the status; the browser forgets the item.
Dismiss(i) ==
  /\ status[i] \in {"pending", "sent"} /\ Request
  /\ status' = [status EXCEPT ![i] = "finished"]
  /\ held' = IF held = i THEN None ELSE held
  /\ UNCHANGED <<sends, beaten, rows, signal, full, memory, agent, frames, patches>>

\* A user's, a schedule's or another agent's prompt.
UserPrompts ==
  /\ Request
  /\ Enqueued(None)
  /\ UNCHANGED <<stack, signal, full, phase, at, picked, timer, agent, frames, browser>>

-----------------------------------------------------------------------------
(* try_send_next_pending_edit_stack_item                                   *)

Pending == {i \in Items : status[i] = "pending"}
\* session_ready_for_edit_stack_send.  A permission prompt that waits keeps the
\* turn open as well.
Ready == ~active /\ rows = <<>> /\ signal = "idle"
Finds(d) == at[d] = "look" /\ Ready /\ Pending # {}

NothingToSend(d) ==
  /\ at[d] = "look" /\ ~(Ready /\ Pending # {})
  /\ Done(d)
  /\ UNCHANGED <<stack, rows, signal, full, active, phase, timer, agent, frames, browser, spent>>

Held(p) == p \in {"requested", "compacted", "awaitingReminder"}

\* edit_stack_compaction_gate
Hold(d) ==
  /\ Finds(d) /\ Held(phase)
  /\ Done(d)
  /\ UNCHANGED <<stack, rows, signal, full, active, phase, timer, agent, frames, browser, spent>>

\* The dispatch after a compaction is let through unchecked.
Proceeds(p) == p = "justCompacted"
\* So is one that finds a hold ten minutes old, which forgets it.
Proceed(d) ==
  /\ Finds(d)
  /\ \/ Held(phase) \/ Proceeds(phase)
     \/ phase = "none" /\ ~full
  /\ at' = [at EXCEPT ![d] = "claim"]
  /\ picked' = [picked EXCEPT ![d] = Min(Pending)]
  /\ phase' = "none"
  /\ UNCHANGED <<stack, rows, signal, full, active, timer, agent, frames, browser, spent>>

\* request_compaction; the item stays pending.
RequestCompaction(d) ==
  /\ Finds(d) /\ ~Held(phase) /\ ~Proceeds(phase) /\ full
  /\ Done(d)
  /\ phase' = "requested"
  /\ Enqueued(None)
  /\ UNCHANGED <<stack, signal, full, timer, agent, frames, browser, spent>>

\* Mutant: the item is taken as it was read, without looking at its status again.
ClaimsAsRead(i) == TRUE
\* The update takes the item only while it is pending; a dispatcher that comes
\* too late gives up, and does not try the next item.
Claims(i) == status[i] = "pending"
Claim(d) ==
  /\ at[d] = "claim"
  /\ IF Claims(picked[d])
     THEN /\ Goto(d, "enqueue")
          /\ status' = [status EXCEPT ![picked[d]] = "sent"]
          /\ UNCHANGED <<beaten, picked>>
     ELSE Done(d) /\ beaten' = TRUE /\ UNCHANGED status
  /\ UNCHANGED <<sends, rows, signal, full, active, phase, timer, agent, frames, browser, spent>>

\* enqueue_input always says delivered, so the item never goes back to pending.
SendItem(d) ==
  /\ at[d] = "enqueue"
  /\ Done(d)
  /\ Enqueued(None)
  /\ sends' = [sends EXCEPT ![picked[d]] = @ + 1]
  /\ UNCHANGED <<status, beaten, signal, full, phase, timer, agent, frames, browser, spent>>

-----------------------------------------------------------------------------
(* The proxy and the agent.                                                *)

Emits(new) == frames' = frames \o new /\ Len(frames') <= MaxFrames

\* The agent accepts the next input, which the proxy acknowledges: a turn starts,
\* or the running one takes it in.
Accept ==
  /\ taken < Len(rows)
  /\ taken' = taken + 1
  /\ turn' = TRUE
  /\ Emits(IF turn THEN <<"ack">> ELSE <<"ack", "busy">>)
  /\ UNCHANGED <<backend, browser, spent>>

\* A turn ends; if the agent has compacted, because it was told to or because it
\* wanted to, the boundary came before.  The reminder that the proxy then owes
\* the agent is never a turn of its own: it rides on the next prompt.
EndTurn ==
  /\ turn
  /\ turn' = FALSE
  /\ Emits(<<"result">>) \/ Emits(<<"boundary", "result">>)
  /\ UNCHANGED <<backend, taken, browser, spent>>

-----------------------------------------------------------------------------
(* The proxy socket's handler; it takes no frame while its dispatch runs.  *)

TakeFrame(frame) == /\ frames # <<>> /\ Head(frames) = frame /\ at["turn"] = "idle"
                    /\ frames' = Tail(frames)

\* Mutant: the row after the acknowledged one goes with it.
OneTooFar(r) == SubSeq(r, 3, Len(r))
Unacknowledged(r) == Tail(r)
\* The browser hears that its own item was accepted.
BrowserSeesAccepted(byHand) ==
  patches' = IF held # None /\ byHand = held
             THEN patches \cup {[to |-> "sent", of |-> held]} ELSE patches
\* InputAck deletes the row.
HandleAck ==
  /\ TakeFrame("ack")
  /\ rows' = Unacknowledged(rows) /\ taken' = taken - 1
  /\ BrowserSeesAccepted(Head(rows))
  /\ UNCHANGED <<stack, signal, full, memory, turn, held, spent>>

HandleBusy ==
  /\ TakeFrame("busy")
  /\ signal' = "busy"
  /\ UNCHANGED <<stack, rows, full, memory, agent, browser, spent>>

HandleBoundary ==
  /\ TakeFrame("boundary")
  /\ phase' = IF phase = "requested" THEN "compacted" ELSE phase
  /\ UNCHANGED <<stack, rows, signal, full, active, at, picked, timer, agent, browser, spent>>

\* Mutant: without a boundary the wait goes on.
WaitForBoundary(p) == CASE p = "compacted" -> "awaitingReminder"
                        [] p = "awaitingReminder" -> "justCompacted"
                        [] OTHER -> p
\* CompactionPhase::on_turn_end
OnTurnEnd(p) == CASE p = "requested" -> "justCompacted"
                  [] p = "compacted" -> "awaitingReminder"
                  [] p = "awaitingReminder" -> "justCompacted"
                  [] OTHER -> p

\* The end of a turn: the message and the metric are stored, the browser is
\* told, the session is no longer active, and a dispatch runs.  A browser that
\* waits takes any result for its own item's.
BrowserSeesResult ==
  /\ held' = None
  /\ patches' = IF held # None THEN patches \cup {[to |-> "finished", of |-> held]} ELSE patches
HandleResult ==
  /\ TakeFrame("result")
  /\ active' = FALSE
  /\ phase' = OnTurnEnd(phase)
  /\ full' \in BOOLEAN
  /\ \/ /\ NoFault
        /\ signal' = "idle"
        /\ timer' = (timer \/ phase' = "awaitingReminder")
        /\ Goto("turn", "look")
     \/ /\ Fault    \* the insert fails: no message, no timer, no dispatch
        /\ UNCHANGED <<signal, timer, at>>
  /\ BrowserSeesResult
  /\ UNCHANGED <<stack, rows, picked, agent>>

\* release_edit_stack_after_reminder_timeout, a minute later.
ReminderTimesOut ==
  /\ timer /\ at["timer"] = "idle"
  /\ timer' = FALSE
  /\ IF phase = "awaitingReminder"
     THEN phase' = "justCompacted" /\ Goto("timer", "look")
     ELSE UNCHANGED <<phase, at>>
  /\ UNCHANGED <<stack, rows, signal, full, active, picked, agent, frames, browser, spent>>

-----------------------------------------------------------------------------
(* The browser.                                                            *)

\* send_edit_stack_item: one at a time, from a copy of the items that may be as
\* old as it likes.
BrowserSends(i) ==
  /\ status[i] # "new" /\ held = None /\ Request
  /\ held' = i
  /\ Enqueued(i)
  /\ UNCHANGED <<stack, signal, full, phase, at, picked, timer, agent, frames, patches>>

\* Mutant: sent is written whatever has become of the item.
SentAnyway(s) == TRUE
MaySend(s) == s \in {"pending", "sent"}
\* update_edit_stack_item; requests arrive in any order.
HandlePatch ==
  /\ \E p \in patches :
       /\ patches' = patches \ {p}
       /\ status' = IF p.to = "finished" \/ MaySend(status[p.of])
                    THEN [status EXCEPT ![p.of] = p.to] ELSE status
  /\ UNCHANGED <<sends, beaten, rows, signal, full, memory, agent, frames, held, spent>>

-----------------------------------------------------------------------------
(* Restarts.  A proxy that registers again is sent every row that is left, *)
(* and the session counts as active when there is one.                     *)

BackendRestarts ==
  /\ Fault
  /\ active' = (rows # <<>>)
  /\ phase' = "none" /\ timer' = FALSE
  /\ at' = [d \in Dispatchers |-> "idle"] /\ picked' = [d \in Dispatchers |-> None]
  /\ UNCHANGED <<stack, rows, signal, full, agent, frames, browser>>

ProxyDies ==
  /\ Fault
  /\ taken' = 0 /\ turn' = FALSE /\ frames' = <<>>
  /\ active' = (active \/ rows # <<>>)
  /\ UNCHANGED <<stack, rows, signal, full, phase, at, picked, timer, browser>>

Dispatch(d) == NothingToSend(d) \/ Hold(d) \/ Proceed(d) \/ RequestCompaction(d)
               \/ Claim(d) \/ SendItem(d)
Users == UserPrompts \/ (\E i \in Items : Create(i) \/ Dismiss(i))
Agent == Accept \/ EndTurn
Socket == HandleAck \/ HandleBusy \/ HandleBoundary \/ HandleResult
Browser == HandlePatch \/ (\E i \in Items : BrowserSends(i))

Next == (\E d \in Dispatchers : Dispatch(d)) \/ Users \/ Agent \/ Socket
        \/ ReminderTimesOut \/ Browser \/ BackendRestarts \/ ProxyDies

Spec == Init /\ [][Next]_vars

\* The backend's tasks run, the proxy delivers, and the agent's turns end.
Fairness ==
  /\ \A d \in Dispatchers : WF_vars(Dispatch(d))
  /\ WF_vars(Accept) /\ WF_vars(EndTurn)
  /\ WF_vars(Socket /\ NoFault)
  /\ WF_vars(ReminderTimesOut)
FairSpec == Spec /\ Fairness

-----------------------------------------------------------------------------
(* However the end of a turn, a forwarded POST and the reminder's timeout  *)
(* interleave, and across restarts, the backend sends an item once.        *)
BackendSendsOnce == \A i \in Items : sends[i] <= 1

(* update_edit_stack_item and the claim: an item that was completed or     *)
(* dismissed is never sent again, neither by a dispatcher that had read it *)
(* as pending nor by a late PATCH.                                         *)
FinishedStays ==
  [][\A i \in Items : status[i] = "finished" => status'[i] = "finished"]_vars

(* Once a dispatch is past the test for idleness, be it the first or one   *)
(* after a restart, the rest of the stack follows with nobody doing        *)
(* anything: through compactions, the boundary that may be missing, the    *)
(* context that is still full and the reminder that never comes, unless    *)
(* something fails after it or a dispatcher finds the item it has read     *)
(* sent or dismissed meanwhile.                                            *)
UnderWay == Finds("turn") \/ \E d \in Dispatchers : at[d] = "enqueue"
StackFollows ==
  \A k \in 0..MaxFaults :
    Pending # {} /\ UnderWay /\ spent.faults = k
      ~> Pending = {} \/ beaten \/ spent.faults # k
=============================================================================
