---------------------------- MODULE Permissions ----------------------------
(***************************************************************************)
(* The permission prompts of one session, from the agent that asks to the  *)
(* browser that answers and back, over the connections of ProxyRegistry:   *)
(* each action here is a step of that module or leaves its state alone.    *)
(* The message the backend has for the proxy is the answer to a request,   *)
(* so Messages is also the set of requests, in the order they are made.    *)
(*                                                                         *)
(* Abstracted: what is asked and whether it is allowed; the channel to the *)
(* browser (a broadcast reaches an online browser at once, its answers     *)
(* take their time); perm_rx and the channel of events, which the main     *)
(* loop empties; the transcript and the push notifications.                *)
(***************************************************************************)
EXTENDS ProxyRegistry, SequencesExt

CONSTANT MaxReloads     \* times the browser loses its connection

ASSUME PermissionsAssumption == MaxReloads \in Nat

Requests == Messages

VARIABLES
    asked,      \* the agent's view of each request
    events,     \* SessionEvents the agent's I/O task has for the main loop
    slot,       \* Session.pending_permission
    up,         \* frames on their way to the backend, per connection
    row,        \* pending_permission_requests: the session's one row
    dialog,     \* the prompt the browser shows
    online,     \* the browser is connected
    answers,    \* the browser's answers on their way to the backend
    reloads

agentVars == <<asked, events, slot>>
browserVars == <<dialog, online, answers, reloads>>
ownVars == <<agentVars, up, row, browserVars>>
vars == <<registryVars, ownVars>>

Frames == [kind : {"request", "cancelled"}, id : Requests]
Frame(k, r) == [kind |-> k, id |-> r]

\* Types of every variable, the registry's included.
TypeOK ==
    /\ RegistryTypeOK
    /\ asked \in [Requests -> {"not yet", "waiting", "answered", "withdrawn"}]
    /\ events \in Seq(Frames)
    /\ slot \in Requests \cup {None}
    /\ up \in [Conns -> Seq(Frames)]
    /\ row \in Requests \cup {None}
    /\ dialog \in Requests \cup {None}
    /\ online \in BOOLEAN
    /\ answers \in Seq(Requests)
    /\ reloads \in 0..MaxReloads

Init ==
    /\ RegistryInit
    /\ asked = [r \in Requests |-> "not yet"]
    /\ events = <<>>
    /\ slot = None
    /\ up = [c \in Conns |-> <<>>]
    /\ row = None
    /\ dialog = None
    /\ online = TRUE
    /\ answers = <<>>
    /\ reloads = 0

-----------------------------------------------------------------------------
(* The agent and its session                                               *)

\* Tools run in parallel: the agent asks again before it has an answer.
Ask(r) ==
    /\ asked[r] = "not yet"
    /\ \A q \in Requests : q < r => asked[q] # "not yet"
    /\ asked' = [asked EXCEPT ![r] = "waiting"]
    /\ events' = Append(events, Frame("request", r))
    /\ UNCHANGED <<registryVars, slot, up, row, browserVars>>

\* A control_cancel_request, when the turn is interrupted.
Withdraw(r) ==
    /\ asked[r] = "waiting"
    /\ asked' = [asked EXCEPT ![r] = "withdrawn"]
    /\ events' = Append(events, Frame("cancelled", r))
    /\ UNCHANGED <<registryVars, slot, up, row, browserVars>>

\* Only the request it names is withdrawn.
Cleared(place, r) == IF place = r THEN None ELSE place

\* Session::next_event: a request takes the slot, whoever has it; a
\* cancellation leaves the slot of another request alone.
SlotAfter(e) == IF e.kind = "request" THEN e.id ELSE Cleared(slot, e.id)

\* run_main_loop, which polls the session only while it is connected, and
\* writes the frame.
TakeEvent ==
    /\ heard
    /\ events # <<>>
    /\ slot' = SlotAfter(Head(events))
    /\ up' = [up EXCEPT ![dialled] = Append(@, Head(events))]
    /\ events' = Tail(events)
    /\ UNCHANGED <<registryVars, asked, row, browserVars>>

\* respond_permission: the answer must be to the request in the slot.
TakeAnswer(r) ==
    IF slot = r
    THEN /\ slot' = None
         /\ asked' = [asked EXCEPT ![r] = IF @ = "waiting" THEN "answered" ELSE @]
    ELSE UNCHANGED <<slot, asked>>

ReadFrame(c, m) ==
    /\ Reads(c, m)
    /\ IF m = RegisterAck \/ Discards(m) THEN UNCHANGED <<slot, asked>> ELSE TakeAnswer(m)
    /\ UNCHANGED <<events, up, row, browserVars>>

-----------------------------------------------------------------------------
(* The backend                                                             *)

\* handle_permission_request: the session's row is overwritten, the prompt
\* is broadcast.
StoreRequest(r) ==
    /\ row' = r
    /\ dialog' = IF online THEN r ELSE dialog

\* Mutant: the row is deleted by session id, as handle_permission_response does.
ClearsSession(r) ==
    /\ row' = None
    /\ dialog' = IF online THEN Cleared(dialog, r) ELSE dialog

\* handle_permission_cancelled.
ClearCancelled(r) ==
    /\ row' = Cleared(row, r)
    /\ dialog' = IF online THEN Cleared(dialog, r) ELSE dialog

\* The handler of a connection takes the next frame off it.  That the proxy
\* has left, or that a newer connection has the entry, makes no difference.
TakeFrame(c) ==
    /\ sock[c] = "open"
    /\ up[c] # <<>>
    /\ LET f == Head(up[c])
       IN  \/ f.kind = "request" /\ StoreRequest(f.id)
           \/ f.kind = "cancelled" /\ ClearCancelled(f.id)
    /\ up' = [up EXCEPT ![c] = Tail(@)]
    /\ UNCHANGED <<registryVars, agentVars, online, answers, reloads>>

\* Mutant: the row is left to the agent's next request.
AnswerLeavesRow ==
    /\ answers # <<>>
    /\ SendOrQueue(Head(answers))
    /\ answers' = Tail(answers)
    /\ UNCHANGED <<agentVars, up, row, dialog, online, reloads>>

\* Mutant: the answer goes to the connection the prompt came in on.
AnswerToSender ==
    /\ answers # <<>>
    /\ row' = None
    /\ down' = Written(dialled, <<Head(answers)>>)
    /\ answers' = Tail(answers)
    /\ UNCHANGED <<sock, registered, status, queue, dialled, heard, victim, healing,
                   grace, faults, agentVars, up, dialog, online, reloads>>

\* handle_permission_response: the session's row goes, whichever request it
\* is for, and then the answer is sent to the proxy or queued for it.
HandleResponse ==
    /\ answers # <<>>
    /\ row' = None
    /\ SendOrQueue(Head(answers))
    /\ answers' = Tail(answers)
    /\ UNCHANGED <<agentVars, up, dialog, online, reloads>>

-----------------------------------------------------------------------------
(* The browser                                                             *)

\* The user answers what is shown; without a connection the answer is lost
\* and the dialog gone.
Answer ==
    /\ dialog # None
    /\ dialog' = None
    /\ answers' = IF online THEN Append(answers, dialog) ELSE answers
    /\ UNCHANGED <<registryVars, agentVars, up, row, online, reloads>>

BrowserDrops ==
    /\ online
    /\ reloads < MaxReloads
    /\ reloads' = reloads + 1
    /\ online' = FALSE
    /\ answers' = <<>>
    /\ UNCHANGED <<registryVars, agentVars, up, row, dialog>>

\* Mutant: the dialog is reset, and nothing replayed.
ReturnsBlank ==
    /\ ~online
    /\ online' = TRUE
    /\ dialog' = None
    /\ UNCHANGED <<registryVars, agentVars, up, row, answers, reloads>>

\* The dialog is reset, and the row replayed.
BrowserReturns ==
    /\ ~online
    /\ online' = TRUE
    /\ dialog' = row
    /\ UNCHANGED <<registryVars, agentVars, up, row, answers, reloads>>

-----------------------------------------------------------------------------
(* Connections                                                             *)

\* What a handler has not read is lost with its socket.
ConnectionStep(c) ==
    /\ Dial(c) \/ Leaves(c) \/ Handler(c)
    /\ up' = [up EXCEPT ![c] = IF sock'[c] \in {"closing", "closed"} THEN <<>> ELSE @]
    /\ UNCHANGED <<agentVars, row, browserVars>>

BackgroundStep ==
    /\ Background
    /\ UNCHANGED ownVars

\* The browser loses its connection with the backend.
BackendRestarts ==
    /\ Restart
    /\ up' = [c \in Conns |-> <<>>]
    /\ online' = FALSE
    /\ answers' = <<>>
    /\ UNCHANGED <<agentVars, row, dialog, reloads>>

-----------------------------------------------------------------------------

Next ==
    \/ \E r \in Requests : Ask(r) \/ Withdraw(r)
    \/ TakeEvent
    \/ \E c \in Conns :
          \/ ConnectionStep(c)
          \/ TakeFrame(c)
          \/ \E m \in Requests \cup {RegisterAck} : ReadFrame(c, m)
    \/ HandleResponse
    \/ Answer \/ BrowserDrops \/ BrowserReturns
    \/ BackgroundStep
    \/ BackendRestarts

Spec == Init /\ [][Next]_vars

\* The proxy reconnects, handlers and loops run, the reconciler keeps its
\* period, a browser comes back, and a user answers the prompt that is shown.
\* Nobody has to ask, withdraw or break anything.
Fairness ==
    /\ \A c \in Conns :
          /\ WF_vars(Dial(c) /\ ConnectionStep(c))
          /\ WF_vars(Handler(c) /\ ConnectionStep(c))
          /\ WF_vars(TakeFrame(c))
          /\ WF_vars(\E m \in Requests \cup {RegisterAck} : ReadFrame(c, m))
    /\ WF_vars(TakeEvent)
    /\ WF_vars(HandleResponse)
    /\ WF_vars(Answer)
    /\ WF_vars(BrowserReturns)
    /\ WF_vars(HealLooks /\ UNCHANGED ownVars)
    /\ WF_vars(HealWrites /\ UNCHANGED ownVars)

FairSpec == Spec /\ Fairness

-----------------------------------------------------------------------------
(* Properties                                                              *)

\* The answers on connection c that its reader will hand to the session:
\* those behind the RegisterAck.
WillBeTaken(c) ==
    IF heard THEN Range(down[c])
    ELSE LET acks == {i \in DOMAIN down[c] : down[c][i] = RegisterAck}
         IN  {down[c][i] : i \in {j \in DOMAIN down[c] : \E a \in acks : a < j}}

\* Where an answered request's answer can still find it: the prompt is on
\* its way to a user or before one, or the answer is on its way back.
InHand(r) ==
    \/ Contains(events, Frame("request", r))
    \/ /\ slot = r
       /\ \/ r \in {row, dialog}
          \/ \E c \in Conns : Contains(up[c], Frame("request", r))
          \/ Contains(answers, r)
          \/ dialled # None /\ r \in WillBeTaken(dialled)

Waiting(r) == asked[r] = "waiting"

\* A request the agent waits on is let go of only by a lost connection, by
\* another prompt that takes its place, or by an answer: one for another
\* prompt takes its row, its own may go to an absent proxy or be given without
\* a connection.  In particular no cancellation of another request does it,
\* nor a registration or a cleanup.
LetGoForCause ==
    [][ \A r \in Requests :
          Waiting(r) /\ Waiting(r)' /\ InHand(r) /\ ~InHand(r)' =>
            \/ dialled' # dialled \/ online' # online
            \/ ~online /\ dialog' # dialog
            \/ \E c \in Conns : sock[c] = "open" /\ sock'[c] # "open"
            \/ slot' \notin {slot, None} \/ row' \notin {row, None}
            \/ answers' # answers ]_vars

\* A request that stays in hand is answered or withdrawn: reloads of the
\* browser and lost connections included, a user sees it.
PromptsResolve ==
    \A r \in Requests : Waiting(r) ~> (~Waiting(r) \/ ~InHand(r))

\* No prompt is replayed for ever: its row is cleared even if the request is
\* long settled and its cancellation was lost.
RowsClear == \A r \in Requests : (row = r) ~> (row # r)
=============================================================================
