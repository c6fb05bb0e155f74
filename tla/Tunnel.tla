------------------------------- MODULE Tunnel -------------------------------
(***************************************************************************)
(* Port-forward streams between the backend, whose end is the relay of a   *)
(* browser's request, and the proxy, whose end is a copy loop to a local   *)
(* service, over one connection of the proxy: the control socket, and the  *)
(* data plane when the proxy attached one.  Both copy loops are alike, so  *)
(* each action below is an end's.                                          *)
(*                                                                         *)
(* Bytes are numbered; a data frame names its first byte and its length.   *)
(* A receiver that is sent a byte out of turn would write it all the same. *)
(*                                                                         *)
(* The backend's frames go through a bounded channel that the connection's *)
(* other traffic fills as well, so it may refuse any of them while the     *)
(* socket lives; the proxy's sends wait for room instead.                  *)
(*                                                                         *)
(* Abstracted: HTTP above the stream and its pool; the allowlist's grace   *)
(* and the health probes; frames of ended streams of other connections;    *)
(* reading a chunk and sending it are one step, as are a failed send and   *)
(* the end it brings; an aborted task stops at once; send_task ends only   *)
(* when every sender is dropped; both ends have one Window and MaxChunk,   *)
(* as the one capability proxies advertise gives.                          *)
(***************************************************************************)
EXTENDS Integers, FiniteSets, SequencesExt

CONSTANTS
    Streams,
    Window,         \* TunnelSizing.initial_window
    MaxChunk,       \* TunnelSizing.max_chunk
    MaxStreams,     \* MAX_STREAMS
    Bytes,          \* how much the source behind each end has to send
    MaxFaults       \* sockets lost, destinations stuck, forwards revoked

Ends == {"backend", "proxy"}
Planes == {"control", "binary"}
Other(e) == IF e = "backend" THEN "proxy" ELSE "backend"

ASSUME TunnelAssumption ==
    /\ IsFiniteSet(Streams)
    /\ {Window, MaxChunk, MaxStreams} \subseteq Nat \ {0}
    /\ Bytes \in [Ends -> Nat]
    /\ MaxFaults \in Nat

VARIABLES
    stage,      \* how far each end is with each stream
    egress,     \* the plane a stream is pinned to
    routed,     \* tunnel_streams: streams the backend has an entry for
    inbox,      \* frames each end has yet to process
    wire,       \* frames on their way to an end
    avail,      \* CreditGate.avail of each end's uplink
    held,       \* the budget its uplink holds while it waits for bytes
    book,       \* recv_credit of each end
    read,       \* bytes its uplink has read and handed to its plane
    got,        \* bytes written at an end, in the order written
    lost,       \* history: credit a full channel of the backend refused
    untold,     \* history: streams whose close it refused
    plane,      \* each end's half of the data plane
    link,       \* the sockets that are up
    handler,    \* the backend's task of the control socket
    manager,    \* the proxy's TunnelManager has not been shut down
    allowed,    \* the proxy's allowlist has the port
    stuck,      \* ends whose destination takes no more bytes
    faults

streamVars == <<stage, egress, routed, inbox, wire, avail, held, book, read, got, lost, untold>>
socketVars == <<plane, link, handler, manager>>
vars == <<streamVars, socketVars, allowed, stuck, faults>>

-----------------------------------------------------------------------------

Kinds == {"open", "opened", "refused", "data", "window", "close"}
Note(k) == [kind |-> k, first |-> 0, size |-> 0]
Grant(n) == [kind |-> "window", first |-> 0, size |-> n]
Data(i, n) == [kind |-> "data", first |-> i, size |-> n]

Bounded == Window + Bytes["backend"] + Bytes["proxy"]
Frames == [kind : Kinds, first : 0..Bounded, size : 0..Bounded]

\* Types of every variable.
TypeOK ==
    /\ stage \in [Ends -> [Streams -> {"idle", "looked", "opening", "open", "ended"}]]
    /\ egress \in [Streams -> Planes]
    /\ routed \subseteq Streams
    /\ inbox \in [Ends -> [Streams -> Seq(Frames)]]
    /\ wire \in [Ends -> [Streams -> [Planes -> Seq(Frames)]]]
    /\ avail \in [Ends -> [Streams -> 0..Window]]
    /\ held \in [Ends -> [Streams -> 0..MaxChunk]]
    /\ book \in [Ends -> [Streams -> 0..Window]]
    /\ read \in [Ends -> [Streams -> 0..Bounded]]
    /\ got \in [Ends -> [Streams -> Seq(1..Bounded)]]
    /\ lost \in [Streams -> Nat]
    /\ untold \subseteq Streams
    /\ plane \in [Ends -> {"none", "up", "gone"}]
    /\ link \subseteq Planes
    /\ handler \in {"serving", "reaped", "closing", "left", "done"}
    /\ manager \in BOOLEAN
    /\ allowed \in BOOLEAN
    /\ stuck \subseteq Ends \X Streams
    /\ faults \in 0..MaxFaults

Everywhere(x) == [e \in Ends |-> [s \in Streams |-> x]]

Init ==
    /\ stage = Everywhere("idle")
    /\ egress = [s \in Streams |-> "control"]
    /\ routed = {}
    /\ inbox = Everywhere(<<>>)
    /\ wire = Everywhere([p \in Planes |-> <<>>])
    /\ avail = Everywhere(Window)
    /\ held = Everywhere(0)
    /\ book = Everywhere(Window)
    /\ read = Everywhere(0)
    /\ got = Everywhere(<<>>)
    /\ lost = [s \in Streams |-> 0]
    /\ untold = {}
    /\ plane = [e \in Ends |-> "none"]
    /\ link = {"control"}
    /\ handler = "serving"
    /\ manager = TRUE
    /\ allowed = TRUE
    /\ stuck = {}
    /\ faults = 0

-----------------------------------------------------------------------------
(* Sending, receiving and ending, at either end                            *)

\* Whether the end's half of the plane takes a frame at all.
Accepts(e, p) ==
    IF p = "binary" THEN plane[e] = "up" ELSE e = "proxy" \/ handler # "done"

\* MUTANT: a plane chosen for every frame.
PlaneOfTheMoment(e, s) == IF plane[e] = "up" THEN "binary" ELSE "control"

\* A frame goes on the plane the stream was opened on; on a dead socket it
\* is lost.
PlaneOf(e, s) == egress[s]

Put(e, s, frame) ==
    LET p == PlaneOf(e, s) IN
    wire' = IF Accepts(e, p) /\ p \in link
            THEN [wire EXCEPT ![Other(e)][s][p] = Append(@, frame)]
            ELSE wire

\* ConnSender.send is a try_send: a full channel refuses the frame, and the
\* backend does not look at the result of a window or a close.
Refused(e, s, frame) ==
    /\ e = "backend"
    /\ PlaneOf(e, s) \in link
    /\ wire' = wire
    /\ lost' = IF frame.kind = "window" THEN [lost EXCEPT ![s] = @ + frame.size] ELSE lost
    /\ untold' = IF frame.kind = "close" THEN untold \cup {s} ELSE untold

Send(e, s, frame) ==
    \/ Put(e, s, frame) /\ UNCHANGED <<lost, untold>>
    \/ Refused(e, s, frame)

\* The end's copy loop is over: its entry goes and the other end is told.
\* Only what it read and wrote is remembered here.
Forget(e, s) ==
    /\ stage' = [stage EXCEPT ![e][s] = "ended"]
    /\ routed' = IF e = "backend" THEN routed \ {s} ELSE routed
    /\ inbox' = [inbox EXCEPT ![e][s] = <<>>]
    /\ avail' = [avail EXCEPT ![e][s] = Window]
    /\ held' = [held EXCEPT ![e][s] = 0]
    /\ book' = [book EXCEPT ![e][s] = Window]

End(e, s) ==
    /\ Forget(e, s)
    /\ Send(e, s, Note("close"))

\* The proxy keeps a handle from the open to the end; the backend an entry,
\* which its connection's teardown may take first.
Known(e, s) == IF e = "proxy" THEN stage[e][s] \in {"opening", "open"} ELSE s \in routed

\* What enters the inbox for a frame: bytes beyond the granted window are
\* answered by closing the stream.
Ingested(e, s, frame) ==
    IF frame.kind = "data" /\ book[e][s] < frame.size THEN Note("close") ELSE frame

Ingest(e, s, frame) ==
    /\ inbox' = [inbox EXCEPT ![e][s] = Append(@, Ingested(e, s, frame))]
    /\ book' = [book EXCEPT ![e][s] = IF frame.kind = "data" THEN @ - frame.size ELSE @]

\* Whether an end still reads the socket.
Listens(e, p) ==
    IF p = "binary" THEN plane[e] = "up"
    ELSE IF e = "proxy" THEN manager ELSE handler = "serving"

Handles == {s \in Streams : Known("proxy", s)}

\* open_stream: the handle is registered before the dial.
Admit(s) ==
    /\ stage' = [stage EXCEPT !["proxy"][s] = "opening"]
    /\ UNCHANGED <<inbox, book>>

Receive(e, s, p) ==
    LET frame == Head(wire[e][s][p])
        rest == [wire EXCEPT ![e][s][p] = Tail(@)]
    IN
    /\ Listens(e, p)
    /\ wire[e][s][p] # <<>>
    /\ CASE frame.kind = "open" /\ allowed /\ Cardinality(Handles) < MaxStreams ->
              /\ Admit(s)
              /\ wire' = rest
         [] frame.kind = "open" /\ ~(allowed /\ Cardinality(Handles) < MaxStreams) ->
              /\ wire' = [rest EXCEPT !["backend"][s][p] = Append(@, Note("refused"))]
              /\ stage' = [stage EXCEPT !["proxy"][s] = "ended"]
              /\ UNCHANGED <<inbox, book>>
         [] frame.kind # "open" /\ Known(e, s) ->
              /\ Ingest(e, s, frame)
              /\ wire' = rest
              /\ UNCHANGED stage
         [] OTHER ->
              /\ wire' = rest
              /\ UNCHANGED <<stage, inbox, book>>
    /\ UNCHANGED <<egress, routed, avail, held, read, got, lost, untold, socketVars, allowed, stuck,
                   faults>>

-----------------------------------------------------------------------------
(* Opening a stream                                                        *)

\* open_tunnel finds the session registered and picks the plane ...
OpenLooks(s) ==
    /\ stage["backend"][s] = "idle"
    /\ handler \in {"serving", "reaped", "closing"}
    /\ stage' = [stage EXCEPT !["backend"][s] = "looked"]
    /\ egress' = [egress EXCEPT ![s] = IF plane["backend"] = "up" THEN "binary" ELSE "control"]
    /\ UNCHANGED <<routed, inbox, wire, avail, held, book, read, got, lost, untold, socketVars,
                   allowed, stuck, faults>>

\* ... and inserts the entry and sends the open, whatever became of the
\* connection since.  A plane that is gone or full refuses it.
OpenSends(s) ==
    /\ stage["backend"][s] = "looked"
    /\ \/ /\ Accepts("backend", egress[s])
          /\ stage' = [stage EXCEPT !["backend"][s] = "opening"]
          /\ routed' = routed \cup {s}
          /\ Put("backend", s, Note("open"))
       \/ /\ stage' = [stage EXCEPT !["backend"][s] = "ended"]
          /\ UNCHANGED <<routed, wire>>
    /\ UNCHANGED <<egress, inbox, avail, held, book, read, got, lost, untold, socketVars,
                   allowed, stuck, faults>>

\* The first frame must be the verdict; the relay starts on Opened.
TakeVerdict(s) ==
    /\ stage["backend"][s] = "opening"
    /\ inbox["backend"][s] # <<>>
    /\ IF Head(inbox["backend"][s]).kind = "opened"
       THEN /\ stage' = [stage EXCEPT !["backend"][s] = "open"]
            /\ inbox' = [inbox EXCEPT !["backend"][s] = Tail(@)]
            /\ UNCHANGED <<routed, avail, held, book>>
       ELSE Forget("backend", s)
    /\ UNCHANGED <<egress, wire, read, got, lost, untold, socketVars, allowed, stuck, faults>>

\* MUTANT: a timed out open that tells nobody.
OpenTimesOutQuietly(s) ==
    /\ stage["backend"][s] = "opening"
    /\ Forget("backend", s)
    /\ UNCHANGED <<egress, wire, read, got, lost, untold, socketVars, allowed, stuck, faults>>

\* OPEN_TIMEOUT; the verdict may be on its way.
OpenTimesOut(s) ==
    /\ stage["backend"][s] = "opening"
    /\ End("backend", s)
    /\ UNCHANGED <<egress, read, got, socketVars, allowed, stuck, faults>>

DialSucceeds(s) ==
    /\ stage["proxy"][s] = "opening"
    /\ stage' = [stage EXCEPT !["proxy"][s] = "open"]
    /\ Send("proxy", s, Note("opened"))
    /\ UNCHANGED <<egress, routed, inbox, avail, held, book, read, got, socketVars, allowed, stuck,
                   faults>>

DialFails(s) ==
    /\ stage["proxy"][s] = "opening"
    /\ Forget("proxy", s)
    /\ Send("proxy", s, Note("refused"))
    /\ UNCHANGED <<egress, read, got, socketVars, allowed, stuck, faults>>

-----------------------------------------------------------------------------
(* The copy loops of either end                                            *)

\* CreditGate.take: the uplink reserves what it may read.
Take(e, s) ==
    LET n == Min({avail[e][s], MaxChunk}) IN
    /\ stage[e][s] = "open"
    /\ held[e][s] = 0
    /\ avail[e][s] > 0
    /\ held' = [held EXCEPT ![e][s] = n]
    /\ avail' = [avail EXCEPT ![e][s] = @ - n]
    /\ UNCHANGED <<stage, egress, routed, inbox, wire, book, read, got, lost, untold, socketVars,
                   allowed, stuck, faults>>

\* MUTANTS: the whole budget comes back, or none of it.
RefundAll(e, s, n) == held[e][s]
RefundNothing(e, s, n) == 0

Refund(e, s, n) == held[e][s] - n

\* The uplink reads n bytes, returns the budget it did not use and sends
\* them.  The backend's stream ends when they are refused; the proxy does not
\* look at the result.
Read(e, s, n) ==
    /\ stage[e][s] = "open"
    /\ n \in 1..held[e][s]
    /\ read[e][s] + n <= Bytes[e]
    /\ \/ e = "backend" /\ End(e, s) /\ UNCHANGED read
       \/ /\ e = "proxy" \/ Accepts(e, egress[s])
          /\ read' = [read EXCEPT ![e][s] = @ + n]
          /\ held' = [held EXCEPT ![e][s] = 0]
          /\ avail' = [avail EXCEPT ![e][s] = @ + Refund(e, s, n)]
          /\ Put(e, s, Data(read[e][s] + 1, n))
          /\ UNCHANGED <<stage, routed, inbox, book, lost, untold>>
    /\ UNCHANGED <<egress, got, socketVars, allowed, stuck, faults>>

\* The source closes, which an uplink that waits for credit does not see.
SourceEnds(e, s) ==
    /\ stage[e][s] = "open"
    /\ held[e][s] > 0
    /\ End(e, s)
    /\ UNCHANGED <<egress, read, got, socketVars, allowed, stuck, faults>>

\* The downlink writes the bytes, then gives the window back to its book
\* and to the other end.
Write(e, s, frame) ==
    /\ <<e, s>> \notin stuck
    /\ got' = [got EXCEPT ![e][s] = @ \o [i \in 1..frame.size |-> frame.first + i - 1]]
    /\ book' = [book EXCEPT ![e][s] = @ + frame.size]
    /\ Send(e, s, Grant(frame.size))
    /\ UNCHANGED <<stage, routed, avail, held>>

\* MUTANT: a grant is dropped.
TakeGrantNot(e, s, frame) == UNCHANGED <<stage, routed, wire, avail, held, book, got, lost, untold>>

\* CreditGate.grant.
TakeGrant(e, s, frame) ==
    /\ avail' = [avail EXCEPT ![e][s] = @ + frame.size]
    /\ UNCHANGED <<stage, routed, wire, held, book, got, lost, untold>>

Process(e, s) ==
    LET frame == Head(inbox[e][s]) IN
    /\ stage[e][s] = "open"
    /\ inbox[e][s] # <<>>
    /\ IF frame.kind = "close"
       THEN End(e, s) /\ UNCHANGED got
       ELSE /\ inbox' = [inbox EXCEPT ![e][s] = Tail(@)]
            /\ IF frame.kind = "data" THEN Write(e, s, frame) ELSE TakeGrant(e, s, frame)
    /\ UNCHANGED <<egress, read, socketVars, allowed, stuck, faults>>

\* Bytes that cannot be written end the stream.
WriteFails(e, s) ==
    /\ stage[e][s] = "open"
    /\ inbox[e][s] # <<>>
    /\ Head(inbox[e][s]).kind = "data"
    /\ End(e, s)
    /\ UNCHANGED <<egress, read, got, socketVars, allowed, stuck, faults>>

-----------------------------------------------------------------------------
(* The sockets                                                             *)

Without(p) == [e \in Ends |-> [s \in Streams |-> [wire[e][s] EXCEPT ![p] = <<>>]]]

\* run_data_plane: the proxy attaches its half as soon as it sent its ticket.
PlaneAttaches ==
    /\ manager
    /\ "control" \in link
    /\ plane["proxy"] = "none"
    /\ plane' = [plane EXCEPT !["proxy"] = "up"]
    /\ link' = link \cup {"binary"}
    /\ UNCHANGED <<streamVars, handler, manager, allowed, stuck, faults>>

\* register_data_plane, for as long as the control connection is registered.
PlaneRegisters ==
    /\ "binary" \in link
    /\ plane["backend"] = "none"
    /\ IF handler \in {"serving", "reaped", "closing"}
       THEN plane' = [plane EXCEPT !["backend"] = "up"] /\ UNCHANGED <<link, wire>>
       ELSE link' = link \ {"binary"} /\ wire' = Without("binary") /\ UNCHANGED plane
    /\ UNCHANGED <<stage, egress, routed, inbox, avail, held, book, read, got, lost, untold,
                   handler, manager, allowed, stuck, faults>>

\* An end finds the socket dead: unregister_data_plane, detach_data_plane.
PlaneNoticed(e) ==
    /\ plane[e] = "up"
    /\ "binary" \notin link
    /\ plane' = [plane EXCEPT ![e] = "gone"]
    /\ UNCHANGED <<streamVars, link, handler, manager, allowed, stuck, faults>>

\* A socket dies with what it carries.
Breaks(p) ==
    /\ p \in link
    /\ faults < MaxFaults
    /\ faults' = faults + 1
    /\ link' = link \ {p}
    /\ wire' = Without(p)
    /\ UNCHANGED <<stage, egress, routed, inbox, avail, held, book, read, got, lost, untold,
                   plane, handler, manager, allowed, stuck>>

\* The proxy's connection is over: the data plane's task is aborted and every
\* stream is told to close.
ShutsDown ==
    /\ manager
    /\ "control" \notin link
    /\ manager' = FALSE
    /\ plane' = [plane EXCEPT !["proxy"] = "gone"]
    /\ link' = link \ {"binary"}
    /\ wire' = Without("binary")
    /\ inbox' = [inbox EXCEPT !["proxy"] =
                    [s \in Streams |-> IF s \in Handles THEN Append(@[s], Note("close")) ELSE @[s]]]
    /\ UNCHANGED <<stage, egress, routed, avail, held, book, read, got, lost, untold, handler,
                   allowed, stuck, faults>>

\* MUTANT: the entries go, the relays are not told.
ReapsQuietly ==
    /\ handler = "serving"
    /\ "control" \notin link
    /\ handler' = "reaped"
    /\ routed' = {}
    /\ UNCHANGED <<stage, egress, inbox, wire, avail, held, book, read, got, lost, untold,
                   plane, link, manager, allowed, stuck, faults>>

\* close_tunnels_for_connection.
Reaps ==
    /\ handler = "serving"
    /\ "control" \notin link
    /\ handler' = "reaped"
    /\ inbox' = [inbox EXCEPT !["backend"] =
                    [s \in Streams |-> IF s \in routed THEN Append(@[s], Note("close")) ELSE @[s]]]
    /\ routed' = {}
    /\ UNCHANGED <<stage, egress, wire, avail, held, book, read, got, lost, untold, plane, link,
                   manager, allowed, stuck, faults>>

\* close_data_plane_for_connection.
ClosesPlane ==
    /\ handler = "reaped"
    /\ handler' = "closing"
    /\ IF plane["backend"] = "up"
       THEN /\ plane' = [plane EXCEPT !["backend"] = "gone"]
            /\ link' = link \ {"binary"}
            /\ wire' = Without("binary")
       ELSE UNCHANGED <<plane, link, wire>>
    /\ UNCHANGED <<stage, egress, routed, inbox, avail, held, book, read, got, lost, untold,
                   manager, allowed, stuck, faults>>

Unregisters ==
    /\ handler = "closing"
    /\ handler' = "left"
    /\ UNCHANGED <<streamVars, plane, link, manager, allowed, stuck, faults>>

\* Streams that keep a clone of the connection's sender.
Senders == {s \in Streams : \/ stage["backend"][s] \in {"looked", "opening"}
                            \/ stage["backend"][s] = "open" /\ egress[s] = "control"}

\* send_task ends once every clone is dropped.
Joins ==
    /\ handler = "left"
    /\ Senders = {}
    /\ handler' = "done"
    /\ UNCHANGED <<streamVars, plane, link, manager, allowed, stuck, faults>>

\* ForwardClose.
Revoked ==
    /\ allowed
    /\ manager
    /\ "control" \in link
    /\ faults < MaxFaults
    /\ faults' = faults + 1
    /\ allowed' = FALSE
    /\ inbox' = [inbox EXCEPT !["proxy"] =
                    [s \in Streams |-> IF s \in Handles THEN Append(@[s], Note("close")) ELSE @[s]]]
    /\ UNCHANGED <<stage, egress, routed, wire, avail, held, book, read, got, lost, untold,
                   socketVars, stuck>>

\* A browser stops reading, a local service hangs.
GetsStuck(e, s) ==
    /\ stage[e][s] = "open"
    /\ faults < MaxFaults
    /\ faults' = faults + 1
    /\ stuck' = stuck \cup {<<e, s>>}
    /\ UNCHANGED <<streamVars, socketVars, allowed>>

-----------------------------------------------------------------------------

Opening(s) == OpenSends(s) \/ TakeVerdict(s) \/ OpenTimesOut(s)
Dialling(s) == DialSucceeds(s) \/ DialFails(s)
Reads(e, s) == \E n \in 1..MaxChunk : Read(e, s, n)

Sockets ==
    \/ PlaneRegisters \/ ShutsDown \/ Reaps \/ ClosesPlane \/ Unregisters \/ Joins
    \/ \E e \in Ends : PlaneNoticed(e)

Next ==
    \/ \E s \in Streams :
          \/ OpenLooks(s) \/ Opening(s) \/ Dialling(s)
          \/ \E e \in Ends :
                \/ Take(e, s) \/ Reads(e, s) \/ SourceEnds(e, s) \/ Process(e, s)
                \/ WriteFails(e, s) \/ GetsStuck(e, s)
                \/ \E p \in Planes : Receive(e, s, p)
    \/ PlaneAttaches \/ Sockets \/ Revoked
    \/ \E p \in Planes : Breaks(p)

Spec == Init /\ [][Next]_vars

\* Tasks run, frames arrive while their socket lives, dials and waits time
\* out, and a source gives what it has.  Nobody has to open a stream, attach
\* a data plane, end a source or break anything.
Fairness ==
    /\ \A s \in Streams :
          /\ WF_vars(Opening(s))
          /\ WF_vars(Dialling(s))
          /\ \A e \in Ends :
                /\ WF_vars(Take(e, s))
                /\ WF_vars(Reads(e, s))
                /\ WF_vars(Process(e, s))
                /\ \A p \in Planes : WF_vars(Receive(e, s, p))
    /\ WF_vars(Sockets)

FairSpec == Spec /\ Fairness

-----------------------------------------------------------------------------
(* Properties                                                              *)

Units(kind, frames) ==
    {u \in (DOMAIN frames) \X (1..Bounded) : frames[u[1]].kind = kind /\ u[2] <= frames[u[1]].size}

SizeOf(kind, frames) == Cardinality(Units(kind, frames))

\* Bytes, or credit, on the way to an end and not yet processed there.
OnWire(kind, e, s) == SizeOf(kind, wire[e][s]["control"]) + SizeOf(kind, wire[e][s]["binary"])
Held(kind, e, s) == SizeOf(kind, inbox[e][s])

Live(s) == \A e \in Ends : stage[e][s] = "open"

\* Credit of an end that never reached it, because the other end's channel
\* was full.
Missing(e, s) == IF e = "proxy" THEN lost[s] ELSE 0

\* Credit is neither made nor lost: what a sender may send, what is on the way
\* to the receiver or back to it, and the grants the backend's full channel
\* refused make up the window, and the receiver's book is the window less
\* what it has yet to write.  Beside those grants only a lost socket, or a
\* connection torn down, takes credit with it.  And no end is closed for
\* bytes the other end had the credit to send.
CreditKept ==
    /\ \A s \in Streams, e \in Ends : Live(s) =>
          LET o == Other(e)
              total == avail[e][s] + held[e][s] + OnWire("data", o, s) + Held("data", o, s)
                       + OnWire("window", e, s) + Held("window", e, s) + Missing(e, s)
          IN  /\ book[o][s] + Held("data", o, s) = Window
              /\ total <= Window
              /\ egress[s] \in link /\ Known(e, s) /\ Known(o, s) => total = Window
    /\ \A s \in Streams, e \in Ends :
          Known(e, s) => OnWire("data", e, s) <= book[e][s]

\* What is written at an end is a prefix of what the other end read: no byte
\* is skipped, repeated or moved, whatever happens to the planes.
InOrder ==
    \A s \in Streams, e \in Ends :
        /\ Len(got[e][s]) <= read[Other(e)][s]
        /\ \A i \in DOMAIN got[e][s] : got[e][s][i] = i

Ended(s) == \E e \in Ends : stage[e][s] = "ended"
Stuck(s) == \E e \in Ends : <<e, s>> \in stuck

\* Window and refunds never leave both ends waiting: an open stream carries
\* everything its sources have, unless it is closed, its socket dies, a
\* destination stops taking bytes or the whole window was lost to the
\* backend's full channel; as long as any credit is left it goes on.
AllArrives ==
    \A s \in Streams :
        Live(s) ~> \/ \A e \in Ends : Len(got[e][s]) = Bytes[Other(e)]
                   \/ Ended(s) \/ Stuck(s) \/ egress[s] \notin link \/ lost[s] = Window

\* When one end is through with a stream the other end forgets it as well,
\* whichever of verdict, timeout and close are under way, unless the
\* backend's full channel refused the close, which nobody sends again.
BothForget ==
    \A s \in Streams :
        Ended(s) ~> \/ \A e \in Ends : stage[e][s] \in {"idle", "ended"}
                    \/ Stuck(s) \/ egress[s] \notin link \/ s \in untold

\* The teardown of a connection takes every stream that was on it, at both
\* ends, and the data plane; no stream, nor an opening that raced it, keeps
\* the handler waiting.
NoneOutlives ==
    /\ handler = "reaped" ~> \/ handler = "done" /\ plane["backend"] # "up"
                             \/ \E s \in Streams : Stuck(s)
    /\ \A s \in Streams, e \in Ends :
          (/\ handler = "serving" /\ "control" \notin link
           /\ stage[e][s] \in {"opening", "open"})
          ~> stage[e][s] = "ended" \/ Stuck(s)
=============================================================================
