--------------------------- MODULE VncDesktopResize ---------------------------
(***************************************************************************)
(* Desktop resizing of a VNC connection: the negotiation state of          *)
(* plugins/vnc/src/desktop_size.rs and its two users.  The session thread  *)
(* asks for the viewport's layout, the I/O owner reads the server's        *)
(* ExtendedDesktopSize updates; each changes the state under its lock and  *)
(* queues the message it made of it after it has released the lock.        *)
(*                                                                         *)
(* A layout is a number, in the order in which the host chooses them;      *)
(* VncLayouts models what is in one.  The server answers each request once *)
(* and resizes its screen at will, for itself or for another client.       *)
(***************************************************************************)
EXTENDS Integers, Sequences

CONSTANTS MaxLayouts,   \* bound: layouts of this client, the initial one among them
          MaxForeign    \* bound: resizes by the server or by other clients

VARIABLES
    capability,   \* of the server, as negotiated
    pending,      \* pending_layout, 0 for none
    inFlight,     \* request_in_flight
    serverLayout, \* server_layout, 0 for none
    hand,         \* the session thread: the request it has yet to queue
    wire,         \* requests on their way to the server, in the queue and beyond
    screen,       \* of the server
    stream,       \* framebuffer updates from the server: sequences of size updates
    connected,
    foreign,      \* how many resizes were not this client's
    chosen,       \* how many layouts the host chose
    wanted,       \* ghost: the last one that was not refused, 0 once none is
    asked         \* ghost: the last one that was made a request

stateVars  == <<capability, pending, inFlight, serverLayout>>
serverVars == <<screen, foreign>>
vars == <<stateVars, hand, wire, serverVars, stream, connected, chosen, wanted, asked>>

Layouts  == 1 .. (MaxLayouts + MaxForeign + 1)
Results  == {"Success", "ResizeProhibited", "OutOfResources", "InvalidScreenLayout"}
Updates  == [reason : {"Client"}, result : Results, layout : Layouts]
            \cup [reason : {"Server", "OtherClient"}, result : {"Success"}, layout : Layouts]
Foreign(n) == MaxLayouts + 1 + n

TypeOK ==
    /\ capability \in {"Unknown", "Supported", "Unsupported"}
    /\ pending \in 0 .. MaxLayouts /\ serverLayout \in {0} \cup Layouts
    /\ inFlight \in BOOLEAN /\ connected \in BOOLEAN
    /\ hand \in Seq(1 .. MaxLayouts) /\ wire \in Seq(1 .. MaxLayouts)
    /\ screen \in Layouts
    /\ stream \in Seq(Seq(Updates))
    /\ foreign \in 0 .. MaxForeign
    /\ chosen \in 1 .. MaxLayouts
    /\ wanted \in 0 .. MaxLayouts /\ asked \in 0 .. MaxLayouts

Init ==
    /\ capability = "Unknown" /\ pending = 1 /\ inFlight = FALSE /\ serverLayout = 0
    /\ hand = <<>> /\ wire = <<>> /\ stream = <<>>
    /\ screen = Foreign(0) /\ foreign = 0
    /\ connected = TRUE
    /\ chosen = 1 /\ wanted = 1 /\ asked = 0

(***************************************************************************)
(* The session thread.                                                     *)
(***************************************************************************)
\* A layout that waits is kept, not replaced.
QueueLayoutFirst(layout) ==
    \/ /\ capability = "Unknown" \/ (capability = "Supported" /\ inFlight)
       /\ pending' = (IF pending = 0 THEN layout ELSE pending) /\ wanted' = layout
       /\ UNCHANGED <<inFlight, hand, asked>>
    \/ /\ capability = "Unsupported"
       /\ UNCHANGED <<pending, inFlight, hand, wanted, asked>>
    \/ /\ capability = "Supported" /\ ~inFlight
       /\ inFlight' = TRUE
       /\ hand' = <<layout>> /\ wanted' = layout /\ asked' = layout
       /\ UNCHANGED pending

\* Before the extension is known the layout is kept, though the host is told that
\* it has no effect yet; once a request is out, the newest layout waits for its answer.
QueueLayout(layout) ==
    \/ /\ capability = "Unknown" \/ (capability = "Supported" /\ inFlight)
       /\ pending' = layout /\ wanted' = layout
       /\ UNCHANGED <<inFlight, hand, asked>>
    \/ /\ capability = "Unsupported"
       /\ UNCHANGED <<pending, inFlight, hand, wanted, asked>>
    \/ /\ capability = "Supported" /\ ~inFlight
       /\ inFlight' = TRUE
       /\ hand' = <<layout>> /\ wanted' = layout /\ asked' = layout
       /\ UNCHANGED pending

RequestLayout ==
    /\ connected /\ hand = <<>> /\ chosen < MaxLayouts
    /\ chosen' = chosen + 1
    /\ QueueLayout(chosen')
    /\ UNCHANGED <<capability, serverLayout, wire, serverVars, stream, connected>>

\* The bounded command queue takes the request, or the connection is over.
WriteRequest ==
    /\ connected /\ hand # <<>>
    /\ hand' = <<>>
    /\ \/ wire' = wire \o hand /\ UNCHANGED connected
       \/ connected' = FALSE /\ UNCHANGED wire
    /\ UNCHANGED <<stateVars, serverVars, stream, chosen, wanted, asked>>

(***************************************************************************)
(* The I/O owner: one framebuffer update.                                  *)
(***************************************************************************)
AppliesLayout(update) == update.reason # "Client" \/ update.result = "Success"

\* The last of the updates that applies one decides the layout.
AppliedLayout(updates) ==
    LET applied == {i \in DOMAIN updates : AppliesLayout(updates[i])} IN
    IF applied = {} THEN serverLayout
    ELSE updates[CHOOSE i \in applied : \A j \in applied : j <= i].layout

\* What waits is asked for only when an answer has come.
ObserveAnswers(updates) ==
    LET answered   == \E i \in DOMAIN updates : updates[i].reason = "Client"
        prohibited == \E i \in DOMAIN updates : updates[i].result = "ResizeProhibited"
        sends      == ~prohibited /\ answered /\ pending # 0
    IN
    /\ capability' = IF prohibited THEN "Unsupported" ELSE "Supported"
    /\ serverLayout' = AppliedLayout(updates)
    /\ inFlight' = ((inFlight /\ ~answered) \/ sends)
    /\ pending' = IF prohibited \/ sends THEN 0 ELSE pending
    /\ wanted' = IF prohibited THEN 0 ELSE wanted
    /\ asked' = IF sends THEN pending ELSE asked
    /\ wire' = IF sends THEN Append(wire, pending) ELSE wire
    /\ UNCHANGED connected

Observe(updates) ==
    LET answered   == \E i \in DOMAIN updates : updates[i].reason = "Client"
        prohibited == \E i \in DOMAIN updates : updates[i].result = "ResizeProhibited"
        flying     == inFlight /\ ~answered
        sends      == ~prohibited /\ ~flying /\ pending # 0
    IN
    /\ capability' = IF prohibited THEN "Unsupported" ELSE "Supported"
    /\ serverLayout' = AppliedLayout(updates)
    /\ inFlight' = (flying \/ sends)
    /\ pending' = IF prohibited \/ sends THEN 0 ELSE pending
    /\ wanted' = IF prohibited THEN 0 ELSE wanted
    /\ IF sends
       THEN /\ asked' = pending
            /\ \/ wire' = Append(wire, pending) /\ UNCHANGED connected
               \/ connected' = FALSE /\ UNCHANGED wire
       ELSE UNCHANGED <<wire, connected, asked>>

\* One without a size update says nothing about the extension, and changes nothing.
HandleUpdate ==
    /\ connected /\ stream # <<>>
    /\ stream' = Tail(stream)
    /\ Observe(Head(stream))
    /\ UNCHANGED <<hand, serverVars, chosen>>

(***************************************************************************)
(* The server: its updates travel alone, or several in one framebuffer     *)
(* update.                                                                 *)
(***************************************************************************)
SendUpdate(update) ==
    \/ stream' = Append(stream, <<update>>)
    \/ /\ stream # <<>>
       /\ Len(stream[Len(stream)]) < 2
       /\ stream' = [stream EXCEPT ![Len(stream)] = Append(@, update)]

ServerAnswers ==
    /\ connected /\ wire # <<>>
    /\ wire' = Tail(wire)
    /\ \E result \in Results :
         /\ screen' = IF result = "Success" THEN Head(wire) ELSE screen
         /\ SendUpdate([reason |-> "Client", result |-> result, layout |-> Head(wire)])
    /\ UNCHANGED <<stateVars, hand, connected, foreign, chosen, wanted, asked>>

\* The first such update is how the extension is announced.
ServerResizes ==
    /\ connected /\ foreign < MaxForeign
    /\ foreign' = foreign + 1
    /\ screen' = Foreign(foreign')
    /\ \E reason \in {"Server", "OtherClient"} :
         SendUpdate([reason |-> reason, result |-> "Success", layout |-> screen'])
    /\ UNCHANGED <<stateVars, hand, wire, connected, chosen, wanted, asked>>

Next == RequestLayout \/ WriteRequest \/ HandleUpdate \/ ServerAnswers \/ ServerResizes

Fairness == WF_vars(WriteRequest) /\ WF_vars(HandleUpdate) /\ WF_vars(ServerAnswers)
Spec == Init /\ [][Next]_vars /\ Fairness

(***************************************************************************)
(* Properties.                                                             *)
(***************************************************************************)
Answers == {p \in (DOMAIN stream) \X (1 .. 2) :
              p[2] \in DOMAIN stream[p[1]] /\ stream[p[1]][p[2]].reason = "Client"}

\* There is one request at most between the two threads and the server, or one answer
\* on its way, and exactly when the state says that one is in flight.
OneRequest ==
    connected => /\ Len(hand) + Len(wire) <= 1
                 /\ inFlight <=> hand # <<>> \/ wire # <<>> \/ Answers # {}
                 /\ Answers # {} => hand = <<>> /\ wire = <<>>
                 /\ \A a, b \in Answers : a = b

\* The layout the host chose last is not lost between them: it waits, or it is the
\* one last asked for; a layout that waits is never older than one that was asked for.
NewestKept ==
    connected /\ wanted # 0 => \/ pending = wanted /\ asked < pending
                               \/ pending = 0 /\ asked = wanted

\* A layout waits only for an answer that is due, or for the extension.
NothingStranded ==
    connected /\ pending # 0 => inFlight \/ capability = "Unknown"

\* With nothing on the way, the client knows the server's screen.
ScreenKnown ==
    connected /\ stream = <<>> /\ foreign > 0 => serverLayout = screen

\* Once the extension is there, a layout that waits is asked for, or a newer one is,
\* unless the server prohibits it or the connection ends.
Waits(n)  == pending = n /\ capability = "Supported"
Served(n) == asked >= n \/ wanted = 0 \/ ~connected

LayoutReachesServer == \A n \in 1 .. MaxLayouts : Waits(n) ~> Served(n)
=============================================================================
