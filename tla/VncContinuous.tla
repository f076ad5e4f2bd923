---------------------------- MODULE VncContinuous -----------------------------
(***************************************************************************)
(* How a VNC connection keeps framebuffer updates coming: it polls, one    *)
(* request after each message it has processed, until the server announces *)
(* continuous updates, and again once the server has left them             *)
(* (plugins/vnc/src/performance.rs and the end of the owner's loop in      *)
(* connection.rs).  Fences are answered on the same transport.             *)
(*                                                                         *)
(* The server announces the extension, may leave continuous mode when it   *)
(* likes and resizes its screen.  It sends an update only if one is        *)
(* requested or updates are continuous, and only of the region it was told.*)
(***************************************************************************)
EXTENDS Integers, Sequences

CONSTANTS MaxChanges,  \* bound: changes of the server's screen
          MaxSizes,    \* bound: sizes the screen takes
          MaxFences,   \* bound: fences
          MaxEnds      \* bound: ends of continuous updates, the announcement among them

VARIABLES
    supported, active, \* VncContinuousUpdatesState
    size,              \* of the framebuffer
    closed,            \* the owner was told to shut down
    toServer, toClient,
    requested,         \* the server: an update request is open
    region,            \* the server: the size it was given for continuous updates, or 0
    screen,            \* the server: its size, and what has changed since the last update
    fences,            \* the server: fences sent and answered
    sent               \* the server: how many changes, ends and answers there were

clientVars == <<supported, active, size, closed>>
serverVars == <<requested, region, screen, fences, sent>>
vars == <<clientVars, toServer, toClient, serverVars>>

Sizes    == 1 .. MaxSizes
ToServer == [kind : {"request", "enable", "disable"}, size : Sizes]
            \cup [kind : {"fence"}, size : 1 .. MaxFences]
ToClient == [kind : {"update"}, size : 0 .. MaxSizes] \cup [kind : {"end"}, size : {0}]
            \cup [kind : {"fence"}, size : 1 .. MaxFences]
Message(kind, n) == [kind |-> kind, size |-> n]

TypeOK ==
    /\ supported \in BOOLEAN /\ active \in BOOLEAN /\ closed \in BOOLEAN
    /\ size \in Sizes
    /\ toServer \in Seq(ToServer) /\ toClient \in Seq(ToClient)
    /\ requested \in BOOLEAN /\ region \in {0} \cup Sizes
    /\ screen \in [size : Sizes, changed : BOOLEAN]
    /\ fences \in [sent : 0 .. MaxFences, answered : 0 .. MaxFences]
    /\ sent \in [changes : 0 .. MaxChanges, ends : 0 .. MaxEnds]

Init ==
    /\ supported = FALSE /\ active = FALSE /\ size = 1 /\ closed = FALSE
    /\ toServer = <<Message("request", 1)>> /\ toClient = <<>>
    /\ requested = FALSE /\ region = 0
    /\ screen = [size |-> 1, changed |-> TRUE]
    /\ fences = [sent |-> 0, answered |-> 0]
    /\ sent = [changes |-> 0, ends |-> 0]

(***************************************************************************)
(* The I/O owner.                                                          *)
(***************************************************************************)
\* observe_end_of_continuous_updates: the first is the announcement, a later one the
\* end of the mode.
ObserveEnd(message) ==
    IF message.kind # "end" THEN UNCHANGED <<supported, active>>
    ELSE supported' = TRUE /\ active' = ~supported

\* What the client answers before it applies the message ...
Controls(message) ==
    CASE message.kind = "fence"               -> <<Message("fence", message.size)>>
      [] message.kind = "end" /\ ~supported   -> <<Message("enable", size)>>
      [] OTHER                                -> <<>>

\* ... the new region, after a resize ...
Regions(message) ==
    IF message.kind = "update" /\ message.size # 0 /\ active'
    THEN <<Message("enable", size')>> ELSE <<>>

\* No request once the extension is there, also when the mode has ended.
PollsBefore == IF supported' THEN <<>> ELSE <<Message("request", size')>>

\* ... and the next request, unless updates are continuous.
Polls == IF active' THEN <<>> ELSE <<Message("request", size')>>

Process ==
    /\ ~closed /\ toClient # <<>>
    /\ LET message == Head(toClient) IN
         /\ ObserveEnd(message)
         /\ size' = IF message.kind = "update" /\ message.size # 0 THEN message.size ELSE size
         /\ toServer' = toServer \o Controls(message) \o Regions(message) \o Polls
    /\ toClient' = Tail(toClient)
    /\ UNCHANGED <<closed, serverVars>>

\* A shutdown that is queued behind the message in hand leaves continuous mode first.
Shutdown ==
    /\ ~closed
    /\ closed' = TRUE /\ active' = FALSE
    /\ toServer' = IF active THEN Append(toServer, Message("disable", size)) ELSE toServer
    /\ UNCHANGED <<supported, size, toClient, serverVars>>

(***************************************************************************)
(* The server.                                                             *)
(***************************************************************************)
ServerTakes ==
    /\ toServer # <<>>
    /\ LET message == Head(toServer) IN
         /\ requested' = (requested \/ message.kind = "request")
         /\ region' = CASE message.kind = "enable"  -> message.size
                        [] message.kind = "disable" -> 0
                        [] OTHER                    -> region
         /\ fences' = IF message.kind = "fence" THEN [fences EXCEPT !.answered = message.size]
                      ELSE fences
    /\ toServer' = Tail(toServer)
    /\ UNCHANGED <<clientVars, toClient, screen, sent>>

ServerUpdates ==
    /\ ~closed /\ screen.changed /\ (requested \/ region # 0)
    /\ \/ screen' = [screen EXCEPT !.changed = FALSE]
          /\ toClient' = Append(toClient, Message("update", 0))
       \/ \E s \in Sizes \ {screen.size} :
            /\ screen' = [size |-> s, changed |-> FALSE]
            /\ toClient' = Append(toClient, Message("update", s))
    /\ requested' = FALSE
    /\ UNCHANGED <<clientVars, toServer, region, fences, sent>>

ScreenChanges ==
    /\ ~screen.changed /\ sent.changes < MaxChanges
    /\ screen' = [screen EXCEPT !.changed = TRUE]
    /\ sent' = [sent EXCEPT !.changes = @ + 1]
    /\ UNCHANGED <<clientVars, toServer, toClient, requested, region, fences>>

ServerFence ==
    /\ ~closed /\ fences.sent < MaxFences
    /\ fences' = [fences EXCEPT !.sent = @ + 1]
    /\ toClient' = Append(toClient, Message("fence", fences'.sent))
    /\ UNCHANGED <<clientVars, toServer, requested, region, screen, sent>>

\* The announcement, and later the end of the mode it is in.
ServerEnds ==
    /\ ~closed /\ sent.ends < MaxEnds
    /\ sent.ends = 0 \/ region # 0
    /\ region' = 0
    /\ sent' = [sent EXCEPT !.ends = @ + 1]
    /\ toClient' = Append(toClient, Message("end", 0))
    /\ UNCHANGED <<clientVars, toServer, requested, screen, fences>>

Next == \/ Process \/ Shutdown
        \/ ServerTakes \/ ServerUpdates \/ ScreenChanges \/ ServerFence \/ ServerEnds

Fairness == WF_vars(Process) /\ WF_vars(ServerTakes) /\ WF_vars(ServerUpdates)
Spec == Init /\ [][Next]_vars /\ Fairness

(***************************************************************************)
(* Properties.                                                             *)
(***************************************************************************)
Quiet == ~closed /\ toServer = <<>> /\ toClient = <<>>

\* With nothing on the way, an update is requested, or updates are continuous for
\* the whole framebuffer, however the end of the mode and a new region cross.
AlwaysAsked == Quiet => size = screen.size /\ (requested \/ region = size)

\* The fences on their way are those from low on, up to high, each once and in order:
\* the answers, and behind them what has still to be answered.
Fences(s) == {i \in DOMAIN s : s[i].kind = "fence"}
Ascending(s, low, high) ==
    \A i \in Fences(s) :
        /\ low < s[i].size /\ s[i].size <= high
        /\ \A j \in Fences(s) : i < j => s[i].size < s[j].size
InOrder(answers, asks, low, high) ==
    /\ Ascending(answers, low, high) /\ Ascending(asks, low, high)
    /\ \A i \in Fences(answers), j \in Fences(asks) : answers[i].size < asks[j].size
    /\ \A n \in low + 1 .. high : \/ \E i \in Fences(answers) : answers[i].size = n
                                 \/ \E i \in Fences(asks) : asks[i].size = n

\* Fences are answered in order, each once.
FencesInOrder == ~closed => InOrder(toServer, toClient, fences.answered, fences.sent)

\* What changes on the server's screen is sent.
Changed == screen.changed
Sent    == ~screen.changed \/ closed

UpdatesFlow == Changed ~> Sent
=============================================================================
