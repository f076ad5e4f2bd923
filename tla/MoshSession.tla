----------------------------- MODULE MoshSession -----------------------------
(***************************************************************************)
(* The Mosh helper: plugins/mosh/src/main.rs (the relay) and engine.rs     *)
(* (the session task).                                                     *)
(*                                                                         *)
(* The relay polls two directions in one task: requests from stdin go to   *)
(* the engine's command channel, events from its event channel go to       *)
(* stdout.  The engine is a loop around select!: it delivers what the      *)
(* display still owes (pending), takes a command, receives a datagram or   *)
(* sleeps.  Both channels are bounded and output is bounded in bytes too.  *)
(*                                                                         *)
(* The SSP runtime, an external crate, is modelled by what the engine asks *)
(* of it: it numbers frames, a frame carries all input up to it, the       *)
(* server acknowledges a frame it has received, datagrams may be lost.     *)
(* A chunk of output is one unit of the byte budget; a server's output is  *)
(* three of them.                                                          *)
(***************************************************************************)
EXTENDS Integers, Sequences, FiniteSets

CONSTANTS MaxInputs,      \* bound: Input and Resize requests the host writes
          MaxNotices,     \* bound: datagrams that paint, and state changes
          CommandCap,     \* COMMAND_CHANNEL_CAPACITY (256 in the code)
          EventCap,       \* EVENT_CHANNEL_CAPACITY (512 in the code)
          OutputBudget    \* EVENT_OUTPUT_BYTES, in chunks (128 in the code)

ASSUME SessionAssumption ==
    /\ MaxInputs \in Nat /\ MaxNotices \in Nat
    /\ CommandCap \in Nat \ {0} /\ EventCap \in Nat \ {0} /\ OutputBudget \in Nat \ {0}

VARIABLES
    stdin,      \* requests the host wrote and the relay has not read
    relay,      \* the request direction: reading, sending, done, or failed
    commands,   \* command_tx / command_rx
    closed,     \* command_rx.close() was called, or the engine is gone
    pc,         \* the engine: at the loop's top, in select!, gone
    pending,    \* pending
    ending,     \* ending
    events,     \* event_tx / event_rx
    writing,    \* the event the relay is writing to stdout, or <<>>
    predictions,\* by_protocol_frame: frame -> prediction id, 0 for none
    frame,      \* the runtime: the frame the next input goes into
    sent,       \* the runtime: the newest frame it sent
    received,   \* the server: the newest frame it has received
    shutdown,   \* the runtime: a shutdown was requested
    painted,    \* how many bounded notices there were
    exited,     \* the helper's exit: "no", "ok" or "error"
    written,    \* ghost: the requests the host wrote
    carried,    \* ghost: the frame that each queued input went into
    acked,      \* ghost: the newest frame acknowledged to the engine
    reported,   \* ghost: the newest prediction acknowledged to the relay
    heard       \* ghost: the last event that reached the host

hostVars   == <<stdin, written, heard>>
relayVars  == <<relay, writing, exited>>
engineVars == <<pc, pending, ending, closed, predictions>>
sspVars    == <<frame, sent, received, shutdown, painted>>
ghostVars  == <<carried, acked, reported>>
vars == <<hostVars, relayVars, commands, engineVars, events, sspVars, ghostVars>>

Ids     == 1 .. MaxInputs
Frames  == 1 .. (MaxInputs + 1)
Ends    == {"closed", "failed"}
Events  == {"output", "notice", "ack"} \cup Ends
Command == {"input", "resize", "shutdown"}
Request == Command \cup {"invalid"}

TypeOK ==
    /\ stdin \in Seq(Request) /\ commands \in Seq(Command)
    /\ relay \in {"reading", "done"} \cup Command
    /\ closed \in BOOLEAN /\ ending \in BOOLEAN /\ shutdown \in BOOLEAN
    /\ pc \in {"top", "select", "gone"}
    /\ pending \in Seq(Events) /\ events \in Seq(Events) /\ writing \in Seq(Events)
    /\ predictions \in [Frames -> 0 .. MaxInputs]
    /\ frame \in Frames /\ sent \in 0 .. MaxInputs /\ received \in 0 .. MaxInputs
    /\ painted \in 0 .. MaxNotices
    /\ exited \in {"no", "ok", "error"}
    /\ written \in [inputs : 0 .. MaxInputs, shutdown : BOOLEAN]
    /\ carried \in Seq(Frames)
    /\ acked \in 0 .. MaxInputs /\ reported \in 0 .. MaxInputs
    /\ heard \in {"nothing"} \cup Events

Init ==
    /\ stdin = <<>> /\ relay = "reading" /\ commands = <<>> /\ closed = FALSE
    /\ pc = "top" /\ pending = <<>> /\ ending = FALSE
    /\ events = <<>> /\ writing = <<>>
    /\ predictions = [f \in Frames |-> 0]
    /\ frame = 1 /\ sent = 0 /\ received = 0 /\ shutdown = FALSE /\ painted = 0
    /\ exited = "no"
    /\ written = [inputs |-> 0, shutdown |-> FALSE]
    /\ carried = <<>> /\ acked = 0 /\ reported = 0 /\ heard = "nothing"

Alive == exited = "no"

(***************************************************************************)
(* The host.                                                               *)
(***************************************************************************)
HostTypes ==
    /\ Alive /\ written.inputs < MaxInputs /\ ~written.shutdown
    /\ \E c \in {"input", "resize"} : stdin' = Append(stdin, c)
    /\ written' = [written EXCEPT !.inputs = @ + 1]
    /\ UNCHANGED <<heard, relayVars, commands, engineVars, events, sspVars, ghostVars>>

\* The last the host writes: Shutdown, or a frame that is no request; closing
\* stdin has the effect of the latter.
HostShutsDown ==
    /\ Alive /\ ~written.shutdown
    /\ \E c \in {"shutdown", "invalid"} : stdin' = Append(stdin, c)
    /\ written' = [written EXCEPT !.shutdown = TRUE]
    /\ UNCHANGED <<heard, relayVars, commands, engineVars, events, sspVars, ghostVars>>

\* The host takes the bytes off stdout: the relay's write returns.  An end is the
\* last event the direction writes, and the helper exits.
HostReads ==
    /\ Alive /\ writing # <<>>
    /\ heard' = Head(writing)
    /\ writing' = <<>>
    /\ exited' = IF Head(writing) \in Ends THEN "ok" ELSE exited
    /\ UNCHANGED <<stdin, written, relay, commands, engineVars, events, sspVars, ghostVars>>

(***************************************************************************)
(* The relay.                                                              *)
(***************************************************************************)
\* Whether the next frame can be read as a request.
Decodes(r) == r # "invalid"

ReadRequest ==
    /\ Alive /\ relay = "reading" /\ stdin # <<>>
    /\ \/ /\ Decodes(Head(stdin))
          /\ relay' = Head(stdin)
          /\ UNCHANGED exited
       \/ /\ ~Decodes(Head(stdin))
          /\ exited' = "error"
          /\ UNCHANGED relay
    /\ stdin' = Tail(stdin)
    /\ UNCHANGED <<written, heard, writing, commands, engineVars, events,
                   sspVars, ghostVars>>

\* A send that meets a closed channel fails the request direction; select! then
\* returns its error and the events still to be written are dropped with it.
SendCommand ==
    /\ Alive /\ relay \in Command
    /\ \/ /\ closed
          /\ exited' = "error"
          /\ UNCHANGED <<relay, commands>>
       \/ /\ ~closed /\ Len(commands) < CommandCap
          /\ commands' = Append(commands, relay)
          /\ relay' = IF relay = "shutdown" THEN "done" ELSE "reading"
          /\ UNCHANGED exited
    /\ UNCHANGED <<hostVars, writing, engineVars, events, sspVars, ghostVars>>

\* Taking an event off the channel also returns its bytes to the budget.  The channel
\* closes without an end only if the relay is gone, so that one always comes first.
NextEvent ==
    /\ Alive /\ writing = <<>> /\ events # <<>>
    /\ writing' = <<Head(events)>>
    /\ events' = Tail(events)
    /\ UNCHANGED <<hostVars, relay, exited, commands, engineVars, sspVars, ghostVars>>

(***************************************************************************)
(* PredictionIdMap.                                                        *)
(***************************************************************************)
\* Mutant: the first prediction of a frame stays.
RecordFirst(f, id) ==
    [predictions EXCEPT ![f] = IF @ = 0 THEN id ELSE @]

Record(f, id) == [predictions EXCEPT ![f] = IF @ > id THEN @ ELSE id]

AtMost(f) == {g \in Frames : g <= f /\ predictions[g] # 0}
Acknowledged(f) == IF AtMost(f) = {} THEN 0
                   ELSE predictions[CHOOSE g \in AtMost(f) : \A h \in AtMost(f) : h <= g]
Forgotten(f) == [g \in Frames |-> IF g <= f THEN 0 ELSE predictions[g]]

(***************************************************************************)
(* The engine.  A pass is one poll of the runtime and one arm of select!.  *)
(***************************************************************************)
Fails == /\ pending' = Append(pending, "failed") /\ ending' = TRUE

\* What a poll of the runtime brings: a datagram that carries the queued input,
\* a state change, the end of a shutdown nobody answered, or an error.
Poll ==
    \/ UNCHANGED <<pending, ending, frame, sent, painted>>
    \/ /\ frame \in {carried[i] : i \in DOMAIN carried}
       /\ sent' = frame /\ frame' = frame + 1
       /\ UNCHANGED <<pending, ending, painted>>
    \/ /\ painted < MaxNotices
       /\ painted' = painted + 1
       /\ pending' = Append(pending, "notice")
       /\ UNCHANGED <<ending, frame, sent>>
    \/ /\ shutdown
       /\ pending' = Append(pending, "closed") /\ ending' = TRUE
       /\ UNCHANGED <<frame, sent, painted>>
    \/ Fails /\ UNCHANGED <<frame, sent, painted>>

\* Mutant: the engine leaves as soon as the session has ended.
LoopTopAbrupt ==
    /\ Alive /\ pc = "top"
    /\ IF ending THEN UNCHANGED <<pending, ending, frame, sent, painted>> ELSE Poll
    /\ closed' = (closed \/ ending')
    /\ pc' = IF ending' THEN "gone" ELSE "select"
    /\ UNCHANGED <<hostVars, relayVars, commands, predictions, events, received,
                   shutdown, ghostVars>>

LoopTop ==
    /\ Alive /\ pc = "top"
    /\ IF ending THEN UNCHANGED <<pending, ending, frame, sent, painted>> ELSE Poll
    /\ closed' = (closed \/ ending')
    /\ pc' = IF ending' /\ pending' = <<>> THEN "gone" ELSE "select"
    /\ UNCHANGED <<hostVars, relayVars, commands, predictions, events, received,
                   shutdown, ghostVars>>

\* The budget's permits are those of the output still in the channel.
Spent == Cardinality({i \in DOMAIN events : events[i] = "output"})

Deliver ==
    /\ Alive /\ pc = "select" /\ pending # <<>>
    /\ Head(pending) = "output" => Spent < OutputBudget
    /\ Len(events) < EventCap
    /\ events' = Append(events, Head(pending))
    /\ pending' = Tail(pending)
    /\ pc' = "top"
    /\ UNCHANGED <<hostVars, relayVars, commands, ending, closed, predictions, sspVars,
                   ghostVars>>

\* Mutant: commands wait until the display has taken what it is owed.
TakeCommandBehindDisplay ==
    /\ Alive /\ pc = "select" /\ ~ending /\ commands # <<>> /\ pending = <<>>
    /\ commands' = Tail(commands)
    /\ shutdown' = (shutdown \/ Head(commands) = "shutdown")
    /\ pc' = "top"
    /\ UNCHANGED <<predictions, carried, pending, ending>>
    /\ UNCHANGED <<hostVars, relayVars, closed, events, frame, sent, received, painted,
                   acked, reported>>

\* A resize is queued in the runtime; queue_prediction_input may fail, as may request_shutdown.
TakeCommand ==
    /\ Alive /\ pc = "select" /\ ~ending /\ commands # <<>>
    /\ commands' = Tail(commands)
    /\ \/ /\ Head(commands) = "input"
          /\ carried' = Append(carried, frame)
          /\ predictions' = Record(frame, Len(carried'))
          /\ UNCHANGED <<shutdown, pending, ending>>
       \/ /\ Head(commands) = "resize"
          /\ UNCHANGED <<carried, predictions, shutdown, pending, ending>>
       \/ /\ Head(commands) = "shutdown"
          /\ shutdown' = TRUE
          /\ UNCHANGED <<carried, predictions, pending, ending>>
       \/ /\ Head(commands) # "resize"
          /\ Fails
          /\ UNCHANGED <<carried, predictions, shutdown>>
    /\ pc' = "top"
    /\ UNCHANGED <<hostVars, relayVars, closed, events, frame, sent, received, painted,
                   acked, reported>>

Ack(f) ==
    /\ pending' = (IF Acknowledged(f) = 0 THEN <<>> ELSE <<"ack">>)
    /\ reported' = (IF Acknowledged(f) = 0 THEN reported ELSE Acknowledged(f))
    /\ predictions' = Forgotten(f)
    /\ acked' = IF f > acked THEN f ELSE acked

\* A datagram of the server: an acknowledgement, output, the end, an error, or
\* nothing new.  None is received while display events are pending.
Receive ==
    /\ Alive /\ pc = "select" /\ ~ending /\ pending = <<>>
    /\ \/ /\ \E f \in 1 .. received : Ack(f)
          /\ UNCHANGED <<ending, painted>>
       \/ /\ painted < MaxNotices
          /\ painted' = painted + 1
          /\ pending' = <<"output", "output", "output">>
          /\ UNCHANGED <<ending, predictions, acked, reported>>
       \/ /\ pending' = <<"closed">> /\ ending' = TRUE
          /\ UNCHANGED <<predictions, acked, reported, painted>>
       \/ Fails /\ UNCHANGED <<predictions, acked, reported, painted>>
    /\ pc' = "top"
    /\ UNCHANGED <<hostVars, relayVars, commands, closed, events, frame, sent, received,
                   shutdown, carried>>

Sleep ==
    /\ Alive /\ pc = "select" /\ ~ending
    /\ pc' = "top"
    /\ UNCHANGED <<hostVars, relayVars, commands, pending, ending, closed, predictions,
                   events, sspVars, ghostVars>>

\* The network delivers the newest frame or loses it; the runtime resends it.
ServerReceives ==
    /\ Alive /\ received < sent
    /\ \E f \in (received + 1) .. sent : received' = f
    /\ UNCHANGED <<hostVars, relayVars, commands, engineVars, events, frame, sent,
                   shutdown, painted, ghostVars>>

Host   == HostTypes \/ HostShutsDown \/ HostReads
Engine == LoopTop \/ Deliver \/ TakeCommand \/ Receive \/ Sleep
Next   == \/ Host \/ ReadRequest \/ SendCommand \/ NextEvent
          \/ Engine \/ ServerReceives

\* The tasks run, and select! polls its ready arms in random order: an arm that
\* stays ready, even if only each time round the loop, is taken.  Nothing is
\* assumed of the host, which may stop reading, nor of the network.
Fairness ==
    /\ WF_vars(ReadRequest) /\ WF_vars(SendCommand)
    /\ WF_vars(NextEvent)
    /\ WF_vars(LoopTop) /\ WF_vars(Engine)
    /\ SF_vars(Deliver) /\ SF_vars(TakeCommand)

Spec == Init /\ [][Next]_vars /\ Fairness

(***************************************************************************)
(* Properties.                                                             *)
(***************************************************************************)
\* What the host learns of its predictions is exact: the newest prediction
\* reported is the newest that went into a frame the server acknowledged,
\* though frames are shared, skipped and acknowledged late or twice; none is
\* confirmed before the server has its bytes (and the state is well typed).
PredictionsExact ==
    /\ TypeOK
    /\ acked <= received
    /\ reported = Cardinality({i \in DOMAIN carried : carried[i] <= acked})

\* A display that takes nothing holds up neither input nor shutdown: whatever
\* the engine was sent it takes, or the session ends, without any fairness of
\* the host's reading.
RequestsServed == commands # <<>> ~> (commands = <<>> \/ ending \/ ~Alive)

\* Of a host that keeps reading, the end of the session reaches it, unless one of
\* its own requests met the closing engine, or was none, and ended the helper first.
EndReported ==
    WF_vars(HostReads) => (ending ~> (heard \in Ends \/ exited = "error"))
=============================================================================
