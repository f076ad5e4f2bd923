------------------------------ MODULE RdpWorker -----------------------------
(***************************************************************************)
(* The life of an RDP helper session: the worker thread (runtime.rs,       *)
(* session_loop.rs), which serves the host's requests and runs one client  *)
(* thread after the other, and the client thread's life (runtime.rs,       *)
(* client_session.rs): connecting, active, shutting down.                  *)
(*                                                                         *)
(* The two threads share the input channel and the two output channels; a  *)
(* client that is gone has dropped its end of each.  Data: a request that  *)
(* is neither a resize, a reconnect nor a close is an "input".  Resizes    *)
(* are numbered, 0 is the size of the connect request.  RdpFrames has the  *)
(* details of the graphics path, RdpEventWriter what becomes of the events.*)
(***************************************************************************)
EXTENDS Integers, Sequences, FiniteSets

CONSTANTS
    Categories,     \* the error categories of a client's failures
    RequestLimit,   \* RDP_CLIENT_REQUEST_DRAIN_LIMIT
    OutputLimit,    \* RDP_CLIENT_OUTPUT_DRAIN_LIMIT
    MaxRequests,    \* bound: requests of the host before its close
    MaxPixels,      \* bound: graphics events of all sessions
    MaxEpoch        \* bound: epochs started by the server

ASSUME LimitsAssumption == RequestLimit \in Nat \ {0} /\ OutputLimit \in Nat \ {0}
ASSUME BoundsAssumption ==
    MaxRequests \in Nat /\ MaxPixels \in Nat /\ MaxEpoch \in Nat
ASSUME CategoriesAssumption == "message" \notin Categories /\ "none" \notin Categories

VARIABLES
    requests,    \* the request channel, from main to the worker
    resizes,     \* resizes requested so far
    asked,       \* requests so far
    hostOpen,    \* main still reads requests
    worker,      \* where the worker is: see Workers
    drained,     \* outputs drained in this round
    exit,        \* ClientRdpSessionExit
    config,      \* RdpWorkerConfig: graphics_epoch and size
    session,     \* client threads started so far
    client,      \* where the client thread is: see Clients
    clientEpoch, \* latest_graphics_epoch
    clientSize,  \* the display size the client last set
    inputs,      \* the input channel
    deferred,    \* deferred_inputs of connect_native_rdp
    control,     \* the control channel
    graphics,    \* the graphics queue: the epochs of its events
    pixels,      \* graphics events so far
    outcome,     \* the terminal output of the last client
    events,      \* what was handed to the event writer
    lastSize     \* the last resize the worker received

hostVars    == <<resizes, asked, hostOpen>>
clientVars  == <<client, clientEpoch, clientSize, deferred, pixels, outcome>>
channelVars == <<inputs, control, graphics>>
workerVars  == <<worker, drained, exit, config, session, events, lastSize>>
vars == <<requests, hostVars, clientVars, channelVars, workerVars>>

Workers == {"opening", "requests", "outputs", "joining", "ended"}
\* closing: graceful_shutdown was sent; finished: the last output was sent.
Clients == {"none", "connecting", "active", "closing", "finished", "gone"}

Request(kind)  == [kind |-> kind, size |-> 0]
Resize(n)      == [kind |-> "resize", size |-> n]
Close          == Request("close")
Failure(c)     == [kind |-> "failure", category |-> c]
Terminated     == [kind |-> "terminated", category |-> "none"]
NoOutcome      == [kind |-> "none", category |-> "none"]
ResetOutput(e) == [kind |-> "reset", epoch |-> e]
\* A ConnectionFailure event sent by the client thread itself.
FailureEvent   == [kind |-> "event", category |-> "dependency"]

Event(kind, n, e) == [kind |-> kind, session |-> n, epoch |-> e, category |-> "none"]
FailureOf(n, c) == [kind |-> "failure", session |-> n, epoch |-> 0, category |-> c]
Terminals == {"disconnected", "failure"}

HasKind(s, kind) == \E i \in DOMAIN s : s[i].kind = kind

Init ==
    /\ requests = <<>> /\ resizes = 0 /\ asked = 0 /\ hostOpen = TRUE
    /\ worker = "opening" /\ drained = 0 /\ exit = "none"
    /\ config = [epoch |-> 0, size |-> 0]
    /\ session = 0
    /\ client = "none" /\ clientEpoch = 0 /\ clientSize = 0
    /\ inputs = <<>> /\ deferred = <<>> /\ control = <<>> /\ graphics = <<>>
    /\ pixels = 0
    /\ outcome = NoOutcome
    /\ events = <<>>
    /\ lastSize = 0

-----------------------------------------------------------------------------
(* The main thread: run_real_rdp_stdio forwards the requests it reads *)

HostAsks(kind) ==
    /\ hostOpen /\ worker # "ended" /\ asked < MaxRequests
    /\ asked' = asked + 1
    /\ IF kind = "resize"
         THEN /\ resizes' = resizes + 1
              /\ requests' = Append(requests, Resize(resizes + 1))
         ELSE /\ requests' = Append(requests, Request(kind))
              /\ UNCHANGED resizes
    /\ UNCHANGED <<hostOpen, clientVars, channelVars, workerVars>>

\* A Close request, or the end of stdin.
HostCloses ==
    /\ hostOpen
    /\ hostOpen' = FALSE
    /\ requests' = Append(requests, Close)
    /\ UNCHANGED <<resizes, asked, clientVars, channelVars, workerVars>>

-----------------------------------------------------------------------------
(* The worker thread *)

\* start_client_rdp_session.
Open ==
    /\ worker = "opening"
    /\ session' = session + 1
    /\ client' = "connecting"
    /\ clientEpoch' = config.epoch
    /\ clientSize' = config.size
    /\ inputs' = <<>> /\ deferred' = <<>> /\ control' = <<>> /\ graphics' = <<>>
    /\ outcome' = NoOutcome
    /\ worker' = "requests"
    /\ UNCHANGED <<requests, hostVars, pixels, drained, exit, config, events, lastSize>>

\* ... whose configuration or thread cannot be built: start_rdp_worker reports it.
OpenFails ==
    /\ worker = "opening"
    /\ events' = Append(events, FailureOf(session, "message"))
    /\ worker' = "ended"
    /\ UNCHANGED <<requests, hostVars, clientVars, channelVars, drained, exit, config,
                   session, lastSize>>

\* run_client_rdp_loop returns: its receivers are dropped, the client is told to
\* close and joined.
Leave(e) ==
    /\ exit' = e
    /\ worker' = "joining"
    /\ inputs' = Append(inputs, Close)
    /\ control' = <<>> /\ graphics' = <<>>

Shorter(m, n) == IF m < n THEN m ELSE n

\* remember_rdp_reconnect_state over a batch of requests: the last resize counts.
Remembered(size, batch) ==
    LET resized == {i \in DOMAIN batch : batch[i].kind = "resize"}
        last    == CHOOSE i \in resized : \A j \in resized : j <= i
    IN  IF resized = {} THEN size ELSE batch[last].size

\* Variant for mutation: a reconnect drops the other requests of its batch.
HandleRequestsForgetting ==
    /\ worker = "requests"
    /\ LET count == Shorter(Len(requests), RequestLimit)
           batch == SubSeq(requests, 1, count)
           rest  == SubSeq(requests, count + 1, Len(requests))
       IN  /\ requests' = rest
           /\ lastSize' = Remembered(lastSize, batch)
           /\ \/ /\ HasKind(batch, "close")
                 /\ Leave("closed")
                 /\ UNCHANGED <<config, events>>
              \/ /\ ~HasKind(batch, "close") /\ HasKind(batch, "reconnect")
                 /\ Leave("reconnect")
                 /\ UNCHANGED <<config, events>>
              \/ /\ ~HasKind(batch, "close") /\ ~HasKind(batch, "reconnect")
                 /\ config' = [config EXCEPT !.size = Remembered(@, batch)]
                 /\ inputs' = inputs \o batch
                 /\ worker' = "outputs"
                 /\ UNCHANGED <<exit, events, control, graphics>>
    /\ UNCHANGED <<hostVars, clientVars, drained, session>>

\* One round of requests.  A close anywhere in the batch wins, and drops what the
\* batch held before it; a reconnect only keeps the resizes.  A request forwarded
\* to a client that is gone fails, and the failure ends the worker.
HandleRequests ==
    /\ worker = "requests"
    /\ LET count == Shorter(Len(requests), RequestLimit)
           batch == SubSeq(requests, 1, count)
           rest  == SubSeq(requests, count + 1, Len(requests))
       IN  /\ requests' = rest
           /\ lastSize' = Remembered(lastSize, batch)
           /\ \/ /\ HasKind(batch, "close")
                 /\ Leave("closed")
                 /\ UNCHANGED <<config, events>>
              \/ /\ ~HasKind(batch, "close") /\ HasKind(batch, "reconnect")
                 /\ config' = [config EXCEPT !.size = Remembered(@, batch)]
                 /\ Leave("reconnect")
                 /\ UNCHANGED events
              \/ /\ ~HasKind(batch, "close") /\ ~HasKind(batch, "reconnect")
                 /\ config' = [config EXCEPT !.size = Remembered(@, batch)]
                 /\ IF client = "gone" /\ batch # <<>>
                      THEN /\ events' = Append(events, FailureOf(session, "message"))
                           /\ worker' = "ended"
                           /\ UNCHANGED inputs
                      ELSE /\ inputs' = inputs \o batch
                           /\ worker' = "outputs"
                           /\ UNCHANGED events
                 /\ UNCHANGED <<exit, control, graphics>>
    /\ UNCHANGED <<hostVars, clientVars, drained, session>>

\* Variant for mutation: the end is reported as soon as it is drained, and again.
DrainControlReporting ==
    /\ worker = "outputs" /\ drained < OutputLimit /\ control # <<>>
    /\ LET out == Head(control)
       IN  IF out.kind \in {"terminated", "failure"}
             THEN /\ Leave(out.kind)
                  /\ drained' = 0
                  /\ events' = Append(events, Event("disconnected", session, 0))
             ELSE /\ events' = Append(events,
                        IF out.kind = "reset" THEN Event("reset", session, out.epoch)
                                              ELSE FailureOf(session, out.category))
                  /\ control' = Tail(control)
                  /\ drained' = drained + 1
                  /\ UNCHANGED <<inputs, graphics, worker, exit>>
    /\ UNCHANGED <<requests, hostVars, clientVars, config, session, lastSize>>

\* drain_client_rdp_outputs: control before graphics, until both are empty or
\* the limit is reached; a terminal output ends the loop.
DrainControl ==
    /\ worker = "outputs" /\ drained < OutputLimit /\ control # <<>>
    /\ LET out == Head(control)
       IN  \/ /\ out.kind = "reset"
              /\ events' = Append(events, Event("reset", session, out.epoch))
              /\ control' = Tail(control)
              /\ drained' = drained + 1
              /\ UNCHANGED <<inputs, graphics, worker, exit>>
           \/ /\ out.kind = "event"
              /\ events' = Append(events, FailureOf(session, out.category))
              /\ control' = Tail(control)
              /\ drained' = drained + 1
              /\ UNCHANGED <<inputs, graphics, worker, exit>>
           \/ /\ out.kind \in {"terminated", "failure"}
              /\ Leave(out.kind)
              /\ drained' = 0
              /\ UNCHANGED events
    /\ UNCHANGED <<requests, hostVars, clientVars, config, session, lastSize>>

DrainGraphics ==
    /\ worker = "outputs" /\ drained < OutputLimit
    /\ control = <<>> /\ graphics # <<>>
    /\ events' = Append(events, Event("pixels", session, Head(graphics)))
    /\ graphics' = Tail(graphics)
    /\ drained' = drained + 1
    /\ UNCHANGED <<requests, hostVars, clientVars, inputs, control, worker, exit,
                   config, session, lastSize>>

\* Variant for mutation: disconnected channels are taken for empty ones.
LeaveOutputsAlways ==
    /\ worker = "outputs"
    /\ drained' = 0
    /\ drained = OutputLimit \/ (control = <<>> /\ graphics = <<>>)
    /\ worker' = "requests"
    /\ UNCHANGED <<exit, channelVars>>
    /\ UNCHANGED <<requests, hostVars, clientVars, config, session, events, lastSize>>

\* Nothing is left, or the limit is reached; a client that is gone without a
\* terminal output has ended too.
LeaveOutputs ==
    /\ worker = "outputs"
    /\ drained' = 0
    /\ \/ /\ drained = OutputLimit \/ (control = <<>> /\ graphics = <<>> /\ client # "gone")
          /\ worker' = "requests"
          /\ UNCHANGED <<exit, channelVars>>
       \/ /\ drained < OutputLimit /\ control = <<>> /\ graphics = <<>> /\ client = "gone"
          /\ Leave("terminated")
    /\ UNCHANGED <<requests, hostVars, clientVars, config, session, events, lastSize>>

Later(m, n) == IF m > n THEN m ELSE n

\* Variant for mutation: the epoch the client reached is not asked for.
JoinKeepingEpoch ==
    /\ worker = "joining" /\ client = "gone"
    /\ IF exit = "reconnect"
         THEN /\ config' = [config EXCEPT !.epoch = @ + 1]
              /\ events' = Append(events, Event("reset", session + 1, config.epoch + 1))
              /\ worker' = "opening"
         ELSE /\ events' = Append(events,
                    IF exit = "failure" THEN FailureOf(session, outcome.category)
                                        ELSE Event("disconnected", session, 0))
              /\ worker' = "ended"
              /\ UNCHANGED config
    /\ UNCHANGED <<requests, hostVars, clientVars, channelVars, drained, exit, session,
                   lastSize>>

\* The worker joins the client, and reopens the session above every epoch the
\* client has used, or reports its end.
Join ==
    /\ worker = "joining" /\ client = "gone"
    /\ LET reached == Later(config.epoch, clientEpoch)
       IN  IF exit = "reconnect"
             THEN /\ config' = [config EXCEPT !.epoch = reached + 1]
                  /\ events' = Append(events, Event("reset", session + 1, reached + 1))
                  /\ worker' = "opening"
             ELSE /\ config' = [config EXCEPT !.epoch = reached]
                  /\ events' = Append(events,
                        IF exit = "failure" THEN FailureOf(session, outcome.category)
                                            ELSE Event("disconnected", session, 0))
                  /\ worker' = "ended"
    /\ UNCHANGED <<requests, hostVars, clientVars, channelVars, drained, exit, session,
                   lastSize>>

-----------------------------------------------------------------------------
(* The client thread: run_client_rdp_thread *)

Receiving == worker \in {"requests", "outputs"}

\* The terminal output, and OutputEnded behind it.
Finish(out) ==
    /\ client' = "finished"
    /\ outcome' = out
    /\ control' = IF Receiving THEN Append(control, out) ELSE control

\* The runtime cannot be built: an event, and no terminal output behind it.
RuntimeFails ==
    /\ client = "connecting" /\ deferred = <<>>
    /\ client' = "finished"
    /\ control' = IF Receiving THEN Append(control, FailureEvent) ELSE control
    /\ UNCHANGED <<requests, hostVars, clientEpoch, clientSize, deferred, pixels, outcome,
                   inputs, graphics, workerVars>>

\* connect_native_rdp selects between the connection and the inputs: a close
\* cancels it, other inputs wait.
DeferInput ==
    /\ client = "connecting" /\ inputs # <<>>
    /\ inputs' = Tail(inputs)
    /\ IF Head(inputs) = Close
         THEN \E c \in Categories : Finish(Failure(c)) /\ UNCHANGED deferred
         ELSE /\ deferred' = Append(deferred, Head(inputs))
              /\ UNCHANGED <<client, outcome, control>>
    /\ UNCHANGED <<requests, hostVars, clientEpoch, clientSize, pixels, graphics,
                   workerVars>>

\* The connection is up; the inputs that waited go to the end of the channel.
Connect ==
    /\ client = "connecting"
    /\ client' = "active"
    /\ inputs' = inputs \o deferred
    /\ deferred' = <<>>
    /\ UNCHANGED <<requests, hostVars, clientEpoch, clientSize, pixels, outcome, control,
                   graphics, workerVars>>

\* The connection fails, or the active session does.
Fail ==
    /\ client \in {"connecting", "active", "closing"}
    /\ \E c \in Categories : Finish(Failure(c))
    /\ UNCHANGED <<requests, hostVars, clientEpoch, clientSize, deferred, pixels, inputs,
                   graphics, workerVars>>

\* A resize is forwarded to the server; a close asks it to shut down, or ends the
\* session at once while a reactivation is under way.
HandleInput ==
    /\ client \in {"active", "closing"} /\ inputs # <<>>
    /\ inputs' = Tail(inputs)
    /\ IF Head(inputs) = Close
         THEN /\ \/ client' = "closing" /\ UNCHANGED <<outcome, control>>
                 \/ Finish(Terminated)
              /\ UNCHANGED clientSize
         ELSE /\ clientSize' = IF Head(inputs).kind = "resize" THEN Head(inputs).size
                                                              ELSE clientSize
              /\ UNCHANGED <<client, outcome, control>>
    /\ UNCHANGED <<requests, hostVars, clientEpoch, deferred, pixels, graphics,
                   workerVars>>

\* A graphics event; a client nobody listens to ends.
Paint ==
    /\ client \in {"active", "closing"} /\ pixels < MaxPixels
    /\ pixels' = pixels + 1
    /\ IF Receiving
         THEN /\ graphics' = Append(graphics, clientEpoch)
              /\ UNCHANGED <<client, outcome, control>>
         ELSE /\ \E c \in Categories : Finish(Failure(c))
              /\ UNCHANGED graphics
    /\ UNCHANGED <<requests, hostVars, clientEpoch, clientSize, deferred, inputs,
                   workerVars>>

\* DeactivateAll: a new epoch, announced on the control channel.
Reactivate ==
    /\ client \in {"active", "closing"} /\ clientEpoch < MaxEpoch
    /\ IF Receiving
         THEN /\ clientEpoch' = clientEpoch + 1
              /\ control' = Append(control, ResetOutput(clientEpoch + 1))
              /\ UNCHANGED <<client, outcome>>
         ELSE /\ \E c \in Categories : Finish(Failure(c))
              /\ UNCHANGED clientEpoch
    /\ UNCHANGED <<requests, hostVars, clientSize, deferred, pixels, inputs, graphics,
                   workerVars>>

\* The server ends the session, of its own accord or asked to shut down.
ServerEnds ==
    /\ client \in {"active", "closing"}
    /\ Finish(Terminated)
    /\ UNCHANGED <<requests, hostVars, clientEpoch, clientSize, deferred, pixels, inputs,
                   graphics, workerVars>>

\* The thread returns: its ends of the channels are dropped.
Return ==
    /\ client = "finished"
    /\ client' = "gone"
    /\ UNCHANGED <<requests, hostVars, clientEpoch, clientSize, deferred, pixels, outcome,
                   channelVars, workerVars>>

-----------------------------------------------------------------------------

Host == (\E kind \in {"input", "resize", "reconnect"} : HostAsks(kind)) \/ HostCloses

WorkerStep ==
    \/ Open
    \/ HandleRequests
    \/ DrainControl \/ DrainGraphics \/ LeaveOutputs
    \/ Join

ClientStep == DeferInput \/ HandleInput \/ Return

Environment ==
    OpenFails \/ RuntimeFails \/ Connect \/ Fail \/ Paint \/ Reactivate \/ ServerEnds

Next == Host \/ WorkerStep \/ ClientStep \/ Environment

Spec == Init /\ [][Next]_vars

\* Both threads keep running, and a server that was asked to shut down ends the
\* session (or its connection fails): the active session waits for it.
FairSpec ==
    /\ Spec
    /\ WF_vars(WorkerStep) /\ WF_vars(ClientStep)
    /\ WF_vars(client = "closing" /\ ServerEnds)

-----------------------------------------------------------------------------
(* Properties *)

OutputTypes ==
         [kind: {"reset"}, epoch: Nat]
    \cup [kind: {"event"}, category: {"dependency"}]
    \cup [kind: {"terminated", "failure"}, category: Categories \cup {"none"}]

InputTypes == [kind: {"input", "resize", "close"}, size: Nat]

TypeOK ==
    /\ requests \in Seq([kind: {"input", "resize", "reconnect", "close"}, size: Nat])
    /\ resizes \in Nat /\ asked \in Nat /\ hostOpen \in BOOLEAN
    /\ worker \in Workers
    /\ drained \in 0 .. OutputLimit
    /\ exit \in {"none", "closed", "reconnect", "terminated", "failure"}
    /\ config \in [epoch: Nat, size: Nat]
    /\ session \in Nat /\ pixels \in Nat
    /\ client \in Clients
    /\ clientEpoch \in Nat /\ clientSize \in Nat /\ lastSize \in Nat
    /\ inputs \in Seq(InputTypes) /\ deferred \in Seq(InputTypes)
    /\ control \in Seq(OutputTypes) /\ graphics \in Seq(Nat)
    /\ outcome \in [kind: {"none", "terminated", "failure"},
                   category: Categories \cup {"none"}]
    /\ events \in Seq([kind: Terminals \cup {"reset", "pixels"}, session: Nat, epoch: Nat,
                       category: Categories \cup {"none", "message", "dependency"}])

Graphical(e) == e.kind \in {"reset", "pixels"}

\* The events of two sessions are told apart by their epochs, and come in order:
\* whatever a replaced client still did, nothing of it follows the reset of its
\* successor, nor shares an epoch with it.
SessionsDistinct ==
    \A i, j \in DOMAIN events :
       (Graphical(events[i]) /\ Graphical(events[j])
          /\ events[i].session < events[j].session) =>
             i < j /\ events[i].epoch < events[j].epoch

\* No epoch is announced twice, or below one announced before: by a client, by
\* the worker after a client had gone on reactivating unheard, or by its successor.
ResetsAscend ==
    \A i, j \in DOMAIN events :
       (i < j /\ events[i].kind = "reset" /\ events[j].kind = "reset") =>
          events[i].epoch < events[j].epoch

\* Hence client_session.rs's epochs tell the host which picture an event is of (the
\* events are well typed, too).
SessionsAscend == TypeOK /\ SessionsDistinct /\ ResetsAscend

\* What may follow a client's report that its runtime could not be built: the session
\* reopened in its place, or the end of the helper.
Followed(i) ==
    \/ events[i + 1].kind = "reset" /\ events[i + 1].session = events[i].session + 1
    \/ i + 1 = Len(events) /\ worker = "ended"

\* The host hears of the end once, as the last event, when the worker is through.
\* Only a client whose runtime could not be built reports its failure itself, as the
\* last event of its session: the worker has not seen its end yet.
OneEnd ==
    \A i \in DOMAIN events :
       events[i].kind \in Terminals =>
          \/ i = Len(events) /\ (events[i].category # "dependency" => worker = "ended")
          \/ i < Len(events) /\ events[i].category = "dependency" /\ Followed(i)

\* A session is opened with the last size the worker has received, also when the
\* resize shared a batch with the reconnect.
OpensWithLastSize == worker = "opening" => config.size = lastSize

\* The worker never waits for a client that has not been told to close, so a
\* request to close, or the end of stdin, ends the helper.
CloseEnds == ~hostOpen ~> worker = "ended"

\* The end of a client does not go unnoticed.
ClientEndNoticed == client = "gone" ~> (worker = "ended" \/ client # "gone")

\* session_loop.rs: no end waits for the other side.
EndsHeard == CloseEnds /\ ClientEndNoticed

\* runtime.rs: "Active-session failures stay typed so the UI can retry network
\* loss without retrying protocol or auth failures."
FailureStaysTyped ==
    (worker = "ended" /\ exit # "closed" /\ outcome.kind = "failure") =>
       events[Len(events)].category = outcome.category

\* client_session.rs: "Preserve resize and input events generated while the
\* certificate dialog was visible, after authentication has established the
\* session": the display ends up with the size requested last.
LastResizeWins ==
    (client = "active" /\ Receiving /\ inputs = <<>>) => clientSize = lastSize
=============================================================================
