--------------------------- MODULE RdpWorkerProofs --------------------------
(***************************************************************************)
(* Theorems of RdpWorker: its types, the epochs that tell two sessions     *)
(* apart, the single end the host hears of, and the size a session is      *)
(* opened with.  They rest on the invariant IInv, which TLC found on a     *)
(* small instance before it was proved.                                    *)
(***************************************************************************)
EXTENDS RdpWorker, TLAPS, SequenceTheorems, WellFoundedInduction

-----------------------------------------------------------------------------
(* The inductive invariant *)

\* The session that the next graphical event belongs to, and the highest epoch
\* it has used.
Current == IF worker = "opening" THEN session + 1 ELSE session
Reached == IF worker = "opening" THEN config.epoch ELSE clientEpoch

\* A client is there while the worker serves it, and not while it opens one.
Phased ==
    /\ worker = "opening" => client \in {"none", "gone"}
    /\ worker \in {"requests", "outputs", "joining"} => client # "none"

\* A client has said nothing while it connects, and nothing else when its runtime
\* could not be built.
Quiet ==
    /\ client = "connecting" => control = <<>> /\ graphics = <<>>
    /\ \A i \in DOMAIN control : control[i].kind = "event" =>
          /\ client \in {"finished", "gone"}
          /\ Len(control) = 1 /\ graphics = <<>>

\* What a replaced client said has been dropped with the worker's ends.
Dropped == worker \in {"opening", "joining"} => control = <<>> /\ graphics = <<>>

\* What has been handed to the event writer lies below what can follow.
Below(q, n, low, high) ==
    \A i \in DOMAIN q : Graphical(q[i]) =>
       /\ q[i].session <= n
       /\ q[i].session < n => q[i].epoch < low
       /\ q[i].session = n => low <= q[i].epoch /\ q[i].epoch <= high

EventsBelow ==
    worker # "ended" =>
       config.epoch <= Reached /\ Below(events, Current, config.epoch, Reached)

\* What the client has sent belongs to its session, and its resets ascend, above
\* those the host has.
OutputsAbove ==
    worker # "ended" =>
       /\ \A i \in DOMAIN graphics :
             config.epoch <= graphics[i] /\ graphics[i] <= clientEpoch
       /\ \A i \in DOMAIN control : control[i].kind = "reset" =>
             /\ config.epoch <= control[i].epoch /\ control[i].epoch <= clientEpoch
             /\ \A j \in DOMAIN events :
                   events[j].kind = "reset" => events[j].epoch < control[i].epoch
             /\ \A j \in DOMAIN control :
                   (i < j /\ control[j].kind = "reset") => control[i].epoch < control[j].epoch

\* Before the worker is through, only the failure of a runtime has been reported:
\* either nothing of that session can follow, or its successor's reset has.
OnlyRuntimeFailed ==
    worker # "ended" =>
       \A i \in DOMAIN events : events[i].kind \in Terminals =>
          /\ events[i].category = "dependency"
          /\ \/ /\ i < Len(events)
                /\ events[i + 1].kind = "reset"
                /\ events[i + 1].session = events[i].session + 1
             \/ /\ i = Len(events) /\ events[i].session = session
                /\ worker # "opening" /\ client \in {"finished", "gone"}
                /\ control = <<>> /\ graphics = <<>>

\* The size of the configuration is the one received last, but for the requests a
\* close has dropped.
SizeKept ==
    (worker \in {"opening", "requests", "outputs"}
       \/ (worker = "joining" /\ exit = "reconnect")) => config.size = lastSize

IInv ==
    /\ SessionsAscend /\ OneEnd
    /\ Phased /\ Quiet /\ Dropped /\ EventsBelow /\ OutputsAbove /\ OnlyRuntimeFailed /\ SizeKept

-----------------------------------------------------------------------------
(* Lemmas on sequences, batches and outputs *)

\* A non-empty set of indices of a sequence has a last one.
LEMMA LastIndex ==
    ASSUME NEW n \in Nat, NEW T \in SUBSET (1 .. n), T # {}
    PROVE  \E i \in T : \A j \in T : j <= i
  <1> DEFINE B == {k \in Nat : \A j \in T : j <= k}
  <1>1. n \in B
    OBVIOUS
  <1>2. PICK k \in B : \A m \in B : ~ (<<m, k>> \in OpToRel(<, Nat))
    BY <1>1, NatLessThanWellFounded, WFMin
  <1>3. \A m \in B : ~ (m < k)
    BY <1>2 DEF OpToRel
  <1>4. k \in T
    <2> SUFFICES ASSUME k \notin T PROVE FALSE
      OBVIOUS
    <2>1. PICK j \in T : TRUE
      OBVIOUS
    <2>2. k \in Nat /\ j \in 1 .. n /\ j <= k
      BY <2>1
    <2>3. k - 1 \in Nat /\ \A m \in T : m <= k - 1
      <3> SUFFICES ASSUME NEW m \in T PROVE m <= k - 1
        BY <2>2
      <3>1. m \in 1 .. n /\ m <= k /\ m # k
        OBVIOUS
      <3> QED BY <2>2, <3>1
    <2> QED BY <1>3, <2>2, <2>3
  <1> QED BY <1>4

Requests == [kind: {"input", "resize", "reconnect", "close"}, size: Nat]

\* The size that is remembered is one the host has asked for.
LEMMA RememberedType ==
    ASSUME NEW size \in Nat, NEW batch \in Seq(Requests)
    PROVE  Remembered(size, batch) \in Nat
  <1> DEFINE resized == {i \in DOMAIN batch : batch[i].kind = "resize"}
             last == CHOOSE i \in resized : \A j \in resized : j <= i
  <1>1. CASE resized = {}
    BY <1>1 DEF Remembered
  <1>2. CASE resized # {}
    <2>1. \E i \in resized : \A j \in resized : j <= i
      <3>1. Len(batch) \in Nat /\ resized \in SUBSET (1 .. Len(batch))
        OBVIOUS
      <3> QED BY <1>2, <3>1, LastIndex
    <2>2. last \in DOMAIN batch
      BY <2>1
    <2>3. batch[last] \in Requests
      BY <2>2
    <2> QED BY <1>2, <2>3 DEF Remembered, Requests
  <1> QED BY <1>1, <1>2

\* A batch and what it leaves in the channel are requests.
LEMMA BatchTypes ==
    ASSUME NEW q \in Seq(Requests), NEW limit \in Nat
    PROVE  LET count == Shorter(Len(q), limit)
           IN  /\ SubSeq(q, 1, count) \in Seq(Requests)
               /\ SubSeq(q, count + 1, Len(q)) \in Seq(Requests)
  BY DEF Shorter

\* A batch without a close or a reconnect is inputs for the client.
LEMMA BatchForwarded ==
    ASSUME NEW batch \in Seq(Requests), ~HasKind(batch, "close"), ~HasKind(batch, "reconnect")
    PROVE  batch \in Seq(InputTypes)
  <1>1. ASSUME NEW i \in 1 .. Len(batch) PROVE batch[i] \in InputTypes
    <2>1. batch[i] \in Requests /\ i \in DOMAIN batch
      OBVIOUS
    <2> QED BY <2>1 DEF Requests, InputTypes, HasKind
  <1>2. batch \in [1 .. Len(batch) -> InputTypes] /\ Len(batch) \in Nat
    BY <1>1
  <1> QED BY <1>2

\* The outputs of a client, told apart by their kinds.
LEMMA OutputKinds ==
    /\ \A out \in OutputTypes :
          /\ out.kind \in {"reset", "event", "terminated", "failure"}
          /\ out.kind = "reset" => out.epoch \in Nat
          /\ out.kind # "reset" => out.category \in Categories \cup {"none", "dependency"}
          /\ out.kind = "event" => out.category = "dependency"
    /\ \A e \in Nat : ResetOutput(e) \in OutputTypes /\ ResetOutput(e).kind = "reset"
                         /\ ResetOutput(e).epoch = e
    /\ \A c \in Categories : Failure(c) \in OutputTypes /\ Failure(c).kind = "failure"
    /\ Terminated \in OutputTypes /\ Terminated.kind = "terminated"
    /\ FailureEvent \in OutputTypes /\ FailureEvent.kind = "event"
  BY DEF OutputTypes, ResetOutput, Failure, Terminated, FailureEvent

-----------------------------------------------------------------------------
(* The types *)

\* The parts of TypeOK that the actions change one at a time.
EventTypes == [kind: Terminals \cup {"reset", "pixels"}, session: Nat, epoch: Nat,
               category: Categories \cup {"none", "message", "dependency"}]

LEMMA EventsTyped ==
    ASSUME NEW n \in Nat
    PROVE  /\ \A e \in Nat : \A kind \in {"reset", "pixels", "disconnected"} :
                 /\ Event(kind, n, e) \in EventTypes
                 /\ Event(kind, n, e).kind = kind /\ Event(kind, n, e).session = n
                 /\ Event(kind, n, e).epoch = e
           /\ \A c \in Categories \cup {"none", "message", "dependency"} :
                 /\ FailureOf(n, c) \in EventTypes
                 /\ FailureOf(n, c).kind = "failure" /\ FailureOf(n, c).session = n
                 /\ FailureOf(n, c).category = c
  BY DEF Event, FailureOf, EventTypes, Terminals

\* TypeOK, with its sets by name.
Typed ==
    /\ requests \in Seq(Requests)
    /\ resizes \in Nat /\ asked \in Nat /\ hostOpen \in BOOLEAN
    /\ worker \in Workers /\ drained \in 0 .. OutputLimit
    /\ exit \in {"none", "closed", "reconnect", "terminated", "failure"}
    /\ config \in [epoch: Nat, size: Nat]
    /\ session \in Nat /\ pixels \in Nat /\ client \in Clients
    /\ clientEpoch \in Nat /\ clientSize \in Nat /\ lastSize \in Nat
    /\ inputs \in Seq(InputTypes) /\ deferred \in Seq(InputTypes)
    /\ control \in Seq(OutputTypes) /\ graphics \in Seq(Nat)
    /\ outcome \in [kind: {"none", "terminated", "failure"},
                    category: Categories \cup {"none"}]
    /\ events \in Seq(EventTypes)

LEMMA TypedIsTypeOK == TypeOK <=> Typed
  BY DEF TypeOK, Typed, Requests, EventTypes

LEMMA AppendType ==
    ASSUME NEW S, NEW q \in Seq(S), NEW u \in S
    PROVE  Append(q, u) \in Seq(S)
  OBVIOUS

LEMMA TypeStep == Typed /\ [Next]_vars => Typed'
  <1> SUFFICES ASSUME Typed, [Next]_vars PROVE Typed'
    OBVIOUS
  <1>r. requests \in Seq(Requests) /\ resizes + 1 \in Nat
    BY DEF Typed
  <1>e. events \in Seq(EventTypes) /\ session \in Nat /\ session + 1 \in Nat
    BY DEF Typed
  <1>c. /\ control \in Seq(OutputTypes) /\ graphics \in Seq(Nat)
        /\ inputs \in Seq(InputTypes) /\ deferred \in Seq(InputTypes)
        /\ clientEpoch \in Nat /\ clientEpoch + 1 \in Nat
    BY DEF Typed
  <1> USE LimitsAssumption DEF Typed, hostVars, clientVars, channelVars, workerVars
  <1>1. ASSUME NEW kind \in {"input", "resize", "reconnect"}, HostAsks(kind) PROVE Typed'
    <2>1. \A n \in Nat : Resize(n) \in Requests /\ Request(kind) \in Requests
      BY DEF Resize, Request, Requests
    <2>2. requests' \in Seq(Requests)
      <3>1. requests' \in {Append(requests, Resize(resizes + 1)), Append(requests, Request(kind))}
        BY <1>1 DEF HostAsks
      <3> QED BY ONLY <1>r, <2>1, <3>1, AppendType
    <2> QED BY SMTT(20), <1>1, <2>2 DEF HostAsks
  <1>2. CASE HostCloses
    <2>1. Close \in Requests
      BY DEF Close, Request, Requests
    <2>2. requests' = Append(requests, Close)
      BY <1>2 DEF HostCloses
    <2>3. requests' \in Seq(Requests)
      BY ONLY <1>r, <2>1, <2>2, AppendType
    <2> QED BY <1>2, <2>3 DEF HostCloses
  <1>3. CASE Open
    BY <1>3 DEF Open, NoOutcome, Workers, Clients
  <1>4. CASE OpenFails
    <2>1. events' = Append(events, FailureOf(session, "message"))
      BY <1>4 DEF OpenFails
    <2>2. events' \in Seq(EventTypes)
      BY ONLY <1>e, <2>1, AppendType, EventsTyped
    <2> QED BY <1>4, <2>2 DEF OpenFails, Workers
  <1>l. ASSUME NEW e \in {"closed", "reconnect", "terminated", "failure"}, Leave(e)
        PROVE  /\ exit' \in {"none", "closed", "reconnect", "terminated", "failure"}
               /\ worker' \in Workers /\ inputs' \in Seq(InputTypes)
               /\ control' \in Seq(OutputTypes) /\ graphics' \in Seq(Nat)
    <2>1. Close \in InputTypes
      BY DEF Close, Request, InputTypes
    <2> QED BY <1>l, <2>1 DEF Leave, Workers
  <1>5. CASE HandleRequests
    <2> DEFINE count == Shorter(Len(requests), RequestLimit)
               batch == SubSeq(requests, 1, count)
    <2>1. batch \in Seq(Requests) /\ requests' \in Seq(Requests)
      BY <1>5, BatchTypes DEF HandleRequests
    <2>2. /\ Remembered(lastSize, batch) \in Nat
          /\ Remembered(config.size, batch) \in Nat
      BY <2>1, RememberedType
    <2> HIDE DEF batch
    <2>3. /\ lastSize' = Remembered(lastSize, batch)
          /\ UNCHANGED <<hostVars, clientVars, drained, session>>
          /\ config' \in {config, [config EXCEPT !.size = Remembered(@, batch)]}
      BY <1>5 DEF HandleRequests, batch
    <2>4. /\ inputs' \in Seq(InputTypes) /\ worker' \in Workers
          /\ events' \in Seq(EventTypes)
          /\ exit' \in {"none", "closed", "reconnect", "terminated", "failure"}
          /\ control' \in Seq(OutputTypes) /\ graphics' \in Seq(Nat)
      <3>1. CASE HasKind(batch, "close") \/ HasKind(batch, "reconnect")
        BY <1>5, <1>l, <3>1 DEF HandleRequests, batch
      <3>2. CASE ~HasKind(batch, "close") /\ ~HasKind(batch, "reconnect")
        <4>1. batch \in Seq(InputTypes)
          BY <2>1, <3>2, BatchForwarded
        <4>2. /\ UNCHANGED <<exit, control, graphics>>
              /\ \/ /\ events' = Append(events, FailureOf(session, "message"))
                    /\ worker' = "ended" /\ UNCHANGED inputs
                 \/ /\ inputs' = inputs \o batch
                    /\ worker' = "outputs" /\ UNCHANGED events
          BY <1>5, <3>2 DEF HandleRequests, batch
        <4>3. Append(events, FailureOf(session, "message")) \in Seq(EventTypes)
          BY ONLY <1>e, AppendType, EventsTyped
        <4>4. inputs \o batch \in Seq(InputTypes)
          BY ONLY <1>c, <4>1
        <4> QED BY <4>2, <4>3, <4>4 DEF Workers
      <3> QED BY <3>1, <3>2
    <2>5. config' \in [epoch: Nat, size: Nat] /\ lastSize' \in Nat
      BY <2>2, <2>3
    <2> QED BY <2>1, <2>3, <2>4, <2>5 
  <1>6. CASE DrainControl
    <2>1. Head(control) \in OutputTypes /\ Tail(control) \in Seq(OutputTypes)
      BY <1>6 DEF DrainControl
    <2>2. CASE Head(control).kind \in {"terminated", "failure"}
      <3>1. /\ Leave(Head(control).kind) /\ drained' = 0
            /\ UNCHANGED <<requests, hostVars, clientVars, config, session, lastSize, events>>
        BY <1>6, <2>2 DEF DrainControl
      <3> QED BY <1>l, <2>2, <3>1 
    <2>3. CASE Head(control).kind \in {"reset", "event"}
      <3>1. \E e \in EventTypes : events' = Append(events, e)
        <4>1. events' \in {Append(events, Event("reset", session, Head(control).epoch)),
                           Append(events, FailureOf(session, Head(control).category))}
              /\ (Head(control).kind = "reset" =>
                    events' = Append(events, Event("reset", session, Head(control).epoch)))
              /\ (Head(control).kind = "event" =>
                    events' = Append(events, FailureOf(session, Head(control).category)))
          BY <1>6, <2>3 DEF DrainControl
        <4> QED BY ONLY <1>e, <2>1, <2>3, <4>1, EventsTyped, OutputKinds
      <3>2. events' \in Seq(EventTypes)
        BY ONLY <1>e, <3>1, AppendType
      <3>3. control' = Tail(control) /\ drained' = drained + 1 /\ drained < OutputLimit
        BY <1>6, <2>3 DEF DrainControl
      <3>4. UNCHANGED <<requests, hostVars, clientVars, config, session, lastSize,
                        inputs, graphics, worker, exit>>
        BY <1>6, <2>3 DEF DrainControl
      <3> QED BY <2>1, <3>2, <3>3, <3>4
    <2> QED BY <2>1, <2>2, <2>3, OutputKinds
  <1>7. CASE DrainGraphics
    <2>1. Head(graphics) \in Nat /\ Tail(graphics) \in Seq(Nat)
      BY <1>7 DEF DrainGraphics
    <2>2. events' = Append(events, Event("pixels", session, Head(graphics)))
      BY <1>7 DEF DrainGraphics
    <2>3. events' \in Seq(EventTypes)
      BY ONLY <1>e, <2>1, <2>2, AppendType, EventsTyped
    <2>4. drained' \in 0 .. OutputLimit
      BY <1>7 DEF DrainGraphics
    <2> QED BY <1>7, <2>1, <2>3, <2>4 DEF DrainGraphics
  <1>8. CASE LeaveOutputs
    <2>1. CASE Leave("terminated")
      BY <1>8, <1>l, <2>1 DEF LeaveOutputs
    <2>2. CASE worker' = "requests" /\ UNCHANGED <<exit, channelVars>>
      BY <1>8, <2>2 DEF LeaveOutputs, Workers
    <2> QED BY <1>8, <2>1, <2>2 DEF LeaveOutputs
  <1>9. CASE Join
    <2>1. Later(config.epoch, clientEpoch) \in Nat
      BY DEF Later
    <2>2. outcome.category \in Categories \cup {"none"}
      OBVIOUS
    <2>3. events' \in Seq(EventTypes)
      <3>1. \E e \in EventTypes : events' = Append(events, e)
        <4> DEFINE reached == Later(config.epoch, clientEpoch)
        <4>1. \/ events' = Append(events, Event("reset", session + 1, reached + 1))
              \/ events' = Append(events, FailureOf(session, outcome.category))
              \/ events' = Append(events, Event("disconnected", session, 0))
          BY <1>9 DEF Join
        <4>2. reached + 1 \in Nat
          BY <2>1
        <4> HIDE DEF reached
        <4> QED BY ONLY <1>e, <2>2, <4>1, <4>2, EventsTyped
      <3> QED BY ONLY <1>e, <3>1, AppendType
    <2>4. config' \in [epoch: Nat, size: Nat] /\ worker' \in Workers
      <3> DEFINE reached == Later(config.epoch, clientEpoch)
      <3>1. \/ config' = [config EXCEPT !.epoch = reached]
            \/ config' = [config EXCEPT !.epoch = reached + 1]
        BY <1>9 DEF Join
      <3>2. config' \in [epoch: Nat, size: Nat]
        <4>1. reached \in Nat /\ reached + 1 \in Nat /\ config \in [epoch: Nat, size: Nat]
          BY <2>1
        <4> HIDE DEF reached
        <4> QED BY ONLY <3>1, <4>1
      <3> QED BY <1>9, <3>2 DEF Join, Workers
    <2>5. UNCHANGED <<requests, hostVars, clientVars, channelVars, drained, exit, session,
                      lastSize>>
      BY <1>9 DEF Join
    <2> QED BY <2>3, <2>4, <2>5
  <1>f. ASSUME NEW out, Finish(out), out = Terminated \/ \E c \in Categories : out = Failure(c)
        PROVE  /\ client' \in Clients /\ control' \in Seq(OutputTypes)
               /\ outcome' \in [kind: {"none", "terminated", "failure"},
                                category: Categories \cup {"none"}]
    <2>1. out \in OutputTypes
      BY <1>f, OutputKinds
    <2>2. outcome' \in [kind: {"none", "terminated", "failure"},
                        category: Categories \cup {"none"}]
      BY <1>f DEF Finish, Terminated, Failure
    <2> QED BY <1>f, <2>1, <2>2 DEF Finish, Clients
  <1>10. CASE RuntimeFails
    BY <1>10, OutputKinds DEF RuntimeFails, Clients
  <1>11. CASE DeferInput
    <2>1. Head(inputs) \in InputTypes /\ inputs' \in Seq(InputTypes)
      BY <1>11 DEF DeferInput
    <2>2. CASE Head(inputs) = Close
      BY <1>11, <1>f, <2>1, <2>2 DEF DeferInput
    <2>3. CASE Head(inputs) # Close
      <3>1. deferred' = Append(deferred, Head(inputs))
        BY <1>11, <2>3 DEF DeferInput
      <3>2. deferred' \in Seq(InputTypes)
        BY ONLY <1>c, <2>1, <3>1, AppendType
      <3> QED BY <1>11, <2>1, <2>3, <3>2 DEF DeferInput
    <2> QED BY <2>2, <2>3
  <1>12. CASE Connect
    BY <1>12 DEF Connect, Clients
  <1>13. CASE Fail
    BY <1>13, <1>f DEF Fail
  <1>14. CASE HandleInput
    <2>1. Head(inputs) \in InputTypes /\ inputs' \in Seq(InputTypes)
      BY <1>14 DEF HandleInput
    <2>2. clientSize' \in Nat
      BY <1>14, <2>1 DEF HandleInput, InputTypes
    <2>3. /\ client' \in Clients /\ control' \in Seq(OutputTypes)
          /\ outcome' \in [kind: {"none", "terminated", "failure"},
                           category: Categories \cup {"none"}]
      BY <1>14, <1>f DEF HandleInput, Clients
    <2> QED BY <1>14, <2>1, <2>2, <2>3 DEF HandleInput
  <1>15. CASE Paint
    <2>1. CASE Receiving
      <3>1. graphics' = Append(graphics, clientEpoch)
        BY <1>15, <2>1 DEF Paint
      <3>2. graphics' \in Seq(Nat)
        BY ONLY <1>c, <3>1, AppendType
      <3> QED BY <1>15, <2>1, <3>2 DEF Paint
    <2>2. CASE ~Receiving
      BY <1>15, <1>f, <2>2 DEF Paint
    <2> QED BY <2>1, <2>2
  <1>16. CASE Reactivate
    <2>1. CASE Receiving
      <3>1. control' = Append(control, ResetOutput(clientEpoch + 1))
        BY <1>16, <2>1 DEF Reactivate
      <3>2. control' \in Seq(OutputTypes)
        BY ONLY <1>c, <3>1, AppendType, OutputKinds
      <3> QED BY <1>16, <2>1, <3>2 DEF Reactivate
    <2>2. CASE ~Receiving
      BY <1>16, <1>f, <2>2 DEF Reactivate
    <2> QED BY <2>1, <2>2
  <1>17. CASE ServerEnds
    BY <1>17, <1>f DEF ServerEnds
  <1>18. CASE Return
    BY <1>18 DEF Return, Clients
  <1>19. CASE UNCHANGED vars
    BY <1>19 DEF vars
  <1> QED BY <1>1, <1>2, <1>3, <1>4, <1>5, <1>6, <1>7, <1>8, <1>9, <1>10, <1>11, <1>12,
             <1>13, <1>14, <1>15, <1>16, <1>17, <1>18, <1>19
          DEF Next, Host, WorkerStep, ClientStep, Environment

-----------------------------------------------------------------------------
(* What the actions do to the parts of the invariant *)

LEMMA Appended ==
    ASSUME NEW S, NEW q \in Seq(S), NEW u
    PROVE  /\ DOMAIN q = 1 .. Len(q) /\ Len(q) \in Nat
           /\ Len(Append(q, u)) = Len(q) + 1 /\ DOMAIN Append(q, u) = 1 .. Len(q) + 1
           /\ \A i \in 1 .. Len(q) : Append(q, u)[i] = q[i]
           /\ Append(q, u)[Len(q) + 1] = u
  OBVIOUS

LEMMA Taken ==
    ASSUME NEW S, NEW q \in Seq(S), q # <<>>
    PROVE  /\ DOMAIN q = 1 .. Len(q) /\ Len(q) \in Nat \ {0}
           /\ Head(q) = q[1] /\ q[1] \in S
           /\ Len(Tail(q)) = Len(q) - 1 /\ DOMAIN Tail(q) = 1 .. Len(q) - 1
           /\ \A i \in 1 .. Len(q) - 1 : Tail(q)[i] = q[i + 1]
  OBVIOUS

\* A batch is forwarded, or dropped for a reconnect or a close; forwarding to a
\* client that is gone ends the worker.
LEMMA RequestsHandled ==
    ASSUME Typed, HandleRequests
    PROVE  /\ worker = "requests" /\ worker' \in {"outputs", "joining", "ended"}
           /\ UNCHANGED <<clientVars, session>> /\ config'.epoch = config.epoch
           /\ IF worker' = "ended" THEN events' = Append(events, FailureOf(session, "message"))
                                   ELSE events' = events
           /\ IF worker' = "joining" THEN control' = <<>> /\ graphics' = <<>>
                                     ELSE UNCHANGED <<control, graphics>>
           /\ (config.size = lastSize /\ (worker' = "outputs" \/ exit' = "reconnect")) =>
                 worker' = "ended" \/ config'.size = lastSize'
  <1> DEFINE batch == SubSeq(requests, 1, Shorter(Len(requests), RequestLimit))
  <1> HIDE DEF batch
  <1>0. config \in [epoch: Nat, size: Nat]
    BY DEF Typed
  <1>1. /\ worker = "requests" /\ UNCHANGED <<clientVars, session>>
        /\ lastSize' = Remembered(lastSize, batch)
    BY DEF HandleRequests, batch
  <1>2. CASE HasKind(batch, "close")
    <2>1. Leave("closed") /\ UNCHANGED <<config, events>>
      BY <1>2 DEF HandleRequests, batch
    <2> QED BY <1>1, <2>1 DEF Leave
  <1>3. CASE ~HasKind(batch, "close") /\ HasKind(batch, "reconnect")
    <2>1. Leave("reconnect") /\ UNCHANGED events
          /\ config' = [config EXCEPT !.size = Remembered(@, batch)]
      BY <1>3 DEF HandleRequests, batch
    <2>2. config'.epoch = config.epoch /\ config'.size = Remembered(config.size, batch)
      BY <1>0, <2>1
    <2> QED BY <1>1, <2>1, <2>2 DEF Leave
  <1>4. CASE ~HasKind(batch, "close") /\ ~HasKind(batch, "reconnect")
    <2>1. config' = [config EXCEPT !.size = Remembered(@, batch)]
      BY <1>4 DEF HandleRequests, batch
    <2>2. /\ UNCHANGED <<exit, control, graphics>>
          /\ \/ /\ events' = Append(events, FailureOf(session, "message"))
                /\ worker' = "ended"
             \/ worker' = "outputs" /\ UNCHANGED events
      BY <1>4 DEF HandleRequests, batch
    <2>3. config'.epoch = config.epoch /\ config'.size = Remembered(config.size, batch)
      BY <1>0, <2>1
    <2> QED BY <1>1, <2>2, <2>3
  <1> QED BY <1>2, <1>3, <1>4

\* The steps of a client that start no epoch.
Speaks == ClientStep \/ RuntimeFails \/ Connect \/ Fail \/ Paint \/ ServerEnds

\* They leave the worker alone; the client sends pixels of its epoch, or its last
\* output and is finished.
LEMMA ClientSpeaks ==
    ASSUME Typed, Speaks
    PROVE  /\ UNCHANGED <<workerVars, clientEpoch>>
           /\ client \notin {"none", "gone"} /\ client' # "none"
           /\ client' = "connecting" => client = "connecting"
           /\ client = "finished" => client' = "gone"
           /\ \/ UNCHANGED <<control, graphics>>
              \/ /\ Receiving /\ client' \notin {"connecting", "finished", "gone"}
                 /\ UNCHANGED control /\ graphics' = Append(graphics, clientEpoch)
              \/ /\ Receiving /\ client # "finished" /\ client' = "finished" /\ UNCHANGED graphics
                 /\ \E out \in OutputTypes :
                       /\ control' = Append(control, out)
                       /\ \/ out.kind \in {"terminated", "failure"}
                          \/ out.kind = "event" /\ client = "connecting"
  <1> USE DEF clientVars, workerVars, channelVars
  <1>f. ASSUME NEW out, Finish(out), out = Terminated \/ \E c \in Categories : out = Failure(c)
        PROVE  /\ client' = "finished"
               /\ \/ UNCHANGED control
                  \/ Receiving
                     /\ \E o \in OutputTypes : control' = Append(control, o)
                                                  /\ o.kind \in {"terminated", "failure"}
    BY <1>f, OutputKinds DEF Finish
  <1>1. CASE DeferInput
    BY <1>1, <1>f DEF DeferInput
  <1>2. CASE HandleInput
    BY <1>2, <1>f DEF HandleInput
  <1>3. CASE Return
    BY <1>3 DEF Return
  <1>4. CASE RuntimeFails
    BY <1>4, OutputKinds DEF RuntimeFails
  <1>5. CASE Connect
    BY <1>5 DEF Connect
  <1>6. CASE Fail
    BY <1>6, <1>f DEF Fail
  <1>7. CASE Paint
    BY <1>7, <1>f DEF Paint
  <1>8. CASE ServerEnds
    BY <1>8, <1>f DEF ServerEnds
  <1> QED BY <1>1, <1>2, <1>3, <1>4, <1>5, <1>6, <1>7, <1>8 DEF Speaks, ClientStep

\* A step is one of the worker's, one of the client's, or the host's.
LEMMA Steps ==
    ASSUME [Next]_vars
    PROVE  \/ UNCHANGED <<clientVars, channelVars, workerVars>>
           \/ Open \/ OpenFails \/ HandleRequests \/ DrainControl \/ DrainGraphics
           \/ LeaveOutputs \/ Join \/ Reactivate \/ Speaks
  BY DEF Next, Host, HostAsks, HostCloses, WorkerStep, ClientStep, Environment, Speaks, vars

LEMMA PhasedStep == Typed /\ Phased /\ [Next]_vars => Phased'
  <1> SUFFICES ASSUME Typed, Phased, [Next]_vars PROVE Phased'
    OBVIOUS
  <1> USE DEF Phased, clientVars, workerVars, channelVars
  <1>1. CASE UNCHANGED <<clientVars, channelVars, workerVars>>
    BY <1>1
  <1>2. CASE Open
    BY <1>2 DEF Open
  <1>3. CASE OpenFails
    BY <1>3 DEF OpenFails
  <1>4. CASE HandleRequests
    BY <1>4, RequestsHandled
  <1>5. CASE DrainControl
    BY <1>5 DEF DrainControl, Leave
  <1>6. CASE DrainGraphics
    BY <1>6 DEF DrainGraphics
  <1>7. CASE LeaveOutputs
    BY <1>7 DEF LeaveOutputs, Leave
  <1>8. CASE Join
    BY <1>8 DEF Join
  <1>9. CASE Reactivate
    BY <1>9 DEF Reactivate, Finish
  <1>10. CASE Speaks
    <2>1. /\ UNCHANGED worker /\ client \notin {"none", "gone"} /\ client' # "none"
      BY <1>10, ClientSpeaks
    <2> QED BY <2>1
  <1> QED BY <1>1, <1>2, <1>3, <1>4, <1>5, <1>6, <1>7, <1>8, <1>9, <1>10, Steps

\* Reactivate announces its epoch, or ends a client nobody listens to.
LEMMA Reactivates ==
    ASSUME Typed, Reactivate
    PROVE  /\ client \in {"active", "closing"} /\ UNCHANGED <<graphics, workerVars>>
           /\ \/ /\ Receiving /\ clientEpoch' = clientEpoch + 1 /\ UNCHANGED client
                 /\ control' = Append(control, ResetOutput(clientEpoch + 1))
              \/ /\ UNCHANGED <<clientEpoch, control>> /\ client' = "finished"
  BY DEF Reactivate, Finish, Receiving

LEMMA QuietStep == Typed /\ Quiet /\ [Next]_vars => Quiet'
  <1> SUFFICES ASSUME Typed, Quiet, [Next]_vars PROVE Quiet'
    OBVIOUS
  <1> USE DEF Quiet, clientVars, workerVars, channelVars
  <1>0. control \in Seq(OutputTypes) /\ graphics \in Seq(Nat)
    BY DEF Typed
  <1>d. DOMAIN control = 1 .. Len(control) /\ Len(control) \in Nat
        /\ (control = <<>> => Len(control) = 0)
    BY <1>0
  <1>1. CASE UNCHANGED <<clientVars, channelVars, workerVars>>
    BY <1>1
  <1>2. CASE Open
    BY <1>2 DEF Open
  <1>l. ASSUME NEW e, Leave(e) PROVE Quiet'
    BY <1>l DEF Leave
  <1>3. CASE OpenFails
    BY <1>3 DEF OpenFails
  <1>4. CASE HandleRequests
    <2>1. UNCHANGED client /\ ((control' = <<>> /\ graphics' = <<>>) \/ UNCHANGED <<control, graphics>>)
      BY <1>4, RequestsHandled
    <2> QED BY <2>1
  <1>5. CASE DrainControl
    <2>1. CASE Leave(Head(control).kind)
      BY <1>l, <2>1
    <2>2. CASE control' = Tail(control) /\ UNCHANGED <<client, graphics>>
      <3>1. \A i \in DOMAIN control' : i + 1 \in DOMAIN control /\ control'[i] = control[i + 1]
        BY <1>0, <1>5, <2>2, Taken DEF DrainControl
      <3>2. client # "connecting" /\ Len(control') = Len(control) - 1
        BY <1>0, <1>5, <2>2, Taken DEF DrainControl
      <3>3. \A i \in DOMAIN control' : Len(control) # 1
        BY <1>0, <1>5, <2>2, Taken DEF DrainControl
      <3> QED BY <2>2, <3>1, <3>2, <3>3
    <2> QED BY <1>5, <2>1, <2>2 DEF DrainControl
  <1>6. CASE DrainGraphics
    <2>1. client # "connecting" /\ UNCHANGED <<client, control>> /\ control = <<>>
      BY <1>6 DEF DrainGraphics
    <2> QED BY <1>d, <2>1
  <1>7. CASE LeaveOutputs
    BY <1>7, <1>l DEF LeaveOutputs
  <1>8. CASE Join
    BY <1>8 DEF Join
  <1>9. CASE Reactivate
    <2>1. CASE UNCHANGED <<clientEpoch, control>> /\ client' = "finished"
      BY <1>9, <2>1, Reactivates
    <2>2. CASE control' = Append(control, ResetOutput(clientEpoch + 1)) /\ UNCHANGED client
      <3>1. ResetOutput(clientEpoch + 1).kind = "reset"
        BY DEF ResetOutput
      <3>2. \A i \in DOMAIN control' : control'[i].kind = "event" =>
               i \in DOMAIN control /\ control'[i] = control[i]
        BY <1>0, <2>2, <3>1, Appended
      <3>3. client \in {"active", "closing"}
        BY <1>9, Reactivates
      <3> QED BY <2>2, <3>2, <3>3
    <2> QED BY <1>9, <2>1, <2>2, Reactivates
  <1>10. CASE Speaks
    <2>1. CASE UNCHANGED <<control, graphics>>
      <3>1. /\ client' = "connecting" => client = "connecting"
            /\ client = "finished" => client' = "gone"
            /\ client \notin {"none", "gone"}
        BY <1>10, ClientSpeaks
      <3> QED BY <2>1, <3>1
    <2>2. CASE /\ client' \notin {"connecting", "finished", "gone"}
               /\ UNCHANGED control /\ graphics' = Append(graphics, clientEpoch)
      <3>1. client \notin {"finished", "gone"}
        BY <1>10, <2>2, ClientSpeaks
      <3> QED BY <2>2, <3>1
    <2>3. ASSUME NEW out \in OutputTypes, control' = Append(control, out),
                 client # "finished", client' = "finished", UNCHANGED graphics,
                 \/ out.kind \in {"terminated", "failure"}
                 \/ out.kind = "event" /\ client = "connecting"
          PROVE  Quiet'
      <3>1. \A i \in DOMAIN control : control[i].kind # "event"
        BY <1>10, <2>3, ClientSpeaks
      <3>2. \A i \in DOMAIN control' : control'[i].kind = "event" =>
               out.kind = "event" /\ i = Len(control) + 1
        BY <1>0, <2>3, <3>1, Appended
      <3>3. out.kind = "event" => Len(control') = 1 /\ graphics' = <<>>
        BY <1>0, <2>3, Appended
      <3> QED BY <2>3, <3>2, <3>3
    <2> QED BY <1>10, <2>1, <2>2, <2>3, ClientSpeaks
  <1> QED BY <1>1, <1>2, <1>3, <1>4, <1>5, <1>6, <1>7, <1>8, <1>9, <1>10, Steps

-----------------------------------------------------------------------------
(* The epochs *)

LEMMA EventNumbers ==
    ASSUME NEW q \in Seq(EventTypes), NEW i \in DOMAIN q
    PROVE  q[i] \in EventTypes /\ q[i].epoch \in Nat /\ q[i].session \in Nat
  <1>1. q[i] \in EventTypes
    OBVIOUS
  <1> QED BY ONLY <1>1 DEF EventTypes

LEMMA BelowAppended ==
    ASSUME NEW q \in Seq(EventTypes), NEW u, NEW n, NEW low, NEW high, Below(q, n, low, high),
           Graphical(u) => u.session = n /\ low <= u.epoch /\ u.epoch <= high,
           n \in Int, low \in Int, u.session \in Int
    PROVE  Below(Append(q, u), n, low, high)
  <1>1. \A i \in DOMAIN Append(q, u) :
           \/ i \in DOMAIN q /\ Append(q, u)[i] = q[i]
           \/ Append(q, u)[i] = u
    BY Appended
  <1> QED BY <1>1 DEF Below

\* The epochs of a session may go on.
LEMMA BelowRaised ==
    ASSUME NEW q \in Seq(EventTypes), NEW n \in Int, NEW low \in Int, NEW high \in Int,
           Below(q, n, low, high), NEW more \in Int, high <= more
    PROVE  Below(q, n, low, more)
  <1>1. \A i \in DOMAIN q : q[i].epoch \in Nat /\ q[i].session \in Nat
    BY EventNumbers
  <1> QED BY <1>1 DEF Below

\* A new session starts above what the last one reached.
LEMMA BelowNext ==
    ASSUME NEW q \in Seq(EventTypes), NEW n \in Int, NEW low \in Int, NEW high \in Int,
           low <= high, Below(q, n, low, high), NEW next \in Int, high < next
    PROVE  Below(q, n + 1, next, next)
  <1>1. \A i \in DOMAIN q : q[i].epoch \in Nat /\ q[i].session \in Nat
    BY EventNumbers
  <1> QED BY <1>1 DEF Below

LEMMA BelowStep ==
    Typed /\ EventsBelow /\ OutputsAbove /\ [Next]_vars => EventsBelow'
  <1> SUFFICES ASSUME Typed, EventsBelow, OutputsAbove, [Next]_vars, worker' # "ended"
               PROVE  config'.epoch <= Reached'
                      /\ Below(events', Current', config'.epoch, Reached')
    BY DEF EventsBelow
  <1> USE DEF clientVars, workerVars, channelVars, Current, Reached
  <1>0. /\ control \in Seq(OutputTypes) /\ graphics \in Seq(Nat) /\ events \in Seq(EventTypes)
        /\ session \in Nat /\ clientEpoch \in Nat /\ config \in [epoch: Nat, size: Nat]
    BY DEF Typed
  <1>n. config.epoch \in Nat
    BY <1>0
  <1>b. worker # "ended" =>
           config.epoch <= Reached /\ Below(events, Current, config.epoch, Reached)
    BY DEF EventsBelow
  <1>1. CASE UNCHANGED <<clientVars, channelVars, workerVars>>
    BY <1>1, <1>b
  <1>2. CASE Open
    <2>1. /\ worker = "opening" /\ worker' = "requests" /\ session' = session + 1
          /\ clientEpoch' = config.epoch /\ UNCHANGED <<config, events>>
      BY <1>2 DEF Open
    <2>2. Below(events, session + 1, config.epoch, config.epoch)
      BY <2>1, <1>b
    <2> QED BY <2>1, <2>2, <1>n
  <1>3. CASE OpenFails
    BY <1>3 DEF OpenFails
  <1>4. CASE HandleRequests
    <2>1. /\ worker = "requests" /\ worker' \in {"outputs", "joining"}
          /\ UNCHANGED <<clientEpoch, session, events>> /\ config'.epoch = config.epoch
      BY <1>4, RequestsHandled
    <2> QED BY <2>1, <1>b
  <1>5. CASE DrainControl
    <2> DEFINE out == Head(control)
    <2>1. /\ worker = "outputs" /\ worker' \in {"outputs", "joining"}
          /\ UNCHANGED <<clientEpoch, session, config>>
      BY <1>5, <1>0, OutputKinds DEF DrainControl, Leave
    <2>2. CASE events' = events
      BY <2>1, <2>2, <1>b
    <2>3. CASE events' = Append(events, FailureOf(session, out.category))
      <3>1. /\ ~Graphical(FailureOf(session, out.category))
            /\ FailureOf(session, out.category).session = session
        BY DEF Graphical, FailureOf
      <3>2. Below(events, session, config.epoch, clientEpoch)
        BY <2>1, <1>b
      <3>3. Below(events', session, config.epoch, clientEpoch)
        BY ONLY <1>0, <1>n, <2>3, <3>1, <3>2, BelowAppended
      <3> QED BY <2>1, <3>3, <1>b
    <2>4. CASE out.kind = "reset" /\ events' = Append(events, Event("reset", session, out.epoch))
      <3>1. /\ Event("reset", session, out.epoch).session = session
            /\ Event("reset", session, out.epoch).epoch = out.epoch
        BY DEF Event
      <3>2. config.epoch <= out.epoch /\ out.epoch <= clientEpoch
        <4>1. 1 \in DOMAIN control /\ control[1] = out
          BY <1>0, <1>5, Taken DEF DrainControl
        <4> QED BY <2>1, <2>4, <4>1 DEF OutputsAbove
      <3>3. Below(events, session, config.epoch, clientEpoch)
        BY <2>1, <1>b
      <3>4. Below(events', session, config.epoch, clientEpoch)
        BY ONLY SMTT(20), <1>0, <1>n, <2>4, <3>1, <3>2, <3>3, BelowAppended
      <3> QED BY <2>1, <3>4, <1>b
    <2> QED BY <1>5, <2>2, <2>3, <2>4 DEF DrainControl
  <1>6. CASE DrainGraphics
    <2> DEFINE e == Head(graphics)
    <2>1. /\ worker = "outputs" /\ UNCHANGED <<worker, clientEpoch, session, config>>
          /\ events' = Append(events, Event("pixels", session, e))
      BY <1>6 DEF DrainGraphics
    <2>2. /\ Event("pixels", session, e).session = session
          /\ Event("pixels", session, e).epoch = e
      BY DEF Event
    <2>3. config.epoch <= e /\ e <= clientEpoch
      <3>1. 1 \in DOMAIN graphics /\ graphics[1] = e
        BY <1>0, <1>6, Taken DEF DrainGraphics
      <3> QED BY <2>1, <3>1 DEF OutputsAbove
    <2>4. Below(events, session, config.epoch, clientEpoch)
      BY <2>1, <1>b
    <2>5. Below(events', session, config.epoch, clientEpoch)
      BY ONLY <1>0, <1>n, <2>1, <2>2, <2>3, <2>4, BelowAppended
    <2> QED BY <2>1, <2>5, <1>b
  <1>7. CASE LeaveOutputs
    <2>1. /\ worker = "outputs" /\ worker' \in {"requests", "joining"}
          /\ UNCHANGED <<clientEpoch, session, config, events>>
      BY <1>7 DEF LeaveOutputs, Leave
    <2> QED BY <2>1, <1>b
  <1>8. CASE Join
    <2> DEFINE reached == Later(config.epoch, clientEpoch)
    <2>1. /\ worker = "joining" /\ worker' = "opening" /\ UNCHANGED session
          /\ config' = [config EXCEPT !.epoch = reached + 1]
          /\ events' = Append(events, Event("reset", session + 1, reached + 1))
      BY <1>8 DEF Join
    <2>2. reached = clientEpoch
      BY <2>1, <1>b, <1>0, <1>n DEF Later
    <2>3. config'.epoch = clientEpoch + 1
      BY <2>1, <2>2, <1>0
    <2>4. Below(events, session, config.epoch, clientEpoch) /\ config.epoch <= clientEpoch
      BY <2>1, <1>b
    <2>5. Below(events, session + 1, clientEpoch + 1, clientEpoch + 1)
      BY <2>4, <1>0, <1>n, BelowNext
    <2>6. /\ Event("reset", session + 1, clientEpoch + 1).session = session + 1
          /\ Event("reset", session + 1, clientEpoch + 1).epoch = clientEpoch + 1
      BY DEF Event
    <2>7. session + 1 \in Int /\ clientEpoch + 1 \in Int /\ clientEpoch + 1 <= clientEpoch + 1
      BY <1>0
    <2>8. events' = Append(events, Event("reset", session + 1, clientEpoch + 1))
      BY <2>1, <2>2
    <2>9. Below(events', session + 1, clientEpoch + 1, clientEpoch + 1)
      BY ONLY <1>0, <2>5, <2>6, <2>7, <2>8, BelowAppended
    <2> QED BY <2>1, <2>3, <2>7, <2>9
  <1>9. CASE Reactivate
    <2>1. UNCHANGED workerVars /\ clientEpoch' \in {clientEpoch, clientEpoch + 1}
      BY <1>9, Reactivates
    <2>2. CASE worker = "opening"
      BY <2>1, <2>2, <1>b
    <2>3. CASE worker # "opening"
      <3>1. config.epoch <= clientEpoch /\ Below(events, session, config.epoch, clientEpoch)
        BY <2>1, <2>3, <1>b
      <3>2. Below(events, session, config.epoch, clientEpoch') /\ config.epoch <= clientEpoch'
        BY <2>1, <3>1, <1>0, <1>n, BelowRaised
      <3> QED BY <2>1, <2>3, <3>2
    <2> QED BY <2>2, <2>3
  <1>10. CASE Speaks
    <2>1. UNCHANGED <<workerVars, clientEpoch>>
      BY <1>10, ClientSpeaks
    <2> QED BY <2>1, <1>b
  <1> QED BY <1>1, <1>2, <1>3, <1>4, <1>5, <1>6, <1>7, <1>8, <1>9, <1>10, Steps

LEMMA DroppedStep == Typed /\ Dropped /\ [Next]_vars => Dropped'
  <1> SUFFICES ASSUME Typed, Dropped, [Next]_vars PROVE Dropped'
    OBVIOUS
  <1> USE DEF Dropped, clientVars, workerVars, channelVars
  <1>1. CASE UNCHANGED <<clientVars, channelVars, workerVars>>
    BY <1>1
  <1>2. CASE Open \/ OpenFails
    BY <1>2 DEF Open, OpenFails
  <1>4. CASE HandleRequests
    <2>1. /\ worker' \in {"outputs", "joining", "ended"}
          /\ worker' = "joining" => control' = <<>> /\ graphics' = <<>>
      BY <1>4, RequestsHandled
    <2> QED BY <2>1
  <1>5. CASE DrainControl
    BY <1>5 DEF DrainControl, Leave
  <1>6. CASE DrainGraphics
    BY <1>6 DEF DrainGraphics
  <1>7. CASE LeaveOutputs
    BY <1>7 DEF LeaveOutputs, Leave
  <1>8. CASE Join
    BY <1>8 DEF Join
  <1>9. CASE Reactivate
    <2>1. /\ UNCHANGED <<worker, graphics>>
          /\ UNCHANGED control \/ Receiving
      BY <1>9, Reactivates
    <2> QED BY <2>1 DEF Receiving
  <1>10. CASE Speaks
    <2>1. /\ UNCHANGED worker
          /\ UNCHANGED <<control, graphics>> \/ Receiving
      BY <1>10, ClientSpeaks
    <2> QED BY <2>1 DEF Receiving
  <1> QED BY <1>1, <1>2, <1>4, <1>5, <1>6, <1>7, <1>8, <1>9, <1>10, Steps

LEMMA AboveStep ==
    Typed /\ Dropped /\ EventsBelow /\ OutputsAbove /\ [Next]_vars => OutputsAbove'
  <1> SUFFICES ASSUME Typed, Dropped, EventsBelow, OutputsAbove, [Next]_vars, worker' # "ended"
               PROVE  OutputsAbove'
    BY DEF OutputsAbove
  <1> USE DEF clientVars, workerVars, channelVars
  <1>0. /\ control \in Seq(OutputTypes) /\ graphics \in Seq(Nat) /\ events \in Seq(EventTypes)
        /\ session \in Nat /\ clientEpoch \in Nat /\ config \in [epoch: Nat, size: Nat]
    BY DEF Typed
  <1>n. config.epoch \in Nat
    BY <1>0
  <1>k. \A i \in DOMAIN control : control[i].kind = "reset" => control[i].epoch \in Nat
    <2> TAKE i \in DOMAIN control
    <2>1. control[i] \in OutputTypes
      BY <1>0
    <2> QED BY <2>1, OutputKinds
  <1>a. worker # "ended" =>
       /\ \A i \in DOMAIN graphics :
             config.epoch <= graphics[i] /\ graphics[i] <= clientEpoch
       /\ \A i \in DOMAIN control : control[i].kind = "reset" =>
             /\ config.epoch <= control[i].epoch /\ control[i].epoch <= clientEpoch
             /\ \A j \in DOMAIN events :
                   events[j].kind = "reset" => events[j].epoch < control[i].epoch
             /\ \A j \in DOMAIN control :
                   (i < j /\ control[j].kind = "reset") => control[i].epoch < control[j].epoch
    BY DEF OutputsAbove
  <1>b. Receiving =>
           config.epoch <= clientEpoch /\ Below(events, session, config.epoch, clientEpoch)
    BY DEF EventsBelow, Current, Reached, Receiving
  <1>e. control' = <<>> /\ graphics' = <<>> => OutputsAbove'
    BY DEF OutputsAbove
  <1>1. CASE UNCHANGED <<clientVars, channelVars, workerVars>>
    BY <1>1 DEF OutputsAbove
  <1>2. CASE Open \/ OpenFails
    BY <1>2, <1>e DEF Open, OpenFails
  <1>4. CASE HandleRequests
    <2>1. /\ worker = "requests" /\ worker' \in {"outputs", "joining"}
          /\ UNCHANGED <<clientEpoch, events>> /\ config'.epoch = config.epoch
          /\ (control' = <<>> /\ graphics' = <<>>) \/ UNCHANGED <<control, graphics>>
      BY <1>4, RequestsHandled
    <2> QED BY <2>1, <1>a, <1>e DEF OutputsAbove
  <1>5. CASE DrainControl
    <2> DEFINE out == Head(control)
    <2>1. CASE Leave(out.kind)
      BY <2>1, <1>e DEF Leave
    <2>2. CASE /\ control' = Tail(control) /\ UNCHANGED <<graphics, worker>>
               /\ \/ out.kind = "reset" /\ events' = Append(events, Event("reset", session, out.epoch))
                  \/ out.kind = "event" /\ events' = Append(events, FailureOf(session, out.category))
      <3>1. UNCHANGED <<config, clientEpoch>> /\ worker = "outputs" /\ control # <<>>
        BY <1>5 DEF DrainControl
      <3>2. /\ \A i \in DOMAIN control' : i + 1 \in DOMAIN control /\ control'[i] = control[i + 1]
                                            /\ i \in Nat /\ 1 < i + 1
            /\ 1 \in DOMAIN control /\ control[1] = out
        BY <1>0, <2>2, <3>1, Taken
      <3>3. \A j \in DOMAIN events' :
               events'[j].kind = "reset" =>
                  \/ j \in DOMAIN events /\ events[j].kind = "reset" /\ events'[j] = events[j]
                  \/ out.kind = "reset" /\ events'[j].epoch = out.epoch
        <4>1. PICK u : /\ events' = Append(events, u)
                       /\ u.kind = "reset" => out.kind = "reset" /\ u.epoch = out.epoch
          BY <2>2 DEF Event, FailureOf
        <4> QED BY <1>0, <4>1, Appended
      <3>4. \A i \in DOMAIN control' : control'[i].kind = "reset" =>
               \A j \in DOMAIN events' :
                   events'[j].kind = "reset" => events'[j].epoch < control'[i].epoch
        <4> SUFFICES ASSUME NEW i \in DOMAIN control', control'[i].kind = "reset",
                            NEW j \in DOMAIN events', events'[j].kind = "reset"
                     PROVE  events'[j].epoch < control'[i].epoch
          OBVIOUS
        <4>1. 1 < i + 1 /\ i + 1 \in DOMAIN control /\ control[i + 1].kind = "reset"
          BY <3>2, <1>0
        <4>2. CASE j \in DOMAIN events /\ events[j].kind = "reset" /\ events'[j] = events[j]
          BY <4>1, <4>2, <3>1, <3>2, <1>a
        <4>3. CASE out.kind = "reset" /\ events'[j].epoch = out.epoch
          BY <4>1, <4>3, <3>1, <3>2, <1>a
        <4> QED BY <3>3, <4>2, <4>3
      <3>5. \A i \in DOMAIN control' : control'[i].kind = "reset" =>
               /\ config.epoch <= control'[i].epoch /\ control'[i].epoch <= clientEpoch
               /\ \A j \in DOMAIN control' :
                     (i < j /\ control'[j].kind = "reset") => control'[i].epoch < control'[j].epoch
        <4> SUFFICES ASSUME NEW i \in DOMAIN control', control'[i].kind = "reset",
                            NEW j \in DOMAIN control'
                     PROVE  /\ config.epoch <= control'[i].epoch
                            /\ control'[i].epoch <= clientEpoch
                            /\ (i < j /\ control'[j].kind = "reset") =>
                                  control'[i].epoch < control'[j].epoch
          OBVIOUS
        <4>1. /\ i + 1 \in DOMAIN control /\ control'[i] = control[i + 1]
              /\ j + 1 \in DOMAIN control /\ control'[j] = control[j + 1]
              /\ i < j => i + 1 < j + 1
          BY <3>2
        <4> QED BY <4>1, <3>1, <1>a
      <3> QED BY <3>1, <3>4, <3>5, <2>2, <1>a DEF OutputsAbove
    <2> QED BY <1>5, <2>1, <2>2 DEF DrainControl
  <1>6. CASE DrainGraphics
    <2>1. /\ worker = "outputs" /\ UNCHANGED <<clientEpoch, config, control>>
          /\ control = <<>> /\ graphics # <<>> /\ graphics' = Tail(graphics)
      BY <1>6 DEF DrainGraphics
    <2>2. \A i \in DOMAIN graphics' : i + 1 \in DOMAIN graphics /\ graphics'[i] = graphics[i + 1]
      BY <1>0, <2>1, Taken
    <2> QED BY <2>1, <2>2, <1>a DEF OutputsAbove
  <1>7. CASE LeaveOutputs
    <2>1. CASE Leave("terminated")
      BY <2>1, <1>e DEF Leave
    <2>2. CASE UNCHANGED channelVars
      <3>1. worker = "outputs" /\ UNCHANGED <<control, graphics, events, config, clientEpoch>>
        BY <1>7, <2>2 DEF LeaveOutputs
      <3> QED BY <3>1, <1>a DEF OutputsAbove
    <2> QED BY <1>7, <2>1, <2>2 DEF LeaveOutputs
  <1>8. CASE Join
    BY <1>8, <1>e DEF Join, Dropped
  <1>9. CASE Reactivate
    <2>1. UNCHANGED workerVars /\ UNCHANGED graphics
      BY <1>9, Reactivates
    <2>2. CASE UNCHANGED <<clientEpoch, control>>
      BY <2>1, <2>2, <1>a DEF OutputsAbove
    <2>3. CASE /\ Receiving /\ clientEpoch' = clientEpoch + 1
               /\ control' = Append(control, ResetOutput(clientEpoch + 1))
      <3>1. /\ ResetOutput(clientEpoch + 1).kind = "reset"
            /\ ResetOutput(clientEpoch + 1).epoch = clientEpoch + 1
        BY DEF ResetOutput
      <3>2. \A i \in DOMAIN control' :
               \/ i \in DOMAIN control /\ i \in 1 .. Len(control) /\ control'[i] = control[i]
               \/ i = Len(control) + 1 /\ control'[i].epoch = clientEpoch + 1
        BY <1>0, <2>3, <3>1, Appended
      <3>3. \A j \in DOMAIN events : events[j].kind = "reset" =>
               events[j].epoch <= clientEpoch /\ events[j].epoch \in Nat
        <4> SUFFICES ASSUME NEW j \in DOMAIN events, events[j].kind = "reset"
                     PROVE  events[j].epoch <= clientEpoch /\ events[j].epoch \in Nat
          OBVIOUS
        <4>1. events[j].epoch \in Nat /\ events[j].session \in Nat
          BY <1>0, EventNumbers
        <4> QED BY SMTT(20), <4>1, <2>3, <1>b, <1>n, <1>0 DEF Below, Graphical
      <3>4. \A i \in DOMAIN graphics : graphics[i] \in Nat
        BY <1>0
      <3>5. worker # "ended" /\ config.epoch <= clientEpoch /\ Len(control) \in Nat
        BY <2>3, <1>b, <1>0 DEF Receiving
      <3>6. \A i \in DOMAIN graphics' :
               config'.epoch <= graphics'[i] /\ graphics'[i] <= clientEpoch'
        BY <2>1, <2>3, <3>4, <3>5, <1>a, <1>0, <1>n
      <3>7. ASSUME NEW i \in DOMAIN control', control'[i].kind = "reset"
            PROVE  /\ config'.epoch <= control'[i].epoch /\ control'[i].epoch <= clientEpoch'
                   /\ \A j \in DOMAIN events' :
                         events'[j].kind = "reset" => events'[j].epoch < control'[i].epoch
                   /\ \A j \in DOMAIN control' :
                         (i < j /\ control'[j].kind = "reset") =>
                            control'[i].epoch < control'[j].epoch
        <4>1. CASE i = Len(control) + 1 /\ control'[i].epoch = clientEpoch + 1
          BY <4>1, <2>1, <2>3, <3>2, <3>3, <3>5, <1>0, <1>n
        <4>2. CASE i \in DOMAIN control /\ i \in 1 .. Len(control) /\ control'[i] = control[i]
          <5>1. control[i].epoch \in Nat /\ control[i].epoch <= clientEpoch
            BY <4>2, <3>5, <3>7, <1>a, <1>k
          <5> QED BY <5>1, <4>2, <3>7, <2>1, <2>3, <3>2, <3>5, <1>a, <1>0, <1>n
        <4> QED BY <3>2, <4>1, <4>2
      <3> QED BY <3>6, <3>7 DEF OutputsAbove
    <2> QED BY <1>9, <2>2, <2>3, Reactivates
  <1>10. CASE Speaks
    <2>1. UNCHANGED <<workerVars, clientEpoch>>
      BY <1>10, ClientSpeaks
    <2>2. CASE UNCHANGED <<control, graphics>>
      BY <2>1, <2>2, <1>a DEF OutputsAbove
    <2>3. CASE Receiving /\ UNCHANGED control /\ graphics' = Append(graphics, clientEpoch)
      <3>1. \A i \in DOMAIN graphics' :
               (i \in DOMAIN graphics /\ graphics'[i] = graphics[i]) \/ graphics'[i] = clientEpoch
        BY <1>0, <2>3, Appended
      <3>2. \A i \in DOMAIN graphics' :
               config.epoch <= graphics'[i] /\ graphics'[i] <= clientEpoch
        BY <2>3, <3>1, <1>a, <1>b, <1>0 DEF Receiving
      <3> QED BY <2>1, <2>3, <3>2, <1>a DEF OutputsAbove
    <2>4. ASSUME NEW out \in OutputTypes, control' = Append(control, out), UNCHANGED graphics,
                 out.kind # "reset"
          PROVE  OutputsAbove'
      <3>1. \A i \in DOMAIN control' : control'[i].kind = "reset" =>
               i \in DOMAIN control /\ control'[i] = control[i]
        BY <1>0, <2>4, Appended
      <3> QED BY <2>1, <2>4, <3>1, <1>a DEF OutputsAbove
    <2>5. \/ UNCHANGED <<control, graphics>>
          \/ Receiving /\ UNCHANGED control /\ graphics' = Append(graphics, clientEpoch)
          \/ UNCHANGED graphics
             /\ \E out \in OutputTypes : control' = Append(control, out) /\ out.kind # "reset"
      BY <1>10, ClientSpeaks
    <2> QED BY <2>2, <2>3, <2>4, <2>5
  <1> QED BY <1>1, <1>2, <1>4, <1>5, <1>6, <1>7, <1>8, <1>9, <1>10, Steps

\* An event that lies above the others keeps the sessions apart and the resets
\* ascending.
LEMMA Ascends ==
    ASSUME events \in Seq(EventTypes), SessionsDistinct, ResetsAscend,
           NEW u \in EventTypes, events' = Append(events, u),
           Graphical(u) =>
              \A i \in DOMAIN events : Graphical(events[i]) =>
                 /\ events[i].session <= u.session
                 /\ events[i].session < u.session => events[i].epoch < u.epoch
                 /\ u.kind = "reset" /\ events[i].kind = "reset" =>
                       events[i].epoch < u.epoch
    PROVE  SessionsDistinct' /\ ResetsAscend'
  <1>1. \A i \in DOMAIN events' :
           /\ i \in Nat
           /\ \/ i \in DOMAIN events /\ events'[i] = events[i] /\ i <= Len(events)
              \/ i = Len(events) + 1 /\ events'[i] = u
    BY Appended
  <1>2. /\ \A i \in DOMAIN events : events[i].session \in Nat
        /\ Len(events) \in Nat /\ u.session \in Nat
    <2>1. \A i \in DOMAIN events : events[i].session \in Nat
      BY EventNumbers
    <2>2. u.session \in Nat
      BY ONLY u \in EventTypes DEF EventTypes
    <2> QED BY <2>1, <2>2
  <1>3. SessionsDistinct'
    <2> SUFFICES ASSUME NEW i \in DOMAIN events', NEW j \in DOMAIN events',
                        Graphical(events'[i]), Graphical(events'[j]),
                        events'[i].session < events'[j].session
                 PROVE  i < j /\ events'[i].epoch < events'[j].epoch
      BY DEF SessionsDistinct, Graphical
    <2>1. CASE i \in DOMAIN events /\ j \in DOMAIN events
      BY <1>1, <1>2, <2>1 DEF SessionsDistinct
    <2>2. CASE i \in DOMAIN events /\ j = Len(events) + 1
      BY <1>1, <1>2, <2>2
    <2>3. CASE i = Len(events) + 1
      BY <1>1, <1>2, <2>3
    <2> QED BY <1>1, <2>1, <2>2, <2>3
  <1>4. ResetsAscend'
    <2> SUFFICES ASSUME NEW i \in DOMAIN events', NEW j \in DOMAIN events', i < j,
                        events'[i].kind = "reset", events'[j].kind = "reset"
                 PROVE  events'[i].epoch < events'[j].epoch
      BY DEF ResetsAscend
    <2>1. CASE j \in DOMAIN events /\ i \in DOMAIN events
      BY <1>1, <1>2, <2>1 DEF ResetsAscend
    <2>2. CASE j = Len(events) + 1
      BY <1>1, <1>2, <2>2 DEF Graphical
    <2> QED BY <1>1, <1>2, <2>1, <2>2
  <1> QED BY <1>3, <1>4

LEMMA DistinctStep ==
    Typed /\ EventsBelow /\ OutputsAbove /\ SessionsDistinct /\ ResetsAscend /\ [Next]_vars
      => SessionsDistinct' /\ ResetsAscend'
  <1> SUFFICES ASSUME Typed, EventsBelow, OutputsAbove, SessionsDistinct, ResetsAscend,
                      [Next]_vars
               PROVE  SessionsDistinct' /\ ResetsAscend'
    OBVIOUS
  <1> USE DEF clientVars, workerVars, channelVars
  <1>0. /\ control \in Seq(OutputTypes) /\ graphics \in Seq(Nat) /\ events \in Seq(EventTypes)
        /\ session \in Nat /\ clientEpoch \in Nat /\ config \in [epoch: Nat, size: Nat]
        /\ outcome \in [kind: {"none", "terminated", "failure"},
                        category: Categories \cup {"none"}]
    BY DEF Typed
  <1>s. events \in Seq(EventTypes)
    BY <1>0
  <1>n. config.epoch \in Nat /\ outcome.category \in Categories \cup {"none"}
        /\ session + 1 \in Nat /\ clientEpoch + 1 \in Nat
    BY <1>0
  <1>e. \A i \in DOMAIN events : events[i].epoch \in Nat /\ events[i].session \in Nat
    BY <1>0, EventNumbers
  <1>u. UNCHANGED events => SessionsDistinct' /\ ResetsAscend'
    BY DEF SessionsDistinct, ResetsAscend
  <1>f. ASSUME NEW u \in EventTypes, events' = Append(events, u), ~Graphical(u)
        PROVE  SessionsDistinct' /\ ResetsAscend'
    BY ONLY <1>f, <1>0, Ascends, SessionsDistinct, ResetsAscend
  <1>m. \A c \in Categories \cup {"none", "message", "dependency"} :
           FailureOf(session, c) \in EventTypes /\ ~Graphical(FailureOf(session, c))
    BY <1>0, EventsTyped DEF Graphical
  <1>1. CASE OpenFails
    <2>1. events' = Append(events, FailureOf(session, "message"))
      BY <1>1 DEF OpenFails
    <2> QED BY ONLY <1>m, <1>f, <2>1
  <1>4. CASE HandleRequests
    <2>1. UNCHANGED events \/ events' = Append(events, FailureOf(session, "message"))
      BY <1>4, RequestsHandled
    <2> QED BY ONLY <1>m, <1>f, <1>u, <2>1
  <1>5. CASE DrainControl
    <2> DEFINE out == Head(control)
    <2>1. /\ worker = "outputs" /\ 1 \in DOMAIN control /\ control[1] = out
          /\ out \in OutputTypes
      BY <1>0, <1>5, Taken DEF DrainControl
    <2>2. CASE out.kind = "event" /\ events' = Append(events, FailureOf(session, out.category))
      <3>1. out.category = "dependency"
        BY <2>1, <2>2, OutputKinds
      <3> QED BY ONLY <1>m, <1>f, <2>2, <3>1
    <2>3. CASE out.kind = "reset" /\ events' = Append(events, Event("reset", session, out.epoch))
      <3>1. out.epoch \in Nat
        BY <2>1, <2>3, OutputKinds
      <3>2. PICK u \in EventTypes : /\ events' = Append(events, u) /\ u.kind = "reset"
                                    /\ u.session = session /\ u.epoch = out.epoch
        BY ONLY SMTT(20), <1>0, <2>3, <3>1, EventsTyped
      <3>3. /\ config.epoch <= out.epoch
            /\ \A j \in DOMAIN events : events[j].kind = "reset" => events[j].epoch < out.epoch
        BY <2>1, <2>3 DEF OutputsAbove
      <3>4. Below(events, session, config.epoch, clientEpoch)
        BY <2>1 DEF EventsBelow, Current, Reached
      <3>5. \A i \in DOMAIN events : Graphical(events[i]) =>
                 /\ events[i].session <= u.session
                 /\ events[i].session < u.session => events[i].epoch < u.epoch
                 /\ u.kind = "reset" /\ events[i].kind = "reset" =>
                       events[i].epoch < u.epoch
        BY <1>e, <1>n, <3>1, <3>2, <3>3, <3>4 DEF Below
      <3> QED BY ONLY <1>s, <3>2, <3>5, Ascends, SessionsDistinct, ResetsAscend
    <2> QED BY <1>5, <1>u, <2>2, <2>3 DEF DrainControl
  <1>6. CASE DrainGraphics
    <2> DEFINE e == Head(graphics)
    <2>1. /\ worker = "outputs" /\ 1 \in DOMAIN graphics /\ graphics[1] = e /\ e \in Nat
          /\ events' = Append(events, Event("pixels", session, e))
      BY <1>0, <1>6, Taken DEF DrainGraphics
    <2>2. PICK u \in EventTypes : /\ events' = Append(events, u) /\ u.kind = "pixels"
                                  /\ u.session = session /\ u.epoch = e
      <3>1. e \in Nat /\ session \in Nat
        BY <1>0, <2>1
      <3> HIDE DEF e
      <3> QED BY ONLY <3>1, <2>1, EventsTyped
    <2>3. config.epoch <= e
      BY <2>1 DEF OutputsAbove
    <2>4. Below(events, session, config.epoch, clientEpoch)
      BY <2>1 DEF EventsBelow, Current, Reached
    <2>5. \A i \in DOMAIN events : Graphical(events[i]) =>
               /\ events[i].session <= u.session
               /\ events[i].session < u.session => events[i].epoch < u.epoch
               /\ u.kind = "reset" /\ events[i].kind = "reset" =>
                     events[i].epoch < u.epoch
      BY <1>e, <1>n, <2>1, <2>2, <2>3, <2>4 DEF Below
    <2> QED BY ONLY <1>s, <2>2, <2>5, Ascends, SessionsDistinct, ResetsAscend
  <1>8. CASE Join
    <2>1. worker = "joining" /\ config.epoch <= clientEpoch
          /\ Below(events, session, config.epoch, clientEpoch)
      BY <1>8 DEF EventsBelow, Current, Reached, Join
    <2>2. Later(config.epoch, clientEpoch) = clientEpoch
      BY <1>0, <1>n, <2>1 DEF Later
    <2>3. \/ events' = Append(events, Event("reset", session + 1, clientEpoch + 1))
          \/ events' = Append(events, FailureOf(session, outcome.category))
          \/ events' = Append(events, Event("disconnected", session, 0))
      BY <1>8, <2>2 DEF Join
    <2>4. CASE events' = Append(events, Event("reset", session + 1, clientEpoch + 1))
      <3>1. PICK u \in EventTypes : /\ events' = Append(events, u) /\ u.kind = "reset"
                                    /\ u.session = session + 1 /\ u.epoch = clientEpoch + 1
        BY ONLY <1>n, <2>4, EventsTyped
      <3>2. \A i \in DOMAIN events : Graphical(events[i]) =>
               /\ events[i].session <= u.session
               /\ events[i].session < u.session => events[i].epoch < u.epoch
               /\ u.kind = "reset" /\ events[i].kind = "reset" =>
                     events[i].epoch < u.epoch
        <4>1. \A i \in DOMAIN events : Graphical(events[i]) =>
                 events[i].session <= session /\ events[i].epoch <= clientEpoch
          <5> SUFFICES ASSUME NEW i \in DOMAIN events, Graphical(events[i])
                       PROVE  events[i].session <= session /\ events[i].epoch <= clientEpoch
            OBVIOUS
          <5>1. /\ events[i].session <= session
                /\ events[i].session < session => events[i].epoch < config.epoch
                /\ events[i].session = session => events[i].epoch <= clientEpoch
            BY <2>1 DEF Below
          <5> QED BY <5>1, <1>0, <1>e, <1>n, <2>1
        <4> QED BY <4>1, <1>0, <1>e, <1>n, <3>1
      <3> QED BY ONLY <1>s, <3>1, <3>2, Ascends, SessionsDistinct, ResetsAscend
    <2>5. CASE events' = Append(events, FailureOf(session, outcome.category))
      <3>1. FailureOf(session, outcome.category) \in EventTypes
            /\ ~Graphical(FailureOf(session, outcome.category))
        BY ONLY <1>0, <1>n, EventsTyped DEF Graphical
      <3> QED BY <1>f, <2>5, <3>1
    <2>6. CASE events' = Append(events, Event("disconnected", session, 0))
      <3>1. Event("disconnected", session, 0) \in EventTypes
            /\ ~Graphical(Event("disconnected", session, 0))
        BY <1>0, EventsTyped DEF Graphical
      <3> QED BY <1>f, <2>6, <3>1
    <2> QED BY <2>3, <2>4, <2>5, <2>6
  <1>9. CASE Open \/ LeaveOutputs \/ UNCHANGED <<clientVars, channelVars, workerVars>>
    BY <1>9, <1>u DEF Open, LeaveOutputs
  <1>10. CASE Reactivate \/ Speaks
    BY <1>10, <1>u, Reactivates, ClientSpeaks
  <1> QED BY <1>1, <1>4, <1>5, <1>6, <1>8, <1>9, <1>10, Steps

-----------------------------------------------------------------------------
(* The end, and the size *)

LEMMA FailedStep ==
    Typed /\ Quiet /\ OnlyRuntimeFailed /\ [Next]_vars => OnlyRuntimeFailed'
  <1> SUFFICES ASSUME Typed, Quiet, OnlyRuntimeFailed, [Next]_vars, worker' # "ended",
                      NEW i \in DOMAIN events', events'[i].kind \in Terminals
               PROVE  /\ events'[i].category = "dependency"
                      /\ \/ /\ i < Len(events')
                            /\ events'[i + 1].kind = "reset"
                            /\ events'[i + 1].session = events'[i].session + 1
                         \/ /\ i = Len(events') /\ events'[i].session = session'
                            /\ worker' # "opening" /\ client' \in {"finished", "gone"}
                            /\ control' = <<>> /\ graphics' = <<>>
    BY DEF OnlyRuntimeFailed
  <1> USE DEF clientVars, workerVars, channelVars
  <1> DEFINE Succeeded(k) == /\ k < Len(events)
                             /\ events[k + 1].kind = "reset"
                             /\ events[k + 1].session = events[k].session + 1
             Last(k) == /\ k = Len(events) /\ events[k].session = session
                        /\ worker # "opening" /\ client \in {"finished", "gone"}
                        /\ control = <<>> /\ graphics = <<>>
  <1>0. /\ control \in Seq(OutputTypes) /\ graphics \in Seq(Nat) /\ events \in Seq(EventTypes)
        /\ DOMAIN events = 1 .. Len(events) /\ Len(events) \in Nat
    BY DEF Typed
  <1>a. \A k \in DOMAIN events :
           (worker # "ended" /\ events[k].kind \in Terminals) =>
              events[k].category = "dependency" /\ (Succeeded(k) \/ Last(k))
    BY DEF OnlyRuntimeFailed
  <1>1. CASE UNCHANGED <<clientVars, channelVars, workerVars>>
    BY <1>1, <1>a
  <1>2. CASE Open
    BY <1>2, <1>a DEF Open
  <1>4. CASE HandleRequests
    <2>1. /\ worker = "requests" /\ worker' \in {"outputs", "joining"}
          /\ UNCHANGED <<client, session, events>>
          /\ (control' = <<>> /\ graphics' = <<>>) \/ UNCHANGED <<control, graphics>>
      BY <1>4, RequestsHandled
    <2> QED BY <2>1, <1>a
  <1>g. ASSUME NEW u, events' = Append(events, u), worker # "ended", u.kind \notin Terminals,
               \A k \in DOMAIN events : ~Last(k)
        PROVE  /\ events'[i].category = "dependency"
               /\ i < Len(events')
               /\ events'[i + 1].kind = "reset"
               /\ events'[i + 1].session = events'[i].session + 1
    <2>1. i \in DOMAIN events /\ events'[i] = events[i] /\ Len(events') = Len(events) + 1
      BY <1>g, <1>0, Appended
    <2>2. events[i].category = "dependency" /\ Succeeded(i)
      BY <2>1, <1>g, <1>a
    <2>3. i + 1 \in 1 .. Len(events)
      BY <2>1, <2>2, <1>0
    <2>4. events'[i + 1] = events[i + 1]
      BY <1>g, <1>0, <2>3, Appended
    <2> QED BY <2>1, <2>2, <2>4, <1>0
  <1>5. CASE DrainControl
    <2> DEFINE out == Head(control)
    <2>1. worker = "outputs" /\ control # <<>> /\ UNCHANGED <<session, client>>
      BY <1>5 DEF DrainControl
    <2>2. \A k \in DOMAIN events : ~Last(k)
      BY <2>1
    <2>3. CASE Leave(out.kind) /\ UNCHANGED events
      BY <1>a, <2>1, <2>2, <2>3 DEF Leave
    <2>4. CASE out.kind = "reset" /\ events' = Append(events, Event("reset", session, out.epoch))
      <3>1. Event("reset", session, out.epoch).kind \notin Terminals
        BY DEF Event, Terminals
      <3> HIDE DEF Last
      <3> QED BY <1>g, <2>1, <2>2, <2>4, <3>1
    <2>5. CASE out.kind = "event" /\ events' = Append(events, FailureOf(session, out.category))
               /\ control' = Tail(control) /\ UNCHANGED <<graphics, worker>>
      <3>1. /\ 1 \in DOMAIN control /\ control[1] = out /\ out \in OutputTypes
            /\ Len(Tail(control)) = Len(control) - 1 /\ Tail(control) \in Seq(OutputTypes)
        BY <1>0, <2>1, Taken
      <3>2. /\ client \in {"finished", "gone"} /\ Len(control) = 1 /\ graphics = <<>>
            /\ out.category = "dependency"
        BY <2>5, <3>1, OutputKinds DEF Quiet
      <3>3. control' = <<>>
        BY <2>5, <3>1, <3>2
      <3>4. FailureOf(session, out.category).session = session
            /\ FailureOf(session, out.category).category = "dependency"
        BY <3>2 DEF FailureOf
      <3>5. CASE i = Len(events) + 1
        <4>1. events'[i] = FailureOf(session, out.category) /\ i = Len(events')
          BY <1>0, <2>5, <3>5, Appended
        <4> QED BY <2>1, <2>5, <3>2, <3>3, <3>4, <4>1
      <3>6. CASE i \in DOMAIN events
        <4>1. events'[i] = events[i] /\ Len(events') = Len(events) + 1
          BY <1>0, <2>5, <3>6, Appended
        <4>2. events[i].category = "dependency" /\ Succeeded(i)
          BY <2>1, <2>2, <3>6, <4>1, <1>a
        <4>3. i + 1 \in 1 .. Len(events) /\ events'[i + 1] = events[i + 1]
          <5>1. i < Len(events)
            BY <4>2
          <5>2. /\ DOMAIN events = 1 .. Len(events) /\ Len(events) \in Nat
                /\ \A k \in 1 .. Len(events) : events'[k] = events[k]
            BY <1>0, <2>5, Appended
          <5> QED BY ONLY <3>6, <5>1, <5>2
        <4> QED BY <4>1, <4>2, <4>3, <1>0
      <3> QED BY SMTT(20), <1>0, <2>5, <3>5, <3>6, Appended
    <2> QED BY <1>5, <2>3, <2>4, <2>5 DEF DrainControl
  <1>6. CASE DrainGraphics
    <2>1. /\ worker = "outputs" /\ graphics # <<>>
          /\ events' = Append(events, Event("pixels", session, Head(graphics)))
      BY <1>6 DEF DrainGraphics
    <2>2. \A k \in DOMAIN events : ~Last(k)
      BY <2>1
    <2>3. Event("pixels", session, Head(graphics)).kind \notin Terminals
      BY DEF Event, Terminals
    <2> HIDE DEF Last
    <2> QED BY <1>g, <2>1, <2>2, <2>3
  <1>7. CASE LeaveOutputs
    <2>1. worker = "outputs" /\ UNCHANGED <<client, events, session>>
      BY <1>7 DEF LeaveOutputs
    <2>2. /\ worker' # "opening"
          /\ (control' = <<>> /\ graphics' = <<>>) \/ UNCHANGED <<control, graphics>>
      BY <1>7 DEF LeaveOutputs, Leave
    <2> QED BY <2>1, <2>2, <1>a
  <1>8. CASE Join
    <2>1. PICK e : /\ events' = Append(events, Event("reset", session + 1, e))
                   /\ worker = "joining"
      BY <1>8 DEF Join
    <2>2. /\ Event("reset", session + 1, e).kind = "reset"
          /\ Event("reset", session + 1, e).session = session + 1
          /\ Event("reset", session + 1, e).kind \notin Terminals
      BY DEF Event, Terminals
    <2>3. /\ i \in DOMAIN events /\ events'[i] = events[i] /\ Len(events') = Len(events) + 1
          /\ events'[Len(events) + 1] = Event("reset", session + 1, e)
      BY <2>1, <2>2, <1>0, Appended
    <2>4. CASE Last(i)
      BY <2>1, <2>2, <2>3, <2>4, <1>a, <1>0
    <2>5. CASE Succeeded(i)
      <3>1. i + 1 \in 1 .. Len(events)
        BY <2>3, <2>5, <1>0
      <3>2. events'[i + 1] = events[i + 1]
        BY <2>1, <3>1, <1>0, Appended
      <3> QED BY <2>1, <2>3, <2>5, <3>2, <1>a, <1>0
    <2> QED BY <2>1, <2>3, <2>4, <2>5, <1>a
  <1>9. CASE Reactivate
    <2>1. client \in {"active", "closing"} /\ UNCHANGED workerVars
      BY <1>9, Reactivates
    <2> QED BY <2>1, <1>a
  <1>10. CASE Speaks
    <2>1. UNCHANGED workerVars /\ (client \in {"finished", "gone"} =>
              client' = "gone" /\ UNCHANGED <<control, graphics>>)
      BY <1>10, ClientSpeaks
    <2> QED BY <2>1, <1>a
  <1> QED BY <1>1, <1>2, <1>4, <1>5, <1>6, <1>7, <1>8, <1>9, <1>10, Steps DEF OpenFails

\* The worker ends with an event, and does nothing more.
LEMMA EndStep ==
    Typed /\ OnlyRuntimeFailed /\ OneEnd /\ [Next]_vars /\ OnlyRuntimeFailed' => OneEnd'
  <1> SUFFICES ASSUME Typed, OnlyRuntimeFailed, OneEnd, [Next]_vars, OnlyRuntimeFailed'
               PROVE  OneEnd'
    OBVIOUS
  <1>0. events \in Seq(EventTypes) /\ DOMAIN events = 1 .. Len(events) /\ Len(events) \in Nat
    BY DEF Typed
  <1>1. CASE worker' # "ended"
    BY <1>1 DEF OnlyRuntimeFailed, OneEnd, Followed
  <1>2. CASE worker = "ended"
    <2>1. UNCHANGED <<events, worker>>
      <3> USE DEF clientVars, workerVars, channelVars
      <3>1. CASE Reactivate \/ Speaks
        BY <3>1, Reactivates, ClientSpeaks
      <3>2. CASE UNCHANGED <<clientVars, channelVars, workerVars>>
        BY <3>2
      <3> QED BY <1>2, <3>1, <3>2, Steps
              DEF Open, OpenFails, HandleRequests, DrainControl, DrainGraphics, LeaveOutputs,
                  Join
    <2> QED BY <2>1 DEF OneEnd, Followed
  <1>3. CASE worker # "ended" /\ worker' = "ended"
    <2>1. \E u : events' = Append(events, u)
      <3> USE DEF clientVars, workerVars, channelVars
      <3>1. CASE Reactivate \/ Speaks
        BY <1>3, <3>1, Reactivates, ClientSpeaks
      <3>2. CASE UNCHANGED <<clientVars, channelVars, workerVars>>
        BY <1>3, <3>2
      <3>3. CASE HandleRequests
        BY <1>3, <3>3, RequestsHandled
      <3>4. CASE Join
        BY <3>4 DEF Join
      <3>5. CASE OpenFails
        BY <3>5 DEF OpenFails
      <3>6. CASE Open \/ DrainControl \/ DrainGraphics \/ LeaveOutputs
        BY <1>3, <3>6 DEF Open, DrainControl, DrainGraphics, LeaveOutputs, Leave
      <3> QED BY <3>1, <3>2, <3>3, <3>4, <3>5, <3>6, Steps
    <2>2. PICK u : events' = Append(events, u)
      BY <2>1
    <2>3. Len(events') = Len(events) + 1 /\ DOMAIN events' = 1 .. Len(events) + 1
      BY <1>0, <2>2, Appended
    <2> SUFFICES ASSUME NEW i \in DOMAIN events', events'[i].kind \in Terminals, i # Len(events')
                 PROVE  i < Len(events') /\ events'[i].category = "dependency" /\ Followed(i)'
      BY <1>3 DEF OneEnd
    <2>4. i \in DOMAIN events /\ events'[i] = events[i] /\ i < Len(events')
      BY <1>0, <2>2, <2>3, Appended
    <2>5. /\ events[i].category = "dependency"
          /\ \/ /\ i < Len(events)
                /\ events[i + 1].kind = "reset"
                /\ events[i + 1].session = events[i].session + 1
             \/ i = Len(events)
      BY <1>3, <2>4 DEF OnlyRuntimeFailed
    <2>6. CASE i = Len(events)
      BY <1>3, <2>3, <2>4, <2>5, <2>6 DEF Followed
    <2>7. CASE i < Len(events) /\ events[i + 1].kind = "reset"
               /\ events[i + 1].session = events[i].session + 1
      <3>1. i + 1 \in 1 .. Len(events)
        BY <1>0, <2>4, <2>7
      <3>2. events'[i + 1] = events[i + 1]
        BY <1>0, <2>2, <3>1, Appended
      <3> QED BY <2>4, <2>5, <2>7, <3>2 DEF Followed
    <2> QED BY <2>5, <2>6, <2>7
  <1> QED BY <1>1, <1>2, <1>3

LEMMA SizeStep == Typed /\ SizeKept /\ [Next]_vars => SizeKept'
  <1> SUFFICES ASSUME Typed, SizeKept, [Next]_vars PROVE SizeKept'
    OBVIOUS
  <1> USE DEF SizeKept, clientVars, workerVars, channelVars
  <1>1. CASE UNCHANGED <<clientVars, channelVars, workerVars>>
    BY <1>1
  <1>2. CASE Open \/ OpenFails \/ DrainGraphics
    BY <1>2 DEF Open, OpenFails, DrainGraphics
  <1>4. CASE HandleRequests
    <2>1. /\ worker = "requests" /\ worker' \in {"outputs", "joining", "ended"}
          /\ (config.size = lastSize /\ (worker' = "outputs" \/ exit' = "reconnect")) =>
                worker' = "ended" \/ config'.size = lastSize'
      BY <1>4, RequestsHandled
    <2> QED BY <2>1
  <1>5. CASE DrainControl
    BY <1>5 DEF DrainControl, Leave
  <1>7. CASE LeaveOutputs
    BY <1>7 DEF LeaveOutputs, Leave
  <1>8. CASE Join
    <2>1. config \in [epoch: Nat, size: Nat]
      BY DEF Typed
    <2>2. config'.size = config.size /\ UNCHANGED lastSize /\ worker = "joining"
          /\ worker' \in {"opening", "ended"} /\ (worker' = "opening" => exit = "reconnect")
      BY <1>8, <2>1 DEF Join
    <2> QED BY <2>2
  <1>9. CASE Reactivate \/ Speaks
    <2>1. UNCHANGED workerVars
      BY <1>9, Reactivates, ClientSpeaks
    <2> QED BY <2>1
  <1> QED BY <1>1, <1>2, <1>4, <1>5, <1>7, <1>8, <1>9, Steps

-----------------------------------------------------------------------------
(* The theorems *)

LEMMA InvInit == Init => IInv
  <1> SUFFICES ASSUME Init PROVE IInv
    OBVIOUS
  <1>1. Typed
    BY LimitsAssumption DEF Init, Typed, Workers, Clients, NoOutcome
  <1>2. SessionsAscend /\ OneEnd
    BY <1>1, TypedIsTypeOK DEF Init, SessionsAscend, SessionsDistinct, ResetsAscend, OneEnd
  <1>3. Phased /\ Quiet /\ Dropped /\ OnlyRuntimeFailed /\ SizeKept /\ OutputsAbove
    BY DEF Init, Phased, Quiet, Dropped, OnlyRuntimeFailed, SizeKept, OutputsAbove
  <1>4. EventsBelow
    BY DEF Init, EventsBelow, Below, Reached
  <1> QED BY <1>2, <1>3, <1>4 DEF IInv

LEMMA InvStep == IInv /\ [Next]_vars => IInv'
  <1> SUFFICES ASSUME IInv, [Next]_vars PROVE IInv'
    OBVIOUS
  <1>1. Typed
    BY TypedIsTypeOK DEF IInv, SessionsAscend
  <1>2. TypeOK'
    <2>1. Typed'
      BY <1>1, TypeStep
    <2>2. TypeOK' <=> Typed'
      BY DEF TypeOK, Typed, Requests, EventTypes
    <2> QED BY <2>1, <2>2
  <1>3. SessionsDistinct' /\ ResetsAscend'
    BY <1>1, DistinctStep DEF IInv, SessionsAscend
  <1>4. Phased' /\ Quiet' /\ Dropped' /\ EventsBelow' /\ OutputsAbove'
    BY <1>1, PhasedStep, QuietStep, DroppedStep, BelowStep, AboveStep DEF IInv
  <1>5. OnlyRuntimeFailed' /\ OneEnd' /\ SizeKept'
    BY <1>1, FailedStep, EndStep, SizeStep DEF IInv
  <1> QED BY <1>2, <1>3, <1>4, <1>5 DEF IInv, SessionsAscend

\* The inductive invariant holds in every state.
THEOREM Invariance == Spec => []IInv
  <1> QED BY InvInit, InvStep, PTL DEF Spec

\* The host can tell every session from the next by its epochs: whatever a replaced
\* client thread and its successor did, in whatever order the two threads and the
\* host took their steps (session_loop.rs, runtime.rs), no two sessions share an epoch,
\* none is announced twice, and all is well typed.
THEOREM EpochsAscend == Spec => []SessionsAscend
  <1>1. IInv => SessionsAscend
    BY DEF IInv
  <1> QED BY <1>1, Invariance, PTL

\* The host hears of the end of the session once, as the last event
\* (start_rdp_worker), whatever the client thread reported itself.
THEOREM EndsOnce == Spec => []OneEnd
  <1>1. IInv => OneEnd
    BY DEF IInv
  <1> QED BY <1>1, Invariance, PTL

\* A resize is never lost to a reconnect: a session is opened with the last size
\* that reached the worker (remember_rdp_reconnect_state).
THEOREM ReopensWithLastSize == Spec => []OpensWithLastSize
  <1>1. IInv => OpensWithLastSize
    BY DEF IInv, SizeKept, OpensWithLastSize
  <1> QED BY <1>1, Invariance, PTL

=============================================================================
