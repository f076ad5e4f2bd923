-------------------------- MODULE VncSessionProofs --------------------------
(***************************************************************************)
(* Theorems about VncSession for every number of reconnects and inputs and *)
(* every queue capacity: connections never overlap, what that gives the    *)
(* host that reads one stream of events from several threads, and that its *)
(* requests are handled in order.                                          *)
(***************************************************************************)
EXTENDS VncSession, TLAPS, SequenceTheorems

\* Every attempt but the first takes a reconnect the host wrote, and a pending
\* one has not been taken; before an attempt starts, its reconnect is spent.
Pending == IF reconnect THEN 1 ELSE 0
Starting == {"top", "discard", "install", "leaveReconnect", "joinReconnect"}
AttemptsBounded ==
    gen + Pending <= submitted.reconnects + (IF spc \in Starting THEN 0 ELSE 1)

\* From its installation to the join, the attempt is the active generation.
Between == {"top", "discard", "install", "finish", "done"}
AttemptActive == spc \notin Between => gen # 0 /\ active = gen

\* An owner runs only for the connection that the session thread serves, leaves
\* or abandoned, and only while the host reads Connected.
OwnerServed ==
    \A g \in Generations :
        owner[g] \in Running =>
            /\ g = gen /\ active = gen
            /\ spc \in Serving \cup Leaving \cup {"failed"}
            /\ host.phase = "connected"
            /\ sent[g] => host.framed

\* An owner that has not started has sent nothing.
OwnerFresh ==
    \A g \in Generations :
        g > gen \/ (g = gen /\ spc \in Attempting) => ~sent[g]

HostBehind == host.gen <= gen
Announced  == spc = "spawn" => host.phase = "connected"

SessionInv ==
    /\ AttemptsBounded /\ AttemptActive
    /\ OwnerServed /\ OwnerFresh /\ HostBehind /\ Announced
    /\ FramesWhileConnected /\ LastWord /\ AnswersMatch

IInv == TypeOK /\ SessionInv

-----------------------------------------------------------------------------
(* Data. *)

LEMMA GenerationNumbers ==
    /\ MaxReconnects \in Nat
    /\ Generations = 1 .. (MaxReconnects + 1)
    /\ Generations \subseteq Nat \ {0}
  BY BoundsAssumption DEF Generations

\* What an event does to the host's view.
LEMMA SaidView ==
    ASSUME NEW event \in (Phases \cup Frames), NEW g \in {0} \cup Generations,
           host \in HostViews
    PROVE  /\ Said(event, g) \in HostViews
           /\ Said(event, g).gen = g
           /\ Said(event, g).last = event
           /\ event \in Frames => Said(event, g).phase = host.phase
           /\ event = "connected" => Said(event, g).phase = "connected"
           /\ event = "base" => Said(event, g).framed
           /\ event = "update" => Said(event, g).framed = host.framed
  <1> DEFINE framed == event = "base" \/ (host.framed /\ event # "connecting")
             phase  == IF event \in Phases THEN event ELSE host.phase
             seen   == IF event = "certificate" THEN g ELSE host.seen
  <1>1. /\ g \in 0 .. (MaxReconnects + 1)
        /\ host.seen \in 0 .. (MaxReconnects + 1)
        /\ host.answered \in 0 .. (MaxReconnects + 1)
        /\ host.phase \in Phases /\ host.framed \in BOOLEAN
    BY GenerationNumbers DEF HostViews
  <1>2. framed \in BOOLEAN
    BY <1>1
  <1>3. Said(event, g) = [phase |-> phase, gen |-> g, framed |-> framed, last |-> event,
                          seen |-> seen, answered |-> host.answered]
    BY DEF Said
  <1>4. phase \in Phases /\ seen \in 0 .. (MaxReconnects + 1)
    BY <1>1
  <1>5. /\ event \in Frames => phase = host.phase
        /\ event = "connected" => phase = "connected"
    BY DEF Phases, Frames
  <1>6. /\ event = "base" => framed
        /\ event = "update" => framed = host.framed
    BY <1>1
  <1> HIDE DEF framed, phase, seen
  <1>7. Said(event, g) \in HostViews
    BY <1>1, <1>2, <1>3, <1>4 DEF HostViews
  <1>8. /\ Said(event, g).gen = g /\ Said(event, g).last = event
        /\ Said(event, g).phase = phase /\ Said(event, g).framed = framed
    BY <1>3
  <1> QED BY <1>5, <1>6, <1>7, <1>8

\* The backlog is a sequence of requests, and taking its head leaves one.
LEMMA BacklogTypes ==
    ASSUME deferred \in Seq(Requests), requests \in Seq(Requests)
    PROVE  /\ Backlog \in Seq(Requests)
           /\ Backlog # <<>> => Head(Backlog) \in Requests
           /\ Backlog # <<>> /\ TakeRequest =>
                 deferred' \in Seq(Requests) /\ requests' \in Seq(Requests)
  <1>1. Backlog \in Seq(Requests)
    BY DEF Backlog
  <1>2. Backlog # <<>> => Head(Backlog) \in Requests
    BY <1>1
  <1>3. ASSUME Backlog # <<>>, TakeRequest
        PROVE  deferred' \in Seq(Requests) /\ requests' \in Seq(Requests)
    <2>1. CASE deferred # <<>>
      BY <2>1, <1>3 DEF TakeRequest
    <2>2. CASE deferred = <<>>
      <3>1. requests # <<>>
        BY <2>2, <1>3 DEF Backlog
      <3> QED BY <2>2, <3>1, <1>3 DEF TakeRequest
    <2> QED BY <2>1, <2>2
  <1> QED BY <1>1, <1>2, <1>3

LEMMA InitInv == Init => IInv
  <1> SUFFICES ASSUME Init PROVE IInv
    OBVIOUS
  <1>1. TypeOK
    <2>1. /\ MaxInputs \in Nat /\ MaxReconnects \in Nat
      BY BoundsAssumption
    <2>2. host \in HostViews
      BY <2>1 DEF Init, HostViews, Phases
    <2>3. ControlType
      BY DEF Init, ControlType, MainPcs
    <2>4. SessionType
      BY DEF Init, SessionType, SessionPcs
    <2>5. QueueType
      BY <2>1 DEF Init, QueueType
    <2>6. ConnectionType
      BY DEF Init, ConnectionType, OwnerPcs
    <2> QED BY <2>2, <2>3, <2>4, <2>5, <2>6 DEF TypeOK
  <1>2. SessionInv
    BY GenerationNumbers DEF Init, SessionInv, AttemptsBounded, Pending, Starting, AttemptActive,
       Between, OwnerServed, OwnerFresh, HostBehind, Announced, FramesWhileConnected, LastWord,
       AnswersMatch, Running, Serving, Frames
  <1> QED BY <1>1, <1>2 DEF IInv

-----------------------------------------------------------------------------
(* The main thread. *)

\* What the invariant depends on beyond the number of attempts.
Quiet == /\ UNCHANGED <<spc, gen, active, answer, owner, sent>>
         /\ host'.phase = host.phase /\ host'.framed = host.framed
         /\ host'.last = host.last /\ host'.gen = host.gen

LEMMA QuietKeeps ==
    ASSUME SessionInv, Quiet, AttemptsBounded'
    PROVE  SessionInv'
  BY DEF SessionInv, Quiet, AttemptActive, OwnerServed, OwnerFresh, HostBehind, Announced,
     FramesWhileConnected, LastWord, AnswersMatch

LEMMA QueueTypes ==
    ASSUME requests \in Seq(Requests), mainPc \in MainPcs,
           NEW request \in Requests, QueueRequest(request)
    PROVE  requests' \in Seq(Requests) /\ mainPc' \in MainPcs
  BY DEF QueueRequest, MainPcs

LEMMA ReadKeeps ==
    ASSUME IInv, Read
    PROVE  IInv' /\ host'.gen >= host.gen
  <1> USE DEF IInv, TypeOK
  <1>1. MaxInputs \in Nat /\ MaxReconnects \in Nat /\ host.gen \in Nat
    BY BoundsAssumption DEF HostViews
  <1>2. ASSUME NEW kind \in {"input", "frame"}, ReadInput(kind)
        PROVE  IInv' /\ host' = host
    <2>1. /\ submitted' \in [inputs: 0 .. MaxInputs, reconnects: 0 .. MaxReconnects]
          /\ submitted'.reconnects = submitted.reconnects
          /\ [kind |-> kind, n |-> submitted.inputs + 1] \in Requests
      <3>1. /\ submitted \in [inputs: 0 .. MaxInputs, reconnects: 0 .. MaxReconnects]
            /\ submitted' = [submitted EXCEPT !.inputs = @ + 1]
            /\ submitted.inputs < MaxInputs
        BY <1>2 DEF ReadInput, QueueType
      <3>2. submitted.inputs + 1 \in 1 .. MaxInputs
        BY ONLY <1>1, <3>1
      <3>3. [kind |-> kind, n |-> submitted.inputs + 1] \in Requests
        BY ONLY <3>2, kind \in {"input", "frame"} DEF Requests, Inputs
      <3> QED BY ONLY <1>1, <3>1, <3>2, <3>3
    <2>2. requests' \in Seq(Requests) /\ mainPc' \in MainPcs
      BY <1>2, <2>1, QueueTypes DEF ReadInput, ControlType, QueueType
    <2>3. TypeOK'
      BY <1>2, <2>1, <2>2 DEF ReadInput, ControlType, SessionType, QueueType, ConnectionType,
         control, conns
    <2>4. AttemptsBounded'
      BY <1>2, <2>1 DEF ReadInput, SessionInv, AttemptsBounded, Pending, control
    <2>5. Quiet
      BY <1>2 DEF ReadInput, Quiet, conns
    <2> QED BY <1>2, <2>3, <2>4, <2>5, QuietKeeps DEF ReadInput
  <1>3. ASSUME NEW g \in Generations, ReadAnswer(g)
        PROVE  IInv' /\ host'.gen = host.gen
    <2>1. [kind |-> "auth", n |-> g] \in Requests
      BY DEF Requests, Answers
    <2>2. requests' \in Seq(Requests) /\ mainPc' \in MainPcs
      BY <1>3, <2>1, QueueTypes DEF ReadAnswer, ControlType, QueueType
    <2>3. host' \in HostViews /\ Quiet
      BY <1>3, GenerationNumbers DEF ReadAnswer, HostViews, Quiet, conns
    <2>4. TypeOK'
      BY <1>3, <2>2, <2>3 DEF ReadAnswer, ControlType, SessionType, QueueType, ConnectionType,
         control, conns
    <2>5. AttemptsBounded'
      BY <1>3 DEF ReadAnswer, SessionInv, AttemptsBounded, Pending, control
    <2> QED BY <2>3, <2>4, <2>5, QuietKeeps DEF Quiet
  <1>4. CASE ReadReconnect
    <2>1. /\ submitted' \in [inputs: 0 .. MaxInputs, reconnects: 0 .. MaxReconnects]
          /\ submitted'.reconnects = submitted.reconnects + 1
      <3>1. /\ submitted \in [inputs: 0 .. MaxInputs, reconnects: 0 .. MaxReconnects]
            /\ submitted' = [submitted EXCEPT !.reconnects = @ + 1]
            /\ submitted.reconnects < MaxReconnects
        BY <1>4 DEF ReadReconnect, QueueType
      <3>2. submitted.reconnects + 1 \in 0 .. MaxReconnects
        BY ONLY <1>1, <3>1
      <3> QED BY ONLY <3>1, <3>2
    <2>2. TypeOK'
      <3>1. ControlType' /\ SessionType'
        BY <1>4 DEF ReadReconnect, ControlType, MainPcs, SessionType
      <3>2. QueueType' /\ ConnectionType'
        BY <1>4, <2>1 DEF ReadReconnect, QueueType, ConnectionType, conns
      <3>3. host' = host
        BY <1>4 DEF ReadReconnect
      <3> QED BY <3>1, <3>2, <3>3
    <2>3. AttemptsBounded'
      <3>1. /\ gen \in Nat /\ submitted.reconnects \in Nat /\ Pending \in {0, 1}
            /\ Pending' = 1 /\ UNCHANGED <<gen, spc>>
        BY <1>1, <1>4, GenerationNumbers DEF ReadReconnect, Pending, SessionType, QueueType
      <3>2. gen + Pending <= submitted.reconnects + (IF spc \in Starting THEN 0 ELSE 1)
        BY DEF SessionInv, AttemptsBounded
      <3> QED BY ONLY <2>1, <3>1, <3>2 DEF AttemptsBounded
    <2>4. Quiet
      BY <1>4 DEF ReadReconnect, Quiet, conns
    <2> QED BY <1>1, <1>4, <2>2, <2>3, <2>4, QuietKeeps DEF ReadReconnect
  <1>5. CASE ReadClose \/ ReadEnd \/ ReadError
    <2>1. TypeOK'
      BY <1>5 DEF ReadClose, ReadEnd, ReadError, ControlType, MainPcs, SessionType, QueueType,
         ConnectionType, control, conns
    <2>2. AttemptsBounded'
      BY <1>5 DEF ReadClose, ReadEnd, ReadError, SessionInv, AttemptsBounded, Pending, control
    <2>3. Quiet /\ host' = host
      BY <1>5 DEF ReadClose, ReadEnd, ReadError, Quiet, conns
    <2> QED BY <1>1, <2>1, <2>2, <2>3, QuietKeeps
  <1> QED BY <1>1, <1>2, <1>3, <1>4, <1>5 DEF Read

LEMMA MainKeeps ==
    ASSUME IInv, Main
    PROVE  IInv' /\ host'.gen >= host.gen
  <1> USE DEF IInv, TypeOK
  <1>1. host.gen \in Nat
    BY BoundsAssumption DEF HostViews
  <1>2. CASE Cancel
    <2>1. canceled' \in [Generations -> BOOLEAN] /\ mainPc' \in MainPcs
      BY <1>2 DEF Cancel, CancelCurrentAttempt, ControlType, MainPcs
    <2>2. TypeOK'
      BY <1>2, <2>1 DEF Cancel, ControlType, SessionType, QueueType, ConnectionType, conns
    <2>3. AttemptsBounded'
      BY <1>2 DEF Cancel, SessionInv, AttemptsBounded, Pending
    <2>4. Quiet /\ host' = host
      BY <1>2 DEF Cancel, Quiet, conns
    <2> QED BY <1>1, <2>2, <2>3, <2>4, QuietKeeps
  <1>3. CASE JoinWorker
    <2>1. TypeOK'
      BY <1>3 DEF JoinWorker, ControlType, MainPcs, SessionType, QueueType, ConnectionType,
         control, conns
    <2>2. AttemptsBounded'
      BY <1>3 DEF JoinWorker, SessionInv, AttemptsBounded, Pending, control
    <2>3. Quiet /\ host' = host
      BY <1>3 DEF JoinWorker, Quiet, conns
    <2> QED BY <1>1, <2>1, <2>2, <2>3, QuietKeeps
  <1> QED BY <1>2, <1>3, ReadKeeps DEF Main

-----------------------------------------------------------------------------
(* The session thread. *)

\* A step of the session thread that says nothing and leaves the connections
\* alone keeps the invariant if it keeps what ties spc to the other state.
LEMMA SilentKeeps ==
    ASSUME IInv, TypeOK', UNCHANGED <<gen, owner, sent, host>>,
           AttemptsBounded', AttemptActive', Announced', LastWord', AnswersMatch',
           \A g \in Generations : owner[g] \in Running =>
               active' = gen /\ spc' \in Serving \cup Leaving \cup {"failed"},
           spc' \in Attempting => spc \in Attempting
    PROVE  IInv'
  BY DEF IInv, SessionInv, OwnerServed, OwnerFresh, HostBehind, FramesWhileConnected

\* Where a session that is interrupted or fails goes.
LEMMA InterruptedKeeps ==
    ASSUME IInv, spc \in Attempting \ {"announce", "spawn"}, Interrupted,
           UNCHANGED <<gen, active, owner, sent, submitted, answer>>, TypeOK'
    PROVE  IInv' /\ host'.gen >= host.gen
  <1>1. host' = host /\ host.gen \in Nat
    BY BoundsAssumption DEF Interrupted, IInv, TypeOK, HostViews
  <1>2. AttemptsBounded'
    BY GenerationNumbers DEF IInv, SessionInv, TypeOK, ControlType, SessionType, QueueType,
       AttemptsBounded, Pending, Starting, Interrupted, Attempting
  <1>3. \A g \in Generations : owner[g] \notin Running
    BY DEF IInv, SessionInv, OwnerServed, Attempting, Serving, Leaving
  <1>4. spc' \in {"top", "finish"}
    BY DEF Interrupted
  <1>5. AttemptActive' /\ Announced' /\ LastWord' /\ AnswersMatch' /\ spc' \notin Attempting
    BY <1>4 DEF AttemptActive, Between, Announced, LastWord, AnswersMatch, Attempting, Serving
  <1> QED BY <1>1, <1>2, <1>3, <1>5, SilentKeeps

\* A session-thread step that says something while no owner runs.
LEMMA SpokenKeeps ==
    ASSUME IInv, TypeOK', UNCHANGED <<owner, sent>>,
           NEW event \in Phases, Emit(event, gen'), gen' >= gen,
           \A g \in Generations : owner[g] \notin Running,
           AttemptsBounded', AttemptActive', LastWord', AnswersMatch',
           spc' = "spawn" => event = "connected",
           spc' \in Attempting => spc \in Attempting \/ gen' > gen
    PROVE  IInv' /\ host'.gen >= host.gen
  <1>1. gen \in Nat /\ gen' \in {0} \cup Generations /\ gen' \in Nat /\ host \in HostViews
    BY GenerationNumbers DEF IInv, TypeOK, SessionType
  <1>2. /\ host'.gen = gen' /\ host'.last = event
        /\ event = "connected" => host'.phase = "connected"
    BY <1>1, SaidView DEF Emit
  <1>3. HostBehind' /\ host'.gen >= host.gen
    BY <1>1, <1>2, GenerationNumbers DEF HostBehind, IInv, SessionInv, HostViews
  <1>4. FramesWhileConnected'
    BY <1>2 DEF FramesWhileConnected, Frames, Phases
  <1>5. OwnerServed'
    BY DEF OwnerServed
  <1>6. OwnerFresh'
    BY <1>1, GenerationNumbers DEF OwnerFresh, IInv, SessionInv
  <1>7. Announced'
    BY <1>2 DEF Announced
  <1> QED BY <1>3, <1>4, <1>5, <1>6, <1>7 DEF IInv, SessionInv

\* No owner runs until the reader is started, nor once it was joined.
LEMMA Alone ==
    ASSUME IInv, spc \notin Serving \cup Leaving \cup {"failed"}
    PROVE  \A g \in Generations : owner[g] \notin Running
  BY DEF IInv, SessionInv, OwnerServed

LEMMA FailedKeeps ==
    ASSUME IInv, spc \in Attempting \ {"announce", "spawn"}, Failed,
           UNCHANGED <<gen, active, owner, sent, submitted, answer>>, TypeOK'
    PROVE  IInv' /\ host'.gen >= host.gen
  <1>1. \A g \in Generations : owner[g] \notin Running
    BY Alone DEF Attempting, Serving, Leaving
  <1>2. spc' = "finish" /\ reconnect' = reconnect /\ Emit("failed", gen') /\ gen' = gen
    BY DEF Failed, Emit, Said
  <1>3. AttemptsBounded'
    BY <1>2 DEF IInv, SessionInv, AttemptsBounded, Pending, Starting, Attempting
  <1>4. AttemptActive' /\ LastWord' /\ AnswersMatch' /\ spc' \notin Attempting \cup {"spawn"}
    BY <1>2 DEF AttemptActive, Between, LastWord, AnswersMatch, Attempting, Serving
  <1>5. gen' >= gen
    BY <1>2, GenerationNumbers DEF IInv, TypeOK, SessionType
  <1> QED BY <1>1, <1>2, <1>3, <1>4, <1>5, SpokenKeeps DEF Phases

\* Up to the connected loop.
LEMMA ConnectingKeeps ==
    ASSUME IInv,
           \/ CheckClose \/ DiscardReconnect \/ InstallAttempt \/ Preflight
           \/ PollAnswer \/ AnswerTimeout \/ ReceiveAnswer \/ DeferRequest
           \/ Complete \/ AnnounceConnected
    PROVE  IInv' /\ host'.gen >= host.gen
  <1> USE DEF IInv, TypeOK
  <1>1. /\ host.gen \in Nat /\ gen \in Nat /\ MaxReconnects \in Nat
        /\ submitted.reconnects \in 0 .. MaxReconnects
    BY BoundsAssumption, GenerationNumbers DEF HostViews, SessionType, QueueType
  <1>2. \A g \in Generations : spc \in {"top", "discard", "install"} \cup Attempting
                                  => owner[g] \notin Running
    BY Alone DEF Attempting, Serving, Leaving
  <1>3. CASE CheckClose
    <2>1. TypeOK'
      BY <1>3 DEF CheckClose, ControlType, SessionType, SessionPcs, QueueType, ConnectionType,
         control, conns
    <2>2. AttemptsBounded' /\ AttemptActive' /\ Announced' /\ LastWord' /\ AnswersMatch'
      BY <1>1, <1>3 DEF CheckClose, SessionInv, AttemptsBounded, Pending, Starting, control,
         AttemptActive, Between, Announced, LastWord, AnswersMatch, Serving
    <2> QED BY <1>1, <1>2, <1>3, <2>1, <2>2, SilentKeeps DEF CheckClose, conns, Attempting
  <1>4. CASE DiscardReconnect
    <2>1. TypeOK'
      BY <1>4 DEF DiscardReconnect, ControlType, SessionType, SessionPcs, QueueType,
         ConnectionType, conns
    <2>2. AttemptsBounded' /\ AttemptActive' /\ Announced' /\ LastWord' /\ AnswersMatch'
      BY <1>1, <1>4 DEF DiscardReconnect, SessionInv, AttemptsBounded, Pending, Starting,
         AttemptActive, Between, Announced, LastWord, AnswersMatch, Serving
    <2> QED BY <1>1, <1>2, <1>4, <2>1, <2>2, SilentKeeps DEF DiscardReconnect, conns, Attempting
  <1>5. CASE InstallAttempt
    <2>1. gen' = gen + 1 /\ gen' \in Generations
      BY <1>1, <1>5, GenerationNumbers DEF InstallAttempt, SessionInv, AttemptsBounded, Pending,
         Starting
    <2>2. host' \in HostViews
      BY <1>5, <2>1, SaidView DEF InstallAttempt, Emit, Phases
    <2>3. TypeOK'
      BY <1>5, <2>1, <2>2, GenerationNumbers DEF InstallAttempt, ControlType, SessionType,
         SessionPcs, Attempting, QueueType, ConnectionType, conns
    <2>4. AttemptsBounded' /\ AttemptActive' /\ LastWord' /\ AnswersMatch'
      BY <1>1, <1>5, <2>1, GenerationNumbers DEF InstallAttempt, SessionInv, AttemptsBounded,
         Pending, Starting, AttemptActive, Between, LastWord, AnswersMatch, Serving
    <2>5. gen' >= gen /\ gen' > gen /\ "connecting" \in Phases
      BY <1>1, <2>1 DEF Phases
    <2> QED BY <1>2, <1>5, <2>3, <2>4, <2>5, SpokenKeeps DEF InstallAttempt, conns
  <1>6. CASE Preflight
    <2>1. CASE Interrupted \/ Failed
      <3>1. host' \in HostViews
        BY <2>1, SaidView DEF Interrupted, Failed, Emit, Phases, SessionType
      <3>2. TypeOK'
        BY <1>6, <2>1, <3>1 DEF Preflight, Interrupted, Failed, ControlType, SessionType,
           SessionPcs, QueueType, ConnectionType, conns
      <3> QED BY <1>6, <2>1, <3>2, InterruptedKeeps, FailedKeeps DEF Preflight, Attempting, conns
    <2>2. CASE Emit("certificate", gen) /\ spc' = "auth" /\ UNCHANGED reconnect
      <3>1. host' \in HostViews
        BY <2>2, SaidView DEF Emit, Phases, SessionType
      <3>2. TypeOK'
        BY <1>6, <2>2, <3>1 DEF Preflight, ControlType, SessionType, SessionPcs, Attempting,
           QueueType, ConnectionType, conns
      <3>3. AttemptsBounded' /\ AttemptActive' /\ LastWord' /\ AnswersMatch'
        BY <1>6, <2>2 DEF Preflight, SessionInv, AttemptsBounded, Pending, Starting,
           AttemptActive, Between, LastWord, AnswersMatch, Serving
      <3>4. Emit("certificate", gen') /\ gen' >= gen /\ "certificate" \in Phases
        BY <1>1, <1>6, <2>2 DEF Preflight, Emit, Said, Phases
      <3>5. UNCHANGED <<owner, sent>> /\ spc \in Attempting
        BY <1>6 DEF Preflight, conns, Attempting
      <3> QED BY <1>2, <2>2, <3>2, <3>3, <3>4, <3>5, SpokenKeeps
    <2> QED BY <1>6, <2>1, <2>2 DEF Preflight
  <1>7. CASE PollAnswer
    <2>1. TypeOK'
      BY <1>7 DEF PollAnswer, Interrupted, ControlType, SessionType, SessionPcs, Attempting,
         QueueType, ConnectionType, conns
    <2>2. CASE Interrupted
      BY <1>7, <2>1, <2>2, InterruptedKeeps DEF PollAnswer, Attempting, conns
    <2>3. CASE spc' = "authRecv" /\ UNCHANGED <<reconnect, host>>
      <3>1. AttemptsBounded' /\ AttemptActive' /\ Announced' /\ LastWord' /\ AnswersMatch'
        BY <1>7, <2>3 DEF PollAnswer, SessionInv, AttemptsBounded, Pending, Starting,
           AttemptActive, Between, Announced, LastWord, AnswersMatch, Serving
      <3> QED BY <1>1, <1>2, <1>7, <2>1, <2>3, <3>1, SilentKeeps DEF PollAnswer, conns, Attempting
    <2> QED BY <1>7, <2>2, <2>3 DEF PollAnswer
  <1>8. CASE AnswerTimeout \/ DeferRequest
    <2>1. requests' \in Seq(Requests) /\ deferred' \in Seq(Requests)
      <3>1. CASE AnswerTimeout
        BY <3>1 DEF AnswerTimeout, QueueType
      <3>2. CASE DeferRequest
        <4>1. Head(requests) \in Requests /\ Tail(requests) \in Seq(Requests)
          BY <3>2 DEF DeferRequest, QueueType
        <4> QED BY <3>2, <4>1 DEF DeferRequest, QueueType
      <3> QED BY <1>8, <3>1, <3>2
    <2>2. TypeOK'
      BY <1>8, <2>1 DEF AnswerTimeout, DeferRequest, ControlType, SessionType, SessionPcs,
         Attempting, QueueType, ConnectionType, control, conns
    <2>3. AttemptsBounded' /\ AttemptActive' /\ Announced' /\ LastWord' /\ AnswersMatch'
      BY <1>8 DEF AnswerTimeout, DeferRequest, SessionInv, AttemptsBounded, Pending, Starting,
         AttemptActive, Between, Announced, LastWord, AnswersMatch, Serving, control
    <2> QED BY <1>1, <1>2, <1>8, <2>2, <2>3, SilentKeeps
            DEF AnswerTimeout, DeferRequest, conns, Attempting
  <1>9. CASE ReceiveAnswer
    <2>1. requests' \in Seq(Requests)
      BY <1>9 DEF ReceiveAnswer, QueueType
    <2>2. CASE (Interrupted \/ Failed) /\ UNCHANGED answer
      <3>1. host' \in HostViews
        BY <2>2, SaidView DEF Interrupted, Failed, Emit, Phases, SessionType
      <3>2. TypeOK'
        BY <1>9, <2>1, <2>2, <3>1 DEF ReceiveAnswer, Interrupted, Failed, ControlType,
           SessionType, SessionPcs, QueueType, ConnectionType, conns
      <3> QED BY <1>9, <2>2, <3>2, InterruptedKeeps, FailedKeeps
              DEF ReceiveAnswer, Attempting, conns
    <2>3. CASE /\ \/ spc' = "auth" /\ answer' = answer
                  \/ spc' = "complete" /\ answer' = gen
               /\ UNCHANGED <<reconnect, host>>
      <3>1. gen \in Generations
        BY <1>9 DEF ReceiveAnswer, SessionInv, AttemptActive, Between, SessionType
      <3>2. TypeOK'
        BY <1>9, <2>1, <2>3, <3>1 DEF ReceiveAnswer, ControlType, SessionType, SessionPcs,
           Attempting, QueueType, ConnectionType, conns
      <3>3. AttemptsBounded' /\ AttemptActive' /\ Announced' /\ LastWord' /\ AnswersMatch'
        BY <1>9, <2>3 DEF ReceiveAnswer, SessionInv, AttemptsBounded, Pending, Starting,
           AttemptActive, Between, Announced, LastWord, AnswersMatch, Serving
      <3> QED BY <1>1, <1>2, <1>9, <2>3, <3>2, <3>3, SilentKeeps
              DEF ReceiveAnswer, conns, Attempting
    <2> QED BY <1>9, <2>2, <2>3 DEF ReceiveAnswer
  <1>10. CASE Complete
    <2>1. CASE Failed
      <3>1. host' \in HostViews
        BY <2>1, SaidView DEF Failed, Emit, Phases, SessionType
      <3>2. TypeOK'
        BY <1>10, <2>1, <3>1 DEF Complete, Failed, ControlType, SessionType, SessionPcs,
           QueueType, ConnectionType, conns
      <3> QED BY <1>10, <2>1, <3>2, FailedKeeps DEF Complete, Attempting, conns
    <2>2. CASE spc' = "announce" /\ UNCHANGED <<reconnect, host>>
      <3>1. TypeOK'
        BY <1>10, <2>2 DEF Complete, ControlType, SessionType, SessionPcs, Attempting,
           QueueType, ConnectionType, conns
      <3>2. AttemptsBounded' /\ AttemptActive' /\ Announced' /\ LastWord' /\ AnswersMatch'
        BY <1>10, <2>2 DEF Complete, SessionInv, AttemptsBounded, Pending, Starting,
           AttemptActive, Between, Announced, LastWord, AnswersMatch, Serving
      <3> QED BY <1>1, <1>2, <1>10, <2>2, <3>1, <3>2, SilentKeeps DEF Complete, conns, Attempting
    <2> QED BY <1>10, <2>1, <2>2 DEF Complete
  <1>11. CASE AnnounceConnected
    <2>1. host' \in HostViews
      BY <1>11, SaidView DEF AnnounceConnected, Emit, Phases, SessionType
    <2>2. TypeOK'
      BY <1>11, <2>1 DEF AnnounceConnected, ControlType, SessionType, SessionPcs, Attempting,
         QueueType, ConnectionType, conns
    <2>3. AttemptsBounded' /\ AttemptActive' /\ LastWord' /\ AnswersMatch'
      BY <1>11 DEF AnnounceConnected, SessionInv, AttemptsBounded, Pending, Starting,
         AttemptActive, Between, LastWord, AnswersMatch, Serving
    <2>4. Emit("connected", gen') /\ gen' >= gen /\ "connected" \in Phases
      BY <1>1, <1>11 DEF AnnounceConnected, Emit, Said, Phases
    <2> QED BY <1>2, <1>11, <2>2, <2>3, <2>4, SpokenKeeps DEF AnnounceConnected, conns, Attempting
  <1> QED BY <1>3, <1>4, <1>5, <1>6, <1>7, <1>8, <1>9, <1>10, <1>11

\* Starting the reader: the owner is the first of this generation.
LEMMA StartReaderKeeps ==
    ASSUME IInv, StartReader
    PROVE  IInv' /\ host' = host
  <1> USE DEF IInv, TypeOK
  <1>1. gen \in Generations /\ active = gen /\ ~sent[gen] /\ host.phase = "connected"
    BY DEF StartReader, SessionInv, AttemptActive, Between, SessionType, OwnerFresh, Announced,
       Attempting
  <1>2. PICK pc \in {"drain", "publish"} : owner' = [owner EXCEPT ![gen] = pc]
    BY DEF StartReader
  <1>3. TypeOK'
    BY <1>1, <1>2 DEF StartReader, ControlType, SessionType, SessionPcs, Serving, QueueType,
       ConnectionType, OwnerPcs, Running, control
  <1>4. \A g \in Generations : owner'[g] \in Running => g = gen
    BY <1>1, <1>2, Alone DEF StartReader, ConnectionType, Serving, Leaving
  <1>5. OwnerServed'
    BY <1>1, <1>4 DEF StartReader, OwnerServed, Serving
  <1>6. OwnerFresh' /\ HostBehind' /\ FramesWhileConnected'
    BY DEF StartReader, SessionInv, OwnerFresh, Attempting, HostBehind, FramesWhileConnected
  <1>7. AttemptsBounded' /\ AttemptActive' /\ Announced' /\ LastWord' /\ AnswersMatch'
    BY <1>1 DEF StartReader, SessionInv, AttemptsBounded, Pending, Starting, AttemptActive,
       Between, Announced, LastWord, AnswersMatch, Serving, control
  <1> QED BY <1>3, <1>5, <1>6, <1>7 DEF StartReader, SessionInv

LEMMA CommandTypes ==
    ASSUME ConnectionType, NEW g \in Generations, NEW command \in {"write", "shutdown"},
           Enqueue(g, command)
    PROVE  commands' \in [Generations -> Seq({"write", "shutdown"})]
  BY DEF Enqueue, ConnectionType

\* The connected loop and the way out of it.
LEMMA ServingKeeps ==
    ASSUME IInv,
           \/ RequestFirstFrame \/ PollControl \/ RequestTimeout \/ HandleRequest
           \/ BeginShutdown \/ ForceShutdown \/ JoinOwner \/ Finish
    PROVE  IInv' /\ host'.gen >= host.gen
  <1> USE DEF IInv, TypeOK
  <1>1. /\ host.gen \in Nat /\ gen \in Nat /\ active \in Nat /\ MaxReconnects \in Nat
        /\ submitted.reconnects \in 0 .. MaxReconnects
    BY BoundsAssumption, GenerationNumbers DEF HostViews, SessionType, QueueType
  <1>2. spc \notin Between => gen \in Generations /\ active = gen
    BY DEF SessionInv, AttemptActive, SessionType
  <1>3. \A g \in Generations : owner[g] \in Running =>
            g = gen /\ active = gen /\ spc \in Serving \cup Leaving \cup {"failed"}
    BY DEF SessionInv, OwnerServed
  <1>4. CASE RequestFirstFrame
    <2>1. commands' \in [Generations -> Seq({"write", "shutdown"})]
      BY <1>2, <1>4, CommandTypes DEF RequestFirstFrame, WriteOrFail, Between, ConnectionType
    <2>2. spc' \in {"connected", "failed"}
      BY <1>4 DEF RequestFirstFrame, WriteOrFail
    <2>3. TypeOK'
      BY <1>4, <2>1, <2>2 DEF RequestFirstFrame, ControlType, SessionType, SessionPcs, Serving,
         Over, QueueType, ConnectionType, control
    <2>4. AttemptsBounded' /\ AttemptActive' /\ Announced' /\ LastWord' /\ AnswersMatch'
      BY <1>4, <2>2 DEF RequestFirstFrame, SessionInv, AttemptsBounded, Pending, Starting,
         AttemptActive, Between, Announced, LastWord, AnswersMatch, Serving, control
    <2> QED BY <1>1, <1>3, <1>4, <2>2, <2>3, <2>4, SilentKeeps
            DEF RequestFirstFrame, Serving, Attempting
  <1>5. CASE PollControl
    <2>1. /\ spc' \in {"leaveClose", "leaveReconnect", "recv"}
          /\ spc' = "leaveReconnect" => reconnect /\ ~reconnect'
          /\ reconnect' = (reconnect /\ close)
      BY <1>5 DEF PollControl, ControlType
    <2>2. TypeOK'
      BY <1>5, <2>1 DEF PollControl, ControlType, SessionType, SessionPcs, Serving, Leaving,
         QueueType, ConnectionType, conns
    <2>3. AttemptsBounded'
      BY <1>1, <1>5, <2>1 DEF PollControl, SessionInv, AttemptsBounded, Pending, Starting,
         ControlType
    <2>4. AttemptActive' /\ Announced' /\ LastWord' /\ AnswersMatch'
      BY <1>5, <2>1 DEF PollControl, SessionInv,
         AttemptActive, Between, Announced, LastWord, AnswersMatch, Serving
    <2> QED BY <1>1, <1>3, <1>5, <2>1, <2>2, <2>3, <2>4, SilentKeeps
            DEF PollControl, Serving, Leaving, Attempting, conns
  <1>6. CASE RequestTimeout
    <2>1. TypeOK'
      BY <1>6 DEF RequestTimeout, ControlType, SessionType, SessionPcs, Serving,
         QueueType, ConnectionType, conns, control
    <2>2. AttemptsBounded' /\ AttemptActive' /\ Announced' /\ LastWord' /\ AnswersMatch'
      BY <1>6 DEF RequestTimeout, SessionInv, AttemptsBounded, Pending, Starting,
         AttemptActive, Between, Announced, LastWord, AnswersMatch, Serving, control
    <2> QED BY <1>1, <1>3, <1>6, <2>1, <2>2, SilentKeeps
            DEF RequestTimeout, Serving, Attempting, conns
  <1>7. CASE HandleRequest
    <2> DEFINE request == Head(Backlog)
    <2>1. /\ request \in Requests
          /\ requests' \in Seq(Requests) /\ deferred' \in Seq(Requests)
      BY <1>7, BacklogTypes DEF HandleRequest, QueueType
    <2>2. spc' \in {"connected", "failed"}
      BY <1>7 DEF HandleRequest, WriteOrFail
    <2>3. handled' \in 0 .. MaxInputs
      BY <1>7, <2>1, BoundsAssumption DEF HandleRequest, QueueType, Requests, Answers, Inputs
    <2>4. /\ commands' \in [Generations -> Seq({"write", "shutdown"})]
          /\ force' \in [Generations -> BOOLEAN]
      BY <1>2, <1>7, CommandTypes DEF HandleRequest, WriteOrFail, Between, ConnectionType, Accepts
    <2>5. TypeOK'
      BY <1>7, <2>1, <2>2, <2>3, <2>4 DEF HandleRequest, ControlType, SessionType, SessionPcs,
         Serving, Over, QueueType, ConnectionType, control
    <2>6. AttemptsBounded' /\ AttemptActive' /\ Announced' /\ LastWord' /\ AnswersMatch'
      BY <1>7, <2>2 DEF HandleRequest, SessionInv, AttemptsBounded, Pending, Starting,
         AttemptActive, Between, Announced, LastWord, AnswersMatch, Serving, control
    <2> QED BY <1>1, <1>3, <1>7, <2>2, <2>5, <2>6, SilentKeeps
            DEF HandleRequest, Serving, Attempting
  <1>8. CASE BeginShutdown \/ ForceShutdown
    <2>1. /\ commands' \in [Generations -> Seq({"write", "shutdown"})]
          /\ canceled' \in [Generations -> BOOLEAN]
      BY <1>2, <1>8, CommandTypes
         DEF BeginShutdown, ForceShutdown, Between, ConnectionType, ControlType, conns
    <2>2. /\ spc \in Leaving /\ spc' \in Leaving
          /\ spc' \in Starting <=> spc \in Starting
      BY <1>8 DEF BeginShutdown, ForceShutdown, Leaving, Starting
    <2>3. TypeOK'
      BY <1>8, <2>1, <2>2 DEF BeginShutdown, ForceShutdown, ControlType, SessionType, SessionPcs,
         QueueType, ConnectionType, conns
    <2>4. AttemptsBounded' /\ AttemptActive' /\ Announced' /\ LastWord' /\ AnswersMatch'
      BY <1>8, <2>2 DEF BeginShutdown, ForceShutdown, SessionInv, AttemptsBounded, Pending,
         AttemptActive, Between, Announced, LastWord, AnswersMatch, Serving, Leaving
    <2> QED BY <1>1, <1>3, <1>8, <2>2, <2>3, <2>4, SilentKeeps
            DEF BeginShutdown, ForceShutdown, Leaving, Attempting, conns
  <1>9. CASE JoinOwner
    <2>1. \A g \in Generations : owner[g] \notin Running
      BY <1>3, <1>9 DEF JoinOwner, Running
    <2>2. TypeOK'
      BY <1>1, <1>9 DEF JoinOwner, ControlType, SessionType, SessionPcs, QueueType,
         ConnectionType, control, conns
    <2>3. AttemptsBounded' /\ AttemptActive' /\ Announced' /\ LastWord' /\ AnswersMatch'
      BY <1>1, <1>9 DEF JoinOwner, SessionInv, AttemptsBounded, Pending, Starting,
         AttemptActive, Between, Announced, LastWord, AnswersMatch, Serving, control
    <2> QED BY <1>1, <1>9, <2>1, <2>2, <2>3, SilentKeeps DEF JoinOwner, Attempting, conns
  <1>10. CASE Finish
    <2>1. host' \in HostViews
      BY <1>10, SaidView DEF Finish, Emit, Phases, SessionType
    <2>2. TypeOK'
      BY <1>10, <2>1 DEF Finish, ControlType, SessionType, SessionPcs, Over, QueueType,
         ConnectionType, conns
    <2>3. \A g \in Generations : owner[g] \notin Running
      BY <1>3, <1>10 DEF Finish, Serving, Leaving
    <2>4. Emit("disconnected", gen') /\ gen' >= gen /\ "disconnected" \in Phases
      BY <1>1, <1>10 DEF Finish, Emit, Said, Phases
    <2>5. AttemptsBounded' /\ AttemptActive' /\ LastWord' /\ AnswersMatch'
      <3>1. host'.last = "disconnected"
        BY <2>4 DEF Emit, Said
      <3> QED BY <1>1, <1>10, <2>3, <3>1 DEF Finish, SessionInv, AttemptsBounded, Pending,
              Starting, AttemptActive, Between, LastWord, AnswersMatch, Serving, conns
    <2> QED BY <1>10, <2>2, <2>3, <2>4, <2>5, SpokenKeeps DEF Finish, Attempting, conns
  <1> QED BY <1>4, <1>5, <1>6, <1>7, <1>8, <1>9, <1>10

LEMMA SessionKeeps ==
    ASSUME IInv, Session
    PROVE  IInv' /\ host'.gen >= host.gen
  <1>1. host.gen >= host.gen
    BY BoundsAssumption DEF IInv, TypeOK, HostViews
  <1> QED BY <1>1, ConnectingKeeps, StartReaderKeeps, ServingKeeps DEF Session

-----------------------------------------------------------------------------
(* The I/O owners. *)

\* An owner step that leaves the host's view alone.
LEMMA QuietOwnerKeeps ==
    ASSUME IInv, NEW g \in Generations, owner[g] \in Running, OwnerOnly,
           NEW pc \in OwnerPcs, Goes(g, pc), UNCHANGED <<force, sent, host>>,
           commands' \in [Generations -> Seq({"write", "shutdown"})]
    PROVE  IInv' /\ host'.gen >= host.gen
  <1> USE DEF IInv, TypeOK
  <1>1. host.gen \in Nat
    BY BoundsAssumption DEF HostViews
  <1>2. TypeOK'
    BY DEF OwnerOnly, Goes, ControlType, SessionType, QueueType, ConnectionType, control
  <1>3. \A h \in Generations : owner'[h] \in Running => owner[h] \in Running
    BY DEF Goes, ConnectionType
  <1>4. OwnerServed'
    BY <1>3 DEF SessionInv, OwnerServed, OwnerOnly
  <1>5. spc # "done"
    BY DEF SessionInv, OwnerServed, Serving, Leaving
  <1>6. /\ AttemptsBounded' /\ AttemptActive' /\ OwnerFresh' /\ HostBehind' /\ Announced'
        /\ FramesWhileConnected' /\ LastWord' /\ AnswersMatch'
    BY <1>5 DEF SessionInv, OwnerOnly, AttemptsBounded, Pending, AttemptActive, OwnerFresh,
       HostBehind, Announced, FramesWhileConnected, LastWord, AnswersMatch, control
  <1> QED BY <1>1, <1>2, <1>4, <1>6 DEF SessionInv

\* An owner step that writes an event: a frame, or the last one of its life.
LEMMA SpeakingOwnerKeeps ==
    ASSUME IInv, NEW g \in Generations, owner[g] \in Running, OwnerOnly,
           NEW pc \in OwnerPcs, Goes(g, pc),
           NEW event \in {"base", "update", "disconnected"}, Emit(event, g),
           force' \in [Generations -> BOOLEAN],
           commands' \in [Generations -> Seq({"write", "shutdown"})],
           IF event = "disconnected"
           THEN pc = "stopped" /\ sent' = sent
           ELSE sent' = [sent EXCEPT ![g] = TRUE],
           event = "update" => sent[g]
    PROVE  IInv' /\ host'.gen >= host.gen
  <1> USE DEF IInv, TypeOK
  <1>1. /\ g = gen /\ active = gen /\ spc \in Serving \cup Leaving \cup {"failed"}
        /\ host.phase = "connected"
        /\ sent[g] => host.framed
    BY DEF SessionInv, OwnerServed
  <1>2. event \in Phases \cup Frames /\ (event \in Frames <=> event # "disconnected")
    BY DEF Phases, Frames
  <1>3. /\ host' \in HostViews /\ host'.gen = g /\ host'.last = event
        /\ event \in Frames => host'.phase = "connected" /\ host'.framed
    <2>1. /\ Said(event, g) \in HostViews
          /\ Said(event, g).gen = g /\ Said(event, g).last = event
          /\ event \in Frames => Said(event, g).phase = "connected"
          /\ event = "base" => Said(event, g).framed
          /\ event = "update" => Said(event, g).framed = host.framed
      <3>1. event \in Phases \cup Frames /\ g \in {0} \cup Generations /\ host \in HostViews
        BY <1>2 DEF ControlType, SessionType, QueueType, ConnectionType
      <3>2. event \in Frames => Said(event, g).phase = host.phase
        BY ONLY <3>1, SaidView
      <3>3. /\ Said(event, g) \in HostViews
            /\ Said(event, g).gen = g /\ Said(event, g).last = event
            /\ event = "base" => Said(event, g).framed
            /\ event = "update" => Said(event, g).framed = host.framed
        BY ONLY <3>1, SaidView
      <3> QED BY ONLY <1>1, <3>2, <3>3
    <2> QED BY <1>1, <1>2, <2>1 DEF Emit
  <1>4. host'.gen >= host.gen /\ HostBehind'
    BY <1>1, <1>3, GenerationNumbers DEF SessionInv, HostBehind, OwnerOnly, HostViews
  <1>5. sent' \in [Generations -> BOOLEAN] /\ \A h \in Generations \ {g} : sent'[h] = sent[h]
    BY <1>2 DEF ConnectionType
  <1>6. TypeOK'
    BY <1>3, <1>5 DEF OwnerOnly, Goes, ControlType, SessionType, QueueType, ConnectionType, control
  <1>7. \A h \in Generations : owner'[h] \in Running => h = g /\ event \in Frames
    <2>1. \A h \in Generations : owner[h] \in Running => h = g
      BY <1>1 DEF SessionInv, OwnerServed
    <2>2. event = "disconnected" => owner'[g] \notin Running
      BY DEF Goes, ConnectionType, Running
    <2> QED BY <1>2, <2>1, <2>2 DEF Goes, ConnectionType
  <1>8. OwnerServed'
    BY <1>1, <1>3, <1>7 DEF OwnerServed, OwnerOnly
  <1>9. OwnerFresh'
    BY <1>1, <1>5, GenerationNumbers DEF SessionInv, OwnerFresh, OwnerOnly, Attempting, Serving,
       Leaving
  <1>10. FramesWhileConnected' /\ Announced' /\ LastWord'
    BY <1>1, <1>3 DEF FramesWhileConnected, Announced, LastWord, OwnerOnly, Serving, Leaving
  <1>11. AttemptsBounded' /\ AttemptActive' /\ AnswersMatch'
    BY DEF SessionInv, OwnerOnly, AttemptsBounded, Pending, AttemptActive, AnswersMatch, control
  <1> QED BY <1>4, <1>6, <1>8, <1>9, <1>10, <1>11 DEF SessionInv

LEMMA OwnerKeeps ==
    ASSUME IInv, NEW g \in Generations, Owner(g)
    PROVE  IInv' /\ host'.gen >= host.gen
  <1> USE DEF IInv, TypeOK
  <1>1. owner[g] \in Running /\ OwnerOnly
    BY DEF Owner, Drain, DrainEmpty, CheckCanceled, ReadServer, ApplyMessage, ApplyError,
       CheckPublish, Publish, Running
  <1>2. /\ commands \in [Generations -> Seq({"write", "shutdown"})]
        /\ Stops(g) => commands' \in [Generations -> Seq({"write", "shutdown"})]
        /\ Stops(g) => Goes(g, "stopped")
    <2>1. <<>> \in Seq({"write", "shutdown"})
      OBVIOUS
    <2>2. ASSUME Stops(g)
          PROVE  commands' \in [Generations -> Seq({"write", "shutdown"})]
      BY <2>1, <2>2 DEF ConnectionType, Stops
    <2> QED BY <2>2 DEF ConnectionType, Stops
  <1>3. {"drain", "check", "read", "flush", "flushPaint", "publish", "report", "stopped"}
           \subseteq OwnerPcs
    BY DEF OwnerPcs, Running
  <1>4. Goes(g, owner[g]) <=> UNCHANGED owner
    BY DEF Goes, ConnectionType
  <1>5. CASE Drain(g)
    <2>1. UNCHANGED <<force, sent, host>>
      BY <1>5 DEF Drain
    <2>2. CASE Stops(g)
      BY <1>1, <1>2, <1>3, <2>1, <2>2, QuietOwnerKeeps
    <2>3. CASE /\ commands' = [commands EXCEPT ![g] = Tail(@)]
               /\ UNCHANGED owner \/ Goes(g, "publish")
      <3>1. commands' \in [Generations -> Seq({"write", "shutdown"})]
        <4>1. commands[g] \in Seq({"write", "shutdown"}) /\ commands[g] # <<>>
          BY <1>2, <1>5 DEF Drain
        <4>2. Tail(commands[g]) \in Seq({"write", "shutdown"})
          BY <4>1
        <4> QED BY <1>2, <2>3, <4>2
      <3>2. owner[g] \in OwnerPcs
        BY DEF ConnectionType
      <3>3. Goes(g, owner[g]) \/ Goes(g, "publish")
        BY <1>4, <2>3
      <3> QED BY <1>1, <1>3, <2>1, <3>1, <3>2, <3>3, QuietOwnerKeeps
    <2> QED BY <1>5, <2>2, <2>3 DEF Drain
  <1>6. CASE DrainEmpty(g) \/ ApplyError(g)
    BY <1>1, <1>2, <1>3, <1>6, QuietOwnerKeeps DEF DrainEmpty, ApplyError
  <1>7. CASE CheckCanceled(g) \/ CheckPublish(g)
    BY <1>1, <1>2, <1>3, <1>7, QuietOwnerKeeps DEF CheckCanceled, CheckPublish
  <1>8. CASE ReadServer(g)
    <2>1. UNCHANGED <<force, sent, host>>
      BY <1>8 DEF ReadServer
    <2>2. commands' \in [Generations -> Seq({"write", "shutdown"})]
      BY <1>2, <1>8, CommandTypes DEF ReadServer
    <2>3. \E pc \in OwnerPcs : Goes(g, pc)
      BY <1>3, <1>8 DEF ReadServer
    <2> QED BY <1>1, <2>1, <2>2, <2>3, QuietOwnerKeeps
  <1>9. CASE ApplyMessage(g)
    <2>1. PICK pc \in {"drain", "publish"} : Goes(g, pc)
      BY <1>9 DEF ApplyMessage
    <2>2. commands' \in [Generations -> Seq({"write", "shutdown"})]
      BY <1>2, <1>9 DEF ApplyMessage
    <2>3. active = g
      BY <1>1 DEF SessionInv, OwnerServed
    <2>4. CASE owner[g] = "flushPaint"
      <3>1. PICK full \in BOOLEAN :
               /\ sent' = [sent EXCEPT ![g] = TRUE]
               /\ force' = [force EXCEPT ![g] = FALSE]
               /\ Emit(IF full \/ force[g] \/ ~sent[g] THEN "base" ELSE "update", g)
        BY <1>9, <2>3, <2>4 DEF ApplyMessage
      <3>2. PICK event \in {"base", "update"} : Emit(event, g) /\ (event = "update" => sent[g])
        BY <3>1
      <3>3. force' \in [Generations -> BOOLEAN]
        BY <3>1 DEF ConnectionType
      <3> QED BY <1>1, <1>3, <2>1, <2>2, <3>1, <3>2, <3>3, SpeakingOwnerKeeps
    <2>5. CASE owner[g] # "flushPaint"
      <3>1. UNCHANGED <<force, sent, host>>
        BY <1>9, <2>5 DEF ApplyMessage
      <3> QED BY <1>1, <1>3, <2>1, <2>2, <3>1, QuietOwnerKeeps
    <2> QED BY <2>4, <2>5
  <1>10. CASE Publish(g)
    <2>1. Emit("disconnected", g) /\ Stops(g) /\ UNCHANGED <<force, sent>>
      BY <1>10 DEF Publish
    <2>2. force' \in [Generations -> BOOLEAN]
      BY <2>1 DEF ConnectionType
    <2> QED BY <1>1, <1>2, <1>3, <2>1, <2>2, SpeakingOwnerKeeps
  <1> QED BY <1>5, <1>6, <1>7, <1>8, <1>9, <1>10 DEF Owner

-----------------------------------------------------------------------------
(* The theorems. *)

LEMMA StepKeeps ==
    ASSUME IInv, [Next]_vars
    PROVE  IInv' /\ (vars' # vars => host'.gen >= host.gen)
  <1>1. CASE Next
    BY <1>1, MainKeeps, SessionKeeps, OwnerKeeps DEF Next
  <1>2. CASE UNCHANGED vars
    BY <1>2 DEF vars, control, conns, IInv, TypeOK, ControlType, SessionType, QueueType,
       ConnectionType, SessionInv, AttemptsBounded, Pending, AttemptActive, OwnerServed,
       OwnerFresh, HostBehind, Announced, FramesWhileConnected, LastWord, AnswersMatch
  <1> QED BY <1>1, <1>2

LEMMA Inductive == Spec => []IInv
  <1>1. IInv /\ [Next]_vars => IInv'
    BY StepKeeps
  <1> QED BY <1>1, InitInv, PTL DEF Spec

\* Every reachable state of the helper is well typed, whatever the bounds.
THEOREM TypeInvariant == Spec => []TypeOK
  <1>1. IInv => TypeOK
    BY DEF IInv
  <1> QED BY <1>1, Inductive, PTL

\* The I/O owner of a connection runs only while its generation is the session's
\* current and active one: however requests, cancellations, server messages and
\* reconnects interleave, the join comes before active_generation advances.
THEOREM ConnectionsDoNotOverlap == Spec => []OneOwner
  <1>1. IInv => OneOwner
    BY DEF IInv, SessionInv, OwnerServed, OneOwner
  <1> QED BY <1>1, Inductive, PTL

\* The one event stream that the session thread and the owners share never goes
\* back to an earlier attempt, so a late owner cannot speak after its successor.
THEOREM EventsNeverGoBack == Spec => EventsAscend
  <1>1. IInv /\ [Next]_vars => [host'.gen >= host.gen]_vars
    BY StepKeeps
  <1> QED BY <1>1, Inductive, PTL DEF Spec, EventsAscend

\* The host reads a frame only between Connected and the next status event, and
\* an update only on top of a base frame of that connection.
THEOREM FramesOnlyWhileConnected == Spec => []FramesWhileConnected
  <1>1. IInv => FramesWhileConnected
    BY DEF IInv, SessionInv
  <1> QED BY <1>1, Inductive, PTL

\* connection.rs, main.rs: both together, as the run checks them.
THEOREM OneLiveConnection == Spec => []OneConnection
  <1> QED BY ConnectionsDoNotOverlap, FramesOnlyWhileConnected, PTL DEF OneConnection

\* A session that ends in order has said Disconnected last and has no thread
\* left that could say anything else.
THEOREM DisconnectedLast == Spec => []LastWord
  <1>1. IInv => LastWord
    BY DEF IInv, SessionInv
  <1> QED BY <1>1, Inductive, PTL

\* From the handshake on, the credentials in use answer this attempt's own
\* identity challenge, whatever answers to retired challenges were queued.
THEOREM CredentialsForThisChallenge == Spec => []AnswersMatch
  <1>1. IInv => AnswersMatch
    BY DEF IInv, SessionInv
  <1> QED BY <1>1, Inductive, PTL

\* The actions that ask for a base frame, or withdraw that; all others leave it.
LEMMA ForceChanges ==
    ASSUME TypeOK, [Next]_vars, force' # force
    PROVE  HandleRequest \/ \E g \in Generations : ApplyMessage(g)
  <1>1. CASE Main
    BY <1>1 DEF Main, Read, ReadInput, ReadAnswer, ReadReconnect, ReadClose, ReadEnd, ReadError,
                Cancel, JoinWorker, conns
  <1>2. CASE Session
    <2>1. CASE HandleRequest
      BY <2>1
    <2>2. CASE Complete \/ AnnounceConnected \/ StartReader \/ RequestFirstFrame \/ PollControl
                 \/ RequestTimeout \/ BeginShutdown \/ ForceShutdown \/ JoinOwner \/ Finish
      BY <2>2 DEF Complete, AnnounceConnected, StartReader, RequestFirstFrame, PollControl,
                  RequestTimeout, BeginShutdown, ForceShutdown, JoinOwner, Finish, conns
    <2>3. CASE CheckClose \/ DiscardReconnect \/ InstallAttempt \/ Preflight \/ PollAnswer
                 \/ AnswerTimeout \/ ReceiveAnswer \/ DeferRequest
      BY <2>3 DEF CheckClose, DiscardReconnect, InstallAttempt, Preflight, PollAnswer,
                  AnswerTimeout, ReceiveAnswer, DeferRequest, Interrupted, Failed, conns
    <2> QED BY <1>2, <2>1, <2>2, <2>3 DEF Session
  <1>3. ASSUME NEW g \in Generations, Owner(g)
        PROVE  ApplyMessage(g)
    BY <1>3 DEF Owner, Drain, DrainEmpty, CheckCanceled, ReadServer, ApplyError,
                CheckPublish, Publish
  <1>4. CASE UNCHANGED vars
    BY <1>4 DEF vars, conns
  <1> QED BY <1>1, <1>2, <1>3, <1>4 DEF Next

\* A request for a base frame is withdrawn only by a base frame of the connection, or
\* when its write failed and the session with it: a retired owner, whose message would
\* be applied unseen, does not run any more.
THEOREM RecoveryIsKept == Spec => RecoveryKept
  <1>1. ASSUME IInv, [Next]_vars, NEW g \in Generations, force[g], ~force'[g]
        PROVE  host'.last = "base" \/ spc' = "failed"
    <2>1. TypeOK /\ OneOwner
      BY <1>1 DEF IInv, SessionInv, OwnerServed, OneOwner
    <2>2. force \in [Generations -> BOOLEAN] /\ force' # force
      <3>1. force \in [Generations -> BOOLEAN]
        BY <2>1 DEF TypeOK, ConnectionType
      <3>2. force' # force
        BY ONLY <1>1, Zenon
      <3> QED BY <3>1, <3>2
    <2>3. CASE HandleRequest
      <3> DEFINE request == Head(Backlog)
      <3>1. /\ request.kind # "auth" => request.kind = "frame"
            /\ request.kind # "auth" => force' = [force EXCEPT ![gen] = Accepts(gen)]
        BY <2>2, <2>3 DEF HandleRequest
      <3>2. request.kind # "auth" => ~Accepts(gen)
        BY <1>1, <2>2, <3>1
      <3> QED BY <2>3, <3>1, <3>2 DEF HandleRequest, WriteOrFail
    <2>4. CASE \E h \in Generations : ApplyMessage(h)
      <3>1. PICK h \in Generations : ApplyMessage(h)
        BY <2>4
      <3>2. /\ owner[h] = "flushPaint" /\ force' = [force EXCEPT ![h] = FALSE]
            /\ active = h =>
                 \E full \in BOOLEAN :
                    Emit(IF full \/ force[h] \/ ~sent[h] THEN "base" ELSE "update", h)
        BY <2>2, <3>1 DEF ApplyMessage
      <3>3. h = g
        <4>1. h # g => force'[g] = force[g]
          BY ONLY <1>1, <2>2, <3>2
        <4> QED BY <1>1, <4>1, Zenon
      <3>4. active = h
        BY <2>1, <3>2 DEF OneOwner, Running
      <3>5. Emit("base", h)
        BY <1>1, <3>2, <3>3, <3>4
      <3> QED BY <3>5 DEF Emit, Said
    <2> QED BY <1>1, <2>1, <2>2, <2>3, <2>4, ForceChanges
  <1>2. IInv /\ [Next]_vars =>
           [\A g \in Generations :
               force[g] /\ ~force'[g] => host'.last = "base" \/ spc' = "failed"]_vars
    BY <1>1
  <1> QED BY <1>2, Inductive, PTL DEF Spec, RecoveryKept

-----------------------------------------------------------------------------
(* The requests: queued, deferred, handled. *)

\* An answer waits only in the request queue, behind the older ones, and was
\* given by the host to a challenge it had been shown.
NothingDeferred == \A i \in DOMAIN deferred : deferred[i].kind # "auth"
AnswersAscend ==
    \A i, j \in DOMAIN requests :
        requests[i].kind = "auth" /\ requests[j].kind = "auth" /\ i < j =>
            requests[i].n < requests[j].n
AnswersGiven ==
    \A i \in DOMAIN requests : requests[i].kind = "auth" => requests[i].n <= host.answered
AnsweredSeen == host.answered <= host.seen /\ host.seen <= gen

\* Once an attempt has its credentials, no other answer can still come.
Answered == {"complete", "announce", "spawn"} \cup Serving
AnswerUsed == spc \in Answered => host.answered = gen /\ NoStrayAnswer

HandledWritten == handled <= submitted.inputs

RequestInv == /\ NothingDeferred /\ AnswersAscend /\ AnswersGiven /\ AnsweredSeen
              /\ AnswerUsed /\ HandledWritten /\ InputsInOrder


\* The numbers of requests, by kind.
LEMMA RequestShape ==
    ASSUME NEW r \in Requests
    PROVE  /\ r.n \in Nat
           /\ r.kind # "auth" => r.n \in 1 .. MaxInputs
           /\ r.kind = "auth" => r.n \in Generations
  BY GenerationNumbers, BoundsAssumption DEF Requests, Answers, Inputs

\* What queueing, handling and dropping do to the order of the inputs.
LEMMA OrderAppendInput ==
    ASSUME NEW q \in Seq(Requests), NEW a \in Nat, NEW u \in Nat, a <= u, InOrder(q, a, u),
           NEW r \in Requests, r.kind # "auth", r.n = u + 1
    PROVE  InOrder(Append(q, r), a, u + 1)
  <1> DEFINE p == Append(q, r)
             Wq == {i \in DOMAIN q : q[i].kind # "auth"}
             Wp == {i \in DOMAIN p : p[i].kind # "auth"}
  <1>1. /\ DOMAIN p = 1 .. Len(q) + 1 /\ DOMAIN q = 1 .. Len(q) /\ Len(q) \in Nat
        /\ \A i \in DOMAIN q : p[i] = q[i]
        /\ p[Len(q) + 1] = r
    OBVIOUS
  <1>2. {q[i].n : i \in Wq} = a + 1 .. u /\ \A i, j \in Wq : i < j => q[i].n < q[j].n
    BY DEF InOrder
  <1> HIDE DEF p
  <1>3. Wp = Wq \cup {Len(q) + 1}
    BY <1>1
  <1>4. \A i \in Wq : p[i].n = q[i].n /\ q[i].n \in a + 1 .. u /\ i <= Len(q) /\ i \in Nat
    BY <1>1, <1>2
  <1>5. {p[i].n : i \in Wp} = a + 1 .. u + 1
    <2>1. {p[i].n : i \in Wp} = {p[i].n : i \in Wq} \cup {u + 1}
      BY <1>1, <1>3
    <2>2. {p[i].n : i \in Wq} = a + 1 .. u
      BY <1>2, <1>4
    <2>3. (a + 1 .. u) \cup {u + 1} = a + 1 .. u + 1
      OBVIOUS
    <2> HIDE DEF Wp, Wq
    <2> QED BY ONLY <2>1, <2>2, <2>3
  <1>6. ASSUME NEW i \in Wp, NEW j \in Wp, i < j
        PROVE  p[i].n < p[j].n
    <2> HIDE DEF Wp, Wq
    <2>1. i \in Wq
      BY ONLY <1>1, <1>3, <1>4, <1>6
    <2>2. CASE j \in Wq
      BY ONLY <1>2, <1>4, <1>6, <2>1, <2>2
    <2>3. CASE j = Len(q) + 1
      BY ONLY <1>1, <1>4, <2>1, <2>3, a \in Nat, u \in Nat, r.n = u + 1
    <2> QED BY ONLY <1>3, <1>6, <2>2, <2>3
  <1> QED BY <1>5, <1>6 DEF InOrder, p

LEMMA OrderAppendAnswer ==
    ASSUME NEW q \in Seq(Requests), NEW a \in Nat, NEW u \in Nat, InOrder(q, a, u),
           NEW r \in Requests, r.kind = "auth"
    PROVE  InOrder(Append(q, r), a, u)
  <1> DEFINE p == Append(q, r)
             Wq == {i \in DOMAIN q : q[i].kind # "auth"}
             Wp == {i \in DOMAIN p : p[i].kind # "auth"}
  <1>1. /\ DOMAIN p = 1 .. Len(q) + 1 /\ DOMAIN q = 1 .. Len(q) /\ Len(q) \in Nat
        /\ \A i \in DOMAIN q : p[i] = q[i]
        /\ p[Len(q) + 1] = r
    OBVIOUS
  <1> HIDE DEF p
  <1>2. Wp = Wq
    BY <1>1
  <1>3. \A i \in Wq : p[i] = q[i]
    BY <1>1
  <1> HIDE DEF Wp, Wq
  <1>4. {q[i].n : i \in Wq} = a + 1 .. u /\ \A i, j \in Wq : i < j => q[i].n < q[j].n
    BY DEF InOrder, Wq
  <1>5. {p[i].n : i \in Wp} = a + 1 .. u /\ \A i, j \in Wp : i < j => p[i].n < p[j].n
    BY ONLY <1>2, <1>3, <1>4
  <1> QED BY <1>5 DEF InOrder, p, Wp

LEMMA OrderTail ==
    ASSUME NEW q \in Seq(Requests), NEW a \in Nat, NEW u \in Nat, InOrder(q, a, u),
           q # <<>>, Head(q).kind # "auth"
    PROVE  /\ Head(q).n = a + 1 /\ a + 1 <= u
           /\ InOrder(Tail(q), a + 1, u)
  <1> DEFINE p == Tail(q)
             Wq == {i \in DOMAIN q : q[i].kind # "auth"}
             Wp == {i \in DOMAIN p : p[i].kind # "auth"}
  <1>1. /\ Len(q) \in Nat \ {0} /\ DOMAIN q = 1 .. Len(q) /\ DOMAIN p = 1 .. Len(q) - 1
        /\ \A i \in DOMAIN p : p[i] = q[i + 1]
        /\ Head(q) = q[1]
    OBVIOUS
  <1>2. {q[i].n : i \in Wq} = a + 1 .. u /\ \A i, j \in Wq : i < j => q[i].n < q[j].n
    BY DEF InOrder
  <1>3. 1 \in Wq /\ \A i \in Wq : i \in Nat /\ 1 <= i
    BY <1>1
  <1> HIDE DEF p
  <1>4. Wq = {1} \cup {i + 1 : i \in Wp}
    <2>1. \A i \in Wq \ {1} : i - 1 \in Wp
      BY <1>1
    <2>2. \A i \in Wp : i + 1 \in Wq /\ i \in Nat
      BY <1>1
    <2> QED BY <1>3, <2>1, <2>2
  <1>5. \A i \in Wp : p[i].n = q[i + 1].n /\ i \in Nat /\ 1 <= i /\ i + 1 \in Wq
    BY <1>1
  <1> HIDE DEF Wp, Wq
  <1>6. \A i \in Wq : q[i].n \in a + 1 .. u
    BY <1>2
  <1>7. q[1].n = a + 1 /\ a + 1 <= u
    <2>1. q[1].n \in a + 1 .. u
      BY <1>3, <1>6
    <2>2. a + 1 \in a + 1 .. u
      BY <2>1
    <2>3. PICK i \in Wq : q[i].n = a + 1
      BY <1>2, <2>2
    <2>4. i = 1 \/ q[1].n < a + 1
      BY ONLY <1>2, <1>3, <2>3
    <2> QED BY <2>1, <2>4, <2>3
  <1>8. {p[i].n : i \in Wp} = a + 1 + 1 .. u
    <2>1. ASSUME NEW i \in Wp PROVE p[i].n \in a + 1 + 1 .. u
      <3>1. q[i + 1].n \in a + 1 .. u /\ q[1].n < q[i + 1].n
        BY <1>2, <1>3, <1>5, <1>6
      <3> QED BY ONLY <1>5, <1>7, <3>1, a \in Nat, u \in Nat
    <2>2. ASSUME NEW n \in a + 1 + 1 .. u PROVE \E i \in Wp : p[i].n = n
      <3>1. PICK j \in Wq : q[j].n = n
        BY <1>2
      <3>2. j # 1
        BY <1>7, <3>1
      <3>3. PICK i \in Wp : j = i + 1
        BY <1>4, <3>2
      <3> QED BY <1>5, <3>1, <3>3
    <2> QED BY <2>1, <2>2
  <1>9. ASSUME NEW i \in Wp, NEW j \in Wp, i < j
        PROVE  p[i].n < p[j].n
    <2>1. i + 1 \in Wq /\ j + 1 \in Wq /\ i + 1 < j + 1
      BY ONLY <1>5, <1>9
    <2>2. q[i + 1].n < q[j + 1].n
      BY ONLY <1>2, <2>1
    <2> QED BY ONLY <1>5, <1>9, <2>2
  <1>10. InOrder(p, a + 1, u)
    BY ONLY <1>8, <1>9 DEF InOrder, Wp
  <1> QED BY <1>1, <1>7, <1>10 DEF p

LEMMA ConcatShape ==
    ASSUME NEW S, NEW s \in Seq(S), NEW t \in Seq(S)
    PROVE  /\ s \o t \in Seq(S) /\ Len(s \o t) = Len(s) + Len(t)
           /\ DOMAIN (s \o t) = 1 .. Len(s) + Len(t)
           /\ \A i \in 1 .. Len(s) + Len(t) :
                 (s \o t)[i] = IF i <= Len(s) THEN s[i] ELSE t[i - Len(s)]
  OBVIOUS

LEMMA OrderDrop ==
    ASSUME NEW d \in Seq(Requests), NEW q \in Seq(Requests), NEW a \in Nat, NEW u \in Nat,
           InOrder(d \o q, a, u), q # <<>>, Head(q).kind = "auth"
    PROVE  InOrder(d \o Tail(q), a, u)
  <1> DEFINE old == d \o q
             new == d \o Tail(q)
             Wo == {i \in DOMAIN old : old[i].kind # "auth"}
             Wn == {i \in DOMAIN new : new[i].kind # "auth"}
             place(i) == IF i <= Len(d) THEN i ELSE i + 1
  <1>1. /\ Len(d) \in Nat /\ Len(q) \in Nat \ {0}
        /\ DOMAIN old = 1 .. Len(d) + Len(q) /\ DOMAIN new = 1 .. Len(d) + Len(q) - 1
        /\ old[Len(d) + 1].kind = "auth"
        /\ \A i \in DOMAIN new : new[i] = old[place(i)]
    <2>1. /\ Len(d) \in Nat /\ Len(q) \in Nat \ {0} /\ Head(q) = q[1]
          /\ Tail(q) \in Seq(Requests) /\ Len(Tail(q)) = Len(q) - 1
          /\ \A i \in 1 .. Len(q) - 1 : Tail(q)[i] = q[i + 1]
      OBVIOUS
    <2>2. /\ DOMAIN old = 1 .. Len(d) + Len(q)
          /\ \A i \in 1 .. Len(d) + Len(q) :
                old[i] = IF i <= Len(d) THEN d[i] ELSE q[i - Len(d)]
      BY ConcatShape
    <2>3. /\ DOMAIN new = 1 .. Len(d) + Len(Tail(q))
          /\ \A i \in 1 .. Len(d) + Len(Tail(q)) :
                new[i] = IF i <= Len(d) THEN d[i] ELSE Tail(q)[i - Len(d)]
      BY <2>1, ConcatShape
    <2> HIDE DEF old, new
    <2>4. DOMAIN new = 1 .. Len(d) + Len(q) - 1
      BY ONLY <2>1, <2>3
    <2>5. old[Len(d) + 1] = q[1]
      BY ONLY <2>1, <2>2
    <2>6. ASSUME NEW i \in DOMAIN new PROVE new[i] = old[place(i)]
      <3>1. i \in 1 .. Len(d) + Len(q) - 1
        BY ONLY <2>4, <2>6
      <3>2. CASE i <= Len(d)
        BY ONLY <2>1, <2>2, <2>3, <3>1, <3>2
      <3>3. CASE i > Len(d)
        <4>1. i - Len(d) \in 1 .. Len(q) - 1 /\ i + 1 \in 1 .. Len(d) + Len(q)
              /\ i - Len(d) + 1 = i + 1 - Len(d) /\ ~(i <= Len(d)) /\ ~(i + 1 <= Len(d))
          BY ONLY <2>1, <3>1, <3>3
        <4>2. new[i] = Tail(q)[i - Len(d)]
          BY ONLY <2>1, <2>3, <3>1, <4>1
        <4>3. Tail(q)[i - Len(d)] = q[i - Len(d) + 1]
          BY ONLY <2>1, <4>1
        <4>4. old[i + 1] = q[i + 1 - Len(d)]
          BY ONLY SMTT(20), <2>1, <2>2, <3>1, <4>1
        <4> QED BY ONLY <4>1, <4>2, <4>3, <4>4
      <3> QED BY ONLY <2>1, <3>1, <3>2, <3>3
    <2> QED BY <2>1, <2>2, <2>4, <2>5, <2>6
  <1>2. {old[i].n : i \in Wo} = a + 1 .. u /\ \A i, j \in Wo : i < j => old[i].n < old[j].n
    BY DEF InOrder
  <1> HIDE DEF old, new
  <1>3. \A i \in Wn : place(i) \in Wo /\ new[i].n = old[place(i)].n
    BY <1>1
  <1>4. \A i \in Wo : \E j \in Wn : place(j) = i
    <2>1. ASSUME NEW i \in Wo PROVE \E j \in Wn : place(j) = i
      <3>1. i # Len(d) + 1
        BY <1>1
      <3>2. CASE i <= Len(d)
        <4>1. i \in Wn /\ place(i) = i
          BY <1>1, <3>2
        <4> QED BY <4>1
      <3>3. CASE i > Len(d) + 1
        <4>1. i - 1 \in DOMAIN new /\ place(i - 1) = i
          BY <1>1, <3>3
        <4>2. i - 1 \in Wn
          BY <1>1, <4>1
        <4> QED BY <4>1, <4>2
      <3> QED BY <1>1, <3>1, <3>2, <3>3
    <2> QED BY <2>1
  <1>5. \A i, j \in Wn : i < j => place(i) < place(j)
    BY <1>1
  <1> HIDE DEF Wo, Wn, place
  <1>6. {new[i].n : i \in Wn} = a + 1 .. u
    <2>1. \A i \in Wn : new[i].n \in {old[j].n : j \in Wo}
      BY ONLY <1>3
    <2>2. \A j \in Wo : old[j].n \in {new[i].n : i \in Wn}
      BY ONLY <1>3, <1>4
    <2>3. {new[i].n : i \in Wn} = {old[j].n : j \in Wo}
      BY ONLY <2>1, <2>2
    <2> QED BY <1>2, <2>3
  <1>7. \A i, j \in Wn : i < j => new[i].n < new[j].n
    BY ONLY <1>2, <1>3, <1>5
  <1> QED BY ONLY <1>6, <1>7 DEF InOrder, Wn, new

\* What a step that moves no request and shows no challenge keeps.
LEMMA UnmovedKeeps ==
    ASSUME IInv, RequestInv, UNCHANGED <<requests, deferred, handled, submitted>>,
           host'.answered = host.answered, host'.seen = host.seen, gen' \in Nat, gen' >= gen,
           Alive' => Alive,
           spc' \in Answered => spc \in Answered /\ gen' = gen
    PROVE  RequestInv'
  <1>1. gen \in Nat /\ host.seen \in Nat
    BY GenerationNumbers, BoundsAssumption DEF IInv, TypeOK, SessionType, HostViews
  <1> QED BY <1>1 DEF RequestInv, NothingDeferred, AnswersAscend, AnswersGiven, AnsweredSeen,
          AnswerUsed, HandledWritten, InputsInOrder, NoStrayAnswer, Answered, Backlog

LEMMA AppendedAcross ==
    ASSUME NEW S, NEW d \in Seq(S), NEW q \in Seq(S), NEW r \in S
    PROVE  d \o q \in Seq(S) /\ d \o Append(q, r) = Append(d \o q, r)
  <1>1. d \o q \in Seq(S) /\ Append(q, r) \in Seq(S) /\ d \o Append(q, r) \in Seq(S)
        /\ Append(d \o q, r) \in Seq(S)
    OBVIOUS
  <1>2. Len(d \o Append(q, r)) = Len(Append(d \o q, r))
    OBVIOUS
  <1>3. ASSUME NEW i \in 1 .. Len(Append(d \o q, r))
        PROVE  (d \o Append(q, r))[i] = Append(d \o q, r)[i]
    OBVIOUS
  <1> DEFINE left == d \o Append(q, r)
             right == Append(d \o q, r)
  <1> HIDE DEF left, right
  <1>4. left \in Seq(S) /\ right \in Seq(S) /\ Len(left) = Len(right)
        /\ \A i \in 1 .. Len(right) : left[i] = right[i]
    BY <1>1, <1>2, <1>3 DEF left, right
  <1>5. left = right
    BY ONLY <1>4, SeqEqual
  <1> QED BY <1>1, <1>5 DEF left, right

\* A request queued by the main thread ends the backlog.
LEMMA QueuedKeeps ==
    ASSUME IInv, RequestInv, NEW r \in Requests, requests' = Append(requests, r),
           UNCHANGED <<spc, gen, deferred, handled>>, Alive,
           IF r.kind = "auth"
           THEN /\ r.n > host.answered /\ r.n <= host.seen
                /\ host'.answered = r.n /\ host'.seen = host.seen
                /\ submitted' = submitted
           ELSE /\ r.n = submitted.inputs + 1 /\ host' = host
                /\ submitted'.inputs = submitted.inputs + 1
    PROVE  RequestInv'
  <1>1. /\ requests \in Seq(Requests) /\ deferred \in Seq(Requests)
        /\ handled \in Nat /\ submitted.inputs \in Nat /\ gen \in Nat
        /\ host.answered \in Nat /\ host.seen \in Nat /\ r.n \in Nat
    BY GenerationNumbers, BoundsAssumption, RequestShape
       DEF IInv, TypeOK, QueueType, SessionType, HostViews
  <1>2. Backlog \in Seq(Requests) /\ Backlog' = Append(Backlog, r)
    <2>1. Backlog = deferred \o requests /\ Backlog' = deferred \o Append(requests, r)
      BY DEF Backlog
    <2>2. \A S : \A d, q \in Seq(S), x \in S :
             d \o q \in Seq(S) /\ d \o Append(q, x) = Append(d \o q, x)
      BY ONLY AppendedAcross
    <2>3. requests' = Append(requests, r) /\ r \in Requests
      OBVIOUS
    <2> QED BY ONLY <1>1, <2>1, <2>2, <2>3
  <1>3. /\ DOMAIN requests' = 1 .. Len(requests) + 1 /\ DOMAIN requests = 1 .. Len(requests)
        /\ Len(requests) \in Nat /\ requests'[Len(requests) + 1] = r
        /\ \A i \in DOMAIN requests : requests'[i] = requests[i]
    BY <1>1
  <1>4. /\ DOMAIN Backlog' = 1 .. Len(Backlog) + 1 /\ DOMAIN Backlog = 1 .. Len(Backlog)
        /\ Len(Backlog) \in Nat /\ Backlog'[Len(Backlog) + 1] = r
        /\ \A i \in DOMAIN Backlog : Backlog'[i] = Backlog[i]
    BY <1>2
  <1>5. \A i \in DOMAIN requests : requests[i].n \in Nat
    BY <1>1, RequestShape
  <1>6. NothingDeferred' /\ HandledWritten'
    BY <1>1 DEF RequestInv, NothingDeferred, HandledWritten
  <1>7. AnsweredSeen' /\ AnswersGiven'
    BY <1>1, <1>3, <1>5 DEF RequestInv, AnsweredSeen, AnswersGiven
  <1>8. AnswersAscend'
    BY <1>1, <1>3, <1>5 DEF RequestInv, AnswersGiven, AnswersAscend
  <1>9. AnswerUsed'
    <2>1. spc \in Answered => r.kind # "auth" /\ host.answered = gen /\ NoStrayAnswer
      BY <1>1 DEF RequestInv, AnswerUsed, AnsweredSeen
    <2>2. ASSUME spc \in Answered
          PROVE  host' = host /\ \A i \in DOMAIN Backlog' : Backlog'[i].kind # "auth"
      <3>1. \A i \in DOMAIN Backlog : Backlog[i].kind # "auth"
        BY <2>1, <2>2 DEF NoStrayAnswer, Answered
      <3> QED BY <1>4, <2>1, <2>2, <3>1
    <2> QED BY <2>1, <2>2 DEF AnswerUsed, NoStrayAnswer, Answered
  <1>10. InOrder(Backlog, handled, submitted.inputs)
    BY DEF RequestInv, InputsInOrder
  <1>11. InOrder(Backlog', handled, submitted'.inputs)
    <2>1. CASE r.kind = "auth"
      BY <1>1, <1>2, <1>10, <2>1, OrderAppendAnswer
    <2>2. CASE r.kind # "auth"
      BY <1>1, <1>2, <1>10, <2>2, OrderAppendInput DEF RequestInv, HandledWritten
    <2> QED BY <2>1, <2>2
  <1>12. InputsInOrder'
    BY <1>11 DEF InputsInOrder
  <1> QED BY <1>6, <1>7, <1>8, <1>9, <1>12 DEF RequestInv

LEMMA MainKeepsRequests ==
    ASSUME IInv, RequestInv, Main
    PROVE  RequestInv'
  <1>1. /\ gen \in Nat /\ MaxInputs \in Nat /\ submitted.inputs \in Nat /\ host \in HostViews
    BY GenerationNumbers, BoundsAssumption DEF IInv, TypeOK, QueueType, SessionType
  <1>2. ASSUME NEW kind \in {"input", "frame"}, ReadInput(kind)
        PROVE  RequestInv'
    <2> DEFINE r == [kind |-> kind, n |-> submitted.inputs + 1]
    <2>1. r \in Requests /\ r.kind # "auth" /\ r.n = submitted.inputs + 1
      BY <1>1, <1>2 DEF ReadInput, Requests, Inputs
    <2>2. submitted'.inputs = submitted.inputs + 1
      BY <1>2 DEF ReadInput, IInv, TypeOK, QueueType
    <2>3. QueueRequest(r) /\ UNCHANGED <<spc, gen, deferred, handled, host>> /\ Alive
      BY <1>2 DEF ReadInput, Alive
    <2> HIDE DEF r
    <2>4. CASE requests' = Append(requests, r)
      BY <2>1, <2>2, <2>3, <2>4, QueuedKeeps
    <2>5. CASE mainPc' = "exited" /\ UNCHANGED requests
      <3>1. handled \in Nat
        BY BoundsAssumption DEF IInv, TypeOK, QueueType
      <3> QED BY <1>1, <2>2, <2>3, <2>5, <3>1 DEF RequestInv, NothingDeferred, AnswersAscend, AnswersGiven,
            AnsweredSeen, AnswerUsed, HandledWritten, InputsInOrder, NoStrayAnswer, Backlog, Alive
    <2> QED BY <2>3, <2>4, <2>5 DEF QueueRequest
  <1>3. ASSUME NEW g \in Generations, ReadAnswer(g)
        PROVE  RequestInv'
    <2> DEFINE r == [kind |-> "auth", n |-> g]
    <2>1. r \in Requests /\ r.kind = "auth" /\ r.n = g
      BY DEF Requests, Answers
    <2>2. host'.answered = g /\ host'.seen = host.seen /\ g > host.answered /\ g <= host.seen
      BY <1>1, <1>3 DEF ReadAnswer, HostViews
    <2>3. /\ QueueRequest(r) /\ Alive
          /\ UNCHANGED <<spc, gen, deferred, handled, submitted>>
      BY <1>3 DEF ReadAnswer, Alive
    <2> HIDE DEF r
    <2>4. CASE requests' = Append(requests, r)
      BY <2>1, <2>2, <2>3, <2>4, QueuedKeeps
    <2>5. CASE mainPc' = "exited" /\ UNCHANGED requests
      <3>1. /\ host.answered \in Nat /\ host.seen \in Nat /\ g \in Nat
            /\ \A i \in DOMAIN requests : requests[i].n \in Nat
        BY <1>1, GenerationNumbers, BoundsAssumption, RequestShape
           DEF HostViews, IInv, TypeOK, QueueType
      <3>2. NothingDeferred' /\ AnswersAscend' /\ AnswersGiven' /\ AnsweredSeen'
        BY <1>1, <2>2, <2>3, <2>5, <3>1 DEF RequestInv, NothingDeferred, AnswersAscend,
           AnswersGiven, AnsweredSeen
      <3>3. AnswerUsed'
        BY <1>1, <2>2, <2>3, <2>5, <3>1 DEF RequestInv, AnsweredSeen, AnswerUsed
      <3>4. HandledWritten' /\ InputsInOrder'
        BY <2>3, <2>5 DEF RequestInv, HandledWritten, InputsInOrder, Alive
      <3> QED BY <3>2, <3>3, <3>4 DEF RequestInv
    <2> QED BY <2>3, <2>4, <2>5 DEF QueueRequest
  <1>4. CASE ReadReconnect
    <2>1. submitted'.inputs = submitted.inputs
      BY <1>4 DEF ReadReconnect, IInv, TypeOK, QueueType
    <2> QED BY <1>4, <2>1 DEF ReadReconnect, RequestInv, NothingDeferred, AnswersAscend,
            AnswersGiven, AnsweredSeen, AnswerUsed, HandledWritten, InputsInOrder, NoStrayAnswer,
            Backlog, Alive
  <1>5. CASE ReadClose \/ ReadEnd \/ ReadError \/ Cancel \/ JoinWorker
    <2>1. /\ UNCHANGED <<requests, deferred, handled, submitted, host, gen, spc>>
          /\ Alive
      BY <1>5 DEF ReadClose, ReadEnd, ReadError, Cancel, JoinWorker, Alive
    <2> QED BY <1>1, <2>1, UnmovedKeeps
  <1> QED BY <1>2, <1>3, <1>4, <1>5 DEF Main, Read

\* Moving the first element of a queue to the end of another keeps them in order.
LEMMA MovedAcross ==
    ASSUME NEW S, NEW d \in Seq(S), NEW q \in Seq(S), q # <<>>
    PROVE  Append(d, Head(q)) \o Tail(q) = d \o q
  <1> DEFINE front == Append(d, Head(q))
             rest  == Tail(q)
             new   == front \o rest
             old   == d \o q
  <1>1. /\ front \in Seq(S) /\ rest \in Seq(S) /\ Len(d) \in Nat /\ Len(q) \in Nat \ {0}
        /\ Len(front) = Len(d) + 1 /\ Len(rest) = Len(q) - 1
    OBVIOUS
  <1>2. /\ \A i \in 1 .. Len(d) : front[i] = d[i]
        /\ front[Len(d) + 1] = q[1]
        /\ \A i \in 1 .. Len(q) - 1 : rest[i] = q[i + 1]
    OBVIOUS
  <1> HIDE DEF front, rest
  <1>3. /\ new \in Seq(S) /\ Len(new) = Len(d) + Len(q)
        /\ \A i \in 1 .. Len(new) :
              new[i] = IF i <= Len(front) THEN front[i] ELSE rest[i - Len(front)]
    <2>1. /\ new \in Seq(S) /\ Len(new) = Len(front) + Len(rest)
          /\ \A i \in 1 .. Len(front) + Len(rest) :
                new[i] = IF i <= Len(front) THEN front[i] ELSE rest[i - Len(front)]
      BY <1>1, ConcatShape
    <2> HIDE DEF new
    <2>2. Len(front) + Len(rest) = Len(d) + Len(q)
      BY ONLY <1>1
    <2> QED BY ONLY <2>1, <2>2
  <1>4. /\ old \in Seq(S) /\ Len(old) = Len(d) + Len(q)
        /\ \A i \in 1 .. Len(old) : old[i] = IF i <= Len(d) THEN d[i] ELSE q[i - Len(d)]
    BY <1>1
  <1> HIDE DEF new, old
  <1>5. ASSUME NEW i \in 1 .. Len(new) PROVE new[i] = old[i]
    <2>1. CASE i <= Len(d)
      <3>1. i \in 1 .. Len(d) /\ i <= Len(front) /\ i \in 1 .. Len(old)
        BY <1>1, <1>3, <1>4, <2>1
      <3>2. new[i] = front[i] /\ old[i] = d[i]
        BY ONLY <1>3, <1>4, <1>5, <2>1, <3>1
      <3> QED BY ONLY <1>2, <3>1, <3>2
    <2>2. CASE i = Len(d) + 1
      BY ONLY <1>1, <1>2, <1>3, <1>4, <2>2
    <2>3. CASE i > Len(d) + 1
      <3>1. new[i] = rest[i - Len(front)] /\ old[i] = q[i - Len(d)]
        BY ONLY <1>1, <1>3, <1>4, <2>3
      <3>2. i - Len(front) \in 1 .. Len(q) - 1 /\ i - Len(front) + 1 = i - Len(d)
        BY ONLY <1>1, <1>3, <2>3
      <3> QED BY ONLY <1>2, <3>1, <3>2
    <2> QED BY <1>1, <2>1, <2>2, <2>3
  <1>6. new = old
    BY ONLY <1>3, <1>4, <1>5, SeqEqual
  <1> QED BY <1>6 DEF new, old, front, rest

\* Taking the first request leaves the order of the answers behind it.
LEMMA TakenKeepsAnswers ==
    ASSUME AnswersAscend, AnswersGiven, requests \in Seq(Requests), requests # <<>>,
           requests' = Tail(requests), host'.answered = host.answered
    PROVE  AnswersAscend' /\ AnswersGiven'
  <1>1. \A i \in DOMAIN requests' :
           i \in Nat /\ i + 1 \in DOMAIN requests /\ requests'[i] = requests[i + 1]
    OBVIOUS
  <1>2. \A i, j \in DOMAIN requests' : i < j => i + 1 < j + 1
    BY <1>1
  <1>3. AnswersGiven'
    BY ONLY <1>1, AnswersGiven, host'.answered = host.answered DEF AnswersGiven
  <1>4. AnswersAscend'
    BY ONLY <1>1, <1>2, AnswersAscend DEF AnswersAscend
  <1> QED BY <1>3, <1>4

\* A deferred request leaves the backlog as it was.
LEMMA DeferKeeps ==
    ASSUME IInv, RequestInv, DeferRequest
    PROVE  RequestInv'
  <1> DEFINE r == Head(requests)
             rest == Tail(requests)
  <1>1. /\ requests \in Seq(Requests) /\ deferred \in Seq(Requests) /\ requests # <<>>
        /\ r.kind # "auth"
        /\ requests' = rest /\ deferred' = Append(deferred, r)
        /\ UNCHANGED <<gen, host, submitted, handled, mainPc>>
        /\ spc' = "auth"
    BY DEF DeferRequest, IInv, TypeOK, QueueType
  <1>2. /\ Len(requests) \in Nat \ {0} /\ DOMAIN requests = 1 .. Len(requests)
        /\ r = requests[1] /\ r \in Requests
        /\ rest \in Seq(Requests) /\ DOMAIN rest = 1 .. Len(requests) - 1
        /\ Len(rest) = Len(requests) - 1
        /\ \A i \in DOMAIN rest : rest[i] = requests[i + 1]
    BY <1>1
  <1> HIDE DEF r, rest
  <1>3. /\ Len(deferred) \in Nat /\ DOMAIN deferred = 1 .. Len(deferred)
        /\ Append(deferred, r) \in Seq(Requests)
        /\ DOMAIN Append(deferred, r) = 1 .. Len(deferred) + 1
        /\ Len(Append(deferred, r)) = Len(deferred) + 1
        /\ Append(deferred, r)[Len(deferred) + 1] = r
        /\ \A i \in DOMAIN deferred : Append(deferred, r)[i] = deferred[i]
    BY <1>1, <1>2
  <1>4. Append(deferred, r) \o rest = deferred \o requests
    BY <1>1, MovedAcross DEF r, rest
  <1>5. Backlog' = Backlog
    BY <1>1, <1>4 DEF Backlog
  <1>6. InputsInOrder' /\ HandledWritten'
    BY <1>1, <1>5 DEF RequestInv, InputsInOrder, HandledWritten, Alive
  <1>7. NothingDeferred'
    BY <1>1, <1>3 DEF RequestInv, NothingDeferred
  <1>8. AnswersAscend' /\ AnswersGiven'
    BY <1>1, TakenKeepsAnswers DEF RequestInv, rest
  <1>9. AnsweredSeen' /\ AnswerUsed'
    BY <1>1 DEF RequestInv, AnsweredSeen, AnswerUsed, Answered, Serving
  <1> QED BY <1>6, <1>7, <1>8, <1>9 DEF RequestInv

\* An answer leaves the queue: if it is this attempt's, it was the last.
LEMMA ReceiveKeeps ==
    ASSUME IInv, RequestInv, ReceiveAnswer
    PROVE  RequestInv'
  <1> DEFINE r == Head(requests)
             rest == Tail(requests)
  <1>1. /\ requests \in Seq(Requests) /\ deferred \in Seq(Requests) /\ requests # <<>>
        /\ r.kind = "auth"
        /\ requests' = rest
        /\ UNCHANGED <<gen, deferred, submitted, handled, mainPc>>
        /\ spc' \in {"auth", "top", "finish", "complete"}
        /\ host'.answered = host.answered /\ host'.seen = host.seen
        /\ spc' = "complete" => r.n = gen
        /\ handled \in Nat /\ submitted.inputs \in Nat
        /\ gen \in Nat /\ host.answered \in Nat /\ host.seen \in Nat
    BY SMTT(20), GenerationNumbers, BoundsAssumption DEF ReceiveAnswer, Interrupted, Failed, Emit, Said,
       IInv, TypeOK, QueueType, SessionType, HostViews
  <1>2. /\ Len(requests) \in Nat \ {0} /\ DOMAIN requests = 1 .. Len(requests)
        /\ r = requests[1] /\ r \in Requests
        /\ rest \in Seq(Requests) /\ DOMAIN rest = 1 .. Len(requests) - 1
        /\ Len(rest) = Len(requests) - 1
        /\ \A i \in DOMAIN rest : rest[i] = requests[i + 1] /\ rest[i].n \in Nat
    BY <1>1, RequestShape
  <1>3. InputsInOrder' /\ HandledWritten'
    <2>1. Alive' => Alive
      BY <1>1 DEF Alive
    <2>2. Alive => InOrder(deferred \o requests, handled, submitted.inputs)
      BY DEF RequestInv, InputsInOrder, Backlog
    <2>3. Alive => InOrder(deferred \o rest, handled, submitted.inputs)
      BY <1>1, <2>2, OrderDrop
    <2> QED BY <1>1, <2>1, <2>3 DEF RequestInv, InputsInOrder, Backlog, HandledWritten
  <1> HIDE DEF r, rest
  <1>4. NothingDeferred' /\ AnsweredSeen'
    BY <1>1 DEF RequestInv, NothingDeferred, AnsweredSeen
  <1>5. AnswersAscend' /\ AnswersGiven'
    BY <1>1, TakenKeepsAnswers DEF RequestInv, rest
  <1>6. ASSUME spc' \in Answered
        PROVE  host'.answered = gen' /\ \A i \in DOMAIN Backlog' : Backlog'[i].kind # "auth"
    <2>1. spc' = "complete" /\ r.n = gen
      BY <1>1, <1>6 DEF Answered, Serving
    <2>2. host.answered = gen
      BY <1>1, <1>2, <2>1 DEF RequestInv, AnswersGiven, AnsweredSeen
    <2>3. ASSUME NEW i \in DOMAIN rest PROVE rest[i].kind # "auth"
      <3>1. SUFFICES ASSUME rest[i].kind = "auth" PROVE FALSE
        OBVIOUS
      <3>2. /\ i + 1 \in DOMAIN requests /\ 1 \in DOMAIN requests /\ 1 < i + 1
            /\ rest[i] = requests[i + 1] /\ rest[i].n \in Nat
        BY <1>2
      <3>3. r.n < rest[i].n /\ rest[i].n <= host.answered
        BY <1>1, <1>2, <3>1, <3>2 DEF RequestInv, AnswersAscend, AnswersGiven
      <3> QED BY <1>1, <2>1, <2>2, <3>2, <3>3
    <2>4. \A i \in DOMAIN deferred : deferred[i].kind # "auth"
      BY DEF RequestInv, NothingDeferred
    <2>5. \A i \in DOMAIN (deferred \o rest) : (deferred \o rest)[i].kind # "auth"
      BY <1>1, <1>2, <2>3, <2>4
    <2> QED BY <1>1, <2>2, <2>5 DEF Backlog
  <1>7. AnswerUsed'
    BY <1>6 DEF AnswerUsed, NoStrayAnswer, Answered
  <1> QED BY <1>3, <1>4, <1>5, <1>7 DEF RequestInv

\* The connected loop takes the head of the backlog.
LEMMA HandleKeeps ==
    ASSUME IInv, RequestInv, HandleRequest
    PROVE  RequestInv'
  <1> DEFINE r == Head(Backlog)
  <1>1. /\ requests \in Seq(Requests) /\ deferred \in Seq(Requests)
        /\ Backlog \in Seq(Requests) /\ Backlog # <<>>
        /\ Alive /\ spc = "recv" /\ TakeRequest
        /\ UNCHANGED <<gen, submitted, host, mainPc>>
        /\ spc' \in {"connected", "failed"}
        /\ r.kind # "auth" => handled' = r.n
        /\ handled \in Nat /\ submitted.inputs \in Nat
    BY BoundsAssumption, BacklogTypes DEF HandleRequest, WriteOrFail, IInv, TypeOK, QueueType
  <1>2. /\ host.answered = gen
        /\ \A i \in DOMAIN Backlog : Backlog[i].kind # "auth"
    BY <1>1 DEF RequestInv, AnswerUsed, Answered, NoStrayAnswer, Serving
  <1>3. r.kind # "auth"
    BY <1>1, <1>2
  <1>4. Backlog' = Tail(Backlog)
    <2>1. CASE deferred # <<>>
      <3>1. deferred' = Tail(deferred) /\ requests' = requests
        BY <1>1, <2>1 DEF TakeRequest
      <3>2. Tail(deferred) \o requests = Tail(deferred \o requests)
        <4> DEFINE new == Tail(deferred) \o requests
                   old == Tail(deferred \o requests)
        <4>1. new \in Seq(Requests) /\ old \in Seq(Requests) /\ Len(new) = Len(old)
              /\ Len(new) = Len(deferred) + Len(requests) - 1 /\ Len(deferred) \in Nat \ {0}
              /\ Len(requests) \in Nat
          BY <1>1, <2>1
        <4>2. ASSUME NEW i \in 1 .. Len(new) PROVE new[i] = old[i]
          <5>1. old[i] = (deferred \o requests)[i + 1]
            BY <1>1, <2>1, <4>1
          <5>2. CASE i < Len(deferred)
            BY <1>1, <2>1, <4>1, <5>1, <5>2
          <5>3. CASE i >= Len(deferred)
            <6>1. new[i] = requests[i - (Len(deferred) - 1)]
              BY <1>1, <2>1, <4>1, <5>3
            <6>2. (deferred \o requests)[i + 1] = requests[i + 1 - Len(deferred)]
              BY <1>1, <2>1, <4>1, <5>3
            <6> QED BY <4>1, <5>1, <6>1, <6>2
          <5> QED BY <4>1, <5>2, <5>3
        <4> HIDE DEF new, old
        <4>3. new = old
          BY <4>1, <4>2, SeqEqual
        <4> QED BY <4>3 DEF new, old
      <3> QED BY <3>1, <3>2 DEF Backlog
    <2>2. CASE deferred = <<>>
      <3>1. requests' = Tail(requests) /\ deferred' = <<>>
        BY <1>1, <2>2 DEF TakeRequest
      <3>2. Backlog = requests /\ Backlog' = requests'
        BY <1>1, <2>2, <3>1 DEF Backlog
      <3> QED BY <3>1, <3>2
    <2> QED BY <2>1, <2>2
  <1> HIDE DEF r
  <1>5. /\ r.n = handled + 1 /\ handled + 1 <= submitted.inputs
        /\ InOrder(Tail(Backlog), handled + 1, submitted.inputs)
    <2>1. InOrder(Backlog, handled, submitted.inputs)
      BY <1>1 DEF RequestInv, InputsInOrder
    <2>2. Head(Backlog).kind # "auth"
      BY <1>3 DEF r
    <2> QED BY ONLY <1>1, <2>1, <2>2, OrderTail DEF r
  <1>6. InputsInOrder' /\ HandledWritten'
    BY <1>1, <1>3, <1>4, <1>5 DEF InputsInOrder, HandledWritten
  <1>7. NothingDeferred' /\ AnswersAscend' /\ AnswersGiven'
    <2>1. CASE deferred # <<>>
      <3>1. deferred' = Tail(deferred) /\ requests' = requests
        BY <1>1, <2>1 DEF TakeRequest
      <3>2. \A i \in DOMAIN deferred' : i + 1 \in DOMAIN deferred /\ deferred'[i] = deferred[i + 1]
        BY <1>1, <2>1, <3>1
      <3> QED BY <1>1, <3>1, <3>2 DEF RequestInv, NothingDeferred, AnswersAscend, AnswersGiven
    <2>2. CASE deferred = <<>>
      <3>1. requests' = Tail(requests) /\ deferred' = deferred /\ requests # <<>>
        BY <1>1, <2>2 DEF TakeRequest, Backlog
      <3>2. AnswersAscend' /\ AnswersGiven'
        BY <1>1, <3>1, TakenKeepsAnswers DEF RequestInv
      <3> QED BY <3>1, <3>2 DEF RequestInv, NothingDeferred
    <2> QED BY <2>1, <2>2
  <1>8. AnsweredSeen' /\ AnswerUsed'
    <2>1. \A i \in DOMAIN Tail(Backlog) : Tail(Backlog)[i].kind # "auth"
      BY <1>1, <1>2
    <2> QED BY <1>1, <1>2, <1>4, <2>1 DEF RequestInv, AnsweredSeen, AnswerUsed, NoStrayAnswer
  <1> QED BY <1>6, <1>7, <1>8 DEF RequestInv

\* Showing a challenge makes it the newest one.
LEMMA PreflightKeeps ==
    ASSUME IInv, RequestInv, Preflight
    PROVE  RequestInv'
  <1>1. /\ UNCHANGED <<requests, deferred, handled, submitted, gen, mainPc>>
        /\ host'.answered = host.answered
        /\ host'.seen \in {host.seen, gen}
        /\ spc' \in {"top", "finish", "auth"}
    BY DEF Preflight, Interrupted, Failed, Emit, Said
  <1>2. gen \in Nat /\ host.answered \in Nat /\ host.seen \in Nat
    BY GenerationNumbers, BoundsAssumption DEF IInv, TypeOK, SessionType, HostViews
  <1>3. AnsweredSeen'
    BY <1>1, <1>2 DEF RequestInv, AnsweredSeen
  <1>4. AnswerUsed'
    BY <1>1 DEF AnswerUsed, Answered, Serving
  <1> QED BY <1>1, <1>3, <1>4 DEF RequestInv, NothingDeferred, AnswersAscend, AnswersGiven,
          HandledWritten, InputsInOrder, Alive, Backlog

LEMMA SessionKeepsRequests ==
    ASSUME IInv, RequestInv, Session
    PROVE  RequestInv'
  <1>1. gen \in Nat
    BY GenerationNumbers DEF IInv, TypeOK, SessionType
  <1>2. CASE CheckClose \/ DiscardReconnect \/ PollAnswer \/ AnswerTimeout
    <2>1. /\ UNCHANGED <<requests, deferred, handled, submitted, gen, host>> /\ Alive
          /\ spc' \notin Answered
      BY <1>2 DEF CheckClose, DiscardReconnect, PollAnswer, Interrupted, AnswerTimeout, Answered,
         Serving
    <2> QED BY <1>1, <2>1, UnmovedKeeps
  <1>3. CASE InstallAttempt \/ Complete \/ AnnounceConnected \/ Finish
    <2>1. /\ UNCHANGED <<requests, deferred, handled, submitted>> /\ Alive
          /\ host'.answered = host.answered /\ host'.seen = host.seen
          /\ gen' \in {gen, gen + 1}
          /\ spc' \in Answered => spc \in Answered /\ gen' = gen
      BY <1>3 DEF InstallAttempt, Complete, Failed, AnnounceConnected, Finish, Emit, Said,
         Answered, Serving
    <2>2. gen' \in Nat /\ gen' >= gen
      BY <1>1, <2>1
    <2> QED BY <2>1, <2>2, UnmovedKeeps
  <1>4. CASE StartReader \/ RequestFirstFrame \/ PollControl \/ RequestTimeout
    <2>1. /\ UNCHANGED <<requests, deferred, handled, submitted, gen, host>> /\ Alive
          /\ spc \in Answered
      BY <1>4 DEF StartReader, RequestFirstFrame, PollControl, RequestTimeout, Answered, Serving
    <2> QED BY <1>1, <2>1, UnmovedKeeps
  <1>5. CASE BeginShutdown \/ ForceShutdown \/ JoinOwner
    <2>1. /\ UNCHANGED <<requests, deferred, handled, submitted, gen, host>> /\ Alive
          /\ spc' \notin Answered
      BY <1>5 DEF BeginShutdown, ForceShutdown, JoinOwner, Answered, Serving
    <2> QED BY <1>1, <2>1, UnmovedKeeps
  <1> QED BY <1>2, <1>3, <1>4, <1>5, PreflightKeeps, DeferKeeps, ReceiveKeeps, HandleKeeps
          DEF Session

LEMMA OwnerKeepsRequests ==
    ASSUME IInv, RequestInv, NEW g \in Generations, Owner(g)
    PROVE  RequestInv'
  <1>1. gen \in Nat
    BY GenerationNumbers DEF IInv, TypeOK, SessionType
  <1>2. OwnerOnly
    BY DEF Owner, Drain, DrainEmpty, CheckCanceled, ReadServer, ApplyMessage, ApplyError,
       CheckPublish, Publish
  <1>3. host'.answered = host.answered /\ host'.seen = host.seen
    <2>1. \A event \in {"base", "update", "disconnected"} :
             Emit(event, g) => host'.answered = host.answered /\ host'.seen = host.seen
      BY DEF Emit, Said
    <2>2. host' = host \/ \E event \in {"base", "update", "disconnected"} : Emit(event, g)
      BY DEF Owner, Drain, DrainEmpty, CheckCanceled, ReadServer, ApplyMessage, ApplyError,
         CheckPublish, Publish
    <2> QED BY <2>1, <2>2
  <1> QED BY <1>1, <1>2, <1>3, UnmovedKeeps DEF OwnerOnly, Alive

LEMMA RequestInit == Init => RequestInv
  <1> SUFFICES ASSUME Init PROVE RequestInv
    OBVIOUS
  <1>1. NothingDeferred /\ AnswersAscend /\ AnswersGiven /\ AnsweredSeen /\ HandledWritten
    BY DEF Init, NothingDeferred, AnswersAscend, AnswersGiven, AnsweredSeen, HandledWritten
  <1>2. AnswerUsed
    BY DEF Init, AnswerUsed, Answered, Serving
  <1>3. Backlog = <<>> /\ DOMAIN Backlog = {} /\ handled = 0 /\ submitted.inputs = 0
    BY DEF Init, Backlog
  <1>4. InputsInOrder
    <2>1. 0 + 1 .. 0 = {}
      OBVIOUS
    <2> QED BY <1>3, <2>1 DEF InputsInOrder, InOrder
  <1> QED BY <1>1, <1>2, <1>4 DEF RequestInv

LEMMA RequestStep ==
    ASSUME IInv, RequestInv, [Next]_vars
    PROVE  RequestInv'
  <1>1. CASE UNCHANGED vars
    <2>1. gen \in Nat
      BY GenerationNumbers DEF IInv, TypeOK, SessionType
    <2>2. UNCHANGED <<requests, deferred, handled, submitted, gen, host, spc, mainPc>>
      BY <1>1 DEF vars
    <2> QED BY <2>1, <2>2, UnmovedKeeps DEF Alive
  <1> QED BY <1>1, MainKeepsRequests, SessionKeepsRequests, OwnerKeepsRequests DEF Next

\* However the host's requests, answers and reconnects interleave with the
\* session's phases: no answer reaches the connected loop, and inputs are handled
\* once each, in the host's order.
THEOREM RequestsHandledInOrder == Spec => []RequestsInOrder
  <1>1. IInv /\ RequestInv /\ [Next]_vars => RequestInv'
    BY RequestStep
  <1>2. AnswerUsed => NoStrayAnswer
    BY DEF AnswerUsed, NoStrayAnswer, Answered
  <1>3. RequestInv => RequestsInOrder
    BY <1>2 DEF RequestInv, RequestsInOrder
  <1> QED BY <1>1, <1>3, Inductive, RequestInit, PTL DEF Spec

=============================================================================
