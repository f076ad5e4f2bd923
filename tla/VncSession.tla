----------------------------- MODULE VncSession -----------------------------
(***************************************************************************)
(* The VNC helper's session: plugins/vnc/src/main.rs and connection.rs.    *)
(*                                                                         *)
(* Four actors.  The host writes requests and reads events.  The main      *)
(* thread reads requests: Close and Reconnect set a flag and cancel the    *)
(* attempt in progress, everything else goes through a bounded queue.  The *)
(* session thread makes one connection after another: preflight, identity  *)
(* challenge, answer, handshake, connected loop.  Each connection has an   *)
(* I/O owner thread that writes the commands of its own bounded queue,     *)
(* reads the server and publishes frames.                                  *)
(*                                                                         *)
(* A generation is one attempt.  The credentials of an answer are the      *)
(* number of the challenge they answer, a frame is "base" or "update", and *)
(* an input request is its number in the order the host wrote them.  The   *)
(* host answers challenges in the order it was shown them, each at most    *)
(* once, and any time after they were shown.                               *)
(***************************************************************************)
EXTENDS Integers, Sequences

CONSTANTS MaxReconnects,   \* bound: Reconnect requests the host writes
          MaxInputs,       \* bound: queued requests other than answers
          RequestCap,      \* capacity of the request queue (128 in the code)
          CommandCap       \* VNC_IO_COMMAND_CAPACITY (128 in the code)

ASSUME BoundsAssumption == /\ MaxReconnects \in Nat /\ MaxInputs \in Nat
                           /\ RequestCap \in Nat \ {0}
                           /\ CommandCap \in Nat \ {0}

Generations == 1 .. (MaxReconnects + 1)

VARIABLES
    mainPc,     \* the main thread
    close,      \* close_requested
    reconnect,  \* reconnect_requested
    attempt,    \* current_attempt: the generation whose flag it holds, or 0
    canceled,   \* [Generations -> BOOLEAN], the flag of each attempt
    requests,   \* request_tx / request_rx
    spc,        \* the session thread
    gen,        \* generation
    active,     \* active_generation
    deferred,   \* deferred_requests
    answer,     \* the challenge whose credentials the handshake uses
    owner,      \* [Generations -> the state of that connection's I/O owner]
    commands,   \* [Generations -> the owner's command queue]
    force,      \* [Generations -> force_next_base_frame]
    sent,       \* [Generations -> sent_initial_frame]
    host,       \* what the events told the host
    submitted,  \* ghost: inputs and reconnects the host wrote so far
    handled     \* ghost: inputs the session thread handled so far

control == <<close, reconnect, attempt, canceled>>
conns   == <<owner, commands, force, sent>>
vars == <<mainPc, control, requests, spc, gen, active, deferred, answer,
          conns, host, submitted, handled>>

Answers == [kind: {"auth"}, n: Generations]
Inputs  == [kind: {"input", "frame"}, n: 1 .. MaxInputs]
Requests == Answers \cup Inputs

MainPcs  == {"reading", "reconnecting", "closing", "ending", "joining", "exited"}
Attempting == {"preflight", "auth", "authRecv", "complete", "announce", "spawn"}
Serving  == {"first", "connected", "recv"}
Leaving  == {"leaveClose", "leaveReconnect", "joinClose", "joinReconnect"}
Over     == {"done", "failed"}
SessionPcs == {"top", "discard", "install", "finish"}
                 \cup Attempting \cup Serving \cup Leaving \cup Over

Running  == {"drain", "check", "read", "flush", "flushPaint", "publish", "report"}
OwnerPcs == Running \cup {"none", "stopped"}

Phases == {"none", "connecting", "certificate", "connected", "failed", "disconnected"}
Frames == {"base", "update"}
\* phase and framed: the state the host infers; last, gen: the last event and
\* the generation it is about; seen: the newest challenge shown; answered: the
\* newest challenge answered.
HostViews == [phase: Phases, gen: 0 .. (MaxReconnects + 1), framed: BOOLEAN,
              last: Phases \cup Frames, seen: 0 .. (MaxReconnects + 1),
              answered: 0 .. (MaxReconnects + 1)]

ControlType ==
    /\ mainPc \in MainPcs
    /\ close \in BOOLEAN /\ reconnect \in BOOLEAN
    /\ attempt \in {0} \cup Generations
    /\ canceled \in [Generations -> BOOLEAN]
SessionType ==
    /\ spc \in SessionPcs
    /\ gen \in {0} \cup Generations
    /\ active \in Nat
    /\ answer \in {0} \cup Generations
QueueType ==
    /\ requests \in Seq(Requests)
    /\ deferred \in Seq(Requests)
    /\ handled \in 0 .. MaxInputs
    /\ submitted \in [inputs: 0 .. MaxInputs, reconnects: 0 .. MaxReconnects]
ConnectionType ==
    /\ owner \in [Generations -> OwnerPcs]
    /\ commands \in [Generations -> Seq({"write", "shutdown"})]
    /\ force \in [Generations -> BOOLEAN]
    /\ sent \in [Generations -> BOOLEAN]

TypeOK == /\ ControlType /\ SessionType /\ QueueType /\ ConnectionType
          /\ host \in HostViews

Init ==
    /\ mainPc = "reading"
    /\ close = FALSE /\ reconnect = FALSE /\ attempt = 0
    /\ canceled = [g \in Generations |-> FALSE]
    /\ requests = <<>>
    /\ spc = "top" /\ gen = 0 /\ active = 0 /\ deferred = <<>> /\ answer = 0
    /\ owner = [g \in Generations |-> "none"]
    /\ commands = [g \in Generations |-> <<>>]
    /\ force = [g \in Generations |-> FALSE]
    /\ sent = [g \in Generations |-> FALSE]
    /\ host = [phase |-> "none", gen |-> 0, framed |-> FALSE, last |-> "none",
               seen |-> 0, answered |-> 0]
    /\ submitted = [inputs |-> 0, reconnects |-> 0]
    /\ handled = 0

(***************************************************************************)
(* Events, as the host reads them.                                         *)
(***************************************************************************)
Said(event, g) ==
    [phase    |-> IF event \in Phases THEN event ELSE host.phase,
     gen      |-> g,
     framed   |-> event = "base" \/ (host.framed /\ event # "connecting"),
     last     |-> event,
     seen     |-> IF event = "certificate" THEN g ELSE host.seen,
     answered |-> host.answered]

Emit(event, g) == host' = Said(event, g)

(***************************************************************************)
(* The main thread.  The two halves of request_close and request_reconnect *)
(* are separate steps: the session thread may install or retire an attempt *)
(* between the flag and the cancellation.                                  *)
(***************************************************************************)
CancelCurrentAttempt ==
    canceled' = IF attempt = 0 THEN canceled ELSE [canceled EXCEPT ![attempt] = TRUE]

\* try_send fails when the queue is full or the session thread has returned;
\* main then returns its error and the process ends.
QueueRequest(request) ==
    IF Len(requests) < RequestCap /\ spc \notin Over
    THEN requests' = Append(requests, request) /\ UNCHANGED mainPc
    ELSE mainPc' = "exited" /\ UNCHANGED requests

ReadInput(kind) ==
    /\ mainPc = "reading"
    /\ submitted.inputs < MaxInputs
    /\ QueueRequest([kind |-> kind, n |-> submitted.inputs + 1])
    /\ submitted' = [submitted EXCEPT !.inputs = @ + 1]
    /\ UNCHANGED <<control, spc, gen, active, deferred, answer, conns, host, handled>>

ReadAnswer(g) ==
    /\ mainPc = "reading"
    /\ g > host.answered /\ g <= host.seen
    /\ QueueRequest([kind |-> "auth", n |-> g])
    /\ host' = [host EXCEPT !.answered = g]
    /\ UNCHANGED <<control, spc, gen, active, deferred, answer, conns, submitted, handled>>

ReadReconnect ==
    /\ mainPc = "reading"
    /\ submitted.reconnects < MaxReconnects
    /\ submitted' = [submitted EXCEPT !.reconnects = @ + 1]
    /\ reconnect' = TRUE
    /\ mainPc' = "reconnecting"
    /\ UNCHANGED <<close, attempt, canceled, requests, spc, gen, active, deferred,
                   answer, conns, host, handled>>

\* Close requests the close once when it is read and once more after the loop.
ReadClose ==
    /\ mainPc = "reading"
    /\ close' = TRUE
    /\ mainPc' = "closing"
    /\ UNCHANGED <<reconnect, attempt, canceled, requests, spc, gen, active, deferred,
                   answer, conns, host, submitted, handled>>

ReadEnd ==
    /\ mainPc = "reading"
    /\ close' = TRUE
    /\ mainPc' = "ending"
    /\ UNCHANGED <<reconnect, attempt, canceled, requests, spc, gen, active, deferred,
                   answer, conns, host, submitted, handled>>

\* A request line that cannot be read ends the process at once.
ReadError ==
    /\ mainPc = "reading"
    /\ mainPc' = "exited"
    /\ UNCHANGED <<control, requests, spc, gen, active, deferred, answer, conns,
                   host, submitted, handled>>

Cancel ==
    /\ mainPc \in {"reconnecting", "closing", "ending"}
    /\ CancelCurrentAttempt
    /\ mainPc' = CASE mainPc = "reconnecting" -> "reading"
                   [] mainPc = "closing" -> "ending"
                   [] mainPc = "ending" -> "joining"
    /\ UNCHANGED <<close, reconnect, attempt, requests, spc, gen, active, deferred,
                   answer, conns, host, submitted, handled>>

JoinWorker ==
    /\ mainPc = "joining"
    /\ spc \in Over
    /\ mainPc' = "exited"
    /\ UNCHANGED <<control, requests, spc, gen, active, deferred, answer, conns,
                   host, submitted, handled>>

Read ==
    \/ \E kind \in {"input", "frame"} : ReadInput(kind)
    \/ \E g \in Generations : ReadAnswer(g)
    \/ ReadReconnect
    \/ ReadClose
    \/ ReadEnd
    \/ ReadError

(***************************************************************************)
(* The session thread, up to the connected loop.                           *)
(***************************************************************************)
Alive == mainPc # "exited"

CheckClose ==
    /\ Alive /\ spc = "top"
    /\ spc' = IF close THEN "finish" ELSE "discard"
    /\ UNCHANGED <<mainPc, control, requests, gen, active, deferred, answer, conns,
                   host, submitted, handled>>

\* A reconnect requested before the attempt starts is served by the attempt.
DiscardReconnect ==
    /\ Alive /\ spc = "discard"
    /\ reconnect' = FALSE
    /\ spc' = "install"
    /\ UNCHANGED <<mainPc, close, attempt, canceled, requests, gen, active, deferred,
                   answer, conns, host, submitted, handled>>

InstallAttempt ==
    /\ Alive /\ spc = "install"
    /\ gen' = gen + 1
    /\ active' = gen'
    /\ attempt' = gen'
    /\ Emit("connecting", gen')
    /\ spc' = "preflight"
    /\ UNCHANGED <<mainPc, close, reconnect, canceled, requests, deferred, answer,
                   conns, submitted, handled>>

\* Where a phase that may have been interrupted continues: a close ends the
\* session, a reconnect is taken and starts the next attempt.
Interrupted ==
    /\ close \/ reconnect
    /\ spc' = IF close THEN "finish" ELSE "top"
    /\ reconnect' = (reconnect /\ close)
    /\ UNCHANGED host

\* Mutant: a failed attempt is retried, without bound.
FailedRetries ==
    /\ Emit("failed", gen)
    /\ spc' = "top"
    /\ UNCHANGED reconnect

\* Mutant: the failure is the last word.
FailedEnds ==
    /\ Emit("failed", gen)
    /\ spc' = "done"
    /\ UNCHANGED reconnect

Failed ==
    /\ Emit("failed", gen)
    /\ spc' = "finish"
    /\ UNCHANGED reconnect

Preflight ==
    /\ Alive /\ spc = "preflight"
    /\ \/ Interrupted
       \/ ~close /\ ~reconnect /\ Failed
       \/ /\ ~close /\ ~reconnect
          /\ Emit("certificate", gen)
          /\ spc' = "auth"
          /\ UNCHANGED reconnect
    /\ UNCHANGED <<mainPc, close, attempt, canceled, requests, gen, active, deferred,
                   answer, conns, submitted, handled>>

\* Mutant: the wait notices a close only.
PollAnswerDeaf ==
    /\ Alive /\ spc = "auth"
    /\ \/ close /\ Interrupted
       \/ ~close /\ spc' = "authRecv" /\ UNCHANGED <<reconnect, host>>
    /\ UNCHANGED <<mainPc, close, attempt, canceled, requests, gen, active, deferred,
                   answer, conns, submitted, handled>>

\* wait_for_vnc_authentication: look at the flags, then wait for a request.
PollAnswer ==
    /\ Alive /\ spc = "auth"
    /\ \/ Interrupted
       \/ ~close /\ ~reconnect /\ spc' = "authRecv" /\ UNCHANGED <<reconnect, host>>
    /\ UNCHANGED <<mainPc, close, attempt, canceled, requests, gen, active, deferred,
                   answer, conns, submitted, handled>>

AnswerTimeout ==
    /\ Alive /\ spc = "authRecv"
    /\ requests = <<>>
    /\ spc' = "auth"
    /\ UNCHANGED <<mainPc, control, requests, gen, active, deferred, answer, conns,
                   host, submitted, handled>>

\* Mutant: the challenge of an answer is not compared.
ReceiveAnyAnswer ==
    /\ Alive /\ spc = "authRecv"
    /\ requests # <<>>
    /\ Head(requests).kind = "auth"
    /\ requests' = Tail(requests)
    /\ answer' = Head(requests).n
    /\ spc' = "complete"
    /\ UNCHANGED <<mainPc, control, gen, active, deferred, conns, host, submitted, handled>>

\* The answer must name this attempt's challenge; an older one is dropped.  One
\* that lacks a credential the server requires fails the attempt.
ReceiveAnswer ==
    /\ Alive /\ spc = "authRecv"
    /\ requests # <<>>
    /\ Head(requests).kind = "auth"
    /\ requests' = Tail(requests)
    /\ IF Head(requests).n # gen
       THEN spc' = "auth" /\ UNCHANGED <<reconnect, answer, host>>
       ELSE \/ Interrupted /\ UNCHANGED answer
            \/ ~close /\ ~reconnect /\ Failed /\ UNCHANGED answer
            \/ /\ ~close /\ ~reconnect
               /\ answer' = gen
               /\ spc' = "complete"
               /\ UNCHANGED <<reconnect, host>>
    /\ UNCHANGED <<mainPc, close, attempt, canceled, gen, active, deferred, conns,
                   submitted, handled>>

\* Mutant: the newest deferred request comes first.
DeferRequestFront ==
    /\ Alive /\ spc = "authRecv"
    /\ requests # <<>>
    /\ Head(requests).kind # "auth"
    /\ deferred' = <<Head(requests)>> \o deferred
    /\ requests' = Tail(requests)
    /\ spc' = "auth"
    /\ UNCHANGED <<mainPc, control, gen, active, answer, conns, host, submitted, handled>>

DeferRequest ==
    /\ Alive /\ spc = "authRecv"
    /\ requests # <<>>
    /\ Head(requests).kind # "auth"
    /\ deferred' = Append(deferred, Head(requests))
    /\ requests' = Tail(requests)
    /\ spc' = "auth"
    /\ UNCHANGED <<mainPc, control, gen, active, answer, conns, host, submitted, handled>>

\* VncConnection::complete.  Its failure ends the session whatever the flags
\* say, also when a reconnect is what canceled it.
Complete ==
    /\ Alive /\ spc = "complete"
    /\ \/ Failed
       \/ spc' = "announce" /\ UNCHANGED <<reconnect, host>>
    /\ UNCHANGED <<mainPc, close, attempt, canceled, requests, gen, active, deferred,
                   answer, conns, submitted, handled>>

AnnounceConnected ==
    /\ Alive /\ spc = "announce"
    /\ attempt' = 0
    /\ Emit("connected", gen)
    /\ spc' = "spawn"
    /\ UNCHANGED <<mainPc, close, reconnect, canceled, requests, gen, active, deferred,
                   answer, conns, submitted, handled>>

\* The owner starts by allocating its framebuffer, which may fail.
StartReader ==
    /\ Alive /\ spc = "spawn"
    /\ \E pc \in {"drain", "publish"} : owner' = [owner EXCEPT ![gen] = pc]
    /\ spc' = "first"
    /\ UNCHANGED <<mainPc, control, requests, gen, active, deferred, answer, commands,
                   force, sent, host, submitted, handled>>

(***************************************************************************)
(* The connected loop.                                                     *)
(***************************************************************************)
\* The receiving end lives as long as the owner's function.
Accepts(g) == Len(commands[g]) < CommandCap /\ owner[g] # "stopped"

Enqueue(g, command) == commands' = [commands EXCEPT ![g] = Append(@, command)]

\* Errors of the connected part leave run_vnc_session through `?`: no event,
\* the owner is neither told nor joined.
WriteOrFail(next) ==
    IF Accepts(gen)
    THEN Enqueue(gen, "write") /\ spc' = next
    ELSE spc' = "failed" /\ UNCHANGED commands

RequestFirstFrame ==
    /\ Alive /\ spc = "first"
    /\ WriteOrFail("connected")
    /\ UNCHANGED <<mainPc, control, requests, gen, active, deferred, answer, owner,
                   force, sent, host, submitted, handled>>

PollControl ==
    /\ Alive /\ spc = "connected"
    /\ spc' = CASE close -> "leaveClose"
                [] ~close /\ reconnect -> "leaveReconnect"
                [] OTHER -> "recv"
    /\ reconnect' = (reconnect /\ close)
    /\ UNCHANGED <<mainPc, close, attempt, canceled, requests, gen, active, deferred,
                   answer, conns, host, submitted, handled>>

RequestTimeout ==
    /\ Alive /\ spc = "recv"
    /\ deferred = <<>> /\ requests = <<>>
    /\ spc' = "connected"
    /\ UNCHANGED <<mainPc, control, requests, gen, active, deferred, answer, conns,
                   host, submitted, handled>>

\* Requests deferred while the answer was awaited come first.
Backlog == deferred \o requests
TakeRequest ==
    IF deferred # <<>>
    THEN deferred' = Tail(deferred) /\ UNCHANGED requests
    ELSE requests' = Tail(requests) /\ UNCHANGED deferred

\* handle_real_vnc_request: an input writes to the owner (one message stands for
\* all it writes) or is not for the server, as in a read-only session; RequestFrame
\* also asks for a base frame and withdraws that when its write fails; an answer
\* is an error.
HandleRequest ==
    /\ Alive /\ spc = "recv"
    /\ Backlog # <<>>
    /\ TakeRequest
    /\ LET request == Head(Backlog) IN
       IF request.kind = "auth"
       THEN spc' = "failed" /\ UNCHANGED <<commands, force, handled>>
       ELSE /\ \/ WriteOrFail("connected")
               \/ request.kind = "input" /\ spc' = "connected" /\ UNCHANGED commands
            /\ handled' = request.n
            /\ force' = IF request.kind = "frame"
                        THEN [force EXCEPT ![gen] = Accepts(gen)] ELSE force
    /\ UNCHANGED <<mainPc, control, gen, active, answer, owner, sent, host, submitted>>

(***************************************************************************)
(* shutdown_and_join: the Shutdown command or, when the queue refuses it,  *)
(* the flag; the flag in any case after two seconds; then the join.        *)
(***************************************************************************)
BeginShutdown ==
    /\ Alive /\ spc \in {"leaveClose", "leaveReconnect"}
    /\ IF Accepts(gen)
       THEN Enqueue(gen, "shutdown") /\ UNCHANGED canceled
       ELSE canceled' = [canceled EXCEPT ![gen] = TRUE] /\ UNCHANGED commands
    /\ spc' = IF spc = "leaveClose" THEN "joinClose" ELSE "joinReconnect"
    /\ UNCHANGED <<mainPc, close, reconnect, attempt, requests, gen, active, deferred,
                   answer, owner, force, sent, host, submitted, handled>>

ForceShutdown ==
    /\ Alive /\ spc \in {"joinClose", "joinReconnect"}
    /\ ~canceled[gen]
    /\ canceled' = [canceled EXCEPT ![gen] = TRUE]
    /\ UNCHANGED <<mainPc, close, reconnect, attempt, requests, spc, gen, active,
                   deferred, answer, conns, host, submitted, handled>>

\* Mutant: after the deadline the owner is no longer waited for.
JoinOwnerEarly ==
    /\ Alive /\ spc \in {"joinClose", "joinReconnect"}
    /\ canceled[gen]
    /\ active' = active + 1
    /\ spc' = IF spc = "joinClose" THEN "finish" ELSE "top"
    /\ UNCHANGED <<mainPc, control, requests, gen, deferred, answer, conns, host,
                   submitted, handled>>

JoinOwner ==
    /\ Alive /\ spc \in {"joinClose", "joinReconnect"}
    /\ canceled[gen]
    /\ owner[gen] = "stopped"
    /\ active' = active + 1
    /\ spc' = IF spc = "joinClose" THEN "finish" ELSE "top"
    /\ UNCHANGED <<mainPc, control, requests, gen, deferred, answer, conns, host,
                   submitted, handled>>

Finish ==
    /\ Alive /\ spc = "finish"
    /\ attempt' = 0
    /\ Emit("disconnected", gen)
    /\ spc' = "done"
    /\ UNCHANGED <<mainPc, close, reconnect, canceled, requests, gen, active, deferred,
                   answer, conns, submitted, handled>>

(***************************************************************************)
(* run_vnc_io_owner, the thread of connection g.                           *)
(***************************************************************************)
OwnerOnly == UNCHANGED <<mainPc, control, requests, spc, gen, active, deferred,
                         answer, submitted, handled>>

Goes(g, pc) == owner' = [owner EXCEPT ![g] = pc]

\* The owner returns and drops its receiver with whatever is still queued.
Stops(g) == Goes(g, "stopped") /\ commands' = [commands EXCEPT ![g] = <<>>]

\* drain_vnc_io_commands: at the loop's top and after each server message.  A
\* write that fails ends the owner with a report.
Drain(g) ==
    /\ Alive /\ owner[g] \in {"drain", "flush", "flushPaint"}
    /\ commands[g] # <<>>
    /\ \/ Head(commands[g]) = "shutdown" /\ Stops(g)
       \/ /\ Head(commands[g]) = "write"
          /\ commands' = [commands EXCEPT ![g] = Tail(@)]
          /\ UNCHANGED owner \/ Goes(g, "publish")
    /\ OwnerOnly /\ UNCHANGED <<force, sent, host>>

DrainEmpty(g) ==
    /\ Alive /\ owner[g] = "drain"
    /\ commands[g] = <<>>
    /\ Goes(g, "check")
    /\ OwnerOnly /\ UNCHANGED <<commands, force, sent, host>>

CheckCanceled(g) ==
    /\ Alive /\ owner[g] = "check"
    /\ IF canceled[g] \/ active # g THEN Stops(g)
                                    ELSE Goes(g, "read") /\ UNCHANGED commands
    /\ OwnerOnly /\ UNCHANGED <<force, sent, host>>

\* A read polls, fails, or delivers a message that paints or does not.  Lock
\* keys, audio and desktop layout answer through the owner's own queue; when it
\* is full the owner reports an error and ends.
ReadServer(g) ==
    /\ Alive /\ owner[g] = "read"
    /\ \/ Goes(g, "drain") /\ UNCHANGED commands
       \/ Goes(g, "publish") /\ UNCHANGED commands
       \/ \E pc \in {"flush", "flushPaint"} :
             \/ Goes(g, pc) /\ UNCHANGED commands
             \/ Accepts(g) /\ Goes(g, pc) /\ Enqueue(g, "write")
             \/ ~Accepts(g) /\ Goes(g, "publish") /\ UNCHANGED commands
    /\ OwnerOnly /\ UNCHANGED <<force, sent, host>>

\* Mutant: the first frame is an update when the message is one.
ApplyMessageUnbased(g) ==
    /\ Alive /\ owner[g] \in {"flush", "flushPaint"}
    /\ commands[g] = <<>>
    /\ IF owner[g] = "flushPaint"
       THEN \E full \in BOOLEAN :
              /\ sent' = [sent EXCEPT ![g] = TRUE]
              /\ force' = [force EXCEPT ![g] = FALSE]
              /\ Emit(IF full \/ force[g] THEN "base" ELSE "update", g)
       ELSE UNCHANGED <<sent, force, host>>
    /\ Goes(g, "drain") \/ Goes(g, "publish")
    /\ OwnerOnly /\ UNCHANGED commands

\* Mutant: any message takes the base-frame request.
ApplyMessageTaking(g) ==
    /\ Alive /\ owner[g] \in {"flush", "flushPaint"}
    /\ commands[g] = <<>>
    /\ force' = [force EXCEPT ![g] = FALSE]
    /\ IF owner[g] = "flushPaint"
       THEN \E full \in BOOLEAN :
              /\ sent' = [sent EXCEPT ![g] = TRUE]
              /\ Emit(IF full \/ force[g] \/ ~sent[g] THEN "base" ELSE "update", g)
       ELSE UNCHANGED <<sent, host>>
    /\ Goes(g, "drain") \/ Goes(g, "publish")
    /\ OwnerOnly /\ UNCHANGED commands

\* The message is applied once the queue is empty; only one that changed the
\* framebuffer consumes the base-frame request and publishes a frame.  A message
\* that cannot be applied, or the next update request, may fail.
ApplyMessage(g) ==
    /\ Alive /\ owner[g] \in {"flush", "flushPaint"}
    /\ commands[g] = <<>>
    /\ IF owner[g] = "flushPaint"
       THEN \E full \in BOOLEAN :
              /\ sent' = [sent EXCEPT ![g] = TRUE]
              /\ force' = [force EXCEPT ![g] = FALSE]
              /\ IF active = g
                 THEN Emit(IF full \/ force[g] \/ ~sent[g] THEN "base" ELSE "update", g)
                 ELSE UNCHANGED host
       ELSE UNCHANGED <<sent, force, host>>
    /\ Goes(g, "drain") \/ Goes(g, "publish")
    /\ OwnerOnly /\ UNCHANGED commands

\* try_apply fails before any frame is published.
ApplyError(g) ==
    /\ Alive /\ owner[g] \in {"flush", "flushPaint"}
    /\ commands[g] = <<>>
    /\ Goes(g, "publish")
    /\ OwnerOnly /\ UNCHANGED <<commands, force, sent, host>>

\* publish_vnc_disconnect: the flags are read, then the event is written.
CheckPublish(g) ==
    /\ Alive /\ owner[g] = "publish"
    /\ IF canceled[g] \/ active # g THEN Stops(g)
                                    ELSE Goes(g, "report") /\ UNCHANGED commands
    /\ OwnerOnly /\ UNCHANGED <<force, sent, host>>

Publish(g) ==
    /\ Alive /\ owner[g] = "report"
    /\ Emit("disconnected", g)
    /\ Stops(g)
    /\ OwnerOnly /\ UNCHANGED <<force, sent>>

Owner(g) ==
    \/ Drain(g) \/ DrainEmpty(g) \/ CheckCanceled(g) \/ ReadServer(g)
    \/ ApplyMessage(g) \/ ApplyError(g) \/ CheckPublish(g) \/ Publish(g)

Session ==
    \/ CheckClose \/ DiscardReconnect \/ InstallAttempt \/ Preflight
    \/ PollAnswer \/ AnswerTimeout \/ ReceiveAnswer \/ DeferRequest
    \/ Complete \/ AnnounceConnected \/ StartReader \/ RequestFirstFrame
    \/ PollControl \/ RequestTimeout \/ HandleRequest
    \/ BeginShutdown \/ ForceShutdown \/ JoinOwner \/ Finish

Main == Read \/ Cancel \/ JoinWorker

Next == Main \/ Session \/ \E g \in Generations : Owner(g)

\* Every thread runs, every network phase has a deadline, and the main thread
\* finishes what it started; the host need never write anything.
Fairness == /\ WF_vars(Cancel) /\ WF_vars(JoinWorker)
            /\ WF_vars(Session)
            /\ \A g \in Generations : WF_vars(Owner(g))

Spec == Init /\ [][Next]_vars /\ Fairness

(***************************************************************************)
(* Properties.                                                             *)
(***************************************************************************)
\* The connections do not overlap: a running I/O owner is that of the session's
\* current generation, and that generation is not yet retired.  This is what
\* joining the owner before active_generation advances is for.
OneOwner == \A g \in Generations : owner[g] \in Running => g = gen /\ g = active

\* What the host reads never goes back to an earlier generation, although the
\* owners and the session thread share one event stream.
EventsAscend == [][host'.gen >= host.gen]_vars

\* A frame reaches the host only while the last status it read is Connected:
\* not before that event, not after a disconnect or a new attempt; and an update
\* only on top of a base frame of the same connection.
FramesWhileConnected ==
    host.last \in Frames => host.phase = "connected" /\ host.framed

\* connection.rs: the thread and the picture are those of the one live connection.
OneConnection == OneOwner /\ FramesWhileConnected

\* A session that ends in order has said Disconnected last and left no thread.
LastWord ==
    spc = "done" => /\ host.last = "disconnected"
                    /\ \A g \in Generations : owner[g] \notin Running

\* The credentials of a handshake are those the user gave for this attempt's
\* identity challenge, although an answer to a retired one may still be queued.
AnswersMatch == spc \in {"complete", "announce", "spawn"} \cup Serving => answer = gen

\* No answer is left to reach the connected loop, where it is a fatal "second
\* connect request": of a host that answers in order, each was used or dropped.
NoStrayAnswer ==
    spc \in {"complete", "announce", "spawn"} \cup Serving =>
        \A i \in DOMAIN Backlog : Backlog[i].kind # "auth"

\* The inputs of a queue are those the host wrote after number `after` and up to
\* number `upto`, each once, in the host's order.
InOrder(queue, after, upto) ==
    LET Written == {i \in DOMAIN queue : queue[i].kind # "auth"}
    IN  /\ {queue[i].n : i \in Written} = after + 1 .. upto
        /\ \A i, j \in Written : i < j => queue[i].n < queue[j].n

\* Input is neither lost, duplicated nor reordered on its way through the queue
\* and the deferred requests, across any number of reconnects.
InputsInOrder == Alive => InOrder(Backlog, handled, submitted.inputs)

\* main.rs: every request meets the phase it is for, in the host's order.
RequestsInOrder == NoStrayAnswer /\ InputsInOrder

\* A request for a base frame is withdrawn only by a base frame, or when the
\* write that asks the server for one failed.
RecoveryKept ==
    [][\A g \in Generations :
          force[g] /\ ~force'[g] => host'.last = "base" \/ spc' = "failed"]_vars

\* A close ends the process from whatever state the session is in.
CloseEnds == close ~> mainPc = "exited"

\* A reconnect is taken, or the session is over: no phase waits past it.
ReconnectTaken == reconnect ~> (~reconnect \/ spc \in Over \/ ~Alive)

\* main.rs: so every request that ends an attempt is answered.
RequestsEnd == CloseEnds /\ ReconnectTaken
=============================================================================
