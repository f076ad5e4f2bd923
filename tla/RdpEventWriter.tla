--------------------------- MODULE RdpEventWriter ---------------------------
(***************************************************************************)
(* The event writer of the RDP helper (event_writer.rs).  The session's    *)
(* worker thread hands events to SharedEventWriter::send; a second thread  *)
(* takes frames from the shared queue and writes them to stdout.  They     *)
(* share two locks, the queue's and stdout's, and a condition variable,    *)
(* and nobody ever holds both locks: an action is one critical section.    *)
(*                                                                         *)
(* Frames are numbered as they are handed over.  An item is one line of    *)
(* output: a control event, or a frame event standing for all the frames   *)
(* merged into it.                                                         *)
(***************************************************************************)
EXTENDS Integers, Sequences, FiniteSets

CONSTANTS
    MaxFrames,     \* bound: frames handed over
    MaxControls    \* bound: control events before the terminal one

VARIABLES
    queue,       \* EventWriterQueue.frames
    stdoutThread,\* the stdout thread: locking the queue, waiting, writing, ended
    held,        \* <<>>, or the frame the stdout thread popped and has to write
    batch,       \* what the sender drained, and its control event, to be written
    sender,      \* the worker thread: see Senders
    open,        \* the host reads stdout
    out,         \* the lines written
    sent,        \* frames handed over so far
    controls,    \* control events handed over so far
    superseded,  \* frames a base frame made obsolete in the queue
    lost         \* frames whose write failed

threadVars == <<stdoutThread, held>>
sentVars   == <<sent, controls, superseded>>
vars       == <<queue, threadVars, batch, sender, open, out, sentVars, lost>>

FrameKinds == {"frame", "update", "batch"}
Items      == [kind: FrameKinds, frames: SUBSET Nat, after: {0}]
Controls   == [kind: {"control", "terminal"}, frames: {{}}, after: Nat]

\* running: in the session; writing, closing: inside send with an ordinary or a
\* terminal control event; failing: send returned an error, and start_rdp_worker
\* reports it; ended; exited: the process is gone.
Senders == {"running", "writing", "failing", "closing", "ended", "exited"}

Item(kind)     == [kind |-> kind, frames |-> {sent + 1}, after |-> 0]
ControlOf(kind) == [kind |-> kind, frames |-> {}, after |-> sent]

\* The frames of some items.
FramesOf(items) == UNION {items[i].frames : i \in DOMAIN items}

Init ==
    /\ queue = <<>>
    /\ stdoutThread = "locking" /\ held = <<>>
    /\ batch = <<>>
    /\ sender = "running"
    /\ open = TRUE
    /\ out = <<>>
    /\ sent = 0 /\ controls = 0
    /\ superseded = {} /\ lost = {}

-----------------------------------------------------------------------------
(* SharedEventWriter::send, for a frame *)

\* merge_frame_event: may an incoming frame event join the last queued one?
\* Whether it does depends on the rectangles.
Mergeable(existing, incoming) ==
    \/ existing = "frame"
    \/ existing = "update" /\ incoming = "update"
    \/ existing = "batch"  /\ incoming = "batch"

\* push_frame_event.
PushBase ==
    /\ queue' = <<Item("frame")>>
    /\ superseded' = superseded \cup FramesOf(queue)

PushDirty(kind) ==
    /\ \/ queue' = Append(queue, Item(kind))
       \/ /\ queue # <<>>
          /\ Mergeable(queue[Len(queue)].kind, kind)
          /\ queue' = [queue EXCEPT ![Len(queue)].frames = @ \cup {sent + 1}]
    /\ UNCHANGED superseded

\* Variant for mutation: the condition variable is not notified.
SendFrameSilently(kind) ==
    /\ sender = "running" /\ sent < MaxFrames
    /\ IF kind = "frame" THEN PushBase ELSE PushDirty(kind)
    /\ sent' = sent + 1
    /\ UNCHANGED <<stdoutThread, held, controls, batch, sender, open, out, lost>>

SendFrame(kind) ==
    /\ sender = "running" /\ sent < MaxFrames
    /\ IF kind = "frame" THEN PushBase ELSE PushDirty(kind)
    /\ sent' = sent + 1
    /\ stdoutThread' = IF stdoutThread = "waiting" THEN "locking" ELSE stdoutThread
    /\ UNCHANGED <<held, controls, batch, sender, open, out, lost>>

-----------------------------------------------------------------------------
(* SharedEventWriter::send, for a control event: first it drains the queue,  *)
(* then, the queue unlocked, it writes what it drained and the event itself. *)

\* Variant for mutation: the queued frames are left to the stdout thread.
DrainNothing(kind) ==
    /\ batch' = <<ControlOf(kind)>>
    /\ UNCHANGED queue

Drain(kind) ==
    /\ batch' = Append(queue, ControlOf(kind))
    /\ queue' = <<>>

SendControl ==
    /\ sender = "running" /\ controls < MaxControls
    /\ Drain("control")
    /\ controls' = controls + 1
    /\ sender' = "writing"
    /\ UNCHANGED <<threadVars, open, out, sent, superseded, lost>>

\* The last event of the session: Disconnected or ConnectionFailure.
SendTerminal ==
    /\ sender \in {"running", "failing"}
    /\ Drain("terminal")
    /\ sender' = "closing"
    /\ UNCHANGED <<threadVars, open, out, sentVars, lost>>

WriteBatch ==
    /\ sender \in {"writing", "closing"}
    /\ IF open
         THEN /\ out' = out \o batch
              /\ sender' = IF sender = "writing" THEN "running" ELSE "ended"
              /\ UNCHANGED lost
         ELSE /\ lost' = lost \cup FramesOf(batch)
              /\ sender' = IF sender = "writing" THEN "failing" ELSE "ended"
              /\ UNCHANGED out
    /\ batch' = <<>>
    /\ UNCHANGED <<queue, threadVars, open, sentVars>>

-----------------------------------------------------------------------------
(* The stdout thread *)

\* Variant for mutation: the whole queue is taken.
TakeAll ==
    /\ stdoutThread = "locking" /\ queue # <<>> /\ sender # "exited"
    /\ held' = queue
    /\ queue' = <<>>
    /\ stdoutThread' = "writing"
    /\ UNCHANGED <<batch, sender, open, out, sentVars, lost>>

\* next_frame_for_stdout pops a frame ...
Take ==
    /\ stdoutThread = "locking" /\ queue # <<>> /\ sender # "exited"
    /\ held' = <<Head(queue)>>
    /\ queue' = Tail(queue)
    /\ stdoutThread' = "writing"
    /\ UNCHANGED <<batch, sender, open, out, sentVars, lost>>

\* ... or finds none and waits for the notification.
Wait ==
    /\ stdoutThread = "locking" /\ queue = <<>> /\ sender # "exited"
    /\ stdoutThread' = "waiting"
    /\ UNCHANGED <<queue, held, batch, sender, open, out, sentVars, lost>>

\* A condition variable may wake up without a notification.
WakeSpuriously ==
    /\ stdoutThread = "waiting" /\ sender # "exited"
    /\ stdoutThread' = "locking"
    /\ UNCHANGED <<queue, held, batch, sender, open, out, sentVars, lost>>

WriteHeld ==
    /\ stdoutThread = "writing" /\ sender # "exited"
    /\ IF open
         THEN /\ out' = out \o held
              /\ stdoutThread' = "locking"
              /\ UNCHANGED lost
         ELSE /\ lost' = lost \cup FramesOf(held)
              /\ stdoutThread' = "ended"
              /\ UNCHANGED out
    /\ held' = <<>>
    /\ UNCHANGED <<queue, batch, sender, open, sentVars>>

-----------------------------------------------------------------------------
(* The environment: the host stops reading; main returns once the worker has *)
(* been joined, and the process takes the stdout thread with it.             *)

HostCloses ==
    /\ open /\ sender # "exited"
    /\ open' = FALSE
    /\ UNCHANGED <<queue, threadVars, batch, sender, out, sentVars, lost>>

Exit ==
    /\ sender = "ended"
    /\ sender' = "exited"
    /\ UNCHANGED <<queue, threadVars, batch, open, out, sentVars, lost>>

Send == (\E kind \in FrameKinds : SendFrame(kind)) \/ SendControl \/ SendTerminal
StdoutStep == Take \/ Wait \/ WriteHeld

Next == Send \/ WriteBatch \/ StdoutStep \/ WakeSpuriously \/ HostCloses \/ Exit

Spec == Init /\ [][Next]_vars

\* Both threads keep running once they have something to do: neither lock is ever
\* held across a wait, and send does not return before its batch is written.
FairSpec == Spec /\ WF_vars(StdoutStep) /\ WF_vars(WriteBatch)

-----------------------------------------------------------------------------
(* Properties *)

TypeOK ==
    /\ queue \in Seq(Items) /\ held \in Seq(Items) /\ Len(held) <= 1
    /\ stdoutThread \in {"locking", "waiting", "writing", "ended"}
    /\ batch \in Seq(Items \cup Controls)
    /\ out \in Seq(Items \cup Controls)
    /\ sender \in Senders
    /\ open \in BOOLEAN
    /\ sent \in Nat /\ controls \in Nat
    /\ superseded \subseteq 1 .. sent /\ lost \subseteq 1 .. sent

\* The places a frame can be, and how often it is there.
Places(n) ==
    LET In(items) == Cardinality({i \in DOMAIN items : n \in items[i].frames})
    IN  In(queue) + In(held) + In(batch) + In(out)
          + (IF n \in superseded THEN 1 ELSE 0) + (IF n \in lost THEN 1 ELSE 0)

\* Every frame handed over is in exactly one place: the three ways out of the
\* queue, the two writers and the merges neither lose nor repeat one.
EveryFrameOnce == \A n \in 1 .. sent : Places(n) = 1

IsControl(item) == item.kind \in {"control", "terminal"}
Older(item, n)  == \E f \in item.frames : f <= n

\* A control event is a barrier for the frames before it, but for the one that
\* the stdout thread had popped: at most one line with an older frame is still
\* to be written, or is written later.
OneFrameBehindControl ==
    \A k \in DOMAIN out :
       IsControl(out[k]) =>
          LET Behind(items) ==
                {i \in DOMAIN items : Older(items[i], out[k].after)}
          IN  Cardinality({i \in Behind(out) : i > k}) + Cardinality(Behind(held))
                + Cardinality(Behind(queue)) + Cardinality(Behind(batch)) <= 1

\* Frames are written in the order they were handed over, unless a control event
\* is written between the newer one and the older.
OvertakenOnlyByControl ==
    \A i, j \in DOMAIN out :
       (i < j /\ \E f \in out[i].frames : Older(out[j], f)) =>
          \E k \in i + 1 .. j - 1 : IsControl(out[k])

\* event_writer.rs:53: a helper that exits has written its terminal event, and
\* every line before it but the frame in the hands of the stdout thread.
NothingLeftAtExit ==
    (sender = "exited" /\ open) =>
       /\ \E k \in DOMAIN out : out[k].kind = "terminal"
       /\ \A n \in 1 .. sent : n \in FramesOf(out) \cup superseded \cup FramesOf(held)

\* Every frame is written or superseded in the end, if the host keeps reading and
\* the process is not gone.
Handed(n)  == n <= sent
Settled(n) == n \in FramesOf(out) \cup superseded \cup lost \/ ~open \/ sender = "exited"

EveryFrameArrives == \A n \in 1 .. MaxFrames : Handed(n) ~> Settled(n)
=============================================================================
