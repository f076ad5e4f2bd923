------------------------------ MODULE RdpMicrophone ------------------------------
(***************************************************************************)
(* The microphone of an RDP session (plugins/rdp/src/audio_input.rs): the  *)
(* audio thread captures packets and the session thread sends them.  They  *)
(* share a bounded queue under a lock and a flag outside it, which says    *)
(* that the session loop has been told; telling it is an input of its own. *)
(*                                                                         *)
(* A packet is the number of the capture it belongs to.                    *)
(***************************************************************************)
EXTENDS Integers, Sequences

CONSTANTS Capacity,     \* AUDIO_INPUT_MAX_QUEUED_PACKETS
          MaxCaptures,  \* bound: captures started
          MaxInputs     \* bound: MicrophoneReady inputs waiting

VARIABLES
    packets,    \* MicrophonePacketQueue.packets
    pending,    \* notification_pending
    inputs,     \* MicrophoneReady inputs in the session loop's queue
    pusher,     \* the audio thread: idle, or between the queue and the flag
    drainer,    \* the session thread: idle, or the step of drain it has done
    taken,      \* the packets that drain took
    selected,   \* selected_format is Some
    capture,    \* the running capture, or 0
    captures,   \* captures started so far
    replies,    \* the server was told of the last OPEN: none, open, refused
    sent        \* the last packets sent, and the capture that was the newest then

vars == <<packets, pending, inputs, pusher, drainer, taken, selected, capture, captures,
          replies, sent>>

Init ==
    /\ packets = <<>> /\ pending = FALSE /\ inputs = 0
    /\ pusher = "idle" /\ drainer = "idle" /\ taken = <<>>
    /\ selected = FALSE /\ capture = 0 /\ captures = 0
    /\ replies = "none" /\ sent = [packets |-> <<>>, newest |-> 0]

TypeOK ==
    /\ packets \in Seq(1 .. MaxCaptures) /\ Len(packets) <= Capacity
    /\ taken \in Seq(1 .. MaxCaptures)
    /\ pending \in BOOLEAN /\ selected \in BOOLEAN
    /\ inputs \in 0 .. MaxInputs + 1
    /\ captures \in 0 .. MaxCaptures /\ capture \in {0, captures}
    /\ pusher \in {"idle", "pushed"}
    /\ drainer \in {"idle", "taken", "cleared", "rearming"}
    /\ replies \in {"none", "open", "refused"}

(***************************************************************************)
(* The audio thread: push.                                                 *)
(***************************************************************************)
Pushed(queue, n) == Append(IF Len(queue) = Capacity THEN Tail(queue) ELSE queue, n)

\* A packet that finds the queue locked is dropped: then nothing changes.
Push ==
    /\ capture # 0 /\ pusher = "idle"
    /\ packets' = Pushed(packets, capture)
    /\ pusher' = "pushed"
    /\ UNCHANGED <<pending, inputs, drainer, taken, selected, capture, captures, replies, sent>>

\* swap(true), and the input unless one was announced.
Announced == pending' = TRUE /\ inputs' = IF pending THEN inputs ELSE inputs + 1

Notify ==
    /\ pusher = "pushed" /\ inputs <= MaxInputs
    /\ Announced
    /\ pusher' = "idle"
    /\ UNCHANGED <<packets, drainer, taken, selected, capture, captures, replies, sent>>

(***************************************************************************)
(* The session thread: drain, in its steps.                                *)
(***************************************************************************)
Take ==
    /\ drainer = "idle" /\ inputs > 0
    /\ inputs' = inputs - 1
    /\ taken' = packets /\ packets' = <<>>
    /\ drainer' = "taken"
    /\ UNCHANGED <<pending, pusher, selected, capture, captures, replies, sent>>

Clear ==
    /\ drainer = "taken"
    /\ pending' = FALSE
    /\ drainer' = "cleared"
    /\ UNCHANGED <<packets, inputs, pusher, taken, selected, capture, captures, replies, sent>>

\* Variant for mutation: what was pushed in the meantime is not looked for.
CheckNothing ==
    /\ drainer = "cleared"
    /\ drainer' = "idle" /\ sent' = [packets |-> taken, newest |-> captures] /\ taken' = <<>>
    /\ UNCHANGED <<packets, pending, inputs, pusher, selected, capture, captures, replies>>

Check ==
    /\ drainer = "cleared"
    /\ IF packets # <<>> THEN drainer' = "rearming" /\ UNCHANGED <<taken, sent>>
       ELSE drainer' = "idle" /\ sent' = [packets |-> taken, newest |-> captures] /\ taken' = <<>>
    /\ UNCHANGED <<packets, pending, inputs, pusher, selected, capture, captures, replies>>

Rearm ==
    /\ drainer = "rearming" /\ inputs <= MaxInputs
    /\ Announced
    /\ drainer' = "idle" /\ sent' = [packets |-> taken, newest |-> captures] /\ taken' = <<>>
    /\ UNCHANGED <<packets, pusher, selected, capture, captures, replies>>

(***************************************************************************)
(* The session thread: the server's messages.                              *)
(***************************************************************************)
\* process_formats: the microphone has one of the formats offered, or none.
ProcessFormats ==
    /\ drainer = "idle"
    /\ selected' \in BOOLEAN
    /\ UNCHANGED <<packets, pending, inputs, pusher, drainer, taken, capture, captures,
                   replies, sent>>

\* stop_capture joins the audio thread, which finishes the packet it is at.
Stopped == pusher = "idle"

\* process_open: a capture starts from an empty queue.  One that takes too long is given
\* up, and may have queued packets by then.
Start ==
    /\ captures < MaxCaptures
    /\ captures' = captures + 1
    /\ \/ /\ capture' = captures' /\ replies' = "open"
          /\ packets' = <<>> /\ pending' = FALSE /\ UNCHANGED inputs
       \/ /\ capture' = 0 /\ replies' = "refused"
          /\ \/ packets' = <<>> /\ pending' = FALSE /\ UNCHANGED inputs
             \/ packets' = <<captures'>> /\ pending' = TRUE /\ inputs' = inputs + 1

ProcessOpen ==
    /\ drainer = "idle" /\ inputs <= MaxInputs
    /\ IF selected THEN Stopped /\ Start
       ELSE replies' = "refused" /\ UNCHANGED <<packets, pending, inputs, capture, captures>>
    /\ UNCHANGED <<pusher, drainer, taken, selected, sent>>

Close ==
    /\ drainer = "idle" /\ Stopped
    /\ capture' = 0 /\ replies' = "none"
    /\ packets' = <<>> /\ pending' = FALSE
    /\ UNCHANGED <<inputs, pusher, drainer, taken, selected, captures, sent>>

Next == \/ Push \/ Notify \/ Take \/ Clear \/ Check \/ Rearm
        \/ ProcessFormats \/ ProcessOpen \/ Close

Spec == Init /\ [][Next]_vars

(***************************************************************************)
(* Properties.                                                             *)
(***************************************************************************)
\* Packets that wait are announced: an input is in the session loop's queue, or a thread
\* is about to send it or to look at the queue.
NothingUnheard ==
    packets # <<>> => inputs > 0 \/ pusher = "pushed" \/ drainer # "idle"

\* The session sends only what the capture it started last has recorded.
OnlyTheNewest == \A i \in DOMAIN sent.packets : sent.packets[i] = sent.newest

(***************************************************************************)
(* Why: the invariant that holds at each step of the threads.              *)
(***************************************************************************)
\* The flag is set for an input that waits, or for the drain that is about to clear it.
FlagIsHeard == pending => inputs > 0 \/ drainer = "taken"

\* No packet outlives its capture: not in the queue, nor in the hands of drain.
PacketsOfNewest ==
    /\ \A i \in DOMAIN packets : packets[i] = captures
    /\ \A i \in DOMAIN taken : taken[i] = captures
    /\ drainer = "idle" => taken = <<>>

Inv == TypeOK /\ FlagIsHeard /\ NothingUnheard /\ PacketsOfNewest /\ OnlyTheNewest
=============================================================================
