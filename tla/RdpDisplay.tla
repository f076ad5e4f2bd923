------------------------------- MODULE RdpDisplay -------------------------------
(***************************************************************************)
(* The display layout of an RDP session (plugins/rdp/src/display.rs): the  *)
(* host resizes its window and plugs monitors, the server tells its limits *)
(* when its channel opens, and the session loop sends the layout that is   *)
(* wanted once all of them are known.  Channel and loop share the state    *)
(* behind one lock.                                                        *)
(*                                                                         *)
(* A layout is the number of its monitors and that of the wish it is from. *)
(***************************************************************************)
EXTENDS Integers, Sequences

CONSTANTS MaxWishes,    \* bound: of the host
          MaxOpens,     \* bound: openings of the channel
          MaxMonitors   \* bound: monitors of a layout

VARIABLES
    viewport, monitors, \* RdpDisplayState: layouts, and NoLayout for None
    all,        \* use_all_monitors
    limit,      \* limits: the monitors that the server takes, 0 for None
    sent,       \* what was sent through the channel that is open
    ready,      \* the session loop finds the channel there and ready
    reactivating,
    alive,      \* the session
    inputs,     \* the session loop's input queue
    server,     \* the layout that the server has
    wishes, opens,
    viewed, plugged \* the last window and the last monitors the loop was told of

vars == <<viewport, monitors, all, limit, sent, ready, reactivating, alive, inputs, server,
          wishes, opens, viewed, plugged>>

NoLayout == [count |-> 0, id |-> 0]
Layout(count, id) == [count |-> count, id |-> id]
Layouts  == [count : 0 .. MaxMonitors, id : 0 .. MaxWishes]

Init ==
    /\ all \in BOOLEAN
    /\ viewport = Layout(1, 0)
    /\ \E n \in 1 .. MaxMonitors :
         /\ monitors = IF all /\ n > 1 THEN Layout(n, 0) ELSE NoLayout
         /\ plugged = Layout(n, 0)
    /\ limit = 0 /\ sent = NoLayout /\ ready = FALSE
    /\ reactivating = FALSE /\ alive = TRUE /\ inputs = <<>>
    /\ server = NoLayout /\ wishes = 0 /\ opens = 0
    /\ viewed = Layout(1, 0)

TypeOK ==
    /\ viewport \in Layouts /\ monitors \in Layouts /\ sent \in Layouts
    /\ all \in BOOLEAN /\ ready \in BOOLEAN /\ reactivating \in BOOLEAN /\ alive \in BOOLEAN
    /\ limit \in 0 .. MaxMonitors

Wanted == IF monitors = NoLayout THEN viewport ELSE monitors

\* The host: a new size of the window, or new monitors.
Wish ==
    /\ wishes < MaxWishes
    /\ wishes' = wishes + 1
    /\ \E resize \in BOOLEAN, n \in 0 .. MaxMonitors :
         inputs' = Append(inputs, [resize |-> resize, count |-> IF resize THEN 1 ELSE n,
                                   id |-> wishes'])
    /\ UNCHANGED <<viewport, monitors, all, limit, sent, ready, reactivating, alive, server,
                   opens, viewed, plugged>>

\* take_update, for a state that is to be: a layout past the limits ends the session.
TakeUpdate(layout, max, last) ==
    IF max = 0 \/ (layout = last /\ layout.count <= max)
    THEN sent' = last /\ UNCHANGED <<server, alive>>
    ELSE IF layout.count > max THEN alive' = FALSE /\ sent' = last /\ UNCHANGED server
    ELSE sent' = layout /\ server' = layout /\ UNCHANGED alive

\* encode_pending_display_layout
Encode(layout) ==
    IF ready THEN TakeUpdate(layout, limit, sent) ELSE UNCHANGED <<sent, server, alive>>

\* resize, and update_monitors: one monitor stands for the window.
TakeInput ==
    /\ alive /\ inputs # <<>>
    /\ LET input  == Head(inputs)
           layout == Layout(input.count, input.id)
           taken  == all /\ input.count > 0
       IN /\ viewport' = IF input.resize \/ (taken /\ input.count = 1) THEN layout ELSE viewport
          /\ monitors' = IF input.resize \/ ~taken THEN monitors
                         ELSE IF input.count > 1 THEN layout ELSE NoLayout
          /\ viewed' = IF input.resize THEN layout ELSE viewed
          /\ plugged' = IF input.resize \/ input.count = 0 THEN plugged ELSE layout
    /\ IF reactivating THEN UNCHANGED <<sent, server, alive>> ELSE Encode(Wanted')
    /\ inputs' = Tail(inputs)
    /\ UNCHANGED <<all, limit, ready, reactivating, wishes, opens>>

\* capabilities: a channel that opens again knows of no layout.
Capabilities(max) == TakeUpdate(Wanted, max, NoLayout)

ServerOpens ==
    /\ alive /\ opens < MaxOpens
    /\ opens' = opens + 1
    /\ \E max \in 1 .. MaxMonitors : limit' = max /\ Capabilities(max)
    /\ ready' = TRUE
    /\ UNCHANGED <<viewport, monitors, all, reactivating, inputs, wishes, viewed, plugged>>

\* The server closes the channel, and forgets the layout.
ServerCloses ==
    /\ alive /\ ready
    /\ ready' = FALSE
    /\ server' = NoLayout
    /\ UNCHANGED <<viewport, monitors, all, limit, sent, reactivating, alive, inputs, wishes,
                   opens, viewed, plugged>>

Deactivate ==
    /\ alive /\ ~reactivating
    /\ reactivating' = TRUE
    /\ UNCHANGED <<viewport, monitors, all, limit, sent, ready, alive, inputs, server, wishes,
                   opens, viewed, plugged>>

Reactivate ==
    /\ alive /\ reactivating
    /\ reactivating' = FALSE
    /\ Encode(Wanted)
    /\ UNCHANGED <<viewport, monitors, all, limit, ready, inputs, wishes, opens, viewed, plugged>>

Next == Wish \/ TakeInput \/ ServerOpens \/ ServerCloses \/ Deactivate \/ Reactivate

Spec == Init /\ [][Next]_vars

(***************************************************************************)
(* Properties.                                                             *)
(***************************************************************************)
\* What the host wants: its monitors if it uses them all and has several, else the
\* newer of its window and its one monitor.
Newest ==
    IF all /\ plugged.count > 1 THEN plugged
    ELSE IF all /\ plugged.id > viewed.id THEN plugged ELSE viewed

\* Once the channel is open and no reactivation is under way the server has the newest
\* layout, however wishes, openings and reactivations meet.
ServerHasLayout == alive /\ ready /\ ~reactivating => server = Newest

(***************************************************************************)
(* Why: the invariant that holds at each step of channel and loop.         *)
(***************************************************************************)
WishRecords == [resize : BOOLEAN, count : 0 .. MaxMonitors, id : 1 .. MaxWishes]

\* The wishes that wait are in order, and newer than those the loop was told of.
WishesAscend ==
    /\ wishes \in 0 .. MaxWishes
    /\ viewed \in Layouts /\ plugged \in Layouts
    /\ viewed.id <= wishes /\ plugged.id <= wishes
    /\ inputs \in Seq(WishRecords)
    /\ \A i \in DOMAIN inputs :
          /\ inputs[i].resize => inputs[i].count = 1
          /\ viewed.id < inputs[i].id /\ plugged.id < inputs[i].id /\ inputs[i].id <= wishes
          /\ \A j \in DOMAIN inputs : i < j => inputs[i].id < inputs[j].id

\* The state under the lock holds the newest layout: in monitors if there are several,
\* else in viewport.
StateHasNewest ==
    /\ viewport.count = 1 /\ viewed.count = 1 /\ plugged.count > 0
    /\ IF all /\ plugged.count > 1 THEN monitors = plugged
       ELSE monitors = NoLayout /\ viewport = Newest

\* What was sent through the channel that is open is what the server has.
SentIsServers ==
    alive /\ ready => /\ limit > 0 /\ server = sent
                      /\ reactivating \/ sent = Wanted

Inv == TypeOK /\ WishesAscend /\ StateHasNewest /\ SentIsServers
=============================================================================
