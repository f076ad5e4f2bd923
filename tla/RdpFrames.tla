----------------------------- MODULE RdpFrames ------------------------------
(***************************************************************************)
(* The bitmap graphics path of the RDP helper, from a decoded server PDU   *)
(* to the event handed to the host: the client thread's frame state        *)
(* (client_session.rs, frame.rs, reactivation.rs), the two output channels *)
(* (main.rs: an unbounded control channel and a bounded graphics queue)    *)
(* and the worker thread's drain loop (session_loop.rs).  The two threads  *)
(* share only the channels; every action below performs at most one        *)
(* channel operation.                                                      *)
(*                                                                         *)
(* The client thread goes round a loop: it flushes an owed base frame,     *)
(* then the accumulator, then waits in a select! for a PDU, an input, the  *)
(* accumulator's timer or a periodic tick, handles what that brought, and  *)
(* returns to the top.  The second flush may leave a base frame owed while *)
(* the thread waits: it is sent at the next return to the top.             *)
(*                                                                         *)
(* Data: the desktop is a set of regions, and the content of a region is   *)
(* the number of the PDU that last painted it (0 in a new canvas).  A      *)
(* rectangle, or a batch of them, is the set of regions it covers.  Which  *)
(* sets are large enough to be sent as a whole frame is a parameter.       *)
(*                                                                         *)
(* EGFX is disabled in this module (EgfxSessionBridge::disabled).          *)
(***************************************************************************)
EXTENDS Integers, Sequences, FiniteSets

CONSTANTS
    Regions,       \* the regions of the desktop
    Large,         \* the sets of regions that frame.rs promotes to a base frame
    Capacity,      \* RDP_CLIENT_OUTPUT_QUEUE_CAPACITY
    MaxPaints,     \* bound: PDUs that paint
    MaxRequests,   \* bound: frames the UI requests
    MaxEpoch       \* bound: display reactivations

ASSUME RegionsAssumption == IsFiniteSet(Regions) /\ Regions # {}
ASSUME LargeAssumption == Large \subseteq SUBSET Regions /\ Regions \in Large
ASSUME CapacityAssumption == Capacity \in Nat \ {0}
ASSUME BoundsAssumption ==
    MaxPaints \in Nat /\ MaxRequests \in Nat /\ MaxEpoch \in Nat

VARIABLES
    \* The client thread: its place in the loop, ClientRdpFrameState, the image,
    \* RdpReactivation.
    selecting,     \* past the loop top, until an arm of the select! fires
    image,         \* the decoded desktop
    sync,          \* graphics_sync
    acc,           \* graphics_accumulator: the regions waiting for their flush
    epoch,         \* graphics_epoch
    awaiting,      \* awaiting_reactivation
    pendingBase,   \* pending_base_frame
    pendingReady,  \* pending_base_frame_can_publish_ready
    published,     \* published_first_desktop_frame
    reactivation,  \* None, before, or after the new canvas was negotiated
    gotGraphics,   \* RdpReactivation.received_graphics
    updates,       \* GraphicsUpdate outputs of the last PDU, still to be handled
    announcing,    \* a base frame was queued, the ready events not yet
    paints,        \* PDUs that painted so far
    requests,      \* RequestFrame inputs so far
    \* The channels.
    control,       \* the control channel
    graphics,      \* the graphics queue
    \* The worker thread, and the host behind its event writer.
    drain,         \* which channel drain_client_rdp_outputs reads next
    shown,         \* what the events handed to the writer so far amount to
    connected      \* the Connected event was handed to the writer

frameState == <<sync, acc, epoch, awaiting, pendingBase, pendingReady, published>>
sessionState == <<image, frameState, reactivation, gotGraphics, updates, announcing,
                  paints, requests>>
clientVars == <<selecting, sessionState>>
hostVars   == <<drain, shown, connected>>
vars       == <<clientVars, control, graphics, hostVars>>

-----------------------------------------------------------------------------
(* The data *)

Pictures == [Regions -> Nat]
Blank    == [r \in Regions |-> 0]

\* Variant for mutation: the copied rectangle loses its place in the desktop.
CropUnplaced(px, rects) == [r \in rects |-> px[r]]

\* A picture in which only the regions of rects carry content.
Crop(px, rects) == [r \in Regions |-> IF r \in rects THEN px[r] ELSE 0]

FrameEvent(px, e) ==
    [kind |-> "frame", epoch |-> e, rects |-> Regions, px |-> px]
UpdateEvent(px, e, rects) ==
    [kind |-> "update", epoch |-> e, rects |-> rects, px |-> Crop(px, rects)]
CursorEvent ==
    [kind |-> "cursor", epoch |-> 0, rects |-> {}, px |-> Blank]
ResetEvent(e)  == [kind |-> "reset", epoch |-> e]
ConnectedEvent == [kind |-> "connected", epoch |-> 0]

GraphicsEvents ==
         [kind: {"frame"},  epoch: Nat, rects: {Regions},       px: Pictures]
    \cup [kind: {"update"}, epoch: Nat, rects: SUBSET Regions, px: Pictures]
    \cup [kind: {"cursor"}, epoch: Nat, rects: {{}},            px: Pictures]
ControlEvents  == [kind: {"reset", "connected"}, epoch: Nat]
Shown          == [epoch: Nat, framed: BOOLEAN, px: Pictures]

\* The host's framebuffer after one more graphics event.  A frame starts or
\* replaces the picture of its epoch; an update patches a picture of the same
\* epoch; whatever belongs to a retired epoch is ignored.
Applied(s, ev) ==
    IF ev.kind = "frame" /\ ev.epoch >= s.epoch
      THEN [epoch |-> ev.epoch, framed |-> TRUE, px |-> ev.px]
    ELSE IF ev.kind = "update" /\ ev.epoch = s.epoch /\ s.framed
      THEN [s EXCEPT !.px = [r \in Regions |->
                               IF r \in ev.rects THEN ev.px[r] ELSE s.px[r]]]
    ELSE s

\* ... and after a FrameStreamReset, which retires the older epochs.
Reset(s, e) ==
    IF e > s.epoch THEN [epoch |-> e, framed |-> FALSE, px |-> Blank] ELSE s

-----------------------------------------------------------------------------
(* The client thread: the graphics functions of client_session.rs *)

NeedsBase == sync = "NeedsBase"

\* Variant for mutation: the base frame joins the queue instead of replacing it.
SendBaseAppending(canPublishReady) ==
    /\ graphics' = Append(graphics, FrameEvent(image, epoch))
    /\ acc' = {}
    /\ sync' = "Synced"
    /\ pendingBase' = FALSE
    /\ pendingReady' = FALSE
    /\ announcing' = (canPublishReady /\ ~published)

\* send_client_rdp_base_frame: a base frame replaces the whole queue, so the
\* queue never refuses it.  The ready events follow it on the control channel.
SendBase(canPublishReady) ==
    /\ graphics' = <<FrameEvent(image, epoch)>>
    /\ acc' = {}
    /\ sync' = "Synced"
    /\ pendingBase' = FALSE
    /\ pendingReady' = FALSE
    /\ announcing' = (canPublishReady /\ ~published)

\* Variant for mutation: the update refused by a full queue is just dropped.
SendUpdateForgetting(rects) ==
    /\ acc' = {}
    /\ graphics' = IF Len(graphics) < Capacity
                     THEN Append(graphics, UpdateEvent(image, epoch, rects))
                     ELSE graphics
    /\ UNCHANGED <<sync, pendingBase, pendingReady, announcing>>

\* Variant for mutation: a base frame is needed, but only the next paint of the
\* server makes the client send it.
SendUpdateWaiting(rects) ==
    /\ acc' = {}
    /\ IF Len(graphics) < Capacity
         THEN /\ graphics' = Append(graphics, UpdateEvent(image, epoch, rects))
              /\ UNCHANGED sync
         ELSE sync' = "NeedsBase" /\ UNCHANGED graphics
    /\ UNCHANGED <<pendingBase, pendingReady, announcing>>

\* send_client_rdp_graphics_event for a dirty update of the accumulated rects;
\* a full queue drops it and asks for a base frame.
SendUpdate(rects) ==
    /\ acc' = {}
    /\ IF Len(graphics) < Capacity
         THEN /\ graphics' = Append(graphics, UpdateEvent(image, epoch, rects))
              /\ UNCHANGED <<sync, pendingBase>>
         ELSE /\ pendingBase' = TRUE
              /\ sync' = "NeedsBase"
              /\ UNCHANGED graphics
    /\ UNCHANGED <<pendingReady, announcing>>

\* flush_rdp_graphics_updates, when the accumulator's window has elapsed.
Flush(rects) ==
    IF pendingBase \/ NeedsBase \/ rects = Regions
      THEN SendBase(TRUE)
      ELSE SendUpdate(rects)

\* The outputs of the last arm are handled, and the loop starts again ...
AtLoopTop == ~selecting /\ updates = {} /\ ~announcing

\* ... or its top is done, and the thread waits for an arm of the select!.
Selecting == selecting /\ ~announcing

\* flush_pending_rdp_base_frame has something to send.
Owing == pendingBase /\ ~awaiting

Init ==
    /\ selecting = FALSE
    /\ image = Blank
    /\ sync = "NeedsBase"
    /\ acc = {}
    /\ epoch = 0
    /\ awaiting = FALSE
    /\ pendingBase = FALSE
    /\ pendingReady = FALSE
    /\ published = FALSE
    /\ reactivation = "none"
    /\ gotGraphics = FALSE
    /\ updates = {}
    /\ announcing = FALSE
    /\ paints = 0
    /\ requests = 0
    /\ control = <<>>
    /\ graphics = <<>>
    /\ drain = "control"
    /\ shown = [epoch |-> 0, framed |-> FALSE, px |-> Blank]
    /\ connected = FALSE

\* A server PDU paints some rectangles.  The image changes at once, the
\* GraphicsUpdate outputs are handled one after the other.
Painted(rects) ==
    [r \in Regions |-> IF r \in rects THEN paints + 1 ELSE image[r]]

ServerPaints ==
    /\ Selecting /\ selecting' = FALSE
    /\ reactivation = "none"
    /\ paints < MaxPaints
    /\ \E outputs \in SUBSET ((SUBSET Regions) \ {{}}) :
         /\ Cardinality(outputs) \in 1 .. 2
         /\ image' = Painted(UNION outputs)
         /\ updates' = outputs
    /\ paints' = paints + 1
    /\ UNCHANGED <<frameState, reactivation, gotGraphics, announcing, requests,
                   control, graphics, hostVars>>

\* queue_bounded_dirty_rect: the accumulator merges touching rectangles, and the
\* cheapest pairs above its limit; what it covers may be more than was painted.
Merged(rect) == {rects \in SUBSET Regions : acc \cup rect \subseteq rects}

\* should_promote_to_base.
Promoted(rects) == rects \in Large

\* send_client_rdp_graphics_update: the first frame of a canvas and whole-screen
\* updates go out as a base frame; others join the accumulator.
HandleUpdate(rect) ==
    /\ ~announcing
    /\ updates' = updates \ {rect}
    /\ IF awaiting
         THEN UNCHANGED <<graphics, acc, sync, pendingBase, pendingReady, announcing>>
         ELSE IF NeedsBase \/ rect = Regions
         THEN SendBase(TRUE)
         ELSE \E rects \in Merged(rect) :
                IF Promoted(rects)
                  THEN SendBase(TRUE)
                  ELSE \/ Flush(rects)
                       \/ /\ acc' = rects
                          /\ UNCHANGED <<graphics, sync, pendingBase,
                                         pendingReady, announcing>>
    /\ UNCHANGED <<selecting, image, epoch, awaiting, published, reactivation,
                   gotGraphics, paints, requests, control, hostVars>>

\* flush_pending_rdp_base_frame: the loop top first sends the base frame owed.
\* It empties the accumulator, so that the flush after it finds nothing.
FlushPendingBase ==
    /\ AtLoopTop /\ selecting' = TRUE
    /\ Owing
    /\ SendBase(pendingReady)
    /\ UNCHANGED <<image, epoch, awaiting, published, reactivation, gotGraphics,
                   updates, paints, requests, control, hostVars>>

\* flush_pending_rdp_graphics_updates: the accumulator's window has elapsed.
FlushAccumulator ==
    /\ ~awaiting /\ acc # {}
    /\ Flush(acc)
    /\ UNCHANGED <<image, epoch, awaiting, published, reactivation, gotGraphics,
                   updates, paints, requests, control, hostVars>>

\* The loop top, when no base frame is owed: a full queue leaves one owed here,
\* and the thread goes on to wait.
FlushAtLoopTop ==
    /\ AtLoopTop /\ ~Owing /\ selecting' = TRUE
    /\ FlushAccumulator

\* The timer of the select!; the loop top comes next.
FlushOnTimer ==
    /\ Selecting /\ selecting' = FALSE
    /\ FlushAccumulator

\* The loop top has nothing to send: the window is empty or has not elapsed.
EnterSelect ==
    /\ AtLoopTop /\ ~Owing /\ selecting' = TRUE
    /\ UNCHANGED <<sessionState, control, graphics, hostVars>>

\* The ready events of the first desktop frame.
Announce ==
    /\ announcing
    /\ control' = Append(control, ConnectedEvent)
    /\ published' = TRUE
    /\ announcing' = FALSE
    /\ UNCHANGED <<selecting, image, sync, acc, epoch, awaiting, pendingBase,
                   pendingReady, reactivation, gotGraphics, updates, paints, requests,
                   graphics, hostVars>>

\* RdpInputEvent::RequestFrame.
RequestFrame ==
    /\ Selecting /\ selecting' = FALSE
    /\ requests < MaxRequests
    /\ requests' = requests + 1
    /\ IF awaiting
         THEN /\ sync' = "NeedsBase"
              /\ UNCHANGED <<graphics, acc, pendingBase, pendingReady, announcing>>
         ELSE SendBase(FALSE)
    /\ UNCHANGED <<image, epoch, awaiting, published, reactivation, gotGraphics,
                   updates, paints, control, hostVars>>

\* A pointer position: the one event a full graphics queue may drop.
PointerPosition ==
    /\ Selecting /\ selecting' = FALSE
    /\ reactivation # "waiting"
    /\ graphics' = IF Len(graphics) < Capacity
                     THEN Append(graphics, CursorEvent) ELSE graphics
    /\ UNCHANGED <<sessionState, control, hostVars>>

\* clipboard_cleanup.tick: every few seconds the thread returns to the loop top,
\* as it does after any PDU or input that brings no graphics.
ClipboardTick ==
    /\ Selecting /\ selecting' = FALSE
    /\ UNCHANGED <<sessionState, control, graphics, hostVars>>

-----------------------------------------------------------------------------
(* The client thread: display reactivation *)

\* Variant for mutation: frames keep flowing while the canvas is replaced.
DeactivateAllNotAwaiting ==
    /\ Selecting /\ selecting' = FALSE
    /\ epoch < MaxEpoch
    /\ epoch' = epoch + 1
    /\ control' = Append(control, ResetEvent(epoch + 1))
    /\ sync' = "NeedsBase"
    /\ acc' = {}
    /\ reactivation' = "waiting"
    /\ gotGraphics' = FALSE
    /\ UNCHANGED <<image, awaiting, pendingBase, pendingReady, published, updates,
                   announcing, paints, requests, graphics, hostVars>>

\* DeactivateAll.  A deactivation that interrupts a negotiated one retires its
\* epoch too; one that arrives before the negotiation keeps the epoch.
DeactivateAll ==
    /\ Selecting /\ selecting' = FALSE
    /\ IF ~awaiting \/ reactivation = "negotiated"
         THEN /\ epoch < MaxEpoch
              /\ epoch' = epoch + 1
              /\ control' = Append(control, ResetEvent(epoch + 1))
              /\ sync' = "NeedsBase"
              /\ acc' = {}
              /\ pendingBase' = FALSE
              /\ pendingReady' = FALSE
         ELSE UNCHANGED <<epoch, control, sync, acc, pendingBase, pendingReady>>
    /\ awaiting' = TRUE
    /\ reactivation' = "waiting"
    /\ gotGraphics' = FALSE
    /\ UNCHANGED <<image, published, updates, announcing, paints, requests,
                   graphics, hostVars>>

\* The handshake reaches its finalization: a new canvas.
Negotiate ==
    /\ Selecting /\ selecting' = FALSE
    /\ reactivation = "waiting"
    /\ image' = Blank
    /\ reactivation' = "negotiated"
    /\ UNCHANGED <<frameState, gotGraphics, updates, announcing, paints, requests,
                   control, graphics, hostVars>>

\* Graphics decoded during the handshake are not published; those of the new
\* canvas are remembered.
PaintsWhileReactivating ==
    /\ Selecting /\ selecting' = FALSE
    /\ reactivation # "none"
    /\ paints < MaxPaints
    /\ \E rects \in (SUBSET Regions) \ {{}} : image' = Painted(rects)
    /\ paints' = paints + 1
    /\ gotGraphics' = (gotGraphics \/ reactivation = "negotiated")
    /\ UNCHANGED <<frameState, reactivation, updates, announcing, requests,
                   control, graphics, hostVars>>

\* The Font Map ends the handshake; graphics received meanwhile are published
\* as one update of the whole canvas.
FinishReactivation ==
    /\ Selecting /\ selecting' = FALSE
    /\ reactivation = "negotiated"
    /\ reactivation' = "none"
    /\ awaiting' = FALSE
    /\ sync' = "NeedsBase"
    /\ acc' = {}
    /\ pendingBase' = FALSE
    /\ pendingReady' = FALSE
    /\ updates' = IF gotGraphics THEN {Regions} ELSE {}
    /\ UNCHANGED <<image, epoch, published, gotGraphics, announcing, paints,
                   requests, control, graphics, hostVars>>

-----------------------------------------------------------------------------
(* The worker thread: drain_client_rdp_outputs *)

DrainControl ==
    /\ drain = "control" /\ control # <<>>
    /\ control' = Tail(control)
    /\ IF Head(control).kind = "reset"
         THEN /\ shown' = Reset(shown, Head(control).epoch)
              /\ UNCHANGED connected
         ELSE /\ connected' = TRUE
              /\ UNCHANGED shown
    /\ UNCHANGED <<clientVars, graphics, drain>>

\* try_recv found the control channel empty; the client thread may send before
\* the graphics queue is read.
DrainSeesNoControl ==
    /\ drain = "control" /\ control = <<>>
    /\ drain' = "graphics"
    /\ UNCHANGED <<clientVars, control, graphics, shown, connected>>

DrainGraphics ==
    /\ drain = "graphics"
    /\ drain' = "control"
    /\ IF graphics = <<>>
         THEN UNCHANGED <<graphics, shown>>
         ELSE /\ graphics' = Tail(graphics)
              /\ shown' = Applied(shown, Head(graphics))
    /\ UNCHANGED <<clientVars, control, connected>>

-----------------------------------------------------------------------------

ClientStep ==
    \/ \E rect \in updates : HandleUpdate(rect)
    \/ Announce
    \/ FlushPendingBase
    \/ FlushAtLoopTop
    \/ EnterSelect
    \/ FlushOnTimer
    \/ ClipboardTick

Environment ==
    \/ ServerPaints
    \/ RequestFrame
    \/ PointerPosition
    \/ DeactivateAll
    \/ Negotiate
    \/ PaintsWhileReactivating
    \/ FinishReactivation

DrainStep == DrainControl \/ DrainSeesNoControl \/ DrainGraphics

Next == ClientStep \/ Environment \/ DrainStep

Spec == Init /\ [][Next]_vars

\* Both threads keep running, a thread that waits is woken by the tick at the
\* latest, and the accumulator's window elapses (RDP_GRAPHICS_ACCUMULATOR_MAX_WINDOW)
\* though other arms of the select! keep firing before its timer.  The server and
\* the user owe nothing.
Fairness ==
    /\ WF_vars(ClientStep)
    /\ SF_vars(FlushAtLoopTop \/ FlushOnTimer)
    /\ WF_vars(DrainStep)

FairSpec == Spec /\ Fairness

-----------------------------------------------------------------------------
(* Properties *)

\* The type of every variable.
FlagsOK ==
    /\ selecting \in BOOLEAN
    /\ awaiting \in BOOLEAN /\ pendingBase \in BOOLEAN /\ pendingReady \in BOOLEAN
    /\ published \in BOOLEAN /\ gotGraphics \in BOOLEAN
    /\ announcing \in BOOLEAN /\ connected \in BOOLEAN

DataOK ==
    /\ image \in Pictures
    /\ sync \in {"NeedsBase", "Synced"}
    /\ acc \subseteq Regions
    /\ epoch \in Nat
    /\ reactivation \in {"none", "waiting", "negotiated"}
    /\ updates \subseteq SUBSET Regions
    /\ paints \in Nat /\ requests \in Nat
    /\ control \in Seq(ControlEvents)
    /\ graphics \in Seq(GraphicsEvents)
    /\ drain \in {"control", "graphics"}
    /\ shown \in Shown

TypeOK == FlagsOK /\ DataOK

\* The events of queue q patch a picture of epoch e that exists: host s has one,
\* or it is at the head of the queue; and they are all of that epoch.
HasBase(s, q, e) ==
    /\ \A i \in DOMAIN q : q[i].kind # "cursor" => q[i].epoch = e
    /\ \/ s.framed /\ s.epoch = e
       \/ q # <<>> /\ q[1].kind = "frame"

\* While the client thread sends dirty updates, what it queued has a base frame
\* of the current epoch under it.  (A base frame dropped or superseded, or a
\* queue left over from the canvas before a reactivation, would break it.)
UpdatesHaveBase == sync = "Synced" => HasBase(shown, graphics, epoch)

\* Once queue q is drained, host s shows v in region r.
WillShow(s, q, r, v) ==
    \/ /\ s.px[r] = v
       /\ \A i \in DOMAIN q : r \notin q[i].rects
    \/ \E i \in DOMAIN q :
         /\ r \in q[i].rects
         /\ q[i].px[r] = v
         /\ \A j \in DOMAIN q : j > i => r \notin q[j].rects

\* No painted region is forgotten: while the client thread believes the host in
\* sync, a region that is neither in the accumulator nor in an update still to
\* be handled reaches the host with its present content.  (An update dropped by
\* the full queue, or an accumulator cleared without a frame, would break it.)
NothingLost ==
    sync = "Synced" =>
       \A r \in Regions \ (acc \cup UNION updates) :
          WillShow(shown, graphics, r, image[r])

\* A base frame is owed only while dirty updates are held back and none are
\* accumulated (no timer of the select! will send it), a canvas under reactivation
\* owes and sends nothing, and a thread that waits has handled every output.
HeldBack ==
    /\ pendingBase => sync = "NeedsBase" /\ acc = {}
    /\ awaiting => /\ sync = "NeedsBase" /\ ~pendingBase /\ acc = {}
                   /\ updates = {} /\ ~announcing
    /\ awaiting <=> reactivation # "none"
    /\ selecting => updates = {}

\* An owed base frame is sent or its canvas retired: no paint, input, timer or
\* reactivation that finds one owed makes the client thread forget it.
OwedKept ==
    pendingBase => pendingBase' \/ graphics' = <<FrameEvent(image, epoch)>> \/ epoch' > epoch

\* The helper mirrors the screen: the abstract specification of the stream.
Mirror == INSTANCE ScreenMirror WITH screen <- image, gen <- epoch, mirror <- shown
MirrorsScreen == Mirror!Spec

\* Whatever was dropped, superseded or delayed on the way, a desktop the server
\* has painted is shown as it is in the end, unless a reactivation retires it.
Converges ==
    (image # Blank /\ ~awaiting) ~>
        (awaiting \/ (shown.framed /\ shown.epoch = epoch /\ shown.px = image))

\* client_session.rs:1123: "Base frames are the synchronization boundary. Queue
\* them through the dedicated path so the first real desktop frame can publish
\* Connected only after the UI has a complete framebuffer."  A session whose
\* desktop the server has painted is announced in the end.
FirstDesktopFrameConnects ==
    (image # Blank /\ ~awaiting) ~> (connected \/ awaiting)
=============================================================================
