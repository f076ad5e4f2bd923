-------------------------- MODULE RdpFramesProofs ---------------------------
(***************************************************************************)
(* Theorems about RdpFrames for every set of regions, queue capacity and   *)
(* bound: the type invariant, and that the graphics stream loses nothing.  *)
(***************************************************************************)
EXTENDS RdpFrames, TLAPS

(* The data: what the actions put together has its type. *)

LEMMA EventTypes ==
    ASSUME NEW px \in Pictures, NEW e \in Nat, NEW rects \in SUBSET Regions
    PROVE  /\ FrameEvent(px, e) \in GraphicsEvents
           /\ UpdateEvent(px, e, rects) \in GraphicsEvents
  BY DEF FrameEvent, UpdateEvent, Crop, Pictures, GraphicsEvents

LEMMA ControlTypes ==
    /\ \A e \in Nat : ResetEvent(e) \in ControlEvents
    /\ ConnectedEvent \in ControlEvents
    /\ Blank \in Pictures
    /\ CursorEvent \in GraphicsEvents
  BY DEF CursorEvent, ResetEvent, ConnectedEvent, Blank, Pictures, GraphicsEvents,
         ControlEvents

LEMMA AppliedType ==
    ASSUME NEW s \in Shown, NEW ev \in GraphicsEvents
    PROVE  Applied(s, ev) \in Shown
  BY DEF Applied, Shown, GraphicsEvents, Pictures

LEMMA ResetType ==
    ASSUME NEW s \in Shown, NEW e \in Nat
    PROVE  Reset(s, e) \in Shown
  BY DEF Reset, Shown, Pictures, Blank

-----------------------------------------------------------------------------
(* The queue: each channel operation preserves what HasBase and WillShow say. *)

LEMMA Appended ==
    ASSUME NEW S, NEW q \in Seq(S), NEW u
    PROVE  /\ DOMAIN q = 1 .. Len(q) /\ Len(q) \in Nat
           /\ DOMAIN Append(q, u) = 1 .. Len(q) + 1
           /\ \A i \in 1 .. Len(q) : Append(q, u)[i] = q[i]
           /\ Append(q, u)[Len(q) + 1] = u
           /\ Append(q, u) # <<>>
  OBVIOUS

LEMMA Taken ==
    ASSUME NEW S, NEW q \in Seq(S), q # <<>>
    PROVE  /\ DOMAIN q = 1 .. Len(q) /\ Len(q) \in Nat \ {0}
           /\ Head(q) = q[1] /\ Head(q) \in S
           /\ \A i \in DOMAIN q : q[i] \in S
           /\ Tail(q) \in Seq(S)
           /\ DOMAIN Tail(q) = 1 .. (Len(q) - 1)
           /\ \A i \in 1 .. (Len(q) - 1) : Tail(q)[i] = q[i + 1]
  OBVIOUS

\* A base frame alone in the queue is a base, and carries every region.
LEMMA BaseQueued ==
    ASSUME NEW s \in Shown, NEW px \in Pictures, NEW e \in Nat
    PROVE  /\ HasBase(s, <<FrameEvent(px, e)>>, e)
           /\ \A r \in Regions : WillShow(s, <<FrameEvent(px, e)>>, r, px[r])
  BY DEF HasBase, WillShow, FrameEvent

\* An update of the current epoch joins the queue.
LEMMA UpdateQueued ==
    ASSUME NEW s \in Shown, NEW q \in Seq(GraphicsEvents), NEW px \in Pictures,
           NEW e \in Nat, NEW rects \in SUBSET Regions, HasBase(s, q, e)
    PROVE  LET q2 == Append(q, UpdateEvent(px, e, rects))
           IN  /\ HasBase(s, q2, e)
               /\ \A r \in rects : WillShow(s, q2, r, px[r])
               /\ \A r \in Regions \ rects :
                     \A v : WillShow(s, q, r, v) => WillShow(s, q2, r, v)
  <1> DEFINE u == UpdateEvent(px, e, rects)
             q2 == Append(q, u)
  <1>1. /\ DOMAIN q2 = 1 .. Len(q) + 1 /\ DOMAIN q = 1 .. Len(q) /\ Len(q) \in Nat
        /\ \A i \in 1 .. Len(q) : q2[i] = q[i]
        /\ q2[Len(q) + 1] = u
        /\ q2 # <<>>
    BY Appended
  <1>2. u.kind = "update" /\ u.epoch = e /\ u.rects = rects
        /\ \A r \in rects : u.px[r] = px[r]
    BY DEF UpdateEvent, Crop
  <1> HIDE DEF u, q2
  <1>3. HasBase(s, q2, e)
    BY <1>1, <1>2 DEF HasBase
  <1>4. \A r \in rects : WillShow(s, q2, r, px[r])
    BY <1>1, <1>2 DEF WillShow
  <1>5. ASSUME NEW r \in Regions \ rects, NEW v, WillShow(s, q, r, v)
        PROVE  WillShow(s, q2, r, v)
    BY <1>1, <1>2, <1>5 DEF WillShow
  <1> QED BY <1>3, <1>4, <1>5 DEF u, q2

\* A pointer position joins the queue.
LEMMA CursorQueued ==
    ASSUME NEW s \in Shown, NEW q \in Seq(GraphicsEvents), NEW e \in Nat
    PROVE  LET q2 == Append(q, CursorEvent)
           IN  /\ HasBase(s, q, e) => HasBase(s, q2, e)
               /\ \A r \in Regions : \A v : WillShow(s, q, r, v) => WillShow(s, q2, r, v)
  <1> DEFINE q2 == Append(q, CursorEvent)
  <1>1. /\ DOMAIN q2 = 1 .. Len(q) + 1 /\ DOMAIN q = 1 .. Len(q) /\ Len(q) \in Nat
        /\ \A i \in 1 .. Len(q) : q2[i] = q[i]
        /\ q2[Len(q) + 1] = CursorEvent
        /\ q2 # <<>>
    BY Appended
  <1>2. CursorEvent.kind = "cursor" /\ CursorEvent.rects = {}
    BY DEF CursorEvent
  <1> HIDE DEF q2
  <1>3. HasBase(s, q, e) => HasBase(s, q2, e)
    BY <1>1, <1>2 DEF HasBase
  <1>4. ASSUME NEW r \in Regions, NEW v, WillShow(s, q, r, v)
        PROVE  WillShow(s, q2, r, v)
    BY <1>1, <1>2, <1>4 DEF WillShow
  <1> QED BY <1>3, <1>4 DEF q2

\* The drain loop hands the head of the queue to the host.
LEMMA HeadDrained ==
    ASSUME NEW s \in Shown, NEW q \in Seq(GraphicsEvents), q # <<>>,
           NEW e \in Nat, s.epoch <= e, HasBase(s, q, e)
    PROVE  /\ HasBase(Applied(s, Head(q)), Tail(q), e)
           /\ \A r \in Regions : \A v :
                 WillShow(s, q, r, v) => WillShow(Applied(s, Head(q)), Tail(q), r, v)
  <1> DEFINE h == Head(q)
             t == Tail(q)
             a == Applied(s, h)
  <1>1. /\ DOMAIN q = 1 .. Len(q) /\ Len(q) \in Nat \ {0}
        /\ h = q[1] /\ h \in GraphicsEvents
        /\ t \in Seq(GraphicsEvents)
        /\ DOMAIN t = 1 .. (Len(q) - 1)
        /\ \A i \in 1 .. (Len(q) - 1) : t[i] = q[i + 1]
    BY Taken
  <1> HIDE DEF h, t
  <1>2. \/ a.framed /\ a.epoch = e
        \/ h.kind = "cursor" /\ a = s
    BY <1>1 DEF HasBase, Applied, Shown, GraphicsEvents
  <1>3. HasBase(a, t, e)
    <2>1. \A i \in DOMAIN t : t[i].kind # "cursor" => t[i].epoch = e
      BY SMTT(20), <1>1 DEF HasBase
    <2>2. a.framed /\ a.epoch = e
      BY <1>1, <1>2 DEF HasBase
    <2> QED BY <2>1, <2>2 DEF HasBase
  <1>4. ASSUME NEW r \in Regions
        PROVE  a.px[r] = IF r \in h.rects THEN h.px[r] ELSE s.px[r]
    BY <1>1, <1>4 DEF HasBase, Applied, Shown, GraphicsEvents, Pictures
  <1>5. ASSUME NEW r \in Regions, NEW v, WillShow(s, q, r, v)
        PROVE  WillShow(a, t, r, v)
    <2>1. CASE s.px[r] = v /\ \A i \in DOMAIN q : r \notin q[i].rects
      <3>1. a.px[r] = v
        BY <1>1, <1>4, <2>1
      <3>2. ASSUME NEW k \in DOMAIN t PROVE r \notin t[k].rects
        <4>1. k + 1 \in DOMAIN q /\ t[k] = q[k + 1]
          BY <1>1, <3>2
        <4> QED BY <2>1, <4>1
      <3> QED BY <3>1, <3>2 DEF WillShow
    <2>2. ASSUME NEW i \in DOMAIN q, r \in q[i].rects, q[i].px[r] = v,
                 \A j \in DOMAIN q : j > i => r \notin q[j].rects
          PROVE  WillShow(a, t, r, v)
      <3>1. CASE i = 1
        <4>1. a.px[r] = v
          BY <1>1, <1>4, <2>2, <3>1
        <4>2. ASSUME NEW k \in DOMAIN t PROVE r \notin t[k].rects
          <5>1. k + 1 \in DOMAIN q /\ k + 1 > i /\ t[k] = q[k + 1]
            BY ONLY <1>1, <3>1, <4>2
          <5> QED BY <2>2, <5>1
        <4> QED BY <4>1, <4>2 DEF WillShow
      <3>2. CASE i > 1
        <4>1. i - 1 \in DOMAIN t /\ t[i - 1] = q[i]
          BY <1>1, <3>2
        <4>2. ASSUME NEW k \in DOMAIN t, k > i - 1 PROVE r \notin t[k].rects
          <5>1. k + 1 \in DOMAIN q /\ k + 1 > i /\ t[k] = q[k + 1]
            BY <1>1, <4>2
          <5> QED BY <2>2, <5>1
        <4> QED BY <2>2, <4>1, <4>2 DEF WillShow
      <3> QED BY <1>1, <3>1, <3>2
    <2> QED BY <1>5, <2>1, <2>2 DEF WillShow
  <1> QED BY <1>3, <1>5 DEF h, t

\* A reset of an epoch up to the current one reaches the host.
LEMMA ResetDrained ==
    ASSUME NEW s \in Shown, NEW q \in Seq(GraphicsEvents), NEW e \in Nat,
           NEW n \in Nat, n <= e, HasBase(s, q, e)
    PROVE  /\ HasBase(Reset(s, n), q, e)
           /\ \A r \in Regions : \A v :
                 WillShow(s, q, r, v) => WillShow(Reset(s, n), q, r, v)
  <1>1. CASE Reset(s, n) = s
    BY <1>1
  <1>2. CASE Reset(s, n) # s
    <2>1. s.epoch < n
      BY <1>2 DEF Reset, Shown
    <2>2. q # <<>> /\ q[1].kind = "frame"
      BY <2>1 DEF HasBase, Shown
    <2>3. 1 \in DOMAIN q /\ q[1].rects = Regions
      BY <2>2 DEF GraphicsEvents
    <2> QED BY <2>2, <2>3 DEF HasBase, WillShow
  <1> QED BY <1>1, <1>2

-----------------------------------------------------------------------------
(* Types *)

\* The queue after any of the three sends is a queue.
LEMMA SendTypes ==
    ASSUME DataOK, NEW rects \in SUBSET Regions, NEW ready \in BOOLEAN,
           SendBase(ready) \/ SendUpdate(rects) \/ Flush(rects)
    PROVE  graphics' \in Seq(GraphicsEvents)
  <1>1. /\ FrameEvent(image, epoch) \in GraphicsEvents
        /\ UpdateEvent(image, epoch, rects) \in GraphicsEvents
    BY EventTypes DEF DataOK
  <1>2. \/ graphics' = <<FrameEvent(image, epoch)>>
        \/ graphics' = Append(graphics, UpdateEvent(image, epoch, rects))
        \/ graphics' = graphics
    BY DEF SendBase, SendUpdate, Flush
  <1>3. graphics \in Seq(GraphicsEvents)
    BY DEF DataOK
  <1>4. <<FrameEvent(image, epoch)>> \in Seq(GraphicsEvents)
    BY <1>1
  <1>5. Append(graphics, UpdateEvent(image, epoch, rects)) \in Seq(GraphicsEvents)
    BY <1>1, <1>3
  <1> QED BY <1>2, <1>3, <1>4, <1>5, Zenon

\* The steps that only move the client thread round its loop.
Idle == EnterSelect \/ ClipboardTick

\* Whatever the accumulator's flush sends, it sends from the loop top or the timer.
LEMMA Flushes == FlushAtLoopTop \/ FlushOnTimer => FlushAccumulator
  BY DEF FlushAtLoopTop, FlushOnTimer

LEMMA FlagsStep == FlagsOK /\ [Next]_vars => FlagsOK'
  <1> SUFFICES ASSUME FlagsOK, [Next]_vars PROVE FlagsOK'
    OBVIOUS
  <1> USE DEF FlagsOK
  <1>1. CASE ServerPaints
    BY <1>1 DEF ServerPaints, frameState, hostVars
  <1>2. ASSUME NEW rect \in updates, HandleUpdate(rect) PROVE FlagsOK'
    BY <1>2 DEF HandleUpdate, Merged, Flush, SendBase, SendUpdate, hostVars
  <1>3. CASE FlushAtLoopTop \/ FlushOnTimer
    BY <1>3 DEF FlushAtLoopTop, FlushOnTimer, AtLoopTop, Selecting, FlushAccumulator,
                Flush, SendBase, SendUpdate, hostVars
  <1>4. CASE FlushPendingBase
    BY <1>4 DEF FlushPendingBase, AtLoopTop, Owing, SendBase, hostVars
  <1>5. CASE Announce
    BY <1>5 DEF Announce, hostVars
  <1>6. CASE RequestFrame
    BY <1>6 DEF RequestFrame, SendBase, hostVars
  <1>7. CASE PointerPosition
    BY <1>7 DEF PointerPosition, sessionState, frameState, hostVars
  <1>8. CASE DeactivateAll
    BY <1>8 DEF DeactivateAll, hostVars
  <1>9. CASE Negotiate
    BY <1>9 DEF Negotiate, frameState, hostVars
  <1>10. CASE PaintsWhileReactivating
    BY <1>10 DEF PaintsWhileReactivating, frameState, hostVars
  <1>11. CASE FinishReactivation
    BY <1>11 DEF FinishReactivation, hostVars
  <1>12. CASE DrainStep
    BY <1>12 DEF DrainStep, DrainControl, DrainSeesNoControl, DrainGraphics,
                 clientVars, sessionState, frameState
  <1>13. CASE UNCHANGED vars
    BY <1>13 DEF vars, clientVars, sessionState, frameState, hostVars
  <1>14. CASE Idle
    BY <1>14 DEF Idle, EnterSelect, ClipboardTick, AtLoopTop, sessionState, frameState,
                 hostVars
  <1> QED BY <1>1, <1>2, <1>3, <1>4, <1>5, <1>6, <1>7, <1>8, <1>9, <1>10, <1>11,
             <1>12, <1>13, <1>14 DEF Next, ClientStep, Environment, Idle

LEMMA DataStep == TypeOK /\ [Next]_vars => DataOK'
  <1> SUFFICES ASSUME FlagsOK, DataOK, [Next]_vars PROVE DataOK'
    BY DEF TypeOK
  <1> USE DEF DataOK
  <1>0. ASSUME NEW rects PROVE Painted(rects) \in Pictures
    BY DEF Painted, Pictures
  <1>1. CASE ServerPaints
    BY <1>0, <1>1 DEF ServerPaints, frameState, hostVars
  <1>2. ASSUME NEW rect \in updates, HandleUpdate(rect) PROVE DataOK'
    <2>1. graphics' \in Seq(GraphicsEvents)
      BY <1>2, SendTypes DEF HandleUpdate, Merged
    <2> QED BY <1>2, <2>1 DEF HandleUpdate, Merged, Flush, SendBase, SendUpdate, hostVars
  <1>3. CASE FlushAccumulator
    <2>1. graphics' \in Seq(GraphicsEvents)
      BY <1>3, SendTypes DEF FlushAccumulator
    <2> QED BY <1>3, <2>1 DEF FlushAccumulator, Flush, SendBase, SendUpdate, hostVars
  <1>4. CASE FlushPendingBase
    <2>1. graphics' \in Seq(GraphicsEvents)
      BY <1>4, SendTypes DEF FlushPendingBase, FlagsOK
    <2> QED BY <1>4, <2>1 DEF FlushPendingBase, SendBase, hostVars
  <1>5. CASE Announce
    BY <1>5, ControlTypes DEF Announce, hostVars
  <1>6. CASE RequestFrame
    <2>1. graphics' \in Seq(GraphicsEvents)
      BY <1>6, SendTypes DEF RequestFrame
    <2> QED BY <1>6, <2>1 DEF RequestFrame, SendBase, hostVars
  <1>7. CASE PointerPosition
    BY <1>7, ControlTypes DEF PointerPosition, sessionState, frameState, hostVars
  <1>8. CASE DeactivateAll
    <2>1. epoch + 1 \in Nat /\ ResetEvent(epoch + 1) \in ControlEvents
      BY ControlTypes
    <2>2. \/ control' = Append(control, ResetEvent(epoch + 1)) /\ epoch' = epoch + 1
          \/ control' = control /\ epoch' = epoch
      BY <1>8 DEF DeactivateAll
    <2>3. Append(control, ResetEvent(epoch + 1)) \in Seq(ControlEvents)
      BY <2>1
    <2>4. control' \in Seq(ControlEvents) /\ epoch' \in Nat
      BY <2>1, <2>2, <2>3
    <2> QED BY <1>8, <2>4 DEF DeactivateAll, hostVars
  <1>9. CASE Negotiate
    BY <1>9, ControlTypes DEF Negotiate, frameState, hostVars
  <1>10. CASE PaintsWhileReactivating
    BY <1>0, <1>10 DEF PaintsWhileReactivating, frameState, hostVars
  <1>11. CASE FinishReactivation
    BY <1>11 DEF FinishReactivation, hostVars
  <1>12. CASE DrainControl
    <2>1. Head(control) \in ControlEvents /\ Tail(control) \in Seq(ControlEvents)
      BY <1>12 DEF DrainControl
    <2>2. shown' \in Shown
      BY <1>12, <2>1, ResetType DEF DrainControl, ControlEvents
    <2> QED BY <1>12, <2>1, <2>2 DEF DrainControl, clientVars, sessionState, frameState
  <1>13. CASE DrainSeesNoControl
    BY <1>13 DEF DrainSeesNoControl, clientVars, sessionState, frameState
  <1>14. CASE DrainGraphics
    <2>1. graphics # <<>> =>
             Head(graphics) \in GraphicsEvents /\ Tail(graphics) \in Seq(GraphicsEvents)
      OBVIOUS
    <2>2. shown' \in Shown /\ graphics' \in Seq(GraphicsEvents)
      BY <1>14, <2>1, AppliedType DEF DrainGraphics
    <2> QED BY <1>14, <2>2 DEF DrainGraphics, clientVars, sessionState, frameState
  <1>15. CASE UNCHANGED vars
    BY <1>15 DEF vars, clientVars, sessionState, frameState, hostVars
  <1>16. CASE Idle
    BY <1>16 DEF Idle, EnterSelect, ClipboardTick, sessionState, frameState, hostVars
  <1> QED BY <1>1, <1>2, <1>3, <1>4, <1>5, <1>6, <1>7, <1>8, <1>9, <1>10, <1>11,
             <1>12, <1>13, <1>14, <1>15, <1>16, Flushes
          DEF Next, ClientStep, Environment, DrainStep, Idle

\* Every variable keeps its type.
THEOREM TypeInvariant == Spec => []TypeOK
  <1>1. Init => TypeOK
    <2>1. Init => FlagsOK
      BY DEF Init, FlagsOK
    <2>2. Init => DataOK
      BY ControlTypes DEF Init, DataOK, Shown
    <2> QED BY <2>1, <2>2 DEF TypeOK
  <1>2. TypeOK /\ [Next]_vars => TypeOK'
    BY FlagsStep, DataStep DEF TypeOK
  <1> QED BY <1>1, <1>2, PTL DEF Spec

-----------------------------------------------------------------------------
(* Nothing is lost *)

\* No event is of an epoch the client thread has not reached.
EpochBound ==
    /\ shown.epoch <= epoch
    /\ \A i \in DOMAIN control : control[i].epoch <= epoch
    /\ \A i \in DOMAIN graphics : graphics[i].epoch <= epoch

\* The inductive invariant.
Inv == TypeOK /\ HeldBack /\ EpochBound /\ UpdatesHaveBase /\ NothingLost

LEMMA HeldBackStep == Inv /\ [Next]_vars => HeldBack'
  <1> SUFFICES ASSUME TypeOK, HeldBack, [Next]_vars PROVE HeldBack'
    BY DEF Inv
  <1> USE DEF HeldBack, TypeOK, DataOK, FlagsOK
  <1>1. CASE ServerPaints
    BY <1>1 DEF ServerPaints, frameState, hostVars
  <1>2. ASSUME NEW rect \in updates, HandleUpdate(rect) PROVE HeldBack'
    BY <1>2 DEF HandleUpdate, NeedsBase, Merged, Flush, SendBase, SendUpdate, hostVars
  <1>3. CASE FlushAtLoopTop \/ FlushOnTimer
    BY <1>3 DEF FlushAtLoopTop, FlushOnTimer, AtLoopTop, Selecting, FlushAccumulator,
                Flush, SendBase, SendUpdate, hostVars
  <1>4. CASE FlushPendingBase
    BY <1>4 DEF FlushPendingBase, AtLoopTop, Owing, SendBase, hostVars
  <1>5. CASE Announce
    BY <1>5 DEF Announce, hostVars
  <1>6. CASE RequestFrame
    BY <1>6 DEF RequestFrame, SendBase, hostVars
  <1>7. CASE PointerPosition
    BY <1>7 DEF PointerPosition, sessionState, frameState, hostVars
  <1>8. CASE DeactivateAll
    BY <1>8 DEF DeactivateAll, Selecting, hostVars
  <1>9. CASE Negotiate
    BY <1>9 DEF Negotiate, frameState, hostVars
  <1>10. CASE PaintsWhileReactivating
    BY <1>10 DEF PaintsWhileReactivating, frameState, hostVars
  <1>11. CASE FinishReactivation
    BY <1>11 DEF FinishReactivation, hostVars
  <1>12. CASE DrainStep
    BY <1>12 DEF DrainStep, DrainControl, DrainSeesNoControl, DrainGraphics,
                 clientVars, sessionState, frameState
  <1>13. CASE UNCHANGED vars
    BY <1>13 DEF vars, clientVars, sessionState, frameState, hostVars
  <1>14. CASE Idle
    BY <1>14 DEF Idle, EnterSelect, ClipboardTick, AtLoopTop, sessionState, frameState,
                 hostVars
  <1> QED BY <1>1, <1>2, <1>3, <1>4, <1>5, <1>6, <1>7, <1>8, <1>9, <1>10, <1>11,
             <1>12, <1>13, <1>14 DEF Next, ClientStep, Environment, Idle

\* The three sends keep the epochs in bounds.
LEMMA SendEpochs ==
    ASSUME DataOK, EpochBound, NEW rects \in SUBSET Regions, NEW ready \in BOOLEAN,
           SendBase(ready) \/ SendUpdate(rects) \/ Flush(rects)
    PROVE  \A i \in DOMAIN graphics' : graphics'[i].epoch <= epoch
  <1>1. \/ graphics' = <<FrameEvent(image, epoch)>>
        \/ graphics' = Append(graphics, UpdateEvent(image, epoch, rects))
        \/ graphics' = graphics
    BY DEF SendBase, SendUpdate, Flush
  <1>2. /\ FrameEvent(image, epoch).epoch = epoch
        /\ UpdateEvent(image, epoch, rects).epoch = epoch
        /\ epoch <= epoch
    BY DEF FrameEvent, UpdateEvent, DataOK
  <1>3. CASE graphics' = <<FrameEvent(image, epoch)>>
    BY <1>2, <1>3
  <1>4. CASE graphics' = Append(graphics, UpdateEvent(image, epoch, rects))
    <2>1. /\ DOMAIN graphics = 1 .. Len(graphics) /\ Len(graphics) \in Nat
          /\ DOMAIN graphics' = 1 .. Len(graphics) + 1
          /\ \A i \in 1 .. Len(graphics) : graphics'[i] = graphics[i]
          /\ graphics'[Len(graphics) + 1] = UpdateEvent(image, epoch, rects)
      BY <1>4, Appended DEF DataOK
    <2> QED BY <1>2, <2>1 DEF EpochBound
  <1>5. CASE graphics' = graphics
    BY <1>5 DEF EpochBound
  <1> QED BY <1>1, <1>3, <1>4, <1>5

LEMMA EpochStep == Inv /\ [Next]_vars => EpochBound'
  <1> SUFFICES ASSUME FlagsOK, DataOK, EpochBound, [Next]_vars PROVE EpochBound'
    BY DEF Inv, TypeOK
  <1>1. CASE ServerPaints
    BY <1>1 DEF ServerPaints, frameState, hostVars, EpochBound
  <1>2. ASSUME NEW rect \in updates, HandleUpdate(rect) PROVE EpochBound'
    <2>1. \A i \in DOMAIN graphics' : graphics'[i].epoch <= epoch
      BY <1>2, SendEpochs DEF HandleUpdate, Merged, EpochBound
    <2> QED BY <1>2, <2>1 DEF HandleUpdate, Merged, hostVars, EpochBound
  <1>3. CASE FlushAccumulator
    <2>1. \A i \in DOMAIN graphics' : graphics'[i].epoch <= epoch
      BY <1>3, SendEpochs DEF FlushAccumulator, DataOK
    <2> QED BY <1>3, <2>1 DEF FlushAccumulator, hostVars, EpochBound
  <1>4. CASE FlushPendingBase
    <2>1. \A i \in DOMAIN graphics' : graphics'[i].epoch <= epoch
      BY <1>4, SendEpochs DEF FlushPendingBase, FlagsOK
    <2> QED BY <1>4, <2>1 DEF FlushPendingBase, hostVars, EpochBound
  <1>5. CASE Announce
    <2>1. control' = Append(control, ConnectedEvent) /\ ConnectedEvent.epoch = 0
      BY <1>5 DEF Announce, ConnectedEvent
    <2>2. \A i \in DOMAIN control' : control'[i].epoch <= epoch
      BY <2>1, Appended DEF DataOK, EpochBound
    <2> QED BY <1>5, <2>2 DEF Announce, hostVars, EpochBound
  <1>6. CASE RequestFrame
    <2>1. \A i \in DOMAIN graphics' : graphics'[i].epoch <= epoch
      BY <1>6, SendEpochs DEF RequestFrame, EpochBound
    <2> QED BY <1>6, <2>1 DEF RequestFrame, hostVars, EpochBound
  <1>7. CASE PointerPosition
    <2>1. /\ graphics' = graphics \/ graphics' = Append(graphics, CursorEvent)
          /\ CursorEvent.epoch = 0
      BY <1>7 DEF PointerPosition, CursorEvent
    <2>2. \A i \in DOMAIN graphics' : graphics'[i].epoch <= epoch
      BY <2>1, Appended DEF DataOK, EpochBound
    <2> QED BY <1>7, <2>2 DEF PointerPosition, sessionState, frameState, hostVars,
                              EpochBound
  <1>8. CASE DeactivateAll
    <2>1. \/ control' = Append(control, ResetEvent(epoch + 1)) /\ epoch' = epoch + 1
          \/ control' = control /\ epoch' = epoch
      BY <1>8 DEF DeactivateAll
    <2>2. \A i \in DOMAIN control' : control'[i].epoch <= epoch'
      <3>1. CASE control' = control /\ epoch' = epoch
        BY <3>1 DEF EpochBound
      <3>2. CASE control' = Append(control, ResetEvent(epoch + 1)) /\ epoch' = epoch + 1
        <4>1. /\ DOMAIN control = 1 .. Len(control) /\ Len(control) \in Nat
              /\ DOMAIN control' = 1 .. Len(control) + 1
              /\ \A i \in 1 .. Len(control) : control'[i] = control[i]
              /\ control'[Len(control) + 1].epoch = epoch + 1
          BY <3>2, Appended DEF DataOK, ResetEvent
        <4>2. \A i \in 1 .. Len(control) : control[i] \in ControlEvents
          BY <4>1 DEF DataOK
        <4>3. \A i \in 1 .. Len(control) : control[i].epoch \in Nat
          BY <4>2 DEF ControlEvents
        <4> QED BY <3>2, <4>1, <4>3 DEF EpochBound, DataOK
      <3> QED BY <2>1, <3>1, <3>2
    <2>3. \A i \in DOMAIN graphics : graphics[i].epoch \in Nat
      BY DEF DataOK, GraphicsEvents
    <2>4. shown.epoch <= epoch' /\ \A i \in DOMAIN graphics : graphics[i].epoch <= epoch'
      BY <2>1, <2>3 DEF EpochBound, DataOK, Shown
    <2> QED BY <1>8, <2>2, <2>4 DEF DeactivateAll, hostVars, EpochBound
  <1>9. CASE Negotiate
    BY <1>9 DEF Negotiate, frameState, hostVars, EpochBound
  <1>10. CASE PaintsWhileReactivating
    BY <1>10 DEF PaintsWhileReactivating, frameState, hostVars, EpochBound
  <1>11. CASE FinishReactivation
    BY <1>11 DEF FinishReactivation, hostVars, EpochBound
  <1>12. CASE DrainControl
    <2>0. /\ DOMAIN control = 1 .. Len(control) /\ Len(control) \in Nat \ {0}
          /\ Head(control) = control[1] /\ Head(control) \in ControlEvents
          /\ DOMAIN Tail(control) = 1 .. (Len(control) - 1)
          /\ \A i \in 1 .. (Len(control) - 1) : Tail(control)[i] = control[i + 1]
      BY <1>12, Taken DEF DrainControl, DataOK
    <2>1. /\ Head(control).epoch \in Nat /\ Head(control).epoch <= epoch
          /\ \A i \in DOMAIN Tail(control) : Tail(control)[i].epoch <= epoch
      BY <2>0 DEF ControlEvents, EpochBound
    <2>2. shown'.epoch <= epoch
      BY <1>12, <2>1 DEF DrainControl, Reset, EpochBound
    <2> QED BY <1>12, <2>1, <2>2 DEF DrainControl, clientVars, sessionState,
                                      frameState, EpochBound
  <1>13. CASE DrainSeesNoControl
    BY <1>13 DEF DrainSeesNoControl, clientVars, sessionState, frameState, EpochBound
  <1>14. CASE DrainGraphics
    <2>1. graphics # <<>> =>
             /\ Head(graphics).epoch <= epoch
             /\ \A i \in DOMAIN Tail(graphics) : Tail(graphics)[i].epoch <= epoch
      BY DEF DataOK, EpochBound
    <2>2. shown'.epoch <= epoch
      BY <1>14, <2>1 DEF DrainGraphics, Applied, EpochBound, DataOK, Shown
    <2> QED BY <1>14, <2>1, <2>2 DEF DrainGraphics, clientVars, sessionState,
                                      frameState, EpochBound
  <1>15. CASE UNCHANGED vars
    BY <1>15 DEF vars, clientVars, sessionState, frameState, hostVars, EpochBound
  <1>16. CASE Idle
    BY <1>16 DEF Idle, EnterSelect, ClipboardTick, sessionState, frameState, hostVars,
                 EpochBound
  <1> QED BY <1>1, <1>2, <1>3, <1>4, <1>5, <1>6, <1>7, <1>8, <1>9, <1>10, <1>11,
             <1>12, <1>13, <1>14, <1>15, <1>16, Flushes
          DEF Next, ClientStep, Environment, DrainStep, Idle

\* What the client thread tells of the stream: see RdpFrames.
Stream == UpdatesHaveBase /\ NothingLost

\* A base frame makes both halves of Stream true, whatever was queued.
LEMMA BaseSent ==
    ASSUME DataOK, NEW ready, SendBase(ready), UNCHANGED <<image, epoch, shown>>
    PROVE  Stream'
  <1>1. graphics' = <<FrameEvent(image, epoch)>>
    BY DEF SendBase
  <1>2. shown \in Shown /\ image \in Pictures /\ epoch \in Nat
    BY DEF DataOK
  <1>3. /\ HasBase(shown, graphics', epoch)
        /\ \A r \in Regions : WillShow(shown, graphics', r, image[r])
    BY <1>1, <1>2, BaseQueued
  <1> QED BY <1>3 DEF Stream, UpdatesHaveBase, NothingLost

\* A dirty update of rects makes them safe, and leaves the others as they were.
LEMMA UpdateSent ==
    ASSUME DataOK, UpdatesHaveBase, sync = "Synced",
           NEW rects \in SUBSET Regions, SendUpdate(rects),
           UNCHANGED <<image, epoch, shown>>,
           \A r \in Regions \ (rects \cup UNION updates') :
              WillShow(shown, graphics, r, image[r])
    PROVE  Stream'
  <1>1. CASE sync' = "NeedsBase"
    BY <1>1 DEF Stream, UpdatesHaveBase, NothingLost
  <1>2. CASE graphics' = Append(graphics, UpdateEvent(image, epoch, rects))
    <2>1. /\ shown \in Shown /\ image \in Pictures /\ epoch \in Nat
          /\ graphics \in Seq(GraphicsEvents)
      BY DEF DataOK
    <2>2. HasBase(shown, graphics, epoch)
      BY DEF UpdatesHaveBase
    <2>3. /\ HasBase(shown, graphics', epoch)
          /\ \A r \in rects : WillShow(shown, graphics', r, image[r])
          /\ \A r \in Regions \ rects :
                WillShow(shown, graphics, r, image[r])
                   => WillShow(shown, graphics', r, image[r])
      BY <1>2, <2>1, <2>2, UpdateQueued
    <2>4. \A r \in Regions \ UNION updates' : WillShow(shown, graphics', r, image[r])
      BY <2>3
    <2> QED BY <2>3, <2>4 DEF Stream, UpdatesHaveBase, NothingLost
  <1> QED BY <1>1, <1>2 DEF SendUpdate

\* A step that leaves the queue and the host alone, and whatever is not pending.
LEMMA NothingSent ==
    ASSUME Stream, sync' = "Synced" => sync = "Synced",
           UNCHANGED <<graphics, shown, epoch>>,
           \A r \in Regions \ (acc' \cup UNION updates') :
              r \notin acc \cup UNION updates /\ image'[r] = image[r]
    PROVE  Stream'
  BY DEF Stream, UpdatesHaveBase, NothingLost

\* A step of the drain loop, which leaves the client thread alone.
LEMMA Drained ==
    ASSUME Stream, UNCHANGED sessionState,
           HasBase(shown, graphics, epoch) =>
              /\ HasBase(shown', graphics', epoch)
              /\ \A r \in Regions : \A v :
                    WillShow(shown, graphics, r, v) => WillShow(shown', graphics', r, v)
    PROVE  Stream'
  BY DEF Stream, UpdatesHaveBase, NothingLost, sessionState, frameState

LEMMA StreamStep == Inv /\ [Next]_vars => Stream'
  <1> SUFFICES ASSUME Inv, [Next]_vars PROVE Stream'
    OBVIOUS
  <1>0. FlagsOK /\ DataOK /\ HeldBack /\ EpochBound /\ Stream
    BY DEF Inv, TypeOK, Stream
  <1> USE <1>0
  <1>1. CASE ServerPaints
    <2>1. acc' = acc /\ sync' = sync /\ UNCHANGED <<graphics, shown, epoch>>
      BY <1>1 DEF ServerPaints, frameState, hostVars
    <2>2. updates = {} /\ image' = Painted(UNION updates')
      BY <1>1 DEF ServerPaints, Selecting, HeldBack
    <2>3. \A r \in Regions \ UNION updates' : image'[r] = image[r]
      BY <2>2 DEF Painted
    <2> QED BY <2>1, <2>2, <2>3, NothingSent
  <1>2. ASSUME NEW rect \in updates, HandleUpdate(rect) PROVE Stream'
    <2>1. /\ updates' = updates \ {rect}
          /\ UNCHANGED <<image, epoch, shown>>
          /\ rect \subseteq Regions
      BY <1>2 DEF HandleUpdate, Merged, hostVars, DataOK
    <2>2. CASE awaiting
      BY <1>2, <2>2 DEF HandleUpdate, Merged, HeldBack, Stream, UpdatesHaveBase, NothingLost
    <2>3. CASE \E ready : SendBase(ready)
      BY <2>1, <2>3, BaseSent
    <2>4. ASSUME NEW merged \in SUBSET Regions, acc \cup rect \subseteq merged,
                 ~NeedsBase, SendUpdate(merged)
          PROVE  Stream'
      <3>1. sync = "Synced"
        BY <2>4 DEF NeedsBase, DataOK
      <3>2. \A r \in Regions \ (merged \cup UNION updates') :
               WillShow(shown, graphics, r, image[r])
        BY <2>1, <2>4, <3>1 DEF Stream, NothingLost
      <3> QED BY <2>1, <2>4, <3>1, <3>2, UpdateSent DEF Stream
    <2>5. ASSUME NEW merged \in SUBSET Regions, acc \cup rect \subseteq merged,
                 acc' = merged, UNCHANGED <<graphics, sync>>
          PROVE  Stream'
      <3>1. \A r \in Regions \ (acc' \cup UNION updates') :
               r \notin acc \cup UNION updates
        BY <2>1, <2>5
      <3> QED BY <2>1, <2>5, <3>1, NothingSent
    <2> QED BY <1>2, <2>2, <2>3, <2>4, <2>5 DEF HandleUpdate, Merged, Flush
  <1>3. CASE FlushAccumulator
    <2>1. /\ Flush(acc) /\ acc \subseteq Regions
          /\ UNCHANGED <<image, epoch, shown, updates>>
      BY <1>3 DEF FlushAccumulator, hostVars, DataOK
    <2>2. CASE SendBase(TRUE)
      BY <2>1, <2>2, BaseSent
    <2>3. CASE ~NeedsBase /\ SendUpdate(acc)
      <3>1. sync = "Synced"
        BY <2>3 DEF NeedsBase, DataOK
      <3>2. \A r \in Regions \ (acc \cup UNION updates') :
               WillShow(shown, graphics, r, image[r])
        BY <2>1, <3>1 DEF Stream, NothingLost
      <3> QED BY <2>1, <2>3, <3>1, <3>2, UpdateSent DEF Stream
    <2> QED BY <2>1, <2>2, <2>3 DEF Flush
  <1>4. CASE FlushPendingBase
    BY <1>4, BaseSent DEF FlushPendingBase, hostVars
  <1>5. CASE Announce
    BY <1>5, NothingSent DEF Announce, hostVars
  <1>6. CASE RequestFrame
    <2>1. UNCHANGED <<image, epoch, shown>>
      BY <1>6 DEF RequestFrame, hostVars
    <2>2. SendBase(FALSE) \/ sync' = "NeedsBase"
      BY <1>6 DEF RequestFrame
    <2> QED BY <2>1, <2>2, BaseSent DEF Stream, UpdatesHaveBase, NothingLost
  <1>7. CASE PointerPosition
    <2>1. /\ UNCHANGED sessionState /\ UNCHANGED shown
          /\ graphics' = graphics \/ graphics' = Append(graphics, CursorEvent)
      BY <1>7 DEF PointerPosition, hostVars
    <2>2. shown \in Shown /\ graphics \in Seq(GraphicsEvents) /\ epoch \in Nat
      BY DEF DataOK
    <2>3. CASE graphics' = graphics
      BY <2>1, <2>3, Drained
    <2>4. CASE graphics' = Append(graphics, CursorEvent)
      BY <2>1, <2>2, <2>4, CursorQueued, Drained
    <2> QED BY <2>1, <2>3, <2>4
  <1>8. CASE DeactivateAll
    BY <1>8 DEF DeactivateAll, HeldBack, Stream, UpdatesHaveBase, NothingLost
  <1>9. CASE Negotiate
    BY <1>9 DEF Negotiate, frameState, HeldBack, Stream, UpdatesHaveBase, NothingLost
  <1>10. CASE PaintsWhileReactivating
    BY <1>10 DEF PaintsWhileReactivating, frameState, HeldBack, Stream,
                 UpdatesHaveBase, NothingLost
  <1>11. CASE FinishReactivation
    BY <1>11 DEF FinishReactivation, Stream, UpdatesHaveBase, NothingLost
  <1>12. CASE DrainControl
    <2>1. UNCHANGED sessionState /\ UNCHANGED graphics
      BY <1>12 DEF DrainControl, clientVars
    <2>2. /\ Head(control) \in ControlEvents
          /\ Head(control) = control[1] /\ 1 \in DOMAIN control
      BY <1>12, Taken DEF DrainControl, DataOK
    <2>3. Head(control).epoch \in Nat /\ Head(control).epoch <= epoch
      BY <2>2 DEF ControlEvents, EpochBound
    <2>4. shown' = shown \/ shown' = Reset(shown, Head(control).epoch)
      BY <1>12 DEF DrainControl
    <2>5. shown \in Shown /\ graphics \in Seq(GraphicsEvents) /\ epoch \in Nat
      BY DEF DataOK
    <2>6. CASE shown' = shown
      BY <2>1, <2>6, Drained
    <2>7. CASE shown' = Reset(shown, Head(control).epoch)
      BY <2>1, <2>3, <2>5, <2>7, ResetDrained, Drained
    <2> QED BY <2>4, <2>6, <2>7
  <1>13. CASE DrainSeesNoControl
    BY <1>13, Drained DEF DrainSeesNoControl, clientVars
  <1>14. CASE DrainGraphics
    <2>1. UNCHANGED sessionState
      BY <1>14 DEF DrainGraphics, clientVars
    <2>2. CASE graphics' = graphics /\ shown' = shown
      BY <2>1, <2>2, Drained
    <2>3. CASE /\ graphics # <<>> /\ graphics' = Tail(graphics)
               /\ shown' = Applied(shown, Head(graphics))
      <3>1. /\ shown \in Shown /\ graphics \in Seq(GraphicsEvents) /\ epoch \in Nat
            /\ shown.epoch <= epoch
        BY DEF DataOK, EpochBound
      <3> QED BY <2>1, <2>3, <3>1, HeadDrained, Drained
    <2> QED BY <1>14, <2>2, <2>3 DEF DrainGraphics
  <1>15. CASE UNCHANGED vars
    BY <1>15, Drained DEF vars, clientVars, hostVars
  <1>16. CASE Idle
    BY <1>16, Drained DEF Idle, EnterSelect, ClipboardTick, hostVars
  <1> QED BY <1>1, <1>2, <1>3, <1>4, <1>5, <1>6, <1>7, <1>8, <1>9, <1>10, <1>11,
             <1>12, <1>13, <1>14, <1>15, <1>16, Flushes
          DEF Next, ClientStep, Environment, DrainStep, Idle

LEMMA InvInit == Init => Inv
  <1> SUFFICES ASSUME Init PROVE Inv
    OBVIOUS
  <1>1. FlagsOK
    BY DEF Init, FlagsOK
  <1>2. DataOK
    BY ControlTypes DEF Init, DataOK, Shown
  <1>3. HeldBack
    BY DEF Init, HeldBack
  <1>4. EpochBound
    BY DEF Init, EpochBound
  <1>5. UpdatesHaveBase /\ NothingLost
    BY DEF Init, UpdatesHaveBase, NothingLost
  <1> QED BY <1>1, <1>2, <1>3, <1>4, <1>5 DEF Inv, TypeOK

LEMMA InvStep == Inv /\ [Next]_vars => Inv'
  BY FlagsStep, DataStep, HeldBackStep, EpochStep, StreamStep DEF Inv, TypeOK, Stream

LEMMA Invariance == Spec => []Inv
  BY InvInit, InvStep, PTL DEF Spec

\* Base frames are owed only while dirty updates are held back and none are
\* accumulated, and a canvas under reactivation owes and sends nothing.
THEOREM FramesAreHeldBack == Spec => []HeldBack
  <1>1. Inv => HeldBack
    BY DEF Inv
  <1> QED BY <1>1, Invariance, PTL

\* No step of either thread forgets an owed base frame.
LEMMA OwedStep == Inv /\ [Next]_vars => OwedKept
  <1> SUFFICES ASSUME Inv, Next, pendingBase, pendingBase' # TRUE
               PROVE  graphics' = <<FrameEvent(image, epoch)>> \/ epoch' > epoch
    BY DEF Inv, TypeOK, FlagsOK, OwedKept, vars, clientVars, sessionState, frameState
  <1>0. ~awaiting /\ reactivation = "none" /\ epoch \in Nat
    BY DEF Inv, HeldBack, TypeOK, DataOK
  <1>1. ASSUME NEW rect \in updates, HandleUpdate(rect)
        PROVE  graphics' = <<FrameEvent(image, epoch)>>
    BY <1>0, <1>1 DEF HandleUpdate, Flush, SendBase, SendUpdate
  <1>2. CASE FlushAccumulator
    BY <1>0, <1>2 DEF FlushAccumulator, Flush, SendBase
  <1>3. CASE FlushPendingBase
    BY <1>3 DEF FlushPendingBase, SendBase
  <1>4. CASE RequestFrame
    BY <1>0, <1>4 DEF RequestFrame, SendBase
  <1>5. CASE DeactivateAll
    BY <1>0, <1>5 DEF DeactivateAll
  <1>6. CASE FinishReactivation \/ Negotiate \/ PaintsWhileReactivating
    BY <1>0, <1>6 DEF FinishReactivation, Negotiate, PaintsWhileReactivating
  <1>7. CASE ServerPaints \/ PointerPosition \/ Announce \/ Idle \/ DrainStep
    BY <1>7 DEF ServerPaints, PointerPosition, Announce, Idle, EnterSelect, ClipboardTick,
                DrainStep, DrainControl, DrainSeesNoControl, DrainGraphics,
                clientVars, sessionState, frameState
  <1> QED BY <1>1, <1>2, <1>3, <1>4, <1>5, <1>6, <1>7, Flushes
          DEF Next, ClientStep, Environment, Idle

\* An update that the full queue refused is made good: the base frame owed for it
\* stays owed, whatever arrives meanwhile, until it is queued or the canvas retired.
THEOREM OwedFramesAreKept == Spec => [][OwedKept]_vars
  BY Invariance, OwedStep, PTL DEF Spec

\* Every dirty update is queued on top of a base frame of its own epoch.
THEOREM UpdatesAreBased == Spec => []UpdatesHaveBase
  <1>1. Inv => UpdatesHaveBase
    BY DEF Inv
  <1> QED BY <1>1, Invariance, PTL

\* No painted region is forgotten, whatever the queue dropped or superseded.
THEOREM NothingIsLost == Spec => []NothingLost
  <1>1. Inv => NothingLost
    BY DEF Inv
  <1> QED BY <1>1, Invariance, PTL

\* What that means when the stream comes to rest: an empty queue and nothing
\* pending leave the host with exactly the decoded desktop.
AtRest == sync = "Synced" /\ graphics = <<>> /\ acc = {} /\ updates = {}

THEOREM RestsOnTheImage ==
    Spec => [](AtRest => shown.framed /\ shown.epoch = epoch /\ shown.px = image)
  <1>1. Inv => (AtRest => shown.framed /\ shown.epoch = epoch /\ shown.px = image)
    <2> SUFFICES ASSUME Inv, AtRest
                 PROVE  shown.framed /\ shown.epoch = epoch /\ shown.px = image
      OBVIOUS
    <2>1. shown.framed /\ shown.epoch = epoch
      BY DEF Inv, AtRest, UpdatesHaveBase, HasBase
    <2>2. \A r \in Regions : shown.px[r] = image[r]
      BY DEF Inv, AtRest, NothingLost, WillShow
    <2>3. shown.px \in [Regions -> Nat] /\ image \in [Regions -> Nat]
      BY DEF Inv, TypeOK, DataOK, Shown, Pictures
    <2> QED BY <2>1, <2>2, <2>3
  <1> QED BY <1>1, Invariance, PTL

-----------------------------------------------------------------------------
(* The mirror: RdpFrames implements ScreenMirror.  Contents only grow newer    *)
(* from the host over the queue to the image, epoch by epoch.                  *)

\* No content is newer than the last paint.
ImageBound == \A r \in Regions : image[r] <= paints

\* While a canvas is replaced, nothing of its epoch has been sent.
Fresh ==
    awaiting =>
       /\ ~ (shown.framed /\ shown.epoch = epoch)
       /\ \A i \in DOMAIN graphics : graphics[i].kind # "cursor" => graphics[i].epoch < epoch

\* Host s and queue q carry nothing of epoch e that is newer than picture px.
Within(s, q, e, px) ==
    /\ (s.framed /\ s.epoch = e) => \A r \in Regions : s.px[r] <= px[r]
    /\ \A i \in DOMAIN q : q[i].epoch = e => \A r \in q[i].rects : q[i].px[r] <= px[r]

\* Within an epoch, what host s shows is no newer than what is queued for it, and
\* the queue is sorted.
Sorted(s, q) ==
    \A i \in DOMAIN q : \A r \in q[i].rects :
       /\ (s.framed /\ s.epoch = q[i].epoch) => s.px[r] <= q[i].px[r]
       /\ \A j \in DOMAIN q :
             (i < j /\ r \in q[j].rects /\ q[j].epoch = q[i].epoch) =>
                q[i].px[r] <= q[j].px[r]

MirrorInv ==
    Inv /\ ImageBound /\ Fresh /\ Within(shown, graphics, epoch, image) /\ Sorted(shown, graphics)

LEMMA EventFields ==
    ASSUME NEW ev \in GraphicsEvents
    PROVE  /\ ev.kind \in {"frame", "update", "cursor"} /\ ev.epoch \in Nat
           /\ ev.px \in Pictures /\ ev.rects \in SUBSET Regions
           /\ ev.kind = "frame" => ev.rects = Regions
           /\ ev.kind = "cursor" => ev.rects = {}
           /\ \A r \in Regions : ev.px[r] \in Nat
  BY DEF GraphicsEvents, Pictures

LEMMA BaseSorted ==
    ASSUME NEW s \in Shown, NEW px \in Pictures, NEW e \in Nat,
           (s.framed /\ s.epoch = e) => \A r \in Regions : s.px[r] <= px[r]
    PROVE  LET q == <<FrameEvent(px, e)>>
           IN  Within(s, q, e, px) /\ Sorted(s, q)
  <1> DEFINE q == <<FrameEvent(px, e)>>
  <1>1. /\ DOMAIN q = {1} /\ q[1].epoch = e /\ q[1].px = px
        /\ \A r \in Regions : px[r] <= px[r]
        /\ q[1].rects = Regions
    BY DEF FrameEvent, Pictures
  <1> HIDE DEF q
  <1>2. Within(s, q, e, px)
    BY <1>1 DEF Within
  <1>3. Sorted(s, q)
    BY <1>1 DEF Sorted
  <1> QED BY <1>2, <1>3 DEF q

\* An event whose contents are those of the picture joins the queue.
LEMMA EventSorted ==
    ASSUME NEW s \in Shown, NEW q \in Seq(GraphicsEvents), NEW px \in Pictures, NEW e \in Nat,
           Within(s, q, e, px), Sorted(s, q), NEW u \in GraphicsEvents,
           u.rects = {} \/ (u.epoch = e /\ \A r \in u.rects : u.px[r] = px[r])
    PROVE  Within(s, Append(q, u), e, px) /\ Sorted(s, Append(q, u))
  <1> DEFINE q2 == Append(q, u)
  <1>1. /\ DOMAIN q2 = 1 .. Len(q) + 1 /\ DOMAIN q = 1 .. Len(q) /\ Len(q) \in Nat
        /\ \A i \in 1 .. Len(q) : q2[i] = q[i]
        /\ q2[Len(q) + 1] = u
    BY Appended
  <1>2. /\ u.rects \in SUBSET Regions /\ \A r \in Regions : px[r] \in Nat
    BY EventFields DEF Pictures
  <1> HIDE DEF q2
  <1>3. Within(s, q2, e, px)
    BY <1>1, <1>2 DEF Within
  <1>4. Sorted(s, q2)
    <2> SUFFICES ASSUME NEW i \in DOMAIN q2, NEW r \in q2[i].rects
                 PROVE  /\ (s.framed /\ s.epoch = q2[i].epoch) => s.px[r] <= q2[i].px[r]
                        /\ \A j \in DOMAIN q2 :
                              (i < j /\ r \in q2[j].rects /\ q2[j].epoch = q2[i].epoch) =>
                                 q2[i].px[r] <= q2[j].px[r]
      BY DEF Sorted
    <2>1. CASE i \in DOMAIN q
      <3>1. q2[i] = q[i]
        BY <1>1, <2>1
      <3>2. ASSUME NEW j \in DOMAIN q2, i < j, r \in q2[j].rects, q2[j].epoch = q2[i].epoch
            PROVE  q2[i].px[r] <= q2[j].px[r]
        <4>1. CASE j \in DOMAIN q
          BY <1>1, <2>1, <3>1, <3>2, <4>1 DEF Sorted
        <4>2. CASE j = Len(q) + 1
          <5>1. u.epoch = e /\ u.px[r] = px[r]
            BY <1>1, <3>2, <4>2
          <5>2. q[i].px[r] <= px[r]
            BY <1>1, <2>1, <3>1, <3>2, <4>2, <5>1 DEF Within
          <5> QED BY <1>1, <3>1, <4>2, <5>1, <5>2
        <4> QED BY <1>1, <4>1, <4>2
      <3> QED BY <2>1, <3>1, <3>2 DEF Sorted
    <2>2. CASE i = Len(q) + 1
      <3>1. u.epoch = e /\ u.px[r] = px[r] /\ r \in Regions
        BY <1>1, <1>2, <2>2
      <3>2. \A j \in DOMAIN q2 : ~ (i < j)
        BY <1>1, <2>2
      <3>3. (s.framed /\ s.epoch = e) => s.px[r] <= px[r]
        BY <3>1 DEF Within
      <3> QED BY <1>1, <2>2, <3>1, <3>2, <3>3
    <2> QED BY <1>1, <2>1, <2>2
  <1> QED BY <1>3, <1>4 DEF q2

\* The host applies the head of the queue: its picture grows newer, and the rest of
\* the queue is still sorted above it.
LEMMA HeadSorted ==
    ASSUME NEW s \in Shown, NEW q \in Seq(GraphicsEvents), q # <<>>, NEW px \in Pictures,
           NEW e \in Nat, Within(s, q, e, px), Sorted(s, q)
    PROVE  LET a == Applied(s, Head(q))
           IN  /\ Within(a, Tail(q), e, px) /\ Sorted(a, Tail(q))
               /\ s.epoch <= a.epoch
               /\ (s.framed /\ a.epoch = s.epoch) =>
                     a.framed /\ \A r \in Regions : s.px[r] <= a.px[r]
  <1> DEFINE h == Head(q)
             t == Tail(q)
             a == Applied(s, h)
  <1>1. /\ DOMAIN q = 1 .. Len(q) /\ Len(q) \in Nat \ {0}
        /\ h = q[1] /\ h \in GraphicsEvents
        /\ \A i \in DOMAIN q : q[i] \in GraphicsEvents
        /\ DOMAIN t = 1 .. (Len(q) - 1)
        /\ \A i \in 1 .. (Len(q) - 1) : t[i] = q[i + 1]
    BY Taken
  <1> HIDE DEF h, t
  <1>2. \A k \in DOMAIN t : k \in Nat /\ 1 < k + 1 /\ k + 1 \in DOMAIN q /\ t[k] = q[k + 1]
    BY <1>1
  <1>3. 1 \in DOMAIN q /\ q[1] = h
    BY <1>1
  <1>h. /\ h.kind \in {"frame", "update", "cursor"} /\ h.epoch \in Nat
        /\ h.px \in Pictures /\ h.rects \in SUBSET Regions
        /\ h.kind = "frame" => h.rects = Regions
        /\ \A r \in Regions : h.px[r] \in Nat
    BY <1>1, EventFields
  <1>s. /\ s.epoch \in Nat /\ s.framed \in BOOLEAN /\ s.px \in Pictures
        /\ \A r \in Regions : s.px[r] \in Nat
    BY DEF Shown, Pictures
  <1>4. \/ a = s
        \/ h.kind = "frame" /\ a.epoch = h.epoch /\ a.framed /\ a.px = h.px /\ s.epoch <= h.epoch
        \/ /\ h.kind = "update" /\ h.epoch = s.epoch /\ s.framed
           /\ a.epoch = s.epoch /\ a.framed
           /\ \A r \in Regions : a.px[r] = IF r \in h.rects THEN h.px[r] ELSE s.px[r]
    BY <1>h, <1>s DEF Applied, Shown
  \* What the host shows in a region is what it showed or what the head carries.
  <1>5. \A r \in Regions : a.framed =>
           \/ s.framed /\ a.epoch = s.epoch /\ a.px[r] = s.px[r]
           \/ r \in h.rects /\ a.epoch = h.epoch /\ a.px[r] = h.px[r]
    BY <1>4, <1>h
  <1> HIDE DEF a
  <1>6. Within(a, t, e, px)
    <2>1. ASSUME a.framed, a.epoch = e, NEW r \in Regions PROVE a.px[r] <= px[r]
      <3>1. CASE s.framed /\ a.epoch = s.epoch /\ a.px[r] = s.px[r]
        BY <2>1, <3>1 DEF Within
      <3>2. CASE r \in h.rects /\ a.epoch = h.epoch /\ a.px[r] = h.px[r]
        BY <1>3, <2>1, <3>2 DEF Within
      <3> QED BY <1>5, <2>1, <3>1, <3>2
    <2>2. \A k \in DOMAIN t : t[k].epoch = e => \A r \in t[k].rects : t[k].px[r] <= px[r]
      BY <1>2 DEF Within
    <2> QED BY <2>1, <2>2 DEF Within
  <1>7. Sorted(a, t)
    <2> SUFFICES ASSUME NEW k \in DOMAIN t, NEW r \in t[k].rects
                 PROVE  /\ (a.framed /\ a.epoch = t[k].epoch) => a.px[r] <= t[k].px[r]
                        /\ \A j \in DOMAIN t :
                              (k < j /\ r \in t[j].rects /\ t[j].epoch = t[k].epoch) =>
                                 t[k].px[r] <= t[j].px[r]
      BY DEF Sorted
    <2>1. k + 1 \in DOMAIN q /\ t[k] = q[k + 1] /\ 1 < k + 1 /\ k \in Nat
      BY <1>2
    <2>2. r \in Regions
      <3>1. t[k] \in GraphicsEvents
        BY <1>1, <2>1
      <3> QED BY <3>1, EventFields
    <2>3. ASSUME a.framed, a.epoch = t[k].epoch PROVE a.px[r] <= t[k].px[r]
      <3>1. CASE s.framed /\ a.epoch = s.epoch /\ a.px[r] = s.px[r]
        BY <2>1, <2>3, <3>1 DEF Sorted
      <3>2. CASE r \in h.rects /\ a.epoch = h.epoch /\ a.px[r] = h.px[r]
        BY <1>3, <2>1, <2>3, <3>2 DEF Sorted
      <3> QED BY <1>5, <2>2, <2>3, <3>1, <3>2
    <2>4. ASSUME NEW j \in DOMAIN t, k < j, r \in t[j].rects, t[j].epoch = t[k].epoch
          PROVE  t[k].px[r] <= t[j].px[r]
      <3>1. j + 1 \in DOMAIN q /\ t[j] = q[j + 1] /\ k + 1 < j + 1
        BY <1>2, <2>1, <2>4
      <3> QED BY <2>1, <2>4, <3>1 DEF Sorted
    <2> QED BY <2>3, <2>4
  <1>8. s.epoch <= a.epoch
    BY <1>4, <1>s, <1>h
  <1>9. ASSUME s.framed, a.epoch = s.epoch
        PROVE  a.framed /\ \A r \in Regions : s.px[r] <= a.px[r]
    <2>1. a.framed
      BY <1>4, <1>9
    <2>2. ASSUME NEW r \in Regions PROVE s.px[r] <= a.px[r]
      <3>1. CASE r \in h.rects /\ a.epoch = h.epoch /\ a.px[r] = h.px[r]
        BY <1>3, <1>9, <3>1 DEF Sorted
      <3> QED BY <1>5, <1>s, <2>1, <3>1
    <2> QED BY <2>1, <2>2
  <1> QED BY <1>6, <1>7, <1>8, <1>9 DEF a, h, t

\* A reset leaves the host without a picture, or alone.
LEMMA ResetSorted ==
    ASSUME NEW s \in Shown, NEW q, NEW n \in Nat, NEW e \in Nat, NEW px \in Pictures,
           Within(s, q, e, px), Sorted(s, q), n <= e
    PROVE  LET a == Reset(s, n)
           IN  /\ Within(a, q, e, px) /\ Sorted(a, q)
               /\ s.epoch <= a.epoch /\ (a = s \/ (~a.framed /\ s.epoch < a.epoch))
  <1>1. s.epoch \in Nat
    BY DEF Shown
  <1>2. CASE Reset(s, n) = s
    BY <1>1, <1>2
  <1>3. CASE Reset(s, n) # s
    <2>1. ~Reset(s, n).framed /\ s.epoch < Reset(s, n).epoch
      BY <1>3 DEF Reset
    <2>2. Reset(s, n).epoch \in Nat
      BY <1>1 DEF Reset
    <2> QED BY <1>1, <2>1, <2>2 DEF Within, Sorted
  <1> QED BY <1>2, <1>3

\* What the client thread sends is a picture of its image, and never while a canvas
\* is replaced; a pointer position carries no picture.
Sends ==
    \/ \E rect \in updates : HandleUpdate(rect)
    \/ FlushAccumulator \/ FlushPendingBase \/ RequestFrame \/ Announce \/ PointerPosition

LEMMA Sent ==
    ASSUME DataOK, Sends
    PROVE  /\ UNCHANGED <<image, epoch, shown, awaiting, paints>>
           /\ \/ graphics' = graphics
              \/ graphics' = <<FrameEvent(image, epoch)>> /\ ~awaiting
              \/ /\ ~awaiting
                 /\ \E rects \in SUBSET Regions :
                       graphics' = Append(graphics, UpdateEvent(image, epoch, rects))
              \/ graphics' = Append(graphics, CursorEvent)
  <1> USE DEF DataOK, frameState, sessionState, clientVars, hostVars
  <1>1. ASSUME NEW rect \in updates, HandleUpdate(rect)
        PROVE  /\ UNCHANGED <<image, epoch, shown, awaiting, paints>>
               /\ \/ graphics' = graphics
                  \/ graphics' = <<FrameEvent(image, epoch)>> /\ ~awaiting
                  \/ /\ ~awaiting
                     /\ \E rects \in SUBSET Regions :
                           graphics' = Append(graphics, UpdateEvent(image, epoch, rects))
    BY <1>1 DEF HandleUpdate, Merged, Flush, SendBase, SendUpdate
  <1>2. CASE FlushAccumulator
    BY <1>2 DEF FlushAccumulator, Flush, SendBase, SendUpdate
  <1>3. CASE FlushPendingBase
    BY <1>3 DEF FlushPendingBase, Owing, SendBase
  <1>4. CASE RequestFrame
    BY <1>4 DEF RequestFrame, SendBase
  <1>5. CASE Announce
    BY <1>5 DEF Announce
  <1>6. CASE PointerPosition
    BY <1>6 DEF PointerPosition
  <1> QED BY <1>1, <1>2, <1>3, <1>4, <1>5, <1>6 DEF Sends

\* The server paints, in a canvas that is in use or one that is negotiated.
LEMMA Paints ==
    ASSUME DataOK, ServerPaints \/ PaintsWhileReactivating
    PROVE  /\ \E rects : image' = Painted(rects)
           /\ paints' = paints + 1
           /\ UNCHANGED <<graphics, epoch, awaiting, shown>>
  BY DEF ServerPaints, PaintsWhileReactivating, frameState, hostVars

LEMMA MirrorStep == MirrorInv /\ [Next]_vars => MirrorInv'
  <1> SUFFICES ASSUME MirrorInv, [Next]_vars
               PROVE  /\ ImageBound' /\ Fresh' /\ Sorted(shown, graphics)'
                      /\ Within(shown, graphics, epoch, image)'
    BY InvStep DEF MirrorInv
  <1>0. /\ Inv /\ DataOK /\ HeldBack /\ EpochBound /\ ImageBound /\ Fresh
        /\ Within(shown, graphics, epoch, image) /\ Sorted(shown, graphics)
    BY DEF MirrorInv, Inv, TypeOK
  <1>t. /\ shown \in Shown /\ graphics \in Seq(GraphicsEvents) /\ epoch \in Nat
        /\ image \in Pictures /\ paints \in Nat /\ \A r \in Regions : image[r] \in Nat
        /\ \A i \in DOMAIN graphics : graphics[i] \in GraphicsEvents
        /\ shown.epoch \in Nat
    BY <1>0 DEF DataOK, Pictures, Shown
  <1>1. CASE ServerPaints \/ PaintsWhileReactivating
    <2>1. PICK rects : image' = Painted(rects)
      BY <1>0, <1>1, Paints
    <2>2. paints' = paints + 1 /\ UNCHANGED <<graphics, epoch, awaiting, shown>>
      BY <1>0, <1>1, Paints
    <2>3. \A r \in Regions : image'[r] \in Nat /\ image[r] <= image'[r] /\ image'[r] <= paints'
      BY <1>0, <1>t, <2>1, <2>2 DEF Painted, ImageBound
    <2>4. \A i \in DOMAIN graphics : \A r \in graphics[i].rects :
             r \in Regions /\ graphics[i].px[r] \in Nat
      BY <1>t, EventFields
    <2>5. \A r \in Regions : shown.px[r] \in Nat
      BY <1>t DEF Shown, Pictures
    <2>6. Within(shown, graphics, epoch, image')
      <3>1. \A a, b, c \in Nat : a <= b /\ b <= c => a <= c
        OBVIOUS
      <3>2. ASSUME shown.framed, shown.epoch = epoch, NEW r \in Regions
            PROVE  shown.px[r] <= image'[r]
        BY <1>0, <1>t, <2>3, <2>5, <3>1, <3>2 DEF Within
      <3>3. ASSUME NEW i \in DOMAIN graphics, graphics[i].epoch = epoch,
                   NEW r \in graphics[i].rects
            PROVE  graphics[i].px[r] <= image'[r]
        BY <1>0, <1>t, <2>3, <2>4, <3>1, <3>3 DEF Within
      <3> QED BY <3>2, <3>3 DEF Within
    <2> QED BY <1>0, <2>2, <2>3, <2>6 DEF ImageBound, Fresh
  <1>2. CASE Sends
    <2>1. UNCHANGED <<image, epoch, shown, awaiting, paints>>
      BY <1>0, <1>2, Sent
    <2>2. CASE graphics' = graphics
      BY <1>0, <2>1, <2>2 DEF ImageBound, Fresh
    <2>3. CASE graphics' = <<FrameEvent(image, epoch)>> /\ ~awaiting
      <3>1. Within(shown, graphics', epoch, image) /\ Sorted(shown, graphics')
        BY <1>0, <1>t, <2>3, BaseSorted DEF Within
      <3> QED BY <1>0, <2>1, <2>3, <3>1 DEF ImageBound, Fresh
    <2>4. ASSUME ~awaiting, NEW rects \in SUBSET Regions,
                 graphics' = Append(graphics, UpdateEvent(image, epoch, rects))
          PROVE  /\ ImageBound' /\ Fresh' /\ Sorted(shown, graphics)'
                 /\ Within(shown, graphics, epoch, image)'
      <3>1. UpdateEvent(image, epoch, rects) \in GraphicsEvents
        BY <1>t, EventTypes
      <3>2. /\ UpdateEvent(image, epoch, rects).epoch = epoch
            /\ \A r \in UpdateEvent(image, epoch, rects).rects :
                  UpdateEvent(image, epoch, rects).px[r] = image[r]
        BY DEF UpdateEvent, Crop
      <3>3. Within(shown, graphics', epoch, image) /\ Sorted(shown, graphics')
        BY <1>0, <1>t, <2>4, <3>1, <3>2, EventSorted
      <3> QED BY <1>0, <2>1, <2>4, <3>3 DEF ImageBound, Fresh
    <2>5. CASE graphics' = Append(graphics, CursorEvent)
      <3>1. /\ CursorEvent \in GraphicsEvents /\ CursorEvent.rects = {}
            /\ CursorEvent.kind = "cursor"
        BY ControlTypes DEF CursorEvent
      <3>2. Within(shown, graphics', epoch, image) /\ Sorted(shown, graphics')
        BY <1>0, <1>t, <2>5, <3>1, EventSorted
      <3>3. \A i \in DOMAIN graphics' : graphics'[i].kind # "cursor" =>
               i \in DOMAIN graphics /\ graphics'[i] = graphics[i]
        BY <1>t, <2>5, <3>1, Appended
      <3> QED BY <1>0, <2>1, <2>5, <3>2, <3>3 DEF ImageBound, Fresh
    <2> QED BY <1>0, <1>2, <2>2, <2>3, <2>4, <2>5, Sent
  <1>3. CASE DeactivateAll
    <2>1. UNCHANGED <<image, graphics, shown, paints>>
      BY <1>3 DEF DeactivateAll, hostVars
    <2>2. CASE epoch' = epoch + 1
      <3>1. /\ shown.epoch < epoch'
            /\ \A i \in DOMAIN graphics : graphics[i].epoch < epoch'
        BY <1>0, <1>t, <2>2, EventFields DEF EpochBound
      <3>2. Within(shown, graphics, epoch', image)
        BY <1>t, <2>2, <3>1, EventFields DEF Within
      <3> QED BY <1>0, <1>t, <2>1, <2>2, <3>1, <3>2 DEF ImageBound, Fresh
    <2>3. CASE epoch' = epoch /\ awaiting
      BY <1>0, <2>1, <2>3 DEF ImageBound, Fresh
    <2> QED BY <1>3, <2>2, <2>3 DEF DeactivateAll
  <1>4. CASE Negotiate
    <2>1. /\ image' = Blank /\ UNCHANGED <<graphics, shown, paints, epoch, awaiting>>
          /\ awaiting
      BY <1>0, <1>4 DEF Negotiate, frameState, hostVars, HeldBack
    <2>2. \A i \in DOMAIN graphics : graphics[i].epoch = epoch => graphics[i].rects = {}
      BY <1>0, <1>t, <2>1, EventFields DEF Fresh
    <2>3. Within(shown, graphics, epoch, image')
      BY <1>0, <2>1, <2>2 DEF Within, Fresh
    <2>4. ImageBound'
      BY <1>t, <2>1 DEF ImageBound, Blank
    <2> QED BY <1>0, <2>1, <2>3, <2>4 DEF Fresh
  <1>5. CASE FinishReactivation
    BY <1>0, <1>5 DEF FinishReactivation, hostVars, ImageBound, Fresh
  <1>6. CASE DrainControl
    <2>1. UNCHANGED <<image, graphics, epoch, awaiting, paints>>
      BY <1>6 DEF DrainControl, clientVars, sessionState, frameState
    <2>2. shown' = shown \/ \E n \in Nat : n <= epoch /\ shown' = Reset(shown, n)
      <3>1. /\ Head(control) \in ControlEvents
            /\ Head(control) = control[1] /\ 1 \in DOMAIN control
        BY <1>0, <1>6, Taken DEF DrainControl, DataOK
      <3>2. Head(control).epoch \in Nat /\ Head(control).epoch <= epoch
        BY <1>0, <3>1 DEF ControlEvents, EpochBound
      <3> QED BY <1>6, <3>2 DEF DrainControl
    <2>3. CASE shown' = shown
      BY <1>0, <2>1, <2>3 DEF ImageBound, Fresh
    <2>4. ASSUME NEW n \in Nat, n <= epoch, shown' = Reset(shown, n)
          PROVE  /\ ImageBound' /\ Fresh' /\ Sorted(shown, graphics)'
                 /\ Within(shown, graphics, epoch, image)'
      <3>1. /\ Within(shown', graphics, epoch, image) /\ Sorted(shown', graphics)
            /\ shown' = shown \/ ~shown'.framed
        BY <1>0, <1>t, <2>4, ResetSorted
      <3> QED BY <1>0, <2>1, <3>1 DEF ImageBound, Fresh
    <2> QED BY <2>2, <2>3, <2>4
  <1>7. CASE DrainGraphics
    <2>1. UNCHANGED <<image, epoch, awaiting, paints>>
      BY <1>7 DEF DrainGraphics, clientVars, sessionState, frameState
    <2>2. CASE UNCHANGED <<graphics, shown>>
      BY <1>0, <2>1, <2>2 DEF ImageBound, Fresh
    <2>3. CASE /\ graphics # <<>> /\ graphics' = Tail(graphics)
               /\ shown' = Applied(shown, Head(graphics))
      <3>1. Within(shown', graphics', epoch, image) /\ Sorted(shown', graphics')
        BY <1>0, <1>t, <2>3, HeadSorted
      <3>2. Fresh'
        <4> SUFFICES ASSUME awaiting
                     PROVE  /\ ~ (shown'.framed /\ shown'.epoch = epoch)
                            /\ \A i \in DOMAIN graphics' :
                                  graphics'[i].kind # "cursor" => graphics'[i].epoch < epoch
          BY <2>1 DEF Fresh
        <4>1. /\ Head(graphics) = graphics[1] /\ 1 \in DOMAIN graphics
              /\ \A i \in DOMAIN graphics' :
                    i + 1 \in DOMAIN graphics /\ graphics'[i] = graphics[i + 1]
          BY <1>t, <2>3, Taken
        <4>2. ~ (shown'.framed /\ shown'.epoch = epoch)
          <5>1. /\ ~ (shown.framed /\ shown.epoch = epoch)
                /\ Head(graphics).kind # "cursor" => Head(graphics).epoch < epoch
            BY <1>0, <4>1 DEF Fresh
          <5>2. Head(graphics).kind \in {"frame", "update", "cursor"}
                /\ Head(graphics).epoch \in Nat
            BY <1>t, <4>1, EventFields
          <5> QED BY <1>t, <2>3, <5>1, <5>2 DEF Applied, Shown
        <4> QED BY <1>0, <4>1, <4>2 DEF Fresh
      <3> QED BY <1>0, <2>1, <3>1, <3>2 DEF ImageBound
    <2> QED BY <1>7, <2>2, <2>3 DEF DrainGraphics
  <1>8. CASE DrainSeesNoControl \/ Idle \/ UNCHANGED vars
    <2>1. UNCHANGED <<image, epoch, awaiting, paints, graphics, shown>>
      BY <1>8 DEF DrainSeesNoControl, Idle, EnterSelect, ClipboardTick, vars, clientVars,
                   sessionState, frameState, hostVars
    <2> QED BY <1>0, <2>1 DEF ImageBound, Fresh
  <1> QED BY <1>1, <1>2, <1>3, <1>4, <1>5, <1>6, <1>7, <1>8, Flushes
          DEF Next, ClientStep, Environment, DrainStep, Sends, Idle

\* Every step is one of the mirror, or leaves what it is about unchanged.
LEMMA MirrorNext == MirrorInv /\ [Next]_vars => [Mirror!Next]_(Mirror!vars)
  <1> SUFFICES ASSUME MirrorInv, [Next]_vars
               PROVE  Mirror!Next \/ UNCHANGED <<image, epoch, shown>>
    BY DEF Mirror!vars
  <1>0. /\ Inv /\ DataOK /\ HeldBack /\ EpochBound /\ ImageBound /\ Fresh
        /\ Within(shown, graphics, epoch, image) /\ Sorted(shown, graphics)
    BY DEF MirrorInv, Inv, TypeOK
  <1>t. /\ shown \in Shown /\ graphics \in Seq(GraphicsEvents) /\ epoch \in Nat
        /\ image \in Pictures /\ paints \in Nat /\ \A r \in Regions : image[r] \in Nat
        /\ shown.epoch \in Nat
    BY <1>0 DEF DataOK, Pictures, Shown
  <1>n. shown' \in Shown /\ Within(shown', graphics', epoch', image') /\ shown'.epoch <= epoch'
    BY MirrorStep DEF MirrorInv, Inv, TypeOK, DataOK, EpochBound
  <1>1. CASE ServerPaints \/ PaintsWhileReactivating
    <2>1. PICK rects : image' = Painted(rects)
      BY <1>0, <1>1, Paints
    <2>2. UNCHANGED <<epoch, shown>>
      BY <1>0, <1>1, Paints
    <2>3. image' \in [Regions -> Nat] /\ \A r \in Regions : image[r] <= image'[r]
      BY <1>0, <1>t, <2>1 DEF Painted, ImageBound
    <2> QED BY <2>2, <2>3 DEF Mirror!Next, Mirror!Paint, Mirror!Pictures, Mirror!Newer
  <1>2. CASE Sends
    BY <1>0, <1>2, Sent
  <1>3. CASE DeactivateAll
    <2>1. UNCHANGED <<image, shown>> /\ (epoch' = epoch + 1 \/ epoch' = epoch)
      BY <1>3 DEF DeactivateAll, hostVars
    <2> QED BY <2>1 DEF Mirror!Next, Mirror!Restart
  <1>4. CASE Negotiate
    <2>1. image' = [r \in Regions |-> 0] /\ UNCHANGED <<shown, epoch>> /\ awaiting
      BY <1>0, <1>4 DEF Negotiate, frameState, hostVars, HeldBack, Blank
    <2> QED BY <1>0, <2>1 DEF Fresh, Mirror!Next, Mirror!Replace, Mirror!Blank
  <1>s. ASSUME UNCHANGED <<image, epoch>>, shown.epoch <= shown'.epoch,
               (shown.framed /\ shown'.epoch = shown.epoch) =>
                  shown'.framed /\ \A r \in Regions : shown.px[r] <= shown'.px[r]
        PROVE  Mirror!Next
    <2>1. shown'.epoch \in shown.epoch .. epoch
      BY <1>t, <1>n, <1>s DEF Shown
    <2>2. (shown'.framed /\ shown'.epoch = epoch) => \A r \in Regions : shown'.px[r] <= image[r]
      BY <1>n, <1>s DEF Within
    <2>3. shown' \in [epoch: Nat, framed: BOOLEAN, px: [Regions -> Nat]]
      BY <1>n DEF Shown, Pictures
    <2>4. Mirror!Show
      BY <1>s, <2>1, <2>2, <2>3 DEF Mirror!Show, Mirror!Mirrors, Mirror!Pictures, Mirror!Newer
    <2> QED BY <2>4 DEF Mirror!Next
  <1>6. CASE DrainControl
    <2>1. UNCHANGED <<image, epoch>>
      BY <1>6 DEF DrainControl, clientVars, sessionState, frameState
    <2>2. CASE shown' = Reset(shown, Head(control).epoch)
      <3>1. /\ Head(control) \in ControlEvents
            /\ Head(control) = control[1] /\ 1 \in DOMAIN control
        BY <1>0, <1>6, Taken DEF DrainControl, DataOK
      <3>2. Head(control).epoch \in Nat /\ Head(control).epoch <= epoch
        BY <1>0, <3>1 DEF ControlEvents, EpochBound
      <3>3. /\ shown.epoch <= shown'.epoch
            /\ shown' = shown \/ (~shown'.framed /\ shown.epoch < shown'.epoch)
        BY <1>0, <1>t, <2>2, <3>2, ResetSorted
      <3>4. shown'.epoch \in Nat
        BY <1>n DEF Shown
      <3> QED BY <1>s, <1>t, <2>1, <3>3, <3>4
    <2> QED BY <1>6, <2>1, <2>2 DEF DrainControl
  <1>7. CASE DrainGraphics
    <2>1. UNCHANGED <<image, epoch>>
      BY <1>7 DEF DrainGraphics, clientVars, sessionState, frameState
    <2>2. CASE /\ graphics # <<>> /\ shown' = Applied(shown, Head(graphics))
      <3>1. /\ shown.epoch <= shown'.epoch
            /\ (shown.framed /\ shown'.epoch = shown.epoch) =>
                  shown'.framed /\ \A r \in Regions : shown.px[r] <= shown'.px[r]
        BY <1>0, <1>t, <2>2, HeadSorted
      <3> QED BY <1>s, <2>1, <3>1
    <2> QED BY <1>7, <2>1, <2>2 DEF DrainGraphics
  <1>8. CASE FinishReactivation \/ DrainSeesNoControl \/ Idle \/ UNCHANGED vars
    BY <1>8 DEF FinishReactivation, DrainSeesNoControl, Idle, EnterSelect, ClipboardTick,
                 vars, clientVars, sessionState, frameState, hostVars
  <1> QED BY <1>1, <1>2, <1>3, <1>4, <1>6, <1>7, <1>8, Flushes
          DEF Next, ClientStep, Environment, DrainStep, Sends, Idle

LEMMA MirrorInit == Init => MirrorInv /\ Mirror!Init
  <1> SUFFICES ASSUME Init PROVE MirrorInv /\ Mirror!Init
    OBVIOUS
  <1>1. Inv
    BY InvInit
  <1>2. ImageBound /\ Fresh /\ Within(shown, graphics, epoch, image) /\ Sorted(shown, graphics)
    BY DEF Init, ImageBound, Fresh, Within, Sorted, Blank
  <1>3. Mirror!Init
    BY DEF Init, Mirror!Init, Mirror!Blank, Blank
  <1> QED BY <1>1, <1>2, <1>3 DEF MirrorInv

\* The bitmap path implements ScreenMirror, for every set of regions, every queue
\* capacity and any number of paints, requests and reactivations: whatever the two
\* channels drop, supersede or delay, the host never shows what the server has not
\* painted in that canvas, never goes back to older content, and never returns to a
\* retired canvas.
THEOREM FramesMirrorTheScreen == Spec => MirrorsScreen
  <1>1. Init => MirrorInv /\ Mirror!Init
    BY MirrorInit
  <1>2. MirrorInv /\ [Next]_vars => MirrorInv' /\ [Mirror!Next]_(Mirror!vars)
    BY MirrorStep, MirrorNext
  <1> QED BY <1>1, <1>2, PTL DEF Spec, MirrorsScreen, Mirror!Spec

=============================================================================
