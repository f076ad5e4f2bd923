---------------------------- MODULE VncFramebuffer ----------------------------
(***************************************************************************)
(* The framebuffer of a VNC connection: how a framebuffer update of        *)
(* several rectangles changes it (plugins/vnc/src/main.rs, VncFramebuffer) *)
(* and what the host is sent of it (decode.rs,                             *)
(* vnc_frame_event_for_change).                                            *)
(*                                                                         *)
(* A pixel holds the number of the rectangle that painted it.  A dirty     *)
(* update is a rectangle with a copy of its pixels.  Two updates that the  *)
(* host's library can merge are those of which one contains the other; a   *)
(* merge copies the newer pixels over the older.                           *)
(***************************************************************************)
EXTENDS Integers, Sequences
LOCAL INSTANCE SequencesExt

CONSTANTS MaxWidth, MaxHeight,  \* bound: the framebuffer
          MaxRegions,           \* VNC_MAX_FRAME_UPDATE_REGIONS
          MaxRects              \* bound: rectangles the server paints

VARIABLES
    framebuffer, \* size and pixels
    change,      \* of the framebuffer update being applied: nothing, all, or some regions
    sentInitial, \* sent_initial_frame
    wantsBase,   \* the host's request for a base frame
    host,        \* the host's copy, as the events built it
    painted,     \* rectangles so far
    told         \* ghost: the framebuffer of the last event to the host

vars == <<framebuffer, change, sentInitial, wantsBase, host, painted, told>>

Sizes == (1 .. MaxWidth) \X (1 .. MaxHeight)
Colors == 0 .. MaxRects
Rects == [x : 0 .. MaxWidth - 1, y : 0 .. MaxHeight - 1, w : 1 .. MaxWidth, h : 1 .. MaxHeight]

Area(r)  == (r.x .. r.x + r.w - 1) \X (r.y .. r.y + r.h - 1)
Pixels(size) == (0 .. size[1] - 1) \X (0 .. size[2] - 1)
Black(size) == [size |-> size, bgra |-> [p \in Pixels(size) |-> 0]]

Nothing == [kind |-> "nothing", updates |-> <<>>]
All     == [kind |-> "full", updates |-> <<>>]
Some(updates) == [kind |-> "updates", updates |-> updates]

IsPicture(pic) == pic.size \in Sizes /\ pic.bgra \in [Pixels(pic.size) -> Colors]

TypeOK ==
    /\ IsPicture(framebuffer)
    /\ host = <<>> \/ IsPicture(host)
    /\ told = <<>> \/ IsPicture(told)
    /\ change.kind \in {"nothing", "full", "updates"}
    /\ \A i \in DOMAIN change.updates :
         /\ change.updates[i].rect \in Rects
         /\ change.updates[i].bytes \in [Area(change.updates[i].rect) -> Colors]
    /\ Len(change.updates) <= MaxRegions
    /\ sentInitial \in BOOLEAN /\ wantsBase \in BOOLEAN
    /\ painted \in 0 .. MaxRects

Init ==
    /\ \E size \in Sizes : framebuffer = Black(size)
    /\ change = Nothing /\ sentInitial = FALSE /\ wantsBase = FALSE
    /\ host = <<>> /\ painted = 0 /\ told = <<>>

Least(a, b) == IF a < b THEN a ELSE b
Most(a, b)  == IF a > b THEN a ELSE b

Width  == framebuffer.size[1]
Height == framebuffer.size[2]
Inside(r) == r.x < Width /\ r.y < Height
Clipped(r) == [r EXCEPT !.w = Least(r.w, Width - r.x), !.h = Least(r.h, Height - r.y)]

(***************************************************************************)
(* The regions of one framebuffer update.                                  *)
(***************************************************************************)
Update(r, bgra) == [rect |-> r, bytes |-> [p \in Area(r) |-> bgra[p]]]
Paint(bytes, over) == [p \in DOMAIN over |-> IF p \in DOMAIN bytes THEN bytes[p] ELSE over[p]]

Union(a, b) ==
    LET x == Least(a.x, b.x)
        y == Least(a.y, b.y) IN
    [x |-> x, y |-> y, w |-> Most(a.x + a.w, b.x + b.w) - x,
     h |-> Most(a.y + a.h, b.y + b.h) - y]

Count(r) == r.w * r.h
CanMerge(a, b) == Area(a) \subseteq Area(b) \/ Area(b) \subseteq Area(a)
Merged(old, new) ==
    LET r == Union(old.rect, new.rect) IN
    [rect |-> r,
     bytes |-> [p \in Area(r) |-> IF p \in DOMAIN new.bytes THEN new.bytes[p] ELSE old.bytes[p]]]

\* The two regions whose union adds the fewest pixels, the first such pair.
Inflation(updates, i, j) ==
    Most(0, Count(Union(updates[i].rect, updates[j].rect))
            - Count(updates[i].rect) - Count(updates[j].rect))
SmallestUnion(updates) ==
    LET pairs == {p \in (DOMAIN updates) \X (DOMAIN updates) : p[1] < p[2]} IN
    CHOOSE p \in pairs : \A q \in pairs :
        LET ip == Inflation(updates, p[1], p[2])
            iq == Inflation(updates, q[1], q[2])
        IN ip < iq \/ (ip = iq /\ (p[1] < q[1] \/ (p[1] = q[1] /\ p[2] <= q[2])))

\* Vec::swap_remove: the last element takes the place of the removed one.
SwapRemove(s, i) == SubSeq([s EXCEPT ![i] = s[Len(s)]], 1, Len(s) - 1)

\* Beyond the limit the newest region is dropped.
BoundedDropping(updates, bgra) ==
    IF Len(updates) <= MaxRegions THEN updates ELSE SubSeq(updates, 1, MaxRegions)

\* Beyond the limit two regions give way to a snapshot of their union.
Bounded(updates, bgra) ==
    IF Len(updates) <= MaxRegions THEN updates
    ELSE LET p == SmallestUnion(updates)
             union == Union(updates[p[1]].rect, updates[p[2]].rect)
         IN Append(SwapRemove(SwapRemove(updates, p[2]), p[1]), Update(union, bgra))

\* The newest of the regions that can be merged with it takes the new one in.
PushBounded(updates, incoming, bgra) ==
    LET able == {i \in DOMAIN updates : CanMerge(updates[i].rect, incoming.rect)} IN
    IF able # {}
    THEN LET i == CHOOSE i \in able : \A j \in able : j <= i IN
         [updates EXCEPT ![i] = Merged(@, incoming)]
    ELSE Bounded(Append(updates, incoming), bgra)

PixelSum(updates) == FoldLeft(LAMBDA sum, u : sum + Count(u.rect), 0, updates)

\* A first change stands as it is.  Regions that come to as many pixels as the
\* framebuffer has are worth a full frame.
MergeChange(incoming, bgra) ==
    IF change.kind = "nothing" THEN Some(<<incoming>>)
    ELSE IF change.kind = "full" THEN All
    ELSE LET updates == PushBounded(change.updates, incoming, bgra) IN
         IF PixelSum(updates) >= Width * Height THEN All ELSE Some(updates)

(***************************************************************************)
(* The rectangles of a framebuffer update.                                 *)
(***************************************************************************)
Repaint(r, bytes) ==
    LET bgra == Paint(bytes, framebuffer.bgra) IN
    /\ framebuffer' = [framebuffer EXCEPT !.bgra = bgra]
    /\ change' = MergeChange(Update(r, bgra), bgra)

Receives == painted < MaxRects /\ painted' = painted + 1

\* What lies outside is clipped, and a rectangle outside altogether is ignored.
DrawRect ==
    /\ Receives
    /\ \E r \in Rects :
         /\ Inside(r)
         /\ Repaint(Clipped(r), [p \in Area(Clipped(r)) |-> painted'])
    /\ UNCHANGED <<sentInitial, wantsBase, host, told>>

\* The source is read whole before the destination is written.
CopyRect ==
    /\ Receives
    /\ \E dst \in Rects, sx \in 0 .. Width - 1, sy \in 0 .. Height - 1 :
         /\ Inside(dst)
         /\ LET r == [dst EXCEPT !.w = Least(@, Least(Width - sx, Width - dst.x)),
                                 !.h = Least(@, Least(Height - sy, Height - dst.y))]
            IN Repaint(r, [p \in Area(r) |->
                             framebuffer.bgra[<<p[1] - r.x + sx, p[2] - r.y + sy>>]])
    /\ UNCHANGED <<sentInitial, wantsBase, host, told>>

SetResolution ==
    /\ \E size \in Sizes : framebuffer' = Black(size)
    /\ change' = All
    /\ UNCHANGED <<sentInitial, wantsBase, host, painted, told>>

(***************************************************************************)
(* The end of a framebuffer update: what the host is sent.                 *)
(***************************************************************************)
\* It paints the regions in their order.
PaintAll(updates, bgra) == FoldLeft(LAMBDA over, u : Paint(u.bytes, over), bgra, updates)

FrameEvent ==
    /\ change # Nothing
    /\ host' = IF wantsBase \/ ~sentInitial \/ change.kind = "full" THEN framebuffer
               ELSE [host EXCEPT !.bgra = PaintAll(change.updates, @)]
    /\ told' = framebuffer
    /\ sentInitial' = TRUE
    /\ wantsBase' = FALSE
    /\ change' = Nothing
    /\ UNCHANGED <<framebuffer, painted>>

RequestBaseFrame ==
    /\ ~wantsBase
    /\ wantsBase' = TRUE
    /\ UNCHANGED <<framebuffer, change, sentInitial, host, painted, told>>

Next == DrawRect \/ CopyRect \/ SetResolution \/ FrameEvent \/ RequestBaseFrame

Spec == Init /\ [][Next]_vars

(***************************************************************************)
(* Properties.                                                             *)
(***************************************************************************)
\* Every pixel that has changed since the host was last sent any is in a region that
\* it is about to be sent, one of the regions over a pixel has its present colour,
\* and they lie within a framebuffer of the size that the host has, unless it is due
\* the whole.  (Which of the regions it paints last is another matter: HostMirrors.)
Regions == UNION {Area(change.updates[i].rect) : i \in DOMAIN change.updates}

NothingMissed ==
    sentInitial /\ change.kind # "full" =>
        /\ told.size = framebuffer.size
        /\ Regions \subseteq Pixels(framebuffer.size)
        /\ \A p \in Pixels(framebuffer.size) :
             told.bgra[p] # framebuffer.bgra[p] => p \in Regions
        /\ \A p \in Regions : \E i \in DOMAIN change.updates :
             /\ p \in Area(change.updates[i].rect)
             /\ change.updates[i].bytes[p] = framebuffer.bgra[p]

\* tests.rs:156 "without losing pixels": the regions, painted in their order over what
\* the host has, give the framebuffer.
HostMirrors == change = Nothing /\ sentInitial => host = framebuffer
=============================================================================
