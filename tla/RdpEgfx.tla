-------------------------------- MODULE RdpEgfx --------------------------------
(***************************************************************************)
(* The graphics pipeline of an RDP session (plugins/rdp/src/egfx.rs): the  *)
(* renderer that the graphics channel's handler and the session loop share *)
(* behind one lock, the events it puts on the session's two channels, and  *)
(* what the host makes of them.                                            *)
(*                                                                         *)
(* A picture is a row of pixels, a pixel the number of the drawing that    *)
(* gave it its colour.  The codecs (bitmaps, ClearCodec, progressive       *)
(* tiles, solid fills) all come to colours for a region of a surface.      *)
(***************************************************************************)
EXTENDS Integers, Sequences

CONSTANTS Ids, Slots,      \* bound: of surfaces, of cache entries
          MaxWidth,        \* bound: pixels of the desktop, or of a surface
          MaxSurfacePixels,\* EGFX_MAX_TOTAL_SURFACE_BYTES
          MaxCachePixels,  \* EGFX_MAX_CACHE_BYTES
          Capacity,        \* of the graphics queue
          MaxDraws,        \* bound: drawings
          MaxEpoch         \* bound: reactivations

VARIABLES
    desktop,    \* desktop_pixels, empty without a desktop_size
    surfaces,   \* pixels, empty for none, and output_origin, 0 for None
    cache,      \* pixels of the slots, empty for none
    allocated,  \* allocated_surface_bytes, allocated_cache_bytes
    dirty,      \* pending_desktop_dirty
    needsBase, epoch, awaiting, failed, \* needs_base_frame, graphics_epoch, ...
    published,  \* published_first_frame
    graphics, control,                  \* the session's two channels
    host,       \* what the host shows
    draws       \* drawings so far

tables  == <<surfaces, cache, allocated>>
rest    == <<epoch, awaiting, failed, published, host>>
vars    == <<desktop, tables, dirty, needsBase, rest, graphics, control, draws>>

Colours  == 0 .. MaxDraws
Pictures == UNION {[1 .. n -> Colours] : n \in 0 .. MaxWidth}
Gone     == [pixels |-> <<>>, origin |-> 0]
Black(n) == [i \in 1 .. n |-> 0]
Points   == DOMAIN desktop

Frame(pixels) == [kind |-> "frame", epoch |-> epoch, size |-> Len(pixels), px |-> pixels]
Update(rects) == [kind |-> "update", epoch |-> epoch, size |-> Len(desktop),
                  px |-> [p \in rects |-> desktop[p]]]
Control(kind, n) == [kind |-> kind, epoch |-> n]

Total(f) == LET sum[S \in SUBSET DOMAIN f] ==
                  IF S = {} THEN 0
                  ELSE LET x == CHOOSE x \in S : TRUE IN f[x] + sum[S \ {x}]
            IN sum[DOMAIN f]

TypeOK ==
    /\ desktop \in Pictures
    /\ surfaces \in [Ids -> [pixels : Pictures, origin : 0 .. MaxWidth]]
    /\ cache \in [Slots -> Pictures]
    /\ allocated \in [surfaces : 0 .. MaxSurfacePixels, cache : 0 .. MaxCachePixels]
    /\ dirty \subseteq Points
    /\ needsBase \in BOOLEAN /\ awaiting \in BOOLEAN /\ failed \in BOOLEAN
    /\ published \in BOOLEAN /\ epoch \in 0 .. MaxEpoch /\ draws \in 0 .. MaxDraws
    /\ Len(graphics) <= Capacity
    /\ host \in [epoch : 0 .. MaxEpoch, framed : BOOLEAN, px : Pictures]

Init ==
    /\ desktop = <<>>
    /\ surfaces = [id \in Ids |-> Gone] /\ cache = [slot \in Slots |-> <<>>]
    /\ allocated = [surfaces |-> 0, cache |-> 0]
    /\ dirty = {} /\ needsBase = TRUE
    /\ epoch = 0 /\ awaiting = FALSE /\ failed = FALSE /\ published = FALSE
    /\ graphics = <<>> /\ control = <<>>
    /\ host = [epoch |-> 0, framed |-> FALSE, px |-> <<>>]
    /\ draws = 0

(***************************************************************************)
(* Surfaces.  A server that follows the protocol names those it has.       *)
(***************************************************************************)
Has(id) == surfaces[id].pixels # <<>>

\* composite_surface_region: the mapped part of the region that the desktop has.
Shown(id, region, origin) ==
    IF origin = 0 THEN {} ELSE {origin + i - 1 : i \in region} \cap Points

Composite(id, pixels, region, origin) ==
    LET shown == Shown(id, region, origin) IN
    /\ desktop' = [p \in Points |-> IF p \in shown THEN pixels[p - origin + 1] ELSE desktop[p]]
    /\ dirty' = dirty \cup shown

\* write_surface_region
Write(id, region, pixels) ==
    /\ surfaces' = [surfaces EXCEPT ![id].pixels = pixels]
    /\ Composite(id, pixels, region, surfaces[id].origin)

\* discard_surface_state
NoSurfaces ==
    /\ surfaces' = [id \in Ids |-> Gone] /\ cache' = [slot \in Slots |-> <<>>]
    /\ allocated' = [surfaces |-> 0, cache |-> 0]

ResetGraphics ==
    /\ ~failed
    /\ \E n \in 1 .. MaxWidth : desktop' = Black(n)
    /\ NoSurfaces
    /\ dirty' = DOMAIN desktop'
    /\ needsBase' = TRUE
    /\ UNCHANGED <<rest, graphics, control, draws>>

\* fail: the session is told, and the renderer takes no more.
Fail ==
    /\ failed' = TRUE
    /\ control' = Append(control, Control("failure", epoch))
    /\ UNCHANGED <<desktop, tables, dirty, needsBase, epoch, awaiting, published, host,
                   graphics, draws>>

\* A surface may replace one of its id; its memory is accounted either way.
SurfacesAfter(id, n) == allocated.surfaces - Len(surfaces[id].pixels) + n

CreateSurface ==
    /\ ~failed
    /\ \E id \in Ids, n \in 1 .. MaxWidth :
         IF SurfacesAfter(id, n) > MaxSurfacePixels THEN Fail
         ELSE /\ surfaces' = [surfaces EXCEPT ![id] = [pixels |-> Black(n), origin |-> 0]]
              /\ allocated' = [allocated EXCEPT !.surfaces = SurfacesAfter(id, n)]
              /\ UNCHANGED <<desktop, cache, dirty, needsBase, rest, graphics, control, draws>>

DeleteSurface ==
    /\ ~failed
    /\ \E id \in Ids :
         /\ Has(id)
         /\ allocated' = [allocated EXCEPT !.surfaces = @ - Len(surfaces[id].pixels)]
         /\ surfaces' = [surfaces EXCEPT ![id] = Gone]
    /\ UNCHANGED <<desktop, cache, dirty, needsBase, rest, graphics, control, draws>>

\* map_surface shows what the surface has.
MapSurface ==
    /\ ~failed
    /\ \E id \in Ids, origin \in 1 .. MaxWidth :
         /\ Has(id)
         /\ surfaces' = [surfaces EXCEPT ![id].origin = origin]
         /\ Composite(id, surfaces[id].pixels, DOMAIN surfaces[id].pixels, origin)
    /\ UNCHANGED <<cache, allocated, needsBase, rest, graphics, control, draws>>

Regions(id) == {a .. b : a, b \in DOMAIN surfaces[id].pixels} \ {{}}
Lowest(S)   == CHOOSE n \in S : \A m \in S : n <= m
Copy(id, region) == [i \in 1 .. (CHOOSE n \in 1 .. MaxWidth : region = Lowest(region) ..
                                    Lowest(region) + n - 1)
                       |-> surfaces[id].pixels[Lowest(region) + i - 1]]

\* The surface's pixels with those of a copy from the given place on.
Pasted(id, pixels, at) ==
    [i \in DOMAIN surfaces[id].pixels |->
       IF i - at + 1 \in DOMAIN pixels THEN pixels[i - at + 1] ELSE surfaces[id].pixels[i]]
Fits(id, pixels, at) == at + Len(pixels) - 1 <= Len(surfaces[id].pixels)

\* Bitmaps, ClearCodec, progressive tiles, solid fills.
Draw ==
    /\ ~failed /\ draws < MaxDraws
    /\ draws' = draws + 1
    /\ \E id \in Ids : \E region \in Regions(id) :
         Write(id, region, [i \in DOMAIN surfaces[id].pixels |->
                              IF i \in region THEN draws' ELSE surfaces[id].pixels[i]])
    /\ UNCHANGED <<cache, allocated, needsBase, rest, graphics, control>>

\* The source is copied before the destination is written.
SurfaceToSurface ==
    /\ ~failed
    /\ \E from, to \in Ids : \E region \in Regions(from), at \in DOMAIN surfaces[to].pixels :
         /\ Fits(to, Copy(from, region), at)
         /\ Write(to, at .. at + Len(Copy(from, region)) - 1, Pasted(to, Copy(from, region), at))
    /\ UNCHANGED <<cache, allocated, needsBase, rest, graphics, control, draws>>

SurfaceToCache ==
    /\ ~failed
    /\ \E id \in Ids, slot \in Slots : \E region \in Regions(id) :
         LET pixels == Copy(id, region)
             total  == allocated.cache - Len(cache[slot]) + Len(pixels)
         IN IF total > MaxCachePixels THEN Fail
            ELSE /\ cache' = [cache EXCEPT ![slot] = pixels]
                 /\ allocated' = [allocated EXCEPT !.cache = total]
                 /\ UNCHANGED <<desktop, surfaces, dirty, needsBase, rest, graphics, control,
                                draws>>

CacheToSurface ==
    /\ ~failed
    /\ \E slot \in Slots, id \in Ids : \E at \in DOMAIN surfaces[id].pixels :
         /\ cache[slot] # <<>> /\ Fits(id, cache[slot], at)
         /\ Write(id, at .. at + Len(cache[slot]) - 1, Pasted(id, cache[slot], at))
    /\ UNCHANGED <<cache, allocated, needsBase, rest, graphics, control, draws>>

EvictCacheEntry ==
    /\ ~failed
    /\ \E slot \in Slots :
         /\ cache[slot] # <<>>
         /\ allocated' = [allocated EXCEPT !.cache = @ - Len(cache[slot])]
         /\ cache' = [cache EXCEPT ![slot] = <<>>]
    /\ UNCHANGED <<desktop, surfaces, dirty, needsBase, rest, graphics, control, draws>>

(***************************************************************************)
(* Frames.                                                                 *)
(***************************************************************************)
\* publish_base_frame: it replaces what is queued.  The first that ends a frame of the
\* server is followed by the ready events.
PublishBase(ready) ==
    /\ graphics' = <<Frame(desktop)>>
    /\ needsBase' = FALSE
    /\ dirty' = {}
    /\ published' = (published \/ ready)
    /\ control' = IF ready /\ ~published THEN Append(control, Control("connected", epoch))
                  ELSE control

\* Variant for mutation: an update that the full queue refused is forgotten.
PublishUpdateForgetting(rects) ==
    /\ dirty' = {}
    /\ graphics' = IF Len(graphics) < Capacity THEN Append(graphics, Update(rects)) ELSE graphics
    /\ UNCHANGED <<needsBase, published, control>>

PublishUpdate(rects) ==
    /\ dirty' = {}
    /\ IF Len(graphics) < Capacity
       THEN graphics' = Append(graphics, Update(rects)) /\ UNCHANGED needsBase
       ELSE needsBase' = TRUE /\ UNCHANGED graphics
    /\ UNCHANGED <<published, control>>

\* publish_completed_frame: what is drawn while a reactivation is awaited is dropped.
\* The rectangles are merged, so that they may hold more than was drawn, and come to as
\* many pixels as the desktop has though they do not cover it.
EndFrame ==
    /\ ~failed /\ dirty # {}
    /\ \/ awaiting /\ dirty' = {} /\ UNCHANGED <<needsBase, published, graphics, control>>
       \/ ~awaiting /\ PublishBase(TRUE)
       \/ /\ ~awaiting /\ ~needsBase /\ dirty # Points
          /\ \E rects \in SUBSET Points : dirty \subseteq rects /\ PublishUpdate(rects)
    /\ UNCHANGED <<desktop, tables, epoch, awaiting, failed, host, draws>>

\* The host asks for a frame.  Before there is a desktop the bitmap path answers, unless
\* it waits for the reactivation itself.
RequestFrame ==
    /\ ~awaiting
    /\ \/ desktop # <<>> /\ PublishBase(FALSE)
       \/ /\ desktop = <<>>
          /\ graphics' = <<Frame(Black(1))>>
          /\ UNCHANGED <<dirty, needsBase, published, control>>
    /\ UNCHANGED <<desktop, tables, epoch, awaiting, failed, host, draws>>

\* DeactivateAll: begin_frame_transition.
BeginTransition ==
    /\ ~awaiting /\ epoch < MaxEpoch
    /\ epoch' = epoch + 1
    /\ awaiting' = TRUE
    /\ dirty' = {} /\ needsBase' = TRUE
    /\ control' = Append(control, Control("reset", epoch'))
    /\ UNCHANGED <<desktop, tables, failed, published, graphics, host, draws>>

\* The new canvas is negotiated: prepare_for_reactivation.
PrepareForReactivation ==
    /\ awaiting
    /\ awaiting' = FALSE
    /\ desktop' = <<>> /\ dirty' = {} /\ needsBase' = TRUE
    /\ NoSurfaces
    /\ UNCHANGED <<epoch, failed, published, host, graphics, control, draws>>

(***************************************************************************)
(* The host: a frame starts a picture of its epoch, an update patches one  *)
(* of its epoch and size, a reset retires the older epochs.                *)
(***************************************************************************)
Applied(s, event) ==
    IF event.kind = "frame" /\ event.epoch >= s.epoch
    THEN [epoch |-> event.epoch, framed |-> TRUE, px |-> event.px]
    ELSE IF event.kind = "update" /\ event.epoch = s.epoch /\ s.framed
                /\ event.size = Len(s.px)
    THEN [s EXCEPT !.px = [p \in DOMAIN s.px |->
                             IF p \in DOMAIN event.px THEN event.px[p] ELSE s.px[p]]]
    ELSE s

DeliverGraphics ==
    /\ graphics # <<>>
    /\ host' = Applied(host, Head(graphics))
    /\ graphics' = Tail(graphics)
    /\ UNCHANGED <<desktop, tables, dirty, needsBase, epoch, awaiting, failed, published,
                   control, draws>>

DeliverControl ==
    /\ control # <<>>
    /\ host' = IF Head(control).kind = "reset" /\ Head(control).epoch > host.epoch
               THEN [epoch |-> Head(control).epoch, framed |-> FALSE, px |-> <<>>]
               ELSE host
    /\ control' = Tail(control)
    /\ UNCHANGED <<desktop, tables, dirty, needsBase, epoch, awaiting, failed, published,
                   graphics, draws>>

Server == \/ ResetGraphics \/ CreateSurface \/ DeleteSurface \/ MapSurface
          \/ Draw \/ SurfaceToSurface \/ SurfaceToCache \/ CacheToSurface
          \/ EvictCacheEntry \/ EndFrame
Next == \/ Server \/ RequestFrame \/ BeginTransition \/ PrepareForReactivation
        \/ DeliverGraphics \/ DeliverControl

Spec == Init /\ [][Next]_vars

(***************************************************************************)
(* Properties.                                                             *)
(***************************************************************************)
\* What the host shows once it has what is queued.
Drained == LET after[i \in 0 .. Len(graphics)] ==
                 IF i = 0 THEN host ELSE Applied(after[i - 1], graphics[i])
           IN after[Len(graphics)]

\* Unless a base frame is owed, the host will show the desktop but for what is dirty:
\* no drawing, dropped update, remapping, frame request or change of epoch is lost.
NothingLost ==
    ~needsBase =>
        /\ Drained.framed /\ Drained.epoch = epoch
        /\ Len(Drained.px) = Len(desktop)
        /\ \A p \in Points : Drained.px[p] = desktop[p] \/ p \in dirty

\* The memory that counts towards the limits is that of the surfaces and the cache.
AccountsExact ==
    /\ allocated.surfaces = Total([id \in Ids |-> Len(surfaces[id].pixels)])
    /\ allocated.cache = Total([slot \in Slots |-> Len(cache[slot])])
=============================================================================
