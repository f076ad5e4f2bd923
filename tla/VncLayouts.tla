------------------------------ MODULE VncLayouts ------------------------------
(***************************************************************************)
(* From the host's monitors to the screens of a SetDesktopSize request:    *)
(* VncDesktopLayout::from_remote_layout and its checks, in                 *)
(* plugins/vnc/src/desktop_size.rs.  Monitors have names and signed        *)
(* coordinates around the primary one; screens have 32-bit identifiers,    *)
(* hashed from the names, and unsigned coordinates.                        *)
(*                                                                         *)
(* The module converts one list of monitors, in the order in which the     *)
(* host gives it, per behaviour.                                           *)
(***************************************************************************)
EXTENDS Integers, Sequences, FiniteSets

CONSTANTS Names,         \* bound: stable identifiers, as numbers in their order; 0 is empty
          Lefts, Tops,   \* bound: coordinates
          Spans,         \* bound: widths and heights
          MaxSpan,       \* u16::MAX
          MaxPixels,     \* VNC_MAX_FRAMEBUFFER_PIXELS
          MaxMonitors    \* bound: monitors

VARIABLES monitors, result
vars == <<monitors, result>>

Monitors == [name : Names, left : Lefts, top : Tops, width : Spans, height : Spans,
             primary : BOOLEAN]
Refused == [width |-> 0, height |-> 0, screens |-> <<>>]

TypeOK ==
    /\ monitors \in Seq(Monitors)
    /\ result.width \in 0 .. MaxSpan /\ result.height \in 0 .. MaxSpan
    /\ Len(result.screens) \in {0, Len(monitors)}

\* The hash of a name: two of the names have the same.
StableScreenId(name) == name % 2

Overlap(x1, y1, w1, h1, x2, y2, w2, h2) ==
    x1 < x2 + w2 /\ x2 < x1 + w1 /\ y1 < y2 + h2 /\ y2 < y1 + h1

NonOverlappingMonitors(ms) ==
    \A i, j \in DOMAIN ms : i < j =>
        ~Overlap(ms[i].left, ms[i].top, ms[i].width, ms[i].height,
                 ms[j].left, ms[j].top, ms[j].width, ms[j].height)

NonOverlappingScreens(ss) ==
    \A i, j \in DOMAIN ss : i < j =>
        ~Overlap(ss[i].x, ss[i].y, ss[i].width, ss[i].height,
                 ss[j].x, ss[j].y, ss[j].width, ss[j].height)

ValidFramebuffer(width, height) ==
    /\ width \in 1 .. MaxSpan /\ height \in 1 .. MaxSpan
    /\ width * height <= MaxPixels

ValidWireLayout(layout) ==
    /\ ValidFramebuffer(layout.width, layout.height)
    /\ Len(layout.screens) >= 1
    /\ \A i, j \in DOMAIN layout.screens :
         i # j => layout.screens[i].id # layout.screens[j].id
    /\ \A i \in DOMAIN layout.screens :
         LET s == layout.screens[i] IN
         /\ s.width > 0 /\ s.height > 0
         /\ s.x + s.width <= layout.width /\ s.y + s.height <= layout.height
    /\ NonOverlappingScreens(layout.screens)

\* The checks of from_remote_layout's loop, and those before it.
Acceptable(ms) ==
    /\ ms # <<>>
    /\ \E i \in DOMAIN ms : \A j \in DOMAIN ms : ms[j].primary <=> j = i
    /\ \A i \in DOMAIN ms : /\ ms[i].name # 0
                            /\ ms[i].width \in 1 .. MaxSpan
                            /\ ms[i].height \in 1 .. MaxSpan
    /\ \A i, j \in DOMAIN ms : i # j => /\ ms[i].name # ms[j].name
                                        /\ StableScreenId(ms[i].name) # StableScreenId(ms[j].name)
    /\ NonOverlappingMonitors(ms)

Lowest(S)  == CHOOSE n \in S : \A m \in S : n <= m
Highest(S) == CHOOSE n \in S : \A m \in S : m <= n
Left(ms)   == Lowest({ms[i].left : i \in DOMAIN ms})
Top(ms)    == Lowest({ms[i].top : i \in DOMAIN ms})
Right(ms)  == Highest({ms[i].left + ms[i].width : i \in DOMAIN ms})
Bottom(ms) == Highest({ms[i].top + ms[i].height : i \in DOMAIN ms})

\* The primary screen goes first, the wire having no other mark of it.
Before(a, b) ==
    \/ a.primary /\ ~b.primary
    \/ /\ a.primary = b.primary
       /\ \/ a.top < b.top
          \/ a.top = b.top /\ a.left < b.left
          \/ a.top = b.top /\ a.left = b.left /\ a.name < b.name

\* How many monitors sort_by_key puts ahead of one, and the monitor it puts at each place:
\* no two of an acceptable list have the same key.
Rank(k, ms) == Cardinality({j \in DOMAIN ms : Before(ms[j], ms[k])})
Order(ms)   == [i \in DOMAIN ms |-> CHOOSE k \in DOMAIN ms : Rank(k, ms) = i - 1]

Screen(m, ms) == [id |-> StableScreenId(m.name), x |-> m.left - Left(ms), y |-> m.top - Top(ms),
                  width |-> m.width, height |-> m.height]

FromRemoteLayout(ms) ==
    LET layout == [width   |-> Right(ms) - Left(ms),
                   height  |-> Bottom(ms) - Top(ms),
                   screens |-> [i \in DOMAIN ms |-> Screen(ms[Order(ms)[i]], ms)]]
    IN IF Acceptable(ms) /\ ValidWireLayout(layout) THEN layout ELSE Refused

Init ==
    /\ \E n \in 0 .. MaxMonitors : monitors \in [1 .. n -> Monitors]
    /\ result = Refused

Convert ==
    /\ monitors # <<>>
    /\ result' = FromRemoteLayout(monitors)
    /\ UNCHANGED monitors

Next == Convert
Spec == Init /\ [][Next]_vars

(***************************************************************************)
(* Properties.                                                             *)
(***************************************************************************)
Accepted == result # Refused

\* The screens are the monitors, each of its size and where it is relative to any other,
\* in the smallest framebuffer that holds them, and the first is the primary one's.
ScreensAreMonitors ==
    Accepted =>
        \E order \in [DOMAIN monitors -> DOMAIN monitors] :
            /\ monitors[order[1]].primary
            /\ \A i, j \in DOMAIN monitors :
                 LET s == result.screens[i]   m == monitors[order[i]]
                     t == result.screens[j]   o == monitors[order[j]]
                 IN /\ i # j => order[i] # order[j]
                    /\ s.x - t.x = m.left - o.left /\ s.y - t.y = m.top - o.top
                    /\ s.width = m.width /\ s.height = m.height
            /\ \E i \in DOMAIN monitors : result.screens[i].x = 0
            /\ \E i \in DOMAIN monitors : result.screens[i].y = 0
            /\ \E i \in DOMAIN monitors :
                 result.screens[i].x + result.screens[i].width = result.width
            /\ \E i \in DOMAIN monitors :
                 result.screens[i].y + result.screens[i].height = result.height

\* The order in which the host lists its monitors makes no difference.
OrderIrrelevant ==
    Accepted =>
        \A order \in [DOMAIN monitors -> DOMAIN monitors] :
            (\A i, j \in DOMAIN monitors : i # j => order[i] # order[j])
            => FromRemoteLayout([i \in DOMAIN monitors |-> monitors[order[i]]]) = result
=============================================================================
