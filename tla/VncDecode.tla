------------------------------ MODULE VncDecode -------------------------------
(***************************************************************************)
(* The decoder state of a VNC connection, which must stay in step with the *)
(* server's encoders from the first rectangle to the last: Tight's zlib    *)
(* streams (plugins/vnc/src/performance.rs), ZRLE's one stream and the     *)
(* bounds of an update (decode.rs), and the H.264 contexts (h264.rs).      *)
(*                                                                         *)
(* A compressed segment is the position it has in its encoder's stream     *)
(* since the stream was last reset; an inflater decodes it if it is at the *)
(* same position.  The reader is sequential, so the server's encoding of a *)
(* rectangle and the client's decoding of it are one step.                 *)
(***************************************************************************)
EXTENDS Integers, FiniteSets

CONSTANTS Streams,        \* Tight's streams: 0 .. VNC_TIGHT_STREAM_COUNT - 1
          Places,         \* bound: rectangles the server encodes in H.264
          MaxContexts,    \* MAX_OPEN_H264_CONTEXTS
          MaxRects,       \* MAX_VNC_RECTS_PER_UPDATE
          MaxSegments     \* bound: length of a stream

VARIABLES
    tight, zrle, h264,      \* the client: positions, and the contexts it has
    encTight, encZrle, encH264,  \* the server's
    update,                 \* the update being read: rectangles so far, and announced
    garbled,                \* a segment met an inflater that was elsewhere
    refused,                \* the client has ended the connection
    observed                \* capabilities proven by what was received

clientVars == <<tight, zrle, h264>>
serverVars == <<encTight, encZrle, encH264>>
vars == <<clientVars, serverVars, update, garbled, refused, observed>>

Positions == 0 .. MaxSegments
Idle      == [open |-> FALSE, read |-> 0, count |-> 0]
Unknown   == MaxRects + 2   \* u16::MAX on the wire

TypeOK ==
    /\ tight \in [Streams -> Positions] /\ encTight \in [Streams -> Positions]
    /\ zrle \in Positions /\ encZrle \in Positions
    /\ h264 \in [Places -> Positions] /\ encH264 \in [Places -> Positions]
    /\ update \in [open : BOOLEAN, read : 0 .. MaxRects, count : 0 .. Unknown]
    /\ garbled \in BOOLEAN /\ refused \in BOOLEAN
    /\ observed \subseteq {"tight", "jpeg", "h264", "lastRect"}

Init ==
    /\ tight = [s \in Streams |-> 0] /\ encTight = [s \in Streams |-> 0]
    /\ zrle = 0 /\ encZrle = 0
    /\ h264 = [p \in Places |-> 0] /\ encH264 = [p \in Places |-> 0]
    /\ update = Idle
    /\ garbled = FALSE /\ refused = FALSE /\ observed = {}

Up == ~refused /\ ~garbled
Contexts(positions) == Cardinality({p \in Places : positions[p] > 0})

(***************************************************************************)
(* read_framebuffer_update: the header, the rectangles, the end.           *)
(***************************************************************************)
\* A server that does not know the count says so, and ends with LastRect.
Header ==
    /\ Up /\ ~update.open
    /\ \E count \in (0 .. MaxRects + 1) \cup {Unknown} :
         /\ refused' = (count # Unknown /\ count > MaxRects)
         /\ update' = IF count = 0 THEN Idle ELSE [open |-> TRUE, read |-> 0, count |-> count]
    /\ UNCHANGED <<clientVars, serverVars, garbled, observed>>

\* A limit that lets one more in.
CountRectLate ==
    LET read == update.read + 1 IN
    /\ update' = IF read = update.count THEN Idle ELSE [update EXCEPT !.read = read]
    /\ refused' = (update.count = Unknown /\ read = MaxRects + 1)

\* One more rectangle is read; after the last one announced the update is over.  One of
\* an unknown count that is not over within the limit is refused.
CountRect ==
    LET read == update.read + 1 IN
    /\ update' = IF read = update.count THEN Idle ELSE [update EXCEPT !.read = read]
    /\ refused' = (update.count = Unknown /\ read = MaxRects)

LastRect ==
    /\ Up /\ update.open /\ update.count = Unknown
    /\ update' = Idle
    /\ observed' = observed \cup {"lastRect"}
    /\ UNCHANGED <<clientVars, serverVars, garbled, refused>>

(***************************************************************************)
(* The rectangles.                                                         *)
(***************************************************************************)
Rectangle == Up /\ update.open /\ (update.count = Unknown => update.read + 1 < MaxRects)

\* Any rectangle of Tight may reset streams, also one that uses none; data below a
\* dozen bytes is not compressed.
EncodeTight(resets, used) ==
    encTight' = [s \in Streams |->
                   (IF s \in resets THEN 0 ELSE encTight[s]) + (IF s \in used THEN 1 ELSE 0)]

ResetStreams(resets) == [s \in Streams |-> IF s \in resets THEN 0 ELSE tight[s]]

InflateTight(resets, used) ==
    tight' = [s \in Streams |-> ResetStreams(resets)[s] + (IF s \in used THEN 1 ELSE 0)]

ReadTight ==
    /\ Rectangle
    /\ \E resets \in SUBSET Streams, used \in {{}} \cup {{s} : s \in Streams},
          kind \in {"fill", "jpeg", "basic"} :
         /\ kind # "basic" => used = {}
         /\ \A s \in used : s \in resets \/ encTight[s] < MaxSegments
         /\ EncodeTight(resets, used)
         /\ InflateTight(resets, used)
         /\ garbled' = (\E s \in used : tight'[s] # encTight'[s])
         /\ observed' = observed \cup {"tight"} \cup (IF kind = "jpeg" THEN {"jpeg"} ELSE {})
    /\ CountRect
    /\ UNCHANGED <<zrle, h264, encZrle, encH264>>

\* ZRLE's stream is never reset.
ReadZrle ==
    /\ Rectangle /\ encZrle < MaxSegments
    /\ encZrle' = encZrle + 1
    /\ zrle' = zrle + 1
    /\ garbled' = (zrle' # encZrle')
    /\ CountRect
    /\ UNCHANGED <<tight, h264, encTight, encH264, observed>>

\* The server resets this context or all before it encodes, and may send nothing else.
EncodeH264(place, reset, data) ==
    encH264' = [p \in Places |->
                  IF p = place
                  THEN (IF reset = {} THEN encH264[p] ELSE 0) + (IF data THEN 1 ELSE 0)
                  ELSE IF "all" \in reset THEN 0 ELSE encH264[p]]

\* Without the reset of all contexts.
KeptContextsThis(place, reset) ==
    [p \in Places |-> IF p = place /\ reset # {} THEN 0 ELSE h264[p]]

\* decode_payload: the resets are applied though there be no data.
KeptContexts(place, reset) ==
    [p \in Places |-> IF "all" \in reset \/ (p = place /\ "this" \in reset) THEN 0 ELSE h264[p]]

DecodePayload(place, reset, data) ==
    LET kept == KeptContexts(place, reset) IN
    h264' = IF data THEN [kept EXCEPT ![place] = @ + 1] ELSE kept

\* It keeps to as many contexts as the client does.
ReadH264 ==
    /\ Rectangle
    /\ \E place \in Places, reset \in SUBSET {"this", "all"}, data \in BOOLEAN :
         /\ data /\ reset = {} => encH264[place] < MaxSegments
         /\ EncodeH264(place, reset, data)
         /\ Contexts(encH264') <= MaxContexts
         /\ DecodePayload(place, reset, data)
         /\ garbled' = (data /\ h264'[place] # encH264'[place])
         /\ refused' = (data /\ KeptContexts(place, reset)[place] = 0
                             /\ Contexts(KeptContexts(place, reset)) >= MaxContexts)
    /\ update' = IF update.read + 1 = update.count THEN Idle
                 ELSE [update EXCEPT !.read = @ + 1]
    /\ observed' = observed \cup {"h264"}
    /\ UNCHANGED <<tight, zrle, encTight, encZrle>>

\* Raw, CopyRect, Hextile, the cursors and the pseudo-encodings need no decoder state.
ReadStateless ==
    /\ Up /\ update.open
    /\ CountRect
    /\ UNCHANGED <<clientVars, serverVars, garbled, observed>>

Next == Header \/ LastRect \/ ReadTight \/ ReadZrle \/ ReadH264 \/ ReadStateless
Spec == Init /\ [][Next]_vars

(***************************************************************************)
(* Properties.                                                             *)
(***************************************************************************)
\* However rectangles and resets alternate, also resets without data, each decoder is
\* where its encoder is: no segment is inflated in the wrong context.
InStep == ~garbled /\ (~refused => tight = encTight /\ zrle = encZrle /\ h264 = encH264)

\* An update is refused for its rectangles only beyond the limit: the one announced has
\* more, or an unknown number of them has not ended by then.
RefusedAtLimit ==
    refused => /\ update.count > MaxRects
               /\ update.count = Unknown => update.read = MaxRects
=============================================================================
