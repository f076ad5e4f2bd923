-------------------------------- MODULE MCVnc ---------------------------------
(***************************************************************************)
(* The extensions of a VNC connection, model-checked in one run.  They     *)
(* share nothing but the connection, so that a behaviour is one of a       *)
(* single part, chosen at the start, and the parts use the same variables; *)
(* those a part does not need keep the value 0.                            *)
(***************************************************************************)
EXTENDS Integers, Sequences, FiniteSets

\* The bounds of the parts that are proved about; those of the others stand below.
CONSTANTS
    FileTransfers, FilesEach, FileChunks,               \* of file transfers
    HostLayouts, OtherResizes,                          \* of the desktop's size
    MonitorNames, Reach, Breadth, SpanLimit, PixelLimit, MonitorCount,   \* of the layouts
    FrameWidth, FrameHeight, FrameRegions, FrameRects,  \* of the framebuffer
    Redraws, ScreenSizes, FenceCount, ModeEnds,         \* of continuous updates
    Copies,                                             \* of the clipboard
    ZlibStreams, H264Places, H264Contexts, UpdateRects, StreamSegments   \* of the decoders

ASSUME BoundsAssumption ==
    /\ {FilesEach, FileChunks, HostLayouts, FrameWidth, FrameHeight, FrameRegions,
        ScreenSizes} \subseteq Nat \ {0}
    /\ {FileTransfers, OtherResizes, FrameRects, Redraws, FenceCount, ModeEnds,
        Copies} \subseteq Nat
    /\ {Reach, Breadth, SpanLimit, PixelLimit, MonitorCount} \subseteq Nat
    /\ MonitorNames \subseteq Nat
    /\ {H264Contexts, UpdateRects, StreamSegments} \subseteq Nat \ {0}
    /\ IsFiniteSet(H264Places)

VARIABLES part, v1, v2, v3, v4, v5, v6, v7, v8, v9, v10, v11, v12, v13, v14, v15, v16

after13 == <<v14, v15, v16>>
after12 == <<v13, after13>>
after11 == <<v12, after12>>
after10 == <<v11, after11>>
after7  == <<v8, v9, v10, after10>>
after6  == <<v7, after7>>
after2  == <<v3, v4, v5, v6, after6>>
vars    == <<part, v1, v2, after2>>

(***************************************************************************)
(* The parts and their bounds.                                             *)
(***************************************************************************)
Files == INSTANCE VncFiles WITH
    MaxTransfers <- FileTransfers, MaxFiles <- FilesEach, ListedSize <- FileChunks,
    active <- v1, canceling <- v2, listing <- v3, upload <- v4, outbox <- v5,
    queue <- v6, wire <- v7, server <- v8, uploading <- v9, stream <- v10,
    connection <- v11, started <- v12, asked <- v13, unsent <- v14, verdicts <- v15,
    saved <- v16

Resize == INSTANCE VncDesktopResize WITH
    MaxLayouts <- HostLayouts, MaxForeign <- OtherResizes,
    capability <- v1, pending <- v2, inFlight <- v3, serverLayout <- v4, hand <- v5,
    wire <- v6, screen <- v7, stream <- v8, connected <- v9, foreign <- v10,
    chosen <- v11, wanted <- v12, asked <- v13

\* Coordinates of either sign.
Layouts == INSTANCE VncLayouts WITH
    Names <- MonitorNames, Lefts <- {-Reach, Reach}, Tops <- {0, Reach},
    Spans <- 0 .. Breadth, MaxSpan <- SpanLimit, MaxPixels <- PixelLimit,
    MaxMonitors <- MonitorCount,
    monitors <- v1, result <- v2

Framebuffer == INSTANCE VncFramebuffer WITH
    MaxWidth <- FrameWidth, MaxHeight <- FrameHeight, MaxRegions <- FrameRegions,
    MaxRects <- FrameRects,
    framebuffer <- v1, change <- v2, sentInitial <- v3, wantsBase <- v4, host <- v5,
    painted <- v6, told <- v7

Continuous == INSTANCE VncContinuous WITH
    MaxChanges <- Redraws, MaxSizes <- ScreenSizes, MaxFences <- FenceCount,
    MaxEnds <- ModeEnds,
    supported <- v1, active <- v2, size <- v3, closed <- v4, toServer <- v5,
    toClient <- v6, requested <- v7, region <- v8, screen <- v9, fences <- v10,
    sent <- v11

Clipboard == INSTANCE VncClipboard WITH
    MaxContents <- Copies,
    caps <- v1, local <- v2, outbox <- v3, queue <- v4, toServer <- v5, toClient <- v6,
    connected <- v7, serverCaps <- v8, clientCaps <- v9, remote <- v10, copy <- v11,
    host <- v12

Decode == INSTANCE VncDecode WITH
    Streams <- ZlibStreams, Places <- H264Places, MaxContexts <- H264Contexts,
    MaxRects <- UpdateRects, MaxSegments <- StreamSegments,
    tight <- v1, zrle <- v2, h264 <- v3, encTight <- v4, encZrle <- v5, encH264 <- v6,
    update <- v7, garbled <- v8, refused <- v9, observed <- v10

\* A tile of four pixels in every way, and three smaller ones that repeat two pixels.
TwoColours == {<<0, 1, 3>>, <<2, 1, 0>>}
SomePictures ==
    {p \in [(0 .. 2) \X (0 .. 2) -> TwoColours] :
       /\ p[<<2, 0>>] = p[<<1, 2>>] /\ p[<<2, 2>>] = p[<<2, 0>>]
       /\ p[<<2, 1>>] = p[<<0, 2>>]}

Pixels == INSTANCE VncPixels WITH
    Colours <- TwoColours, Width <- 3, Height <- 3, Pictures <- SomePictures, Tile <- 2,
    ByteBits <- 2,
    coding <- v1, picture <- v2, target <- v3, next <- v4, state <- v5, encoder <- v6,
    failed <- v7

Zero13 == v14 = 0 /\ v15 = 0 /\ v16 = 0
Zero12 == v13 = 0 /\ Zero13
Zero11 == v12 = 0 /\ Zero12
Zero10 == v11 = 0 /\ Zero11
Zero7  == v8 = 0 /\ v9 = 0 /\ v10 = 0 /\ Zero10
Zero6  == v7 = 0 /\ Zero7
Zero2  == v3 = 0 /\ v4 = 0 /\ v5 = 0 /\ v6 = 0 /\ Zero6

Init ==
    \/ part = "files" /\ Files!Init
    \/ part = "resize" /\ Resize!Init /\ Zero13
    \/ part = "layouts" /\ Layouts!Init /\ Zero2
    \/ part = "framebuffer" /\ Framebuffer!Init /\ Zero7
    \/ part = "continuous" /\ Continuous!Init /\ Zero11
    \/ part = "clipboard" /\ Clipboard!Init /\ Zero12
    \/ part = "decode" /\ Decode!Init /\ Zero10
    \/ part = "pixels" /\ Pixels!Init /\ Zero7

Next ==
    /\ \/ part = "files" /\ Files!Next
       \/ part = "resize" /\ Resize!Next /\ UNCHANGED after13
       \/ part = "layouts" /\ Layouts!Next /\ UNCHANGED after2
       \/ part = "framebuffer" /\ Framebuffer!Next /\ UNCHANGED after7
       \/ part = "continuous" /\ Continuous!Next /\ UNCHANGED after11
       \/ part = "clipboard" /\ Clipboard!Next /\ UNCHANGED after12
       \/ part = "decode" /\ Decode!Next /\ UNCHANGED after10
       \/ part = "pixels" /\ Pixels!Next /\ UNCHANGED after7
    /\ UNCHANGED part

\* The fairness of the two parts whose liveness is checked.
ResizeStep(A)     == part = "resize" /\ A /\ UNCHANGED <<part, after13>>
ContinuousStep(A) == part = "continuous" /\ A /\ UNCHANGED <<part, after11>>

Fairness ==
    /\ WF_vars(ResizeStep(Resize!WriteRequest))
    /\ WF_vars(ResizeStep(Resize!HandleUpdate))
    /\ WF_vars(ResizeStep(Resize!ServerAnswers))
    /\ WF_vars(ContinuousStep(Continuous!Process))
    /\ WF_vars(ContinuousStep(Continuous!ServerTakes))
    /\ WF_vars(ContinuousStep(Continuous!ServerUpdates))

Spec == Init /\ [][Next]_vars /\ Fairness

(***************************************************************************)
(* Properties.                                                             *)
(***************************************************************************)
TypesOK ==
    /\ part = "files" => Files!TypeOK
    /\ part = "resize" => Resize!TypeOK
    /\ part = "layouts" => Layouts!TypeOK
    /\ part = "framebuffer" => Framebuffer!TypeOK
    /\ part = "continuous" => Continuous!TypeOK
    /\ part = "clipboard" => Clipboard!TypeOK
    /\ part = "decode" => Decode!TypeOK
    /\ part = "pixels" => Pixels!TypeOK

\* vendor_files.rs: however a cancel, a failure and the end of a file cross, a file that
\* is kept is whole and of its own request, each download is reported over exactly
\* once, and what the server still sends for a cancelled one is no protocol error.
FilesKept ==
    part = "files" => Files!FilesIntact /\ Files!OneVerdict /\ Files!NoFalseAlarm

\* desktop_size.rs: one request at a time, and the newest layout is neither lost nor
\* overtaken by an older one, nor does it wait for nothing; the layout on the wire is
\* the host's monitors, in whatever order it lists them.
DesktopSized ==
    /\ part = "resize" => /\ Resize!OneRequest /\ Resize!NewestKept
                          /\ Resize!NothingStranded /\ Resize!ScreenKnown
    /\ part = "layouts" => Layouts!ScreensAreMonitors /\ Layouts!OrderIrrelevant

\* desktop_size.rs: a layout that waits reaches the server once the extension is there.
LayoutReachesServer ==
    \A n \in 1 .. HostLayouts : (part = "resize" /\ Resize!Waits(n))
                        ~> (part = "resize" => Resize!Served(n))

\* main.rs: a pixel that changed is in a region that the host is about to be sent.
\* And performance.rs: however the end of continuous updates, a new size and fences
\* cross, the client does not stop asking, and fences are answered in order.
NothingMissed ==
    /\ part = "framebuffer" => Framebuffer!NothingMissed
    /\ part = "continuous" => Continuous!AlwaysAsked /\ Continuous!FencesInOrder

\* performance.rs: and so what changes on the server's screen is sent.
UpdatesFlow ==
    (part = "continuous" /\ Continuous!Changed) ~> (part = "continuous" => Continuous!Sent)

\* clipboard_ext.rs: with nothing on the way each side has what the other copied last,
\* however notices, requests and the negotiation cross.
ClipboardsAgree ==
    /\ part = "clipboard" => /\ Clipboard!ServerHasLatest /\ Clipboard!HostHasLatest
                             /\ Clipboard!NeverRefused

\* decode.rs, performance.rs, h264.rs: no segment meets a decoder that is elsewhere in
\* its stream than the encoder was, and an update is refused only at its limit.
DecodersInStep == part = "decode" => Decode!InStep /\ Decode!RefusedAtLimit

\* decode.rs, performance.rs: a picture arrives as it was drawn, however it is coded.
PictureShown == part = "pixels" => Pixels!PictureShown
=============================================================================
