----------------------------- MODULE MCRdpChannels -----------------------------
(***************************************************************************)
(* The channels of an RDP session besides its bitmap path, and the helper's*)
(* event writer, model-checked in one run.  A behaviour is one of a single *)
(* part, chosen at the start; the parts share nothing but the session, and *)
(* use the same variables, those a part does not need keeping the value 0. *)
(***************************************************************************)
EXTENDS Integers, Sequences

\* The bounds of the parts that are proved about; those of the others stand below.
CONSTANTS
    WriterFrames, WriterControls,     \* of the event writer
    Packets, Captures, ReadyInputs,   \* of the microphone
    Wishes, Openings, Monitors,       \* of the display
    ClipboardCopies                   \* of the clipboard

ASSUME BoundsAssumption ==
    /\ Packets \in Nat \ {0} /\ Monitors \in Nat \ {0}
    /\ {WriterFrames, WriterControls, Captures, ReadyInputs, Wishes, Openings,
        ClipboardCopies} \subseteq Nat

VARIABLES part, v1, v2, v3, v4, v5, v6, v7, v8, v9, v10, v11, v12, v13, v14, v15, v16, v17, v18

after14 == <<v15, v16, v17, v18>>
after11 == <<v12, v13, v14, after14>>
after8  == <<v9, v10, v11, after11>>
after6  == <<v7, v8, after8>>
vars    == <<part, v1, v2, v3, v4, v5, v6, after6>>

(***************************************************************************)
(* The parts and their bounds.                                             *)
(***************************************************************************)
Writer == INSTANCE RdpEventWriter WITH
    MaxFrames <- WriterFrames, MaxControls <- WriterControls, queue <- v1, stdoutThread <- v2, held <- v3,
    batch <- v4, sender <- v5, open <- v6, out <- v7, sent <- v8, controls <- v9,
    superseded <- v10, lost <- v11

\* The graphics pipeline: a reactivation with one surface, three surfaces
\* of a pixel where two have room, and a cache.
Frames == INSTANCE RdpEgfx WITH
    Ids <- {1}, Slots <- {}, MaxWidth <- 2, MaxSurfacePixels <- 2, MaxCachePixels <- 1,
    Capacity <- 1, MaxDraws <- 1, MaxEpoch <- 1, desktop <- v1, surfaces <- v2,
    cache <- v3, allocated <- v4, dirty <- v5, needsBase <- v6, epoch <- v7,
    awaiting <- v8, failed <- v9, published <- v10, graphics <- v11, control <- v12,
    host <- v13, draws <- v14

Surfaces == INSTANCE RdpEgfx WITH
    Ids <- {1, 2, 3}, Slots <- {}, MaxWidth <- 1, MaxSurfacePixels <- 2,
    MaxCachePixels <- 1, Capacity <- 1, MaxDraws <- 1, MaxEpoch <- 0, desktop <- v1,
    surfaces <- v2, cache <- v3, allocated <- v4, dirty <- v5, needsBase <- v6,
    epoch <- v7, awaiting <- v8, failed <- v9, published <- v10, graphics <- v11,
    control <- v12, host <- v13, draws <- v14

Cache == INSTANCE RdpEgfx WITH
    Ids <- {1}, Slots <- {1}, MaxWidth <- 2, MaxSurfacePixels <- 2, MaxCachePixels <- 1,
    Capacity <- 1, MaxDraws <- 1, MaxEpoch <- 0, desktop <- v1, surfaces <- v2,
    cache <- v3, allocated <- v4, dirty <- v5, needsBase <- v6, epoch <- v7,
    awaiting <- v8, failed <- v9, published <- v10, graphics <- v11, control <- v12,
    host <- v13, draws <- v14

Clipboard == INSTANCE RdpClipboard WITH
    MaxCopies <- ClipboardCopies, local <- v1, formats <- v2, paste <- v3,
    expects <- v4, ready <- v5, inputs <- v6, reactivating <- v7, deferred <- v8,
    toServer <- v9, toClient <- v10, owner <- v11, host <- v12, copies <- v13,
    foreign <- v14, seen <- v15, asked <- v16, crossed <- v17, pasted <- v18

Files == INSTANCE RdpClipboardFiles WITH
    MaxCopies <- 2, MaxFiles <- 2, MaxFileSize <- 2, MaxTransferSize <- 3, Chunk <- 2,
    download <- v1, staged <- v2, toServer <- v3, toClient <- v4, copies <- v5,
    outcome <- v6, clean <- v7, refused <- v8

\* Two letters, one of them in both cases; a directory with at most one item, and
\* perhaps a second root; three paths of at most two names.
Names    == {<<1, 1>>, <<1, 2>>, <<2, 1>>}
Items    == [name : Names, kind : {"file", "directory", "link"}, size : {0, 2, 3}]
AllTrees == LET trees == [item : Items, children : {<<>>} \cup {<<child>> : child \in Items}]
                leaves == [item : Items, children : {<<>>}]
            IN {<<tree>> : tree \in trees} \cup (trees \X leaves)
Entries  == [path : {<<name>> : name \in Names} \cup (Names \X Names),
             kind : {"file", "directory"}, size : {1}]
AllLists == UNION {[1 .. n -> Entries] : n \in 1 .. 3}
OneFile  == <<[item |-> [name |-> <<1, 1>>, kind |-> "file", size |-> 2], children |-> <<>>]>>

Offers == INSTANCE RdpFileLists WITH
    Copied <- AllTrees, Lists <- {}, Locks <- {}, MaxItems <- 3, MaxFileSize <- 2,
    MaxTransferSize <- 3, MaxRequest <- 1, MaxOffers <- 1, offers <- v1, current <- v2,
    locked <- v3, cancelled <- v4, answer <- v5, staged <- v6

Staging == INSTANCE RdpFileLists WITH
    Copied <- {}, Lists <- AllLists, Locks <- {}, MaxItems <- 3, MaxFileSize <- 2,
    MaxTransferSize <- 3, MaxRequest <- 1, MaxOffers <- 1, offers <- v1, current <- v2,
    locked <- v3, cancelled <- v4, answer <- v5, staged <- v6

Locked == INSTANCE RdpFileLists WITH
    Copied <- {OneFile}, Lists <- {}, Locks <- {1, 2}, MaxItems <- 3, MaxFileSize <- 2,
    MaxTransferSize <- 3, MaxRequest <- 1, MaxOffers <- 2, offers <- v1, current <- v2,
    locked <- v3, cancelled <- v4, answer <- v5, staged <- v6

Microphone == INSTANCE RdpMicrophone WITH
    Capacity <- Packets, MaxCaptures <- Captures, MaxInputs <- ReadyInputs,
    packets <- v1, pending <- v2, inputs <- v3, pusher <- v4, drainer <- v5, taken <- v6, selected <- v7,
    capture <- v8, captures <- v9, replies <- v10, sent <- v11

Display == INSTANCE RdpDisplay WITH
    MaxWishes <- Wishes, MaxOpens <- Openings, MaxMonitors <- Monitors, viewport <- v1, monitors <- v2,
    all <- v3, limit <- v4, sent <- v5, ready <- v6, reactivating <- v7, alive <- v8,
    inputs <- v9, server <- v10, wishes <- v11, opens <- v12, viewed <- v13,
    plugged <- v14

Zero14 == v15 = 0 /\ v16 = 0 /\ v17 = 0 /\ v18 = 0
Zero11 == v12 = 0 /\ v13 = 0 /\ v14 = 0 /\ Zero14
Zero8  == v9 = 0 /\ v10 = 0 /\ v11 = 0 /\ Zero11
Zero6  == v7 = 0 /\ v8 = 0 /\ Zero8

Init ==
    \/ part = "writer" /\ Writer!Init /\ v12 \in 1 .. WriterFrames /\ v13 = 0 /\ v14 = 0 /\ Zero14
    \/ part = "frames" /\ Frames!Init /\ Zero14
    \/ part = "surfaces" /\ Surfaces!Init /\ Zero14
    \/ part = "cache" /\ Cache!Init /\ Zero14
    \/ part = "clipboard" /\ Clipboard!Init
    \/ part = "files" /\ Files!Init /\ Zero8
    \/ part = "offers" /\ Offers!Init /\ Zero6
    \/ part = "staging" /\ Staging!Init /\ Zero6
    \/ part = "locked" /\ Locked!Init /\ Zero6
    \/ part = "microphone" /\ Microphone!Init /\ Zero11
    \/ part = "display" /\ Display!Init /\ Zero14

Next ==
    /\ \/ part = "writer" /\ Writer!Next /\ UNCHANGED after11
       \/ part = "frames" /\ Frames!Next /\ UNCHANGED after14
       \/ part = "surfaces" /\ Surfaces!Next /\ UNCHANGED after14
       \/ part = "cache" /\ Cache!Next /\ UNCHANGED after14
       \/ part = "clipboard" /\ Clipboard!Next
       \/ part = "files" /\ Files!Next /\ UNCHANGED after8
       \/ part = "offers" /\ Offers!Next /\ UNCHANGED after6
       \/ part = "staging" /\ Staging!Next /\ UNCHANGED after6
       \/ part = "locked" /\ Locked!Next /\ UNCHANGED after6
       \/ part = "microphone" /\ Microphone!Next /\ UNCHANGED after11
       \/ part = "display" /\ Display!Next /\ UNCHANGED after14
    /\ UNCHANGED part

\* The event writer's threads, as in its own FairSpec.
WriterStep(A) == part = "writer" /\ A /\ UNCHANGED <<part, after11>>

Spec == /\ Init /\ [][Next]_vars
        /\ WF_vars(WriterStep(Writer!StdoutStep)) /\ WF_vars(WriterStep(Writer!WriteBatch))

(***************************************************************************)
(* Properties.                                                             *)
(***************************************************************************)
TypesOK ==
    /\ part = "writer" => Writer!TypeOK
    /\ part = "frames" => Frames!TypeOK
    /\ part = "surfaces" => Surfaces!TypeOK
    /\ part = "cache" => Cache!TypeOK
    /\ part = "clipboard" => Clipboard!TypeOK
    /\ part = "files" => Files!TypeOK
    /\ part = "offers" => Offers!TypeOK
    /\ part = "staging" => Staging!TypeOK
    /\ part = "locked" => Locked!TypeOK
    /\ part = "microphone" => Microphone!TypeOK
    /\ part = "display" => Display!TypeOK

\* event_writer.rs: a frame is in one place at any time, at most one is written behind a
\* later control event, nothing else overtakes, and none is left when the helper exits.
FramesOnce ==
    part = "writer" => /\ Writer!EveryFrameOnce /\ Writer!OneFrameBehindControl
                       /\ Writer!OvertakenOnlyByControl /\ Writer!NothingLeftAtExit

\* event_writer.rs: and each is written in the end, while the host reads.  The frame
\* that is watched is chosen at the start, and kept in the first variable to spare.
EveryFrameArrives ==
    (part = "writer" /\ Writer!Handed(v12)) ~> (part = "writer" => Writer!Settled(v12))

\* egfx.rs: the host's picture is the desktop but for what is dirty or a base frame is
\* owed for, and the accounts that bound the memory of surfaces and cache are exact.
GraphicsKept ==
    /\ part = "frames"   => Frames!NothingLost /\ Frames!AccountsExact
    /\ part = "surfaces" => Surfaces!NothingLost /\ Surfaces!AccountsExact
    /\ part = "cache"    => Cache!NothingLost /\ Cache!AccountsExact

\* clipboard.rs: Control-V meets the text it is for, and with nothing on the way no paste,
\* list or copy is left behind.
PastesExact == part = "clipboard" => Clipboard!PastesWhatWasAsked /\ Clipboard!Settled

\* clipboard.rs: the files of a copy are staged whole or not at all, and not given up
\* without a cause; lists can be staged, and what is cancelled is not served.
FilesExact ==
    /\ part = "files"  => Files!FilesExact /\ Files!NoNeedlessFailure
    /\ part = "offers" => Offers!OffersArePreparable
    /\ part = "staging" => Staging!StagedSoundly
    /\ part = "locked" => Locked!ServedIsOffered

\* audio_input.rs, display.rs: captured packets are announced and are of the newest
\* capture; the server has the newest layout of the host's.
DevicesServed ==
    /\ part = "microphone" => Microphone!NothingUnheard /\ Microphone!OnlyTheNewest
    /\ part = "display"    => Display!ServerHasLayout
=============================================================================
