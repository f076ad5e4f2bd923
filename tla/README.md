# Verification of the OxideTerm plugins

TLA+ models of the concurrent core of the OxideTerm plugins repository, the TLC
runs that check them, and TLAPS proofs about them. Every definition is
translated from the source; `PROJECT.json` maps it to its lines.

## The system

OxideTerm runs each plugin as a helper process that talks to the host over
stdin and stdout, one request or event per line. The plugins with logic of
their own are the remote desktops (RDP, VNC), Mosh, the ACP adapter and MQTT.

| Component | State it keeps | Operations | What makes it hard | What makes it correct |
|---|---|---|---|---|
| RDP worker (`runtime.rs`, `session_loop.rs`) | reconnect configuration, request and output channels | drain requests, forward them, drain outputs, join and reopen the client | two threads and three channels; reconnect and close at any time; a client that dies | sessions never mix, one end is reported, a close ends the helper, the reopened session has the last size |
| RDP client thread (`client_session.rs`, `frame.rs`, `reactivation.rs`) | image, sync state, accumulator, epoch, reactivation | decode PDUs, send base frames and updates, handle inputs, reactivate the display | a bounded queue that drops updates, a canvas replaced while events are queued | the host's picture follows the server's and ends up equal to it |
| RDP output channels (`main.rs`) | control channel, bounded graphics queue | send, try to send, receive | a base frame clears the queue; two channels, no order between them | no update without its base |
| RDP event writer (`event_writer.rs`) | shared frame queue, stdout | send frames and control events, write | two writers, two locks, a condition variable, process exit | every frame written once and in order, the last event not lost |
| RDP EGFX (`egfx.rs`) | surfaces, caches, desktop, base frame needed | decode, map, compose, publish at EndFrame | the same queue, driven by callbacks | the same as for bitmaps |
| RDP clipboard and files (`clipboard.rs`) | local content, lists sent and acknowledged, pending paste, download, offered and locked files | advertise, paste, fetch, serve, stage | answers without identifiers, two owners of one clipboard, a copy during a download | a paste types the text it is for, files arrive whole, what is cancelled is not served |
| RDP display, microphone, inputs (`display.rs`, `audio_input.rs`, `input.rs`) | wanted and sent layout, packet queue and its flag, keyboard state | their callbacks | the channel opens late or twice; a flag outside the queue's lock | the newest layout is sent, what is captured is announced |
| VNC session (`main.rs`, `connection.rs`) | close and reconnect flags, current attempt, generation, command queue | connect, authenticate, serve requests, shut down and join | cancellation races with every phase; a bounded command queue used by its own reader | no event of a retired generation, one end, every close ends the session |
| VNC desktop resize (`desktop_size.rs`) | capability, layout in flight, pending layout | queue a layout, observe an update | two threads, coalescing | one request in flight, the last layout is asked for in the end |
| VNC framebuffer and decoders (`decode.rs`, `performance.rs`, `h264.rs`, `main.rs`) | pixels, dirty regions, inflaters and codec contexts | read an update, merge its regions, send them | state that must follow the server's encoders for the whole connection; limits | the picture is the server's, and so is the host's |
| VNC clipboard and files (`clipboard_ext.rs`, `vendor_files.rs`) | capabilities, contents, transfers | announce, request, provide; list, download, upload, cancel | two threads and a bounded queue; cancels that cross the data | both sides have the last copy, a transfer ends once, files are whole |
| VNC performance (`performance.rs`) | continuous updates, fences, recovery | observe a message, answer | the order of update requests and frames | an update request is always outstanding |
| Mosh (`engine.rs`, `main.rs`) | SSP runtime, pending events, predictions | commands, datagrams, display | a slow display, UDP loss, shutdown | output in order, input live under back-pressure, the end delivered |
| ACP adapter (`crates/oxideterm-acp-adapter`) | sessions, active runs | new session, prompt, cancel, close | prompts are concurrent tasks | a cancellation reaches its run, a finished run leaves the table |
| MQTT | sessions, subscriptions, messages, their publishes awaited by packet id | host events, broker events, refresh | reconnects | an acknowledgement names its message (not modelled) |
| FIDO2, previews, toolbox, scripts | small and sequential | | | |

How they interact: the RDP helper has four threads. `main` reads requests and
sends them to the worker over an unbounded channel. The worker forwards them
to the client thread over the input channel, and drains two output channels:
an unbounded one for control events and a bounded queue for graphics. What it
drains it hands to the event writer, whose own thread writes frames to stdout
while control events are written by the worker itself. VNC has a session
thread and one I/O owner thread per connection that share a command queue,
several mutexes and two atomics. Mosh and the ACP adapter are asynchronous
tasks over channels.

The behaviours a test hardly reaches are listed as hazards in `PROJECT.json`,
each at its line, with the properties that watch over it.

## The modules

| Module | What it is |
|---|---|
| `ScreenMirror` | what a remote desktop stream promises, whatever the transport |
| `RdpFrames`, `MCRdpFrames`, `RdpFramesProofs` | the bitmap graphics path, its instances, its theorems |
| `RdpWorker`, `MCRdpWorker`, `RdpWorkerProofs` | the life of an RDP session: worker thread, client thread, channels |
| `RdpEventWriter`, `RdpEventWriterProofs` | the two writers of the RDP helper's stdout |
| `RdpEgfx` | the graphics pipeline: surfaces, cache, frames |
| `RdpClipboard`, `RdpClipboardFiles`, `RdpFileLists` | texts, pictures and pastes; the staged download of files; offered, locked and prepared lists |
| `RdpDisplay`, `RdpMicrophone` | the wanted layout and the channel it goes through; captured packets |
| `MCRdpChannels`, `MCRdpChannelsProofs` | the last seven model modules as parts of one run, and theorems about four of them: writer, clipboard, display, microphone |
| `VncSession`, `VncSessionProofs` | the VNC helper (main thread, session thread, an I/O owner per connection) and its theorems |
| `VncDesktopResize`, `VncLayouts` | the negotiation of the layout; the screens made of the host's monitors |
| `VncFramebuffer` | the framebuffer, and the updates merged for the host |
| `VncContinuous` | polling, continuous updates and fences |
| `VncDecode`, `VncPixels` | decoders that keep state; the pixel codings |
| `VncClipboard`, `VncFiles` | the extended clipboard; Tight file transfers |
| `MCVnc`, `MCVncProofs` | the VNC modules but `VncSession` as parts of one run, and theorems about seven of them: all but `VncPixels` |
| `MoshSession`, `MoshSessionProofs` | the Mosh helper: relay and engine |
| `AcpAdapter`, `AcpAdapterProofs` | the ACP adapter: sessions, prompts, providers |

How they compose: `RdpWorker` and `VncSession` hold the threads and the life of
a connection, and abstract what is carried to kinds of messages; `RdpFrames`,
`RdpEgfx` and the channel modules take one connection and follow what is
carried. `RdpFrames` implements `ScreenMirror`. The parts of a connection that
share nothing but its transport are checked together: `MCVnc` and
`MCRdpChannels` are disjoint sums, in which a behaviour is one of a single
part. That costs the sum of the parts and not their product, and loses nothing,
since no step of one part reads the state of another.

**ScreenMirror.** A screen is one version number per region, and the mirror may
only move to newer versions of the current generation. It says nothing of
queues, threads or base frames.

**RdpFrames.** The variables of the client thread are the fields of
`ClientRdpFrameState` (`sync`, `acc`, `epoch`, `awaiting`, `pendingBase`,
`pendingReady`, `published`), the decoded `image`, the state of
`RdpReactivation`, the outputs of the PDU at hand, and the thread's place in its
loop (`selecting`). One action is one pass through an arm of the session's
`select!`, or the handling of one `ActiveStageOutput`, or the loop top. There an
owed base frame is flushed first (`FlushPendingBase`) and the accumulator second
(`FlushAtLoopTop`), so that the update a full queue refuses in the second flush
leaves a base frame owed while the thread waits: every arm may fire then, a
reactivation included, and the frame goes out at the next loop top. The timer's
flush (`FlushOnTimer`) and the tick of the clipboard's timeouts
(`ClipboardTick`) lead back there, as does a PDU or an input that brings no
graphics, which is the same step; the resize capability that the loop publishes
touches none of these variables. A base frame and
the `Connected` event after it are two actions, since they are two channel
operations and the worker may run between them. `DrainSeesNoControl` keeps
apart the two channel reads of `drain_client_rdp_outputs`. The pixels of a
region are the number of the PDU that painted it; what the accumulator's
rectangle merging covers is any larger set of regions, and which sets are large
enough to become a base frame is the constant `Large`. The host is modelled by
what the events mean to it: a frame replaces the picture of its epoch, an
update patches a picture of the same epoch, a reset retires older epochs.
EGFX is disabled.

**RdpEventWriter.** An action is one critical section: the queue's lock and
stdout's lock are never held together. Frames are numbered as they are handed
over; a queued item stands for the set of frames merged into it, and whether
two items merge (their rectangles decide) is a choice. Spurious wake-ups, a
host that stops reading, and the exit of the process are modelled.

**RdpWorker.** The worker is in one of five places: opening a session,
handling a batch of requests, draining outputs, joining the client, ended. The
client connects (and defers inputs), is active, waits for the server after a
close, has sent its terminal output, or is gone. A receiver that the worker
drops makes the client's next send fail, as in the code. Every request of a batch
is queued for the client, also those that change no session state, and a client
whose runtime cannot be built reports that itself (`RuntimeFails`).

**VncSession.** The main thread's `close`, `reconnect` and `attempt` are the
fields of `VncSessionControl`; setting a flag and cancelling the installed
attempt are two steps, since the session thread runs between them. The session
thread's `spc` follows `run_vnc_session`: the flags are read at the loop top,
discarded, the attempt installed, then preflight, challenge, wait for the
answer, handshake, announcement, reader, connected loop, shutdown and join. A
phase that touches the network succeeds, fails, or is interrupted
(`Interrupted`, `Failed`), as its result and the flags decide; the handshake
(`Complete`) does not look at the flags, as in the code. The errors that leave
`run_vnc_session` through `?` are the state `failed`: no event, no join, the
owner goes on. Each connection's owner drains its commands, looks at its
cancellation, reads the server, drains again and applies the message; its
report of a lost connection is a check (`CheckPublish`) and a write
(`Publish`). `sent` and `force` are `sent_initial_frame` and
`force_next_base_frame`. All of an input's messages are one command, and lock
keys, audio and layout answers are one command the owner queues to itself. The
host is modelled by what its events mean, and it answers each challenge it was
shown at most once, in order. A helper whose stdout is closed and a host that
sends a second connect request are left out.

**RdpEgfx.** The renderer's fields, the events in its two channels, and the
host. A picture is a row of pixels, a pixel the number of the drawing that gave
it its colour; a region of a surface is an interval. Every callback is an action:
creation, mapping, drawing, the copies between surfaces and cache, EndFrame,
and, from the session loop, requested frames and the two halves of a
reactivation. Sizes are counted as the code's byte accounts are, and a surface
too many ends the session (`Fail`).

**RdpClipboard** has the backend's callbacks, the session loop's input queue
(through which the backend talks to itself), what it defers while it
reactivates, and a server whose clipboard is owned by one side. **RdpClipboardFiles**
follows a download request by request. In **RdpFileLists** the collection of local trees
and the preparation of a remote list are operators over sequences of paths, and
offers, locks and cancellations are actions. **RdpMicrophone** takes `push` and
`drain` apart into their steps, since the flag is outside the queue's lock.
**RdpDisplay** keeps a layout as its number of monitors and the wish it is from.

**VncDesktopResize** has the state under its lock and the message a thread has
yet to queue after it has released it. **VncLayouts** converts one list of
monitors per behaviour and compares the result with a definition that does not
depend on their order; its sort puts each monitor at the place given by how many
go before it (`Rank`), which is what a sort of distinct keys does.
**VncFramebuffer** paints rectangles, merges and bounds the dirty ones as the code
does, and lets the host apply what it is sent; `told` remembers the framebuffer as
it was at the last event. `NothingMissed` is about that and not about the host's
picture, which merged regions may spoil (`HostMirrors`).
**VncContinuous** keeps the two sides' view of who is to send what.
**VncDecode** identifies a compressed segment with its position in its stream;
an inflater that is elsewhere is garbled for good. **VncPixels** encodes each
tile of a picture in every way the protocol has, decodes it with the code's
algorithm and compares. Its bytes have two bits, so that packed rows end inside
a byte, run lengths take two and predictions wrap, on tiles of four pixels.
**VncClipboard** and **VncFiles** have the session thread's unsent messages, the
owner's queue, both directions of the wire and a server that keeps to the
protocol; `VncFiles` counts chunks and numbers the requests they answer.

**MoshSession.** The relay's two directions poll in one task and fail together;
the engine delivers what the display is still owed (`pending`), or takes a
command, a datagram or a timeout, in any order, as its `select!`
does. `predictions` is `PredictionIdMap`; the SSP runtime numbers frames and
learns of acknowledgements, some of which are lost or late.

**AcpAdapter.** Requests are dispatched one at a time; a prompt is a task with a
copy of its session, and goes through launch, registration, start, streaming,
the questions it asks the host, interruption and the write-back of what it
learned. Both providers are there: they differ in what a cancellation waits
for. Discovery of the Codex models holds up the dispatch until it has an answer
or gives up.

## The runs

| Run | Expected | What it shows |
|---|---|---|
| `rdp_frames` | pass | type invariant; `UpdatesHaveBase`, `NothingLost`; `MirrorsScreen`: RdpFrames implements ScreenMirror; `Converges` |
| `rdp_worker` | pass | `SessionsAscend`, `OneEnd`, `OpensWithLastSize`, `EndsHeard` |
| `rdp_channels` | pass | type invariants; event writer: `FramesOnce`, `EveryFrameArrives`; EGFX: `GraphicsKept`; clipboard: `PastesExact`, `FilesExact`; display and microphone: `DevicesServed` |
| `vnc_session` | pass | type invariant; `OneConnection`, `EventsAscend`, `LastWord`, `AnswersMatch`, `RequestsInOrder`, `RecoveryKept`, `RequestsEnd` |
| `vnc_extensions` | pass | type invariants; `FilesKept`, `DesktopSized`, `LayoutReachesServer`, `NothingMissed`, `UpdatesFlow`, `ClipboardsAgree`, `DecodersInStep`, `PictureShown` |
| `mosh_session` | pass | `PredictionsExact`, `RequestsServed`, `EndReported` |
| `acp_adapter` | pass | `OneLiveRun`, `ChoiceKept`, `CancelEnds`, `HostHeard` |
| `rdp_frames_announced` | violation | a session whose first frame was requested too early is never announced |
| `rdp_worker_typed` | violation | a typed failure is replaced by the message of a failed forward |
| `rdp_worker_resize` | violation | an older resize is applied after a newer one |
| `vnc_framebuffer` | violation | updates merged for the host can undo each other |
| `vnc_files_active` | violation | a download that was never asked for blocks those after it |

A property of a run is often the conjunction of a component's: `SessionsAscend`
is `SessionsDistinct` and `ResetsAscend`, `EndsHeard` is `CloseEnds` and
`ClientEndNoticed`, `OneConnection` is `OneOwner` and `FramesWhileConnected`,
`RequestsEnd` is `CloseEnds` and `ReconnectTaken`, and the properties of the two
sums name their parts'. Type invariants stand alone or as the first conjunct.

The five violations are disagreements between the code and its own comments or
tests; `PROJECT.json` quotes them. The first leaves a session unannounced that
is otherwise alive. The resize costs a stale size until the next one. In the
VNC framebuffer the stale pixels stay until they are painted again.

**Observations.** Modelling brought up some more, which no line of the
repository contradicts and which the models take as they are:

- RDP clipboard: a data response is decoded by the newest format list, not by
  the one it was requested under (`clipboard.rs:381`). The properties except
  the copies that crossed a request (`crossed`).
- RDP files: a second copy while a request is unanswered makes the new download
  fail, since stream numbers start at 1 again; the host never hears of the old
  one (`clipboard.rs:482`). `FilesExact` asks for success of the others
  (`clean`). Cancelling the current offer also clears the locks of older ones.
- RDP microphone: a start that times out may leave packets in the queue, which
  are sent though the OPEN was refused.
- EGFX: a dropped update is repaired at the next EndFrame only; and a frame
  requested before the first EndFrame clears `needs_base` without announcing
  the desktop, so that updates never publish Connected, as on the bitmap path.
- VNC files: an upload cancel that crosses the server's own end of the upload,
  or a second file whose temporary file cannot be created, ends the connection.
- VNC files: a file that ends with fewer or more bytes than listed leaves its
  download to be drained (`canceling`), though the server has ended it already;
  unless the server answers the cancel, later downloads are refused
  (`vendor_files.rs:612`, `268`).
- Mosh: an input that meets the closing engine ends the helper with an error, and
  the session's end that the event direction still held is dropped
  (`mosh/src/main.rs:152`). `EndReported` names this exit.
- ACP: a cancellation that arrives before its prompt's task has registered the run
  finds none and is dropped (`lib.rs:402`); `CancelEnds` speaks of runs that were
  told.
- ACP: the listing of the Codex models follows cursors for as long as pages bring
  one (`codex.rs:74`). `HostHeard` supposes of the process that each page with a
  cursor brings a model that is new (`DiscoveryAnswers`).
- VNC clipboard: what the owner answers directly overtakes an older
  announcement that is still queued; the later one repairs it.

**Bounds.** *RdpFrames*: two regions are enough for updates that overlap, miss
each other or cover the screen; a queue of two events is filled by an update
and a pointer position, or by two updates; two painting PDUs of up to two
rectangles each, one requested frame and two reactivations reach a full queue
before, during and after a canvas change, a base frame owed while each arm of the
`select!` fires, and a reactivation interrupted by another. The two regions are symmetric but no symmetry is declared, since
liveness is checked. *RdpWorker*: two requests besides the close, drain limits
of two (so that a batch and a drain can be cut short), one graphics event,
three epochs: enough for two reconnects, and for a reconnect that meets a
reactivation or a failure. *VncSession*: one reconnect gives two generations,
the least in which one can be stale (`AnswersMatch`, `EventsAscend`,
`OneConnection` need no third); two inputs can be reordered and, with the first
frame request, overfill a command queue of two; a request queue of two is
filled by an answer and an input, which ends the helper as in the code.
*MoshSession*: three inputs, a command queue of one and an event queue of two
with an output budget of one chunk, less than the three of one output, so that
both limits are met. *AcpAdapter*: one session with two prompts and two other
requests, the least in which a run can be replaced, cancelled and have its
session closed or its model changed.

*MCRdpChannels*: three frames, one held by the stdout thread, one queued and one
merged or newer, overtaken by a control event and the terminal one; EGFX once with a
reactivation, once with more surfaces than have room, once with a cache; three copies,
however they are divided between the two sides; two clipboard files of two chunks; a
tree of two levels, and lists of three paths whose names differ in case only; two
captures against a queue of two; three wishes and two openings of the display channel.
*MCVnc*: two transfers, each a download, a listing or an upload, a download having up
to two files of a chunk as listed and one more as sent (three transfers were checked
when the invariant of the proof was found); three layouts against three of other
clients; two monitors at coordinates of either sign and sizes that just pass the
limits; a framebuffer of four pixels, three rectangles and two regions, so that the
bound is met; three ends of continuous updates with two changes of the screen, a fence
and two sizes; two copies of the clipboard; two H.264 contexts for three places, three
rectangles to an update.

The runs that end (a helper exits, a bound is used up) do not check for
deadlock; that what must still happen does is said by their liveness properties.

**Fairness.** *RdpFrames*: both threads keep running, so the client's own steps
(handling outputs, announcing, the loop top, the accumulator's timer, the tick
that fires every `RDP_CLIPBOARD_TIMEOUT_POLL_INTERVAL`) and the worker's drain are
weakly fair. The flush of the accumulator is strongly fair: its window is bounded
by `RDP_GRAPHICS_ACCUMULATOR_MAX_WINDOW` from the first rectangle on, so that it
elapses though other arms of the `select!` fire again and again; the paints, which
alone start a new window, are bounded. The server and the user owe nothing: what
`Converges` rests on for an owed frame is the tick. *RdpEventWriter*: the stdout thread's steps and the sender's
write are weakly fair: no lock is held across a wait. *RdpWorker*: the worker
and the client's own steps are weakly fair. In addition a server that was asked
to shut down ends the session or its connection fails: the code waits for it
without a timeout, so the first half of `EndsHeard` holds only of such servers.
*VncSession*: the session thread, every owner, and what the main thread has
begun (the cancellation after a flag, the final join) are weakly fair:
connecting, the handshake and each server message have a deadline
(`security.rs`, `transport.rs`), the waits of the session thread are polls of
100 ms, and a write has a socket timeout. Nothing is assumed of the host or the
server. *VncDesktopResize*, *VncContinuous*: the threads, and a server that
answers the requests and sends the updates it owes, since these properties say
that the two do not wait for each other. *MoshSession*: the task and the engine
run, and the arms of the engine's `select!`, which tokio picks at random, are
strongly fair; of the host only `EndReported` assumes, as its premise, that it
reads. *AcpAdapter*: the dispatcher and every task run, a timeout expires, and
a cancellation that is polled again and again is seen (strong fairness, for the
same reason); that the host answers, that a provider answers its start and that
a process exits once it closed its output are premises of `CancelEnds`.

## The proofs

`RdpFramesProofs` proves, for every finite set of regions, every capacity and
every bound, that the specification satisfies `TypeOK`, `HeldBack`,
`UpdatesHaveBase` and `NothingLost`, that no step forgets an owed base frame
(`OwedFramesAreKept`), and that a path at rest shows exactly the decoded desktop
(`RestsOnTheImage`). The assumptions are those `RdpFrames`
names: finite regions, a promotion rule that includes the whole desktop, a
capacity of at least one.

`NothingLost` says of every region that the last queued event that covers it,
or the host if none does, carries its present content. That is not inductive:
an update could be queued behind events of another epoch, or patch a picture
the host does not have. The invariant `Inv` adds `HeldBack` (an owed frame holds
updates back and leaves none accumulated; nothing is owed or accumulated while the
canvas is replaced; a thread that waits has handled its outputs), `UpdatesHaveBase` (what is queued
in sync has its base frame under it) and `EpochBound` (no event of an epoch yet
to come). Its preservation has one step per action; those that send go through
three lemmas, `BaseSent`, `UpdateSent` and `NothingSent`, and those of the
worker through `Drained`.

`VncSessionProofs` proves, for any number of reconnects and inputs and any
queue capacities, `TypeOK`, `OneOwner`, `EventsAscend`, `FramesWhileConnected`
(together the run's `OneConnection`), `LastWord` and `AnswersMatch`, under
`BoundsAssumption` alone. None is
inductive. `IInv` adds what ties the threads together: `OwnerServed` (an owner
runs only for the current and active generation, only while the session serves,
leaves or has abandoned it, and only while the host reads Connected; this is
where the join before `active_generation` advances is used), `AttemptActive`
(from its installation to its join an attempt is the active generation),
`OwnerFresh` (an owner that has not started has published nothing),
`HostBehind` (the host has read of no generation yet to come), `Announced`, and
`AttemptsBounded` (each attempt but the first spends a reconnect of the host,
which is why the generations are as many as the constants say). A step of the
session thread is of one of two kinds, silent (`SilentKeeps`) or one that
speaks while no owner runs (`SpokenKeeps`); so is one of an owner
(`QuietOwnerKeeps`, `SpeakingOwnerKeeps`).

The refinement of ScreenMirror (`FramesMirrorTheScreen`) is on top of that: a
step of the two threads is a step of the mirror under the mapping, or a stutter.
It needs `MirrorInv`: no content is newer than the last paint (`ImageBound`);
within an epoch, what the host shows and what is queued for it ascend region by
region (`Sorted`) and are no newer than the image (`Within`); and while a canvas
is replaced nothing of its epoch has been sent (`Fresh`).

`VncSessionProofs` has two more. `RequestInv` carries `RequestsInOrder` through
the phases that defer requests: what is deferred, put back and waiting in the
channel is in the order of the host, only once (`InputsInOrder`,
`NothingDeferred`), and each answer is of a challenge the host has seen and is
used for that one (`AnswersAscend`, `AnswersGiven`, `AnsweredSeen`,
`AnswerUsed`). `RecoveryKept` is an action property: that a base frame is of the
connection whose request it withdraws follows from `OwnerServed`, since a
retired owner does not run.

`RdpWorkerProofs` proves `SessionsAscend`, `OneEnd` and `OpensWithLastSize` for
any drain limits and any number of requests and epochs. What the client has sent
lies above what the writer was handed (`OutputsAbove`, `EventsBelow`), a client
that was replaced has left nothing in the channels (`Dropped`), and one that
connects has said nothing (`Quiet`); the size is that of the last resize taken
because the configuration is remembered from each batch (`SizeKept`).

`RdpEventWriterProofs` proves its four safety properties: between a drain and
its write the queue is empty (`Shape`), what waits is newer than all that does
not (`NewerWait`), each frame is somewhere (`Covered`) and what left is in one
place (`Apart`), and behind a control event only the held frame can be old
(`Barrier`, `HeldOvertaken`). Counting places is left to the last step.
`MCRdpChannelsProofs` carries them to the writer that is a part of the sum
(`SameWriter`), and proves there what the display and the microphone promise.
For the microphone the flag stands for an input that waits or for the drain that
is about to clear it (`FlagIsHeard`), and no packet outlives its capture
(`PacketsOfNewest`); for the display the wishes that wait are newer than what the
state holds (`WishesAscend`), and what was sent on the open channel is what the
server has (`SentIsServers`).

`MoshSessionProofs` proves `PredictionsExact`: frames are numbered without a gap
(`FramesInStep`), inputs are carried in order (`CarriedAscend`), and the map has
for each frame not acknowledged the newest input it carries (`MapHolds`,
`ReportedLast`). `InputsBounded` counts the requests on their way, which is why
the map cannot need more than the constants allow.

`AcpAdapterProofs` proves `OneLiveRun` and `ChoiceKept` for any number of
sessions, prompts and models. A task holds the session it was dispatched with
and a copy of its state (`Placed`), and the choice made last is in the state of
the session that is open (`Choices`): a copy that is written back is merged.

`MCRdpChannelsProofs` also proves `PastesExact`, for any number of copies.
`PastesWhatWasAsked` says nothing until a Control-V arrives, and `Settled` nothing
until all queues are empty, so that `ClipInv` says what they mean while messages
are on the way. Between the two sides lists and their answers are counted: what was
sent and not acknowledged is a list on its way to the server or an answer on its
way back (`ListsCounted`), and the list an answer is of is known by its place among
them (`ListsFrom`, `AnswersFrom`). From that follows which list a pending paste
waits for (`PendingKept`), that a paste is ready only when the server has its text
or has copied itself since (`ReadyKept`), that each Control-V in the queue meets it
(`KeysMeet`), that a copy to be advertised has an input on its way (`DirtyKept`),
and that the newest copy of the server has been fetched, or is announced, asked for
or answered by a message on its way (`CopyComes`).

`MCVncProofs` proves five of the six safety properties of the VNC extensions, part
by part, under `BoundsAssumption`; `PartsInv` joins the parts.

*The desktop's size.* Threads, queue, wire and server hold one request or one
answer (`Single`), no number is of a layout not chosen yet (`ChosenSoFar`), and the
last update on its way, if any, tells of the server's screen (`ScreenOnItsWay`).
The layouts have no steps worth the name: that the screens are the monitors in one
order, whatever the host's, is a fact about sorting. Distinct keys have distinct
ranks (`RanksAre`, by induction on the finite set of those that go before), so that
the order is a permutation (`OrderIs`), and a permuted list has the same ranks
(`RankReordered`).

*The framebuffer.* Each pixel that changed is in some region that carries its present
colour (`Covers`), and no region leaves the framebuffer (`Faithful`). The lemma is
`PushIs`: a merge, and the union of two regions beyond the limit, lose no pixel,
because the union covers both (`UnionCovers`) and is a fresh snapshot. How many
pixels the regions come to decides only between regions and a full frame, and the
proof holds for either.

*Continuous updates.* In continuous mode, unless its end is on the way, the server will
have the region of the client's size once it has taken what is sent (`WillHave`); out of
it, with nothing left to read, an update is requested or the request is on its way; the
client will have the size of the server's screen (`WillBe`); and a fence is asked or
answered once and in order, across both queues (`InOrder`).

*The decoders.* `InStep` and `RefusedAtLimit` are inductive with the count of an
update's rectangles. *The clipboard.* Each message is one its sender may send, given
what it knows (`Proper`, `Negotiated`), and the newest content of either side is
there, or is in the last message on its way that carries any, or is announced by one
or asked for (`ServerWillHave`, `HostWillHave`). Capabilities, answers and queued
announcements cross, so that this is a statement about three queues in a row, for
which `Joined` and `Taken` say what a message put behind or taken off changes.

*File transfers.* The wire names no request, so that an answer is known only by what
the client has under way. The invariant says why this is enough: one file at a time is
asked for, sent, or on its way back, all of it of the request made last, and nothing
follows its last message (`OneFile`); when nothing is active or being drained,
nothing of a file is left in any of the five places (so no chunk is an alarm); what an
active download has is of its own file (`OfItsFile`), and a cancel at hand excludes
one; and a download that is neither active nor about to be cancelled has been reported
once, the others not at all (`ToldOnce`). `OneList` says the same of listings.

TLC checked these invariants, on the bounds of the runs, before they were proved; of
those of the layouts and the framebuffer, which range over infinite sets, it checked
the parts that do not.

Only model-checked:

- liveness (`Converges`, `EveryFrameArrives`, `EndsHeard`, `RequestsEnd`,
  `LayoutReachesServer`, `UpdatesFlow`, `RequestsServed`, `EndReported`,
  `CancelEnds`, `HostHeard`), which is out of the prover's reach;
- `PictureShown`, `GraphicsKept` and what `FilesExact` says of prepared lists, which
  are stated with recursion over data: decoders that run along a row, sums over
  surfaces, what the host makes of a whole queue, trees of files;
- the other parts of `FilesExact`, and the type invariants of the two sums. Those of the parts that are proved about are conjuncts of their invariants
  (of the framebuffer's, without the bound on the regions).

## Plan

Every component with a state machine of its own but MQTT (see below) is modelled,
at least in part, and each safety property of a run is proved but for those above.
What is left, in this order:

1. `GraphicsKept`: both of its halves are stated with a recursive function, a sum
   over the surfaces (`Total`) and what the host makes of the whole queue
   (`Drained`). The second can be said without recursion, as `WillShow` of RdpFrames
   does: of each pixel, by the last event that covers it.
2. `FilesExact` of RdpClipboardFiles, where a chunk is known by its place in a stream.

## Not modelled

Handshakes and transports (TLS, CredSSP, the VNC security types, SSP's
datagrams) and video codecs are computations on bytes without interleaving, or
code outside the repository. Keyboard translation (`input.rs`, `input_ext.rs`)
is a table with a little state about modifiers, whose effect is decided by the
key database of IronRDP, which is not here. Audio playback and the conversion of
samples belong to the device. MQTT is one loop around a client library and a
bounded log; what could go wrong in it is which published message an event of
the library is about after a reconnect (`plugins/mqtt/src/session.rs`, `waiting`
and `pending`). That depends on what the library keeps, repeats or forgets of
the requests it had taken, which nothing in the repository shows: a model would
assume the answer. File previews, the toolbox, FIDO2, the ACP launcher, templates and
the release scripts are sequential and keep no state between requests. Timeouts
of the clipboard library and the removal of stale staging directories are left
out. The host application is outside the repository: it is modelled by what the
events it receives mean.
