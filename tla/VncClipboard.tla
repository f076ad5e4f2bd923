----------------------------- MODULE VncClipboard -----------------------------
(***************************************************************************)
(* The clipboard of a VNC connection: plugins/vnc/src/clipboard_ext.rs and *)
(* its two users in connection.rs.  The session thread sets the host's     *)
(* content under the lock and queues what it announces after releasing it; *)
(* the I/O owner answers the server's extended messages on the transport   *)
(* at once, and drains the queue between messages.                         *)
(*                                                                         *)
(* A content is a version and the formats it is in.  The server follows    *)
(* the protocol: it sends its capabilities once, if it has the extension,  *)
(* asks for what it is told of and provides what it is asked for.          *)
(***************************************************************************)
EXTENDS Integers, Sequences

CONSTANT MaxContents    \* bound: contents of the host and of the server

VARIABLES
    caps,      \* server_capabilities, none for None
    local,     \* local_content
    outbox,    \* the session thread: messages it has yet to queue
    queue,     \* the owner's command queue
    toServer, toClient,
    connected,
    serverCaps,   \* the server: what it supports, and whether it has said so
    clientCaps,   \* the server: it has the client's capabilities
    remote,       \* the server: its own content
    copy,         \* the server: the version it has of the host's content
    host          \* the versions of the server's content that the host was sent

clientVars == <<caps, local>>
serverVars == <<serverCaps, clientCaps, remote, copy>>
vars == <<clientVars, outbox, queue, toServer, toClient, connected, serverVars, host>>

Formats == {"text", "html", "dib"}
Actions == {"request", "peek", "notify", "provide"}
NoContent == [version |-> 0, formats |-> {}]
Contents == [version : 1 .. MaxContents, formats : (SUBSET Formats) \ {{}}]
None     == [formats |-> {}, actions |-> {"none"}]
HasCaps  == caps # None
Message(kind, formats, version) == [kind |-> kind, formats |-> formats, version |-> version]
Messages == [kind : {"legacy", "caps", "request", "peek", "notify", "provide"},
             formats : SUBSET Formats, version : 0 .. MaxContents]

TypeOK ==
    /\ caps \in {None} \cup [formats : SUBSET Formats, actions : SUBSET Actions]
    /\ local \in {NoContent} \cup Contents
    /\ outbox \in Seq(Messages) /\ queue \in Seq(Messages)
    /\ toServer \in Seq(Messages) /\ toClient \in Seq(Messages)
    /\ connected \in BOOLEAN /\ clientCaps \in BOOLEAN
    /\ serverCaps \in [formats : SUBSET Formats, actions : SUBSET Actions, sent : BOOLEAN]
    /\ remote \in {NoContent} \cup Contents
    /\ copy \in 0 .. MaxContents
    /\ host \in [text : 0 .. MaxContents, image : 0 .. MaxContents]

Init ==
    /\ caps = None /\ local = NoContent
    /\ outbox = <<>> /\ queue = <<>> /\ toServer = <<>> /\ toClient = <<>>
    /\ connected = TRUE
    /\ serverCaps \in [formats : SUBSET Formats, actions : SUBSET Actions, sent : {FALSE}]
    /\ clientCaps = FALSE
    /\ remote = NoContent /\ copy = 0
    /\ host = [text |-> 0, image |-> 0]

(***************************************************************************)
(* VncClipboardSession.                                                    *)
(***************************************************************************)
ToldCaps(message) == [formats |-> message.formats, actions |-> serverCaps.actions]

OutgoingFormats(content, known) ==
    IF known = None THEN {} ELSE content.formats \cap known.formats

\* local_content_announcement: text needs no extension, anything else waits for it.
Announcement(content, known) ==
    LET formats == OutgoingFormats(content, known) IN
    IF content = NoContent THEN <<>>
    ELSE IF known = None
    THEN IF "text" \in content.formats THEN <<Message("legacy", {"text"}, content.version)>>
         ELSE <<>>
    ELSE IF formats = {} THEN <<>>
    ELSE IF "notify" \in known.actions THEN <<Message("notify", formats, 0)>>
    ELSE IF "provide" \in known.actions THEN <<Message("provide", formats, content.version)>>
    ELSE <<>>

\* What the host has is not announced when the capabilities arrive.
CapsAnswerSilent(known) ==
    <<Message("caps", Formats, 0)>>
    \o (IF "peek" \in known.actions THEN <<Message("peek", {}, 0)>> ELSE <<>>)

\* The answer to the server's capabilities: the client's own, a look at what the
\* server has, and what the host has.
CapsAnswer(known) ==
    <<Message("caps", Formats, 0)>>
    \o (IF "peek" \in known.actions THEN <<Message("peek", {}, 0)>> ELSE <<>>)
    \o Announcement(local, known)

\* observe_server_message: what it answers; a request for what the content no longer
\* is, nothing.
Answers(message) ==
    CASE message.kind = "caps"    -> CapsAnswer(ToldCaps(message))
      [] message.kind = "request" ->
           LET formats == message.formats \cap OutgoingFormats(local, caps) IN
           IF formats = {} \/ "provide" \notin caps.actions THEN <<>>
           ELSE <<Message("provide", formats, local.version)>>
      [] message.kind = "peek"    ->
           IF "notify" \in caps.actions THEN Announcement(local, caps) ELSE <<>>
      [] message.kind = "notify"  ->
           IF message.formats = {} \/ "request" \notin caps.actions THEN <<>>
           ELSE <<Message("request", message.formats, 0)>>
      [] OTHER                    -> <<>>

\* Extended messages before the capabilities, and what was not negotiated, are refused.
Refused(message) ==
    \/ message.kind \in {"request", "peek", "notify", "provide"} /\ caps = None
    \/ message.kind = "request" /\ "provide" \notin caps.actions
    \/ message.kind = "peek" /\ "notify" \notin caps.actions

\* Text and rich text reach the host as text, a bitmap as an image.
Observe(message) ==
    /\ connected' = ~Refused(message)
    /\ caps' = IF message.kind = "caps" THEN ToldCaps(message) ELSE caps
    /\ host' = IF message.kind \notin {"legacy", "provide"} THEN host
               ELSE [text  |-> IF message.formats \cap {"text", "html"} # {}
                               THEN message.version ELSE host.text,
                     image |-> IF "dib" \in message.formats
                               THEN message.version ELSE host.image]

(***************************************************************************)
(* The two threads.                                                        *)
(***************************************************************************)
\* set_local_text, set_local_data
SetLocal ==
    /\ connected /\ outbox = <<>> /\ local.version + remote.version < MaxContents
    /\ \E format \in {"text", "dib"} :
         local' = [version |-> local.version + 1, formats |-> {format}]
    /\ outbox' = Announcement(local', caps)
    /\ UNCHANGED <<caps, queue, toServer, toClient, connected, serverVars, host>>

Enqueue ==
    /\ connected /\ outbox # <<>>
    /\ queue' = queue \o outbox
    /\ outbox' = <<>>
    /\ UNCHANGED <<clientVars, toServer, toClient, connected, serverVars, host>>

\* The owner drains the whole queue, when its read times out and after each message,
\* whose answers go first.
Drain ==
    /\ connected /\ queue # <<>>
    /\ toServer' = toServer \o queue
    /\ queue' = <<>>
    /\ UNCHANGED <<clientVars, outbox, toClient, connected, serverVars, host>>

Receive ==
    /\ connected /\ toClient # <<>>
    /\ toServer' = toServer \o Answers(Head(toClient)) \o queue
    /\ Observe(Head(toClient))
    /\ toClient' = Tail(toClient)
    /\ queue' = <<>>
    /\ UNCHANGED <<local, outbox, serverVars>>

(***************************************************************************)
(* The server.                                                             *)
(***************************************************************************)
Send(message) == toClient' = Append(toClient, message)

ServerCaps ==
    /\ ~serverCaps.sent
    /\ serverCaps' = [serverCaps EXCEPT !.sent = TRUE]
    /\ Send(Message("caps", serverCaps.formats, 0))
    /\ UNCHANGED <<clientVars, outbox, queue, toServer, connected, clientCaps, remote, copy,
                   host>>

\* Once both have the extension it notifies, before that it sends text as it is.
ServerCopies ==
    /\ local.version + remote.version < MaxContents
    /\ \E formats \in (IF clientCaps THEN (SUBSET Formats) \ {{}} ELSE {{"text"}}) :
         /\ remote' = [version |-> remote.version + 1, formats |-> formats]
         /\ Send(IF clientCaps THEN Message("notify", formats, 0)
                 ELSE Message("legacy", formats, remote'.version))
    /\ UNCHANGED <<clientVars, outbox, queue, toServer, connected, serverCaps, clientCaps,
                   copy, host>>

ServerTakes ==
    /\ toServer # <<>>
    /\ LET message == Head(toServer) IN
         /\ copy' = IF message.kind \in {"legacy", "provide"} THEN message.version ELSE copy
         /\ clientCaps' = (clientCaps \/ message.kind = "caps")
         /\ \/ /\ message.kind = "notify" /\ "provide" \in serverCaps.actions
               /\ Send(Message("request", message.formats, 0))
            \/ /\ message.kind = "peek" /\ remote # NoContent
               /\ Send(Message("notify", remote.formats, 0))
            \/ /\ message.kind = "request"
               /\ LET formats == message.formats \cap remote.formats IN
                  IF formats = {} THEN UNCHANGED toClient
                  ELSE Send(Message("provide", formats, remote.version))
            \/ /\ \/ message.kind \in {"legacy", "caps", "provide"}
                  \/ message.kind = "notify" /\ "provide" \notin serverCaps.actions
                  \/ message.kind = "peek" /\ remote = NoContent
               /\ UNCHANGED toClient
    /\ toServer' = Tail(toServer)
    /\ UNCHANGED <<clientVars, outbox, queue, connected, serverCaps, remote, host>>

Next == \/ SetLocal \/ Enqueue \/ Drain \/ Receive
        \/ ServerCaps \/ ServerCopies \/ ServerTakes

Spec == Init /\ [][Next]_vars

(***************************************************************************)
(* Properties.                                                             *)
(***************************************************************************)
Settled == connected /\ outbox = <<>> /\ queue = <<>> /\ toServer = <<>> /\ toClient = <<>>

\* With nothing on the way, the server has what the host copied last, if it can have
\* it: text without the extension, with it what they have a format for; also if the
\* host copied it while the extension was being negotiated, or something else meanwhile.
\* (To a server that cannot be notified the owner's answer may overtake an older
\* content that is queued, which then stays.)
ServerHasLatest ==
    Settled => \/ local = NoContent \/ copy = local.version
               \/ ~HasCaps /\ "text" \notin local.formats
               \/ HasCaps /\ local.formats \cap caps.formats = {}
               \/ HasCaps /\ ~({"notify", "provide"} \subseteq caps.actions)

\* And the host has what the server copied last, as text or as an image.
HostHasLatest ==
    Settled => \/ remote.version \in {host.text, host.image}
               \/ HasCaps /\ "request" \notin caps.actions

\* A server that follows the protocol is not taken for one that does not.
NeverRefused == connected
=============================================================================
