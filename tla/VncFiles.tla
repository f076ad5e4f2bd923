------------------------------- MODULE VncFiles -------------------------------
(***************************************************************************)
(* File transfers of a VNC connection: plugins/vnc/src/vendor_files.rs,    *)
(* with its callers in connection.rs and main.rs.                          *)
(*                                                                         *)
(* Two threads use the state, under a lock.  The session thread starts and *)
(* cancels transfers, and writes its messages to the owner's bounded       *)
(* queue after it has released the lock; the I/O owner reads the server    *)
(* and answers on the transport itself.  A cancelled download is drained:  *)
(* what the server still had under way is read and dropped.                *)
(*                                                                         *)
(* A file is ListedSize chunks long by the listing and as long as the      *)
(* server likes when it sends it.  Chunks carry the number of the request  *)
(* they answer, which the wire does not.  The server follows the protocol: *)
(* it answers what it is asked and is silent to a cancel of nothing.       *)
(***************************************************************************)
EXTENDS Integers, Sequences, FiniteSets

CONSTANTS MaxTransfers,  \* bound: downloads, listings and uploads the host starts
          MaxFiles,      \* bound: files of a download
          ListedSize     \* chunks of a file, as listed

VARIABLES
    active,     \* active_download
    canceling,  \* canceling_download
    listing,    \* pending_list
    upload,     \* active_upload, 0 for none
    outbox,     \* the session thread: messages it has yet to queue
    queue,      \* the owner's command queue
    wire,       \* written to the server
    server,     \* what the server sends: the request it answers, 0 for none
    uploading,  \* the server is taking an upload
    stream,     \* from the server
    connection, \* "up", or what ended it
    started,    \* how many downloads, listings and uploads were started
    asked,      \* ghost: how many files were requested
    unsent,     \* ghost: requests the full queue refused
    verdicts,   \* ghost: the final events the host was sent of each download
    saved       \* ghost: the files that were persisted

fileVars   == <<active, canceling, listing, upload>>
serverVars == <<server, uploading>>
ghostVars  == <<asked, unsent, verdicts, saved>>
vars == <<fileVars, outbox, queue, wire, serverVars, stream, connection, started, ghostVars>>

Downloads == 1 .. MaxTransfers
Requests  == 0 .. (MaxTransfers * MaxFiles)
Idle      == [id |-> 0, left |-> 0, req |-> 0, got |-> 0, from |-> {}]

ToServer == [kind : {"get", "cancel", "list", "put", "putcancel"}, req : Requests,
             of : 0 .. MaxTransfers]
ToClient == [kind : {"chunk", "end", "failed", "listed", "putcancel"}, req : Requests]
Ask(kind)      == [kind |-> kind, req |-> 0, of |-> 0]
Get(req)       == [kind |-> "get", req |-> req, of |-> 0]
Say(kind, req) == [kind |-> kind, req |-> req]

TypeOK ==
    /\ active \in [id : 0 .. MaxTransfers, left : 0 .. MaxFiles, req : Requests,
                   got : 0 .. ListedSize, from : SUBSET Requests]
    /\ canceling \in 0 .. MaxTransfers
    /\ listing \in BOOLEAN /\ uploading \in BOOLEAN
    /\ upload \in 0 .. MaxTransfers /\ server \in Requests
    /\ outbox \in Seq(ToServer) /\ queue \in Seq(ToServer) /\ wire \in Seq(ToServer)
    /\ stream \in Seq(ToClient)
    /\ connection \in {"up", "protocol", "local", "upload", "write"}
    /\ started \in [downloads : 0 .. MaxTransfers, lists : 0 .. MaxTransfers,
                    uploads : 0 .. MaxTransfers]
    /\ asked \in Requests /\ unsent \subseteq Downloads
    /\ verdicts \in [Downloads -> 0 .. 2]
    /\ saved \subseteq [req : Requests, from : SUBSET Requests, got : {ListedSize}]

Init ==
    /\ active = Idle /\ canceling = 0 /\ listing = FALSE /\ upload = 0
    /\ outbox = <<>> /\ queue = <<>> /\ wire = <<>>
    /\ server = 0 /\ uploading = FALSE /\ stream = <<>>
    /\ connection = "up"
    /\ started = [downloads |-> 0, lists |-> 0, uploads |-> 0]
    /\ asked = 0 /\ unsent = {} /\ verdicts = [d \in Downloads |-> 0] /\ saved = {}

Up == connection = "up"
Tell(d) == verdicts' = [verdicts EXCEPT ![d] = @ + 1]

(***************************************************************************)
(* The session thread, one request of the host at a time.                  *)
(***************************************************************************)
Free == Up /\ outbox = <<>>
Fewer == started.downloads + started.lists + started.uploads < MaxTransfers

StartNext(d, left) ==
    /\ asked' = asked + 1
    /\ active' = [Idle EXCEPT !.id = d, !.left = left - 1, !.req = asked']

\* Refused while another is active or drained, for what it names, or because its
\* first temporary file cannot be created; with all files skipped it is complete.
StartDownload ==
    /\ Free /\ Fewer
    /\ started' = [started EXCEPT !.downloads = @ + 1]
    /\ LET d == started.downloads + 1 IN
         \/ /\ active = Idle /\ canceling = 0
            /\ \E n \in 1 .. MaxFiles : StartNext(d, n)
            /\ outbox' = <<[Get(asked') EXCEPT !.of = d]>>
            /\ UNCHANGED verdicts
         \/ Tell(d) /\ UNCHANGED <<active, asked, outbox>>
    /\ UNCHANGED <<canceling, listing, upload, queue, wire, serverVars, stream, connection,
                   unsent, saved>>

\* Without remembering that the server must stop.
CancelDownloadForgetting ==
    /\ Free /\ active # Idle
    /\ active' = Idle
    /\ outbox' = <<[Ask("cancel") EXCEPT !.of = active.id]>>
    /\ UNCHANGED <<canceling, listing, upload, queue, wire, serverVars, stream, connection,
                   started, ghostVars>>

CancelDownload ==
    /\ Free /\ active # Idle
    /\ canceling' = active.id /\ active' = Idle
    /\ outbox' = <<[Ask("cancel") EXCEPT !.of = active.id]>>
    /\ UNCHANGED <<listing, upload, queue, wire, serverVars, stream, connection, started,
                   ghostVars>>

RequestList ==
    /\ Free /\ Fewer /\ ~listing
    /\ started' = [started EXCEPT !.lists = @ + 1]
    /\ listing' = TRUE
    /\ outbox' = <<Ask("list")>>
    /\ UNCHANGED <<active, canceling, upload, queue, wire, serverVars, stream, connection,
                   ghostVars>>

\* Its files are refused, or are one message.
Payload == {<<>>, <<Ask("put")>>}

\* The upload is the active one though its files may be refused.
Upload ==
    /\ Free /\ Fewer
    /\ started' = [started EXCEPT !.uploads = @ + 1]
    /\ upload' = started'.uploads
    /\ outbox' \in Payload
    /\ UNCHANGED <<active, canceling, listing, queue, wire, serverVars, stream, connection,
                   ghostVars>>

CancelUpload ==
    /\ Free /\ upload # 0
    /\ upload' = 0
    /\ outbox' = <<Ask("putcancel")>>
    /\ UNCHANGED <<active, canceling, listing, queue, wire, serverVars, stream, connection,
                   started, ghostVars>>

\* The queue takes the message, or is full of other traffic.  The event of a cancel
\* follows its message; a cancel that is not taken ends the connection, any other
\* request that is not taken is reported as failed.
Dispatch ==
    /\ Up /\ outbox # <<>>
    /\ LET message == Head(outbox) IN
         \/ /\ queue' = Append(queue, message)
            /\ IF message.kind = "cancel" THEN Tell(message.of) ELSE UNCHANGED verdicts
            /\ UNCHANGED <<connection, unsent>>
         \/ /\ message.kind \in {"cancel", "putcancel"}
            /\ connection' = "write"
            /\ UNCHANGED <<queue, verdicts, unsent>>
         \/ /\ message.kind = "get"
            /\ unsent' = unsent \cup {message.of}
            /\ Tell(message.of)
            /\ UNCHANGED <<queue, connection>>
         \/ /\ message.kind \in {"list", "put"}
            /\ UNCHANGED <<queue, verdicts, connection, unsent>>
    /\ outbox' = Tail(outbox)
    /\ UNCHANGED <<fileVars, wire, serverVars, stream, started, asked, saved>>

(***************************************************************************)
(* The I/O owner.                                                          *)
(***************************************************************************)
Drain ==
    /\ Up /\ queue # <<>>
    /\ wire' = Append(wire, Head(queue))
    /\ queue' = Tail(queue)
    /\ UNCHANGED <<fileVars, outbox, serverVars, stream, connection, started, ghostVars>>

\* fail_active_download: the server is told to stop, the host that it failed.
Fail ==
    /\ canceling' = active.id /\ active' = Idle
    /\ wire' = Append(wire, Ask("cancel"))
    /\ Tell(active.id)
    /\ UNCHANGED <<asked, saved, connection>>

Disconnect(why) ==
    /\ connection' = why
    /\ UNCHANGED <<active, canceling, wire, asked, verdicts, saved>>

\* A chunk of a download that is drained is dropped; one too many, or one that
\* cannot be written, fails it.
ReadChunk(req) ==
    \/ /\ canceling # 0
       /\ UNCHANGED <<active, canceling, wire, asked, verdicts, saved, connection>>
    \/ /\ canceling = 0 /\ active = Idle
       /\ Disconnect("protocol")
    \/ /\ canceling = 0 /\ active # Idle /\ active.got < ListedSize
       /\ active' = [active EXCEPT !.got = @ + 1, !.from = @ \cup {req}]
       /\ UNCHANGED <<canceling, wire, asked, verdicts, saved, connection>>
    \/ /\ canceling = 0 /\ active # Idle
       /\ Fail

\* A file is persisted, or skipped because its target has come into being.
Persist ==
    \/ saved' = saved \cup {[req |-> active.req, from |-> active.from, got |-> active.got]}
    \/ UNCHANGED saved

\* Then the next is requested, or the download is complete.
FinishFile ==
    /\ Persist
    /\ \/ /\ active.left > 0
          /\ StartNext(active.id, active.left)
          /\ wire' = Append(wire, Get(asked'))
          /\ UNCHANGED verdicts
       \/ /\ active.left = 0
          /\ active' = Idle
          /\ Tell(active.id)
          /\ UNCHANGED <<asked, wire>>
    /\ UNCHANGED <<canceling, connection>>

\* The next temporary file cannot be created: this error is the connection's.
CannotStartNext == canceling = 0 /\ active # Idle /\ active.left > 0 /\ Disconnect("local")

ReadEnd ==
    \/ /\ canceling # 0
       /\ canceling' = 0
       /\ UNCHANGED <<active, wire, asked, verdicts, saved, connection>>
    \/ /\ canceling = 0 /\ active = Idle
       /\ Disconnect("protocol")
    \/ /\ canceling = 0 /\ active # Idle /\ active.got = ListedSize
       /\ FinishFile
    \/ CannotStartNext
    \/ /\ canceling = 0 /\ active # Idle
       /\ Fail

ReadFailed ==
    \/ /\ canceling # 0
       /\ canceling' = 0
       /\ UNCHANGED <<active, wire, asked, verdicts, saved, connection>>
    \/ /\ canceling = 0 /\ active = Idle
       /\ Disconnect("protocol")
    \/ /\ canceling = 0 /\ active # Idle
       /\ active' = Idle
       /\ Tell(active.id)
       /\ UNCHANGED <<canceling, wire, asked, saved, connection>>

\* The messages go out on the transport at once, before anything that is queued.
ReadDownload ==
    /\ Up /\ stream # <<>>
    /\ LET message == Head(stream) IN
         \/ message.kind = "chunk" /\ ReadChunk(message.req)
         \/ message.kind = "end" /\ ReadEnd
         \/ message.kind = "failed" /\ ReadFailed
    /\ stream' = Tail(stream)
    /\ UNCHANGED <<listing, upload, outbox, queue, serverVars, started, unsent>>

ReadList ==
    /\ Up /\ stream # <<>> /\ Head(stream).kind = "listed"
    /\ listing' = FALSE
    /\ connection' = IF listing THEN "up" ELSE "protocol"
    /\ stream' = Tail(stream)
    /\ UNCHANGED <<active, canceling, upload, outbox, queue, wire, serverVars, started,
                   ghostVars>>

\* A server's cancel that crosses the user's own ends the connection.
ReadUploadCancel ==
    /\ Up /\ stream # <<>> /\ Head(stream).kind = "putcancel"
    /\ upload' = 0
    /\ connection' = IF upload # 0 THEN "up" ELSE "upload"
    /\ stream' = Tail(stream)
    /\ UNCHANGED <<active, canceling, listing, outbox, queue, wire, serverVars, started,
                   ghostVars>>

(***************************************************************************)
(* The server.                                                             *)
(***************************************************************************)
\* A cancel of what it is sending it answers with a failure or an end.
ServerTakes ==
    /\ Up /\ wire # <<>>
    /\ LET message == Head(wire) IN
         \/ /\ message.kind = "get"
            /\ server' = message.req
            /\ UNCHANGED <<uploading, stream>>
         \/ /\ message.kind = "cancel"
            /\ server' = 0
            /\ IF server = 0 THEN UNCHANGED stream
               ELSE \E kind \in {"failed", "end"} : stream' = Append(stream, Say(kind, server))
            /\ UNCHANGED uploading
         \/ /\ message.kind = "list"
            /\ stream' = Append(stream, Say("listed", 0))
            /\ UNCHANGED serverVars
         \/ /\ message.kind \in {"put", "putcancel"}
            /\ uploading' = (message.kind = "put")
            /\ UNCHANGED <<server, stream>>
    /\ wire' = Tail(wire)
    /\ UNCHANGED <<fileVars, outbox, queue, connection, started, ghostVars>>

\* A file may be shorter or, by a chunk, longer than it was when it was listed.
Chunks(req) == Cardinality({i \in DOMAIN stream : stream[i] = Say("chunk", req)})

ServerSends ==
    /\ Up
    /\ \/ /\ server # 0 /\ Chunks(server) <= ListedSize
          /\ stream' = Append(stream, Say("chunk", server))
          /\ UNCHANGED serverVars
       \/ /\ server # 0
          /\ \E kind \in {"end", "failed"} : stream' = Append(stream, Say(kind, server))
          /\ server' = 0
          /\ UNCHANGED uploading
       \/ /\ uploading
          /\ stream' = Append(stream, Say("putcancel", 0))
          /\ uploading' = FALSE
          /\ UNCHANGED server
    /\ UNCHANGED <<fileVars, outbox, queue, wire, connection, started, ghostVars>>

Session == StartDownload \/ CancelDownload \/ RequestList \/ Upload \/ CancelUpload \/ Dispatch
Owner   == Drain \/ ReadDownload \/ ReadList \/ ReadUploadCancel
Server  == ServerTakes \/ ServerSends
Next    == Session \/ Owner \/ Server

Spec == Init /\ [][Next]_vars

(***************************************************************************)
(* Properties.                                                             *)
(***************************************************************************)
\* A file that is persisted is what the server sent for it, whole, and nothing of
\* a download that was cancelled or failed before.
FilesIntact == \A f \in saved : f.got = ListedSize /\ f.from = {f.req}

\* Each download that is over was reported once, and one that is not, not at all,
\* however the user's cancel, the server's failure and the end of the last file
\* cross; those whose request the full queue refused are another matter.
OneVerdict ==
    \A d \in Downloads \ unsent :
        /\ verdicts[d] <= 1
        /\ verdicts[d] = 1 => active.id # d
        /\ Up /\ d <= started.downloads /\ active.id # d /\ outbox = <<>> => verdicts[d] = 1

\* Whatever is cancelled when, no download or listing of a server that follows the
\* protocol makes the connection end as if it did not.
NoFalseAlarm == connection # "protocol"

\* vendor_files.rs:273 and 255 refuse a download or a listing because another "is
\* already active": then its request is on its way, or its answer.
ActiveIsAsked ==
    active # Idle => \/ \E i \in DOMAIN outbox : outbox[i].req = active.req
                     \/ \E i \in DOMAIN queue : queue[i].req = active.req
                     \/ \E i \in DOMAIN wire : wire[i].req = active.req
                     \/ server = active.req
                     \/ \E i \in DOMAIN stream : stream[i].req = active.req
=============================================================================
