--------------------------- MODULE RdpClipboardFiles ---------------------------
(***************************************************************************)
(* Files that the server copies (plugins/rdp/src/clipboard.rs): the helper *)
(* asks for the list of each copy, and for one size or chunk at a time,    *)
(* until all files are staged and the host is told where.                  *)
(*                                                                         *)
(* The session loop's input queue and the wire behind it carry the         *)
(* requests in order, and are one queue here.  The server keeps to the     *)
(* protocol: it answers in order, with the copy that the channel locked    *)
(* for the request, though it may refuse at any time and may give less     *)
(* than a chunk.  A byte is the file and the place it belongs to.          *)
(***************************************************************************)
EXTENDS Integers, Sequences, SequencesExt

CONSTANTS MaxCopies,        \* bound: of the server
          MaxFiles,         \* RDP_CLIPBOARD_MAX_FILE_COUNT
          MaxFileSize,      \* RDP_CLIPBOARD_MAX_FILE_SIZE
          MaxTransferSize,  \* RDP_CLIPBOARD_MAX_TRANSFER_SIZE
          Chunk             \* RDP_CLIPBOARD_DOWNLOAD_CHUNK_BYTES

VARIABLES
    download,   \* remote_download: <<>>, or one record
    staged,     \* the copies with a staging directory, and the bytes of their files
    toServer, toClient,
    copies,     \* what the server copied: sizes, and whether the list tells them
    outcome,    \* what the host was told of each copy
    clean,      \* copies whose download met no answer to an earlier one's request
    refused     \* copies with a request that the server refused

vars == <<download, staged, toServer, toClient, copies, outcome, clean, refused>>

Copies   == 1 .. MaxCopies
NoCopy   == [sizes |-> <<>>, listed |-> FALSE]
Bytes(file, from, count) == [i \in 1 .. count |-> <<file, from + i>>]
Sum(sizes) == FoldLeft(+, 0, sizes)

Init ==
    /\ download = <<>> /\ staged = [n \in Copies |-> <<>>]
    /\ toServer = <<>> /\ toClient = <<>>
    /\ copies = <<>>
    /\ outcome = [n \in Copies |-> "none"]
    /\ clean = {} /\ refused = {}

TypeOK ==
    /\ \A n \in Copies : Len(staged[n]) <= MaxFiles
    /\ download # <<>> => /\ download[1].copy \in Copies
                          /\ download[1].phase \in {"size", "data"}
                          /\ download[1].position < MaxFileSize
                          /\ download[1].total <= MaxTransferSize
    /\ outcome \in [Copies -> {"none", "ready", "failed", "replaced"}]

(***************************************************************************)
(* The backend.                                                            *)
(***************************************************************************)
Request(n, file, stream, kind, position, count) ==
    [type |-> "contents", copy |-> n, file |-> file, stream |-> stream, kind |-> kind,
     position |-> position, count |-> count]
Ask(request) == toServer' = Append(toServer, request)
Tell(n, what) == outcome' = [outcome EXCEPT ![n] = what]

\* on_remote_copy
OnCopied(message) ==
    /\ Ask([type |-> "list"])
    /\ UNCHANGED <<download, staged, outcome, clean>>

\* prepare_remote_clipboard_download: the sizes that the list tells are checked.
Acceptable(copy) ==
    /\ Len(copy.sizes) \in 1 .. MaxFiles
    /\ copy.listed => /\ \A i \in DOMAIN copy.sizes : copy.sizes[i] <= MaxFileSize
                      /\ Sum(copy.sizes) <= MaxTransferSize

\* The download that a new list replaces is cleaned up, and its host not told.
Replaced(n, outcomes) ==
    IF download = <<>> THEN outcomes ELSE [outcomes EXCEPT ![download[1].copy] = "replaced"]
Cleaned == IF download = <<>> THEN staged ELSE [staged EXCEPT ![download[1].copy] = <<>>]

Answers == {i \in DOMAIN toServer : toServer[i].type = "contents"}
               \cup {i \in DOMAIN toClient : toClient[i].type = "contents"}

\* start_remote_file_download: streams are numbered from 1 for each download.
OnList(message) ==
    LET n == message.copy IN
    /\ staged' = Cleaned
    /\ clean' = IF Answers = {} THEN clean \cup {n} ELSE clean \ {n}
    /\ IF Acceptable(copies[n])
       THEN /\ download' = <<[copy |-> n, file |-> 1, phase |-> "size", stream |-> 1,
                              size |-> 0, position |-> 0, count |-> 0, next |-> 2,
                              total |-> 0]>>
            /\ Ask(Request(n, 1, 1, "size", 0, 8))
            /\ outcome' = Replaced(n, outcome)
       ELSE /\ download' = <<>>
            /\ outcome' = [Replaced(n, outcome) EXCEPT ![n] = "failed"]
            /\ UNCHANGED toServer

\* An error ends the download, and takes what it staged.
Fail(d) ==
    /\ download' = <<>>
    /\ staged' = Cleaned
    /\ Tell(d.copy, "failed")
    /\ UNCHANGED toServer

Least(a, b) == IF a < b THEN a ELSE b

\* remote_clipboard_range_request
AskRange(d, size, position) ==
    LET count == Least(size - position, Chunk) IN
    /\ download' = <<[d EXCEPT !.phase = "data", !.stream = d.next, !.next = @ + 1,
                               !.size = size, !.position = position, !.count = count]>>
    /\ Ask(Request(d.copy, d.file, d.next, "range", position, count))
    /\ UNCHANGED outcome

\* finish_remote_clipboard_file
FinishFile(d, size) ==
    IF d.file = Len(copies[d.copy].sizes)
    THEN /\ download' = <<>> /\ Tell(d.copy, "ready") /\ UNCHANGED toServer
    ELSE /\ download' = <<[d EXCEPT !.file = @ + 1, !.phase = "size", !.stream = d.next,
                                    !.next = @ + 1, !.total = @ + size, !.position = 0]>>
         /\ Ask(Request(d.copy, d.file + 1, d.next, "size", 0, 8))
         /\ UNCHANGED outcome

SizeRefused(d, size) ==
    \/ size > MaxFileSize
    \/ copies[d.copy].listed /\ copies[d.copy].sizes[d.file] # size
    \/ d.total + size > MaxTransferSize

\* advance_remote_clipboard_download
OnSize(d, message) ==
    IF message.stream # d.stream \/ message.kind # "size" \/ SizeRefused(d, message.size)
    THEN Fail(d)
    ELSE /\ staged' = [staged EXCEPT ![d.copy] = Append(@, <<>>)]
         /\ IF message.size = 0 THEN FinishFile(d, 0) ELSE AskRange(d, message.size, 0)

Extended(d, bytes) == [staged EXCEPT ![d.copy][d.file] = @ \o bytes]

\* Variant for mutation: the next chunk is asked for a whole chunk further.
OnChunkWhole(d, message) ==
    LET position == d.position + d.count IN
    IF message.stream # d.stream \/ Len(message.bytes) \notin 1 .. d.count
    THEN Fail(d)
    ELSE /\ staged' = Extended(d, message.bytes)
         /\ IF position = d.size THEN FinishFile(d, d.size) ELSE AskRange(d, d.size, position)

OnChunk(d, message) ==
    LET position == d.position + Len(message.bytes) IN
    IF \/ message.stream # d.stream \/ Len(message.bytes) \notin 1 .. d.count
       \/ position > d.size
    THEN Fail(d)
    ELSE /\ staged' = Extended(d, message.bytes)
         /\ IF position = d.size THEN FinishFile(d, d.size) ELSE AskRange(d, d.size, position)

\* handle_remote_file_contents_response
OnContents(message) ==
    /\ IF download = <<>> THEN UNCHANGED <<download, staged, toServer, outcome>>
       ELSE LET d == download[1] IN
            IF ~message.ok THEN Fail(d)
            ELSE IF d.phase = "size" THEN OnSize(d, message) ELSE OnChunk(d, message)
    /\ UNCHANGED clean

Receive ==
    /\ toClient # <<>>
    /\ LET message == Head(toClient) IN
         \/ message.type = "copied"   /\ OnCopied(message)
         \/ message.type = "list"     /\ OnList(message)
         \/ message.type = "contents" /\ OnContents(message)
    /\ toClient' = Tail(toClient)
    /\ UNCHANGED <<copies, refused>>

(***************************************************************************)
(* The server.                                                             *)
(***************************************************************************)
Sizes == UNION {[1 .. k -> 0 .. MaxFileSize + 1] : k \in 1 .. MaxFiles}

ServerCopies ==
    /\ Len(copies) < MaxCopies
    /\ \E sizes \in Sizes, listed \in BOOLEAN :
         copies' = Append(copies, [sizes |-> sizes, listed |-> listed])
    /\ toClient' = Append(toClient, [type |-> "copied"])
    /\ UNCHANGED <<download, staged, toServer, outcome, clean, refused>>

Contents(request, ok, kind, size, bytes) ==
    [type |-> "contents", stream |-> request.stream, ok |-> ok, kind |-> kind,
     size |-> size, bytes |-> bytes]

Refuse(request) ==
    /\ toClient' = Append(toClient, Contents(request, FALSE, request.kind, 0, <<>>))
    /\ refused' = refused \cup {request.copy}

Give(request) ==
    /\ IF request.kind = "size"
       THEN toClient' = Append(toClient, Contents(request, TRUE, "size",
                                 copies[request.copy].sizes[request.file], <<>>))
       ELSE \E count \in 1 .. request.count :
              toClient' = Append(toClient, Contents(request, TRUE, "range", 0,
                                   Bytes(<<request.copy, request.file>>,
                                         request.position, count)))
    /\ UNCHANGED refused

Serve ==
    /\ toServer # <<>>
    /\ LET request == Head(toServer) IN
         \/ request.type = "list"
            /\ toClient' = Append(toClient, [type |-> "list", copy |-> Len(copies)])
            /\ UNCHANGED refused
         \/ request.type = "contents" /\ (Refuse(request) \/ Give(request))
    /\ toServer' = Tail(toServer)
    /\ UNCHANGED <<download, staged, copies, outcome, clean>>

Next == Receive \/ ServerCopies \/ Serve

Spec == Init /\ [][Next]_vars

(***************************************************************************)
(* Properties.                                                             *)
(***************************************************************************)
Whole(n) == [i \in DOMAIN copies[n].sizes |-> Bytes(<<n, i>>, 0, copies[n].sizes[i])]
Sound(n) == \A i \in DOMAIN copies[n].sizes : copies[n].sizes[i] <= MaxFileSize

\* The host is only given files that are complete, of one copy, and in order; nothing
\* else stays on the disk but what is being staged.
FilesExact ==
    \A n \in 1 .. Len(copies) :
        IF outcome[n] = "ready" THEN staged[n] = Whole(n)
        ELSE staged[n] # <<>> => download # <<>> /\ download[1].copy = n

\* A download within the limits that the server refuses nothing of does not fail, unless
\* it replaced one whose request was still to be answered.
NoNeedlessFailure ==
    \A n \in clean \ refused :
        Sound(n) /\ Sum(copies[n].sizes) <= MaxTransferSize => outcome[n] # "failed"
=============================================================================
