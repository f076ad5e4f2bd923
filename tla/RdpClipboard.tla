------------------------------ MODULE RdpClipboard ------------------------------
(***************************************************************************)
(* Texts, pictures and pastes on the clipboard channel of an RDP session   *)
(* (plugins/rdp/src/clipboard.rs): what the backend keeps, the session     *)
(* loop's queue of inputs, which carries the host's copies as well as the  *)
(* backend's own messages, and a server.                                   *)
(*                                                                         *)
(* To paste a text the helper puts it on the clipboard and types Control-V *)
(* once the server has taken it.  Answers carry no identifier: the backend *)
(* counts the lists it sends and the answers it gets.                      *)
(***************************************************************************)
EXTENDS Integers, Sequences

CONSTANT MaxCopies      \* bound: copies of the host and of the server

VARIABLES
    local,      \* local_text, local_data or local_files, numbered
    formats,    \* format_lists_sent, format_lists_acknowledged, formats_dirty
    paste,      \* pending_paste and ready_paste, 0 for None
    expects,    \* remote_data_format or remote_text_format, or none
    ready,      \* on_ready has been called
    inputs,     \* the session loop's input queue
    reactivating, deferred, \* and what it puts off while it reactivates
    toServer, toClient,
    owner,      \* whose copy the server's clipboard holds
    host,       \* the kind and number the host was told last
    copies, foreign, \* copies of the host and of the server so far
    seen,       \* copies of the server that the backend knows of
    asked,      \* the text that the host wants pasted
    crossed,    \* a copy of the server met a request for the one before it
    pasted      \* what the last Control-V met

clientVars == <<local, formats, paste, expects, ready>>
loopVars   == <<reactivating, deferred>>
ghosts     == <<copies, foreign, seen, asked, crossed, pasted>>
vars       == <<clientVars, inputs, loopVars, toServer, toClient, owner, host, ghosts>>

Kinds   == {"text", "data"}
NoPaste == [pending |-> 0, ready |-> 0]
Nobody  == [who |-> "nobody", id |-> 0, kinds |-> {}]

Init ==
    /\ local = [kind |-> "none", id |-> 0]
    /\ formats = [sent |-> 0, acked |-> 0, dirty |-> FALSE]
    /\ paste = NoPaste /\ expects = "none" /\ ready = FALSE
    /\ inputs = <<>> /\ reactivating = FALSE /\ deferred = <<>>
    /\ toServer = <<>> /\ toClient = <<[type |-> "monitor"]>>
    /\ owner = Nobody /\ host = [kind |-> "none", id |-> 0]
    /\ copies = 0 /\ foreign = 0 /\ seen = 0 /\ asked = 0
    /\ crossed = FALSE /\ pasted = <<>>

TypeOK ==
    /\ local \in [kind : Kinds \cup {"none", "files"}, id : 0 .. MaxCopies]
    /\ formats.acked <= formats.sent /\ formats.dirty \in BOOLEAN
    /\ paste.pending \in 0 .. formats.sent /\ paste.ready \in 0 .. formats.sent
    /\ expects \in Kinds \cup {"none"}
    /\ owner \in [who : {"nobody", "client", "server"}, kinds : SUBSET Kinds,
                  id : 0 .. MaxCopies]

(***************************************************************************)
(* The host copies, or wants a text pasted.                                *)
(***************************************************************************)
HostCopies ==
    /\ copies + foreign < MaxCopies
    /\ copies' = copies + 1
    /\ \E kind \in Kinds \cup {"files"}, pasting \in BOOLEAN :
         /\ pasting => kind = "text"
         /\ inputs' = Append(inputs, [type |-> "copy", kind |-> kind, id |-> copies',
                                      pasting |-> pasting])
    /\ UNCHANGED <<clientVars, loopVars, toServer, toClient, owner, host, foreign, seen,
                   asked, crossed, pasted>>

(***************************************************************************)
(* The session loop.                                                       *)
(***************************************************************************)
\* local_formats: files are only advertised as they are copied.
Offered(content) == IF content.kind = "files" THEN [content EXCEPT !.kind = "none"] ELSE content
List(content)    == [type |-> "list", kind |-> content.kind, id |-> content.id]
Listed           == [formats EXCEPT !.sent = @ + 1, !.dirty = FALSE]

\* set_local_text, set_local_data, set_local_files, and the list that follows.  Before
\* the channel is ready that of a picture or of files may fail.  A text's would end the
\* session, so that a paste that is requested is always pending after it.
TakeCopy(input) ==
    /\ local' = [kind |-> input.kind, id |-> input.id]
    /\ asked' = IF input.pasting THEN input.id ELSE asked
    /\ \/ /\ formats' = Listed
          /\ paste' = [NoPaste EXCEPT !.pending = IF input.pasting THEN formats'.sent ELSE 0]
          /\ toServer' = Append(toServer, List(local'))
       \/ /\ ~ready /\ input.kind # "text"
          /\ formats' = [formats EXCEPT !.dirty = TRUE]
          /\ paste' = NoPaste
          /\ UNCHANGED toServer
    /\ UNCHANGED deferred

\* process_clipboard_message, SendInitiateCopy: a list that says nothing new is not sent.
TakeAdvertise ==
    /\ IF ~formats.dirty /\ formats.sent > 0 THEN UNCHANGED <<formats, toServer>>
       ELSE formats' = Listed /\ toServer' = Append(toServer, List(Offered(local)))
    /\ UNCHANGED <<local, paste, deferred, asked>>

\* Control-V waits for the end of a reactivation, and is not typed for a paste that has
\* been given up in the meantime.
TakeShortcut(input) ==
    /\ IF reactivating THEN deferred' = Append(deferred, input) /\ UNCHANGED <<paste, toServer>>
       ELSE /\ paste' = IF paste.ready = input.generation THEN [paste EXCEPT !.ready = 0] ELSE paste
            /\ toServer' = IF paste.ready # input.generation THEN toServer
                           ELSE Append(toServer, [type |-> "keys", id |-> asked, seen |-> seen])
            /\ UNCHANGED deferred
    /\ UNCHANGED <<local, formats, asked>>

TakeMessage(input) ==
    /\ toServer' = Append(toServer, input)
    /\ UNCHANGED <<local, formats, paste, deferred, asked>>

Handle(input) ==
    \/ input.type = "copy"              /\ TakeCopy(input)
    \/ input.type = "advertise"         /\ TakeAdvertise
    \/ input.type = "shortcut"          /\ TakeShortcut(input)
    \/ input.type \in {"fetch", "data"} /\ TakeMessage(input)

TakeInput ==
    /\ reactivating \/ deferred = <<>>
    /\ inputs # <<>>
    /\ Handle(Head(inputs))
    /\ inputs' = Tail(inputs)
    /\ UNCHANGED <<expects, ready, reactivating, toClient, owner, host, copies, foreign,
                   seen, crossed, pasted>>

TakeDeferred ==
    /\ ~reactivating /\ deferred # <<>>
    /\ paste' = IF paste.ready = Head(deferred).generation THEN [paste EXCEPT !.ready = 0]
                ELSE paste
    /\ toServer' = IF paste.ready # Head(deferred).generation THEN toServer
                   ELSE Append(toServer, [type |-> "keys", id |-> asked, seen |-> seen])
    /\ deferred' = Tail(deferred)
    /\ UNCHANGED <<local, formats, expects, ready, inputs, reactivating, toClient, owner,
                   host, ghosts>>

Reactivate ==
    /\ reactivating' = ~reactivating
    /\ UNCHANGED <<clientVars, inputs, deferred, toServer, toClient, owner, host, ghosts>>

(***************************************************************************)
(* The backend's callbacks.                                                *)
(***************************************************************************)
Advertise == [type |-> "advertise"]

OnMonitor ==
    /\ inputs' = Append(inputs, Advertise)
    /\ UNCHANGED <<clientVars, host, seen, crossed>>

\* on_ready with the first list that is taken, and on_format_list_response.
OnAnswer(message) ==
    LET acked    == IF formats.acked = formats.sent THEN formats.acked ELSE formats.acked + 1
        first    == message.ok /\ ~ready
        mine     == acked > formats.acked /\ paste.pending = acked
        readying == IF first /\ formats.dirty THEN <<Advertise>> ELSE <<>>
        shortcut == IF mine /\ message.ok THEN <<[type |-> "shortcut", generation |-> acked]>>
                    ELSE <<>>
    IN /\ ready' = (ready \/ first)
       /\ formats' = [formats EXCEPT !.acked = acked]
       /\ paste' = IF ~mine THEN paste
                   ELSE [pending |-> 0, ready |-> IF message.ok THEN acked ELSE paste.ready]
       /\ inputs' = inputs \o readying \o shortcut
       /\ UNCHANGED <<local, expects, host, seen, crossed>>

Outstanding == \E queue \in {inputs, toServer, toClient} : \E i \in DOMAIN queue :
                  queue[i].type \in {"fetch", "data"}

\* Variant for mutation: a pending paste outlives the server's copy.
OnRemoteCopyKeeping(message) ==
    LET kind == IF "data" \in message.kinds THEN "data" ELSE "text" IN
    /\ expects' = kind
    /\ inputs' = Append(inputs, [type |-> "fetch", kind |-> kind])
    /\ seen' = message.id
    /\ crossed' = Outstanding
    /\ UNCHANGED <<local, formats, paste, ready, host>>

\* on_remote_copy: pictures before texts.
OnRemoteCopy(message) ==
    LET kind == IF "data" \in message.kinds THEN "data" ELSE "text" IN
    /\ paste' = NoPaste
    /\ expects' = kind
    /\ inputs' = Append(inputs, [type |-> "fetch", kind |-> kind])
    /\ seen' = message.id
    /\ crossed' = Outstanding
    /\ UNCHANGED <<local, formats, ready, host>>

\* on_format_data_request: the kind it has, or an error.
OnRequest(message) ==
    /\ inputs' = Append(inputs, [type |-> "data", ok |-> local.kind = message.kind,
                                 kind |-> message.kind, id |-> local.id])
    /\ UNCHANGED <<clientVars, host, seen, crossed>>

\* on_format_data_response: taken for the kind that was asked for last.  Bytes of another
\* kind may or may not decode.
OnData(message) ==
    LET kind == IF expects = "data" THEN "data" ELSE "text" IN
    /\ IF ~message.ok THEN UNCHANGED <<expects, host>>
       ELSE /\ expects' = "none"
            /\ \/ host' = [kind |-> kind, id |-> message.id]
               \/ message.kind # kind /\ UNCHANGED host
    /\ UNCHANGED <<local, formats, paste, ready, inputs, seen, crossed>>

Receive ==
    /\ toClient # <<>>
    /\ LET message == Head(toClient) IN
         \/ message.type = "monitor" /\ OnMonitor
         \/ message.type = "answer"  /\ OnAnswer(message)
         \/ message.type = "copied"  /\ OnRemoteCopy(message)
         \/ message.type = "fetch"   /\ OnRequest(message)
         \/ message.type = "data"    /\ OnData(message)
    /\ toClient' = Tail(toClient)
    /\ UNCHANGED <<loopVars, toServer, owner, copies, foreign, asked, pasted>>

(***************************************************************************)
(* The server.                                                             *)
(***************************************************************************)
Answer(ok) == Append(toClient, [type |-> "answer", ok |-> ok])

ServerLists(message) ==
    /\ \/ /\ owner' = [who |-> IF message.kind = "none" THEN "nobody" ELSE "client",
                       id |-> message.id, kinds |-> {message.kind} \cap Kinds]
          /\ toClient' = Answer(TRUE)
       \/ toClient' = Answer(FALSE) /\ UNCHANGED owner
    /\ UNCHANGED pasted

ServerTypes(message) ==
    /\ pasted' = [owner |-> owner, id |-> message.id, seen |-> message.seen]
    /\ UNCHANGED <<owner, toClient>>

ServerGives(message) ==
    /\ toClient' = Append(toClient,
                     [type |-> "data", kind |-> message.kind, id |-> owner.id,
                      ok |-> owner.who = "server" /\ message.kind \in owner.kinds])
    /\ UNCHANGED <<owner, pasted>>

Serve ==
    /\ toServer # <<>>
    /\ LET message == Head(toServer) IN
         \/ message.type = "list"  /\ ServerLists(message)
         \/ message.type = "keys"  /\ ServerTypes(message)
         \/ message.type = "fetch" /\ ServerGives(message)
         \/ message.type = "data"  /\ UNCHANGED <<toClient, owner, pasted>>
    /\ toServer' = Tail(toServer)
    /\ UNCHANGED <<clientVars, inputs, loopVars, host, copies, foreign, seen, asked, crossed>>

ServerCopies ==
    /\ copies + foreign < MaxCopies
    /\ foreign' = foreign + 1
    /\ \E kinds \in (SUBSET Kinds) \ {{}} :
         /\ owner' = [who |-> "server", id |-> foreign', kinds |-> kinds]
         /\ toClient' = Append(toClient, [type |-> "copied", kinds |-> kinds, id |-> foreign'])
    /\ UNCHANGED <<clientVars, inputs, loopVars, toServer, host, copies, seen, asked,
                   crossed, pasted>>

\* An application of the server's wants what the client offers.
ServerFetches ==
    /\ owner.who = "client" /\ ~Outstanding
    /\ \E kind \in owner.kinds : toClient' = Append(toClient, [type |-> "fetch", kind |-> kind])
    /\ UNCHANGED <<clientVars, inputs, loopVars, toServer, owner, host, ghosts>>

Next == \/ HostCopies \/ TakeInput \/ TakeDeferred \/ Reactivate \/ Receive
        \/ Serve \/ ServerCopies \/ ServerFetches

Spec == Init /\ [][Next]_vars

(***************************************************************************)
(* Properties.                                                             *)
(***************************************************************************)
\* Control-V meets the text that the host wanted pasted, or a copy of the server's that
\* the helper could not know of; never an older text, a newer one, nor nothing.
PastesWhatWasAsked ==
    pasted # <<>> =>
        \/ pasted.owner.who = "client" /\ pasted.owner.id = pasted.id
        \/ pasted.owner.who = "server" /\ pasted.owner.id > pasted.seen

Quiet == inputs \o deferred \o toServer \o toClient = <<>>

\* When nothing is under way, every list has been answered, no paste is left waiting,
\* the channel offers what the host copied last, and the host has what the server copied
\* last, unless that copy met a request for the one before it.
Settled ==
    Quiet =>
        /\ formats.acked = formats.sent
        /\ paste = NoPaste
        /\ ready => ~formats.dirty
        /\ owner.who = "server" /\ ~crossed => host.kind \in owner.kinds /\ host.id = owner.id
=============================================================================
