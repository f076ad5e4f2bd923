------------------------------ MODULE RdpFileLists ------------------------------
(***************************************************************************)
(* File lists on the clipboard channel of an RDP session                   *)
(* (plugins/rdp/src/clipboard.rs): what the helper offers of the host's    *)
(* files and directories and serves of it, and the lists of a server that  *)
(* it is ready to stage.                                                   *)
(*                                                                         *)
(* A path is a sequence of names.  A name is a letter and its case, and    *)
(* two are the same file's if their letters are: lists come from and go to *)
(* file systems that do not tell cases apart.                              *)
(***************************************************************************)
EXTENDS Integers, Sequences, FiniteSets, SequencesExt

CONSTANTS Copied,           \* what the host may copy: sequences of trees
          Lists,            \* what the server may list
          Locks,            \* bound: lock numbers of the server
          MaxItems,         \* RDP_CLIPBOARD_MAX_FILE_COUNT
          MaxFileSize,      \* RDP_CLIPBOARD_MAX_FILE_SIZE
          MaxTransferSize,  \* RDP_CLIPBOARD_MAX_TRANSFER_SIZE
          MaxRequest,       \* RDP_CLIPBOARD_MAX_REQUEST_BYTES
          MaxOffers         \* bound: copies of the host

VARIABLES
    offers,     \* the lists offered so far, numbered as their transfers
    current,    \* local_files and local_file_transfer_id: an offer, or 0
    locked,     \* locked_local_files: offers, or 0
    cancelled,  \* the offers cancelled while they were the current ones
    answer,     \* the last answer: <<>>, or the offer, the file and the bytes
    staged      \* the list of the server's that is staged, if any

vars == <<offers, current, locked, cancelled, answer, staged>>

\* A tree is an item and, for a directory, the items in it.
Kinds      == {"file", "directory", "link"}
Item(name, kind, size) == [name |-> name, kind |-> kind, size |-> size]

(***************************************************************************)
(* collect_local_clipboard_files                                           *)
(***************************************************************************)
Entry(path, item) ==
    [path |-> path, kind |-> item.kind, size |-> IF item.kind = "directory" THEN 0 ELSE item.size]

\* Directories come before what they contain, and the roots last to first.
Walked(tree) ==
    <<Entry(<<tree.item.name>>, tree.item)>> \o
    (IF tree.item.kind # "directory" THEN <<>>
     ELSE [i \in DOMAIN tree.children |->
             Entry(<<tree.item.name, tree.children[i].name>>, tree.children[i])])

Listing(trees) == FlattenSeq([i \in DOMAIN trees |-> Walked(trees[Len(trees) + 1 - i])])

Fold(path)   == [i \in DOMAIN path |-> path[i][1]]
SameName(a, b) == Fold(a.path) = Fold(b.path)
Total(list)  == FoldLeft(LAMBDA sum, entry : sum + entry.size, 0, list)
Distinct(list) == \A i, j \in DOMAIN list : SameName(list[i], list[j]) => i = j

Collectable(list) ==
    /\ Len(list) <= MaxItems
    /\ \A i \in DOMAIN list : list[i].kind # "link" /\ list[i].size <= MaxFileSize
    /\ Total(list) <= MaxTransferSize
    /\ Distinct(list)

(***************************************************************************)
(* prepare_remote_clipboard_download                                       *)
(***************************************************************************)
Files(list) == {i \in DOMAIN list : list[i].kind # "directory"}
FilesOnly(list) == SelectSeq(list, LAMBDA entry : entry.kind # "directory")
Ancestors(path) == {SubSeq(path, 1, n) : n \in 1 .. Len(path) - 1}

\* No item may be below a regular file, wherever the list has it.
BelowNoFile(list) ==
    \A i \in DOMAIN list, j \in Files(list) :
        Fold(list[j].path) \notin {Fold(path) : path \in Ancestors(list[i].path)}

Preparable(list) ==
    /\ Len(list) \in 1 .. MaxItems
    /\ Distinct(list)
    /\ \A i \in Files(list) : list[i].size <= MaxFileSize
    /\ Total(FilesOnly(list)) <= MaxTransferSize
    /\ BelowNoFile(list)

\* The directories that are made before the first file is asked for.
Made(list) ==
    UNION {IF i \in Files(list) THEN Ancestors(list[i].path)
           ELSE Ancestors(list[i].path) \cup {list[i].path} : i \in DOMAIN list}

\* top_level_paths, which the host is given: the first spelling of each name.
TopLevel(list) ==
    {list[i].path[1] : i \in {i \in DOMAIN list :
        \A j \in 1 .. i - 1 : Fold(<<list[j].path[1]>>) # Fold(<<list[i].path[1]>>)}}

(***************************************************************************)
(* Offering and serving.                                                   *)
(***************************************************************************)
Init ==
    /\ offers = <<>> /\ current = 0 /\ staged = <<>>
    /\ locked = [lock \in Locks |-> 0]
    /\ cancelled = {} /\ answer = <<>>

TypeOK ==
    /\ current \in 0 .. Len(offers) /\ locked \in [Locks -> 0 .. Len(offers)]
    /\ \A n \in 1 .. Len(offers) : Len(offers[n]) \in 1 .. MaxItems

\* set_local_files: a list that is refused leaves the one before it offered.
Offer(trees) ==
    /\ Len(offers) < MaxOffers
    /\ IF Collectable(Listing(trees))
       THEN offers' = Append(offers, Listing(trees)) /\ current' = Len(offers')
       ELSE UNCHANGED <<offers, current>>
    /\ answer' = <<>>
    /\ UNCHANGED <<locked, cancelled, staged>>

\* A text or a picture is copied.
OfferOther ==
    /\ current' = 0
    /\ answer' = <<>>
    /\ UNCHANGED <<offers, locked, cancelled, staged>>

\* cancel_transfer
Cancel ==
    /\ current # 0
    /\ cancelled' = cancelled \cup {current}
    /\ current' = 0
    /\ locked' = [lock \in Locks |-> 0]
    /\ answer' = <<>>
    /\ UNCHANGED <<offers, staged>>

OnLock(lock) ==
    /\ current # 0
    /\ locked' = [locked EXCEPT ![lock] = current]
    /\ UNCHANGED <<offers, current, cancelled, answer, staged>>

OnUnlock(lock) ==
    /\ locked' = [locked EXCEPT ![lock] = 0]
    /\ UNCHANGED <<offers, current, cancelled, answer, staged>>

\* local_file_contents_response, for a range: an error unless there is such a file, and
\* no more of it than there is.
Served(offer, file, position, count) ==
    IF \/ offer = 0 \/ file \notin DOMAIN offers[offer] \/ count > MaxRequest
       \/ offers[offer][file].kind = "directory" \/ position > offers[offer][file].size
    THEN <<>>
    ELSE LET rest == offers[offer][file].size - position IN
         <<[offer |-> offer, file |-> file, from |-> position,
            to |-> position + (IF count < rest THEN count ELSE rest)]>>

\* A request names a lock, or the current files.
OnFileContentsRequest ==
    /\ \E offer \in {current} \cup {locked[lock] : lock \in Locks}, file \in 1 .. MaxItems,
          position \in 0 .. MaxFileSize, count \in 1 .. MaxRequest + 1 :
         answer' = Served(offer, file, position, count)
    /\ UNCHANGED <<offers, current, locked, cancelled, staged>>

OnRemoteFileList(list) ==
    /\ staged = <<>>                  \* bound: one list
    /\ staged' = IF Preparable(list) THEN list ELSE <<>>
    /\ UNCHANGED <<offers, current, locked, cancelled, answer>>

Next == \/ \E trees \in Copied : Offer(trees)
        \/ OfferOther \/ Cancel \/ OnFileContentsRequest
        \/ \E lock \in Locks : OnLock(lock) \/ OnUnlock(lock)
        \/ \E list \in Lists : OnRemoteFileList(list)

Spec == Init /\ [][Next]_vars

(***************************************************************************)
(* Properties.                                                             *)
(***************************************************************************)
\* A list that the helper offers is one that a helper at the other end can stage.
OffersArePreparable == \A n \in 1 .. Len(offers) : Preparable(offers[n])

\* The server is given nothing of a copy that was cancelled while it was the current
\* one, nor anything past the end of a file.
ServedIsOffered ==
    answer # <<>> => /\ answer[1].offer \notin cancelled
                     /\ answer[1].to <= offers[answer[1].offer][answer[1].file].size

\* Staging a list makes no directory where a file is to be, and all that is staged is
\* below a path that the host is given.
StagedSoundly ==
    LET made == {Fold(path) : path \in Made(staged)} IN
    /\ \A i \in Files(staged) : Fold(staged[i].path) \notin made
    /\ \A i \in DOMAIN staged : \E name \in TopLevel(staged) :
          Fold(<<name>>) = Fold(<<staged[i].path[1]>>)
=============================================================================
