------------------------- MODULE RdpEventWriterProofs -------------------------
(***************************************************************************)
(* Theorems about RdpEventWriter for every number of frames and control    *)
(* events: the two threads that write to stdout lose and repeat no frame,  *)
(* and reorder at most the one that the stdout thread holds.               *)
(***************************************************************************)
EXTENDS RdpEventWriter, TLAPS, FiniteSetTheorems, SequenceTheorems

Lines == Items \cup Controls

\* The frames that have left the queue and what the sender drained from it.
Gone == FramesOf(out) \cup FramesOf(held) \cup superseded \cup lost

Ascending(items) ==
    \A i, j \in DOMAIN items : i < j =>
        \A f \in items[i].frames, g \in items[j].frames : f < g

\* Only a sender that is not inside send adds to the queue, so that it is empty
\* from a drain to the end of the write.
Shape ==
    /\ sender # "running" => queue = <<>>
    /\ sender \notin {"writing", "closing"} => batch = <<>>
    /\ sender \in {"writing", "closing"} =>
          /\ batch # <<>>
          /\ IsControl(batch[Len(batch)]) /\ batch[Len(batch)].after = sent
          /\ sender = "closing" => batch[Len(batch)].kind = "terminal"
          /\ \A i \in DOMAIN batch : i < Len(batch) => ~IsControl(batch[i])
    /\ stdoutThread = "writing" <=> held # <<>>

\* What waits is in order, and newer than all that does not.
NewerWait ==
    /\ Ascending(queue) /\ Ascending(batch)
    /\ \A f \in FramesOf(queue) \cup FramesOf(batch), g \in Gone : g < f

\* Every frame is somewhere, and what does not wait is in one place.
Covered == 1 .. sent = FramesOf(queue) \cup FramesOf(batch) \cup Gone
Apart ==
    /\ \A i, j \in DOMAIN out : i # j => out[i].frames \cap out[j].frames = {}
    /\ FramesOf(out) \cap FramesOf(held) = {} /\ FramesOf(out) \cap superseded = {}
    /\ FramesOf(out) \cap lost = {} /\ FramesOf(held) \cap superseded = {}
    /\ FramesOf(held) \cap lost = {} /\ superseded \cap lost = {}

\* What waits is newer than any control event written; of the older frames one
\* line at most is written behind it, the one the stdout thread held.
Barrier ==
    \A k \in DOMAIN out : IsControl(out[k]) =>
        /\ out[k].after <= sent
        /\ \A f \in FramesOf(queue) \cup FramesOf(batch) : out[k].after < f
        /\ \A i, j \in DOMAIN out :
              i > k /\ j > k /\ Older(out[i], out[k].after) /\ Older(out[j], out[k].after)
                 => i = j
        /\ \A h \in DOMAIN held : Older(held[h], out[k].after) =>
              \A i \in DOMAIN out : i > k => ~Older(out[i], out[k].after)

\* A held frame has been overtaken only by lines before a control event.
HeldOvertaken ==
    \A h \in DOMAIN held, i \in DOMAIN out :
        (\E f \in out[i].frames : Older(held[h], f)) =>
           \E k \in DOMAIN out : k > i /\ IsControl(out[k])

\* While the host reads, no write fails, and a helper that has ended has said so.
Ending ==
    /\ lost # {} => ~open
    /\ sender \in {"ended", "exited"} /\ open => \E k \in DOMAIN out : out[k].kind = "terminal"

IInv == /\ TypeOK /\ Shape
        /\ NewerWait /\ Covered /\ Apart
        /\ Barrier /\ HeldOvertaken /\ OvertakenOnlyByControl /\ Ending

-----------------------------------------------------------------------------
(* The frames of a sequence of lines. *)

LEMMA LineShape ==
    ASSUME NEW x \in Lines
    PROVE  /\ x.frames \subseteq Nat
           /\ x \in Items => ~IsControl(x) /\ x.kind \in FrameKinds
           /\ IsControl(x) => x \in Controls /\ x.frames = {} /\ x.after \in Nat
           /\ ~IsControl(x) => x \in Items
           /\ x \in Controls => IsControl(x)
  <1>1. x \in Items => x.kind \in FrameKinds /\ x.frames \in SUBSET Nat
    BY DEF Items
  <1>2. x \in Controls => /\ x.kind \in {"control", "terminal"}
                          /\ x.frames = {} /\ x.after \in Nat
    BY DEF Controls
  <1>3. x.kind \in FrameKinds => ~IsControl(x)
    BY DEF FrameKinds, IsControl
  <1>4. x.kind \in {"control", "terminal"} => IsControl(x)
    BY DEF IsControl
  <1>5. x \in Items \/ x \in Controls
    BY DEF Lines
  <1> QED BY ONLY <1>1, <1>2, <1>3, <1>4, <1>5

\* A control event holds no frame, so that it is never the older line.
LEMMA ControlNotOlder ==
    ASSUME NEW x \in Lines, IsControl(x), NEW n
    PROVE  ~Older(x, n)
  BY LineShape DEF Older

LEMMA FramesOfType ==
    ASSUME NEW s \in Seq(Lines)
    PROVE  FramesOf(s) \subseteq Nat
  <1>1. \A i \in DOMAIN s : s[i].frames \subseteq Nat
    BY LineShape
  <1> QED BY <1>1 DEF FramesOf

LEMMA FramesOfMember ==
    ASSUME NEW s, NEW f
    PROVE  f \in FramesOf(s) <=> \E i \in DOMAIN s : f \in s[i].frames
  BY DEF FramesOf

LEMMA FramesOfEmpty == FramesOf(<<>>) = {}
  BY DEF FramesOf

LEMMA FramesOfOne ==
    ASSUME NEW x
    PROVE  FramesOf(<<x>>) = x.frames
  BY DEF FramesOf

LEMMA FramesOfConcat ==
    ASSUME NEW S, NEW s \in Seq(S), NEW t \in Seq(S)
    PROVE  FramesOf(s \o t) = FramesOf(s) \cup FramesOf(t)
  <1> DEFINE u == s \o t
  <1>1. /\ Len(s) \in Nat /\ Len(t) \in Nat
        /\ DOMAIN s = 1 .. Len(s) /\ DOMAIN t = 1 .. Len(t) /\ DOMAIN u = 1 .. Len(s) + Len(t)
        /\ \A i \in DOMAIN s : u[i] = s[i]
        /\ \A i \in DOMAIN t : u[Len(s) + i] = t[i]
    OBVIOUS
  <1> HIDE DEF u
  <1>2. \A i \in DOMAIN s : i \in DOMAIN u
    BY <1>1
  <1>3. \A i \in DOMAIN t : Len(s) + i \in DOMAIN u
    BY <1>1
  <1>4. \A i \in DOMAIN u : i \in DOMAIN s \/ \E j \in DOMAIN t : i = Len(s) + j
    <2>1. \A i \in DOMAIN u : i \in DOMAIN s \/ (i - Len(s) \in DOMAIN t /\ i = Len(s) + (i - Len(s)))
      BY <1>1
    <2> QED BY <2>1
  <1>5. ASSUME NEW f \in FramesOf(u)
        PROVE  f \in FramesOf(s) \cup FramesOf(t)
    <2>1. PICK i \in DOMAIN u : f \in u[i].frames
      BY FramesOfMember
    <2>2. CASE i \in DOMAIN s
      <3>1. f \in s[i].frames
        BY <1>1, <2>1, <2>2
      <3> QED BY <2>2, <3>1, FramesOfMember
    <2>3. CASE \E j \in DOMAIN t : i = Len(s) + j
      <3>1. PICK j \in DOMAIN t : i = Len(s) + j
        BY <2>3
      <3>2. f \in t[j].frames
        BY <1>1, <2>1, <3>1
      <3> QED BY <3>2, FramesOfMember
    <2> QED BY <1>4, <2>2, <2>3
  <1>6. ASSUME NEW f \in FramesOf(s)
        PROVE  f \in FramesOf(u)
    <2>1. PICK i \in DOMAIN s : f \in s[i].frames
      BY FramesOfMember
    <2> QED BY <1>1, <1>2, <2>1, FramesOfMember
  <1>7. ASSUME NEW f \in FramesOf(t)
        PROVE  f \in FramesOf(u)
    <2>1. PICK i \in DOMAIN t : f \in t[i].frames
      BY FramesOfMember
    <2>2. f \in u[Len(s) + i].frames
      BY <1>1, <2>1
    <2> QED BY <1>3, <2>2, FramesOfMember
  <1> QED BY <1>5, <1>6, <1>7 DEF u

LEMMA FramesOfAppend ==
    ASSUME NEW S, NEW s \in Seq(S), NEW x \in S
    PROVE  FramesOf(Append(s, x)) = FramesOf(s) \cup x.frames
  <1>1. <<x>> \in Seq(S)
    OBVIOUS
  <1>2. Append(s, x) = s \o <<x>>
    BY AppendIsConcat
  <1>3. FramesOf(s \o <<x>>) = FramesOf(s) \cup FramesOf(<<x>>)
    <2>1. \A t \in Seq(S) : FramesOf(s \o t) = FramesOf(s) \cup FramesOf(t)
      BY ONLY FramesOfConcat, s \in Seq(S)
    <2> QED BY ONLY <1>1, <2>1
  <1>4. FramesOf(<<x>>) = x.frames
    BY FramesOfOne
  <1> QED BY ONLY <1>2, <1>3, <1>4

LEMMA FramesOfTail ==
    ASSUME NEW S, NEW s \in Seq(S), s # <<>>
    PROVE  /\ FramesOf(s) = Head(s).frames \cup FramesOf(Tail(s))
           /\ Ascending(s) => Ascending(Tail(s))
           /\ Ascending(s) => \A f \in Head(s).frames, g \in FramesOf(Tail(s)) : f < g
  <1> DEFINE t == Tail(s)
  <1>1. /\ Len(s) \in Nat \ {0} /\ DOMAIN s = 1 .. Len(s) /\ DOMAIN t = 1 .. Len(s) - 1
        /\ Head(s) = s[1]
        /\ \A i \in DOMAIN t : t[i] = s[i + 1]
    OBVIOUS
  <1> HIDE DEF t
  <1>2. \A i \in DOMAIN t : i \in Nat \ {0} /\ i + 1 \in DOMAIN s /\ 1 < i + 1 /\ 1 \in DOMAIN s
    BY <1>1
  <1>3. \A i \in DOMAIN s : i = 1 \/ \E j \in DOMAIN t : i = j + 1
    <2>1. \A i \in DOMAIN s : i = 1 \/ (i - 1 \in DOMAIN t /\ i = (i - 1) + 1)
      BY <1>1
    <2> QED BY <2>1
  <1>4. \A f : f \in FramesOf(s) <=> f \in Head(s).frames \cup FramesOf(t)
    <2>1. ASSUME NEW f \in FramesOf(s) PROVE f \in Head(s).frames \cup FramesOf(t)
      <3>1. PICK i \in DOMAIN s : f \in s[i].frames
        BY FramesOfMember
      <3>2. CASE i = 1
        BY <1>1, <3>1, <3>2
      <3>3. CASE \E j \in DOMAIN t : i = j + 1
        <4>1. PICK j \in DOMAIN t : i = j + 1
          BY <3>3
        <4>2. f \in t[j].frames
          BY <1>1, <3>1, <4>1
        <4> QED BY <4>2, FramesOfMember
      <3> QED BY <1>3, <3>2, <3>3
    <2>2. ASSUME NEW f \in Head(s).frames PROVE f \in FramesOf(s)
      <3>1. 1 \in DOMAIN s /\ f \in s[1].frames
        BY <1>1, <2>2
      <3> QED BY <3>1, FramesOfMember
    <2>3. ASSUME NEW f \in FramesOf(t) PROVE f \in FramesOf(s)
      <3>1. PICK j \in DOMAIN t : f \in t[j].frames
        BY FramesOfMember
      <3>2. f \in s[j + 1].frames /\ j + 1 \in DOMAIN s
        BY <1>1, <1>2, <3>1
      <3> QED BY <3>2, FramesOfMember
    <2> QED BY <2>1, <2>2, <2>3
  <1>5. ASSUME Ascending(s) PROVE Ascending(t)
    <2>1. \A i, j \in DOMAIN t : i < j => i + 1 < j + 1
      BY <1>2
    <2> QED BY <1>1, <1>2, <1>5, <2>1 DEF Ascending
  <1>6. ASSUME Ascending(s), NEW f \in Head(s).frames, NEW g \in FramesOf(t)
        PROVE  f < g
    <2>1. PICK j \in DOMAIN t : g \in t[j].frames
      BY FramesOfMember
    <2>2. g \in s[j + 1].frames /\ j + 1 \in DOMAIN s /\ 1 \in DOMAIN s /\ 1 < j + 1
      BY <1>1, <1>2, <2>1
    <2>3. f \in s[1].frames
      BY <1>1
    <2> QED BY <1>6, <2>2, <2>3 DEF Ascending
  <1> QED BY <1>4, <1>5, <1>6 DEF t

\* A newer line, or one without frames, ends an ascending sequence.
LEMMA AscendingAppend ==
    ASSUME NEW S, NEW s \in Seq(S), NEW x \in S, Ascending(s),
           \A f \in FramesOf(s), g \in x.frames : f < g
    PROVE  Ascending(Append(s, x))
  <1> DEFINE u == Append(s, x)
  <1>1. /\ Len(s) \in Nat /\ DOMAIN s = 1 .. Len(s) /\ DOMAIN u = 1 .. Len(s) + 1
        /\ \A i \in DOMAIN s : u[i] = s[i]
        /\ u[Len(s) + 1] = x
    OBVIOUS
  <1> HIDE DEF u
  <1>2. ASSUME NEW i \in DOMAIN u, NEW j \in DOMAIN u, i < j,
               NEW f \in u[i].frames, NEW g \in u[j].frames
        PROVE  f < g
    <2>1. i \in DOMAIN s /\ f \in s[i].frames /\ f \in FramesOf(s)
      <3>1. i \in DOMAIN s
        BY <1>1, <1>2
      <3> QED BY <1>1, <3>1, FramesOfMember
    <2>2. CASE j \in DOMAIN s
      BY <1>1, <1>2, <2>1, <2>2 DEF Ascending
    <2>3. CASE j = Len(s) + 1
      BY <1>1, <2>1, <2>3
    <2> QED BY <1>1, <2>2, <2>3
  <1> QED BY <1>2 DEF Ascending, u

\* The last frame of a queue takes a newer one in.
LEMMA MergedLast ==
    ASSUME NEW s \in Seq(Items), s # <<>>, Ascending(s), NEW n \in Nat,
           \A f \in FramesOf(s) : f < n,
           NEW u, u = [s EXCEPT ![Len(s)].frames = @ \cup {n}]
    PROVE  u \in Seq(Items) /\ FramesOf(u) = FramesOf(s) \cup {n} /\ Ascending(u)
  <1> DEFINE x == [s[Len(s)] EXCEPT !.frames = @ \cup {n}]
  <1>1. /\ Len(s) \in Nat \ {0} /\ DOMAIN s = 1 .. Len(s) /\ Len(s) \in DOMAIN s
        /\ s[Len(s)] \in Items
    OBVIOUS
  <1>2. x \in Items /\ x.frames = s[Len(s)].frames \cup {n}
    BY <1>1 DEF Items
  <1>3. u = [s EXCEPT ![Len(s)] = x]
    OBVIOUS
  <1> HIDE DEF x
  <1>4. /\ u \in Seq(Items) /\ DOMAIN u = DOMAIN s
        /\ u[Len(s)] = x
        /\ \A i \in DOMAIN s : i # Len(s) => u[i] = s[i]
    <2>1. Len(s) \in 1 .. Len(s)
      BY <1>1
    <2>2. /\ u \in Seq(Items) /\ Len(u) = Len(s)
          /\ \A i \in 1 .. Len(s) : u[i] = IF i = Len(s) THEN x ELSE s[i]
      <3>1. x \in Items /\ s \in Seq(Items)
        BY <1>2
      <3>2. /\ [s EXCEPT ![Len(s)] = x] \in Seq(Items)
            /\ Len([s EXCEPT ![Len(s)] = x]) = Len(s)
            /\ \A i \in 1 .. Len(s) :
                  [s EXCEPT ![Len(s)] = x][i] = IF i = Len(s) THEN x ELSE s[i]
        BY ONLY <2>1, <3>1, ExceptSeq
      <3> QED BY ONLY <1>3, <3>2
    <2>3. DOMAIN u = DOMAIN s
      BY <1>1, <2>2
    <2> QED BY ONLY <1>1, <2>1, <2>2, <2>3
  <1>5. \A f : f \in FramesOf(u) <=> f \in FramesOf(s) \cup {n}
    <2>1. ASSUME NEW f PROVE f \in FramesOf(u) => f \in FramesOf(s) \cup {n}
      <3>1. SUFFICES ASSUME NEW i \in DOMAIN u, f \in u[i].frames
                     PROVE  f \in FramesOf(s) \cup {n}
        BY FramesOfMember
      <3>2. f \in s[i].frames \/ f = n
        BY <1>2, <1>4, <3>1
      <3> QED BY <1>4, <3>2, FramesOfMember
    <2>2. ASSUME NEW f PROVE f \in FramesOf(s) => f \in FramesOf(u)
      <3>1. SUFFICES ASSUME NEW i \in DOMAIN s, f \in s[i].frames
                     PROVE  f \in FramesOf(u)
        BY FramesOfMember
      <3>2. f \in u[i].frames
        BY <1>2, <1>4, <3>1
      <3> QED BY <1>4, <3>2, FramesOfMember
    <2>3. n \in FramesOf(u)
      <3>1. n \in u[Len(s)].frames
        BY <1>2, <1>4
      <3> QED BY <1>1, <1>4, <3>1, FramesOfMember
    <2> QED BY <2>1, <2>2, <2>3
  <1>6. ASSUME NEW i \in DOMAIN u, NEW j \in DOMAIN u, i < j,
               NEW f \in u[i].frames, NEW g \in u[j].frames
        PROVE  f < g
    <2>1. i # Len(s) /\ f \in s[i].frames /\ f \in FramesOf(s)
      <3>1. i # Len(s)
        BY <1>1, <1>4, <1>6
      <3> QED BY <1>4, <3>1, FramesOfMember
    <2>2. CASE g \in s[j].frames
      BY <1>4, <1>6, <2>1, <2>2 DEF Ascending
    <2>3. CASE g = n
      BY <2>1, <2>3
    <2> QED BY <1>2, <1>4, <2>2, <2>3
  <1> QED BY <1>4, <1>5, <1>6 DEF Ascending

\* What the invariant says of the types, as the provers want it.
LEMMA Typing ==
    ASSUME IInv
    PROVE  /\ queue \in Seq(Items) /\ queue \in Seq(Lines)
           /\ held \in Seq(Items) /\ held \in Seq(Lines)
           /\ batch \in Seq(Lines) /\ out \in Seq(Lines)
           /\ sent \in Nat
           /\ FramesOf(queue) \subseteq Nat /\ FramesOf(batch) \subseteq Nat
           /\ FramesOf(held) \subseteq Nat /\ FramesOf(out) \subseteq Nat
           /\ superseded \subseteq 1 .. sent /\ lost \subseteq 1 .. sent
           /\ Gone \subseteq 1 .. sent
  <1>1. queue \in Seq(Items) /\ held \in Seq(Items) /\ sent \in Nat
    BY DEF IInv, TypeOK
  <1>2. batch \in Seq(Lines) /\ out \in Seq(Lines)
    BY DEF IInv, TypeOK, Lines
  <1>3. Items \subseteq Lines
    BY DEF Lines
  <1>4. queue \in Seq(Lines) /\ held \in Seq(Lines)
    BY <1>1, <1>3, SeqMonotonic
  <1>5. superseded \subseteq 1 .. sent /\ lost \subseteq 1 .. sent
    BY DEF IInv, TypeOK
  <1>6. Gone \subseteq 1 .. sent
    BY DEF IInv, Covered
  <1> QED BY <1>1, <1>2, <1>4, <1>5, <1>6, FramesOfType

\* What waits is disjoint from what does not.
LEMMA WaitingApart ==
    ASSUME IInv
    PROVE  /\ FramesOf(queue) \cap Gone = {} /\ FramesOf(batch) \cap Gone = {}
  BY Typing DEF IInv, NewerWait

LEMMA InitInv == Init => IInv
  <1> SUFFICES ASSUME Init PROVE IInv
    OBVIOUS
  <1> USE DEF Init
  <1>1. TypeOK
    BY DEF TypeOK, Senders
  <1>2. Shape
    BY DEF Shape
  <1>3. FramesOf(queue) = {} /\ FramesOf(batch) = {} /\ FramesOf(out) = {} /\ FramesOf(held) = {}
    BY FramesOfEmpty
  <1>4. NewerWait /\ Covered /\ Apart
    BY <1>3 DEF NewerWait, Covered, Apart, Ascending, Gone
  <1>5. Barrier /\ HeldOvertaken /\ OvertakenOnlyByControl
    BY DEF Barrier, HeldOvertaken, OvertakenOnlyByControl
  <1>6. Ending
    BY DEF Ending
  <1> QED BY <1>1, <1>2, <1>4, <1>5, <1>6 DEF IInv

-----------------------------------------------------------------------------
(* The sender: frames join the queue, a control event empties it. *)

\* What push_frame_event does to the frames: the new one joins the queue, and the
\* others stay in it or are superseded by it.
LEMMA Pushed ==
    ASSUME IInv, NEW kind \in FrameKinds, SendFrame(kind)
    PROVE  /\ queue' \in Seq(Items) /\ Ascending(queue')
           /\ superseded' \subseteq superseded \cup FramesOf(queue)
           /\ FramesOf(queue') \cup superseded' = FramesOf(queue) \cup superseded \cup {sent + 1}
           /\ \A f \in FramesOf(queue') :
                 f = sent + 1 \/ (f \in FramesOf(queue) /\ superseded' = superseded)
  <1> DEFINE n == sent + 1
  <1>1. /\ queue \in Seq(Items) /\ Ascending(queue) /\ n \in Nat
        /\ \A f \in FramesOf(queue) : f < n
    <2>1. FramesOf(queue) \subseteq 1 .. sent
      BY DEF IInv, Covered
    <2> QED BY <2>1, Typing DEF IInv, NewerWait
  <1>2. Item(kind) \in Items /\ Item(kind).frames = {n}
    BY Typing DEF Item, Items
  <1>3. CASE queue' = <<Item("frame")>> /\ superseded' = superseded \cup FramesOf(queue)
    <2>1. Item("frame") \in Items /\ Item("frame").frames = {n}
      BY Typing DEF Item, Items, FrameKinds
    <2>2. FramesOf(queue') = {n}
      BY <1>3, <2>1, FramesOfOne
    <2>3. queue' \in Seq(Items)
      BY <1>3, <2>1
    <2>4. Ascending(queue')
      BY <1>3 DEF Ascending
    <2> QED BY <1>3, <2>2, <2>3, <2>4
  <1>4. CASE queue' = Append(queue, Item(kind)) /\ superseded' = superseded
    <2>1. FramesOf(queue') = FramesOf(queue) \cup {n}
      BY <1>1, <1>2, <1>4, FramesOfAppend
    <2>2. Ascending(queue')
      BY <1>1, <1>2, <1>4, AscendingAppend
    <2>3. queue' \in Seq(Items)
      BY <1>1, <1>2, <1>4, AppendProperties
    <2> QED BY <1>4, <2>1, <2>2, <2>3
  <1>5. CASE /\ queue # <<>> /\ superseded' = superseded
             /\ queue' = [queue EXCEPT ![Len(queue)].frames = @ \cup {n}]
    <2>1. queue' \in Seq(Items) /\ FramesOf(queue') = FramesOf(queue) \cup {n} /\ Ascending(queue')
      BY <1>1, <1>5, MergedLast
    <2> QED BY <1>5, <2>1
  <1> QED BY <1>3, <1>4, <1>5 DEF SendFrame, PushBase, PushDirty

LEMMA SendFrameInv ==
    ASSUME IInv, NEW kind \in FrameKinds, SendFrame(kind)
    PROVE  IInv'
  <1> DEFINE n == sent + 1
  <1>1. /\ sender = "running" /\ batch = <<>> /\ sent' = n
        /\ UNCHANGED <<held, batch, sender, open, out, lost>>
        /\ controls' = controls
        /\ stdoutThread' \in {stdoutThread, "locking"}
        /\ stdoutThread' # stdoutThread => stdoutThread = "waiting"
    BY DEF SendFrame, IInv, Shape
  <1>2. /\ queue' \in Seq(Items) /\ Ascending(queue')
        /\ superseded' \subseteq superseded \cup FramesOf(queue)
        /\ FramesOf(queue') \cup superseded' = FramesOf(queue) \cup superseded \cup {n}
        /\ \A f \in FramesOf(queue') : f = n \/ (f \in FramesOf(queue) /\ superseded' = superseded)
    BY Pushed
  <1>3. /\ FramesOf(queue) \cup Gone \subseteq 1 .. sent /\ sent \in Nat
        /\ 1 .. n = 1 .. sent \cup {n}
        /\ FramesOf(batch) = {}
    BY <1>1, Typing, FramesOfEmpty DEF IInv, Covered
  <1>4. TypeOK'
    <2>1. n \in Nat
      BY <1>3
    <2>2. superseded' \subseteq 1 .. n /\ lost' \subseteq 1 .. n
      BY <1>1, <1>2, <1>3 DEF Gone
    <2> QED BY <1>1, <1>2, <2>1, <2>2 DEF IInv, TypeOK
  <1>5. Shape'
    BY <1>1 DEF IInv, Shape
  <1>6. Gone' = Gone \cup superseded' /\ Gone' \subseteq 1 .. sent
    BY <1>1, <1>2, <1>3 DEF Gone
  <1>7. ASSUME NEW f \in FramesOf(queue'), NEW g \in Gone' PROVE g < f
    <2>1. CASE f = n
      BY <1>3, <1>6, <2>1
    <2>2. CASE f \in FramesOf(queue) /\ superseded' = superseded
      BY <1>6, <2>2 DEF Gone, IInv, NewerWait
    <2> QED BY <1>2, <2>1, <2>2
  <1>8. NewerWait'
    BY <1>1, <1>2, <1>3, <1>7 DEF IInv, NewerWait
  <1>9. Covered'
    BY <1>1, <1>2, <1>3 DEF IInv, Covered, Gone
  <1>10. Apart'
    BY <1>1, <1>2, WaitingApart DEF IInv, Apart, Gone
  <1>11. Barrier'
    <2>1. \A k \in DOMAIN out : IsControl(out[k]) =>
             out[k].after \in Nat /\ out[k].after <= sent
               /\ \A f \in FramesOf(queue) : out[k].after < f
      BY Typing, LineShape DEF IInv, Barrier
    <2>2. \A k \in DOMAIN out : IsControl(out[k]) =>
             out[k].after <= n /\ \A f \in FramesOf(queue') : out[k].after < f
      BY <1>2, <1>3, <2>1
    <2> QED BY <1>1, <1>3, <2>2 DEF IInv, Barrier
  <1>12. HeldOvertaken' /\ OvertakenOnlyByControl' /\ Ending'
    BY <1>1 DEF IInv, HeldOvertaken, OvertakenOnlyByControl, Ending
  <1> QED BY <1>4, <1>5, <1>8, <1>9, <1>10, <1>11, <1>12 DEF IInv

LEMMA DrainInv ==
    ASSUME IInv, NEW kind \in {"control", "terminal"}, Drain(kind),
           sender \in {"running", "failing"},
           sender' \in {"writing", "closing"}, sender' = "closing" => kind = "terminal",
           controls' \in Nat, UNCHANGED <<threadVars, open, out, sent, superseded, lost>>
    PROVE  IInv'
  <1> DEFINE c == ControlOf(kind)
  <1> USE DEF threadVars
  <1>1. /\ c \in Controls /\ c \in Lines /\ c.frames = {} /\ IsControl(c)
        /\ c.after = sent /\ c.kind = kind
    BY Typing DEF ControlOf, Controls, Lines, IsControl
  <1>2. batch' = Append(queue, c) /\ queue' = <<>> /\ batch = <<>>
    BY DEF Drain, IInv, Shape
  <1>3. /\ FramesOf(batch') = FramesOf(queue)
        /\ FramesOf(queue') = {} /\ FramesOf(batch) = {}
    <2>1. queue \in Seq(Lines)
      BY Typing
    <2> HIDE DEF c
    <2>2. \A q \in Seq(Lines), x \in Lines :
             FramesOf(Append(q, x)) = FramesOf(q) \cup x.frames
      BY ONLY FramesOfAppend
    <2>3. FramesOf(Append(queue, c)) = FramesOf(queue) \cup c.frames
      BY ONLY <1>1, <2>1, <2>2
    <2>4. FramesOf(Append(queue, c)) = FramesOf(queue)
      BY ONLY <1>1, <2>3
    <2> QED BY ONLY <1>2, <2>4, FramesOfEmpty
  <1>4. /\ batch' \in Seq(Lines) /\ Len(batch') = Len(queue) + 1
        /\ batch' # <<>> /\ batch'[Len(batch')] = c
        /\ \A i \in DOMAIN batch' : i < Len(batch') => i \in DOMAIN queue /\ batch'[i] = queue[i]
    <2>1. Len(queue) \in Nat /\ DOMAIN queue = 1 .. Len(queue)
      BY Typing
    <2>2. /\ batch' \in Seq(Lines) /\ batch' # <<>> /\ Len(batch') = Len(queue) + 1
          /\ \A i \in 1 .. Len(queue) : batch'[i] = queue[i]
          /\ batch'[Len(queue) + 1] = c
      BY <1>1, <1>2, Typing, AppendProperties
    <2>3. DOMAIN batch' = 1 .. Len(batch')
      BY <2>2
    <2> QED BY <2>1, <2>2, <2>3
  <1>5. Ascending(batch') /\ Ascending(queue')
    <2>1. Ascending(batch')
      BY <1>1, <1>2, Typing, AscendingAppend DEF IInv, NewerWait
    <2> QED BY <1>2, <2>1 DEF Ascending
  <1>6. TypeOK'
    BY <1>2, <1>4 DEF IInv, TypeOK, Lines, Senders
  <1>7. Shape'
    <2>1. \A i \in DOMAIN batch' : i < Len(batch') => ~IsControl(batch'[i])
      <3>1. \A i \in DOMAIN queue : queue[i] \in Items
        BY Typing
      <3> QED BY <1>4, <3>1, LineShape DEF Lines
    <2>2. sender' = "closing" => batch'[Len(batch')].kind = "terminal"
      BY <1>1, <1>4
    <2>3. stdoutThread' = "writing" <=> held' # <<>>
      BY DEF IInv, Shape
    <2> QED BY <1>1, <1>2, <1>4, <2>1, <2>2, <2>3 DEF Shape
  <1>8. NewerWait' /\ Covered' /\ Apart'
    BY <1>3, <1>5 DEF IInv, NewerWait, Covered, Apart, Gone
  <1>9. Barrier' /\ HeldOvertaken' /\ OvertakenOnlyByControl'
    BY <1>3 DEF IInv, Barrier, HeldOvertaken, OvertakenOnlyByControl
  <1>10. Ending'
    BY DEF IInv, Ending
  <1> QED BY <1>6, <1>7, <1>8, <1>9, <1>10 DEF IInv

LEMMA SendControlInv == IInv /\ SendControl => IInv'
  <1> SUFFICES ASSUME IInv, SendControl PROVE IInv'
    OBVIOUS
  <1>1. controls' \in Nat
    BY DEF SendControl, IInv, TypeOK
  <1> QED BY <1>1, DrainInv DEF SendControl

LEMMA SendTerminalInv == IInv /\ SendTerminal => IInv'
  <1> SUFFICES ASSUME IInv, SendTerminal PROVE IInv'
    OBVIOUS
  <1>1. controls' \in Nat
    BY DEF SendTerminal, sentVars, IInv, TypeOK
  <1> QED BY <1>1, DrainInv DEF SendTerminal, sentVars

\* The places in a longer output: u is s and then t.
Joined(s, t, u) ==
    /\ u \in Seq(Lines) /\ Len(s) \in Nat /\ Len(t) \in Nat /\ Len(u) = Len(s) + Len(t)
    /\ DOMAIN s = 1 .. Len(s) /\ DOMAIN t = 1 .. Len(t) /\ DOMAIN u = 1 .. Len(u)
    /\ \A i \in DOMAIN s : i \in DOMAIN u /\ u[i] = s[i] /\ i <= Len(s)
    /\ \A i \in DOMAIN u : i > Len(s) => i - Len(s) \in DOMAIN t /\ u[i] = t[i - Len(s)]
    /\ \A i \in DOMAIN u : i <= Len(s) => i \in DOMAIN s
    /\ FramesOf(u) = FramesOf(s) \cup FramesOf(t)

LEMMA Longer ==
    ASSUME NEW s \in Seq(Lines), NEW t \in Seq(Lines)
    PROVE  Joined(s, t, s \o t)
  <1> DEFINE u == s \o t
  <1>1. /\ u \in Seq(Lines) /\ Len(s) \in Nat /\ Len(t) \in Nat /\ Len(u) = Len(s) + Len(t)
        /\ \A i \in 1 .. Len(s) + Len(t) : u[i] = IF i <= Len(s) THEN s[i] ELSE t[i - Len(s)]
    BY ConcatProperties
  <1>2. DOMAIN s = 1 .. Len(s) /\ DOMAIN t = 1 .. Len(t) /\ DOMAIN u = 1 .. Len(u)
    BY <1>1
  <1>3. FramesOf(u) = FramesOf(s) \cup FramesOf(t)
    BY FramesOfConcat
  <1> HIDE DEF u
  <1>4. \A i \in DOMAIN s : i \in DOMAIN u /\ u[i] = s[i] /\ i <= Len(s)
    BY ONLY <1>1, <1>2
  <1>5. \A i \in DOMAIN u : i > Len(s) => i - Len(s) \in DOMAIN t /\ u[i] = t[i - Len(s)]
    BY ONLY <1>1, <1>2
  <1>6. \A i \in DOMAIN u : i <= Len(s) => i \in DOMAIN s
    BY ONLY <1>1, <1>2
  <1>7. Joined(s, t, u)
    BY ONLY <1>1, <1>2, <1>3, <1>4, <1>5, <1>6 DEF Joined
  <1> QED BY <1>7 DEF u

LEMMA WriteBatchInv == IInv /\ WriteBatch => IInv'
  <1> SUFFICES ASSUME IInv, WriteBatch PROVE IInv'
    OBVIOUS
  <1> USE DEF threadVars, sentVars
  <1>1. /\ sender \in {"writing", "closing"} /\ batch' = <<>>
        /\ UNCHANGED <<queue, stdoutThread, held, open, sent, controls, superseded>>
        /\ queue = <<>> /\ queue' = <<>>
    BY DEF WriteBatch, IInv, Shape
  <1>2. FramesOf(queue') = {} /\ FramesOf(batch') = {} /\ FramesOf(queue) = {}
    BY <1>1, FramesOfEmpty
  <1>3. Ascending(queue') /\ Ascending(batch')
    BY <1>1 DEF Ascending
  <1>4. /\ FramesOf(batch) \subseteq 1 .. sent /\ FramesOf(batch) \cap Gone = {}
        /\ 1 .. sent = FramesOf(batch) \cup Gone
    BY <1>2, WaitingApart DEF IInv, Covered
  <1>5. Shape'
    BY <1>1 DEF WriteBatch, IInv, Shape
  <1>6. CASE open
    <2>1. /\ out' = out \o batch /\ lost' = lost
          /\ sender' = IF sender = "writing" THEN "running" ELSE "ended"
      BY <1>6 DEF WriteBatch
    <2> DEFINE n == Len(out')
    <2>2. /\ out' \in Seq(Lines) /\ Len(out) \in Nat /\ Len(batch) \in Nat
          /\ n = Len(out) + Len(batch)
          /\ DOMAIN out = 1 .. Len(out) /\ DOMAIN batch = 1 .. Len(batch) /\ DOMAIN out' = 1 .. n
          /\ \A i \in DOMAIN out : i \in DOMAIN out' /\ out'[i] = out[i] /\ i <= Len(out)
          /\ \A i \in DOMAIN out' : i > Len(out) =>
                i - Len(out) \in DOMAIN batch /\ out'[i] = batch[i - Len(out)]
          /\ \A i \in DOMAIN out' : i <= Len(out) => i \in DOMAIN out
          /\ FramesOf(out') = FramesOf(out) \cup FramesOf(batch)
      <3>1. Joined(out, batch, out')
        BY <2>1, Typing, Longer
      <3> QED BY ONLY <3>1 DEF Joined
    <2>3. /\ n \in DOMAIN out' /\ n \in Nat /\ n > Len(out) /\ out'[n] = batch[Len(batch)]
          /\ IsControl(out'[n]) /\ out'[n].after = sent
          /\ sender = "closing" => out'[n].kind = "terminal"
          /\ \A i \in DOMAIN out' : i > Len(out) /\ i # n => ~IsControl(out'[i])
      <3>1. /\ batch # <<>> /\ IsControl(batch[Len(batch)]) /\ batch[Len(batch)].after = sent
            /\ sender = "closing" => batch[Len(batch)].kind = "terminal"
            /\ \A i \in DOMAIN batch : i < Len(batch) => ~IsControl(batch[i])
        BY <1>1 DEF IInv, Shape
      <3>2. Len(batch) # 0
        BY <3>1, Typing
      <3>3. n \in DOMAIN out' /\ n \in Nat /\ n > Len(out) /\ n - Len(out) = Len(batch)
        BY ONLY <2>2, <3>2
      <3>4. \A i \in DOMAIN out' : i > Len(out) /\ i # n => i - Len(out) < Len(batch)
        <4>1. Len(out) \in Nat /\ Len(batch) \in Nat /\ n = Len(out) + Len(batch)
              /\ DOMAIN out' = 1 .. n
          BY ONLY <2>2
        <4>2. \A i \in 1 .. n : i > Len(out) /\ i # n => i - Len(out) < Len(batch)
          BY ONLY <4>1
        <4> QED BY ONLY <4>1, <4>2
      <3>5. out'[n] = batch[Len(batch)]
        BY ONLY <2>2, <3>3
      <3>6. \A i \in DOMAIN out' : i > Len(out) /\ i # n => ~IsControl(out'[i])
        BY ONLY <2>2, <3>1, <3>4
      <3> QED BY ONLY <3>1, <3>3, <3>5, <3>6
    <2>4. \A i \in DOMAIN out' : i <= n
      BY <2>2, <2>3
    <2>5. out'[n].frames = {}
      <3>1. out'[n] \in Lines
        BY <2>2, <2>3
      <3> QED BY <2>3, <3>1, LineShape
    <2>6. Gone' = Gone \cup FramesOf(batch)
      BY <1>1, <2>1, <2>2 DEF Gone
    <2>7. \A i \in DOMAIN out', f \in Nat : f \in out'[i].frames =>
             IF i > Len(out) THEN f \in FramesOf(batch) ELSE f \in FramesOf(out)
      BY <2>2, FramesOfMember
    <2>8. TypeOK'
      <3>1. out' \in Seq(Items \cup Controls)
        BY <2>2 DEF Lines
      <3> QED BY <1>1, <2>1, <3>1 DEF IInv, TypeOK, Senders
    <2>9. NewerWait'
      BY <1>2, <1>3 DEF NewerWait
    <2>10. Covered'
      BY <1>1, <1>2, <1>4, <2>6 DEF Covered
    <2>11. ASSUME NEW i \in DOMAIN out', NEW j \in DOMAIN out', i < j,
                  NEW f \in out'[i].frames, NEW g \in out'[j].frames, j > Len(out)
           PROVE  f < g
      <3>1. g \in batch[j - Len(out)].frames /\ j - Len(out) \in DOMAIN batch
        BY <2>2, <2>11
      <3>2. g \in FramesOf(batch)
        BY <3>1, FramesOfMember
      <3>3. CASE i > Len(out)
        <4>1. f \in batch[i - Len(out)].frames /\ i - Len(out) \in DOMAIN batch
          BY <2>2, <2>11, <3>3
        <4>2. i - Len(out) < j - Len(out)
          BY <2>2, <2>11
        <4>3. Ascending(batch)
          BY DEF IInv, NewerWait
        <4> QED BY ONLY <3>1, <4>1, <4>2, <4>3 DEF Ascending
      <3>4. CASE i <= Len(out)
        <4>1. i \in DOMAIN out /\ f \in out[i].frames
          BY <2>2, <2>11, <3>4
        <4>2. f \in Gone
          BY <4>1, FramesOfMember DEF Gone
        <4> QED BY <3>2, <4>2 DEF IInv, NewerWait
      <3> QED BY <2>2, <3>3, <3>4
    <2>12. Apart'
      <3>1. ASSUME NEW i \in DOMAIN out', NEW j \in DOMAIN out', i < j,
                   NEW f \in out'[i].frames, f \in out'[j].frames
            PROVE  FALSE
        <4>1. CASE j > Len(out)
          <5>1. f < f
            BY <2>11, <3>1, <4>1
          <5>2. f \in Nat
            <6>1. out'[i] \in Lines
              BY <2>2
            <6> QED BY <3>1, <6>1, LineShape
          <5> QED BY <5>1, <5>2
        <4>2. CASE j <= Len(out)
          <5>1. i \in DOMAIN out /\ j \in DOMAIN out /\ i # j
            BY <2>2, <3>1, <4>2
          <5> QED BY <2>2, <3>1, <5>1 DEF IInv, Apart
        <4> QED BY <2>2, <4>1, <4>2
      <3>2. \A i, j \in DOMAIN out' : i # j => i < j \/ j < i
        BY <2>2
      <3>3. \A i, j \in DOMAIN out' : i # j => out'[i].frames \cap out'[j].frames = {}
        BY <3>1, <3>2
      <3>4. /\ FramesOf(out') \cap FramesOf(held) = {} /\ FramesOf(out') \cap superseded = {}
            /\ FramesOf(out') \cap lost = {}
        BY <1>4, <2>2 DEF IInv, Apart, Gone
      <3> QED BY <1>1, <2>1, <3>3, <3>4 DEF IInv, Apart
    <2>13. Barrier'
      <3>1. SUFFICES ASSUME NEW k \in DOMAIN out', IsControl(out'[k])
                     PROVE  /\ out'[k].after <= sent
                            /\ \A i, j \in DOMAIN out' :
                                  i > k /\ j > k /\ Older(out'[i], out'[k].after)
                                    /\ Older(out'[j], out'[k].after) => i = j
                            /\ \A h \in DOMAIN held : Older(held[h], out'[k].after) =>
                                  \A i \in DOMAIN out' : i > k => ~Older(out'[i], out'[k].after)
        BY <1>1, <1>2 DEF Barrier
      <3>2. CASE k > Len(out)
        <4>1. k = n
          BY <2>3, <3>1, <3>2
        <4>2. \A i \in DOMAIN out' : ~(i > k)
          BY <2>2, <2>4, <4>1
        <4>3. out'[k].after = sent
          BY <2>3, <4>1
        <4> QED BY <4>2, <4>3, Typing
      <3>3. CASE k <= Len(out)
        <4>1. k \in DOMAIN out /\ out'[k] = out[k] /\ IsControl(out[k]) /\ out[k].after \in Nat
          <5>1. k \in DOMAIN out /\ out'[k] = out[k]
            BY <2>2, <3>3
          <5> QED BY <3>1, <5>1, LineShape, Typing
        <4>2. \A i \in DOMAIN out' : i > Len(out) => ~Older(out'[i], out'[k].after)
          <5>1. SUFFICES ASSUME NEW i \in DOMAIN out', i > Len(out),
                                NEW f \in out'[i].frames, f <= out[k].after
                         PROVE  FALSE
            BY <4>1 DEF Older
          <5>2. f \in FramesOf(batch)
            BY <2>2, <5>1, FramesOfMember
          <5>3. out[k].after < f /\ f \in Nat
            BY <4>1, <5>2, Typing DEF IInv, Barrier
          <5> QED BY <4>1, <5>1, <5>3
        <4>3. \A i \in DOMAIN out' : Older(out'[i], out'[k].after) =>
                 i \in DOMAIN out /\ Older(out[i], out[k].after)
          BY <2>2, <4>1, <4>2
        <4>4. out[k].after <= sent
          BY <4>1 DEF IInv, Barrier
        <4>5. \A i, j \in DOMAIN out :
                 i > k /\ j > k /\ Older(out[i], out[k].after) /\ Older(out[j], out[k].after)
                   => i = j
          BY <4>1 DEF IInv, Barrier
        <4>6. \A h \in DOMAIN held : Older(held[h], out[k].after) =>
                 \A i \in DOMAIN out : i > k => ~Older(out[i], out[k].after)
          BY <4>1 DEF IInv, Barrier
        <4> QED BY ONLY <4>1, <4>3, <4>4, <4>5, <4>6
      <3> QED BY <2>2, <3>2, <3>3
    <2>14. HeldOvertaken'
      <3>1. ASSUME NEW i \in DOMAIN out', NEW f \in out'[i].frames PROVE n > i
        <4>1. i # n
          BY <2>5, <3>1
        <4> QED BY <2>2, <2>4, <4>1
      <3> QED BY <2>3, <3>1 DEF HeldOvertaken
    <2>15. OvertakenOnlyByControl'
      <3>1. SUFFICES ASSUME NEW i \in DOMAIN out', NEW j \in DOMAIN out', i < j,
                            NEW f \in out'[i].frames, NEW g \in out'[j].frames, g <= f
                     PROVE  \E k \in i + 1 .. j - 1 : IsControl(out'[k])
        BY DEF OvertakenOnlyByControl, Older
      <3>2. out'[i] \in Lines /\ out'[j] \in Lines
        BY <2>2
      <3>3. f \in Nat /\ g \in Nat
        BY <3>1, <3>2, LineShape
      <3>4. j <= Len(out)
        BY <2>2, <2>11, <3>1, <3>3
      <3>5. i \in DOMAIN out /\ j \in DOMAIN out
        BY <2>2, <3>1, <3>4
      <3>6. f \in out[i].frames /\ Older(out[j], f)
        BY <2>2, <3>1, <3>5 DEF Older
      <3>7. PICK k \in i + 1 .. j - 1 : IsControl(out[k])
        BY <3>1, <3>5, <3>6 DEF IInv, OvertakenOnlyByControl
      <3>8. k \in DOMAIN out
        BY <2>2, <3>5, <3>7
      <3> QED BY <2>2, <3>7, <3>8
    <2>16. Ending'
      <3>1. sender' \in {"ended", "exited"} => out'[n].kind = "terminal"
        BY <1>1, <2>1, <2>3
      <3> QED BY <1>1, <2>1, <2>3, <3>1 DEF IInv, Ending
    <2> QED BY <1>5, <2>8, <2>9, <2>10, <2>12, <2>13, <2>14, <2>15, <2>16 DEF IInv
  <1>7. CASE ~open
    <2>1. /\ out' = out /\ lost' = lost \cup FramesOf(batch)
          /\ sender' = IF sender = "writing" THEN "failing" ELSE "ended"
      BY <1>7 DEF WriteBatch
    <2>2. Gone' = Gone \cup FramesOf(batch)
      BY <1>1, <2>1 DEF Gone
    <2>3. TypeOK'
      <3>1. lost' \subseteq 1 .. sent
        BY <1>4, <2>1, Typing
      <3> QED BY <1>1, <2>1, <3>1 DEF IInv, TypeOK, Senders
    <2>4. NewerWait'
      BY <1>2, <1>3 DEF NewerWait
    <2>5. Covered'
      BY <1>1, <1>2, <1>4, <2>2 DEF Covered
    <2>6. Apart'
      BY <1>1, <1>4, <2>1 DEF IInv, Apart, Gone
    <2>7. Barrier'
      BY <1>1, <1>2, <2>1 DEF IInv, Barrier
    <2>8. HeldOvertaken' /\ OvertakenOnlyByControl' /\ Ending'
      BY <1>1, <1>7, <2>1 DEF IInv, HeldOvertaken, OvertakenOnlyByControl, Ending
    <2> QED BY <1>5, <2>3, <2>4, <2>5, <2>6, <2>7, <2>8 DEF IInv
  <1> QED BY <1>6, <1>7

-----------------------------------------------------------------------------
(* The stdout thread: it takes the oldest line, and writes it behind whatever *)
(* the sender has written in the meantime. *)

LEMMA HeldOne ==
    ASSUME IInv, held # <<>>
    PROVE  /\ held = <<held[1]>> /\ held[1] \in Items /\ DOMAIN held = {1}
           /\ FramesOf(held) = held[1].frames
  <1>1. held \in Seq(Items) /\ Len(held) = 1
    <2>1. held \in Seq(Items) /\ Len(held) <= 1
      BY DEF IInv, TypeOK
    <2>2. Len(held) \in Nat /\ Len(held) # 0
      BY ONLY <2>1, held # <<>>
    <2>3. \A x \in Nat : x <= 1 /\ x # 0 => x = 1
      OBVIOUS
    <2> QED BY ONLY <2>1, <2>2, <2>3
  <1>2. held = <<held[1]>> /\ held[1] \in Items /\ DOMAIN held = {1}
    BY <1>1
  <1> QED BY <1>2, FramesOfOne

LEMMA TakeInv == IInv /\ Take => IInv'
  <1> SUFFICES ASSUME IInv, Take PROVE IInv'
    OBVIOUS
  <1> USE DEF sentVars
  <1> DEFINE h == Head(queue)
  <1>1. /\ queue # <<>> /\ held' = <<h>> /\ queue' = Tail(queue) /\ stdoutThread' = "writing"
        /\ held = <<>> /\ batch = <<>> /\ sender = "running"
        /\ UNCHANGED <<batch, sender, open, out, sent, controls, superseded, lost>>
    BY DEF Take, IInv, Shape
  <1>2. /\ h \in Items /\ queue' \in Seq(Items) /\ held' \in Seq(Items) /\ Len(held') = 1
        /\ DOMAIN held' = {1} /\ held'[1] = h
    BY <1>1, Typing
  <1>3. /\ FramesOf(queue) = h.frames \cup FramesOf(queue')
        /\ Ascending(queue')
        /\ \A f \in h.frames, g \in FramesOf(queue') : f < g
    BY <1>1, Typing, FramesOfTail DEF IInv, NewerWait
  <1>4. FramesOf(held') = h.frames /\ FramesOf(held) = {} /\ FramesOf(batch) = {}
    BY <1>1, FramesOfOne, FramesOfEmpty
  <1>5. Gone' = Gone \cup h.frames
    BY <1>1, <1>4 DEF Gone
  <1>6. TypeOK'
    BY <1>1, <1>2 DEF IInv, TypeOK
  <1>7. Shape'
    BY <1>1 DEF IInv, Shape
  <1>8. NewerWait'
    BY <1>1, <1>3, <1>4, <1>5 DEF IInv, NewerWait
  <1>9. Covered'
    BY <1>1, <1>3, <1>4, <1>5 DEF IInv, Covered
  <1>10. Apart'
    BY <1>1, <1>3, <1>4, WaitingApart DEF IInv, Apart, Gone
  <1>11. Barrier'
    <2>1. \A k \in DOMAIN out : IsControl(out[k]) => ~Older(h, out[k].after)
      <3>1. SUFFICES ASSUME NEW k \in DOMAIN out, IsControl(out[k]),
                            NEW f \in h.frames, f <= out[k].after
                     PROVE  FALSE
        BY DEF Older
      <3>2. out[k].after < f
        BY <1>3, <3>1 DEF IInv, Barrier
      <3>3. out[k].after \in Nat /\ f \in Nat
        BY <1>3, <3>1, LineShape, Typing
      <3> QED BY <3>1, <3>2, <3>3
    <2>2. \A k \in DOMAIN out : IsControl(out[k]) =>
             \A f \in FramesOf(queue') \cup FramesOf(batch') : out[k].after < f
      BY <1>1, <1>3 DEF IInv, Barrier
    <2> QED BY <1>1, <1>2, <2>1, <2>2 DEF IInv, Barrier
  <1>12. HeldOvertaken'
    <2>1. SUFFICES ASSUME NEW i \in DOMAIN out, NEW f \in out[i].frames,
                          NEW g \in h.frames, g <= f
                   PROVE  FALSE
      BY <1>1, <1>2 DEF HeldOvertaken, Older
    <2>2. f \in Gone /\ g \in FramesOf(queue)
      BY <1>3, FramesOfMember DEF Gone
    <2>3. f < g
      BY <2>2 DEF IInv, NewerWait
    <2>4. f \in Nat /\ g \in Nat
      BY <2>2, Typing
    <2> QED BY <2>1, <2>3, <2>4
  <1>13. OvertakenOnlyByControl' /\ Ending'
    BY <1>1 DEF IInv, OvertakenOnlyByControl, Ending
  <1> QED BY <1>6, <1>7, <1>8, <1>9, <1>10, <1>11, <1>12, <1>13 DEF IInv

LEMMA WriteHeldInv == IInv /\ WriteHeld => IInv'
  <1> SUFFICES ASSUME IInv, WriteHeld PROVE IInv'
    OBVIOUS
  <1> USE DEF sentVars
  <1> DEFINE h == held[1]
  <1>1. /\ held' = <<>> /\ stdoutThread = "writing" /\ held # <<>>
        /\ UNCHANGED <<queue, batch, sender, open, sent, controls, superseded>>
    BY DEF WriteHeld, IInv, Shape
  <1>2. /\ held = <<h>> /\ h \in Items /\ h \in Lines /\ ~IsControl(h)
        /\ DOMAIN held = {1} /\ FramesOf(held) = h.frames
    <2>1. /\ held = <<h>> /\ h \in Items /\ DOMAIN held = {1} /\ FramesOf(held) = h.frames
      BY <1>1, HeldOne
    <2>2. h \in Lines
      BY <2>1 DEF Lines
    <2> QED BY ONLY <2>1, <2>2, LineShape
  <1>3. FramesOf(held') = {} /\ DOMAIN held' = {}
    BY <1>1, FramesOfEmpty
  <1>4. HeldOvertaken'
    BY <1>3 DEF HeldOvertaken
  <1>5. CASE open
    <2> DEFINE n == Len(out')
    <2>1. out' = out \o held /\ stdoutThread' = "locking" /\ lost' = lost
      BY <1>5 DEF WriteHeld
    <2>2. Joined(out, held, out')
      BY <2>1, Typing, Longer
    <2>3. /\ out' \in Seq(Lines) /\ Len(out) \in Nat /\ n = Len(out) + 1
          /\ DOMAIN out = 1 .. Len(out) /\ DOMAIN out' = 1 .. n
          /\ \A i \in DOMAIN out : i \in DOMAIN out' /\ out'[i] = out[i] /\ i # n /\ i < n
          /\ \A i \in DOMAIN out' : i # n => i \in DOMAIN out
          /\ n \in DOMAIN out' /\ out'[n] = h
          /\ FramesOf(out') = FramesOf(out) \cup h.frames
      <3>1. Len(held) = 1
        BY <1>2
      <3>2. /\ out' \in Seq(Lines) /\ Len(out) \in Nat /\ n = Len(out) + 1
            /\ DOMAIN out = 1 .. Len(out) /\ DOMAIN out' = 1 .. n
            /\ \A i \in DOMAIN out : i \in DOMAIN out' /\ out'[i] = out[i]
            /\ FramesOf(out') = FramesOf(out) \cup h.frames
        BY ONLY <1>2, <2>2, <3>1 DEF Joined
      <3>3. /\ \A i \in 1 .. Len(out) : i # n /\ i < n
            /\ \A i \in 1 .. n : i # n => i \in 1 .. Len(out)
            /\ n \in 1 .. n /\ n > Len(out) /\ n - Len(out) = 1
        BY ONLY <3>2
      <3>4. out'[n] = h
        BY ONLY <2>2, <3>2, <3>3 DEF Joined
      <3> QED BY ONLY <3>2, <3>3, <3>4
    <2>4. Gone' = Gone
      BY <1>1, <1>2, <1>3, <2>1, <2>3 DEF Gone
    <2>5. TypeOK'
      BY <1>1, <2>1, <2>3 DEF IInv, TypeOK, Lines
    <2>6. Shape'
      BY <1>1, <2>1 DEF IInv, Shape
    <2>7. NewerWait' /\ Covered'
      BY <1>1, <2>4 DEF IInv, NewerWait, Covered
    <2>8. Apart'
      <3>1. \A i \in DOMAIN out : out[i].frames \cap h.frames = {}
        <4>1. \A i \in DOMAIN out : out[i].frames \subseteq FramesOf(out)
          BY FramesOfMember
        <4> QED BY <1>2, <4>1 DEF IInv, Apart
      <3>2. \A i, j \in DOMAIN out' : i # j => out'[i].frames \cap out'[j].frames = {}
        BY <2>3, <3>1 DEF IInv, Apart
      <3>3. /\ FramesOf(out') \cap FramesOf(held') = {} /\ FramesOf(out') \cap superseded' = {}
            /\ FramesOf(out') \cap lost' = {} /\ FramesOf(held') \cap superseded' = {}
            /\ FramesOf(held') \cap lost' = {} /\ superseded' \cap lost' = {}
        BY <1>1, <1>2, <1>3, <2>1, <2>3 DEF IInv, Apart
      <3> QED BY ONLY <3>2, <3>3 DEF Apart
    <2>9. Barrier'
      <3>1. SUFFICES ASSUME NEW k \in DOMAIN out', IsControl(out'[k])
                     PROVE  /\ out'[k].after <= sent
                            /\ \A f \in FramesOf(queue) \cup FramesOf(batch) : out'[k].after < f
                            /\ \A i, j \in DOMAIN out' :
                                  i > k /\ j > k /\ Older(out'[i], out'[k].after)
                                    /\ Older(out'[j], out'[k].after) => i = j
        BY <1>1, <1>3 DEF Barrier
      <3>2. k \in DOMAIN out /\ out'[k] = out[k] /\ IsControl(out[k])
        BY <1>2, <2>3, <3>1
      <3>3. /\ out[k].after <= sent
            /\ \A f \in FramesOf(queue) \cup FramesOf(batch) : out[k].after < f
            /\ \A i, j \in DOMAIN out :
                  i > k /\ j > k /\ Older(out[i], out[k].after) /\ Older(out[j], out[k].after)
                    => i = j
            /\ Older(h, out[k].after) => \A i \in DOMAIN out : i > k => ~Older(out[i], out[k].after)
        BY <1>2, <3>2 DEF IInv, Barrier
      <3>4. ASSUME NEW i \in DOMAIN out', NEW j \in DOMAIN out', i > k, j > k,
                   Older(out'[i], out'[k].after), Older(out'[j], out'[k].after)
            PROVE  i = j
        BY ONLY <2>3, <3>2, <3>3, <3>4
      <3> QED BY ONLY <3>2, <3>3, <3>4
    <2>10. OvertakenOnlyByControl'
      <3>1. SUFFICES ASSUME NEW i \in DOMAIN out', NEW j \in DOMAIN out', i < j,
                            NEW f \in out'[i].frames, Older(out'[j], f)
                     PROVE  \E k \in i + 1 .. j - 1 : IsControl(out'[k])
        BY DEF OvertakenOnlyByControl
      <3>2. i \in DOMAIN out /\ out'[i] = out[i]
        BY ONLY <2>3, <3>1
      <3>3. CASE j # n
        <4>1. j \in DOMAIN out /\ out'[j] = out[j]
          BY ONLY <2>3, <3>3
        <4>2. PICK k \in i + 1 .. j - 1 : IsControl(out[k])
          BY <3>1, <3>2, <4>1 DEF IInv, OvertakenOnlyByControl
        <4>3. k \in DOMAIN out
          BY <2>3, <3>2, <4>1, <4>2
        <4> QED BY <2>3, <4>2, <4>3
      <3>4. CASE j = n
        <4>1. Older(held[1], f) /\ 1 \in DOMAIN held
          BY <1>2, <2>3, <3>1, <3>4
        <4>2. PICK k \in DOMAIN out : k > i /\ IsControl(out[k])
          BY <3>1, <3>2, <4>1 DEF IInv, HeldOvertaken
        <4>3. k \in i + 1 .. j - 1
          BY ONLY <2>3, <3>2, <3>4, <4>2
        <4> QED BY <2>3, <4>2, <4>3
      <3> QED BY <3>3, <3>4
    <2>11. Ending'
      <3>1. (\E k \in DOMAIN out : out[k].kind = "terminal") =>
               \E k \in DOMAIN out' : out'[k].kind = "terminal"
        BY <2>3
      <3> QED BY <1>1, <2>1, <3>1 DEF IInv, Ending
    <2> QED BY <1>4, <2>5, <2>6, <2>7, <2>8, <2>9, <2>10, <2>11 DEF IInv
  <1>6. CASE ~open
    <2>1. out' = out /\ stdoutThread' = "ended" /\ lost' = lost \cup h.frames
      BY <1>2, <1>6 DEF WriteHeld
    <2>2. Gone' = Gone
      BY <1>1, <1>2, <1>3, <2>1 DEF Gone
    <2>3. TypeOK'
      <3>1. lost' \subseteq 1 .. sent
        BY <1>2, <2>1, Typing DEF Gone
      <3> QED BY <1>1, <2>1, <3>1 DEF IInv, TypeOK
    <2>4. Shape'
      BY <1>1, <2>1 DEF IInv, Shape
    <2>5. NewerWait' /\ Covered'
      BY <1>1, <2>2 DEF IInv, NewerWait, Covered
    <2>6. Apart'
      BY <1>1, <1>2, <1>3, <2>1 DEF IInv, Apart
    <2>7. Barrier'
      BY <1>1, <1>3, <2>1 DEF IInv, Barrier
    <2>8. OvertakenOnlyByControl' /\ Ending'
      BY <1>1, <1>6, <2>1 DEF IInv, OvertakenOnlyByControl, Ending
    <2> QED BY <1>4, <2>3, <2>4, <2>5, <2>6, <2>7, <2>8 DEF IInv
  <1> QED BY <1>5, <1>6

\* Waiting, waking, the host's end and the exit move no frame.
LEMMA OtherInv == IInv /\ (Wait \/ WakeSpuriously \/ HostCloses \/ Exit \/ UNCHANGED vars) => IInv'
  <1> SUFFICES ASSUME IInv, Wait \/ WakeSpuriously \/ HostCloses \/ Exit \/ UNCHANGED vars
               PROVE  IInv'
    OBVIOUS
  <1>1. /\ UNCHANGED <<queue, held, batch, out, sent, controls, superseded, lost>>
        /\ stdoutThread' \in {"locking", "waiting", stdoutThread}
        /\ stdoutThread' # stdoutThread => stdoutThread \in {"locking", "waiting"}
        /\ open' = open \/ (open /\ ~open')
        /\ open' \in BOOLEAN
        /\ sender' = sender \/ (sender = "ended" /\ sender' = "exited")
    BY DEF Wait, WakeSpuriously, HostCloses, Exit, vars, threadVars, sentVars, IInv, TypeOK
  <1>2. TypeOK'
    BY <1>1 DEF IInv, TypeOK, Senders
  <1>3. Shape'
    BY <1>1 DEF IInv, Shape
  <1>4. NewerWait' /\ Covered' /\ Apart'
    BY <1>1 DEF IInv, NewerWait, Covered, Apart, Gone
  <1>5. Barrier' /\ HeldOvertaken' /\ OvertakenOnlyByControl'
    BY <1>1 DEF IInv, Barrier, HeldOvertaken, OvertakenOnlyByControl
  <1>6. Ending'
    BY <1>1 DEF IInv, Ending
  <1> QED BY <1>2, <1>3, <1>4, <1>5, <1>6 DEF IInv

LEMMA InvStep == IInv /\ [Next]_vars => IInv'
  <1> SUFFICES ASSUME IInv, [Next]_vars PROVE IInv'
    OBVIOUS
  <1>1. CASE \E kind \in FrameKinds : SendFrame(kind)
    BY <1>1, SendFrameInv
  <1>2. CASE SendControl
    BY <1>2, SendControlInv
  <1>3. CASE SendTerminal
    BY <1>3, SendTerminalInv
  <1>4. CASE WriteBatch
    BY <1>4, WriteBatchInv
  <1>5. CASE Take
    BY <1>5, TakeInv
  <1>6. CASE WriteHeld
    BY <1>6, WriteHeldInv
  <1>7. CASE Wait \/ WakeSpuriously \/ HostCloses \/ Exit \/ UNCHANGED vars
    BY <1>7, OtherInv
  <1> QED BY <1>1, <1>2, <1>3, <1>4, <1>5, <1>6, <1>7 DEF Next, Send, StdoutStep

\* The two threads keep the invariant, whatever the locks let happen between the
\* critical sections of send and of the stdout thread.
THEOREM Invariance == Spec => []IInv
  BY InitInv, InvStep, PTL DEF Spec

-----------------------------------------------------------------------------
(* Counting the places of a frame. *)

\* A set whose members are all equal counts one, or none.
LEMMA CountsOne ==
    ASSUME NEW S, \A x, y \in S : x = y
    PROVE  /\ IsFiniteSet(S) /\ Cardinality(S) \in {0, 1}
           /\ Cardinality(S) = IF S = {} THEN 0 ELSE 1
  <1>1. CASE S = {}
    BY <1>1, FS_EmptySet
  <1>2. CASE S # {}
    <2>1. PICK x : x \in S
      BY <1>2
    <2>2. S = {x}
      BY <2>1
    <2> QED BY <1>2, <2>2, FS_Singleton
  <1> QED BY <1>1, <1>2

\* A frame that is in one line of a sequence at most counts one if it is there.
LEMMA InLines ==
    ASSUME NEW s, NEW n,
           \A i, j \in DOMAIN s : n \in s[i].frames /\ n \in s[j].frames => i = j
    PROVE  Cardinality({i \in DOMAIN s : n \in s[i].frames})
             = IF n \in FramesOf(s) THEN 1 ELSE 0
  <1> DEFINE S == {i \in DOMAIN s : n \in s[i].frames}
  <1>1. \A x, y \in S : x = y
    OBVIOUS
  <1>2. S = {} <=> n \notin FramesOf(s)
    BY FramesOfMember
  <1>3. Cardinality(S) = IF S = {} THEN 0 ELSE 1
    BY <1>1, CountsOne
  <1> QED BY <1>2, <1>3

LEMMA AscendingOnce ==
    ASSUME NEW s \in Seq(Lines), Ascending(s), NEW n \in Nat
    PROVE  \A i, j \in DOMAIN s : n \in s[i].frames /\ n \in s[j].frames => i = j
  <1>1. SUFFICES ASSUME NEW i \in DOMAIN s, NEW j \in DOMAIN s,
                        n \in s[i].frames, n \in s[j].frames, i # j
                 PROVE  FALSE
    OBVIOUS
  <1>2. i < j \/ j < i
    BY <1>1
  <1>3. n < n
    BY <1>1, <1>2 DEF Ascending
  <1> QED BY <1>3

LEMMA CountedOnce == IInv => EveryFrameOnce
  <1> SUFFICES ASSUME IInv, NEW n \in 1 .. sent PROVE Places(n) = 1
    BY DEF EveryFrameOnce
  <1> DEFINE In(items) == Cardinality({i \in DOMAIN items : n \in items[i].frames})
  <1>1. n \in Nat
    BY Typing
  <1>2. In(queue) = IF n \in FramesOf(queue) THEN 1 ELSE 0
    <2>1. \A i, j \in DOMAIN queue : n \in queue[i].frames /\ n \in queue[j].frames => i = j
      BY <1>1, Typing, AscendingOnce DEF IInv, NewerWait
    <2> QED BY <2>1, InLines
  <1>3. In(batch) = IF n \in FramesOf(batch) THEN 1 ELSE 0
    <2>1. \A i, j \in DOMAIN batch : n \in batch[i].frames /\ n \in batch[j].frames => i = j
      BY <1>1, Typing, AscendingOnce DEF IInv, NewerWait
    <2> QED BY <2>1, InLines
  <1>4. In(held) = IF n \in FramesOf(held) THEN 1 ELSE 0
    <2>1. \A i, j \in DOMAIN held : i = j
      BY HeldOne
    <2> QED BY <2>1, InLines
  <1>5. In(out) = IF n \in FramesOf(out) THEN 1 ELSE 0
    <2>1. \A i, j \in DOMAIN out : n \in out[i].frames /\ n \in out[j].frames => i = j
      BY DEF IInv, Apart
    <2> QED BY <2>1, InLines
  <1>6. Places(n) = In(queue) + In(held) + In(batch) + In(out)
                      + (IF n \in superseded THEN 1 ELSE 0) + (IF n \in lost THEN 1 ELSE 0)
    BY DEF Places
  <1> HIDE DEF In
  <1>7. queue = <<>> \/ batch = <<>>
    BY DEF IInv, Shape
  <1>8. ~(n \in FramesOf(queue) /\ n \in FramesOf(batch))
    BY <1>7, FramesOfEmpty
  <1>9. /\ n \in FramesOf(queue) \/ n \in FramesOf(batch) => n \notin Gone
        /\ n \in FramesOf(queue) \/ n \in FramesOf(batch) \/ n \in Gone
    BY WaitingApart DEF IInv, Covered
  <1>10. n \in Gone <=>
            n \in FramesOf(out) \/ n \in FramesOf(held) \/ n \in superseded \/ n \in lost
    BY DEF Gone
  <1>11. /\ ~(n \in FramesOf(out) /\ n \in FramesOf(held)) /\ ~(n \in FramesOf(out) /\ n \in superseded)
         /\ ~(n \in FramesOf(out) /\ n \in lost) /\ ~(n \in FramesOf(held) /\ n \in superseded)
         /\ ~(n \in FramesOf(held) /\ n \in lost) /\ ~(n \in superseded /\ n \in lost)
    BY DEF IInv, Apart
  <1> QED BY ONLY <1>2, <1>3, <1>4, <1>5, <1>6, <1>8, <1>9, <1>10, <1>11

\* Every frame handed over is queued, held, drained, written, superseded or lost,
\* and only one of these: the three ways out of the queue, the two writers and the
\* merges neither lose nor repeat a frame.
THEOREM FramesCountedOnce == Spec => []EveryFrameOnce
  BY Invariance, CountedOnce, PTL

LEMMA OneBehind == IInv => OneFrameBehindControl
  <1> SUFFICES ASSUME IInv, NEW k \in DOMAIN out, IsControl(out[k])
               PROVE  LET Behind(items) ==
                            {i \in DOMAIN items : Older(items[i], out[k].after)}
                      IN  Cardinality({i \in Behind(out) : i > k}) + Cardinality(Behind(held))
                            + Cardinality(Behind(queue)) + Cardinality(Behind(batch)) <= 1
    BY DEF OneFrameBehindControl
  <1> DEFINE n == out[k].after
             Behind(items) == {i \in DOMAIN items : Older(items[i], n)}
             Later == {i \in Behind(out) : i > k}
  <1>1. n \in Nat
    BY LineShape, Typing
  <1>2. ASSUME NEW s, s \in {queue, batch} PROVE Behind(s) = {}
    <2>1. SUFFICES ASSUME NEW i \in DOMAIN s, NEW f \in s[i].frames, f <= n PROVE FALSE
      BY DEF Older
    <2>2. f \in FramesOf(queue) \cup FramesOf(batch)
      BY <1>2, <2>1, FramesOfMember
    <2>3. n < f /\ f \in Nat
      BY <2>2, Typing DEF IInv, Barrier
    <2> QED BY <1>1, <2>1, <2>3
  <1>3. Cardinality(Behind(queue)) = 0 /\ Cardinality(Behind(batch)) = 0
    BY <1>2, FS_EmptySet
  <1>4. \A i, j \in Later : i = j
    BY DEF IInv, Barrier
  <1>5. \A i, j \in Behind(held) : i = j
    BY HeldOne
  <1>6. Behind(held) # {} => Later = {}
    BY DEF IInv, Barrier
  <1>7. /\ Cardinality(Later) = IF Later = {} THEN 0 ELSE 1
        /\ Cardinality(Behind(held)) = IF Behind(held) = {} THEN 0 ELSE 1
    BY <1>4, <1>5, CountsOne
  <1>8. Cardinality(Later) + Cardinality(Behind(held))
          + Cardinality(Behind(queue)) + Cardinality(Behind(batch)) <= 1
    BY ONLY <1>3, <1>6, <1>7
  <1> QED BY <1>8

\* A control event is a barrier for the frames before it: of all the lines with an
\* older frame, one at most is still to be written or is written later.
THEOREM ControlIsBarrier == Spec => []OneFrameBehindControl
  BY Invariance, OneBehind, PTL

\* Frames are written in the order they were handed over, unless a control event is
\* written between the newer one and the older.
THEOREM FramesInOrder == Spec => []OvertakenOnlyByControl
  <1>1. IInv => OvertakenOnlyByControl
    BY DEF IInv
  <1> QED BY <1>1, Invariance, PTL

LEMMA ExitEmpties == IInv => NothingLeftAtExit
  <1> SUFFICES ASSUME IInv, sender = "exited", open
               PROVE  /\ \E k \in DOMAIN out : out[k].kind = "terminal"
                      /\ \A n \in 1 .. sent : n \in FramesOf(out) \cup superseded \cup FramesOf(held)
    BY DEF NothingLeftAtExit
  <1>1. queue = <<>> /\ batch = <<>>
    BY DEF IInv, Shape
  <1>2. FramesOf(queue) = {} /\ FramesOf(batch) = {} /\ lost = {}
    BY <1>1, FramesOfEmpty DEF IInv, Ending
  <1>3. \E k \in DOMAIN out : out[k].kind = "terminal"
    BY DEF IInv, Ending
  <1> QED BY <1>2, <1>3 DEF IInv, Covered, Gone

\* A helper that exits while the host reads has written its terminal event, and
\* every frame but what the stdout thread holds.
THEOREM ExitsEmptied == Spec => []NothingLeftAtExit
  BY Invariance, ExitEmpties, PTL

=============================================================================
