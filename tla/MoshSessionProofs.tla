-------------------------- MODULE MoshSessionProofs --------------------------
(***************************************************************************)
(* Theorems about MoshSession for every number of requests and notices and *)
(* every capacity: the host's predictions are confirmed exactly.           *)
(***************************************************************************)
EXTENDS MoshSession, TLAPS, FiniteSetTheorems, FunctionTheorems, WellFoundedInduction

\* Requests that are not the last one of a session.
Typing == {"input", "resize"}
Typed(s) == {i \in DOMAIN s : s[i] \in Typing}
Sending == IF relay \in Typing THEN 1 ELSE 0

\* Every request the host wrote is on its way or taken: the engine cannot have
\* queued more inputs than were written.
InputsBounded ==
    Cardinality(Typed(stdin)) + Sending + Cardinality(Typed(commands)) + Len(carried)
        <= written.inputs

\* Frames are numbered without a gap, each carries an input before the next one
\* is opened, and the server is behind the runtime, the engine behind the server.
FramesInStep == /\ frame = sent + 1 /\ received <= sent /\ acked <= received
                /\ frame <= Len(carried) + 1
CarriedAscend ==
    /\ \A i \in DOMAIN carried : carried[i] <= i /\ carried[i] <= frame
    /\ \A i, j \in DOMAIN carried : i <= j => carried[i] <= carried[j]

\* The map holds, for each frame not acknowledged, the newest input it carries.
MapHolds ==
    /\ \A f \in Frames : predictions[f] # 0 =>
          /\ f > acked
          /\ predictions[f] \in DOMAIN carried /\ carried[predictions[f]] = f
    /\ \A i \in DOMAIN carried : carried[i] > acked => i <= predictions[carried[i]]

\* The inputs in acknowledged frames are those up to the one reported.
ReportedLast ==
    /\ reported <= Len(carried)
    /\ \A i \in DOMAIN carried : carried[i] <= acked <=> i <= reported

IInv == /\ TypeOK
        /\ InputsBounded /\ FramesInStep /\ CarriedAscend /\ MapHolds /\ ReportedLast

\* What the acknowledgements depend on.
Tracked == FramesInStep /\ CarriedAscend /\ MapHolds /\ ReportedLast

-----------------------------------------------------------------------------
(* Counting the requests of a queue. *)

LEMMA TypedFinite ==
    ASSUME NEW S, NEW s \in Seq(S)
    PROVE  /\ IsFiniteSet(Typed(s)) /\ Cardinality(Typed(s)) \in Nat
           /\ Typed(s) \subseteq 1 .. Len(s)
  <1>1. Typed(s) \in SUBSET (1 .. Len(s)) /\ Len(s) \in Nat
    BY DEF Typed
  <1>2. IsFiniteSet(1 .. Len(s))
    BY <1>1, FS_Interval
  <1> QED BY <1>1, <1>2, FS_Subset, FS_CardinalityType

LEMMA TypedAppend ==
    ASSUME NEW S, NEW s \in Seq(S), NEW c \in S
    PROVE  Cardinality(Typed(Append(s, c)))
              = Cardinality(Typed(s)) + (IF c \in Typing THEN 1 ELSE 0)
  <1>1. /\ Append(s, c) \in Seq(S) /\ Len(s) \in Nat
        /\ DOMAIN Append(s, c) = 1 .. Len(s) + 1 /\ DOMAIN s = 1 .. Len(s)
        /\ Append(s, c)[Len(s) + 1] = c
        /\ \A i \in DOMAIN s : Append(s, c)[i] = s[i]
    OBVIOUS
  <1>2. Typed(Append(s, c)) = IF c \in Typing THEN Typed(s) \cup {Len(s) + 1} ELSE Typed(s)
    BY <1>1 DEF Typed
  <1>3. Len(s) + 1 \notin Typed(s)
    BY <1>1 DEF Typed
  <1>4. IsFiniteSet(Typed(s)) /\ Cardinality(Typed(s)) \in Nat
    BY TypedFinite
  <1>5. Cardinality(Typed(s) \cup {Len(s) + 1}) = Cardinality(Typed(s)) + 1
    BY ONLY <1>3, <1>4, FS_AddElement
  <1> QED BY ONLY <1>2, <1>4, <1>5

LEMMA TypedTail ==
    ASSUME NEW S, NEW s \in Seq(S), s # <<>>
    PROVE  Cardinality(Typed(s))
              = Cardinality(Typed(Tail(s))) + (IF Head(s) \in Typing THEN 1 ELSE 0)
  <1> DEFINE t == Tail(s)
             Moved == {i + 1 : i \in Typed(t)}
             f == [i \in Typed(t) |-> i + 1]
  <1>1. /\ t \in Seq(S) /\ Len(s) \in Nat \ {0}
        /\ DOMAIN t = 1 .. Len(s) - 1 /\ DOMAIN s = 1 .. Len(s)
        /\ Head(s) = s[1]
        /\ \A i \in DOMAIN t : t[i] = s[i + 1]
    OBVIOUS
  <1> HIDE DEF t
  <1>2. \A i \in Typed(t) : i \in Nat \ {0}
    BY <1>1 DEF Typed
  <1>3. f \in Bijection(Typed(t), Moved)
    BY <1>2, Fun_IsBij
  <1>4. IsFiniteSet(Typed(t)) /\ Cardinality(Typed(t)) \in Nat
    BY <1>1, TypedFinite
  <1>5. IsFiniteSet(Moved) /\ Cardinality(Moved) = Cardinality(Typed(t))
    BY <1>3, <1>4, FS_Bijection DEF ExistsBijection
  <1>6. 1 \notin Moved
    BY <1>2
  <1>7. Typed(s) = IF Head(s) \in Typing THEN Moved \cup {1} ELSE Moved
    <2>1. \A i \in Typed(s) : i = 1 \/ i - 1 \in Typed(t)
      BY <1>1 DEF Typed
    <2>2. \A i \in Typed(t) : i + 1 \in Typed(s)
      BY <1>1 DEF Typed
    <2>3. 1 \in Typed(s) <=> Head(s) \in Typing
      BY <1>1 DEF Typed
    <2>4. \A i \in Typed(s) : i \in Int
      BY <1>1 DEF Typed
    <2> QED BY <1>2, <2>1, <2>2, <2>3, <2>4
  <1>8. Cardinality(Typed(s)) = Cardinality(Moved) + (IF Head(s) \in Typing THEN 1 ELSE 0)
    <2>1. Cardinality(Moved \cup {1}) = Cardinality(Moved) + 1
      BY ONLY <1>5, <1>6, FS_AddElement
    <2> HIDE DEF Moved
    <2> QED BY ONLY <1>4, <1>5, <1>7, <2>1
  <1> QED BY <1>5, <1>8 DEF t

\* What is left of a queue holds no more.
LEMMA TypedCounts ==
    ASSUME TypeOK
    PROVE  /\ Cardinality(Typed(stdin)) \in Nat /\ Cardinality(Typed(commands)) \in Nat
           /\ Len(carried) \in Nat /\ written.inputs \in 0 .. MaxInputs
           /\ Sending \in {0, 1}
  BY TypedFinite DEF TypeOK, Sending

\* A non-empty set of frames has a newest.
LEMMA NewestExists ==
    ASSUME NEW n \in Nat, NEW T \in SUBSET (1 .. n), T # {}
    PROVE  \E i \in T : \A j \in T : j <= i
  <1> DEFINE B == {k \in Nat : \A j \in T : j <= k}
  <1>1. n \in B
    OBVIOUS
  <1>2. PICK k \in B : \A m \in B : ~ (<<m, k>> \in OpToRel(<, Nat))
    BY <1>1, NatLessThanWellFounded, WFMin
  <1>3. \A m \in B : ~ (m < k)
    BY <1>2 DEF OpToRel
  <1>4. k \in T
    <2> SUFFICES ASSUME k \notin T PROVE FALSE
      OBVIOUS
    <2>1. PICK j \in T : TRUE
      OBVIOUS
    <2>2. k \in Nat /\ j \in 1 .. n /\ j <= k
      BY <2>1
    <2>3. k - 1 \in Nat /\ \A m \in T : m <= k - 1
      <3> SUFFICES ASSUME NEW m \in T PROVE m <= k - 1
        BY <2>2
      <3>1. m \in 1 .. n /\ m <= k /\ m # k
        OBVIOUS
      <3> QED BY <2>2, <3>1
    <2> QED BY <1>3, <2>2, <2>3
  <1> QED BY <1>4

-----------------------------------------------------------------------------
(* The prediction map. *)

LEMMA TrackedUnmoved ==
    ASSUME Tracked, UNCHANGED <<frame, sent, received, acked, carried, predictions, reported>>
    PROVE  Tracked'
  BY DEF Tracked, FramesInStep, CarriedAscend, MapHolds, ReportedLast

LEMMA FrameTypes ==
    ASSUME TypeOK
    PROVE  /\ MaxInputs \in Nat /\ Frames = 1 .. MaxInputs + 1
           /\ frame \in Nat \ {0} /\ sent \in Nat /\ received \in Nat /\ acked \in Nat
           /\ reported \in Nat /\ Len(carried) \in Nat /\ DOMAIN carried = 1 .. Len(carried)
           /\ \A i \in DOMAIN carried : carried[i] \in Frames /\ carried[i] \in Nat \ {0}
           /\ \A f \in Frames : predictions[f] \in 0 .. MaxInputs
  <1>1. carried \in Seq(Frames) /\ Frames = 1 .. MaxInputs + 1 /\ MaxInputs \in Nat
    BY SessionAssumption DEF TypeOK, Frames
  <1>2. /\ Len(carried) \in Nat /\ DOMAIN carried = 1 .. Len(carried)
        /\ \A i \in DOMAIN carried : carried[i] \in Frames
    BY ONLY <1>1
  <1>3. \A f \in Frames : f \in Nat \ {0}
    BY ONLY <1>1
  <1>4. /\ frame \in Nat \ {0} /\ sent \in Nat /\ received \in Nat /\ acked \in Nat
        /\ reported \in Nat
    BY <1>1, <1>3 DEF TypeOK
  <1>5. \A f \in Frames : predictions[f] \in 0 .. MaxInputs
    BY DEF TypeOK
  <1> QED BY ONLY <1>1, <1>2, <1>3, <1>4, <1>5

\* Poll: the runtime sends the frame that the queued input is in.
LEMMA FrameSent ==
    ASSUME TypeOK, Tracked,
           frame \in {carried[i] : i \in DOMAIN carried}, sent' = frame, frame' = frame + 1,
           UNCHANGED <<received, acked, carried, predictions, reported>>
    PROVE  Tracked' /\ frame <= Len(carried)
  <1>1. PICK k \in DOMAIN carried : carried[k] = frame
    OBVIOUS
  <1>t. /\ frame \in Nat /\ sent \in Nat /\ received \in Nat /\ acked \in Nat
        /\ Len(carried) \in Nat /\ DOMAIN carried = 1 .. Len(carried)
        /\ \A i \in DOMAIN carried : carried[i] \in Nat
    BY FrameTypes
  <1>c. /\ \A i \in DOMAIN carried : carried[i] <= i /\ carried[i] <= frame
        /\ \A i, j \in DOMAIN carried : i <= j => carried[i] <= carried[j]
    BY DEF Tracked, CarriedAscend
  <1>s. frame = sent + 1 /\ received <= sent /\ acked <= received
    BY DEF Tracked, FramesInStep
  <1>2. frame <= Len(carried)
    BY ONLY <1>1, <1>t, <1>c
  <1>3. FramesInStep'
    <2>1. frame' = sent' + 1 /\ received' <= sent' /\ acked' <= received'
          /\ frame' <= Len(carried') + 1
      BY <1>2, <1>t, <1>s
    <2> QED BY ONLY <2>1 DEF FramesInStep
  <1>4. CarriedAscend'
    <2>1. \A i \in DOMAIN carried : carried[i] <= frame'
      BY <1>t, <1>c
    <2>2. carried' = carried
      OBVIOUS
    <2> QED BY ONLY <1>c, <2>1, <2>2 DEF CarriedAscend
  <1> QED BY <1>2, <1>3, <1>4 DEF Tracked, MapHolds, ReportedLast

\* TakeCommand: an input goes into the current frame and its prediction with it.
LEMMA InputRecorded ==
    ASSUME TypeOK, Tracked, carried' = Append(carried, frame),
           predictions' = Record(frame, Len(carried')),
           UNCHANGED <<frame, sent, received, acked, reported>>
    PROVE  Tracked'
  <1> DEFINE n == Len(carried) + 1
  <1>1. /\ Len(carried') = n /\ DOMAIN carried' = 1 .. n /\ carried'[n] = frame
        /\ \A i \in DOMAIN carried : carried'[i] = carried[i]
        /\ DOMAIN carried' = DOMAIN carried \cup {n} /\ n \in Nat /\ n \notin DOMAIN carried
        /\ \A i \in DOMAIN carried : i < n /\ i \in Nat
    <2>1. carried \in Seq(Frames) /\ frame \in Frames /\ carried' = Append(carried, frame)
      BY DEF TypeOK
    <2>2. /\ Len(carried') = n /\ DOMAIN carried' = 1 .. n /\ carried'[n] = frame
          /\ \A i \in DOMAIN carried : carried'[i] = carried[i]
      BY ONLY <2>1
    <2>3. Len(carried) \in Nat /\ DOMAIN carried = 1 .. Len(carried)
      BY ONLY <2>1
    <2> QED BY ONLY <2>2, <2>3
  <1>2. /\ frame > acked /\ frame <= n
        /\ frame \in Frames /\ frame \in Nat
    BY FrameTypes DEF TypeOK, Tracked, FramesInStep
  <1>3. predictions[frame] < n /\ predictions[frame] \in Nat
    <2>1. predictions[frame] # 0 => predictions[frame] \in DOMAIN carried
      BY <1>2 DEF Tracked, MapHolds
    <2>2. predictions[frame] \in 0 .. MaxInputs /\ MaxInputs \in Nat
      BY <1>2, FrameTypes
    <2> QED BY ONLY <1>1, <2>1, <2>2
  <1> HIDE DEF n
  <1>4. /\ predictions'[frame] = n
        /\ \A f \in Frames \ {frame} : predictions'[f] = predictions[f]
    <2>1. /\ predictions \in [Frames -> 0 .. MaxInputs] /\ predictions' = Record(frame, n)
          /\ n \in Nat
      BY <1>1 DEF TypeOK
    <2> QED BY ONLY <1>2, <1>3, <2>1 DEF Record
  <1>5. FramesInStep'
    BY <1>1, FrameTypes DEF Tracked, FramesInStep, n
  <1>6. CarriedAscend'
    <2>1. \A i \in DOMAIN carried : carried[i] <= i /\ carried[i] <= frame
      BY DEF Tracked, CarriedAscend
    <2>2. \A i \in DOMAIN carried' : carried'[i] <= i /\ carried'[i] <= frame
      BY <1>1, <1>2, <2>1
    <2>3. ASSUME NEW i \in DOMAIN carried', NEW j \in DOMAIN carried', i <= j
          PROVE  carried'[i] <= carried'[j]
      <3>1. CASE j = n
        BY <1>1, <2>2, <3>1
      <3>2. CASE j # n
        <4>1. i \in DOMAIN carried /\ j \in DOMAIN carried
          BY <1>1, <2>3, <3>2
        <4> QED BY <1>1, <2>3, <4>1 DEF Tracked, CarriedAscend
      <3> QED BY <3>1, <3>2
    <2> QED BY <2>2, <2>3 DEF CarriedAscend
  <1>7. MapHolds'
    <2>1. ASSUME NEW f \in Frames, predictions'[f] # 0
          PROVE  f > acked /\ predictions'[f] \in DOMAIN carried' /\ carried'[predictions'[f]] = f
      <3>1. CASE f = frame
        BY <1>1, <1>2, <1>4, <3>1
      <3>2. CASE f # frame
        BY <1>1, <1>4, <2>1, <3>2 DEF Tracked, MapHolds
      <3> QED BY <3>1, <3>2
    <2>2. ASSUME NEW i \in DOMAIN carried', carried'[i] > acked
          PROVE  i <= predictions'[carried'[i]]
      <3>1. CASE carried'[i] = frame
        BY <1>1, <1>4, <3>1
      <3>2. CASE carried'[i] # frame
        <4>1. i \in DOMAIN carried /\ carried'[i] = carried[i] /\ carried[i] \in Frames \ {frame}
          BY <1>1, <3>2, FrameTypes
        <4> QED BY <1>4, <2>2, <4>1 DEF Tracked, MapHolds
      <3> QED BY <3>1, <3>2
    <2> QED BY <2>1, <2>2 DEF MapHolds
  <1>8. ReportedLast'
    <2>1. reported < n
      BY <1>1, FrameTypes DEF Tracked, ReportedLast, n
    <2>2. ~(frame <= acked) /\ ~(n <= reported)
      BY <1>1, <1>2, <2>1, FrameTypes
    <2>3. \A i \in DOMAIN carried : carried[i] <= acked <=> i <= reported
      BY DEF Tracked, ReportedLast
    <2>4. \A i \in DOMAIN carried' : carried'[i] <= acked <=> i <= reported
      BY ONLY <1>1, <2>2, <2>3
    <2> QED BY <1>1, <2>1, <2>4, FrameTypes DEF ReportedLast
  <1> QED BY <1>5, <1>6, <1>7, <1>8 DEF Tracked

\* Ack: the acknowledged frame, and all before it, report the newest input they
\* carry, although some of them were never acknowledged themselves.
LEMMA FrameAcknowledged ==
    ASSUME TypeOK, Tracked, NEW f \in 1 .. received,
           reported' = (IF Acknowledged(f) = 0 THEN reported ELSE Acknowledged(f)),
           predictions' = Forgotten(f), acked' = (IF f > acked THEN f ELSE acked),
           UNCHANGED <<frame, sent, received, carried>>
    PROVE  Tracked' /\ reported' \in 0 .. MaxInputs /\ acked' \in 0 .. MaxInputs
  <1>1. f \in Nat \ {0} /\ f \in Frames /\ f <= received /\ f \in 0 .. MaxInputs
    <2>1. received \in 0 .. MaxInputs /\ MaxInputs \in Nat /\ Frames = 1 .. MaxInputs + 1
      BY FrameTypes DEF TypeOK
    <2> QED BY ONLY <2>1, f \in 1 .. received
  <1>2. acked' \in Nat /\ acked' >= f /\ acked' >= acked /\ acked' <= received
        /\ acked' \in 0 .. MaxInputs
    BY <1>1, FrameTypes DEF Tracked, FramesInStep, TypeOK
  <1>3. /\ \A g \in Frames : predictions[g] # 0 =>
              /\ g > acked
              /\ predictions[g] \in DOMAIN carried /\ carried[predictions[g]] = g
        /\ \A i \in DOMAIN carried : carried[i] > acked => i <= predictions[carried[i]]
    BY DEF Tracked, MapHolds
  <1>4. FramesInStep' /\ CarriedAscend'
    BY <1>2 DEF Tracked, FramesInStep, CarriedAscend
  <1>5. \A g \in Frames : predictions'[g] = IF g <= f THEN 0 ELSE predictions[g]
    BY DEF Forgotten
  <1>6. MapHolds'
    <2>1. ASSUME NEW g \in Frames, predictions'[g] # 0
          PROVE  g > acked' /\ predictions'[g] \in DOMAIN carried /\ carried[predictions'[g]] = g
      <3>1. g > f /\ predictions'[g] = predictions[g] /\ g \in Nat
        BY <1>1, <1>5, <2>1, FrameTypes
      <3> QED BY <1>1, <1>3, <2>1, <3>1
    <2>2. ASSUME NEW i \in DOMAIN carried, carried[i] > acked'
          PROVE  i <= predictions'[carried[i]]
      <3>1. carried[i] > acked /\ carried[i] > f /\ carried[i] \in Frames
        BY <1>1, <1>2, <2>2, FrameTypes
      <3>2. predictions'[carried[i]] = predictions[carried[i]]
        BY <1>1, <1>5, <3>1, FrameTypes
      <3> QED BY <1>3, <3>1, <3>2
    <2> QED BY <2>1, <2>2 DEF MapHolds
  <1>7. CASE AtMost(f) = {}
    <2>1. reported' = reported
      BY <1>7 DEF Acknowledged
    <2>2. ASSUME NEW i \in DOMAIN carried
          PROVE  carried[i] <= acked' <=> carried[i] <= acked
      <3>1. CASE carried[i] > acked /\ carried[i] <= f
        <4>1. carried[i] \in Frames /\ predictions[carried[i]] # 0
          BY <1>3, <3>1, FrameTypes
        <4>2. carried[i] \in AtMost(f)
          BY <3>1, <4>1 DEF AtMost
        <4> QED BY <1>7, <4>2
      <3>2. carried[i] \in Nat
        BY FrameTypes
      <3> QED BY <1>1, <3>1, <3>2, FrameTypes
    <2>3. ReportedLast'
      BY <2>1, <2>2 DEF Tracked, ReportedLast
    <2> QED BY <1>2, <1>4, <1>6, <2>1, <2>3 DEF Tracked, TypeOK
  <1>8. CASE AtMost(f) # {}
    <2>1. AtMost(f) \subseteq 1 .. (MaxInputs + 1) /\ MaxInputs + 1 \in Nat
      BY FrameTypes DEF AtMost
    <2>2. \E g \in AtMost(f) : \A h \in AtMost(f) : h <= g
      BY <1>8, <2>1, NewestExists
    <2> DEFINE g == CHOOSE g \in AtMost(f) : \A h \in AtMost(f) : h <= g
               p == predictions[g]
    <2>3. g \in AtMost(f) /\ \A h \in AtMost(f) : h <= g
      BY <2>2
    <2>4. Acknowledged(f) = p
      BY <1>8 DEF Acknowledged
    <2> HIDE DEF g
    <2>5. g \in Frames /\ g <= f /\ p # 0 /\ g \in Nat
      BY <2>3, FrameTypes DEF AtMost
    <2>6. g > acked /\ p \in DOMAIN carried /\ carried[p] = g
      BY <1>3, <2>5
    <2>7. reported' = p /\ p \in Nat /\ p <= Len(carried) /\ p \in 0 .. MaxInputs
      BY <2>4, <2>5, <2>6, FrameTypes
    <2> HIDE DEF p
    <2>8. acked' = f
      BY <1>1, <2>5, <2>6, FrameTypes
    <2>9. ASSUME NEW i \in DOMAIN carried PROVE carried[i] <= f <=> i <= p
      <3>1. i \in Nat /\ carried[i] \in Nat /\ carried[i] \in Frames
        BY FrameTypes
      <3>2. i <= p => carried[i] <= carried[p]
        BY <2>6 DEF Tracked, CarriedAscend
      <3>3. p <= i => carried[p] <= carried[i]
        BY <2>6 DEF Tracked, CarriedAscend
      <3>4. CASE carried[i] <= g /\ carried[i] # g
        BY <1>1, <2>5, <2>6, <2>7, <3>1, <3>2, <3>3, <3>4
      <3>5. CASE carried[i] = g
        <4>1. i <= p
          BY <1>3, <2>6, <3>5 DEF p
        <4> QED BY <2>5, <3>5, <4>1
      <3>6. CASE carried[i] > g
        <4>1. carried[i] > acked /\ predictions[carried[i]] # 0
          <5>1. i >= 1 /\ acked \in Nat
            BY FrameTypes
          <5>2. carried[i] > acked
            BY ONLY <2>5, <2>6, <3>1, <3>6, <5>1
          <5>3. i <= predictions[carried[i]]
            BY <1>3, <5>2
          <5> QED BY ONLY <3>1, <5>1, <5>2, <5>3
        <4>2. ~(carried[i] <= f)
          BY <2>3, <2>5, <3>1, <3>6, <4>1 DEF AtMost
        <4>3. ~(i <= p)
          BY <2>5, <2>6, <3>1, <3>2, <3>6
        <4> QED BY <4>2, <4>3
      <3> QED BY <2>5, <3>1, <3>4, <3>5, <3>6
    <2>10. ReportedLast'
      BY <2>7, <2>8, <2>9 DEF ReportedLast
    <2> QED BY <1>2, <1>4, <1>6, <2>7, <2>10 DEF Tracked
  <1> QED BY <1>7, <1>8

-----------------------------------------------------------------------------
(* The steps. *)

LEMMA InitInv == Init => IInv
  <1> SUFFICES ASSUME Init PROVE IInv
    OBVIOUS
  <1>1. MaxInputs \in Nat /\ MaxNotices \in Nat /\ 1 \in Frames /\ 0 \in 0 .. MaxInputs
    BY SessionAssumption DEF Frames
  <1>2. TypeOK
    <2>1. /\ stdin \in Seq(Request) /\ commands \in Seq(Command) /\ carried \in Seq(Frames)
          /\ pending \in Seq(Events) /\ events \in Seq(Events) /\ writing \in Seq(Events)
      BY DEF Init
    <2>2. predictions \in [Frames -> 0 .. MaxInputs]
      BY <1>1 DEF Init
    <2>3. written \in [inputs : 0 .. MaxInputs, shutdown : BOOLEAN]
      BY <1>1 DEF Init
    <2>4. /\ frame \in Frames /\ sent \in 0 .. MaxInputs /\ received \in 0 .. MaxInputs
          /\ painted \in 0 .. MaxNotices
          /\ acked \in 0 .. MaxInputs /\ reported \in 0 .. MaxInputs
      BY <1>1 DEF Init
    <2> QED BY <2>1, <2>2, <2>3, <2>4 DEF Init, TypeOK
  <1>3. Typed(<<>>) = {} /\ Cardinality(Typed(<<>>)) = 0
    <2>1. Typed(<<>>) = {}
      BY DEF Typed
    <2> QED BY <2>1, FS_EmptySet
  <1>4. InputsBounded
    BY <1>3 DEF Init, InputsBounded, Sending, Typing
  <1>5. FramesInStep /\ CarriedAscend /\ MapHolds /\ ReportedLast
    BY DEF Init, FramesInStep, CarriedAscend, MapHolds, ReportedLast
  <1> QED BY <1>2, <1>4, <1>5 DEF IInv

\* What a step keeps that moves no request.
LEMMA BoundUnmoved ==
    ASSUME InputsBounded, UNCHANGED <<stdin, relay, commands, carried, written>>
    PROVE  InputsBounded'
  BY DEF InputsBounded, Sending

LEMMA HostKeeps ==
    ASSUME IInv, Host
    PROVE  IInv'
  <1> USE DEF IInv, hostVars, relayVars, engineVars, sspVars, ghostVars
  <1>1. TypeOK /\ Tracked /\ SessionAssumption
    BY SessionAssumption DEF Tracked
  <1>2. Tracked'
    BY <1>1, TrackedUnmoved DEF Host, HostTypes, HostShutsDown, HostReads
  <1>3. CASE HostTypes
    <2>1. PICK c \in {"input", "resize"} : stdin' = Append(stdin, c)
      BY <1>3 DEF HostTypes
    <2>2. /\ stdin \in Seq(Request) /\ c \in Request /\ c \in Typing
          /\ written.inputs \in Nat /\ written.inputs < MaxInputs /\ MaxInputs \in Nat
      BY <1>1, <1>3 DEF TypeOK, HostTypes, Request, Command, Typing, SessionAssumption
    <2>3. /\ written' \in [inputs : 0 .. MaxInputs, shutdown : BOOLEAN]
          /\ written'.inputs = written.inputs + 1
      <3>1. /\ written \in [inputs : 0 .. MaxInputs, shutdown : BOOLEAN]
            /\ written' = [written EXCEPT !.inputs = @ + 1]
            /\ written.inputs + 1 \in 0 .. MaxInputs
        <4>1. written.inputs + 1 \in 0 .. MaxInputs
          BY ONLY <2>2
        <4>2. written \in [inputs : 0 .. MaxInputs, shutdown : BOOLEAN]
          BY <1>1 DEF TypeOK
        <4>3. written' = [written EXCEPT !.inputs = @ + 1]
          BY <1>3 DEF HostTypes
        <4> QED BY <4>1, <4>2, <4>3
      <3>2. written' = [inputs |-> written.inputs + 1, shutdown |-> written.shutdown]
        BY ONLY <3>1
      <3>3. written.shutdown \in BOOLEAN
        BY ONLY <3>1
      <3> QED BY ONLY <3>1, <3>2, <3>3
    <2>4. stdin' \in Seq(Request)
      BY <2>1, <2>2
    <2>5. TypeOK'
      BY <1>3, <2>3, <2>4 DEF HostTypes, TypeOK
    <2>6. Cardinality(Typed(stdin')) = Cardinality(Typed(stdin)) + 1
      BY <2>1, <2>2, TypedAppend
    <2>7. UNCHANGED <<commands, carried, relay>>
      BY <1>3 DEF HostTypes
    <2>8. InputsBounded'
      <3>1. Sending' = Sending
        BY <2>7 DEF Sending
      <3> QED BY SMTT(20), <1>1, <2>3, <2>6, <2>7, <3>1, TypedCounts DEF InputsBounded
    <2> QED BY <1>2, <2>5, <2>8 DEF Tracked
  <1>4. CASE HostShutsDown
    <2>1. PICK c \in {"shutdown", "invalid"} : stdin' = Append(stdin, c)
      BY <1>4 DEF HostShutsDown
    <2>2. stdin \in Seq(Request) /\ c \in Request /\ c \notin Typing
      BY <1>1 DEF TypeOK, Request, Command, Typing
    <2>3. /\ written' \in [inputs : 0 .. MaxInputs, shutdown : BOOLEAN]
          /\ written'.inputs = written.inputs
      BY <1>1, <1>4 DEF TypeOK, HostShutsDown
    <2>4. stdin' \in Seq(Request)
      BY <2>1, <2>2
    <2>5. TypeOK'
      BY <1>4, <2>3, <2>4 DEF HostShutsDown, TypeOK
    <2>6. Cardinality(Typed(stdin')) = Cardinality(Typed(stdin))
      BY <1>1, <2>1, <2>2, TypedAppend, TypedCounts
    <2>7. UNCHANGED <<commands, carried, relay>>
      BY <1>4 DEF HostShutsDown
    <2>8. InputsBounded'
      BY <2>3, <2>6, <2>7 DEF InputsBounded, Sending
    <2> QED BY <1>2, <2>5, <2>8 DEF Tracked
  <1>5. CASE HostReads
    <2>1. Head(writing) \in Events /\ <<>> \in Seq(Events)
      BY <1>1, <1>5 DEF TypeOK, HostReads
    <2>2. TypeOK'
      BY <1>5, <2>1 DEF HostReads, TypeOK
    <2>3. InputsBounded'
      BY <1>5, BoundUnmoved DEF HostReads
    <2> QED BY <1>2, <2>2, <2>3 DEF Tracked
  <1> QED BY <1>3, <1>4, <1>5 DEF Host

LEMMA RelayKeeps ==
    ASSUME IInv, ReadRequest \/ SendCommand \/ NextEvent
    PROVE  IInv'
  <1> USE DEF IInv, hostVars, relayVars, engineVars, sspVars, ghostVars
  <1>1. TypeOK /\ Tracked
    BY DEF Tracked
  <1>2. Tracked'
    BY <1>1, TrackedUnmoved DEF ReadRequest, SendCommand, NextEvent
  <1>3. CASE ReadRequest
    <2>1. /\ stdin \in Seq(Request) /\ stdin # <<>> /\ Head(stdin) \in Request
          /\ stdin' \in Seq(Request) /\ stdin' = Tail(stdin) /\ relay \notin Typing
      <3>1. /\ stdin \in Seq(Request) /\ stdin # <<>> /\ stdin' = Tail(stdin)
            /\ relay \notin Typing
        BY <1>1, <1>3 DEF TypeOK, ReadRequest, Typing
      <3> QED BY ONLY <3>1
    <2>2. (relay' = Head(stdin) /\ Head(stdin) \in Command) \/ relay' = relay
      BY <1>3, <2>1 DEF ReadRequest, Decodes, Request
    <2>3. TypeOK'
      BY <1>3, <2>1, <2>2 DEF ReadRequest, TypeOK
    <2>4. Cardinality(Typed(stdin)) =
             Cardinality(Typed(stdin')) + (IF Head(stdin) \in Typing THEN 1 ELSE 0)
      BY <2>1, TypedTail
    <2>5. /\ UNCHANGED <<commands, carried, written>>
          /\ Sending = 0 /\ Sending' <= IF Head(stdin) \in Typing THEN 1 ELSE 0
      BY <1>3, <2>1, <2>2 DEF ReadRequest, Sending
    <2>6. Cardinality(Typed(stdin')) \in Nat /\ Sending' \in {0, 1}
      BY <2>1, TypedFinite DEF Sending
    <2>7. InputsBounded'
      <3>1. Cardinality(Typed(stdin')) + Sending' <= Cardinality(Typed(stdin)) + Sending
        BY ONLY <2>4, <2>5, <2>6
      <3> QED BY <1>1, <2>5, <2>6, <3>1, TypedCounts DEF InputsBounded
    <2> QED BY <1>2, <2>3, <2>7 DEF Tracked
  <1>4. CASE SendCommand
    <2>1. CASE exited' = "error" /\ UNCHANGED <<relay, commands>>
      <3>1. TypeOK'
        BY <1>4, <2>1 DEF SendCommand, TypeOK
      <3>2. InputsBounded'
        BY <1>4, <2>1, BoundUnmoved DEF SendCommand
      <3> QED BY <1>2, <3>1, <3>2 DEF Tracked
    <2>2. CASE /\ commands' = Append(commands, relay)
               /\ relay' = IF relay = "shutdown" THEN "done" ELSE "reading"
               /\ UNCHANGED exited
      <3>1. relay \in Command /\ commands \in Seq(Command) /\ relay' \notin Typing
        BY <1>1, <1>4, <2>2 DEF SendCommand, TypeOK, Typing
      <3>2. commands' \in Seq(Command)
        BY <2>2, <3>1
      <3>3. TypeOK'
        BY <1>4, <2>2, <3>2 DEF SendCommand, TypeOK
      <3>4. Cardinality(Typed(commands')) = Cardinality(Typed(commands)) + Sending
        BY <2>2, <3>1, TypedAppend DEF Sending
      <3>5. Sending' = 0
        BY <3>1 DEF Sending
      <3>6. UNCHANGED <<stdin, carried, written>>
        BY <1>4 DEF SendCommand
      <3>7. InputsBounded'
        BY <1>1, <3>4, <3>5, <3>6, TypedCounts DEF InputsBounded
      <3> QED BY <1>2, <3>3, <3>7 DEF Tracked
    <2> QED BY <1>4, <2>1, <2>2 DEF SendCommand
  <1>5. CASE NextEvent
    <2>1. <<Head(events)>> \in Seq(Events) /\ Tail(events) \in Seq(Events)
      <3>1. events \in Seq(Events) /\ events # <<>>
        BY <1>1, <1>5 DEF NextEvent, TypeOK
      <3>2. Head(events) \in Events /\ Tail(events) \in Seq(Events)
        BY <3>1
      <3> QED BY <3>2
    <2>2. TypeOK'
      BY <1>5, <2>1 DEF NextEvent, TypeOK
    <2>3. InputsBounded'
      BY <1>5, BoundUnmoved DEF NextEvent
    <2> QED BY <1>2, <2>2, <2>3 DEF Tracked
  <1> QED BY <1>3, <1>4, <1>5

\* Queues of the events the engine appends.
LEMMA PendingTypes ==
    ASSUME TypeOK
    PROVE  \A e \in Events : Append(pending, e) \in Seq(Events) /\ Append(events, e) \in Seq(Events)
  BY DEF TypeOK

LEMMA LoopTopKeeps ==
    ASSUME IInv, LoopTop
    PROVE  IInv'
  <1> USE DEF IInv, hostVars, relayVars, engineVars, sspVars, ghostVars
  <1>1. TypeOK /\ Tracked /\ MaxInputs \in Nat /\ MaxNotices \in Nat
    BY SessionAssumption DEF Tracked
  <1>2. /\ UNCHANGED <<received, acked, carried, predictions, reported>>
        /\ InputsBounded'
    BY BoundUnmoved DEF LoopTop
  <1>3. CASE UNCHANGED <<pending, ending, frame, sent, painted>>
    <2>1. TypeOK'
      BY <1>1, <1>3 DEF LoopTop, TypeOK
    <2>2. Tracked'
      BY <1>1, <1>2, <1>3, TrackedUnmoved
    <2> QED BY <1>2, <2>1, <2>2 DEF Tracked
  <1>4. CASE /\ frame \in {carried[i] : i \in DOMAIN carried}
             /\ sent' = frame /\ frame' = frame + 1
             /\ UNCHANGED <<pending, ending, painted>>
    <2>1. Tracked' /\ frame <= Len(carried)
      BY <1>1, <1>2, <1>4, FrameSent
    <2>2. frame <= MaxInputs
      <3>1. /\ Cardinality(Typed(stdin)) \in Nat /\ Cardinality(Typed(commands)) \in Nat
            /\ Len(carried) \in Nat /\ written.inputs \in 0 .. MaxInputs /\ Sending \in {0, 1}
        BY <1>1, TypedCounts
      <3>2. Len(carried) <= written.inputs
        BY <3>1 DEF InputsBounded
      <3> QED BY ONLY <1>1, <2>1, <3>1, <3>2, FrameTypes
    <2>3. sent' \in 0 .. MaxInputs /\ frame' \in Frames
      <3>1. frame \in Nat \ {0} /\ Frames = 1 .. MaxInputs + 1
        BY <1>1, FrameTypes
      <3> QED BY ONLY <1>1, <1>4, <2>2, <3>1
    <2>4. TypeOK'
      BY <1>1, <1>4, <2>3 DEF LoopTop, TypeOK
    <2> QED BY <1>2, <2>1, <2>4 DEF Tracked
  <1>5. CASE /\ painted' \in 0 .. MaxNotices /\ ending' \in BOOLEAN
             /\ \E e \in {"notice", "closed", "failed"} : pending' = Append(pending, e)
             /\ UNCHANGED <<frame, sent>>
    <2>1. pending' \in Seq(Events)
      BY <1>1, <1>5, PendingTypes DEF Events, Ends
    <2>2. TypeOK'
      BY <1>1, <1>5, <2>1 DEF LoopTop, TypeOK
    <2>3. Tracked'
      BY <1>1, <1>2, <1>5, TrackedUnmoved
    <2> QED BY <1>2, <2>2, <2>3 DEF Tracked
  <1>6. painted < MaxNotices => painted + 1 \in 0 .. MaxNotices
    BY <1>1 DEF TypeOK
  <1>7. Poll => \/ UNCHANGED <<pending, ending, frame, sent, painted>>
                \/ /\ frame \in {carried[i] : i \in DOMAIN carried}
                   /\ sent' = frame /\ frame' = frame + 1
                   /\ UNCHANGED <<pending, ending, painted>>
                \/ /\ painted' \in 0 .. MaxNotices /\ ending' \in BOOLEAN
                   /\ \E e \in {"notice", "closed", "failed"} : pending' = Append(pending, e)
                   /\ UNCHANGED <<frame, sent>>
    BY <1>1, <1>6 DEF Poll, Fails, TypeOK
  <1> QED BY <1>3, <1>4, <1>5, <1>7 DEF LoopTop

LEMMA TakeCommandKeeps ==
    ASSUME IInv, TakeCommand
    PROVE  IInv'
  <1> USE DEF IInv, hostVars, relayVars, engineVars, sspVars, ghostVars
  <1>1. TypeOK /\ Tracked /\ MaxInputs \in Nat
    BY SessionAssumption DEF Tracked
  <1>2. /\ commands \in Seq(Command) /\ commands # <<>> /\ commands' = Tail(commands)
        /\ commands' \in Seq(Command)
        /\ UNCHANGED <<stdin, relay, written, frame, sent, received, acked, reported>>
    BY <1>1 DEF TakeCommand, TypeOK
  <1>3. /\ Cardinality(Typed(commands)) =
              Cardinality(Typed(commands')) + (IF Head(commands) \in Typing THEN 1 ELSE 0)
        /\ Cardinality(Typed(commands')) \in Nat
    BY <1>2, TypedTail, TypedFinite
  <1>4. CASE /\ Head(commands) = "input"
             /\ carried' = Append(carried, frame)
             /\ predictions' = Record(frame, Len(carried'))
             /\ UNCHANGED <<shutdown, pending, ending>>
    <2>1. carried' \in Seq(Frames) /\ Len(carried') = Len(carried) + 1
      BY <1>1, <1>4 DEF TypeOK
    <2>2. InputsBounded'
      <3>1. Cardinality(Typed(commands)) = Cardinality(Typed(commands')) + 1
        BY <1>3, <1>4 DEF Typing
      <3>2. Sending' = Sending /\ UNCHANGED <<stdin, written>>
        BY <1>2 DEF Sending
      <3> QED BY <1>1, <1>3, <2>1, <3>1, <3>2, TypedCounts DEF InputsBounded
    <2>3. Len(carried') \in 0 .. MaxInputs
      <3>1. Len(carried) + 1 <= written.inputs
        BY <1>1, <1>3, <1>4, TypedCounts DEF InputsBounded, Typing
      <3> QED BY <1>1, <2>1, <3>1, TypedCounts
    <2>4. predictions' \in [Frames -> 0 .. MaxInputs]
      BY <1>1, <1>4, <2>3 DEF Record, TypeOK
    <2>5. TypeOK'
      BY <1>1, <1>2, <1>4, <2>1, <2>4 DEF TakeCommand, TypeOK
    <2>6. Tracked'
      BY <1>1, <1>2, <1>4, InputRecorded
    <2> QED BY <2>2, <2>5, <2>6 DEF Tracked
  <1>5. CASE /\ UNCHANGED <<carried, predictions>>
             /\ shutdown' \in BOOLEAN /\ ending' \in BOOLEAN /\ pending' \in Seq(Events)
    <2>1. TypeOK'
      BY <1>1, <1>2, <1>5 DEF TakeCommand, TypeOK
    <2>2. Cardinality(Typed(commands')) <= Cardinality(Typed(commands))
      BY <1>3
    <2>3. InputsBounded'
      <3>1. Sending' = Sending /\ UNCHANGED <<stdin, written, carried>>
        BY <1>2, <1>5 DEF Sending
      <3> QED BY <1>1, <1>3, <2>2, <3>1, TypedCounts DEF InputsBounded
    <2>4. Tracked'
      BY <1>1, <1>2, <1>5, TrackedUnmoved
    <2> QED BY <2>1, <2>3, <2>4 DEF Tracked
  <1>6. /\ shutdown \in BOOLEAN /\ ending \in BOOLEAN /\ pending \in Seq(Events)
        /\ Append(pending, "failed") \in Seq(Events)
    BY <1>1, PendingTypes DEF TypeOK, Events, Ends
  <1> QED BY <1>4, <1>5, <1>6 DEF TakeCommand, Fails

LEMMA ReceiveKeeps ==
    ASSUME IInv, Receive
    PROVE  IInv'
  <1> USE DEF IInv, hostVars, relayVars, engineVars, sspVars, ghostVars
  <1>1. TypeOK /\ Tracked /\ MaxInputs \in Nat /\ MaxNotices \in Nat
    BY SessionAssumption DEF Tracked
  <1>2. /\ UNCHANGED <<frame, sent, received, carried>>
        /\ InputsBounded'
    BY BoundUnmoved DEF Receive
  <1>3. /\ <<>> \in Seq(Events) /\ <<"ack">> \in Seq(Events) /\ <<"closed">> \in Seq(Events)
        /\ <<"output", "output", "output">> \in Seq(Events)
        /\ Append(pending, "failed") \in Seq(Events)
    <2>1. "ack" \in Events /\ "closed" \in Events /\ "output" \in Events /\ "failed" \in Events
      BY DEF Events, Ends
    <2>2. Append(pending, "failed") \in Seq(Events)
      BY <1>1, <2>1, PendingTypes
    <2> QED BY <2>1, <2>2
  <1>4. CASE (\E f \in 1 .. received : Ack(f)) /\ UNCHANGED <<ending, painted>>
    <2>1. PICK f \in 1 .. received : Ack(f)
      BY <1>4
    <2>2. Tracked' /\ reported' \in 0 .. MaxInputs /\ acked' \in 0 .. MaxInputs
      BY <1>1, <1>2, <2>1, FrameAcknowledged DEF Ack
    <2>3. pending' \in Seq(Events) /\ predictions' \in [Frames -> 0 .. MaxInputs]
      BY <1>1, <1>3, <2>1 DEF Ack, Forgotten, TypeOK
    <2>4. TypeOK'
      BY <1>1, <1>4, <2>2, <2>3 DEF Receive, TypeOK
    <2> QED BY <1>2, <2>2, <2>4 DEF Tracked
  <1>5. CASE /\ UNCHANGED <<predictions, acked, reported>>
             /\ pending' \in Seq(Events) /\ ending' \in BOOLEAN /\ painted' \in 0 .. MaxNotices
    <2>1. TypeOK'
      BY <1>1, <1>5 DEF Receive, TypeOK
    <2>2. Tracked'
      BY <1>1, <1>2, <1>5, TrackedUnmoved
    <2> QED BY <1>2, <2>1, <2>2 DEF Tracked
  <1>6. painted < MaxNotices => painted + 1 \in 0 .. MaxNotices
    BY <1>1 DEF TypeOK
  <1>7. painted \in 0 .. MaxNotices /\ ending \in BOOLEAN
    BY <1>1 DEF TypeOK
  <1> QED BY <1>3, <1>4, <1>5, <1>6, <1>7 DEF Receive, Fails

\* The engine's other steps, and the server.
LEMMA OthersKeep ==
    ASSUME IInv, Deliver \/ Sleep \/ ServerReceives
    PROVE  IInv'
  <1> USE DEF IInv, hostVars, relayVars, engineVars, sspVars, ghostVars
  <1>1. TypeOK /\ Tracked /\ InputsBounded'
    BY BoundUnmoved DEF Tracked, Deliver, Sleep, ServerReceives
  <1>2. CASE Deliver
    <2>1. events' \in Seq(Events) /\ pending' \in Seq(Events)
      <3>1. pending \in Seq(Events) /\ pending # <<>>
        BY <1>1, <1>2 DEF Deliver, TypeOK
      <3>2. Head(pending) \in Events /\ Tail(pending) \in Seq(Events)
        BY <3>1
      <3> QED BY <1>1, <1>2, <3>2, PendingTypes DEF Deliver
    <2>2. TypeOK'
      BY <1>1, <1>2, <2>1 DEF Deliver, TypeOK
    <2>3. Tracked'
      BY <1>1, <1>2, TrackedUnmoved DEF Deliver
    <2> QED BY <1>1, <2>2, <2>3 DEF Tracked
  <1>3. CASE Sleep
    <2>1. TypeOK'
      BY <1>1, <1>3 DEF Sleep, TypeOK
    <2>2. Tracked'
      BY <1>1, <1>3, TrackedUnmoved DEF Sleep
    <2> QED BY <1>1, <2>1, <2>2 DEF Tracked
  <1>4. CASE ServerReceives
    <2>1. PICK f \in (received + 1) .. sent : received' = f
      BY <1>4 DEF ServerReceives
    <2>2. /\ received' \in 0 .. MaxInputs /\ received' <= sent /\ received' >= received
          /\ received \in Nat /\ sent \in Nat /\ acked \in Nat
      <3>1. received \in Nat /\ sent \in 0 .. MaxInputs /\ acked \in Nat
        <4>1. received \in 0 .. MaxInputs /\ sent \in 0 .. MaxInputs /\ acked \in 0 .. MaxInputs
          BY <1>1 DEF TypeOK
        <4> QED BY ONLY <4>1
      <3>2. received' \in Nat /\ received' <= sent /\ received' > received
        BY ONLY <2>1, <3>1
      <3>3. MaxInputs \in Nat
        BY SessionAssumption
      <3> QED BY ONLY <3>1, <3>2, <3>3
    <2>3. TypeOK'
      BY <1>1, <1>4, <2>2 DEF ServerReceives, TypeOK
    <2>4. Tracked'
      BY <1>1, <1>4, <2>2 DEF ServerReceives, Tracked, FramesInStep, CarriedAscend, MapHolds,
         ReportedLast
    <2> QED BY <1>1, <2>3, <2>4 DEF Tracked
  <1> QED BY <1>2, <1>3, <1>4

\* What the inductive invariant says, in every reachable state and for all bounds.
THEOREM Invariance == Spec => []IInv
  <1>1. ASSUME IInv, [Next]_vars PROVE IInv'
    <2>1. CASE UNCHANGED vars
      BY <1>1, <2>1 DEF vars, hostVars, relayVars, engineVars, sspVars, ghostVars, IInv, TypeOK,
         InputsBounded, Sending, FramesInStep, CarriedAscend, MapHolds, ReportedLast
    <2> QED BY <1>1, <2>1, HostKeeps, RelayKeeps, LoopTopKeeps, TakeCommandKeeps, ReceiveKeeps,
            OthersKeep DEF Next, Engine
  <1> QED BY <1>1, InitInv, PTL DEF Spec

\* engine.rs, PredictionIdMap: what the host is told of its predictions is exact,
\* though frames carry several inputs, are acknowledged together, late or twice.
THEOREM PredictionsConfirmedExactly == Spec => []PredictionsExact
  <1>1. ASSUME IInv PROVE PredictionsExact
    <2>1. TypeOK /\ acked <= received
      BY <1>1 DEF IInv, FramesInStep
    <2>2. {i \in DOMAIN carried : carried[i] <= acked} = 1 .. reported
      BY <1>1, <2>1, FrameTypes DEF IInv, ReportedLast
    <2>3. Cardinality(1 .. reported) = reported
      BY <2>1, FrameTypes, FS_Interval
    <2> QED BY <2>1, <2>2, <2>3 DEF PredictionsExact
  <1> QED BY <1>1, Invariance, PTL

=============================================================================
