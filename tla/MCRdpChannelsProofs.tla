-------------------------- MODULE MCRdpChannelsProofs --------------------------
(***************************************************************************)
(* Theorems about the parts of MCRdpChannels, for every value of their     *)
(* bounds: the microphone's packets are announced and of the newest        *)
(* capture, the server has the newest display layout, Control-V pastes the *)
(* text it is typed for and no copy is lost, and the event writer writes   *)
(* each frame once.  The last is proved in RdpEventWriterProofs of the     *)
(* writer alone, and holds of the writer that is a part of the sum.        *)
(***************************************************************************)
EXTENDS MCRdpChannels, TLAPS, SequenceTheorems, FiniteSetTheorems

-----------------------------------------------------------------------------
(* The microphone.  Its queue is v1, its flag v2, the inputs v3; see         *)
(* MCRdpChannels.                                                            *)

LEMMA PushedPackets ==
    ASSUME NEW S, NEW q \in Seq(S), NEW n \in S, Len(q) <= Packets
    PROVE  LET new == Microphone!Pushed(q, n)
           IN  /\ new \in Seq(S) /\ Len(new) <= Packets
               /\ \A i \in DOMAIN new : new[i] = n \/ \E j \in DOMAIN q : new[i] = q[j]
  <1> DEFINE kept == IF Len(q) = Packets THEN Tail(q) ELSE q
  <1>1. Packets \in Nat \ {0}
    BY BoundsAssumption
  <1>2. /\ kept \in Seq(S) /\ Len(kept) \in Nat /\ Len(kept) + 1 <= Packets
        /\ \A i \in 1 .. Len(kept) : \E j \in DOMAIN q : kept[i] = q[j]
    <2>1. CASE Len(q) = Packets
      <3>1. q # <<>>
        BY <1>1, <2>1
      <3>2. /\ Tail(q) \in Seq(S) /\ Len(Tail(q)) = Len(q) - 1
            /\ \A i \in 1 .. Len(Tail(q)) : Tail(q)[i] = q[i + 1] /\ i + 1 \in DOMAIN q
        BY <3>1
      <3> QED BY <1>1, <2>1, <3>2
    <2>2. CASE Len(q) # Packets
      BY <1>1, <2>2
    <2> QED BY <2>1, <2>2
  <1> HIDE DEF kept
  <1>3. /\ Append(kept, n) \in Seq(S) /\ Len(Append(kept, n)) = Len(kept) + 1
        /\ \A i \in DOMAIN Append(kept, n) :
              \/ i = Len(kept) + 1 /\ Append(kept, n)[i] = n
              \/ i \in 1 .. Len(kept) /\ Append(kept, n)[i] = kept[i]
    BY ONLY <1>2, AppendProperties, n \in S
  <1>4. Microphone!Pushed(q, n) = Append(kept, n)
    BY DEF kept, Microphone!Pushed
  <1>5. Len(Append(kept, n)) <= Packets
    BY ONLY <1>2, <1>3
  <1>6. \A i \in DOMAIN Append(kept, n) :
           Append(kept, n)[i] = n \/ \E j \in DOMAIN q : Append(kept, n)[i] = q[j]
    BY ONLY <1>2, <1>3
  <1> QED BY ONLY <1>3, <1>4, <1>5, <1>6

LEMMA MicrophoneInit == Microphone!Init => Microphone!Inv
  <1>1. Captures \in Nat /\ ReadyInputs \in Nat /\ Packets \in Nat
    BY BoundsAssumption
  <1>2. <<>> \in Seq(1 .. Captures) /\ Len(<<>>) = 0 /\ DOMAIN <<>> = {}
    OBVIOUS
  <1> SUFFICES ASSUME Microphone!Init PROVE Microphone!Inv
    OBVIOUS
  <1>3. /\ v1 = <<>> /\ v2 = FALSE /\ v3 = 0 /\ v4 = "idle" /\ v5 = "idle" /\ v6 = <<>>
        /\ v7 = FALSE /\ v8 = 0 /\ v9 = 0 /\ v10 = "none" /\ v11.packets = <<>>
    BY DEF Microphone!Init
  <1>4. Microphone!TypeOK
    <2>1. v1 \in Seq(1 .. Captures) /\ v6 \in Seq(1 .. Captures) /\ Len(v1) = 0
      BY ONLY <1>2, <1>3
    <2>2. Len(v1) <= Packets /\ v3 \in 0 .. ReadyInputs + 1 /\ v9 \in 0 .. Captures
      BY ONLY <1>1, <1>3, <2>1
    <2> QED BY ONLY Zenon, <1>3, <2>1, <2>2 DEF Microphone!TypeOK
  <1>5. Microphone!PacketsOfNewest /\ Microphone!OnlyTheNewest
    BY ONLY <1>2, <1>3 DEF Microphone!PacketsOfNewest, Microphone!OnlyTheNewest
  <1> QED BY <1>3, <1>4, <1>5
          DEF Microphone!Inv, Microphone!FlagIsHeard, Microphone!NothingUnheard

LEMMA MicrophonePush == Microphone!Inv /\ Microphone!Push => Microphone!Inv'
  <1> SUFFICES ASSUME Microphone!Inv, Microphone!Push PROVE Microphone!Inv'
    OBVIOUS
  <1> DEFINE new == Microphone!Pushed(v1, v8)
  <1>1. /\ v1 \in Seq(1 .. Captures) /\ Len(v1) <= Packets /\ v8 \in 1 .. Captures /\ v8 = v9
        /\ \A i \in DOMAIN v1 : v1[i] = v9
    BY BoundsAssumption DEF Microphone!Push, Microphone!Inv, Microphone!TypeOK,
       Microphone!PacketsOfNewest
  <1>2. /\ new \in Seq(1 .. Captures) /\ Len(new) <= Packets
        /\ \A i \in DOMAIN new : new[i] = v9
    <2>1. /\ new \in Seq(1 .. Captures) /\ Len(new) <= Packets
          /\ \A i \in DOMAIN new : new[i] = v8 \/ \E j \in DOMAIN v1 : new[i] = v1[j]
      <3> DEFINE S == 1 .. Captures
      <3>1. v1 \in Seq(S) /\ v8 \in S /\ Len(v1) <= Packets
        BY ONLY <1>1
      <3> HIDE DEF S
      <3>2. /\ new \in Seq(S) /\ Len(new) <= Packets
            /\ \A i \in DOMAIN new : new[i] = v8 \/ \E j \in DOMAIN v1 : new[i] = v1[j]
        BY <3>1, PushedPackets
      <3> QED BY ONLY <3>2 DEF S
    <2> QED BY ONLY <1>1, <2>1
  <1> HIDE DEF new
  <1>3. v1' = new /\ v4' = "pushed" /\ UNCHANGED <<v2, v3, v5, v6, v7, v8, v9, v10, v11>>
    BY DEF Microphone!Push, new
  <1> QED
    BY <1>2, <1>3 DEF Microphone!Inv, Microphone!TypeOK, Microphone!FlagIsHeard,
                Microphone!NothingUnheard, Microphone!PacketsOfNewest, Microphone!OnlyTheNewest

\* swap(true) and the input leave the flag heard, and an input waiting.
LEMMA MicrophoneAnnounces ==
    ASSUME Microphone!Inv, Microphone!Announced, v3 <= ReadyInputs, v5 # "taken"
    PROVE  v2' = TRUE /\ v3' > 0 /\ v3' \in 0 .. ReadyInputs + 1
  BY BoundsAssumption DEF Microphone!Announced, Microphone!Inv, Microphone!TypeOK,
     Microphone!FlagIsHeard

LEMMA MicrophoneNotify == Microphone!Inv /\ Microphone!Notify => Microphone!Inv'
  <1> SUFFICES ASSUME Microphone!Inv, Microphone!Notify PROVE Microphone!Inv'
    OBVIOUS
  <1>1. v2' = TRUE /\ v3' \in 0 .. ReadyInputs + 1 /\ (v3' > 0 \/ v5 = "taken")
    BY BoundsAssumption
    DEF Microphone!Notify, Microphone!Announced, Microphone!Inv, Microphone!TypeOK, Microphone!FlagIsHeard
  <1> QED
    BY <1>1 DEF Microphone!Notify, Microphone!Inv, Microphone!TypeOK, Microphone!FlagIsHeard,
                Microphone!NothingUnheard, Microphone!PacketsOfNewest, Microphone!OnlyTheNewest

LEMMA MicrophoneDrain ==
    Microphone!Inv /\ (Microphone!Take \/ Microphone!Clear \/ Microphone!Check \/ Microphone!Rearm)
       => Microphone!Inv'
  <1> SUFFICES ASSUME Microphone!Inv,
                      Microphone!Take \/ Microphone!Clear \/ Microphone!Check \/ Microphone!Rearm
               PROVE  Microphone!Inv'
    OBVIOUS
  <1> USE DEF Microphone!Inv, Microphone!TypeOK, Microphone!FlagIsHeard,
              Microphone!NothingUnheard, Microphone!PacketsOfNewest, Microphone!OnlyTheNewest
  <1>1. CASE Microphone!Take
    BY <1>1, BoundsAssumption DEF Microphone!Take
  <1>2. CASE Microphone!Clear
    BY Zenon, <1>2 DEF Microphone!Clear
  <1>3. CASE Microphone!Check
    BY <1>3 DEF Microphone!Check
  <1>4. CASE Microphone!Rearm
    <2>1. v2' = TRUE /\ v3' > 0 /\ v3' \in 0 .. ReadyInputs + 1
      BY Zenon, <1>4, MicrophoneAnnounces DEF Microphone!Rearm
    <2> QED BY <1>4, <2>1 DEF Microphone!Rearm
  <1> QED BY <1>1, <1>2, <1>3, <1>4

LEMMA MicrophoneServer ==
    Microphone!Inv /\ (Microphone!ProcessFormats \/ Microphone!ProcessOpen \/ Microphone!Close)
       => Microphone!Inv'
  <1> SUFFICES ASSUME Microphone!Inv,
                      Microphone!ProcessFormats \/ Microphone!ProcessOpen \/ Microphone!Close
               PROVE  Microphone!Inv'
    OBVIOUS
  <1> USE DEF Microphone!Inv, Microphone!TypeOK, Microphone!FlagIsHeard,
              Microphone!NothingUnheard, Microphone!PacketsOfNewest, Microphone!OnlyTheNewest
  <1>1. CASE Microphone!ProcessFormats
    BY <1>1 DEF Microphone!ProcessFormats
  <1>2. CASE Microphone!ProcessOpen /\ ~v7
    BY <1>2 DEF Microphone!ProcessOpen
  <1>3. CASE Microphone!ProcessOpen /\ v7
    <2>1. /\ v5 = "idle" /\ v3 <= ReadyInputs /\ v4 = "idle" /\ v9 < Captures /\ v9' = v9 + 1
          /\ UNCHANGED <<v4, v5, v6, v7, v11>>
      BY <1>3 DEF Microphone!ProcessOpen, Microphone!Start, Microphone!Stopped
    <2>2. /\ v8' \in {0, v9'} /\ v10' \in {"open", "refused"}
          /\ \/ v1' = <<>> /\ v2' = FALSE /\ v3' = v3
             \/ v1' = <<v9'>> /\ v2' = TRUE /\ v3' = v3 + 1
      BY <1>3 DEF Microphone!ProcessOpen, Microphone!Start
    <2>3. v9' \in 1 .. Captures /\ v3' \in 0 .. ReadyInputs + 1 /\ (v2' => v3' > 0) /\ v2' \in BOOLEAN
      <3>1. v9 \in Nat /\ v3 \in 0 .. ReadyInputs + 1 /\ Captures \in Nat /\ ReadyInputs \in Nat
        BY BoundsAssumption
      <3>2. v9' \in 1 .. Captures
        BY ONLY <2>1, <3>1
      <3>3. v3' \in 0 .. ReadyInputs + 1 /\ (v2' => v3' > 0)
        BY ONLY <2>1, <2>2, <3>1
      <3> QED BY ONLY Zenon, <2>2, <3>2, <3>3
    <2>4. /\ v1' \in Seq(1 .. Captures) /\ Len(v1') <= Packets
          /\ \A i \in DOMAIN v1' : v1'[i] = v9'
          /\ v1' # <<>> => v3' > 0
      <3>1. Packets \in Nat \ {0}
        BY BoundsAssumption
      <3>2. CASE v1' = <<>>
        BY ONLY <3>1, <3>2
      <3>3. CASE v1' = <<v9'>> /\ v2' = TRUE
        BY ONLY <2>3, <3>1, <3>3
      <3> QED BY ONLY Zenon, <2>2, <3>2, <3>3
    <2>5. v6 = <<>>
      BY <2>1
    <2> QED BY <2>1, <2>2, <2>3, <2>4, <2>5
  <1>4. CASE Microphone!Close
    <2>1. /\ v1' = <<>> /\ v2' = FALSE /\ v8' = 0 /\ v10' = "none"
          /\ UNCHANGED <<v3, v4, v5, v6, v7, v9, v11>>
      BY <1>4 DEF Microphone!Close
    <2>2. v1' \in Seq(1 .. Captures) /\ Len(v1') <= Packets /\ DOMAIN v1' = {}
      <3>1. Packets \in Nat
        BY BoundsAssumption
      <3> QED BY ONLY <2>1, <3>1
    <2> QED BY Zenon, <2>1, <2>2
  <1> QED BY <1>1, <1>2, <1>3, <1>4

LEMMA MicrophoneStep == Microphone!Inv /\ [Microphone!Next]_(Microphone!vars) => Microphone!Inv'
  <1>1. Microphone!Inv /\ UNCHANGED Microphone!vars => Microphone!Inv'
    BY DEF Microphone!vars, Microphone!Inv, Microphone!TypeOK, Microphone!FlagIsHeard,
           Microphone!NothingUnheard, Microphone!PacketsOfNewest, Microphone!OnlyTheNewest
  <1> QED
    BY <1>1, MicrophonePush, MicrophoneNotify, MicrophoneDrain, MicrophoneServer
    DEF Microphone!Next

-----------------------------------------------------------------------------
(* The display.  Its viewport and monitors are v1 and v2, the layout sent v5, *)
(* the server's v10; the last window and monitors of the host v13 and v14.    *)

LEMMA LayoutRecords ==
    /\ \A n \in 0 .. Monitors, i \in 0 .. Wishes : Display!Layout(n, i) \in Display!Layouts
    /\ \A n, i : Display!Layout(n, i).count = n /\ Display!Layout(n, i).id = i
    /\ Display!NoLayout \in Display!Layouts /\ Display!NoLayout.count = 0
    /\ \A l \in Display!Layouts : l.count \in 0 .. Monitors /\ l.id \in 0 .. Wishes
  <1>1. Monitors \in Nat /\ Wishes \in Nat
    BY BoundsAssumption
  <1> QED BY <1>1 DEF Display!Layout, Display!Layouts, Display!NoLayout

\* The state that holds the newest layout holds one.
LEMMA WantedIsNewest ==
    ASSUME Display!Inv
    PROVE  Display!Wanted = Display!Newest /\ Display!Wanted.count > 0
  <1>1. /\ v1.count = 1 /\ v13.count = 1 /\ v14.count > 0
        /\ v3 /\ v14.count > 1 => v2 = v14
        /\ ~(v3 /\ v14.count > 1) => v2 = Display!NoLayout /\ v1 = Display!Newest
    BY DEF Display!Inv, Display!StateHasNewest
  <1>2. CASE v3 /\ v14.count > 1
    BY <1>1, <1>2, LayoutRecords DEF Display!Wanted, Display!Newest
  <1>3. CASE ~(v3 /\ v14.count > 1)
    BY <1>1, <1>3 DEF Display!Wanted
  <1> QED BY <1>2, <1>3

LEMMA DisplayInit == Display!Init => Display!Inv
  <1> SUFFICES ASSUME Display!Init PROVE Display!Inv
    OBVIOUS
  <1>1. PICK n \in 1 .. Monitors :
          /\ v2 = IF v3 /\ n > 1 THEN Display!Layout(n, 0) ELSE Display!NoLayout
          /\ v14 = Display!Layout(n, 0)
    BY DEF Display!Init
  <1>2. /\ v3 \in BOOLEAN /\ v1 = Display!Layout(1, 0) /\ v4 = 0 /\ v5 = Display!NoLayout
        /\ v6 = FALSE /\ v7 = FALSE /\ v8 = TRUE /\ v9 = <<>> /\ v11 = 0
        /\ v13 = Display!Layout(1, 0)
    BY DEF Display!Init
  <1>3. Monitors \in Nat \ {0} /\ Wishes \in Nat /\ n \in 0 .. Monitors /\ n \in Nat \ {0}
    BY BoundsAssumption
  <1>4. /\ v1 \in Display!Layouts /\ v13 \in Display!Layouts /\ v14 \in Display!Layouts
        /\ v2 \in Display!Layouts /\ v5 \in Display!Layouts
        /\ v1.count = 1 /\ v13.count = 1 /\ v14.count = n /\ v13.id = 0 /\ v14.id = 0
    BY <1>1, <1>2, <1>3, LayoutRecords
  <1>5. Display!TypeOK
    <2>1. v4 \in 0 .. Monitors
      BY ONLY <1>2, <1>3
    <2> QED BY ONLY Zenon, <1>2, <1>4, <2>1 DEF Display!TypeOK
  <1>6. Display!WishesAscend
    <2>1. v9 \in Seq(Display!WishRecords) /\ DOMAIN v9 = {}
      BY <1>2
    <2> QED BY <1>2, <1>3, <1>4, <2>1 DEF Display!WishesAscend
  <1>7. Display!StateHasNewest
    <2>1. CASE v3 /\ n > 1
      BY <1>1, <1>3, <1>4, <2>1 DEF Display!StateHasNewest
    <2>2. CASE ~(v3 /\ n > 1)
      BY <1>1, <1>2, <1>3, <1>4, <2>2 DEF Display!StateHasNewest, Display!Newest
    <2> QED BY <2>1, <2>2
  <1>8. Display!SentIsServers
    BY <1>2 DEF Display!SentIsServers
  <1> QED BY <1>5, <1>6, <1>7, <1>8 DEF Display!Inv

LEMMA DisplayWish == Display!Inv /\ Display!Wish => Display!Inv'
  <1> SUFFICES ASSUME Display!Inv, Display!Wish PROVE Display!Inv'
    OBVIOUS
  <1>1. PICK resize \in BOOLEAN, n \in 0 .. Monitors :
          v9' = Append(v9, [resize |-> resize, count |-> IF resize THEN 1 ELSE n, id |-> v11'])
    BY DEF Display!Wish
  <1> DEFINE wish == [resize |-> resize, count |-> IF resize THEN 1 ELSE n, id |-> v11']
  <1>2. /\ v11 < Wishes /\ v11' = v11 + 1
        /\ UNCHANGED <<v1, v2, v3, v4, v5, v6, v7, v8, v10, v13, v14>>
    BY DEF Display!Wish
  <1>3. /\ v11 \in Nat /\ Wishes \in Nat /\ Monitors \in Nat \ {0} /\ v11' \in 1 .. Wishes
        /\ v13 \in Display!Layouts /\ v14 \in Display!Layouts
        /\ v13.id <= v11 /\ v14.id <= v11 /\ v13.id \in Nat /\ v14.id \in Nat
        /\ v9 \in Seq(Display!WishRecords)
    BY <1>2, BoundsAssumption, LayoutRecords DEF Display!Inv, Display!WishesAscend
  <1>4. wish \in Display!WishRecords /\ wish.id = v11 + 1 /\ (wish.resize => wish.count = 1)
    BY <1>2, <1>3 DEF Display!WishRecords
  <1> HIDE DEF wish
  <1>5. /\ v9' \in Seq(Display!WishRecords) /\ DOMAIN v9' = 1 .. Len(v9) + 1 /\ Len(v9) \in Nat
        /\ DOMAIN v9 = 1 .. Len(v9)
        /\ v9'[Len(v9) + 1] = wish
        /\ \A i \in 1 .. Len(v9) : v9'[i] = v9[i]
    BY <1>1, <1>3, <1>4 DEF wish
  <1>6. \A i \in DOMAIN v9 :
           /\ v9[i].resize => v9[i].count = 1
           /\ v13.id < v9[i].id /\ v14.id < v9[i].id /\ v9[i].id <= v11
           /\ v9[i].id \in Nat
           /\ \A j \in DOMAIN v9 : i < j => v9[i].id < v9[j].id
    <2>1. \A i \in DOMAIN v9 : v9[i] \in Display!WishRecords
      BY <1>3
    <2>2. \A i \in DOMAIN v9 : v9[i].id \in Nat
      BY <1>3, <2>1 DEF Display!WishRecords
    <2> QED BY <2>2 DEF Display!Inv, Display!WishesAscend
  <1>7. \A i \in DOMAIN v9' :
           /\ v9'[i].resize => v9'[i].count = 1
           /\ v13.id < v9'[i].id /\ v14.id < v9'[i].id /\ v9'[i].id <= v11'
           /\ \A j \in DOMAIN v9' : i < j => v9'[i].id < v9'[j].id
    <2> SUFFICES ASSUME NEW i \in DOMAIN v9'
                 PROVE  /\ v9'[i].resize => v9'[i].count = 1
                        /\ v13.id < v9'[i].id /\ v14.id < v9'[i].id /\ v9'[i].id <= v11'
                        /\ \A j \in DOMAIN v9' : i < j => v9'[i].id < v9'[j].id
      OBVIOUS
    <2>1. CASE i = Len(v9) + 1
      BY ONLY <1>2, <1>3, <1>4, <1>5, <2>1
    <2>2. CASE i \in DOMAIN v9
      <3>1. i \in 1 .. Len(v9) /\ v9'[i] = v9[i] /\ v9[i].id \in Nat /\ v9[i].id <= v11
        BY ONLY <1>5, <1>6, <2>2
      <3>2. ASSUME NEW j \in DOMAIN v9', i < j
            PROVE  v9'[i].id < v9'[j].id
        <4>1. CASE j = Len(v9) + 1
          BY ONLY <1>2, <1>3, <1>4, <1>5, <3>1, <4>1
        <4>2. CASE j \in DOMAIN v9
          BY ONLY <1>5, <1>6, <2>2, <3>1, <3>2, <4>2
        <4> QED BY ONLY <1>5, <4>1, <4>2, <3>2
      <3>3. v9'[i].id <= v11'
        BY ONLY <1>2, <1>3, <3>1
      <3> QED BY ONLY <1>6, <2>2, <3>1, <3>2, <3>3
    <2> QED BY ONLY <1>5, <2>1, <2>2
  <1>8. Display!WishesAscend'
    <2>1. v11' \in 0 .. Wishes /\ v13.id <= v11' /\ v14.id <= v11'
      BY ONLY <1>2, <1>3
    <2> QED BY <1>2, <1>3, <1>5, <1>7, <2>1 DEF Display!WishesAscend
  <1>9. Display!TypeOK' /\ Display!StateHasNewest' /\ Display!SentIsServers'
    BY <1>2 DEF Display!Inv, Display!TypeOK, Display!StateHasNewest, Display!Newest,
                Display!SentIsServers, Display!Wanted
  <1> QED BY <1>8, <1>9 DEF Display!Inv

\* A layout that is taken up is what the server has, or has already, or ends the session.
LEMMA TakenUp ==
    ASSUME NEW layout, NEW max, NEW last, Display!TakeUpdate(layout, max, last),
           max # 0, v8' # FALSE
    PROVE  v5' = layout /\ (v10' = layout \/ (layout = last /\ v10' = v10))
  BY Zenon DEF Display!TakeUpdate

LEMMA TakenTypes ==
    ASSUME NEW layout \in Display!Layouts, NEW max, NEW last \in Display!Layouts,
           Display!TakeUpdate(layout, max, last), v8 \in BOOLEAN
    PROVE  v5' \in Display!Layouts /\ v8' \in BOOLEAN /\ (v8' => v8)
  BY Zenon DEF Display!TakeUpdate

\* What follows the session loop's look at the state, with the newest layout in it.
LEMMA Encoded ==
    ASSUME Display!Inv, NEW layout \in Display!Layouts, Display!Encode(layout),
           UNCHANGED <<v4, v6>>
    PROVE  /\ v5' \in Display!Layouts /\ v8' \in BOOLEAN
           /\ v8' /\ v6' => v4' > 0 /\ v10' = v5' /\ v5' = layout
  <1>1. /\ v5 \in Display!Layouts /\ v8 \in BOOLEAN /\ v6 \in BOOLEAN
        /\ v8 /\ v6 => v4 > 0 /\ v10 = v5
    BY DEF Display!Inv, Display!TypeOK, Display!SentIsServers
  <1>2. CASE v6
    <2>1. Display!TakeUpdate(layout, v4, v5)
      BY <1>2 DEF Display!Encode
    <2>2. v5' \in Display!Layouts /\ v8' \in BOOLEAN /\ (v8' => v8)
      BY ONLY <1>1, <2>1, TakenTypes, layout \in Display!Layouts
    <2>3. ASSUME v8' PROVE v4' > 0 /\ v10' = v5' /\ v5' = layout
      <3>1. v8 /\ v4 > 0 /\ v4 # 0 /\ v10 = v5 /\ v4' = v4
        BY <1>1, <1>2, <2>2, <2>3
      <3>2. v5' = layout /\ (v10' = layout \/ (layout = v5 /\ v10' = v10))
        BY <2>1, <2>3, <3>1, TakenUp
      <3> QED BY ONLY <3>1, <3>2
    <2> QED BY <2>2, <2>3
  <1>3. CASE ~v6
    BY <1>1, <1>3 DEF Display!Encode
  <1> QED BY <1>1, <1>2, <1>3

\* resize and update_monitors leave the newest layout where it is looked for.
LEMMA InputTaken ==
    ASSUME Display!Inv, Display!TakeInput
    PROVE  /\ Display!WishesAscend' /\ Display!StateHasNewest'
           /\ v1' \in Display!Layouts /\ v2' \in Display!Layouts
  <1> DEFINE input  == Head(v9)
             layout == Display!Layout(input.count, input.id)
             taken  == v3 /\ input.count > 0
  <1>1. /\ v9 # <<>> /\ v9' = Tail(v9) /\ v3' = v3 /\ v11' = v11
        /\ v1' = IF input.resize \/ (taken /\ input.count = 1) THEN layout ELSE v1
        /\ v2' = IF input.resize \/ ~taken THEN v2
                 ELSE IF input.count > 1 THEN layout ELSE Display!NoLayout
        /\ v13' = IF input.resize THEN layout ELSE v13
        /\ v14' = IF input.resize \/ input.count = 0 THEN v14 ELSE layout
    BY DEF Display!TakeInput
  <1>2. /\ v9 \in Seq(Display!WishRecords) /\ Len(v9) \in Nat /\ DOMAIN v9 = 1 .. Len(v9)
        /\ v11 \in 0 .. Wishes
        /\ v1 \in Display!Layouts /\ v2 \in Display!Layouts
        /\ v13 \in Display!Layouts /\ v14 \in Display!Layouts
        /\ v13.id <= v11 /\ v14.id <= v11
        /\ \A i \in DOMAIN v9 :
              /\ v9[i].resize => v9[i].count = 1
              /\ v13.id < v9[i].id /\ v14.id < v9[i].id /\ v9[i].id <= v11
              /\ \A j \in DOMAIN v9 : i < j => v9[i].id < v9[j].id
    BY DEF Display!Inv, Display!WishesAscend, Display!TypeOK
  <1>3. /\ input = v9[1] /\ 1 \in DOMAIN v9 /\ input \in Display!WishRecords
        /\ Tail(v9) \in Seq(Display!WishRecords) /\ DOMAIN Tail(v9) = 1 .. Len(v9) - 1
        /\ \A i \in DOMAIN Tail(v9) : Tail(v9)[i] = v9[i + 1] /\ i + 1 \in DOMAIN v9
    BY <1>1, <1>2
  <1>4. /\ input.resize \in BOOLEAN /\ input.count \in 0 .. Monitors /\ input.id \in 1 .. Wishes
        /\ input.resize => input.count = 1
        /\ v13.id < input.id /\ v14.id < input.id /\ input.id <= v11
    BY <1>2, <1>3 DEF Display!WishRecords
  <1>5. /\ layout \in Display!Layouts /\ layout.count = input.count /\ layout.id = input.id
        /\ Display!NoLayout \in Display!Layouts /\ Display!NoLayout.count = 0
        /\ Wishes \in Nat /\ Monitors \in Nat
        /\ v13.id \in 0 .. Wishes /\ v14.id \in 0 .. Wishes
        /\ v13.count \in 0 .. Monitors /\ v14.count \in 0 .. Monitors
    <2>1. Wishes \in Nat /\ Monitors \in Nat
      BY BoundsAssumption
    <2>2. input.id \in 0 .. Wishes
      BY ONLY <1>4, <2>1
    <2> QED BY <1>2, <1>4, <2>1, <2>2, LayoutRecords
  <1> HIDE DEF layout, input
  <1>6. /\ v1' \in Display!Layouts /\ v2' \in Display!Layouts
        /\ v13' \in Display!Layouts /\ v14' \in Display!Layouts
    BY ONLY <1>1, <1>2, <1>5
  <1>7. v13'.id <= input.id /\ v14'.id <= input.id /\ v13'.id <= v11 /\ v14'.id <= v11
    BY ONLY <1>1, <1>2, <1>4, <1>5
  <1>8. \A i \in DOMAIN v9' :
           /\ v9'[i].resize => v9'[i].count = 1
           /\ v13'.id < v9'[i].id /\ v14'.id < v9'[i].id /\ v9'[i].id <= v11
           /\ \A j \in DOMAIN v9' : i < j => v9'[i].id < v9'[j].id
    <2> SUFFICES ASSUME NEW i \in DOMAIN Tail(v9)
                 PROVE  /\ v9[i + 1].resize => v9[i + 1].count = 1
                        /\ v13'.id < v9[i + 1].id /\ v14'.id < v9[i + 1].id
                        /\ v9[i + 1].id <= v11
                        /\ \A j \in DOMAIN Tail(v9) : i < j => v9[i + 1].id < v9[j + 1].id
      BY <1>1, <1>3
    <2>1. i \in Nat \ {0} /\ i + 1 \in DOMAIN v9 /\ i + 1 \in Nat /\ 1 < i + 1
      BY ONLY <1>2, <1>3
    <2>2. input.id < v9[i + 1].id /\ v9[i + 1].id <= v11 /\ v9[i + 1].id \in Nat
      <3>1. v9[i + 1] \in Display!WishRecords
        BY ONLY <1>2, <2>1
      <3>2. v9[i + 1].id \in Nat
        BY <1>5, <3>1 DEF Display!WishRecords
      <3> QED BY ONLY <1>2, <1>3, <2>1, <3>2
    <2>3. v13'.id \in Nat /\ v14'.id \in Nat /\ input.id \in Nat
      BY ONLY <1>1, <1>4, <1>5
    <2>4. v13'.id < v9[i + 1].id /\ v14'.id < v9[i + 1].id
      BY ONLY <1>7, <2>2, <2>3
    <2>5. \A j \in DOMAIN Tail(v9) : i < j => v9[i + 1].id < v9[j + 1].id
      BY ONLY <1>2, <1>3, <2>1
    <2>6. v9[i + 1].resize => v9[i + 1].count = 1
      BY ONLY <1>2, <2>1
    <2> QED BY ONLY <2>2, <2>4, <2>5, <2>6
  <1>9. Display!WishesAscend'
    <2>1. v9' \in Seq(Display!WishRecords)
      BY ONLY <1>1, <1>3
    <2>2. v11' \in 0 .. Wishes /\ v13'.id <= v11' /\ v14'.id <= v11'
      BY ONLY <1>1, <1>2, <1>7
    <2> QED BY <1>1, <1>6, <1>8, <2>1, <2>2 DEF Display!WishesAscend
  <1>10. Display!StateHasNewest'
    <2>1. /\ v1.count = 1 /\ v13.count = 1 /\ v14.count > 0
          /\ v3 /\ v14.count > 1 => v2 = v14
          /\ ~(v3 /\ v14.count > 1) => v2 = Display!NoLayout /\ v1 = Display!Newest
          /\ v3 \in BOOLEAN
      BY DEF Display!Inv, Display!StateHasNewest, Display!TypeOK
    <2>2. v1'.count = 1 /\ v13'.count = 1 /\ v14'.count > 0
      BY ONLY <1>1, <1>4, <1>5, <2>1
    <2>3. CASE input.resize
      <3>1. v1' = layout /\ v2' = v2 /\ v13' = layout /\ v14' = v14 /\ v14.id < layout.id
        BY ONLY <1>1, <1>4, <1>5, <2>3
      <3>2. ~(v14.id > layout.id)
        BY ONLY <1>4, <1>5, <3>1
      <3> QED BY <1>1, <2>1, <2>2, <3>1, <3>2 DEF Display!StateHasNewest, Display!Newest
    <2>4. CASE ~input.resize /\ input.count = 0
      <3>1. UNCHANGED <<v1, v2, v13, v14>>
        BY ONLY <1>1, <2>4
      <3> QED BY <1>1, <2>1, <3>1 DEF Display!StateHasNewest, Display!Newest
    <2>5. CASE ~input.resize /\ input.count > 0 /\ ~v3
      <3>1. v1' = v1 /\ v2' = v2 /\ v13' = v13
        BY ONLY <1>1, <2>5
      <3>2. v2 = Display!NoLayout /\ v1 = v13
        BY <2>1, <2>5 DEF Display!Newest
      <3> QED BY <1>1, <2>2, <2>5, <3>1, <3>2 DEF Display!StateHasNewest, Display!Newest
    <2>6. CASE ~input.resize /\ input.count > 1 /\ v3
      <3>1. v2' = layout /\ v14' = layout /\ v14'.count > 1 /\ v3'
        BY ONLY <1>1, <1>4, <1>5, <2>6
      <3> QED BY <2>2, <3>1 DEF Display!StateHasNewest
    <2>7. CASE ~input.resize /\ input.count = 1 /\ v3
      <3>1. /\ v1' = layout /\ v2' = Display!NoLayout /\ v14' = layout /\ v13' = v13 /\ v3'
            /\ layout.count = 1 /\ layout.id > v13.id
        BY ONLY <1>1, <1>4, <1>5, <2>7
      <3> QED BY <2>2, <3>1 DEF Display!StateHasNewest, Display!Newest
    <2> QED BY ONLY <1>4, <2>1, <2>3, <2>4, <2>5, <2>6, <2>7
  <1> QED BY <1>6, <1>9, <1>10

LEMMA DisplayTakeInput == Display!Inv /\ Display!TakeInput => Display!Inv'
  <1> SUFFICES ASSUME Display!Inv, Display!TakeInput PROVE Display!Inv'
    OBVIOUS
  <1>1. /\ Display!WishesAscend' /\ Display!StateHasNewest'
        /\ v1' \in Display!Layouts /\ v2' \in Display!Layouts
    BY InputTaken
  <1>2. /\ v8 /\ UNCHANGED <<v3, v4, v6, v7>>
        /\ IF v7 THEN UNCHANGED <<v5, v10, v8>> ELSE Display!Encode(Display!Wanted')
    BY Zenon DEF Display!TakeInput
  <1>3. PICK layout : layout = Display!Wanted'
    OBVIOUS
  <1>4. layout \in Display!Layouts
    BY <1>1, <1>3 DEF Display!Wanted
  <1>5. /\ v5' \in Display!Layouts /\ v8' \in BOOLEAN
        /\ v8' /\ v6' => v4' > 0 /\ v10' = v5' /\ (v7' \/ v5' = layout)
    <2>1. CASE v7
      BY <1>2, <2>1 DEF Display!Inv, Display!TypeOK, Display!SentIsServers
    <2>2. CASE ~v7
      <3>1. Display!Encode(layout)
        BY <1>2, <1>3, <2>2
      <3> QED BY <1>2, <1>4, <3>1, Encoded
    <2> QED BY <2>1, <2>2
  <1>6. Display!TypeOK'
    BY <1>1, <1>2, <1>5 DEF Display!Inv, Display!TypeOK
  <1>7. Display!SentIsServers'
    BY <1>3, <1>5 DEF Display!SentIsServers
  <1> QED BY <1>1, <1>6, <1>7 DEF Display!Inv

LEMMA DisplayServerOpens == Display!Inv /\ Display!ServerOpens => Display!Inv'
  <1> SUFFICES ASSUME Display!Inv, Display!ServerOpens PROVE Display!Inv'
    OBVIOUS
  <1>1. PICK max \in 1 .. Monitors :
          v4' = max /\ Display!TakeUpdate(Display!Wanted, max, Display!NoLayout)
    BY DEF Display!ServerOpens, Display!Capabilities
  <1>2. UNCHANGED <<v1, v2, v3, v7, v9, v11, v13, v14>> /\ v6' = TRUE
    BY DEF Display!ServerOpens
  <1>3. /\ Display!Wanted \in Display!Layouts /\ Display!Wanted.count > 0
        /\ Display!NoLayout \in Display!Layouts /\ Display!NoLayout.count = 0
        /\ v8 \in BOOLEAN
    BY WantedIsNewest, LayoutRecords DEF Display!Wanted, Display!Inv, Display!TypeOK
  <1>4. v5' \in Display!Layouts /\ v8' \in BOOLEAN
    BY <1>1, <1>3, TakenTypes
  <1>5. v4' \in 0 .. Monitors /\ v4' > 0 /\ max # 0
    BY <1>1, BoundsAssumption
  <1>6. ASSUME v8' PROVE v5' = Display!Wanted /\ v10' = v5'
    <2>1. Display!Wanted # Display!NoLayout
      BY <1>3
    <2> QED BY <1>1, <1>5, <1>6, <2>1, TakenUp
  <1>7. Display!TypeOK'
    BY <1>2, <1>4, <1>5 DEF Display!Inv, Display!TypeOK
  <1>8. Display!WishesAscend' /\ Display!StateHasNewest'
    BY <1>2 DEF Display!Inv, Display!WishesAscend, Display!StateHasNewest, Display!Newest
  <1>9. Display!SentIsServers'
    BY <1>2, <1>5, <1>6 DEF Display!SentIsServers, Display!Wanted
  <1> QED BY <1>7, <1>8, <1>9 DEF Display!Inv

LEMMA DisplayOthers ==
    Display!Inv /\ (Display!ServerCloses \/ Display!Deactivate \/ Display!Reactivate
                      \/ UNCHANGED Display!vars)
       => Display!Inv'
  <1> SUFFICES ASSUME Display!Inv,
                      Display!ServerCloses \/ Display!Deactivate \/ Display!Reactivate
                        \/ UNCHANGED Display!vars
               PROVE  Display!Inv'
    OBVIOUS
  <1>1. UNCHANGED <<v1, v2, v3, v4, v9, v11, v13, v14>>
    BY DEF Display!ServerCloses, Display!Deactivate, Display!Reactivate, Display!vars
  <1>2. Display!WishesAscend' /\ Display!StateHasNewest'
    BY <1>1 DEF Display!Inv, Display!WishesAscend, Display!StateHasNewest, Display!Newest
  <1>3. Display!Wanted \in Display!Layouts /\ Display!Wanted' = Display!Wanted
    BY <1>1 DEF Display!Inv, Display!TypeOK, Display!Wanted
  <1>4. /\ v5' \in Display!Layouts /\ v8' \in BOOLEAN /\ v6' \in BOOLEAN /\ v7' \in BOOLEAN
        /\ Display!SentIsServers'
    <2> USE DEF Display!Inv, Display!TypeOK, Display!SentIsServers
    <2>1. CASE Display!ServerCloses
      BY Zenon, <1>1, <2>1 DEF Display!ServerCloses
    <2>2. CASE Display!Deactivate
      BY <1>1, <1>3, <2>2 DEF Display!Deactivate
    <2>3. CASE Display!Reactivate
      <3>1. /\ Display!Encode(Display!Wanted) /\ v7' = FALSE /\ v6' = v6
        BY <2>3 DEF Display!Reactivate
      <3>2. /\ v5' \in Display!Layouts /\ v8' \in BOOLEAN
            /\ v8' /\ v6' => v4' > 0 /\ v10' = v5' /\ v5' = Display!Wanted
        BY <1>1, <1>3, <3>1, Encoded
      <3> QED BY Zenon, <1>3, <3>1, <3>2
    <2>4. CASE UNCHANGED Display!vars
      BY <1>1, <1>3, <2>4 DEF Display!vars
    <2> QED BY <2>1, <2>2, <2>3, <2>4
  <1>5. Display!TypeOK'
    BY <1>1, <1>4 DEF Display!Inv, Display!TypeOK
  <1> QED BY <1>2, <1>4, <1>5 DEF Display!Inv

LEMMA DisplayStep == Display!Inv /\ [Display!Next]_(Display!vars) => Display!Inv'
  BY DisplayWish, DisplayTakeInput, DisplayServerOpens, DisplayOthers DEF Display!Next

-----------------------------------------------------------------------------
(* The event writer, of which RdpEventWriterProofs proves the invariant. *)

WriterProofs == INSTANCE RdpEventWriterProofs WITH
    MaxFrames <- WriterFrames, MaxControls <- WriterControls, queue <- v1,
    stdoutThread <- v2, held <- v3, batch <- v4, sender <- v5, open <- v6, out <- v7,
    sent <- v8, controls <- v9, superseded <- v10, lost <- v11

\* It is the same writer.
LEMMA SameWriter ==
    /\ Writer!Init => WriterProofs!Init
    /\ [Writer!Next]_(Writer!vars) => [WriterProofs!Next]_(WriterProofs!vars)
  <1>1. Writer!Init => WriterProofs!Init
    BY DEF Writer!Init, WriterProofs!Init
  <1>2. \A kind : Writer!SendFrame(kind) => WriterProofs!SendFrame(kind)
    BY DEF Writer!SendFrame, Writer!PushBase, Writer!PushDirty, Writer!Item,
           Writer!FramesOf, Writer!Mergeable,
           WriterProofs!SendFrame, WriterProofs!PushBase, WriterProofs!PushDirty,
           WriterProofs!Item, WriterProofs!FramesOf, WriterProofs!Mergeable
  <1>3. /\ Writer!SendControl => WriterProofs!SendControl
        /\ Writer!SendTerminal => WriterProofs!SendTerminal
    BY DEF Writer!SendControl, Writer!SendTerminal, Writer!Drain, Writer!ControlOf,
           Writer!threadVars, Writer!sentVars,
           WriterProofs!SendControl, WriterProofs!SendTerminal, WriterProofs!Drain,
           WriterProofs!ControlOf, WriterProofs!threadVars, WriterProofs!sentVars
  <1>4. Writer!WriteBatch => WriterProofs!WriteBatch
    BY DEF Writer!WriteBatch, Writer!FramesOf, Writer!threadVars, Writer!sentVars,
           WriterProofs!WriteBatch, WriterProofs!FramesOf, WriterProofs!threadVars,
           WriterProofs!sentVars
  <1>5. /\ Writer!Take => WriterProofs!Take
        /\ Writer!Wait => WriterProofs!Wait
        /\ Writer!WriteHeld => WriterProofs!WriteHeld
    BY DEF Writer!Take, Writer!Wait, Writer!WriteHeld, Writer!FramesOf, Writer!sentVars,
           WriterProofs!Take, WriterProofs!Wait, WriterProofs!WriteHeld,
           WriterProofs!FramesOf, WriterProofs!sentVars
  <1>6. /\ Writer!WakeSpuriously => WriterProofs!WakeSpuriously
        /\ Writer!HostCloses => WriterProofs!HostCloses
        /\ Writer!Exit => WriterProofs!Exit
        /\ UNCHANGED Writer!vars => UNCHANGED WriterProofs!vars
    BY DEF Writer!WakeSpuriously, Writer!HostCloses, Writer!Exit, Writer!vars,
           Writer!threadVars, Writer!sentVars,
           WriterProofs!WakeSpuriously, WriterProofs!HostCloses, WriterProofs!Exit,
           WriterProofs!vars, WriterProofs!threadVars, WriterProofs!sentVars
  <1>7. Writer!Next => WriterProofs!Next
    BY <1>2, <1>3, <1>4, <1>5, <1>6
    DEF Writer!Next, Writer!Send, Writer!StdoutStep, Writer!FrameKinds,
        WriterProofs!Next, WriterProofs!Send, WriterProofs!StdoutStep,
        WriterProofs!FrameKinds
  <1> QED BY <1>1, <1>6, <1>7

LEMMA WriterInit == Writer!Init => WriterProofs!IInv
  BY SameWriter, WriterProofs!InitInv

LEMMA WriterStepKeeps ==
    WriterProofs!IInv /\ [Writer!Next]_(Writer!vars) => WriterProofs!IInv'
  BY SameWriter, WriterProofs!InvStep

LEMMA WriterKeeps ==
    WriterProofs!IInv => /\ Writer!EveryFrameOnce /\ Writer!OneFrameBehindControl
                         /\ Writer!OvertakenOnlyByControl /\ Writer!NothingLeftAtExit
  <1> SUFFICES ASSUME WriterProofs!IInv
               PROVE  /\ Writer!EveryFrameOnce /\ Writer!OneFrameBehindControl
                      /\ Writer!OvertakenOnlyByControl /\ Writer!NothingLeftAtExit
    OBVIOUS
  <1>1. Writer!EveryFrameOnce
    <2>1. WriterProofs!EveryFrameOnce
      BY WriterProofs!CountedOnce
    <2> QED
      BY Zenon, <2>1 DEF Writer!EveryFrameOnce, Writer!Places, Writer!Cardinality,
                  WriterProofs!EveryFrameOnce, WriterProofs!Places, WriterProofs!Cardinality
  <1>2. Writer!OneFrameBehindControl
    <2>1. WriterProofs!OneFrameBehindControl
      BY WriterProofs!OneBehind
    <2> QED
      BY Zenon, <2>1 DEF Writer!OneFrameBehindControl, Writer!IsControl, Writer!Older,
                  Writer!Cardinality, WriterProofs!OneFrameBehindControl,
                  WriterProofs!IsControl, WriterProofs!Older, WriterProofs!Cardinality
  <1>3. Writer!OvertakenOnlyByControl
    <2>1. WriterProofs!OvertakenOnlyByControl
      BY DEF WriterProofs!IInv
    <2> QED
      BY <2>1 DEF Writer!OvertakenOnlyByControl, Writer!IsControl, Writer!Older,
                  WriterProofs!OvertakenOnlyByControl, WriterProofs!IsControl,
                  WriterProofs!Older
  <1>4. Writer!NothingLeftAtExit
    <2>1. WriterProofs!NothingLeftAtExit
      BY WriterProofs!ExitEmpties
    <2> QED
      BY <2>1 DEF Writer!NothingLeftAtExit, Writer!FramesOf,
                  WriterProofs!NothingLeftAtExit, WriterProofs!FramesOf
  <1> QED BY <1>1, <1>2, <1>3, <1>4

-----------------------------------------------------------------------------
(* The clipboard: the queues, and the messages of a type on them.  What the  *)
(* host copied last is v1, the counts of lists v2, the paste v3, the inputs  *)
(* v6 and those put off v8, the queues to the server and back v9 and v10,    *)
(* the server's clipboard v11, the text to paste v16; see Clipboard.         *)

Of(q, type)      == {i \in DOMAIN q : q[i].type = type}
Count(q, type)   == Cardinality(Of(q, type))
UpTo(q, type, i) == Cardinality({j \in Of(q, type) : j <= i})

LEMMA BehindIs ==
    ASSUME NEW S, NEW q \in Seq(S), NEW m \in S
    PROVE  /\ Append(q, m) \in Seq(S) /\ Len(q) \in Nat
           /\ DOMAIN q = 1 .. Len(q) /\ DOMAIN Append(q, m) = 1 .. Len(q) + 1
           /\ Append(q, m)[Len(q) + 1] = m
           /\ \A i \in DOMAIN q : Append(q, m)[i] = q[i]
  BY AppendProperties

LEMMA TailIs ==
    ASSUME NEW S, NEW q \in Seq(S), q # <<>>
    PROVE  /\ Tail(q) \in Seq(S) /\ Len(q) \in Nat \ {0} /\ Head(q) \in S
           /\ DOMAIN q = 1 .. Len(q) /\ DOMAIN Tail(q) = 1 .. Len(q) - 1
           /\ Head(q) = q[1]
           /\ \A i \in DOMAIN Tail(q) : Tail(q)[i] = q[i + 1]
  OBVIOUS

LEMMA OfBehind ==
    ASSUME NEW S, NEW q \in Seq(S), NEW m \in S, NEW type
    PROVE  /\ \A i \in Of(q, type) : /\ i \in Nat /\ i < Len(q) + 1
                                     /\ i \in Of(Append(q, m), type)
                                     /\ Append(q, m)[i] = q[i]
           /\ \A i \in Of(Append(q, m), type) :
                i \in Of(q, type) \/ (i = Len(q) + 1 /\ m.type = type)
           /\ Len(q) \in Nat /\ Append(q, m)[Len(q) + 1] = m
           /\ m.type = type => Len(q) + 1 \in Of(Append(q, m), type)
           /\ m.type = type => Of(Append(q, m), type) = Of(q, type) \cup {Len(q) + 1}
           /\ m.type # type => Of(Append(q, m), type) = Of(q, type)
  <1>1. /\ Len(q) \in Nat /\ DOMAIN q = 1 .. Len(q) /\ DOMAIN Append(q, m) = 1 .. Len(q) + 1
        /\ Append(q, m)[Len(q) + 1] = m
        /\ \A i \in DOMAIN q : Append(q, m)[i] = q[i]
    BY BehindIs
  <1>2. /\ \A i \in Of(q, type) : /\ i \in Nat /\ i < Len(q) + 1
                                  /\ i \in Of(Append(q, m), type)
                                  /\ Append(q, m)[i] = q[i]
        /\ \A i \in Of(Append(q, m), type) :
             i \in Of(q, type) \/ (i = Len(q) + 1 /\ m.type = type)
        /\ m.type = type => Len(q) + 1 \in Of(Append(q, m), type)
    BY ONLY <1>1 DEF Of
  <1> QED BY ONLY Zenon, <1>1, <1>2

LEMMA OfTail ==
    ASSUME NEW S, NEW q \in Seq(S), q # <<>>, NEW type
    PROVE  /\ \A i \in Of(Tail(q), type) : /\ i \in Nat \ {0} /\ i + 1 \in Of(q, type)
                                           /\ Tail(q)[i] = q[i + 1]
           /\ \A i \in Of(q, type) :
                /\ i \in Nat \ {0}
                /\ (i = 1 /\ q[i] = Head(q) /\ Head(q).type = type)
                     \/ (i - 1 \in Of(Tail(q), type) /\ Tail(q)[i - 1] = q[i])
           /\ Head(q).type = type => 1 \in Of(q, type)
           /\ Head(q) = q[1]
  <1>1. /\ Len(q) \in Nat \ {0} /\ DOMAIN q = 1 .. Len(q) /\ DOMAIN Tail(q) = 1 .. Len(q) - 1
        /\ Head(q) = q[1] /\ \A i \in DOMAIN Tail(q) : Tail(q)[i] = q[i + 1]
    BY TailIs
  <1>2. ASSUME NEW i \in Of(Tail(q), type)
        PROVE  i \in Nat \ {0} /\ i + 1 \in Of(q, type) /\ Tail(q)[i] = q[i + 1]
    BY ONLY <1>1, <1>2 DEF Of
  <1>3. ASSUME NEW i \in Of(q, type)
        PROVE  /\ i \in Nat \ {0}
               /\ (i = 1 /\ q[i] = Head(q) /\ Head(q).type = type)
                    \/ (i - 1 \in Of(Tail(q), type) /\ Tail(q)[i - 1] = q[i])
    <2>1. i \in DOMAIN q /\ q[i].type = type
      BY <1>3 DEF Of
    <2>2. CASE i # 1
      <3>1. i - 1 \in DOMAIN Tail(q) /\ (i - 1) + 1 = i
        BY ONLY <1>1, <2>1, <2>2
      <3>2. Tail(q)[i - 1] = q[i]
        BY ONLY <1>1, <3>1
      <3> QED BY ONLY <1>1, <2>1, <3>1, <3>2 DEF Of
    <2> QED BY ONLY <1>1, <2>1, <2>2
  <1>4. Head(q).type = type => 1 \in Of(q, type)
    BY ONLY <1>1 DEF Of
  <1> QED BY ONLY Zenon, <1>1, <1>2, <1>3, <1>4

LEMMA CountIs ==
    ASSUME NEW S, NEW q \in Seq(S), NEW type
    PROVE  /\ IsFiniteSet(Of(q, type)) /\ Count(q, type) \in Nat
           /\ \A i : UpTo(q, type, i) \in Nat /\ UpTo(q, type, i) <= Count(q, type)
           /\ Of(q, type) # {} => Count(q, type) > 0
  <1>1. Of(q, type) \subseteq 1 .. Len(q) /\ Len(q) \in Nat
    BY DEF Of
  <1>2. IsFiniteSet(1 .. Len(q))
    BY ONLY <1>1, FS_Interval
  <1>3. IsFiniteSet(Of(q, type))
    BY ONLY <1>1, <1>2, FS_Subset
  <1>4. Cardinality(Of(q, type)) \in Nat
    BY ONLY <1>3, FS_CardinalityType
  <1>5. ASSUME NEW i
        PROVE  UpTo(q, type, i) \in Nat /\ UpTo(q, type, i) <= Count(q, type)
    <2>1. {j \in Of(q, type) : j <= i} \subseteq Of(q, type)
      OBVIOUS
    <2>2. /\ IsFiniteSet({j \in Of(q, type) : j <= i})
          /\ Cardinality({j \in Of(q, type) : j <= i}) <= Cardinality(Of(q, type))
      BY ONLY <1>3, <2>1, FS_Subset
    <2>3. Cardinality({j \in Of(q, type) : j <= i}) \in Nat
      BY ONLY <2>2, FS_CardinalityType
    <2> QED BY ONLY <2>2, <2>3 DEF UpTo, Count
  <1>6. Of(q, type) # {} => Cardinality(Of(q, type)) # 0
    BY ONLY <1>3, FS_EmptySet
  <1> QED BY ONLY <1>3, <1>4, <1>5, <1>6 DEF Count

LEMMA CountBehind ==
    ASSUME NEW S, NEW q \in Seq(S), NEW m \in S, NEW type
    PROVE  /\ \A i \in Of(q, type) : UpTo(Append(q, m), type, i) = UpTo(q, type, i)
           /\ m.type = type =>
                /\ Count(Append(q, m), type) = Count(q, type) + 1
                /\ UpTo(Append(q, m), type, Len(q) + 1) = Count(q, type) + 1
           /\ m.type # type => Count(Append(q, m), type) = Count(q, type)
  <1> DEFINE n == Len(q)  a == Append(q, m)
  <1>1. /\ \A i \in Of(q, type) : i \in Nat /\ i < n + 1
        /\ n \in Nat
        /\ m.type = type => Of(a, type) = Of(q, type) \cup {n + 1}
        /\ m.type # type => Of(a, type) = Of(q, type)
    BY OfBehind
  <1>2. IsFiniteSet(Of(q, type)) /\ Count(q, type) \in Nat
    BY CountIs
  <1> HIDE DEF n, a
  <1>3. ASSUME NEW i \in Of(q, type)
        PROVE  UpTo(a, type, i) = UpTo(q, type, i)
    <2>1. {j \in Of(a, type) : j <= i} = {j \in Of(q, type) : j <= i}
      BY ONLY <1>1, <1>3
    <2> QED BY ONLY Zenon, <2>1 DEF UpTo
  <1>4. ASSUME m.type = type
        PROVE  Count(a, type) = Count(q, type) + 1 /\ UpTo(a, type, n + 1) = Count(q, type) + 1
    <2>1. n + 1 \notin Of(q, type)
      BY ONLY <1>1
    <2>2. Cardinality(Of(q, type) \cup {n + 1}) = Cardinality(Of(q, type)) + 1
      BY ONLY Zenon, <1>2, <2>1, FS_AddElement
    <2>3. {j \in Of(a, type) : j <= n + 1} = Of(a, type)
      BY ONLY <1>1, <1>4
    <2> QED BY ONLY Zenon, <1>1, <1>4, <2>2, <2>3 DEF Count, UpTo
  <1>5. m.type # type => Count(a, type) = Count(q, type)
    BY ONLY <1>1 DEF Count
  <1> QED BY ONLY <1>3, <1>4, <1>5 DEF n, a

\* Counting without the first of a queue.
LEMMA CountAfter ==
    ASSUME NEW T, NEW U, IsFiniteSet(T), NEW f \in [U -> T],
           \A i, j \in U : f[i] = f[j] => i = j, \A k \in T : \E i \in U : f[i] = k
    PROVE  Cardinality(U) = Cardinality(T)
  <1>1. f \in Injection(U, T) /\ f \in Surjection(U, T)
    BY DEF Injection, Surjection, IsInjective
  <1>2. Cardinality(U) = Cardinality(T) <=> f \in Surjection(U, T)
    BY ONLY <1>1, IsFiniteSet(T), FS_Injection
  <1> QED BY ONLY <1>1, <1>2

LEMMA CountTail ==
    ASSUME NEW S, NEW q \in Seq(S), q # <<>>, NEW type
    PROVE  /\ Head(q).type = type =>
                /\ Count(q, type) = Count(Tail(q), type) + 1
                /\ UpTo(q, type, 1) = 1
                /\ \A i \in Of(Tail(q), type) : UpTo(q, type, i + 1) = UpTo(Tail(q), type, i) + 1
           /\ Head(q).type # type =>
                /\ Count(q, type) = Count(Tail(q), type)
                /\ \A i \in Of(Tail(q), type) : UpTo(q, type, i + 1) = UpTo(Tail(q), type, i)
  <1> DEFINE r == Tail(q)  A == Of(q, type)  B == Of(r, type)
  <1>1. /\ \A i \in B : i \in Nat \ {0} /\ i + 1 \in A
        /\ \A i \in A : i \in Nat \ {0} /\ ((i = 1 /\ Head(q).type = type) \/ i - 1 \in B)
        /\ Head(q).type = type => 1 \in A
    BY OfTail
  <1>2. 1 \in A => Head(q).type = type
    BY OfTail DEF Of
  <1>3. IsFiniteSet(A) /\ IsFiniteSet(B)
    <2>1. r \in Seq(S)
      BY TailIs
    <2> QED BY Zenon, <2>1, CountIs
  <1> HIDE DEF r, A, B
  <1>4. ASSUME NEW n \in Nat
        PROVE  Cardinality({j \in B : j <= n}) = Cardinality({j \in A : j <= n + 1} \ {1})
    <2> DEFINE U == {j \in B : j <= n}  T == {j \in A : j <= n + 1} \ {1}
               f == [j \in U |-> j + 1]
    <2>1. f \in [U -> T]
      BY ONLY <1>1, <1>4
    <2>2. \A i, j \in U : f[i] = f[j] => i = j
      BY ONLY <1>1
    <2>3. ASSUME NEW k \in T PROVE \E i \in U : f[i] = k
      <3>1. k \in Nat \ {0, 1} /\ k - 1 \in B /\ k <= n + 1
        BY ONLY <1>1, <2>3
      <3>2. k - 1 \in U /\ (k - 1) + 1 = k
        BY ONLY <3>1, n \in Nat
      <3>3. f[k - 1] = k
        BY ONLY <3>2
      <3> QED BY ONLY <3>2, <3>3
    <2>4. IsFiniteSet(T)
      <3>1. T \subseteq A
        OBVIOUS
      <3> HIDE DEF T
      <3> QED BY ONLY <1>3, <3>1, FS_Subset
    <2> HIDE DEF U, T, f
    <2>5. Cardinality(U) = Cardinality(T)
      BY ONLY <2>1, <2>2, <2>3, <2>4, CountAfter
    <2> QED BY ONLY <2>5 DEF U, T
  <1>5. Cardinality(B) = Cardinality(A \ {1})
    <2> DEFINE T == A \ {1}  f == [j \in B |-> j + 1]
    <2>1. f \in [B -> T]
      BY ONLY <1>1
    <2>2. \A i, j \in B : f[i] = f[j] => i = j
      BY ONLY <1>1
    <2>3. ASSUME NEW k \in T PROVE \E i \in B : f[i] = k
      <3>1. k \in Nat \ {0, 1} /\ k - 1 \in B
        BY ONLY <1>1, <2>3
      <3>2. f[k - 1] = k
        BY ONLY <3>1
      <3> QED BY ONLY <3>1, <3>2
    <2>4. IsFiniteSet(T)
      BY ONLY Zenon, <1>3, FS_RemoveElement
    <2> HIDE DEF T, f
    <2>5. Cardinality(B) = Cardinality(T)
      BY ONLY <2>1, <2>2, <2>3, <2>4, CountAfter
    <2> QED BY ONLY <2>5 DEF T
  <1>6. ASSUME NEW n \in Nat
        PROVE  /\ IsFiniteSet({j \in A : j <= n + 1})
               /\ Cardinality({j \in A : j <= n + 1}) \in Nat
    <2>1. {j \in A : j <= n + 1} \subseteq A
      OBVIOUS
    <2>2. IsFiniteSet({j \in A : j <= n + 1})
      BY ONLY <1>3, <2>1, FS_Subset
    <2> QED BY ONLY <2>2, FS_CardinalityType
  <1>7. Cardinality(A) \in Nat
    BY ONLY <1>3, FS_CardinalityType
  <1>8. ASSUME 1 \in A
        PROVE  /\ Cardinality(A) = Cardinality(B) + 1
               /\ \A n \in Nat : Cardinality({j \in A : j <= n + 1})
                                   = Cardinality({j \in B : j <= n}) + 1
    <2>1. Cardinality(A \ {1}) = Cardinality(A) - 1
      BY ONLY Zenon, <1>3, <1>8, FS_RemoveElement
    <2>2. ASSUME NEW n \in Nat
          PROVE  Cardinality({j \in A : j <= n + 1}) = Cardinality({j \in B : j <= n}) + 1
      <3>1. 1 \in {j \in A : j <= n + 1}
        BY ONLY <1>8, n \in Nat
      <3>2. Cardinality({j \in A : j <= n + 1} \ {1}) = Cardinality({j \in A : j <= n + 1}) - 1
        BY ONLY Zenon, <1>6, <3>1, FS_RemoveElement
      <3>3. Cardinality({j \in A : j <= n + 1} \ {1}) = Cardinality({j \in B : j <= n})
        BY ONLY n \in Nat, <1>4
      <3>4. Cardinality({j \in A : j <= n + 1}) \in Nat
        BY ONLY Zenon, n \in Nat, <1>6
      <3> QED BY ONLY <3>2, <3>3, <3>4
    <2> QED BY ONLY <1>5, <1>7, <2>1, <2>2
  <1>9. ASSUME 1 \notin A
        PROVE  /\ Cardinality(A) = Cardinality(B)
               /\ \A n \in Nat : Cardinality({j \in A : j <= n + 1})
                                   = Cardinality({j \in B : j <= n})
    <2>1. A \ {1} = A
      BY ONLY <1>9
    <2>2. ASSUME NEW n \in Nat
          PROVE  Cardinality({j \in A : j <= n + 1}) = Cardinality({j \in B : j <= n})
      <3>1. {j \in A : j <= n + 1} \ {1} = {j \in A : j <= n + 1}
        BY ONLY <1>9
      <3> QED BY ONLY <1>4, <3>1
    <2> QED BY ONLY Zenon, <1>5, <2>1, <2>2
  <1>10. ASSUME 1 \in A
         PROVE  Cardinality({j \in A : j <= 1}) = 1
    <2>1. {j \in A : j <= 1} = {1}
      BY ONLY <1>1, <1>10
    <2> QED BY ONLY Zenon, <2>1, FS_Singleton
  <1> QED BY ONLY Zenon, <1>1, <1>2, <1>8, <1>9, <1>10 DEF Count, UpTo, A, B, r

\* What the invariant says of each queue.
Holds(q, type)     == Of(q, type) # {}
Due(q, generation) == \E i \in Of(q, "shortcut") : q[i].generation = generation

Busy(q)               == Of(q, "fetch") \cup Of(q, "data")
Idle(q)               == Busy(q) = {}
Fetching(q, kind)     == \E i \in Of(q, "fetch") : Busy(q) = {i} /\ q[i].kind = kind
Giving(q, kind, from) == \E i \in Of(q, "data") : /\ Busy(q) = {i} /\ q[i].kind = kind
                                                  /\ q[i].ok /\ q[i].id = from.id

Says(content, id)        == content.kind = "text" /\ content.id = id
Pasteable(from, id, known) == \/ from.who = "client" /\ from.id = id
                              \/ from.who = "server" /\ from.id > known

ListsSay(q, id) == \A i \in Of(q, "list") : Says(q[i], id)
KeysMeet(q, from) ==
    \A i \in Of(q, "keys") :
        /\ Pasteable(from, q[i].id, q[i].seen)
        /\ \A j \in Of(q, "list") : j < i => Says(q[j], q[i].id)

\* The lists and answers from the one numbered n on, after base others.
ListsFrom(q, base, n, id) ==
    \A i \in Of(q, "list") : base + UpTo(q, "list", i) >= n => Says(q[i], id)
AnswersFrom(q, base, n, from, id, known) ==
    \A i \in Of(q, "answer") :
        base + UpTo(q, "answer", i) = n /\ q[i].ok => Pasteable(from, id, known)

NewestIs(q, from) ==
    \A i \in Of(q, "copied") :
        from.who = "server" /\ (\A j \in Of(q, "copied") : j <= i)
        => q[i].kinds = from.kinds /\ q[i].id = from.id

LEMMA HoldsIs ==
    ASSUME NEW S, NEW q \in Seq(S), NEW type
    PROVE  /\ \A m \in S : Holds(q, type) \/ m.type = type <=> Holds(Append(q, m), type)
           /\ q # <<>> => (Holds(q, type) <=> Holds(Tail(q), type) \/ Head(q).type = type)
           /\ ~ Holds(<<>>, type)
  <1>1. ASSUME NEW m \in S
        PROVE  Holds(q, type) \/ m.type = type <=> Holds(Append(q, m), type)
    <2>1. /\ \A i \in Of(q, type) : i \in Of(Append(q, m), type)
          /\ \A i \in Of(Append(q, m), type) : i \in Of(q, type) \/ m.type = type
          /\ m.type = type => Len(q) + 1 \in Of(Append(q, m), type)
      BY OfBehind
    <2> QED BY ONLY <2>1 DEF Holds
  <1>2. ASSUME q # <<>>
        PROVE  Holds(q, type) <=> Holds(Tail(q), type) \/ Head(q).type = type
    <2>1. /\ \A i \in Of(Tail(q), type) : i + 1 \in Of(q, type)
          /\ \A i \in Of(q, type) : Head(q).type = type \/ i - 1 \in Of(Tail(q), type)
          /\ Head(q).type = type => 1 \in Of(q, type)
      BY <1>2, OfTail
    <2> QED BY ONLY <2>1 DEF Holds
  <1>3. ~ Holds(<<>>, type)
    BY DEF Holds, Of
  <1> QED BY ONLY <1>1, <1>2, <1>3

LEMMA DueIs ==
    ASSUME NEW S, NEW q \in Seq(S), NEW n
    PROVE  /\ \A m \in S : Due(q, n) => Due(Append(q, m), n)
           /\ \A m \in S : m.type = "shortcut" /\ m.generation = n => Due(Append(q, m), n)
           /\ q # <<>> /\ Due(q, n) =>
                Due(Tail(q), n) \/ (Head(q).type = "shortcut" /\ Head(q).generation = n)
           /\ ~ Due(<<>>, n)
  <1>1. ASSUME NEW m \in S
        PROVE  /\ Due(q, n) => Due(Append(q, m), n)
               /\ m.type = "shortcut" /\ m.generation = n => Due(Append(q, m), n)
    <2>1. /\ Len(q) \in Nat /\ DOMAIN q = 1 .. Len(q) /\ DOMAIN Append(q, m) = 1 .. Len(q) + 1
          /\ Append(q, m)[Len(q) + 1] = m
          /\ \A i \in DOMAIN q : Append(q, m)[i] = q[i]
      BY BehindIs
    <2>2. \A i \in Of(q, "shortcut") : /\ i \in Of(Append(q, m), "shortcut")
                                       /\ Append(q, m)[i] = q[i]
      BY ONLY <2>1 DEF Of
    <2>3. m.type = "shortcut" => Len(q) + 1 \in Of(Append(q, m), "shortcut")
      BY ONLY <2>1 DEF Of
    <2> QED BY ONLY Zenon, <2>1, <2>2, <2>3 DEF Due
  <1>2. ASSUME q # <<>>, Due(q, n)
        PROVE  Due(Tail(q), n) \/ (Head(q).type = "shortcut" /\ Head(q).generation = n)
    <2>1. \A i \in Of(q, "shortcut") :
            \/ i = 1 /\ q[i] = Head(q) /\ Head(q).type = "shortcut"
            \/ i - 1 \in Of(Tail(q), "shortcut") /\ Tail(q)[i - 1] = q[i]
      BY ONLY q \in Seq(S), <1>2, OfTail, Zenon
    <2> QED BY ONLY Zenon, <1>2, <2>1 DEF Due
  <1>3. ~ Due(<<>>, n)
    BY DEF Due, Of
  <1> QED BY ONLY <1>1, <1>2, <1>3

LEMMA BusyBehind ==
    ASSUME NEW S, NEW q \in Seq(S), NEW m \in S
    PROVE  /\ m.type \notin {"fetch", "data"} =>
                /\ Idle(q) => Idle(Append(q, m))
                /\ \A kind : Fetching(q, kind) => Fetching(Append(q, m), kind)
                /\ \A kind, from : Giving(q, kind, from) => Giving(Append(q, m), kind, from)
           /\ m.type = "fetch" /\ Idle(q) => Fetching(Append(q, m), m.kind)
           /\ \A from : m.type = "data" /\ m.ok /\ m.id = from.id /\ Idle(q)
                        => Giving(Append(q, m), m.kind, from)
           /\ Idle(Append(q, m)) => Idle(q) /\ m.type \notin {"fetch", "data"}
  <1> DEFINE a == Append(q, m)
  <1>1. /\ \A t \in {"fetch", "data"} : /\ \A i \in Of(q, t) : i \in Of(a, t) /\ a[i] = q[i]
                                        /\ m.type = t => Of(a, t) = Of(q, t) \cup {Len(q) + 1}
                                        /\ m.type # t => Of(a, t) = Of(q, t)
        /\ a[Len(q) + 1] = m
    <2>1. ASSUME NEW t \in {"fetch", "data"}
          PROVE  /\ \A i \in Of(q, t) : i \in Of(a, t) /\ a[i] = q[i]
                 /\ m.type = t => Of(a, t) = Of(q, t) \cup {Len(q) + 1}
                 /\ m.type # t => Of(a, t) = Of(q, t)
      <3>0. /\ Len(q) \in Nat /\ DOMAIN q = 1 .. Len(q) /\ DOMAIN Append(q, m) = 1 .. Len(q) + 1
            /\ Append(q, m)[Len(q) + 1] = m
            /\ \A i \in DOMAIN q : Append(q, m)[i] = q[i]
        BY BehindIs
      <3>1. \A i \in Of(q, t) : i \in Of(a, t) /\ a[i] = q[i]
        BY ONLY <3>0 DEF Of
      <3>2. m.type = t => Of(a, t) = Of(q, t) \cup {Len(q) + 1}
        BY ONLY q \in Seq(S), m \in S, OfBehind, Zenon
      <3>3. m.type # t => Of(a, t) = Of(q, t)
        BY ONLY q \in Seq(S), m \in S, OfBehind, Zenon
      <3> QED BY ONLY Zenon, <3>1, <3>2, <3>3
    <2>2. a[Len(q) + 1] = m
      BY BehindIs
    <2> QED BY ONLY Zenon, <2>1, <2>2
  <1> HIDE DEF a
  <1>2. m.type \notin {"fetch", "data"} =>
                /\ Idle(q) => Idle(a)
                /\ \A kind : Fetching(q, kind) => Fetching(a, kind)
                /\ \A kind, from : Giving(q, kind, from) => Giving(a, kind, from)
    BY ONLY <1>1 DEF Busy, Idle, Fetching, Giving
  <1>3. m.type = "fetch" /\ Idle(q) => Fetching(a, m.kind)
    BY ONLY <1>1 DEF Busy, Idle, Fetching
  <1>4. \A from : m.type = "data" /\ m.ok /\ m.id = from.id /\ Idle(q) => Giving(a, m.kind, from)
    BY ONLY <1>1 DEF Busy, Idle, Giving
  <1>5. Idle(a) => Idle(q) /\ m.type \notin {"fetch", "data"}
    BY ONLY <1>1 DEF Busy, Idle
  <1> QED BY ONLY <1>2, <1>3, <1>4, <1>5 DEF a

LEMMA BusyTail ==
    ASSUME NEW S, NEW q \in Seq(S), q # <<>>
    PROVE  /\ Idle(q) => Idle(Tail(q)) /\ Head(q).type \notin {"fetch", "data"}
           /\ \A kind : Fetching(q, kind) =>
                \/ Head(q).type = "fetch" /\ Head(q).kind = kind /\ Idle(Tail(q))
                \/ Head(q).type \notin {"fetch", "data"} /\ Fetching(Tail(q), kind)
           /\ \A kind, from : Giving(q, kind, from) =>
                \/ /\ Head(q).type = "data" /\ Head(q).kind = kind /\ Head(q).ok
                   /\ Head(q).id = from.id /\ Idle(Tail(q))
                \/ Head(q).type \notin {"fetch", "data"} /\ Giving(Tail(q), kind, from)
           /\ Idle(Tail(q)) /\ Head(q).type \notin {"fetch", "data"} => Idle(q)
  <1> DEFINE r == Tail(q)
  <1>1. \A t \in {"fetch", "data"} :
          /\ \A i \in Of(r, t) : i \in Nat \ {0} /\ i + 1 \in Of(q, t) /\ r[i] = q[i + 1]
          /\ \A i \in Of(q, t) : /\ i \in Nat \ {0}
                                 /\ (i = 1 /\ q[i] = Head(q) /\ Head(q).type = t)
                                      \/ (i - 1 \in Of(r, t) /\ r[i - 1] = q[i])
          /\ Head(q).type = t => 1 \in Of(q, t)
    BY Zenon, OfTail
  <1>0. Head(q) = q[1]
    BY TailIs
  <1> HIDE DEF r
  <1>2. /\ \A i \in Busy(r) : i \in Nat \ {0} /\ i + 1 \in Busy(q)
        /\ \A i \in Busy(q) : i \in Nat \ {0} /\ (i = 1 \/ i - 1 \in Busy(r))
        /\ Head(q).type \in {"fetch", "data"} <=> 1 \in Busy(q)
    <2>1. \A t \in {"fetch", "data"} : 1 \in Of(q, t) => Head(q).type = t
      BY ONLY <1>1
    <2> QED BY ONLY <1>1, <2>1 DEF Busy
  <1>3. Idle(q) => Idle(r) /\ Head(q).type \notin {"fetch", "data"}
    BY ONLY <1>2 DEF Idle
  <1>4. ASSUME NEW i, Busy(q) = {i}
        PROVE  \/ i = 1 /\ Idle(r)
               \/ i - 1 \in Nat \ {0} /\ Busy(r) = {i - 1} /\ Head(q).type \notin {"fetch", "data"}
    <2>0. i \in Nat \ {0}
      BY ONLY <1>2, <1>4
    <2>1. CASE i = 1
      <3>1. ASSUME NEW j \in Busy(r) PROVE FALSE
        BY ONLY <1>2, <1>4, <2>1, <3>1
      <3> QED BY ONLY <2>1, <3>1 DEF Idle
    <2>2. CASE i # 1
      <3>1. i - 1 \in Busy(r) /\ i - 1 \in Nat \ {0}
        BY ONLY <1>2, <1>4, <2>2, <2>0
      <3>2. ASSUME NEW j \in Busy(r) PROVE j = i - 1
        <4>1. j \in Nat /\ j + 1 = i
          BY ONLY <1>2, <1>4
        <4> QED BY ONLY <4>1
      <3>3. 1 \notin Busy(q)
        BY ONLY <1>4, <2>2
      <3> QED BY ONLY <1>2, <3>1, <3>2, <3>3
    <2> QED BY ONLY <2>1, <2>2
  <1>5. ASSUME NEW kind, Fetching(q, kind)
        PROVE  \/ Head(q).type = "fetch" /\ Head(q).kind = kind /\ Idle(r)
               \/ Head(q).type \notin {"fetch", "data"} /\ Fetching(r, kind)
    <2>1. PICK i \in Of(q, "fetch") : Busy(q) = {i} /\ q[i].kind = kind
      BY <1>5 DEF Fetching
    <2>2. q[i].type = "fetch"
      BY <2>1 DEF Of
    <2>3. CASE i = 1 /\ Idle(r)
      BY ONLY <1>0, <2>1, <2>2, <2>3
    <2>4. CASE i - 1 \in Nat \ {0} /\ Busy(r) = {i - 1} /\ Head(q).type \notin {"fetch", "data"}
      <3>1. i - 1 \in Of(r, "fetch") /\ r[i - 1] = q[i]
        BY ONLY <1>1, <2>1, <2>4
      <3> QED BY ONLY <2>1, <2>4, <3>1 DEF Fetching
    <2> QED BY ONLY <1>4, <2>1, <2>3, <2>4
  <1>6. ASSUME NEW kind, NEW from, Giving(q, kind, from)
        PROVE  \/ /\ Head(q).type = "data" /\ Head(q).kind = kind /\ Head(q).ok
                  /\ Head(q).id = from.id /\ Idle(r)
               \/ Head(q).type \notin {"fetch", "data"} /\ Giving(r, kind, from)
    <2>1. PICK i \in Of(q, "data") : Busy(q) = {i} /\ q[i].kind = kind /\ q[i].ok /\ q[i].id = from.id
      BY <1>6 DEF Giving
    <2>2. q[i].type = "data"
      BY <2>1 DEF Of
    <2>3. CASE i = 1 /\ Idle(r)
      BY ONLY <1>0, <2>1, <2>2, <2>3
    <2>4. CASE i - 1 \in Nat \ {0} /\ Busy(r) = {i - 1} /\ Head(q).type \notin {"fetch", "data"}
      <3>1. i - 1 \in Of(r, "data") /\ r[i - 1] = q[i]
        BY ONLY <1>1, <2>1, <2>4
      <3> QED BY ONLY <2>1, <2>4, <3>1 DEF Giving
    <2> QED BY ONLY <1>4, <2>1, <2>3, <2>4
  <1>7. Idle(r) /\ Head(q).type \notin {"fetch", "data"} => Idle(q)
    BY ONLY <1>2 DEF Idle
  <1> QED BY ONLY <1>3, <1>5, <1>6, <1>7 DEF r

LEMMA ListsBehind ==
    ASSUME NEW S, NEW q \in Seq(S), NEW m \in S, NEW id, NEW n \in Nat, NEW base \in Nat
    PROVE  /\ m.type # "list" =>
                /\ ListsSay(q, id) => ListsSay(Append(q, m), id)
                /\ ListsFrom(q, base, n, id) => ListsFrom(Append(q, m), base, n, id)
           /\ Says(m, id) =>
                /\ ListsSay(q, id) => ListsSay(Append(q, m), id)
                /\ ListsFrom(q, base, n, id) => ListsFrom(Append(q, m), base, n, id)
                /\ n = base + Count(q, "list") + 1 => ListsFrom(Append(q, m), base, n, id)
  <1> DEFINE a == Append(q, m)
  <1>1. \A i \in Of(a, "list") : /\ i \in Of(q, "list") \/ (i = Len(q) + 1 /\ m.type = "list")
                                 /\ i \in Of(q, "list") => a[i] = q[i]
    <2>1. \A i \in Of(a, "list") : i \in Of(q, "list") \/ (i = Len(q) + 1 /\ m.type = "list")
      BY OfBehind
    <2>0. /\ Len(q) \in Nat /\ DOMAIN q = 1 .. Len(q) /\ DOMAIN Append(q, m) = 1 .. Len(q) + 1
          /\ Append(q, m)[Len(q) + 1] = m
          /\ \A i \in DOMAIN q : Append(q, m)[i] = q[i]
      BY BehindIs
    <2>2. \A i \in Of(q, "list") : a[i] = q[i]
      BY ONLY <2>0 DEF Of
    <2> QED BY ONLY Zenon, <2>1, <2>2
  <1>2. a[Len(q) + 1] = m
    BY BehindIs
  <1>3. \A i \in Of(q, "list") : UpTo(a, "list", i) = UpTo(q, "list", i)
    BY CountBehind
  <1>4. Count(q, "list") \in Nat /\ \A i : UpTo(q, "list", i) \in Nat /\ UpTo(q, "list", i) <= Count(q, "list")
    BY CountIs
  <1> HIDE DEF a
  <1>5. ASSUME m.type # "list" \/ Says(m, id)
        PROVE  /\ ListsSay(q, id) => ListsSay(a, id)
               /\ ListsFrom(q, base, n, id) => ListsFrom(a, base, n, id)
    <2>1. ListsSay(q, id) => ListsSay(a, id)
      BY ONLY <1>1, <1>2, <1>5 DEF ListsSay
    <2>2. ASSUME ListsFrom(q, base, n, id), NEW i \in Of(a, "list"), base + UpTo(a, "list", i) >= n
          PROVE  Says(a[i], id)
      <3>1. CASE i \in Of(q, "list")
        BY ONLY <1>1, <1>3, <2>2, <3>1 DEF ListsFrom
      <3>2. CASE i = Len(q) + 1 /\ m.type = "list"
        BY ONLY <1>2, <1>5, <3>2
      <3> QED BY ONLY <1>1, <2>2, <3>1, <3>2
    <2> QED BY ONLY <2>1, <2>2 DEF ListsFrom
  <1>6. ASSUME Says(m, id), n = base + Count(q, "list") + 1
        PROVE  ListsFrom(a, base, n, id)
    <2>1. ASSUME NEW i \in Of(a, "list"), base + UpTo(a, "list", i) >= n
          PROVE  Says(a[i], id)
      <3>1. CASE i \in Of(q, "list")
        <4>1. UpTo(a, "list", i) = UpTo(q, "list", i)
          BY ONLY <1>3, <3>1
        <4> QED BY ONLY <1>4, <1>6, <2>1, <4>1, base \in Nat
      <3>2. CASE i = Len(q) + 1 /\ m.type = "list"
        BY ONLY <1>2, <1>6, <3>2
      <3> QED BY ONLY <1>1, <2>1, <3>1, <3>2
    <2> QED BY ONLY <2>1 DEF ListsFrom
  <1> QED BY ONLY <1>5, <1>6 DEF a

LEMMA ListsTail ==
    ASSUME NEW S, NEW q \in Seq(S), q # <<>>, NEW id, NEW n \in Nat, NEW base \in Nat
    PROVE  /\ ListsSay(q, id) => /\ ListsSay(Tail(q), id)
                                 /\ Head(q).type = "list" => Says(Head(q), id)
           /\ Head(q).type = "list" /\ ListsFrom(q, base, n, id) =>
                ListsFrom(Tail(q), base + 1, n, id) /\ (base + 1 >= n => Says(Head(q), id))
           /\ Head(q).type # "list" /\ ListsFrom(q, base, n, id) => ListsFrom(Tail(q), base, n, id)
  <1> DEFINE r == Tail(q)
  <1>1. /\ \A i \in Of(r, "list") : i \in Nat \ {0} /\ i + 1 \in Of(q, "list") /\ r[i] = q[i + 1]
        /\ Head(q).type = "list" => 1 \in Of(q, "list")
        /\ Head(q) = q[1]
    BY Zenon, OfTail
  <1>2. /\ Head(q).type = "list" =>
             /\ UpTo(q, "list", 1) = 1
             /\ \A i \in Of(r, "list") : UpTo(q, "list", i + 1) = UpTo(r, "list", i) + 1
        /\ Head(q).type # "list" =>
             \A i \in Of(r, "list") : UpTo(q, "list", i + 1) = UpTo(r, "list", i)
    BY CountTail
  <1>3. \A i : UpTo(r, "list", i) \in Nat
    <2>1. r \in Seq(S)
      BY TailIs
    <2> QED BY Zenon, <2>1, CountIs
  <1> HIDE DEF r
  <1>4. ASSUME ListsSay(q, id)
        PROVE  ListsSay(r, id) /\ (Head(q).type = "list" => Says(Head(q), id))
    BY ONLY <1>1, <1>4 DEF ListsSay
  <1>5. ASSUME Head(q).type = "list", ListsFrom(q, base, n, id)
        PROVE  ListsFrom(r, base + 1, n, id) /\ (base + 1 >= n => Says(Head(q), id))
    <2>1. ASSUME NEW i \in Of(r, "list"), (base + 1) + UpTo(r, "list", i) >= n
          PROVE  Says(r[i], id)
      <3>1. i + 1 \in Of(q, "list") /\ r[i] = q[i + 1]
        BY ONLY <1>1
      <3>2. UpTo(q, "list", i + 1) = UpTo(r, "list", i) + 1
        BY ONLY <1>2, <1>5
      <3>3. UpTo(r, "list", i) \in Nat
        BY ONLY <1>3
      <3>4. base + UpTo(q, "list", i + 1) >= n
        BY ONLY <2>1, <3>2, <3>3, base \in Nat, n \in Nat
      <3> QED BY ONLY <1>5, <3>1, <3>4 DEF ListsFrom
    <2>2. base + 1 >= n => Says(Head(q), id)
      BY ONLY <1>1, <1>2, <1>5 DEF ListsFrom
    <2> QED BY ONLY <2>1, <2>2 DEF ListsFrom
  <1>6. ASSUME Head(q).type # "list", ListsFrom(q, base, n, id)
        PROVE  ListsFrom(r, base, n, id)
    <2>1. ASSUME NEW i \in Of(r, "list"), base + UpTo(r, "list", i) >= n
          PROVE  Says(r[i], id)
      <3>1. i + 1 \in Of(q, "list") /\ r[i] = q[i + 1]
        BY ONLY <1>1
      <3>2. UpTo(q, "list", i + 1) = UpTo(r, "list", i)
        BY ONLY <1>2, <1>6
      <3> QED BY ONLY <1>6, <2>1, <3>1, <3>2 DEF ListsFrom
    <2> QED BY ONLY <2>1 DEF ListsFrom
  <1> QED BY ONLY <1>4, <1>5, <1>6 DEF r

LEMMA AnswersBehind ==
    ASSUME NEW S, NEW q \in Seq(S), NEW m \in S, NEW n \in Nat, NEW base \in Nat,
           NEW from, NEW id, NEW known, AnswersFrom(q, base, n, from, id, known),
           m.type = "answer" /\ m.ok /\ n = base + Count(q, "answer") + 1 => Pasteable(from, id, known)
    PROVE  AnswersFrom(Append(q, m), base, n, from, id, known)
  <1> DEFINE a == Append(q, m)
  <1>1. \A i \in Of(a, "answer") : i \in Of(q, "answer") \/ (i = Len(q) + 1 /\ m.type = "answer")
    BY OfBehind
  <1>2. \A i \in Of(q, "answer") : a[i] = q[i]
    <2>0. /\ Len(q) \in Nat /\ DOMAIN q = 1 .. Len(q) /\ DOMAIN Append(q, m) = 1 .. Len(q) + 1
          /\ Append(q, m)[Len(q) + 1] = m
          /\ \A i \in DOMAIN q : Append(q, m)[i] = q[i]
      BY BehindIs
    <2> QED BY ONLY <2>0 DEF Of
  <1>3. a[Len(q) + 1] = m
    BY BehindIs
  <1>4. /\ \A i \in Of(q, "answer") : UpTo(a, "answer", i) = UpTo(q, "answer", i)
        /\ m.type = "answer" => UpTo(a, "answer", Len(q) + 1) = Count(q, "answer") + 1
    BY CountBehind
  <1>5. Count(q, "answer") \in Nat
    BY CountIs
  <1> HIDE DEF a
  <1>6. ASSUME NEW i \in Of(a, "answer"), base + UpTo(a, "answer", i) = n, a[i].ok
        PROVE  Pasteable(from, id, known)
    <2>1. CASE i \in Of(q, "answer")
      <3>1. base + UpTo(q, "answer", i) = n /\ q[i].ok
        BY ONLY <1>2, <1>4, <1>6, <2>1
      <3> QED BY ONLY <2>1, <3>1, AnswersFrom(q, base, n, from, id, known) DEF AnswersFrom
    <2>2. CASE i = Len(q) + 1 /\ m.type = "answer"
      <3>1. m.ok /\ base + (Count(q, "answer") + 1) = n
        BY ONLY <1>3, <1>4, <1>6, <2>2
      <3>2. n = base + Count(q, "answer") + 1
        BY ONLY <1>5, <3>1, base \in Nat
      <3> QED BY <2>2, <3>1, <3>2
    <2> QED BY ONLY <1>1, <1>6, <2>1, <2>2
  <1> QED BY ONLY Zenon, <1>6 DEF AnswersFrom, a

LEMMA AnswersTail ==
    ASSUME NEW S, NEW q \in Seq(S), q # <<>>, NEW n \in Nat, NEW base \in Nat,
           NEW from, NEW id, NEW known, AnswersFrom(q, base, n, from, id, known)
    PROVE  /\ Head(q).type = "answer" =>
                /\ AnswersFrom(Tail(q), base + 1, n, from, id, known)
                /\ base + 1 = n /\ Head(q).ok => Pasteable(from, id, known)
           /\ Head(q).type # "answer" => AnswersFrom(Tail(q), base, n, from, id, known)
  <1> DEFINE r == Tail(q)
  <1>1. /\ \A i \in Of(r, "answer") : i \in Nat \ {0} /\ i + 1 \in Of(q, "answer") /\ r[i] = q[i + 1]
        /\ Head(q).type = "answer" => 1 \in Of(q, "answer")
        /\ Head(q) = q[1]
    BY Zenon, OfTail
  <1>2. /\ Head(q).type = "answer" =>
             /\ UpTo(q, "answer", 1) = 1
             /\ \A i \in Of(r, "answer") : UpTo(q, "answer", i + 1) = UpTo(r, "answer", i) + 1
        /\ Head(q).type # "answer" =>
             \A i \in Of(r, "answer") : UpTo(q, "answer", i + 1) = UpTo(r, "answer", i)
    BY CountTail
  <1>3. \A i : UpTo(r, "answer", i) \in Nat
    <2>1. r \in Seq(S)
      BY TailIs
    <2> QED BY Zenon, <2>1, CountIs
  <1>4. \A i \in Of(q, "answer") :
          base + UpTo(q, "answer", i) = n /\ q[i].ok => Pasteable(from, id, known)
    BY DEF AnswersFrom
  <1> HIDE DEF r
  <1>5. ASSUME Head(q).type = "answer"
        PROVE  /\ AnswersFrom(r, base + 1, n, from, id, known)
               /\ base + 1 = n /\ Head(q).ok => Pasteable(from, id, known)
    <2>1. ASSUME NEW i \in Of(r, "answer"), (base + 1) + UpTo(r, "answer", i) = n, r[i].ok
          PROVE  Pasteable(from, id, known)
      <3>1. i + 1 \in Of(q, "answer") /\ r[i] = q[i + 1]
        BY ONLY <1>1
      <3>2. UpTo(q, "answer", i + 1) = UpTo(r, "answer", i) + 1
        BY ONLY <1>2, <1>5
      <3>3. UpTo(r, "answer", i) \in Nat
        BY ONLY <1>3
      <3>4. base + UpTo(q, "answer", i + 1) = n
        BY ONLY <2>1, <3>2, <3>3, base \in Nat, n \in Nat
      <3> QED BY ONLY <1>4, <2>1, <3>1, <3>4
    <2>2. base + 1 = n /\ Head(q).ok => Pasteable(from, id, known)
      BY ONLY <1>1, <1>2, <1>4, <1>5
    <2> QED BY ONLY <2>1, <2>2 DEF AnswersFrom
  <1>6. ASSUME Head(q).type # "answer"
        PROVE  AnswersFrom(r, base, n, from, id, known)
    <2>1. ASSUME NEW i \in Of(r, "answer"), base + UpTo(r, "answer", i) = n, r[i].ok
          PROVE  Pasteable(from, id, known)
      <3>1. i + 1 \in Of(q, "answer") /\ r[i] = q[i + 1]
        BY ONLY <1>1
      <3>2. UpTo(q, "answer", i + 1) = UpTo(r, "answer", i)
        BY ONLY <1>2, <1>6
      <3> QED BY ONLY <1>4, <2>1, <3>1, <3>2
    <2> QED BY ONLY <2>1 DEF AnswersFrom
  <1> QED BY ONLY <1>5, <1>6 DEF r

\* No answer has a number beyond those on the queue.
LEMMA AnswersBeyond ==
    ASSUME NEW S, NEW q \in Seq(S), NEW n \in Nat, NEW base \in Nat,
           base + Count(q, "answer") < n, NEW from, NEW id, NEW known
    PROVE  AnswersFrom(q, base, n, from, id, known)
  <1>1. /\ Count(q, "answer") \in Nat
        /\ \A i : UpTo(q, "answer", i) \in Nat /\ UpTo(q, "answer", i) <= Count(q, "answer")
    BY CountIs
  <1> QED BY <1>1 DEF AnswersFrom

LEMMA KeysBehind ==
    ASSUME NEW S, NEW q \in Seq(S), NEW m \in S, NEW from, KeysMeet(q, from),
           m.type = "keys" => Pasteable(from, m.id, m.seen) /\ ListsSay(q, m.id)
    PROVE  KeysMeet(Append(q, m), from)
  <1> DEFINE a == Append(q, m)  n == Len(q) + 1
  <1>1. /\ \A i \in Of(a, "keys") : i \in Of(q, "keys") \/ (i = n /\ m.type = "keys")
        /\ \A i \in Of(q, "keys") : i \in Nat /\ i < n /\ i \in Of(a, "keys") /\ a[i] = q[i]
    <2>0. /\ Len(q) \in Nat /\ DOMAIN q = 1 .. Len(q) /\ DOMAIN Append(q, m) = 1 .. Len(q) + 1
          /\ Append(q, m)[Len(q) + 1] = m
          /\ \A i \in DOMAIN q : Append(q, m)[i] = q[i]
      BY BehindIs
    <2> QED BY ONLY <2>0 DEF Of
  <1>2. /\ \A i \in Of(a, "list") : i \in Of(q, "list") \/ (i = n /\ m.type = "list")
        /\ \A i \in Of(q, "list") : i \in Nat /\ i < n /\ i \in Of(a, "list") /\ a[i] = q[i]
    <2>0. /\ Len(q) \in Nat /\ DOMAIN q = 1 .. Len(q) /\ DOMAIN Append(q, m) = 1 .. Len(q) + 1
          /\ Append(q, m)[Len(q) + 1] = m
          /\ \A i \in DOMAIN q : Append(q, m)[i] = q[i]
      BY BehindIs
    <2> QED BY ONLY <2>0 DEF Of
  <1>3. a[n] = m /\ n \in Nat
    BY BehindIs
  <1> HIDE DEF a, n
  <1>4. ASSUME NEW i \in Of(a, "keys")
        PROVE  /\ Pasteable(from, a[i].id, a[i].seen)
               /\ \A j \in Of(a, "list") : j < i => Says(a[j], a[i].id)
    <2>1. CASE i \in Of(q, "keys")
      <3>1. /\ Pasteable(from, q[i].id, q[i].seen) /\ a[i] = q[i] /\ i \in Nat /\ i < n
            /\ \A j \in Of(q, "list") : j < i => Says(q[j], q[i].id)
        BY ONLY <1>1, <2>1, KeysMeet(q, from) DEF KeysMeet
      <3>2. ASSUME NEW j \in Of(a, "list"), j < i
            PROVE  j \in Of(q, "list") /\ a[j] = q[j]
        BY ONLY <1>2, <1>3, <3>1, <3>2
      <3> QED BY ONLY <3>1, <3>2
    <2>2. CASE i = n /\ m.type = "keys"
      <3>1. Pasteable(from, m.id, m.seen) /\ ListsSay(q, m.id)
        BY <2>2
      <3>2. \A j \in Of(a, "list") : j < n => Says(a[j], m.id)
        BY ONLY <1>2, <1>3, <3>1 DEF ListsSay
      <3> QED BY ONLY Zenon, <1>3, <2>2, <3>1, <3>2
    <2> QED BY ONLY <1>1, <2>1, <2>2
  <1> QED BY ONLY Zenon, <1>4 DEF KeysMeet, a

LEMMA KeysTail ==
    ASSUME NEW S, NEW q \in Seq(S), q # <<>>, NEW from, KeysMeet(q, from)
    PROVE  /\ KeysMeet(Tail(q), from)
           /\ Head(q).type = "keys" => Pasteable(from, Head(q).id, Head(q).seen)
           /\ \A o : Head(q).type = "list" /\ (\A id : Says(Head(q), id) => o.who = "client" /\ o.id = id)
                       => KeysMeet(Tail(q), o)
  <1> DEFINE r == Tail(q)
  <1>1. /\ \A i \in Of(r, "keys") : i \in Nat \ {0} /\ i + 1 \in Of(q, "keys") /\ r[i] = q[i + 1]
        /\ Head(q).type = "keys" => 1 \in Of(q, "keys")
        /\ Head(q) = q[1]
    BY Zenon, OfTail
  <1>2. /\ \A i \in Of(r, "list") : i \in Nat \ {0} /\ i + 1 \in Of(q, "list") /\ r[i] = q[i + 1]
        /\ Head(q).type = "list" => 1 \in Of(q, "list")
    BY Zenon, OfTail
  <1>3. \A i \in Of(q, "keys") :
            /\ Pasteable(from, q[i].id, q[i].seen)
            /\ \A j \in Of(q, "list") : j < i => Says(q[j], q[i].id)
    BY DEF KeysMeet
  <1> HIDE DEF r
  <1>4. ASSUME NEW i \in Of(r, "keys")
        PROVE  /\ Pasteable(from, r[i].id, r[i].seen)
               /\ \A j \in Of(r, "list") : j < i => Says(r[j], r[i].id)
               /\ Head(q).type = "list" => Says(Head(q), r[i].id)
    <2>1. i \in Nat \ {0} /\ i + 1 \in Of(q, "keys") /\ r[i] = q[i + 1]
      BY ONLY <1>1
    <2>2. /\ Pasteable(from, r[i].id, r[i].seen)
          /\ \A j \in Of(q, "list") : j < i + 1 => Says(q[j], r[i].id)
      BY ONLY <1>3, <2>1
    <2>3. ASSUME NEW j \in Of(r, "list"), j < i
          PROVE  Says(r[j], r[i].id)
      <3>1. j \in Nat /\ j + 1 \in Of(q, "list") /\ r[j] = q[j + 1]
        BY ONLY <1>2
      <3>2. j + 1 < i + 1
        BY ONLY <2>1, <2>3, <3>1
      <3> QED BY ONLY <2>2, <3>1, <3>2
    <2>4. Head(q).type = "list" => Says(Head(q), r[i].id)
      <3>1. 1 < i + 1
        BY ONLY <2>1
      <3> QED BY ONLY <1>1, <1>2, <2>2, <3>1
    <2> QED BY ONLY <2>2, <2>3, <2>4
  <1>5. Head(q).type = "keys" => Pasteable(from, Head(q).id, Head(q).seen)
    BY ONLY <1>1, <1>3
  <1>6. ASSUME NEW o, Head(q).type = "list",
               \A id : Says(Head(q), id) => o.who = "client" /\ o.id = id
        PROVE  KeysMeet(r, o)
    <2>1. ASSUME NEW i \in Of(r, "keys") PROVE Pasteable(o, r[i].id, r[i].seen)
      BY ONLY <1>4, <1>6 DEF Pasteable
    <2> QED BY ONLY <1>4, <2>1 DEF KeysMeet
  <1> QED BY ONLY Zenon, <1>4, <1>5, <1>6 DEF KeysMeet, r

LEMMA NewestBehind ==
    ASSUME NEW S, NEW q \in Seq(S), NEW m \in S, NEW from, NEW o,
           IF m.type = "copied" THEN m.kinds = o.kinds /\ m.id = o.id
           ELSE o = from /\ NewestIs(q, from)
    PROVE  NewestIs(Append(q, m), o)
  <1> DEFINE a == Append(q, m)  n == Len(q) + 1
  <1>1. /\ \A i \in Of(a, "copied") : i \in Of(q, "copied") \/ (i = n /\ m.type = "copied")
        /\ \A i \in Of(q, "copied") : i \in Nat /\ i < n /\ i \in Of(a, "copied") /\ a[i] = q[i]
        /\ m.type = "copied" => n \in Of(a, "copied")
    <2>0. /\ Len(q) \in Nat /\ DOMAIN q = 1 .. Len(q) /\ DOMAIN Append(q, m) = 1 .. Len(q) + 1
          /\ Append(q, m)[Len(q) + 1] = m
          /\ \A i \in DOMAIN q : Append(q, m)[i] = q[i]
      BY BehindIs
    <2> QED BY ONLY <2>0 DEF Of
  <1>2. a[n] = m /\ n \in Nat
    BY BehindIs
  <1> HIDE DEF a, n
  <1>3. CASE m.type = "copied"
    <2>1. ASSUME NEW i \in Of(a, "copied"), \A j \in Of(a, "copied") : j <= i
          PROVE  i = n
      <3>1. n <= i
        BY ONLY <1>1, <1>3, <2>1
      <3> QED BY ONLY <1>1, <1>2, <3>1
    <2>2. m.kinds = o.kinds /\ m.id = o.id
      BY <1>3
    <2> QED BY ONLY Zenon, <1>2, <2>1, <2>2 DEF NewestIs, a
  <1>4. CASE m.type # "copied"
    <2>1. o = from /\ NewestIs(q, from)
      BY <1>4
    <2>2. /\ \A i \in Of(a, "copied") : i \in Of(q, "copied") /\ a[i] = q[i]
          /\ \A i \in Of(q, "copied") : i \in Of(a, "copied")
      BY ONLY <1>1, <1>4
    <2> QED BY ONLY Zenon, <2>1, <2>2 DEF NewestIs, a
  <1> QED BY ONLY <1>3, <1>4

LEMMA NewestTail ==
    ASSUME NEW S, NEW q \in Seq(S), q # <<>>, NEW from, NewestIs(q, from)
    PROVE  /\ NewestIs(Tail(q), from)
           /\ Head(q).type = "copied" /\ ~ Holds(Tail(q), "copied") /\ from.who = "server"
              => Head(q).kinds = from.kinds /\ Head(q).id = from.id
  <1> DEFINE r == Tail(q)
  <1>1. /\ \A i \in Of(r, "copied") : i \in Nat \ {0} /\ i + 1 \in Of(q, "copied") /\ r[i] = q[i + 1]
        /\ \A i \in Of(q, "copied") : i \in Nat \ {0} /\ (i = 1 \/ i - 1 \in Of(r, "copied"))
        /\ Head(q).type = "copied" => 1 \in Of(q, "copied")
        /\ Head(q) = q[1]
    BY Zenon, OfTail
  <1>2. \A i \in Of(q, "copied") :
          from.who = "server" /\ (\A j \in Of(q, "copied") : j <= i)
          => q[i].kinds = from.kinds /\ q[i].id = from.id
    BY DEF NewestIs
  <1> HIDE DEF r
  <1>3. ASSUME NEW i \in Of(r, "copied"), from.who = "server", \A j \in Of(r, "copied") : j <= i
        PROVE  r[i].kinds = from.kinds /\ r[i].id = from.id
    <2>1. i \in Nat \ {0} /\ i + 1 \in Of(q, "copied") /\ r[i] = q[i + 1]
      BY ONLY <1>1
    <2>2. ASSUME NEW j \in Of(q, "copied") PROVE j <= i + 1
      <3>1. j \in Nat \ {0} /\ (j = 1 \/ j - 1 <= i)
        BY ONLY <1>1, <1>3
      <3> QED BY ONLY <2>1, <3>1
    <2> QED BY ONLY <1>2, <1>3, <2>1, <2>2
  <1>4. ASSUME Head(q).type = "copied", Of(r, "copied") = {}, from.who = "server"
        PROVE  Head(q).kinds = from.kinds /\ Head(q).id = from.id
    <2>1. ASSUME NEW j \in Of(q, "copied") PROVE j <= 1
      BY ONLY <1>1, <1>4
    <2> QED BY ONLY <1>1, <1>2, <1>4, <2>1
  <1> QED BY ONLY Zenon, <1>3, <1>4 DEF NewestIs, Holds, r

(***************************************************************************)
(* The clipboard's invariant, and the steps.                               *)
(***************************************************************************)

Fetches   == [type : {"fetch"}, kind : Clipboard!Kinds]
Gifts     == [type : {"data"}, ok : BOOLEAN, kind : Clipboard!Kinds, id : Nat]
Shortcuts == [type : {"shortcut"}, generation : Nat \ {0}]
Inputs    ==
    {m \in [type : {"copy"}, kind : Clipboard!Kinds \cup {"files"}, id : Nat, pasting : BOOLEAN] :
        m.pasting => m.kind = "text"}
    \cup {Clipboard!Advertise} \cup Shortcuts \cup Fetches \cup Gifts
Wanted(known) ==
    [type : {"list"}, kind : Clipboard!Kinds \cup {"none", "files"}, id : Nat]
    \cup [type : {"keys"}, id : Nat, seen : 0 .. known] \cup Fetches \cup Gifts
Told(known) ==
    {[type |-> "monitor"]} \cup [type : {"answer"}, ok : BOOLEAN]
    \cup [type : {"copied"}, kinds : (SUBSET Clipboard!Kinds) \ {{}}, id : 0 .. known]
    \cup Fetches \cup Gifts

ClipTyped ==
    /\ v1 \in [kind : Clipboard!Kinds \cup {"none", "files"}, id : Nat]
    /\ v2 \in [sent : Nat, acked : Nat, dirty : BOOLEAN]
    /\ v3 \in [pending : Nat, ready : Nat]
    /\ v4 \in Clipboard!Kinds \cup {"none"} /\ v5 \in BOOLEAN
    /\ v11.kinds \subseteq Clipboard!Kinds /\ v11.id \in Nat
    /\ v13 \in Nat /\ v14 \in Nat /\ v16 \in Nat /\ v15 \in 0 .. v14
    /\ v6 \in Seq(Inputs) /\ v8 \in Seq(Shortcuts)
    /\ v9 \in Seq(Wanted(v14)) /\ v10 \in Seq(Told(v14))

\* Every list is answered once.
ListsCounted ==
    v2.sent = v2.acked + Count(v10, "answer") + Count(v9, "list")

\* The list a paste waits for says the text, as do those behind it, and once the
\* server has taken it, the server's clipboard holds the text.
PendingKept ==
    v3.pending # 0 =>
       /\ Says(v1, v16) /\ v3.ready = 0
       /\ v2.acked < v3.pending /\ v3.pending <= v2.sent
       /\ ListsFrom(v9, v2.acked + Count(v10, "answer"), v3.pending, v16)
       /\ AnswersFrom(v10, v2.acked, v3.pending, v11, v16, v15)

\* From then on until Control-V is typed.
ReadyKept ==
    v3.ready # 0 =>
       /\ Says(v1, v16) /\ ListsSay(v9, v16) /\ Pasteable(v11, v16, v15)
       /\ Due(v6, v3.ready) \/ Due(v8, v3.ready)

DirtyKept == v5 /\ v2.dirty => Holds(v6, "advertise")

\* The server's copy that has been announced last is asked for, given, and told.
CopyComes ==
    v11.who = "server" /\ ~ Holds(v10, "copied") /\ ~ v17 =>
       \/ /\ v4 \in v11.kinds /\ Fetching(v6, v4)
          /\ Idle(v9) /\ Idle(v10)
       \/ /\ v4 \in v11.kinds /\ Fetching(v9, v4)
          /\ Idle(v6) /\ Idle(v10)
       \/ /\ v4 \in v11.kinds /\ Giving(v10, v4, v11)
          /\ Idle(v6) /\ Idle(v9)
       \/ /\ v12.kind \in v11.kinds /\ v12.id = v11.id
          /\ Idle(v6) /\ Idle(v9) /\ Idle(v10)

ClipInv ==
    /\ ClipTyped /\ ListsCounted /\ PendingKept /\ ReadyKept /\ DirtyKept /\ CopyComes
    /\ KeysMeet(v9, v11) /\ NewestIs(v10, v11)
    /\ Clipboard!PastesWhatWasAsked

LEMMA ClipHostCopies == ClipInv /\ Clipboard!HostCopies => ClipInv'
  <1> SUFFICES ASSUME ClipInv, Clipboard!HostCopies PROVE ClipInv'
    OBVIOUS
  <1>1. PICK m \in Inputs : m.type = "copy" /\ v6' = Append(v6, m)
    <2>1. PICK kind \in Clipboard!Kinds \cup {"files"}, pasting \in BOOLEAN :
            /\ pasting => kind = "text"
            /\ v6' = Append(v6, [type |-> "copy", kind |-> kind, id |-> v13',
                                 pasting |-> pasting])
      BY DEF Clipboard!HostCopies
    <2>2. v13' \in Nat
      BY DEF Clipboard!HostCopies, ClipInv, ClipTyped
    <2>3. [type |-> "copy", kind |-> kind, id |-> v13', pasting |-> pasting] \in Inputs
      BY ONLY <2>1, <2>2 DEF Inputs
    <2> QED BY ONLY <2>1, <2>3, Zenon
  <1>2. /\ UNCHANGED <<v1, v2, v3, v4, v5, v8, v9, v10,
                       v11, v12, v14, v15, v16, v17, v18>>
        /\ v13' \in Nat
    BY DEF Clipboard!HostCopies, Clipboard!clientVars, Clipboard!loopVars, ClipInv, ClipTyped
  <1>3. v6 \in Seq(Inputs)
    BY DEF ClipInv, ClipTyped
  <1>4. v6' \in Seq(Inputs)
    BY ONLY <1>1, <1>3
  <1>5. /\ \A n : Due(v6, n) => Due(v6', n)
        /\ Holds(v6, "advertise") => Holds(v6', "advertise")
        /\ Idle(v6) => Idle(v6')
        /\ \A kind : Fetching(v6, kind) => Fetching(v6', kind)
    <2>1. \A n : Due(v6, n) => Due(v6', n)
      BY ONLY <1>1, <1>3, DueIs
    <2>2. Holds(v6, "advertise") => Holds(v6', "advertise")
      BY ONLY <1>1, <1>3, HoldsIs
    <2>3. m.type \notin {"fetch", "data"}
      BY ONLY <1>1
    <2>4. /\ Idle(v6) => Idle(v6')
          /\ \A kind : Fetching(v6, kind) => Fetching(v6', kind)
      BY ONLY <1>1, <1>3, <2>3, BusyBehind
    <2> QED BY ONLY <2>1, <2>2, <2>4
  <1>6. ClipTyped'
    BY ONLY Zenon, <1>2, <1>4, ClipInv DEF ClipInv, ClipTyped
  <1>7. ListsCounted' /\ PendingKept' /\ ReadyKept' /\ DirtyKept'
    BY ONLY <1>2, <1>5, ClipInv DEF ClipInv, ListsCounted, PendingKept, ReadyKept, DirtyKept
  <1>8. CopyComes'
    BY ONLY <1>2, <1>5, ClipInv DEF ClipInv, CopyComes
  <1>9. (KeysMeet(v9, v11) /\ NewestIs(v10, v11) /\ Clipboard!PastesWhatWasAsked)'
    BY ONLY <1>2, ClipInv DEF ClipInv, Clipboard!PastesWhatWasAsked
  <1> QED BY ONLY <1>6, <1>7, <1>8, <1>9 DEF ClipInv

\* Lists and answers that say the text wherever they are numbered.
LEMMA FromAny ==
    ASSUME NEW S, NEW q \in Seq(S), NEW n \in Nat, NEW base \in Nat, NEW from, NEW id, NEW known
    PROVE  /\ Pasteable(from, id, known) => AnswersFrom(q, base, n, from, id, known)
           /\ ListsFrom(q, base, n, id) /\ base >= n => ListsSay(q, id)
  <1>1. Pasteable(from, id, known) => AnswersFrom(q, base, n, from, id, known)
    BY DEF AnswersFrom
  <1>2. \A i : UpTo(q, "list", i) \in Nat
    BY Zenon, CountIs
  <1>3. ListsFrom(q, base, n, id) /\ base >= n => ListsSay(q, id)
    BY ONLY <1>2, n \in Nat, base \in Nat DEF ListsFrom, ListsSay
  <1> QED BY ONLY <1>1, <1>3

\* What the first of the inputs leaves behind.
LEMMA Taken ==
    ASSUME ClipTyped, Clipboard!TakeInput
    PROVE  /\ Head(v6) \in Inputs /\ v6' \in Seq(Inputs)
           /\ \A n : Due(v6, n) => \/ Due(v6', n)
                                   \/ Head(v6).type = "shortcut" /\ Head(v6).generation = n
           /\ Holds(v6, "advertise") =>
                Holds(v6', "advertise") \/ Head(v6).type = "advertise"
           /\ Idle(v6) => Idle(v6') /\ Head(v6).type \notin {"fetch", "data"}
           /\ \A kind : Fetching(v6, kind) =>
                \/ Head(v6).type = "fetch" /\ Head(v6).kind = kind /\ Idle(v6')
                \/ Head(v6).type \notin {"fetch", "data"} /\ Fetching(v6', kind)
           /\ UNCHANGED <<v4, v5, v10, v11, v12, v13, v14, v15,
                          v17, v18>>
           /\ Clipboard!Handle(Head(v6))
  <1>1. /\ v6 \in Seq(Inputs) /\ v6 # <<>> /\ v6' = Tail(v6)
        /\ UNCHANGED <<v4, v5, v10, v11, v12, v13, v14, v15,
                       v17, v18>>
        /\ Clipboard!Handle(Head(v6))
    BY DEF ClipTyped, Clipboard!TakeInput
  <1>2. Head(v6) \in Inputs /\ v6' \in Seq(Inputs)
    BY ONLY <1>1, TailIs
  <1>3. \A n : Due(v6, n) => \/ Due(v6', n)
                             \/ Head(v6).type = "shortcut" /\ Head(v6).generation = n
    BY ONLY <1>1, DueIs
  <1>4. Holds(v6, "advertise") =>
          Holds(v6', "advertise") \/ Head(v6).type = "advertise"
    BY ONLY <1>1, HoldsIs
  <1>5. /\ Idle(v6) => Idle(v6') /\ Head(v6).type \notin {"fetch", "data"}
        /\ \A kind : Fetching(v6, kind) =>
             \/ Head(v6).type = "fetch" /\ Head(v6).kind = kind /\ Idle(v6')
             \/ Head(v6).type \notin {"fetch", "data"} /\ Fetching(v6', kind)
    BY ONLY <1>1, BusyTail
  <1> QED BY ONLY <1>1, <1>2, <1>3, <1>4, <1>5, Zenon

\* A list that is sent is counted, and says what is pasted if anything is.
LEMMA ListSent ==
    ASSUME ClipTyped, ListsCounted, KeysMeet(v9, v11),
           NEW content \in [kind : Clipboard!Kinds \cup {"none", "files"}, id : Nat],
           v9' = Append(v9, Clipboard!List(content))
    PROVE  /\ v9' \in Seq(Wanted(v14))
           /\ Count(v9', "list") = Count(v9, "list") + 1
           /\ Count(v9, "list") \in Nat /\ Count(v10, "answer") \in Nat
           /\ KeysMeet(v9', v11)
           /\ Idle(v9) => Idle(v9')
           /\ \A kind : Fetching(v9, kind) => Fetching(v9', kind)
           /\ \A id : Says(content, id) =>
                /\ ListsSay(v9, id) => ListsSay(v9', id)
                /\ \A n, base \in Nat : ListsFrom(v9, base, n, id) => ListsFrom(v9', base, n, id)
                /\ ListsFrom(v9', v2.acked + Count(v10, "answer"), v2.sent + 1, id)
  <1> DEFINE m == Clipboard!List(content)
  <1>1. /\ m.type = "list" /\ m \in Wanted(v14)
        /\ \A id : Says(content, id) => Says(m, id)
    BY DEF Clipboard!List, Wanted, Says
  <1>2. v9 \in Seq(Wanted(v14)) /\ v10 \in Seq(Told(v14)) /\ v9' = Append(v9, m)
    BY DEF ClipTyped
  <1>3. /\ v2.sent = v2.acked + Count(v10, "answer") + Count(v9, "list")
        /\ v2.acked \in Nat /\ v2.sent \in Nat
    BY DEF ListsCounted, ClipTyped
  <1>4. KeysMeet(v9, v11)
    OBVIOUS
  <1> HIDE DEF m
  <1>5. v9' \in Seq(Wanted(v14))
    BY ONLY <1>1, <1>2
  <1>6. Count(v9', "list") = Count(v9, "list") + 1
    BY ONLY <1>1, <1>2, CountBehind
  <1>7. Count(v9, "list") \in Nat
    BY ONLY <1>2, CountIs
  <1>8. Count(v10, "answer") \in Nat
    BY ONLY <1>2, CountIs
  <1>9. KeysMeet(v9', v11)
    <2>1. m.type # "keys"
      BY ONLY <1>1
    <2> QED BY ONLY <1>1, <1>2, <1>4, <2>1, KeysBehind
  <1>10. /\ Idle(v9) => Idle(v9')
         /\ \A kind : Fetching(v9, kind) => Fetching(v9', kind)
    <2>1. m.type \notin {"fetch", "data"}
      BY ONLY <1>1
    <2> QED BY ONLY <1>1, <1>2, <2>1, BusyBehind
  <1>11. ASSUME NEW id, Says(content, id)
         PROVE  /\ ListsSay(v9, id) => ListsSay(v9', id)
                /\ \A n, base \in Nat : ListsFrom(v9, base, n, id) => ListsFrom(v9', base, n, id)
                /\ ListsFrom(v9', v2.acked + Count(v10, "answer"), v2.sent + 1, id)
    <2>1. Says(m, id)
      BY ONLY <1>1, <1>11
    <2>2. \A n, base \in Nat :
            /\ ListsSay(v9, id) => ListsSay(v9', id)
            /\ ListsFrom(v9, base, n, id) => ListsFrom(v9', base, n, id)
            /\ n = base + Count(v9, "list") + 1 => ListsFrom(v9', base, n, id)
      BY ONLY <1>1, <1>2, <2>1, ListsBehind
    <2>3. /\ v2.acked + Count(v10, "answer") \in Nat /\ v2.sent + 1 \in Nat
          /\ v2.sent + 1 = (v2.acked + Count(v10, "answer")) + Count(v9, "list") + 1
      BY ONLY <1>3, <1>7, <1>8
    <2>4. ListsFrom(v9', v2.acked + Count(v10, "answer"), v2.sent + 1, id)
      BY ONLY <2>2, <2>3
    <2> QED BY ONLY <2>2, <2>3, <2>4
  <1> QED BY ONLY <1>5, <1>6, <1>7, <1>8, <1>9, <1>10, <1>11

LEMMA ListedIs ==
    ASSUME v2 \in [sent : Nat, acked : Nat, dirty : BOOLEAN], v2' = Clipboard!Listed
    PROVE  /\ v2'.sent = v2.sent + 1 /\ v2'.acked = v2.acked
           /\ v2'.dirty = FALSE
           /\ v2' \in [sent : Nat, acked : Nat, dirty : BOOLEAN]
  <1> DEFINE g == [v2 EXCEPT !.sent = @ + 1]
  <1>1. v2' = [g EXCEPT !.dirty = FALSE]
    BY Zenon DEF Clipboard!Listed
  <1>2. /\ g \in [sent : Nat, acked : Nat, dirty : BOOLEAN]
        /\ g.sent = v2.sent + 1 /\ g.acked = v2.acked
    OBVIOUS
  <1> HIDE DEF g
  <1> QED BY ONLY Zenon, <1>1, <1>2

LEMMA ClipTakeCopy ==
    ASSUME ClipInv, Clipboard!TakeInput, Head(v6).type = "copy", Clipboard!TakeCopy(Head(v6))
    PROVE  ClipInv'
  <1> DEFINE m == Head(v6)
  <1>0. ClipTyped /\ ListsCounted /\ KeysMeet(v9, v11)
    BY DEF ClipInv
  <1>1. /\ m \in Inputs /\ v6' \in Seq(Inputs)
        /\ Idle(v6) => Idle(v6')
        /\ \A kind : Fetching(v6, kind) => Fetching(v6', kind)
        /\ UNCHANGED <<v4, v5, v10, v11, v12, v13, v14, v15,
                       v17, v18>>
    <2>1. m.type \notin {"fetch", "data"}
      OBVIOUS
    <2> QED BY ONLY <1>0, Clipboard!TakeInput, <2>1, Taken, Zenon
  <1>2. /\ m.kind \in Clipboard!Kinds \cup {"files"} /\ m.id \in Nat /\ m.pasting \in BOOLEAN
        /\ m.pasting => m.kind = "text"
    BY ONLY <1>1, Head(v6).type = "copy" DEF Inputs, Clipboard!Advertise, Shortcuts, Fetches,
       Gifts
  <1>3. /\ v1' = [kind |-> m.kind, id |-> m.id] /\ UNCHANGED v8
        /\ v16' = IF m.pasting THEN m.id ELSE v16
        /\ \/ /\ v2' = Clipboard!Listed
              /\ v3' = [Clipboard!NoPaste EXCEPT !.pending = IF m.pasting THEN v2'.sent ELSE 0]
              /\ v9' = Append(v9, Clipboard!List(v1'))
           \/ /\ ~ v5 /\ v2' = [v2 EXCEPT !.dirty = TRUE]
              /\ v3' = Clipboard!NoPaste /\ UNCHANGED v9
    BY DEF Clipboard!TakeCopy
  <1>4. /\ v2 \in [sent : Nat, acked : Nat, dirty : BOOLEAN] /\ v16 \in Nat
        /\ v1' \in [kind : Clipboard!Kinds \cup {"none", "files"}, id : Nat] /\ v16' \in Nat
        /\ m.pasting => Says(v1', v16')
        /\ v10 \in Seq(Told(v14))
    <2>1. v2 \in [sent : Nat, acked : Nat, dirty : BOOLEAN] /\ v16 \in Nat
          /\ v10 \in Seq(Told(v14))
      BY <1>0 DEF ClipTyped
    <2> QED BY ONLY <1>2, <1>3, <2>1 DEF Says
  <1> HIDE DEF m
  <1>5. CASE /\ v2' = Clipboard!Listed
             /\ v3' = [Clipboard!NoPaste EXCEPT !.pending = IF m.pasting THEN v2'.sent ELSE 0]
             /\ v9' = Append(v9, Clipboard!List(v1'))
    <2>1. /\ v9' \in Seq(Wanted(v14))
          /\ Count(v9', "list") = Count(v9, "list") + 1
          /\ Count(v9, "list") \in Nat /\ Count(v10, "answer") \in Nat
          /\ KeysMeet(v9', v11)
          /\ Idle(v9) => Idle(v9')
          /\ \A kind : Fetching(v9, kind) => Fetching(v9', kind)
          /\ \A id : Says(v1', id) =>
               ListsFrom(v9', v2.acked + Count(v10, "answer"), v2.sent + 1, id)
      BY ONLY Zenon, <1>0, <1>4, <1>5, ListSent
    <2>2. /\ v2'.sent = v2.sent + 1 /\ v2'.acked = v2.acked /\ v2'.dirty = FALSE
          /\ v2' \in [sent : Nat, acked : Nat, dirty : BOOLEAN]
      BY ONLY Zenon, <1>4, <1>5, ListedIs
    <2>3. /\ v3'.pending = IF m.pasting THEN v2.sent + 1 ELSE 0
          /\ v3'.ready = 0 /\ v3' \in [pending : Nat, ready : Nat]
      BY ONLY Zenon, <1>4, <1>5, <2>2 DEF Clipboard!NoPaste
    <2>4. ClipTyped'
      BY ONLY Zenon, <1>0, <1>1, <1>3, <1>4, <2>1, <2>2, <2>3 DEF ClipTyped
    <2>5. ListsCounted'
      BY ONLY <1>0, <1>1, <1>4, <2>1, <2>2 DEF ListsCounted
    <2>6. ASSUME v3'.pending # 0
          PROVE  /\ Says(v1', v16') /\ v2.acked < v2.sent + 1
                 /\ v3'.pending = v2.sent + 1
                 /\ v2.acked + Count(v10, "answer") < v2.sent + 1
      BY ONLY <1>0, <1>4, <2>1, <2>3, <2>6 DEF ListsCounted
    <2>7. PendingKept'
      <3>1. ASSUME v3'.pending # 0
            PROVE  AnswersFrom(v10, v2.acked, v2.sent + 1, v11, v16', v15)
        <4>1. v2.acked \in Nat /\ v2.sent + 1 \in Nat
          BY ONLY <1>4
        <4> QED BY ONLY <1>4, <2>6, <3>1, <4>1, AnswersBeyond
      <3> QED BY ONLY <1>1, <1>4, <2>1, <2>2, <2>3, <2>6, <3>1 DEF PendingKept
    <2>8. ReadyKept' /\ DirtyKept'
      BY ONLY <2>2, <2>3 DEF ReadyKept, DirtyKept
    <2>9. CopyComes'
      BY ONLY <1>1, <2>1, ClipInv DEF ClipInv, CopyComes
    <2>10. (KeysMeet(v9, v11) /\ NewestIs(v10, v11) /\ Clipboard!PastesWhatWasAsked)'
      BY ONLY <1>1, <2>1, ClipInv DEF ClipInv, Clipboard!PastesWhatWasAsked
    <2> QED BY ONLY <2>4, <2>5, <2>7, <2>8, <2>9, <2>10 DEF ClipInv
  <1>6. CASE /\ ~ v5 /\ v2' = [v2 EXCEPT !.dirty = TRUE]
             /\ v3' = Clipboard!NoPaste /\ UNCHANGED v9
    <2>1. /\ v2'.sent = v2.sent /\ v2'.acked = v2.acked
          /\ v2' \in [sent : Nat, acked : Nat, dirty : BOOLEAN]
          /\ v3'.pending = 0 /\ v3'.ready = 0 /\ v3' \in [pending : Nat, ready : Nat]
      BY ONLY Zenon, <1>4, <1>6 DEF Clipboard!NoPaste
    <2>2. ClipTyped'
      BY ONLY Zenon, <1>0, <1>1, <1>3, <1>4, <1>6, <2>1 DEF ClipTyped
    <2>3. ListsCounted' /\ PendingKept' /\ ReadyKept' /\ DirtyKept'
      BY ONLY <1>0, <1>1, <1>6, <2>1 DEF ListsCounted, PendingKept, ReadyKept, DirtyKept
    <2>4. CopyComes'
      BY ONLY <1>1, <1>6, ClipInv DEF ClipInv, CopyComes
    <2>5. (KeysMeet(v9, v11) /\ NewestIs(v10, v11) /\ Clipboard!PastesWhatWasAsked)'
      BY ONLY <1>1, <1>6, ClipInv DEF ClipInv, Clipboard!PastesWhatWasAsked
    <2> QED BY ONLY <2>2, <2>3, <2>4, <2>5 DEF ClipInv
  <1> QED BY ONLY <1>3, <1>5, <1>6

LEMMA ClipTakeAdvertise ==
    ASSUME ClipInv, Clipboard!TakeInput, Head(v6).type = "advertise", Clipboard!TakeAdvertise
    PROVE  ClipInv'
  <1>0. ClipTyped /\ ListsCounted /\ KeysMeet(v9, v11) /\ PendingKept /\ ReadyKept
    BY DEF ClipInv
  <1>1. /\ v6' \in Seq(Inputs)
        /\ \A n : Due(v6, n) => Due(v6', n)
        /\ Idle(v6) => Idle(v6')
        /\ \A kind : Fetching(v6, kind) => Fetching(v6', kind)
        /\ UNCHANGED <<v4, v5, v10, v11, v12, v13, v14, v15,
                       v17, v18>>
    <2>1. Head(v6).type \notin {"fetch", "data", "shortcut"}
      OBVIOUS
    <2> QED BY ONLY <1>0, Clipboard!TakeInput, <2>1, Taken, Zenon
  <1>2. /\ UNCHANGED <<v1, v3, v8, v16>>
        /\ IF ~ v2.dirty /\ v2.sent > 0 THEN UNCHANGED <<v2, v9>>
           ELSE v2' = Clipboard!Listed /\ v9' = Append(v9, Clipboard!List(Clipboard!Offered(v1)))
    BY DEF Clipboard!TakeAdvertise
  <1>3. /\ v2 \in [sent : Nat, acked : Nat, dirty : BOOLEAN] /\ v16 \in Nat
        /\ v1 \in [kind : Clipboard!Kinds \cup {"none", "files"}, id : Nat]
        /\ v10 \in Seq(Told(v14)) /\ v3 \in [pending : Nat, ready : Nat]
    BY <1>0 DEF ClipTyped
  <1>4. (KeysMeet(v9', v11) => KeysMeet(v9, v11)')
        /\ NewestIs(v10, v11)' /\ Clipboard!PastesWhatWasAsked'
    BY ONLY <1>1, ClipInv DEF ClipInv, Clipboard!PastesWhatWasAsked
  <1>5. CASE ~ v2.dirty /\ v2.sent > 0
    <2>1. UNCHANGED <<v2, v9>> /\ ~ v2.dirty
      BY ONLY <1>2, <1>5
    <2>2. ClipTyped'
      BY ONLY Zenon, <1>0, <1>1, <1>2, <2>1 DEF ClipTyped
    <2>3. ListsCounted' /\ PendingKept' /\ ReadyKept' /\ DirtyKept'
      BY ONLY <1>0, <1>1, <1>2, <2>1 DEF ListsCounted, PendingKept, ReadyKept, DirtyKept
    <2>4. CopyComes'
      BY ONLY <1>1, <2>1, ClipInv DEF ClipInv, CopyComes
    <2> QED BY ONLY <1>0, <1>4, <2>1, <2>2, <2>3, <2>4 DEF ClipInv
  <1>6. CASE v2' = Clipboard!Listed /\ v9' = Append(v9, Clipboard!List(Clipboard!Offered(v1)))
    <2>0. /\ Clipboard!Offered(v1) \in [kind : Clipboard!Kinds \cup {"none", "files"}, id : Nat]
          /\ \A id : Says(v1, id) => Says(Clipboard!Offered(v1), id)
      BY ONLY <1>3 DEF Clipboard!Offered, Says
    <2>1. /\ v9' \in Seq(Wanted(v14))
          /\ Count(v9', "list") = Count(v9, "list") + 1
          /\ Count(v9, "list") \in Nat /\ Count(v10, "answer") \in Nat
          /\ KeysMeet(v9', v11)
          /\ Idle(v9) => Idle(v9')
          /\ \A kind : Fetching(v9, kind) => Fetching(v9', kind)
          /\ \A id : Says(Clipboard!Offered(v1), id) =>
               /\ ListsSay(v9, id) => ListsSay(v9', id)
               /\ \A n, base \in Nat :
                    ListsFrom(v9, base, n, id) => ListsFrom(v9', base, n, id)
      BY ONLY <1>0, <1>6, <2>0, ListSent
    <2>2. /\ v2'.sent = v2.sent + 1 /\ v2'.acked = v2.acked /\ v2'.dirty = FALSE
          /\ v2' \in [sent : Nat, acked : Nat, dirty : BOOLEAN]
      BY ONLY Zenon, <1>3, <1>6, ListedIs
    <2>3. ClipTyped'
      BY ONLY Zenon, <1>0, <1>1, <1>2, <2>1, <2>2 DEF ClipTyped
    <2>4. ListsCounted'
      BY ONLY <1>0, <1>1, <1>3, <2>1, <2>2 DEF ListsCounted
    <2>5. PendingKept'
      <3> SUFFICES ASSUME v3.pending # 0
                   PROVE  /\ Says(v1, v16) /\ v3.ready = 0
                          /\ v2'.acked < v3.pending /\ v3.pending <= v2'.sent
                          /\ ListsFrom(v9', v2'.acked + Count(v10, "answer"), v3.pending, v16)
                          /\ AnswersFrom(v10, v2'.acked, v3.pending, v11, v16, v15)
        BY <1>1, <1>2 DEF PendingKept
      <3>1. /\ Says(v1, v16) /\ v3.ready = 0
            /\ v2.acked < v3.pending /\ v3.pending <= v2.sent
            /\ ListsFrom(v9, v2.acked + Count(v10, "answer"), v3.pending, v16)
            /\ AnswersFrom(v10, v2.acked, v3.pending, v11, v16, v15)
        BY <1>0 DEF PendingKept
      <3>2. v2.acked + Count(v10, "answer") \in Nat /\ v3.pending \in Nat
            /\ v2.sent \in Nat
        BY ONLY <1>3, <2>1
      <3>3. ListsFrom(v9', v2.acked + Count(v10, "answer"), v3.pending, v16)
        BY ONLY <2>0, <2>1, <3>1, <3>2
      <3>4. v2'.acked = v2.acked /\ v3.pending <= v2'.sent
        BY ONLY <2>2, <3>1, <3>2
      <3> QED BY ONLY <3>1, <3>3, <3>4
    <2>6. ReadyKept' /\ DirtyKept'
      BY ONLY <1>0, <1>1, <1>2, <2>0, <2>1, <2>2 DEF ReadyKept, DirtyKept
    <2>7. CopyComes'
      BY ONLY <1>1, <2>1, ClipInv DEF ClipInv, CopyComes
    <2> QED BY ONLY <1>4, <2>1, <2>3, <2>4, <2>5, <2>6, <2>7 DEF ClipInv
  <1> QED BY ONLY <1>2, <1>5, <1>6

\* Control-V typed behind every list there is, which all say its text.
LEMMA KeysTyped ==
    ASSUME ClipInv, v3.ready # 0, v3' = [v3 EXCEPT !.ready = 0],
           UNCHANGED <<v1, v2, v4, v5, v10, v11, v12, v13, v14,
                       v15, v16, v17, v18>>,
           v6' \in Seq(Inputs), v8' \in Seq(Shortcuts),
           Holds(v6, "advertise") => Holds(v6', "advertise"),
           Idle(v6) => Idle(v6'),
           \A kind : Fetching(v6, kind) => Fetching(v6', kind),
           v9' = Append(v9, [type |-> "keys", id |-> v16, seen |-> v15])
    PROVE  ClipInv'
  <1> DEFINE m == [type |-> "keys", id |-> v16, seen |-> v15]
  <1>0. ClipTyped /\ ListsCounted /\ KeysMeet(v9, v11) /\ PendingKept /\ ReadyKept
    BY DEF ClipInv
  <1>1. /\ v3 \in [pending : Nat, ready : Nat] /\ v16 \in Nat /\ v15 \in 0 .. v14
        /\ v14 \in Nat /\ v9 \in Seq(Wanted(v14))
    BY <1>0 DEF ClipTyped
  <1>2. v3.pending = 0 /\ ListsSay(v9, v16) /\ Pasteable(v11, v16, v15)
    BY ONLY <1>0, <1>1, v3.ready # 0 DEF PendingKept, ReadyKept
  <1>3. v3'.pending = 0 /\ v3'.ready = 0 /\ v3' \in [pending : Nat, ready : Nat]
    BY Zenon, <1>1, <1>2
  <1>4. m \in Wanted(v14) /\ m.type = "keys" /\ m.id = v16 /\ m.seen = v15
    BY ONLY <1>1 DEF Wanted
  <1>5. v9' = Append(v9, m)
    OBVIOUS
  <1> HIDE DEF m
  <1>6. v9' \in Seq(Wanted(v14))
    BY ONLY <1>1, <1>4, <1>5
  <1>7. Count(v9', "list") = Count(v9, "list")
    <2>1. m.type # "list"
      BY ONLY <1>4
    <2> QED BY ONLY <1>1, <1>4, <1>5, <2>1, CountBehind
  <1>8. KeysMeet(v9', v11)
    BY ONLY <1>0, <1>1, <1>2, <1>4, <1>5, KeysBehind
  <1>9. /\ Idle(v9) => Idle(v9')
        /\ \A kind : Fetching(v9, kind) => Fetching(v9', kind)
    <2>1. m.type \notin {"fetch", "data"}
      BY ONLY <1>4
    <2> QED BY ONLY <1>1, <1>4, <1>5, <2>1, BusyBehind
  <1>10. ClipTyped'
    <2>1. UNCHANGED <<v1, v2, v4, v5, v10, v11, v13, v14, v15, v16>>
          /\ v6' \in Seq(Inputs) /\ v8' \in Seq(Shortcuts)
      OBVIOUS
    <2> QED BY ONLY Zenon, <1>0, <1>3, <1>6, <2>1 DEF ClipTyped
  <1>11. ListsCounted' /\ PendingKept' /\ ReadyKept'
    BY <1>0, <1>3, <1>7 DEF ListsCounted, PendingKept, ReadyKept
  <1>12. DirtyKept' /\ NewestIs(v10, v11)' /\ Clipboard!PastesWhatWasAsked'
    BY DEF ClipInv, DirtyKept, Clipboard!PastesWhatWasAsked
  <1>13. KeysMeet(v9, v11)'
    BY <1>8
  <1>14. CopyComes'
    BY <1>9 DEF ClipInv, CopyComes
  <1> QED BY ONLY <1>10, <1>11, <1>12, <1>13, <1>14 DEF ClipInv

\* A shortcut that has been put off, or that is of a paste given up since.
LEMMA KeysLeft ==
    ASSUME ClipInv, UNCHANGED v3,
           UNCHANGED <<v1, v2, v4, v5, v10, v11, v12, v13, v14,
                       v15, v16, v17, v18, v9>>,
           v6' \in Seq(Inputs), v8' \in Seq(Shortcuts),
           Holds(v6, "advertise") => Holds(v6', "advertise"),
           Idle(v6) => Idle(v6'),
           \A kind : Fetching(v6, kind) => Fetching(v6', kind),
           v3.ready # 0 => Due(v6', v3.ready) \/ Due(v8', v3.ready)
    PROVE  ClipInv'
  <1>1. ClipTyped'
    BY Zenon DEF ClipInv, ClipTyped
  <1>2. ListsCounted' /\ PendingKept'
    BY DEF ClipInv, ListsCounted, PendingKept
  <1>3. ReadyKept'
    BY DEF ClipInv, ReadyKept
  <1>4. DirtyKept' /\ (KeysMeet(v9, v11) /\ NewestIs(v10, v11) /\ Clipboard!PastesWhatWasAsked)'
    BY DEF ClipInv, DirtyKept, Clipboard!PastesWhatWasAsked
  <1>5. CopyComes'
    BY DEF ClipInv, CopyComes
  <1> QED BY ONLY <1>1, <1>2, <1>3, <1>4, <1>5 DEF ClipInv

LEMMA ClipTakeShortcut ==
    ASSUME ClipInv, Clipboard!TakeInput, Head(v6).type = "shortcut",
           Clipboard!TakeShortcut(Head(v6))
    PROVE  ClipInv'
  <1> DEFINE m == Head(v6)
  <1>0. ClipTyped /\ ReadyKept
    BY DEF ClipInv
  <1>1. /\ m \in Inputs /\ v6' \in Seq(Inputs)
        /\ \A n : Due(v6, n) => Due(v6', n) \/ m.generation = n
        /\ Holds(v6, "advertise") => Holds(v6', "advertise")
        /\ Idle(v6) => Idle(v6')
        /\ \A kind : Fetching(v6, kind) => Fetching(v6', kind)
        /\ UNCHANGED <<v4, v5, v10, v11, v12, v13, v14, v15,
                       v17, v18>>
    <2>1. m.type \notin {"fetch", "data", "advertise"}
      OBVIOUS
    <2> QED BY ONLY <1>0, Clipboard!TakeInput, <2>1, Taken, Zenon
  <1>2. m \in Shortcuts /\ m.generation \in Nat \ {0} /\ m.type = "shortcut"
    BY ONLY <1>1, Head(v6).type = "shortcut"
    DEF Inputs, Clipboard!Advertise, Shortcuts, Fetches, Gifts
  <1>3. v8 \in Seq(Shortcuts) /\ v3 \in [pending : Nat, ready : Nat]
    BY <1>0 DEF ClipTyped
  <1>4. /\ UNCHANGED <<v1, v2, v16>>
        /\ \/ v8' = Append(v8, m) /\ UNCHANGED <<v3, v9>>
           \/ /\ v3.ready = m.generation /\ v3' = [v3 EXCEPT !.ready = 0]
              /\ v9' = Append(v9, [type |-> "keys", id |-> v16, seen |-> v15])
              /\ UNCHANGED v8
           \/ /\ v3.ready # m.generation /\ UNCHANGED <<v3, v9, v8>>
    BY DEF Clipboard!TakeShortcut
  <1>5. v3.ready # 0 => Due(v6, v3.ready) \/ Due(v8, v3.ready)
    BY ONLY <1>0 DEF ReadyKept
  <1> HIDE DEF m
  <1>6. CASE v8' = Append(v8, m) /\ UNCHANGED <<v3, v9>>
    <2>1. v8' \in Seq(Shortcuts)
      BY ONLY <1>2, <1>3, <1>6
    <2>2. Due(v8, v3.ready) \/ v3.ready = m.generation => Due(v8', v3.ready)
      BY ONLY <1>2, <1>3, <1>6, DueIs
    <2>3. v3.ready # 0 => Due(v6', v3.ready) \/ Due(v8', v3.ready)
      BY ONLY <1>1, <1>5, <2>2
    <2> QED BY ONLY ClipInv, <1>1, <1>4, <1>6, <2>1, <2>3, KeysLeft
  <1>7. CASE /\ v3.ready = m.generation /\ v3' = [v3 EXCEPT !.ready = 0]
             /\ v9' = Append(v9, [type |-> "keys", id |-> v16, seen |-> v15])
             /\ UNCHANGED v8
    <2>1. v3.ready # 0 /\ v8' \in Seq(Shortcuts)
      BY ONLY <1>2, <1>3, <1>7
    <2> QED BY ONLY ClipInv, <1>1, <1>4, <1>7, <2>1, KeysTyped
  <1>8. CASE v3.ready # m.generation /\ UNCHANGED <<v3, v9, v8>>
    <2>1. v3.ready # 0 => Due(v6', v3.ready) \/ Due(v8', v3.ready)
      BY ONLY <1>1, <1>5, <1>8
    <2>2. v8' \in Seq(Shortcuts)
      BY ONLY <1>3, <1>8
    <2> QED BY ONLY ClipInv, <1>1, <1>4, <1>8, <2>1, <2>2, KeysLeft
  <1> QED BY ONLY <1>4, <1>6, <1>7, <1>8

LEMMA ClipTakeDeferred == ClipInv /\ Clipboard!TakeDeferred => ClipInv'
  <1> SUFFICES ASSUME ClipInv, Clipboard!TakeDeferred PROVE ClipInv'
    OBVIOUS
  <1> DEFINE m == Head(v8)
  <1>0. ClipTyped /\ ReadyKept
    BY DEF ClipInv
  <1>1. /\ v8 \in Seq(Shortcuts) /\ v8 # <<>> /\ v8' = Tail(v8)
        /\ UNCHANGED <<v1, v2, v4, v5, v6, v10, v11, v12, v13,
                       v14, v15, v16, v17, v18>>
        /\ \/ /\ v3.ready = m.generation /\ v3' = [v3 EXCEPT !.ready = 0]
              /\ v9' = Append(v9, [type |-> "keys", id |-> v16, seen |-> v15])
           \/ v3.ready # m.generation /\ UNCHANGED <<v3, v9>>
    BY Zenon, <1>0 DEF Clipboard!TakeDeferred, Clipboard!ghosts, ClipTyped
  <1>2. v8' \in Seq(Shortcuts) /\ m \in Shortcuts
    BY ONLY <1>1, TailIs
  <1>3. m.generation \in Nat \ {0}
    BY ONLY <1>2 DEF Shortcuts
  <1>4. v6' \in Seq(Inputs)
    BY ONLY <1>0, <1>1 DEF ClipTyped
  <1>5. Due(v8, v3.ready) => Due(v8', v3.ready) \/ m.generation = v3.ready
    BY ONLY <1>1, DueIs
  <1>6. v3.ready # 0 => Due(v6, v3.ready) \/ Due(v8, v3.ready)
    BY ONLY <1>0 DEF ReadyKept
  <1> HIDE DEF m
  <1>7. /\ Holds(v6, "advertise") => Holds(v6', "advertise")
        /\ Idle(v6) => Idle(v6')
        /\ \A kind : Fetching(v6, kind) => Fetching(v6', kind)
    BY ONLY <1>1
  <1>8. CASE /\ v3.ready = m.generation /\ v3' = [v3 EXCEPT !.ready = 0]
             /\ v9' = Append(v9, [type |-> "keys", id |-> v16, seen |-> v15])
    <2>1. v3.ready # 0
      BY ONLY <1>3, <1>8
    <2> QED BY ONLY ClipInv, <1>1, <1>2, <1>4, <1>7, <1>8, <2>1, KeysTyped
  <1>9. CASE v3.ready # m.generation /\ UNCHANGED <<v3, v9>>
    <2>1. v3.ready # 0 => Due(v6', v3.ready) \/ Due(v8', v3.ready)
      BY ONLY <1>1, <1>5, <1>6, <1>9
    <2> QED BY ONLY ClipInv, <1>1, <1>2, <1>4, <1>7, <1>9, <2>1, KeysLeft
  <1> QED BY ONLY <1>1, <1>8, <1>9

LEMMA ClipReactivate == ClipInv /\ (Clipboard!Reactivate \/ UNCHANGED Clipboard!vars) => ClipInv'
  <1> SUFFICES ASSUME ClipInv, Clipboard!Reactivate \/ UNCHANGED Clipboard!vars PROVE ClipInv'
    OBVIOUS
  <1>1. UNCHANGED <<v1, v2, v3, v4, v5, v6, v8, v9, v10,
                    v11, v12, v13, v14, v15, v16, v17, v18>>
    BY DEF Clipboard!Reactivate, Clipboard!vars, Clipboard!clientVars, Clipboard!loopVars,
       Clipboard!ghosts
  <1>2. ClipTyped'
    BY ONLY <1>1, ClipInv DEF ClipInv, ClipTyped
  <1>3. ListsCounted' /\ PendingKept' /\ ReadyKept' /\ DirtyKept'
    BY ONLY <1>1, ClipInv DEF ClipInv, ListsCounted, PendingKept, ReadyKept, DirtyKept
  <1>4. CopyComes' /\ (KeysMeet(v9, v11) /\ NewestIs(v10, v11) /\ Clipboard!PastesWhatWasAsked)'
    BY ONLY <1>1, ClipInv DEF ClipInv, CopyComes, Clipboard!PastesWhatWasAsked
  <1> QED BY ONLY <1>2, <1>3, <1>4 DEF ClipInv

LEMMA ClipTakeMessage ==
    ASSUME ClipInv, Clipboard!TakeInput, Head(v6).type \in {"fetch", "data"},
           Clipboard!TakeMessage(Head(v6))
    PROVE  ClipInv'
  <1> DEFINE m == Head(v6)
  <1>0. ClipTyped /\ ListsCounted /\ KeysMeet(v9, v11) /\ PendingKept /\ ReadyKept
    BY DEF ClipInv
  <1>1. /\ m \in Inputs /\ v6' \in Seq(Inputs)
        /\ \A n : Due(v6, n) => Due(v6', n)
        /\ Holds(v6, "advertise") => Holds(v6', "advertise")
        /\ ~ Idle(v6)
        /\ \A kind : Fetching(v6, kind) => m.type = "fetch" /\ m.kind = kind /\ Idle(v6')
        /\ UNCHANGED <<v4, v5, v10, v11, v12, v13, v14, v15,
                       v17, v18>>
    <2>1. m.type \in {"fetch", "data"} /\ m.type \notin {"shortcut", "advertise"}
      OBVIOUS
    <2> QED BY ONLY <1>0, Clipboard!TakeInput, <2>1, Taken, Zenon
  <1>2. m \in Wanted(v14) /\ m.type \notin {"list", "keys"}
    <2>1. m.type \in {"fetch", "data"}
      OBVIOUS
    <2> QED BY ONLY <1>1, <2>1 DEF Inputs, Clipboard!Advertise, Shortcuts, Fetches, Gifts,
               Wanted
  <1>3. v9' = Append(v9, m) /\ UNCHANGED <<v1, v2, v3, v8, v16>>
    BY DEF Clipboard!TakeMessage
  <1>4. /\ v9 \in Seq(Wanted(v14)) /\ v2 \in [sent : Nat, acked : Nat, dirty : BOOLEAN]
        /\ v10 \in Seq(Told(v14)) /\ v3 \in [pending : Nat, ready : Nat]
    BY <1>0 DEF ClipTyped
  <1> HIDE DEF m
  <1>5. v9' \in Seq(Wanted(v14))
    BY ONLY <1>2, <1>3, <1>4
  <1>6. /\ Count(v9', "list") = Count(v9, "list")
        /\ Count(v10, "answer") \in Nat
    <2>1. m.type # "list"
      BY ONLY <1>2
    <2>2. Count(v9', "list") = Count(v9, "list")
      BY ONLY <1>2, <1>3, <1>4, <2>1, CountBehind
    <2>3. Count(v10, "answer") \in Nat
      BY ONLY <1>4, CountIs
    <2> QED BY ONLY <2>2, <2>3
  <1>7. KeysMeet(v9', v11)
    <2>1. m.type # "keys"
      BY ONLY <1>2
    <2> QED BY ONLY <1>0, <1>2, <1>3, <1>4, <2>1, KeysBehind
  <1>8. \A n, base \in Nat : \A id :
           /\ ListsSay(v9, id) => ListsSay(v9', id)
           /\ ListsFrom(v9, base, n, id) => ListsFrom(v9', base, n, id)
    <2>1. m.type # "list"
      BY ONLY <1>2
    <2> QED BY ONLY Zenon, <1>2, <1>3, <1>4, <2>1, ListsBehind
  <1>9. \A kind : m.type = "fetch" /\ m.kind = kind /\ Idle(v9) => Fetching(v9', kind)
    BY ONLY <1>2, <1>3, <1>4, BusyBehind
  <1>10. ClipTyped'
    BY ONLY Zenon, <1>0, <1>1, <1>3, <1>5 DEF ClipTyped
  <1>11. ListsCounted' /\ DirtyKept'
    BY ONLY <1>1, <1>3, <1>6, ClipInv DEF ClipInv, ListsCounted, DirtyKept
  <1>12. PendingKept'
    <2>1. v2.acked + Count(v10, "answer") \in Nat /\ v3.pending \in Nat
      BY ONLY <1>4, <1>6
    <2> QED BY ONLY <1>0, <1>1, <1>3, <1>8, <2>1 DEF PendingKept
  <1>13. ReadyKept'
    BY ONLY <1>0, <1>1, <1>3, <1>8 DEF ReadyKept
  <1>14. CopyComes'
    BY ONLY <1>1, <1>3, <1>9, ClipInv DEF ClipInv, CopyComes
  <1>15. (KeysMeet(v9, v11) /\ NewestIs(v10, v11) /\ Clipboard!PastesWhatWasAsked)'
    BY ONLY <1>1, <1>7, ClipInv DEF ClipInv, Clipboard!PastesWhatWasAsked
  <1> QED BY ONLY <1>10, <1>11, <1>12, <1>13, <1>14, <1>15 DEF ClipInv

LEMMA ClipTakeInput == ClipInv /\ Clipboard!TakeInput => ClipInv'
  BY ClipTakeCopy, ClipTakeAdvertise, ClipTakeShortcut, ClipTakeMessage
  DEF Clipboard!TakeInput, Clipboard!Handle

\* What the first of the messages to the helper leaves behind.
LEMMA Received ==
    ASSUME ClipInv, Clipboard!Receive
    PROVE  /\ Head(v10) \in Told(v14) /\ v10' \in Seq(Told(v14))
           /\ UNCHANGED <<v8, v9, v11, v13, v14, v16, v18>>
           /\ NewestIs(v10', v11)
           /\ Head(v10).type = "copied" /\ ~ Holds(v10', "copied") /\ v11.who = "server"
                => Head(v10).kinds = v11.kinds /\ Head(v10).id = v11.id
           /\ Holds(v10, "copied") => Holds(v10', "copied") \/ Head(v10).type = "copied"
           /\ Idle(v10) => Idle(v10') /\ Head(v10).type \notin {"fetch", "data"}
           /\ Idle(v10') /\ Head(v10).type \notin {"fetch", "data"} => Idle(v10)
           /\ \A kind, from : Giving(v10, kind, from) =>
                \/ /\ Head(v10).type = "data" /\ Head(v10).kind = kind /\ Head(v10).ok
                   /\ Head(v10).id = from.id /\ Idle(v10')
                \/ Head(v10).type \notin {"fetch", "data"} /\ Giving(v10', kind, from)
  <1>1. /\ v10 \in Seq(Told(v14)) /\ v10 # <<>> /\ v10' = Tail(v10)
        /\ UNCHANGED <<v8, v9, v11, v13, v14, v16, v18>>
        /\ NewestIs(v10, v11)
    BY DEF ClipInv, ClipTyped, Clipboard!Receive, Clipboard!loopVars
  <1>2. Head(v10) \in Told(v14) /\ v10' \in Seq(Told(v14))
    BY ONLY <1>1, TailIs
  <1>3. /\ NewestIs(v10', v11)
        /\ Head(v10).type = "copied" /\ ~ Holds(v10', "copied") /\ v11.who = "server"
             => Head(v10).kinds = v11.kinds /\ Head(v10).id = v11.id
    BY ONLY <1>1, NewestTail
  <1>4. Holds(v10, "copied") => Holds(v10', "copied") \/ Head(v10).type = "copied"
    BY ONLY <1>1, HoldsIs
  <1>5. /\ Idle(v10) => Idle(v10') /\ Head(v10).type \notin {"fetch", "data"}
        /\ Idle(v10') /\ Head(v10).type \notin {"fetch", "data"} => Idle(v10)
        /\ \A kind, from : Giving(v10, kind, from) =>
             \/ /\ Head(v10).type = "data" /\ Head(v10).kind = kind /\ Head(v10).ok
                /\ Head(v10).id = from.id /\ Idle(v10')
             \/ Head(v10).type \notin {"fetch", "data"} /\ Giving(v10', kind, from)
    <2>1. /\ Idle(v10) => Idle(v10') /\ Head(v10).type \notin {"fetch", "data"}
          /\ Idle(v10') /\ Head(v10).type \notin {"fetch", "data"} => Idle(v10)
      BY ONLY <1>1, BusyTail
    <2>2. \A kind, from : Giving(v10, kind, from) =>
             \/ /\ Head(v10).type = "data" /\ Head(v10).kind = kind /\ Head(v10).ok
                /\ Head(v10).id = from.id /\ Idle(v10')
             \/ Head(v10).type \notin {"fetch", "data"} /\ Giving(v10', kind, from)
      BY ONLY <1>1, BusyTail
    <2> QED BY ONLY <2>1, <2>2
  <1> QED BY ONLY <1>1, <1>2, <1>3, <1>4, <1>5, Zenon

\* A message that is no answer leaves the lists and the answers as they are.
LEMMA NoAnswer ==
    ASSUME ClipInv, Clipboard!Receive, Head(v10).type # "answer", v2' = v2
    PROVE  /\ Count(v10', "answer") = Count(v10, "answer")
           /\ Count(v10, "answer") \in Nat
           /\ ListsCounted'
           /\ v1' = v1 /\ v3' = v3 /\ v15' = v15 => PendingKept'
  <1>1. /\ v10 \in Seq(Told(v14)) /\ v10 # <<>> /\ v10' = Tail(v10)
        /\ UNCHANGED <<v9, v11, v16>>
        /\ v2 \in [sent : Nat, acked : Nat, dirty : BOOLEAN]
        /\ v3 \in [pending : Nat, ready : Nat]
        /\ ListsCounted /\ PendingKept
    BY DEF ClipInv, ClipTyped, Clipboard!Receive
  <1>2. Count(v10', "answer") = Count(v10, "answer")
    BY ONLY <1>1, Head(v10).type # "answer", CountTail
  <1>3. Count(v10, "answer") \in Nat
    BY ONLY <1>1, CountIs
  <1>4. ListsCounted'
    BY ONLY <1>1, <1>2, v2' = v2 DEF ListsCounted
  <1>5. ASSUME v1' = v1, v3' = v3, v15' = v15 PROVE PendingKept'
    <2>1. ASSUME v3.pending # 0
          PROVE  AnswersFrom(v10', v2.acked, v3.pending, v11, v16, v15)
      <3>1. AnswersFrom(v10, v2.acked, v3.pending, v11, v16, v15)
        BY ONLY <1>1, <2>1 DEF PendingKept
      <3>2. v2.acked \in Nat /\ v3.pending \in Nat
        BY ONLY <1>1
      <3> QED BY ONLY <1>1, <3>1, <3>2, Head(v10).type # "answer", AnswersTail
    <2> QED BY ONLY <1>1, <1>2, <1>5, <2>1, v2' = v2 DEF PendingKept
  <1> QED BY ONLY <1>2, <1>3, <1>4, <1>5

LEMMA ClipOnMonitor ==
    ASSUME ClipInv, Clipboard!Receive, Head(v10).type = "monitor", Clipboard!OnMonitor
    PROVE  ClipInv'
  <1>0. ClipTyped /\ ReadyKept /\ DirtyKept /\ CopyComes
    BY DEF ClipInv
  <1>1. /\ v10' \in Seq(Told(v14))
        /\ UNCHANGED <<v8, v9, v11, v13, v14, v16, v18>>
        /\ NewestIs(v10', v11)
        /\ Holds(v10, "copied") => Holds(v10', "copied")
        /\ Idle(v10) => Idle(v10')
        /\ \A kind, from : Giving(v10, kind, from) => Giving(v10', kind, from)
    <2>1. Head(v10).type \notin {"copied", "data"}
      OBVIOUS
    <2> QED BY ONLY ClipInv, Clipboard!Receive, <2>1, Received
  <1>2. /\ UNCHANGED <<v1, v2, v3, v4, v5, v12, v15, v17>>
        /\ v6' = Append(v6, Clipboard!Advertise)
    BY DEF Clipboard!OnMonitor, Clipboard!clientVars
  <1>3. ListsCounted' /\ PendingKept'
    <2>1. Head(v10).type # "answer" /\ v2' = v2
      BY <1>2
    <2> QED BY ONLY ClipInv, Clipboard!Receive, <1>2, <2>1, NoAnswer
  <1>4. v6 \in Seq(Inputs) /\ Clipboard!Advertise \in Inputs /\ Clipboard!Advertise.type = "advertise"
    BY <1>0 DEF ClipTyped, Inputs, Clipboard!Advertise
  <1>5. /\ v6' \in Seq(Inputs)
        /\ \A n : Due(v6, n) => Due(v6', n)
        /\ Holds(v6', "advertise")
        /\ Idle(v6) => Idle(v6')
        /\ \A kind : Fetching(v6, kind) => Fetching(v6', kind)
    <2>1. v6' \in Seq(Inputs)
      BY ONLY <1>2, <1>4
    <2>2. \A n : Due(v6, n) => Due(v6', n)
      BY ONLY <1>2, <1>4, DueIs
    <2>3. Holds(v6', "advertise")
      BY ONLY Zenon, <1>2, <1>4, HoldsIs
    <2>4. Clipboard!Advertise.type \notin {"fetch", "data"}
      BY ONLY <1>4
    <2>5. /\ Idle(v6) => Idle(v6')
          /\ \A kind : Fetching(v6, kind) => Fetching(v6', kind)
      BY ONLY <1>2, <1>4, <2>4, BusyBehind
    <2> QED BY ONLY <2>1, <2>2, <2>3, <2>5
  <1>6. ClipTyped'
    BY ONLY Zenon, <1>0, <1>1, <1>2, <1>5 DEF ClipTyped
  <1>7. ReadyKept' /\ DirtyKept'
    BY ONLY <1>0, <1>1, <1>2, <1>5 DEF ReadyKept, DirtyKept
  <1>8. CopyComes'
    BY ONLY <1>0, <1>1, <1>2, <1>5 DEF CopyComes
  <1>9. (KeysMeet(v9, v11) /\ NewestIs(v10, v11) /\ Clipboard!PastesWhatWasAsked)'
    BY ONLY <1>1, ClipInv DEF ClipInv, Clipboard!PastesWhatWasAsked
  <1> QED BY ONLY <1>3, <1>6, <1>7, <1>8, <1>9 DEF ClipInv

\* The inputs behind an answer: a list, if the channel has become ready, and Control-V.
LEMMA AnswerQueued ==
    ASSUME v6 \in Seq(Inputs), NEW n \in Nat \ {0}, NEW listing \in BOOLEAN, NEW typing \in BOOLEAN,
           v6' = (v6 \o (IF listing THEN <<Clipboard!Advertise>> ELSE <<>>))
                       \o (IF typing THEN <<[type |-> "shortcut", generation |-> n]>> ELSE <<>>)
    PROVE  /\ v6' \in Seq(Inputs)
           /\ \A k : Due(v6, k) => Due(v6', k)
           /\ typing => Due(v6', n)
           /\ Holds(v6, "advertise") \/ listing => Holds(v6', "advertise")
           /\ Idle(v6) => Idle(v6')
           /\ \A kind : Fetching(v6, kind) => Fetching(v6', kind)
  <1> DEFINE q == IF listing THEN Append(v6, Clipboard!Advertise) ELSE v6
             m == [type |-> "shortcut", generation |-> n]
  <1>1. /\ Clipboard!Advertise \in Inputs /\ Clipboard!Advertise.type = "advertise"
        /\ m \in Inputs /\ m.type = "shortcut" /\ m.generation = n
    BY DEF Inputs, Clipboard!Advertise, Shortcuts
  <1>2. v6' = IF typing THEN Append(q, m) ELSE q
    <2>1. \A s \in Seq(Inputs), e \in Inputs : s \o <<e>> = Append(s, e) /\ s \o <<>> = s
      OBVIOUS
    <2>2. v6 \o (IF listing THEN <<Clipboard!Advertise>> ELSE <<>>) = q /\ q \in Seq(Inputs)
      BY <1>1, <2>1
    <2>3. v6' = q \o (IF typing THEN <<m>> ELSE <<>>)
      BY Zenon, <2>2
    <2> QED BY ONLY Zenon, <1>1, <2>1, <2>2, <2>3
  <1> DEFINE Good(r, s) == /\ s \in Seq(Inputs) /\ \A k : Due(r, k) => Due(s, k)
                           /\ Holds(r, "advertise") => Holds(s, "advertise")
                           /\ Idle(r) => Idle(s)
                           /\ \A kind : Fetching(r, kind) => Fetching(s, kind)
  <1>3. ASSUME NEW r \in Seq(Inputs), NEW e \in Inputs, e.type \in {"advertise", "shortcut"}
        PROVE  Good(r, Append(r, e))
    <2>1. \A k : Due(r, k) => Due(Append(r, e), k)
      BY ONLY r \in Seq(Inputs), e \in Inputs, DueIs
    <2>2. Holds(r, "advertise") => Holds(Append(r, e), "advertise")
      BY ONLY r \in Seq(Inputs), e \in Inputs, HoldsIs
    <2>3. e.type \notin {"fetch", "data"}
      BY ONLY <1>3
    <2>4. /\ Idle(r) => Idle(Append(r, e))
          /\ \A kind : Fetching(r, kind) => Fetching(Append(r, e), kind)
      BY ONLY r \in Seq(Inputs), e \in Inputs, <2>3, BusyBehind
    <2>5. Append(r, e) \in Seq(Inputs)
      BY ONLY r \in Seq(Inputs), e \in Inputs
    <2> QED BY ONLY <2>1, <2>2, <2>4, <2>5
  <1>4. /\ Good(v6, q) /\ q \in Seq(Inputs)
        /\ listing => Holds(q, "advertise")
    <2>1. CASE listing
      <3>1. q = Append(v6, Clipboard!Advertise)
        BY <2>1
      <3>2. Holds(Append(v6, Clipboard!Advertise), "advertise")
        BY ONLY Zenon, v6 \in Seq(Inputs), <1>1, HoldsIs
      <3>3. Good(v6, Append(v6, Clipboard!Advertise)) /\ Append(v6, Clipboard!Advertise) \in Seq(Inputs)
        <4> HIDE DEF Good
        <4> QED BY ONLY v6 \in Seq(Inputs), <1>1, <1>3
      <3> QED BY ONLY <3>1, <3>2, <3>3
    <2>2. CASE ~ listing
      BY <2>2
    <2> QED BY ONLY <2>1, <2>2
  <1>5. Good(q, v6') /\ (typing => Due(v6', n))
    <2>1. CASE typing
      <3>1. v6' = Append(q, m)
        BY ONLY <1>2, <2>1
      <3> HIDE DEF Good, q, m
      <3>2. Good(q, Append(q, m))
        BY ONLY <1>1, <1>3, <1>4
      <3>3. Due(Append(q, m), n)
        BY ONLY <1>1, <1>4, DueIs
      <3> QED BY ONLY <3>1, <3>2, <3>3
    <2>2. CASE ~ typing
      <3>1. v6' = q
        BY ONLY <1>2, <2>2
      <3> HIDE DEF q
      <3> QED BY ONLY <1>4, <2>2, <3>1
    <2> QED BY ONLY <2>1, <2>2
  <1> HIDE DEF q
  <1> QED BY ONLY <1>4, <1>5

LEMMA ClipOnAnswer ==
    ASSUME ClipInv, Clipboard!Receive, Head(v10).type = "answer", Clipboard!OnAnswer(Head(v10))
    PROVE  ClipInv'
  <1> DEFINE m == Head(v10)
             next == v2.acked + 1
             first == m.ok /\ ~ v5
             mine == v3.pending = next
             base == v2.acked + Count(v10, "answer")
  <1>0. ClipTyped /\ ListsCounted /\ PendingKept /\ ReadyKept /\ DirtyKept /\ CopyComes
    BY DEF ClipInv
  <1>1. /\ m \in Told(v14) /\ v10' \in Seq(Told(v14))
        /\ UNCHANGED <<v8, v9, v11, v13, v14, v16, v18>>
        /\ NewestIs(v10', v11)
        /\ Holds(v10, "copied") => Holds(v10', "copied")
        /\ Idle(v10) => Idle(v10')
        /\ \A kind, from : Giving(v10, kind, from) => Giving(v10', kind, from)
    <2>1. m.type \notin {"copied", "data"}
      OBVIOUS
    <2> QED BY ONLY ClipInv, Clipboard!Receive, <2>1, Received
  <1>2. /\ v10 \in Seq(Told(v14)) /\ v9 \in Seq(Wanted(v14))
        /\ v10 # <<>> /\ v10' = Tail(v10)
        /\ v2 \in [sent : Nat, acked : Nat, dirty : BOOLEAN]
        /\ v3 \in [pending : Nat, ready : Nat] /\ v5 \in BOOLEAN
        /\ v6 \in Seq(Inputs)
    BY <1>0 DEF ClipTyped, Clipboard!Receive
  <1>3. m.ok \in BOOLEAN
    BY ONLY <1>1, Head(v10).type = "answer" DEF Told, Fetches, Gifts
  <1>4. Count(v10', "answer") + 1 = Count(v10, "answer")
        /\ Count(v10, "answer") \in Nat \ {0} /\ Count(v10', "answer") \in Nat
    <2>1. Count(v10, "answer") = Count(v10', "answer") + 1
      BY ONLY <1>2, Head(v10).type = "answer", CountTail
    <2>2. Count(v10', "answer") \in Nat
      BY ONLY <1>1, CountIs
    <2> QED BY ONLY <2>1, <2>2
  <1>5. Count(v9, "list") \in Nat
    BY ONLY <1>2, CountIs
  <1>6. next \in Nat \ {0} /\ v2.acked # v2.sent /\ base \in Nat /\ base >= next
        /\ next + Count(v10', "answer") = base
    <2>1. v2.sent = v2.acked + Count(v10, "answer") + Count(v9, "list")
      BY ONLY <1>0 DEF ListsCounted
    <2>2. v2.sent \in Nat /\ v2.acked \in Nat
      BY ONLY <1>2
    <2> QED BY ONLY <1>4, <1>5, <2>1, <2>2
  <1>7. /\ v5' = (v5 \/ first) /\ v2' = [v2 EXCEPT !.acked = next]
        /\ v3' = IF ~ mine THEN v3
                 ELSE [pending |-> 0, ready |-> IF m.ok THEN next ELSE v3.ready]
        /\ v6' = (v6 \o (IF first /\ v2.dirty THEN <<Clipboard!Advertise>> ELSE <<>>))
                       \o (IF mine /\ m.ok THEN <<[type |-> "shortcut", generation |-> next]>> ELSE <<>>)
        /\ UNCHANGED <<v1, v4, v12, v15, v17>>
    <2>1. next > v2.acked
      BY ONLY <1>2
    <2> QED BY Zenon, <1>6, <2>1 DEF Clipboard!OnAnswer
  <1>8. first \in BOOLEAN /\ mine \in BOOLEAN
    BY ONLY <1>2, <1>3
  <1>9. /\ v5' \in BOOLEAN /\ v2'.sent = v2.sent /\ v2'.acked = next
        /\ v2'.dirty = v2.dirty /\ v2' \in [sent : Nat, acked : Nat, dirty : BOOLEAN]
    BY ONLY Zenon, <1>2, <1>6, <1>7, <1>8
  <1>10. IF mine THEN v3'.pending = 0 /\ v3'.ready = IF m.ok THEN next ELSE v3.ready
                 ELSE v3' = v3
    BY ONLY <1>7
  <1>11. v3' \in [pending : Nat, ready : Nat]
    <2>1. mine \/ ~ mine
      OBVIOUS
    <2>2. m.ok \/ ~ m.ok
      OBVIOUS
    <2> HIDE DEF mine, next, m
    <2> QED BY ONLY <1>2, <1>6, <1>7, <2>1, <2>2
  <1>12. /\ v6' \in Seq(Inputs)
         /\ \A k : Due(v6, k) => Due(v6', k)
         /\ mine /\ m.ok => Due(v6', next)
         /\ Holds(v6, "advertise") \/ (first /\ v2.dirty) => Holds(v6', "advertise")
         /\ Idle(v6) => Idle(v6')
         /\ \A kind : Fetching(v6, kind) => Fetching(v6', kind)
    <2>1. (first /\ v2.dirty) \in BOOLEAN /\ (mine /\ m.ok) \in BOOLEAN
      BY ONLY <1>2, <1>3, <1>8
    <2> HIDE DEF first, mine, next, m
    <2> QED BY ONLY Zenon, <1>2, <1>6, <1>7, <2>1, AnswerQueued
  <1>13. ASSUME v3.pending # 0
         PROVE  /\ AnswersFrom(v10', next, v3.pending, v11, v16, v15)
                /\ mine /\ m.ok => Pasteable(v11, v16, v15)
                /\ mine => ListsSay(v9, v16)
                /\ ~ mine => next < v3.pending
    <2>1. /\ ListsFrom(v9, base, v3.pending, v16) /\ v2.acked < v3.pending
          /\ AnswersFrom(v10, v2.acked, v3.pending, v11, v16, v15)
      BY ONLY <1>0, <1>13 DEF PendingKept
    <2>2. v2.acked \in Nat /\ v3.pending \in Nat
      BY ONLY <1>2
    <2>3. /\ AnswersFrom(v10', next, v3.pending, v11, v16, v15)
          /\ mine /\ m.ok => Pasteable(v11, v16, v15)
      BY ONLY <1>2, <2>1, <2>2, Head(v10).type = "answer", AnswersTail
    <2>4. mine => ListsSay(v9, v16)
      <3>1. mine => base >= v3.pending
        BY ONLY <1>6
      <3> HIDE DEF mine, base
      <3> QED BY ONLY Zenon, <1>2, <1>6, <2>1, <2>2, <3>1, FromAny
    <2>5. ~ mine => next < v3.pending
      BY ONLY <2>1, <2>2
    <2> QED BY ONLY <2>3, <2>4, <2>5
  <1> HIDE DEF first, mine, m
  <1>14. ClipTyped'
    BY ONLY Zenon, <1>0, <1>1, <1>7, <1>9, <1>11, <1>12 DEF ClipTyped
  <1>15. ListsCounted'
    BY ONLY <1>0, <1>1, <1>2, <1>4, <1>5, <1>9 DEF ListsCounted
  <1>16. PendingKept'
    <2> SUFFICES ASSUME v3'.pending # 0 PROVE PendingKept'
      BY DEF PendingKept
    <2>1. ~ mine /\ v3' = v3
      BY <1>10
    <2>2. v3.pending # 0
      BY <2>1
    <2>3. /\ Says(v1, v16) /\ v3.ready = 0 /\ v3.pending <= v2.sent
          /\ ListsFrom(v9, base, v3.pending, v16)
      BY ONLY <1>0, <2>2 DEF PendingKept, base
    <2>4. ListsFrom(v9, next + Count(v10', "answer"), v3.pending, v16)
      BY ONLY <1>6, <2>3
    <2> HIDE DEF next, base
    <2> QED BY ONLY <1>1, <1>7, <1>9, <1>13, <2>1, <2>2, <2>3, <2>4 DEF PendingKept
  <1>17. ReadyKept'
    <2>1. CASE mine /\ m.ok
      <3>1. v3.pending # 0 /\ v3'.ready = next
        BY ONLY <1>6, <1>10, <2>1 DEF mine
      <3>2. Says(v1, v16)
        BY ONLY <1>0, <3>1 DEF PendingKept
      <3> HIDE DEF next
      <3> QED BY ONLY <1>1, <1>7, <1>12, <1>13, <2>1, <3>1, <3>2 DEF ReadyKept
    <2>2. CASE mine /\ ~ m.ok
      <3>1. v3.pending # 0 /\ v3'.ready = v3.ready
        BY ONLY <1>6, <1>10, <2>2 DEF mine
      <3>2. v3'.ready = 0
        BY ONLY <1>0, <3>1 DEF PendingKept
      <3> QED BY ONLY <3>2 DEF ReadyKept
    <2>3. CASE ~ mine
      BY ONLY <1>0, <1>1, <1>7, <1>10, <1>12, <2>3 DEF ReadyKept
    <2> QED BY ONLY <2>1, <2>2, <2>3
  <1>18. DirtyKept'
    BY ONLY Zenon, <1>0, <1>7, <1>9, <1>12 DEF DirtyKept
  <1>19. CopyComes'
    BY ONLY <1>0, <1>1, <1>7, <1>12 DEF CopyComes
  <1>20. (KeysMeet(v9, v11) /\ NewestIs(v10, v11) /\ Clipboard!PastesWhatWasAsked)'
    BY ONLY <1>1, ClipInv DEF ClipInv, Clipboard!PastesWhatWasAsked
  <1> QED BY ONLY <1>14, <1>15, <1>16, <1>17, <1>18, <1>19, <1>20 DEF ClipInv

LEMMA OutstandingIs ==
    ~ Clipboard!Outstanding => Idle(v6) /\ Idle(v9) /\ Idle(v10)
  <1> SUFFICES ASSUME ~ Clipboard!Outstanding PROVE Idle(v6) /\ Idle(v9) /\ Idle(v10)
    OBVIOUS
  <1>1. \A q \in {v6, v9, v10} : \A i \in DOMAIN q : q[i].type \notin {"fetch", "data"}
    BY DEF Clipboard!Outstanding
  <1> QED BY ONLY <1>1 DEF Idle, Busy, Of

LEMMA ClipOnRemoteCopy ==
    ASSUME ClipInv, Clipboard!Receive, Head(v10).type = "copied", Clipboard!OnRemoteCopy(Head(v10))
    PROVE  ClipInv'
  <1> DEFINE m == Head(v10)
             kind == IF "data" \in m.kinds THEN "data" ELSE "text"
             e == [type |-> "fetch", kind |-> kind]
  <1>0. ClipTyped /\ DirtyKept
    BY DEF ClipInv
  <1>1. /\ m \in Told(v14) /\ v10' \in Seq(Told(v14))
        /\ UNCHANGED <<v8, v9, v11, v13, v14, v16, v18>>
        /\ NewestIs(v10', v11)
        /\ ~ Holds(v10', "copied") /\ v11.who = "server"
             => m.kinds = v11.kinds /\ m.id = v11.id
        /\ Idle(v10) => Idle(v10')
    <2>1. m.type = "copied"
      OBVIOUS
    <2> QED BY ONLY ClipInv, Clipboard!Receive, <2>1, Received
  <1>2. m.kinds \in (SUBSET Clipboard!Kinds) \ {{}} /\ m.id \in 0 .. v14
    BY ONLY <1>1, Head(v10).type = "copied" DEF Told, Fetches, Gifts
  <1>3. /\ v3' = Clipboard!NoPaste /\ v4' = kind /\ v6' = Append(v6, e)
        /\ v15' = m.id /\ v17' = Clipboard!Outstanding
        /\ UNCHANGED <<v1, v2, v5, v12>>
    BY DEF Clipboard!OnRemoteCopy
  <1>4. kind \in m.kinds /\ kind \in Clipboard!Kinds
    BY ONLY <1>2 DEF Clipboard!Kinds
  <1>5. e \in Inputs /\ e.type = "fetch" /\ e.kind = kind
    BY ONLY <1>4 DEF Inputs, Fetches
  <1>6. v6 \in Seq(Inputs)
    BY ONLY <1>0 DEF ClipTyped
  <1>7. ListsCounted'
    <2>1. Head(v10).type # "answer" /\ v2' = v2
      BY <1>3
    <2> QED BY ONLY ClipInv, Clipboard!Receive, <2>1, NoAnswer
  <1>8. v3'.pending = 0 /\ v3'.ready = 0 /\ v3' \in [pending : Nat, ready : Nat]
    BY ONLY <1>3 DEF Clipboard!NoPaste
  <1> HIDE DEF m, kind, e
  <1>9. v6' \in Seq(Inputs) /\ (Holds(v6, "advertise") => Holds(v6', "advertise"))
        /\ (Idle(v6) => Fetching(v6', kind))
    <2>1. v6' \in Seq(Inputs)
      BY ONLY <1>3, <1>5, <1>6
    <2>2. Holds(v6, "advertise") => Holds(v6', "advertise")
      BY ONLY <1>3, <1>5, <1>6, HoldsIs
    <2>3. Idle(v6) => Fetching(v6', kind)
      BY ONLY <1>3, <1>5, <1>6, BusyBehind
    <2> QED BY ONLY <2>1, <2>2, <2>3
  <1>10. ClipTyped'
    BY ONLY Zenon, <1>0, <1>1, <1>2, <1>3, <1>4, <1>8, <1>9 DEF ClipTyped
  <1>11. PendingKept' /\ ReadyKept'
    BY ONLY <1>8 DEF PendingKept, ReadyKept
  <1>12. DirtyKept'
    BY ONLY <1>0, <1>3, <1>9 DEF DirtyKept
  <1>13. CopyComes'
    BY ONLY <1>1, <1>3, <1>4, <1>9, OutstandingIs DEF CopyComes
  <1>14. (KeysMeet(v9, v11) /\ NewestIs(v10, v11) /\ Clipboard!PastesWhatWasAsked)'
    BY ONLY <1>1, ClipInv DEF ClipInv, Clipboard!PastesWhatWasAsked
  <1> QED BY ONLY <1>7, <1>10, <1>11, <1>12, <1>13, <1>14 DEF ClipInv

LEMMA ClipOnRequest ==
    ASSUME ClipInv, Clipboard!Receive, Head(v10).type = "fetch", Clipboard!OnRequest(Head(v10))
    PROVE  ClipInv'
  <1> DEFINE m == Head(v10)
             e == [type |-> "data", ok |-> v1.kind = m.kind, kind |-> m.kind, id |-> v1.id]
  <1>0. ClipTyped /\ ReadyKept /\ DirtyKept /\ CopyComes
    BY DEF ClipInv
  <1>1. /\ m \in Told(v14) /\ v10' \in Seq(Told(v14))
        /\ UNCHANGED <<v8, v9, v11, v13, v14, v16, v18>>
        /\ NewestIs(v10', v11)
        /\ Holds(v10, "copied") => Holds(v10', "copied")
        /\ ~ Idle(v10)
        /\ \A kind, from : ~ Giving(v10, kind, from)
    <2>1. m.type = "fetch"
      OBVIOUS
    <2> QED BY ONLY ClipInv, Clipboard!Receive, <2>1, Received
  <1>2. /\ UNCHANGED <<v1, v2, v3, v4, v5, v12, v15, v17>>
        /\ v6' = Append(v6, e)
    BY DEF Clipboard!OnRequest, Clipboard!clientVars
  <1>3. e \in Inputs /\ e.type = "data"
    <2>1. m.kind \in Clipboard!Kinds
      BY ONLY <1>1, Head(v10).type = "fetch" DEF Told, Fetches, Gifts
    <2>2. v1.id \in Nat
      BY ONLY <1>0 DEF ClipTyped
    <2>3. (v1.kind = m.kind) \in BOOLEAN
      OBVIOUS
    <2> QED BY ONLY <2>1, <2>2, <2>3 DEF Inputs, Gifts
  <1>4. v6 \in Seq(Inputs)
    BY ONLY <1>0 DEF ClipTyped
  <1>5. ListsCounted' /\ PendingKept'
    <2>1. Head(v10).type # "answer" /\ v2' = v2
      BY <1>2
    <2> QED BY ONLY ClipInv, Clipboard!Receive, <1>2, <2>1, NoAnswer
  <1> HIDE DEF m, e
  <1>6. /\ v6' \in Seq(Inputs) /\ \A n : Due(v6, n) => Due(v6', n)
        /\ Holds(v6, "advertise") => Holds(v6', "advertise")
    <2>1. v6' \in Seq(Inputs)
      BY ONLY <1>2, <1>3, <1>4
    <2>2. \A n : Due(v6, n) => Due(v6', n)
      BY ONLY <1>2, <1>3, <1>4, DueIs
    <2>3. Holds(v6, "advertise") => Holds(v6', "advertise")
      BY ONLY <1>2, <1>3, <1>4, HoldsIs
    <2> QED BY ONLY <2>1, <2>2, <2>3
  <1>7. ~ (v11.who = "server" /\ ~ Holds(v10, "copied") /\ ~ v17)
    <2> SUFFICES ASSUME v11.who = "server", ~ Holds(v10, "copied"), ~ v17 PROVE FALSE
      OBVIOUS
    <2>1. Idle(v10) \/ Giving(v10, v4, v11)
      BY <1>0 DEF CopyComes
    <2> QED BY ONLY <1>1, <2>1
  <1>8. ClipTyped'
    BY ONLY Zenon, <1>0, <1>1, <1>2, <1>6 DEF ClipTyped
  <1>9. ReadyKept' /\ DirtyKept'
    BY ONLY <1>0, <1>1, <1>2, <1>6 DEF ReadyKept, DirtyKept
  <1>10. CopyComes'
    BY ONLY <1>1, <1>2, <1>7 DEF CopyComes
  <1>11. (KeysMeet(v9, v11) /\ NewestIs(v10, v11) /\ Clipboard!PastesWhatWasAsked)'
    BY ONLY <1>1, ClipInv DEF ClipInv, Clipboard!PastesWhatWasAsked
  <1> QED BY ONLY <1>5, <1>8, <1>9, <1>10, <1>11 DEF ClipInv

LEMMA ClipOnData ==
    ASSUME ClipInv, Clipboard!Receive, Head(v10).type = "data", Clipboard!OnData(Head(v10))
    PROVE  ClipInv'
  <1> DEFINE m == Head(v10)
             kind == IF v4 = "data" THEN "data" ELSE "text"
  <1>0. ClipTyped /\ ReadyKept /\ DirtyKept /\ CopyComes
    BY DEF ClipInv
  <1>1. /\ v10' \in Seq(Told(v14))
        /\ UNCHANGED <<v8, v9, v11, v13, v14, v16, v18>>
        /\ NewestIs(v10', v11)
        /\ Holds(v10, "copied") => Holds(v10', "copied")
        /\ ~ Idle(v10)
        /\ \A k, from : Giving(v10, k, from) =>
             m.kind = k /\ m.ok /\ m.id = from.id /\ Idle(v10')
    <2>1. m.type = "data"
      OBVIOUS
    <2> QED BY ONLY ClipInv, Clipboard!Receive, <2>1, Received
  <1>2. /\ IF ~ m.ok THEN UNCHANGED <<v4, v12>>
           ELSE /\ v4' = "none"
                /\ \/ v12' = [kind |-> kind, id |-> m.id]
                   \/ m.kind # kind /\ UNCHANGED v12
        /\ UNCHANGED <<v1, v2, v3, v5, v6, v15, v17>>
    BY DEF Clipboard!OnData
  <1>3. ListsCounted' /\ PendingKept'
    <2>1. Head(v10).type # "answer" /\ v2' = v2
      BY <1>2
    <2> QED BY ONLY ClipInv, Clipboard!Receive, <1>2, <2>1, NoAnswer
  <1> HIDE DEF m
  <1>4. ClipTyped'
    BY ONLY <1>0, <1>1, <1>2 DEF ClipTyped
  <1>5. ReadyKept' /\ DirtyKept'
    BY ONLY <1>0, <1>1, <1>2 DEF ReadyKept, DirtyKept
  <1>6. CopyComes'
    <2> SUFFICES ASSUME v11'.who = "server", ~ Holds(v10', "copied"), ~ v17'
                 PROVE  /\ v12'.kind \in v11'.kinds /\ v12'.id = v11'.id
                        /\ Idle(v6') /\ Idle(v9') /\ Idle(v10')
      BY DEF CopyComes
    <2>1. v11.who = "server" /\ ~ Holds(v10, "copied") /\ ~ v17
      BY <1>1, <1>2
    <2>2. /\ v4 \in v11.kinds /\ Giving(v10, v4, v11)
          /\ Idle(v6) /\ Idle(v9)
      BY ONLY <1>0, <1>1, <2>1 DEF CopyComes
    <2>3. m.kind = v4 /\ m.ok /\ m.id = v11.id /\ Idle(v10')
      BY ONLY <1>1, <2>2
    <2>4. kind = v4
      BY ONLY <1>0, <2>2 DEF ClipTyped, Clipboard!Kinds
    <2>5. v12' = [kind |-> v4, id |-> v11.id]
      BY ONLY <1>2, <2>3, <2>4
    <2> QED BY ONLY <1>1, <1>2, <2>2, <2>3, <2>5
  <1>7. (KeysMeet(v9, v11) /\ NewestIs(v10, v11) /\ Clipboard!PastesWhatWasAsked)'
    BY ONLY <1>1, ClipInv DEF ClipInv, Clipboard!PastesWhatWasAsked
  <1> QED BY ONLY <1>3, <1>4, <1>5, <1>6, <1>7 DEF ClipInv

LEMMA ClipReceive == ClipInv /\ Clipboard!Receive => ClipInv'
  BY ClipOnMonitor, ClipOnAnswer, ClipOnRemoteCopy, ClipOnRequest, ClipOnData
     DEF Clipboard!Receive

\* What the first of the messages to the server leaves behind.
LEMMA Served ==
    ASSUME ClipInv, Clipboard!Serve
    PROVE  /\ Head(v9) \in Wanted(v14) /\ v9' \in Seq(Wanted(v14))
           /\ UNCHANGED <<v1, v2, v3, v4, v5, v6, v8, v12, v13,
                          v14, v15, v16, v17>>
           /\ KeysMeet(v9', v11)
           /\ Head(v9).type = "keys" => Pasteable(v11, Head(v9).id, Head(v9).seen)
           /\ \A o : Head(v9).type = "list"
                     /\ (\A id : Says(Head(v9), id) => o.who = "client" /\ o.id = id)
                       => KeysMeet(v9', o)
           /\ Idle(v9) => Idle(v9') /\ Head(v9).type \notin {"fetch", "data"}
           /\ \A kind : Fetching(v9, kind) =>
                \/ Head(v9).type = "fetch" /\ Head(v9).kind = kind /\ Idle(v9')
                \/ Head(v9).type \notin {"fetch", "data"} /\ Fetching(v9', kind)
           /\ \A id : ListsSay(v9, id) =>
                /\ ListsSay(v9', id)
                /\ Head(v9).type = "list" => Says(Head(v9), id)
  <1>1. /\ v9 \in Seq(Wanted(v14)) /\ v9 # <<>> /\ v9' = Tail(v9)
        /\ UNCHANGED <<v1, v2, v3, v4, v5, v6, v8, v12, v13,
                       v14, v15, v16, v17>>
        /\ KeysMeet(v9, v11)
    BY DEF ClipInv, ClipTyped, Clipboard!Serve, Clipboard!clientVars, Clipboard!loopVars
  <1>2. Head(v9) \in Wanted(v14) /\ v9' \in Seq(Wanted(v14))
    BY ONLY <1>1, TailIs
  <1>3. /\ KeysMeet(v9', v11)
        /\ Head(v9).type = "keys" => Pasteable(v11, Head(v9).id, Head(v9).seen)
        /\ \A o : Head(v9).type = "list"
                  /\ (\A id : Says(Head(v9), id) => o.who = "client" /\ o.id = id)
                    => KeysMeet(v9', o)
    BY ONLY <1>1, KeysTail
  <1>4. Idle(v9) => Idle(v9') /\ Head(v9).type \notin {"fetch", "data"}
    BY ONLY <1>1, BusyTail
  <1>5. \A kind : Fetching(v9, kind) =>
             \/ Head(v9).type = "fetch" /\ Head(v9).kind = kind /\ Idle(v9')
             \/ Head(v9).type \notin {"fetch", "data"} /\ Fetching(v9', kind)
    BY ONLY <1>1, BusyTail
  <1>6. \A id : ListsSay(v9, id) =>
                /\ ListsSay(v9', id)
                /\ Head(v9).type = "list" => Says(Head(v9), id)
    <2>1. 0 \in Nat
      OBVIOUS
    <2> QED BY ONLY <1>1, <2>1, ListsTail
  <1> QED BY ONLY <1>1, <1>2, <1>3, <1>4, <1>5, <1>6, Zenon

\* A message that is no list leaves the lists as they are.
LEMMA NoList ==
    ASSUME ClipInv, Clipboard!Serve, Head(v9).type # "list", v11' = v11,
           v10' \in Seq(Told(v14)),
           Count(v10', "answer") = Count(v10, "answer"),
           \A n, base \in Nat : AnswersFrom(v10, base, n, v11, v16, v15) =>
                                    AnswersFrom(v10', base, n, v11, v16, v15)
    PROVE  ClipTyped' /\ ListsCounted' /\ PendingKept' /\ ReadyKept' /\ DirtyKept'
  <1>1. /\ v9' \in Seq(Wanted(v14))
        /\ UNCHANGED <<v1, v2, v3, v4, v5, v6, v8, v12, v13,
                       v14, v15, v16, v17>>
        /\ \A id : ListsSay(v9, id) => ListsSay(v9', id)
    BY ONLY ClipInv, Clipboard!Serve, Served
  <1>2. /\ v9 \in Seq(Wanted(v14)) /\ v9 # <<>> /\ v9' = Tail(v9)
        /\ v10 \in Seq(Told(v14))
        /\ v2 \in [sent : Nat, acked : Nat, dirty : BOOLEAN]
        /\ v3 \in [pending : Nat, ready : Nat]
        /\ ClipTyped /\ ListsCounted /\ PendingKept /\ ReadyKept /\ DirtyKept
    BY Zenon DEF ClipInv, ClipTyped, Clipboard!Serve
  <1>3. Count(v9', "list") = Count(v9, "list")
    BY ONLY <1>2, Head(v9).type # "list", CountTail
  <1>4. Count(v10, "answer") \in Nat
    BY ONLY <1>2, CountIs
  <1>5. v2.acked + Count(v10, "answer") \in Nat /\ v2.acked \in Nat /\ v3.pending \in Nat
    BY ONLY <1>2, <1>4
  <1>6. ListsFrom(v9, v2.acked + Count(v10, "answer"), v3.pending, v16) =>
          ListsFrom(v9', v2.acked + Count(v10, "answer"), v3.pending, v16)
    BY ONLY Zenon, <1>2, <1>5, Head(v9).type # "list", ListsTail
  <1>7. Count(v10', "answer") = Count(v10, "answer") /\ v11' = v11
        /\ v10' \in Seq(Told(v14))
    OBVIOUS
  <1>8. AnswersFrom(v10, v2.acked, v3.pending, v11, v16, v15) =>
          AnswersFrom(v10', v2.acked, v3.pending, v11, v16, v15)
    BY <1>5
  <1>9. ClipTyped'
    BY ONLY <1>1, <1>2, <1>7 DEF ClipTyped
  <1>10. ListsCounted' /\ DirtyKept' /\ ReadyKept'
    BY ONLY <1>1, <1>2, <1>3, <1>7 DEF ListsCounted, DirtyKept, ReadyKept
  <1>11. PendingKept'
    BY ONLY <1>1, <1>2, <1>6, <1>7, <1>8 DEF PendingKept
  <1> QED BY ONLY <1>9, <1>10, <1>11

LEMMA ClipServerTypes ==
    ASSUME ClipInv, Clipboard!Serve, Head(v9).type = "keys", Clipboard!ServerTypes(Head(v9))
    PROVE  ClipInv'
  <1> DEFINE m == Head(v9)
  <1>1. /\ v9' \in Seq(Wanted(v14))
        /\ UNCHANGED <<v4, v6, v12, v17>>
        /\ KeysMeet(v9', v11) /\ Pasteable(v11, m.id, m.seen)
        /\ Idle(v9) => Idle(v9')
        /\ \A kind : Fetching(v9, kind) => Fetching(v9', kind)
    <2>1. m.type = "keys"
      OBVIOUS
    <2> QED BY ONLY ClipInv, Clipboard!Serve, <2>1, Served
  <1>2. /\ v18' = [owner |-> v11, id |-> m.id, seen |-> m.seen]
        /\ UNCHANGED <<v11, v10>>
    BY DEF Clipboard!ServerTypes
  <1>3. /\ v10 \in Seq(Told(v14)) /\ NewestIs(v10, v11) /\ CopyComes
    BY DEF ClipInv, ClipTyped
  <1>4. ClipTyped' /\ ListsCounted' /\ PendingKept' /\ ReadyKept' /\ DirtyKept'
    <2>1. /\ m.type # "list" /\ v11' = v11 /\ v10' \in Seq(Told(v14))
          /\ Count(v10', "answer") = Count(v10, "answer")
          /\ \A n, base \in Nat : AnswersFrom(v10, base, n, v11, v16, v15) =>
                                    AnswersFrom(v10', base, n, v11, v16, v15)
      BY <1>2, <1>3
    <2> QED BY ONLY ClipInv, Clipboard!Serve, <2>1, NoList
  <1> HIDE DEF m
  <1>5. Clipboard!PastesWhatWasAsked'
    BY ONLY <1>1, <1>2 DEF Clipboard!PastesWhatWasAsked, Pasteable
  <1>6. CopyComes'
    BY ONLY <1>1, <1>2, <1>3 DEF CopyComes
  <1>7. (KeysMeet(v9, v11) /\ NewestIs(v10, v11))'
    BY ONLY <1>1, <1>2, <1>3
  <1> QED BY ONLY <1>4, <1>5, <1>6, <1>7 DEF ClipInv

\* A message to the helper that is no answer.
LEMMA ToldBehind ==
    ASSUME ClipTyped, NEW m \in Told(v14), m.type # "answer", v10' = Append(v10, m)
    PROVE  /\ v10' \in Seq(Told(v14))
           /\ Count(v10', "answer") = Count(v10, "answer")
           /\ \A n, base \in Nat : \A id, known :
                AnswersFrom(v10, base, n, v11, id, known) =>
                    AnswersFrom(v10', base, n, v11, id, known)
           /\ Holds(v10, "copied") \/ m.type = "copied" <=> Holds(v10', "copied")
  <1>1. v10 \in Seq(Told(v14)) /\ v10' = Append(v10, m)
    BY DEF ClipTyped
  <1>2. v10' \in Seq(Told(v14))
    BY ONLY <1>1, m \in Told(v14)
  <1>3. Count(v10', "answer") = Count(v10, "answer")
    BY ONLY <1>1, m \in Told(v14), m.type # "answer", CountBehind
  <1>4. ASSUME NEW n \in Nat, NEW base \in Nat, NEW id, NEW known,
               AnswersFrom(v10, base, n, v11, id, known)
        PROVE  AnswersFrom(v10', base, n, v11, id, known)
    <2>1. ~ (m.type = "answer" /\ m.ok /\ n = base + Count(v10, "answer") + 1)
      OBVIOUS
    <2> QED BY ONLY <1>1, <1>4, <2>1, m \in Told(v14), AnswersBehind
  <1>5. Holds(v10, "copied") \/ m.type = "copied" <=> Holds(v10', "copied")
    BY ONLY <1>1, m \in Told(v14), HoldsIs
  <1> QED BY ONLY <1>2, <1>3, <1>4, <1>5

LEMMA ClipServerGives ==
    ASSUME ClipInv, Clipboard!Serve, Head(v9).type = "fetch", Clipboard!ServerGives(Head(v9))
    PROVE  ClipInv'
  <1> DEFINE m == Head(v9)
             e == [type |-> "data", kind |-> m.kind, id |-> v11.id,
                   ok |-> v11.who = "server" /\ m.kind \in v11.kinds]
  <1>0. ClipTyped /\ CopyComes /\ NewestIs(v10, v11) /\ Clipboard!PastesWhatWasAsked
    BY DEF ClipInv
  <1>1. /\ m \in Wanted(v14) /\ v9' \in Seq(Wanted(v14))
        /\ UNCHANGED <<v4, v6, v12, v17>>
        /\ KeysMeet(v9', v11)
        /\ ~ Idle(v9)
        /\ \A kind : Fetching(v9, kind) => m.kind = kind /\ Idle(v9')
    <2>1. m.type = "fetch"
      OBVIOUS
    <2> QED BY ONLY ClipInv, Clipboard!Serve, <2>1, Served
  <1>2. v10' = Append(v10, e) /\ UNCHANGED <<v11, v18>>
    BY DEF Clipboard!ServerGives
  <1>3. e \in Told(v14) /\ e.type = "data" /\ e.kind = m.kind /\ e.id = v11.id
        /\ (v11.who = "server" /\ m.kind \in v11.kinds => e.ok)
    <2>1. m.kind \in Clipboard!Kinds
      BY ONLY <1>1, Head(v9).type = "fetch" DEF Wanted, Fetches, Gifts
    <2>2. v11.id \in Nat
      BY ONLY <1>0 DEF ClipTyped
    <2>3. (v11.who = "server" /\ m.kind \in v11.kinds) \in BOOLEAN
      OBVIOUS
    <2> QED BY ONLY Zenon, <2>1, <2>2, <2>3 DEF Told, Gifts
  <1>4. v10 \in Seq(Told(v14))
    BY ONLY <1>0 DEF ClipTyped
  <1> HIDE DEF e
  <1>5. /\ v10' \in Seq(Told(v14))
        /\ Count(v10', "answer") = Count(v10, "answer")
        /\ \A n, base \in Nat : \A id, known :
             AnswersFrom(v10, base, n, v11, id, known) =>
                 AnswersFrom(v10', base, n, v11, id, known)
        /\ Holds(v10, "copied") => Holds(v10', "copied")
    <2>1. e.type # "answer"
      BY ONLY <1>3
    <2> QED BY ONLY <1>0, <1>2, <1>3, <2>1, ToldBehind
  <1>6. ClipTyped' /\ ListsCounted' /\ PendingKept' /\ ReadyKept' /\ DirtyKept'
    <2>1. /\ m.type # "list" /\ v11' = v11
          /\ \A n, base \in Nat : AnswersFrom(v10, base, n, v11, v16, v15) =>
                                    AnswersFrom(v10', base, n, v11, v16, v15)
      BY <1>2, <1>5
    <2> QED BY ONLY ClipInv, Clipboard!Serve, <1>5, <2>1, NoList
  <1> HIDE DEF m
  <1>7. NewestIs(v10', v11)
    <2>1. IF e.type = "copied" THEN e.kinds = v11.kinds /\ e.id = v11.id
          ELSE v11 = v11 /\ NewestIs(v10, v11)
      BY ONLY <1>0, <1>3
    <2> QED BY ONLY <1>2, <1>3, <1>4, <2>1, NewestBehind
  <1>8. \A from : e.ok /\ e.id = from.id /\ Idle(v10) => Giving(v10', m.kind, from)
    BY ONLY <1>2, <1>3, <1>4, BusyBehind
  <1>9. CopyComes'
    <2> SUFFICES ASSUME v11'.who = "server", ~ Holds(v10', "copied"), ~ v17'
                 PROVE  /\ v4' \in v11'.kinds /\ Giving(v10', v4', v11')
                        /\ Idle(v6') /\ Idle(v9')
      BY DEF CopyComes
    <2>1. v11.who = "server" /\ ~ Holds(v10, "copied") /\ ~ v17
      BY <1>1, <1>2, <1>5
    <2>2. /\ v4 \in v11.kinds /\ Fetching(v9, v4)
          /\ Idle(v6) /\ Idle(v10)
      BY ONLY <1>0, <1>1, <2>1 DEF CopyComes
    <2>3. m.kind = v4 /\ Idle(v9')
      BY ONLY <1>1, <2>2
    <2>4. Giving(v10', v4, v11)
      BY ONLY <1>3, <1>8, <2>1, <2>2, <2>3
    <2> QED BY ONLY <1>1, <1>2, <2>2, <2>3, <2>4
  <1>10. (KeysMeet(v9, v11) /\ NewestIs(v10, v11) /\ Clipboard!PastesWhatWasAsked)'
    BY ONLY <1>0, <1>1, <1>2, <1>7 DEF Clipboard!PastesWhatWasAsked
  <1> QED BY ONLY <1>6, <1>9, <1>10 DEF ClipInv

LEMMA ClipServerDrops ==
    ASSUME ClipInv, Clipboard!Serve, Head(v9).type = "data", UNCHANGED <<v10, v11, v18>>
    PROVE  ClipInv'
  <1>0. ClipTyped /\ CopyComes /\ NewestIs(v10, v11) /\ Clipboard!PastesWhatWasAsked
    BY DEF ClipInv
  <1>1. /\ UNCHANGED <<v4, v6, v12, v17>>
        /\ KeysMeet(v9', v11)
        /\ ~ Idle(v9) /\ \A kind : ~ Fetching(v9, kind)
    <2>1. Head(v9).type = "data"
      OBVIOUS
    <2> QED BY ONLY ClipInv, Clipboard!Serve, <2>1, Served
  <1>2. ClipTyped' /\ ListsCounted' /\ PendingKept' /\ ReadyKept' /\ DirtyKept'
    <2>1. /\ Head(v9).type # "list" /\ v11' = v11 /\ v10' \in Seq(Told(v14))
          /\ Count(v10', "answer") = Count(v10, "answer")
          /\ \A n, base \in Nat : AnswersFrom(v10, base, n, v11, v16, v15) =>
                                    AnswersFrom(v10', base, n, v11, v16, v15)
      BY <1>0 DEF ClipTyped
    <2> QED BY ONLY ClipInv, Clipboard!Serve, <2>1, NoList
  <1>3. UNCHANGED <<v10, v11, v18>>
    OBVIOUS
  <1>4. ~ (v11.who = "server" /\ ~ Holds(v10, "copied") /\ ~ v17)
    <2>1. v11.who = "server" /\ ~ Holds(v10, "copied") /\ ~ v17
            => Idle(v9) \/ Fetching(v9, v4)
      BY ONLY <1>0 DEF CopyComes
    <2> QED BY ONLY <1>1, <2>1
  <1>5. CopyComes'
    BY ONLY <1>1, <1>3, <1>4 DEF CopyComes
  <1>6. (KeysMeet(v9, v11) /\ NewestIs(v10, v11) /\ Clipboard!PastesWhatWasAsked)'
    BY ONLY <1>0, <1>1, <1>3 DEF Clipboard!PastesWhatWasAsked
  <1> QED BY ONLY <1>2, <1>5, <1>6 DEF ClipInv

LEMMA ClipServerLists ==
    ASSUME ClipInv, Clipboard!Serve, Head(v9).type = "list", Clipboard!ServerLists(Head(v9))
    PROVE  ClipInv'
  <1> DEFINE m == Head(v9)
             base == v2.acked + Count(v10, "answer")
  <1>0. ClipTyped /\ ListsCounted /\ PendingKept /\ ReadyKept /\ DirtyKept /\ CopyComes
        /\ NewestIs(v10, v11) /\ Clipboard!PastesWhatWasAsked
    BY DEF ClipInv
  <1>1. /\ m \in Wanted(v14) /\ v9' \in Seq(Wanted(v14))
        /\ UNCHANGED <<v1, v2, v3, v4, v5, v6, v8, v12, v13,
                       v14, v15, v16, v17>>
        /\ KeysMeet(v9', v11)
        /\ \A o : (\A id : Says(m, id) => o.who = "client" /\ o.id = id) => KeysMeet(v9', o)
        /\ Idle(v9) => Idle(v9')
        /\ \A kind : Fetching(v9, kind) => Fetching(v9', kind)
        /\ \A id : ListsSay(v9, id) => ListsSay(v9', id) /\ Says(m, id)
    <2>1. m.type = "list"
      OBVIOUS
    <2> QED BY ONLY ClipInv, Clipboard!Serve, <2>1, Served
  <1>2. /\ v9 \in Seq(Wanted(v14)) /\ v9 # <<>> /\ v9' = Tail(v9)
        /\ v10 \in Seq(Told(v14))
        /\ v2 \in [sent : Nat, acked : Nat, dirty : BOOLEAN]
        /\ v3 \in [pending : Nat, ready : Nat]
        /\ v11.kinds \subseteq Clipboard!Kinds /\ v11.id \in Nat
    BY Zenon, <1>0 DEF ClipTyped, Clipboard!Serve
  <1>3. m.id \in Nat
    BY ONLY <1>1, Head(v9).type = "list" DEF Wanted, Fetches, Gifts
  <1>4. PICK ok \in BOOLEAN :
          /\ v10' = Append(v10, [type |-> "answer", ok |-> ok])
          /\ v18' = v18
          /\ IF ok THEN v11' = [who |-> IF m.kind = "none" THEN "nobody" ELSE "client",
                                id |-> m.id, kinds |-> {m.kind} \cap Clipboard!Kinds]
             ELSE v11' = v11
    BY Zenon DEF Clipboard!ServerLists, Clipboard!Answer
  <1> DEFINE a == [type |-> "answer", ok |-> ok]
  <1>5. a \in Told(v14) /\ a.type = "answer" /\ a.ok = ok /\ v10' = Append(v10, a)
    BY ONLY <1>4 DEF Told
  <1>6. /\ ok => v11'.who # "server" /\ v11'.kinds \subseteq Clipboard!Kinds /\ v11'.id \in Nat
        /\ ok => \A id : Says(m, id) => v11'.who = "client" /\ v11'.id = id
        /\ ~ ok => v11' = v11
    BY ONLY <1>3, <1>4 DEF Says
  <1> HIDE DEF m, a
  <1>7. v10' \in Seq(Told(v14))
    BY ONLY <1>2, <1>5
  <1>8. Count(v10', "answer") = Count(v10, "answer") + 1
        /\ Count(v10, "answer") \in Nat
    <2>1. Count(v10', "answer") = Count(v10, "answer") + 1
      BY ONLY <1>2, <1>5, CountBehind
    <2>2. Count(v10, "answer") \in Nat
      BY ONLY <1>2, CountIs
    <2> QED BY ONLY <2>1, <2>2
  <1>9. Count(v9, "list") = Count(v9', "list") + 1 /\ Count(v9', "list") \in Nat
    <2>1. Count(v9, "list") = Count(v9', "list") + 1
      BY ONLY <1>2, Head(v9).type = "list", CountTail
    <2>2. Count(v9', "list") \in Nat
      BY ONLY <1>1, CountIs
    <2> QED BY ONLY <2>1, <2>2
  <1>10. ClipTyped'
    BY ONLY Zenon, <1>0, <1>1, <1>2, <1>6, <1>7 DEF ClipTyped
  <1>11. ListsCounted'
    <2>1. v2.sent = v2.acked + Count(v10, "answer") + Count(v9, "list")
      BY ONLY <1>0 DEF ListsCounted
    <2>2. v2.sent = v2.acked + Count(v10', "answer") + Count(v9', "list")
      BY ONLY <1>2, <1>8, <1>9, <2>1
    <2> QED BY ONLY <1>1, <2>2 DEF ListsCounted
  <1>12. PendingKept'
    <2> SUFFICES ASSUME v3.pending # 0
                 PROVE  /\ Says(v1, v16) /\ v3.ready = 0
                        /\ v2.acked < v3.pending /\ v3.pending <= v2.sent
                        /\ ListsFrom(v9', v2.acked + Count(v10', "answer"), v3.pending, v16)
                        /\ AnswersFrom(v10', v2.acked, v3.pending, v11', v16, v15)
      BY <1>1 DEF PendingKept
    <2>1. /\ Says(v1, v16) /\ v3.ready = 0
          /\ v2.acked < v3.pending /\ v3.pending <= v2.sent
          /\ ListsFrom(v9, base, v3.pending, v16)
          /\ AnswersFrom(v10, v2.acked, v3.pending, v11, v16, v15)
      BY <1>0 DEF PendingKept
    <2>2. /\ base \in Nat /\ v3.pending \in Nat /\ v2.acked \in Nat
          /\ base + 1 = v2.acked + Count(v10', "answer")
      BY ONLY <1>2, <1>8
    <2>3. /\ ListsFrom(v9', base + 1, v3.pending, v16)
          /\ base + 1 >= v3.pending => Says(m, v16)
      <3> HIDE DEF base
      <3> QED BY ONLY Zenon, <1>2, <2>1, <2>2, Head(v9).type = "list", ListsTail DEF m
    <2>4. AnswersFrom(v10', v2.acked, v3.pending, v11', v16, v15)
      <3>1. CASE ~ ok
        <4>1. a.type = "answer" /\ a.ok /\ v3.pending = v2.acked + Count(v10, "answer") + 1
                => Pasteable(v11, v16, v15)
          BY ONLY <1>5, <3>1
        <4>2. AnswersFrom(Append(v10, a), v2.acked, v3.pending, v11, v16, v15)
          BY ONLY <1>2, <1>5, <2>1, <2>2, <4>1, AnswersBehind
        <4> QED BY ONLY <1>5, <1>6, <3>1, <4>2
      <3>2. CASE ok /\ base + 1 >= v3.pending
        <4>1. Pasteable(v11', v16, v15)
          BY ONLY <1>6, <2>3, <3>2 DEF Pasteable
        <4> QED BY ONLY <1>7, <2>2, <4>1, FromAny
      <3>3. CASE base + 1 < v3.pending
        <4>1. v2.acked + Count(v10', "answer") < v3.pending
          BY ONLY <2>2, <3>3
        <4> QED BY ONLY <1>7, <2>2, <4>1, AnswersBeyond
      <3> HIDE DEF base
      <3> QED BY ONLY <2>2, <3>1, <3>2, <3>3
    <2>5. ListsFrom(v9', v2.acked + Count(v10', "answer"), v3.pending, v16)
      BY ONLY <2>2, <2>3
    <2> QED BY ONLY <2>1, <2>4, <2>5
  <1>13. ReadyKept'
    <2>1. \A id : Pasteable(v11, id, v15) /\ Says(m, id) => Pasteable(v11', id, v15)
      BY ONLY <1>6 DEF Pasteable
    <2> QED BY ONLY <1>0, <1>1, <2>1 DEF ReadyKept
  <1>14. DirtyKept'
    BY ONLY <1>0, <1>1 DEF DirtyKept
  <1>15. CopyComes'
    <2>1. CASE ok
      BY ONLY <1>6, <2>1 DEF CopyComes
    <2>2. CASE ~ ok
      <3>1. Holds(v10, "copied") => Holds(v10', "copied")
        BY ONLY <1>2, <1>5, HoldsIs
      <3>2. a.type \notin {"fetch", "data"}
        BY ONLY <1>5
      <3>3. /\ Idle(v10) => Idle(v10')
            /\ \A kind, from : Giving(v10, kind, from) => Giving(v10', kind, from)
        BY ONLY Zenon, <1>2, <1>5, <3>2, BusyBehind
      <3>4. v11' = v11
        BY ONLY <1>6, <2>2
      <3> QED BY ONLY <1>0, <1>1, <3>1, <3>3, <3>4 DEF CopyComes
    <2> QED BY ONLY <2>1, <2>2
  <1>16. KeysMeet(v9', v11')
    BY ONLY <1>1, <1>6
  <1>17. NewestIs(v10', v11')
    <2>1. CASE ok
      BY ONLY <1>6, <2>1 DEF NewestIs
    <2>2. CASE ~ ok
      <3>1. IF a.type = "copied" THEN a.kinds = v11.kinds /\ a.id = v11.id
            ELSE v11 = v11 /\ NewestIs(v10, v11)
        BY ONLY <1>0, <1>5
      <3>2. NewestIs(Append(v10, a), v11)
        BY ONLY <1>2, <1>5, <3>1, NewestBehind
      <3> QED BY ONLY <1>5, <1>6, <2>2, <3>2
    <2> QED BY ONLY <2>1, <2>2
  <1>18. Clipboard!PastesWhatWasAsked'
    BY ONLY <1>0, <1>4 DEF Clipboard!PastesWhatWasAsked
  <1>19. (KeysMeet(v9, v11) /\ NewestIs(v10, v11) /\ Clipboard!PastesWhatWasAsked)'
    BY ONLY <1>16, <1>17, <1>18
  <1> QED BY ONLY <1>10, <1>11, <1>12, <1>13, <1>14, <1>15, <1>19 DEF ClipInv

LEMMA ClipServe == ClipInv /\ Clipboard!Serve => ClipInv'
  BY ClipServerLists, ClipServerTypes, ClipServerGives, ClipServerDrops DEF Clipboard!Serve

\* A queue is one of more messages, too.
LEMMA SeqOfMore ==
    ASSUME NEW S, NEW T, S \subseteq T, NEW q \in Seq(S)
    PROVE  q \in Seq(T)
  <1>1. Len(q) \in Nat /\ q \in [1 .. Len(q) -> S]
    OBVIOUS
  <1>2. q \in [1 .. Len(q) -> T]
    BY ONLY <1>1, S \subseteq T
  <1> QED BY ONLY <1>1, <1>2, SeqDef

LEMMA ClipServerCopies == ClipInv /\ Clipboard!ServerCopies => ClipInv'
  <1> SUFFICES ASSUME ClipInv, Clipboard!ServerCopies PROVE ClipInv'
    OBVIOUS
  <1>0. ClipTyped /\ ListsCounted /\ PendingKept /\ ReadyKept /\ DirtyKept
        /\ KeysMeet(v9, v11) /\ Clipboard!PastesWhatWasAsked
    BY DEF ClipInv
  <1>1. /\ v14' = v14 + 1
        /\ UNCHANGED <<v1, v2, v3, v4, v5, v6, v8, v9, v12,
                       v13, v15, v16, v17, v18>>
    BY DEF Clipboard!ServerCopies, Clipboard!clientVars, Clipboard!loopVars
  <1>2. PICK kinds \in (SUBSET Clipboard!Kinds) \ {{}} :
          /\ v11' = [who |-> "server", id |-> v14 + 1, kinds |-> kinds]
          /\ v10' = Append(v10, [type |-> "copied", kinds |-> kinds, id |-> v14 + 1])
    BY DEF Clipboard!ServerCopies
  <1> DEFINE m == [type |-> "copied", kinds |-> kinds, id |-> v14 + 1]
  <1>3. /\ v14 \in Nat /\ v14' \in Nat /\ v15 \in 0 .. v14 /\ v15' \in 0 .. v14'
        /\ v10 \in Seq(Told(v14)) /\ v9 \in Seq(Wanted(v14))
        /\ v2 \in [sent : Nat, acked : Nat, dirty : BOOLEAN]
        /\ v3 \in [pending : Nat, ready : Nat]
    <2>1. /\ v14 \in Nat /\ v15 \in 0 .. v14
          /\ v10 \in Seq(Told(v14)) /\ v9 \in Seq(Wanted(v14))
          /\ v2 \in [sent : Nat, acked : Nat, dirty : BOOLEAN]
          /\ v3 \in [pending : Nat, ready : Nat]
      BY ONLY <1>0 DEF ClipTyped
    <2> QED BY ONLY <1>1, <2>1
  <1>4. Told(v14) \subseteq Told(v14') /\ Wanted(v14) \subseteq Wanted(v14')
    <2>1. 0 .. v14 \subseteq 0 .. v14'
      BY ONLY <1>1, <1>3
    <2> QED BY ONLY <2>1 DEF Told, Wanted
  <1>5. m \in Told(v14') /\ m.type = "copied" /\ m.kinds = kinds /\ m.id = v14 + 1
    <2>1. v14 + 1 \in 0 .. v14'
      BY ONLY <1>1, <1>3
    <2> QED BY ONLY <1>2, <2>1 DEF Told
  <1>6. /\ v11'.who = "server" /\ v11'.id = v14 + 1 /\ v11'.kinds = kinds
        /\ kinds \subseteq Clipboard!Kinds /\ v10' = Append(v10, m)
    BY ONLY <1>2
  <1>7. v10 \in Seq(Told(v14')) /\ v9 \in Seq(Wanted(v14'))
    BY ONLY <1>3, <1>4, SeqOfMore
  <1> HIDE DEF m
  <1>8. v10' \in Seq(Told(v14')) /\ v9' \in Seq(Wanted(v14'))
    BY ONLY <1>1, <1>5, <1>6, <1>7
  <1>9. \A id, known : known \in 0 .. v14 => Pasteable(v11', id, known)
    BY ONLY <1>3, <1>6 DEF Pasteable
  <1>10. Count(v10', "answer") = Count(v10, "answer") /\ Count(v10, "answer") \in Nat
    <2>1. m.type # "answer"
      BY ONLY <1>5
    <2>2. Count(v10', "answer") = Count(v10, "answer")
      BY ONLY <1>5, <1>6, <1>7, <2>1, CountBehind
    <2>3. Count(v10, "answer") \in Nat
      BY ONLY <1>3, CountIs
    <2> QED BY ONLY <2>2, <2>3
  <1>11. ClipTyped'
    BY ONLY <1>0, <1>1, <1>3, <1>6, <1>8 DEF ClipTyped
  <1>12. ListsCounted' /\ DirtyKept'
    BY ONLY <1>0, <1>1, <1>10 DEF ListsCounted, DirtyKept
  <1>13. PendingKept'
    <2>1. v2.acked \in Nat /\ v3.pending \in Nat
      BY ONLY <1>3
    <2>2. Pasteable(v11', v16, v15)
      BY ONLY <1>3, <1>9
    <2>3. AnswersFrom(v10', v2.acked, v3.pending, v11', v16, v15)
      BY ONLY <1>8, <2>1, <2>2, FromAny
    <2> QED BY ONLY <1>0, <1>1, <1>10, <2>3 DEF PendingKept
  <1>14. ReadyKept'
    <2>1. Pasteable(v11', v16, v15)
      BY ONLY <1>3, <1>9
    <2> QED BY ONLY <1>0, <1>1, <2>1 DEF ReadyKept
  <1>15. CopyComes'
    <2>1. Holds(v10', "copied")
      BY ONLY <1>5, <1>6, <1>7, HoldsIs
    <2> QED BY ONLY <2>1 DEF CopyComes
  <1>16. KeysMeet(v9, v11')
    <2>1. ASSUME NEW i \in Of(v9, "keys") PROVE v9[i].seen \in 0 .. v14
      <3>1. v9[i] \in Wanted(v14) /\ v9[i].type = "keys"
        BY <1>3, <2>1 DEF Of
      <3> QED BY ONLY <3>1 DEF Wanted, Fetches, Gifts
    <2> QED BY ONLY <1>0, <1>9, <2>1 DEF KeysMeet
  <1>17. NewestIs(v10', v11')
    <2>1. IF m.type = "copied" THEN m.kinds = v11'.kinds /\ m.id = v11'.id
          ELSE v11' = v11 /\ NewestIs(v10, v11)
      BY ONLY <1>5, <1>6
    <2> QED BY ONLY Zenon, <1>5, <1>6, <1>7, <2>1, NewestBehind
  <1>18. (KeysMeet(v9, v11) /\ NewestIs(v10, v11) /\ Clipboard!PastesWhatWasAsked)'
    BY ONLY <1>0, <1>1, <1>16, <1>17 DEF Clipboard!PastesWhatWasAsked
  <1> QED BY ONLY <1>11, <1>12, <1>13, <1>14, <1>15, <1>18 DEF ClipInv

LEMMA ClipServerFetches == ClipInv /\ Clipboard!ServerFetches => ClipInv'
  <1> SUFFICES ASSUME ClipInv, Clipboard!ServerFetches PROVE ClipInv'
    OBVIOUS
  <1>0. /\ ClipTyped /\ ListsCounted /\ PendingKept /\ ReadyKept /\ DirtyKept
        /\ KeysMeet(v9, v11) /\ NewestIs(v10, v11) /\ Clipboard!PastesWhatWasAsked
    BY DEF ClipInv
  <1>1. /\ v11.who = "client"
        /\ UNCHANGED <<v1, v2, v3, v4, v5, v6, v8, v9, v11,
                       v12, v13, v14, v15, v16, v17, v18>>
    BY DEF Clipboard!ServerFetches, Clipboard!clientVars, Clipboard!loopVars, Clipboard!ghosts
  <1>2. PICK kind \in v11.kinds : v10' = Append(v10, [type |-> "fetch", kind |-> kind])
    BY DEF Clipboard!ServerFetches
  <1> DEFINE m == [type |-> "fetch", kind |-> kind]
  <1>3. /\ m \in Told(v14) /\ m.type = "fetch" /\ v10' = Append(v10, m)
        /\ v10 \in Seq(Told(v14))
        /\ v2 \in [sent : Nat, acked : Nat, dirty : BOOLEAN]
        /\ v3 \in [pending : Nat, ready : Nat]
    BY Zenon, <1>0, <1>2 DEF ClipTyped, Told, Fetches
  <1> HIDE DEF m
  <1>4. /\ v10' \in Seq(Told(v14))
        /\ Count(v10', "answer") = Count(v10, "answer")
        /\ \A n, base \in Nat : \A id, known :
             AnswersFrom(v10, base, n, v11, id, known) =>
                 AnswersFrom(v10', base, n, v11, id, known)
    <2>1. m.type # "answer"
      BY ONLY <1>3
    <2> QED BY ONLY <1>0, <1>3, <2>1, ToldBehind
  <1>5. ClipTyped'
    BY ONLY Zenon, <1>0, <1>1, <1>4 DEF ClipTyped
  <1>6. ListsCounted' /\ DirtyKept' /\ ReadyKept'
    BY ONLY <1>0, <1>1, <1>4 DEF ListsCounted, DirtyKept, ReadyKept
  <1>7. PendingKept'
    <2>1. v2.acked \in Nat /\ v3.pending \in Nat
      BY ONLY <1>3
    <2> QED BY ONLY <1>0, <1>1, <1>4, <2>1 DEF PendingKept
  <1>8. CopyComes'
    BY ONLY <1>1 DEF CopyComes
  <1>9. (KeysMeet(v9, v11) /\ NewestIs(v10, v11) /\ Clipboard!PastesWhatWasAsked)'
    BY ONLY <1>0, <1>1 DEF Clipboard!PastesWhatWasAsked, NewestIs
  <1> QED BY ONLY <1>5, <1>6, <1>7, <1>8, <1>9 DEF ClipInv

LEMMA EmptyHolds ==
    ASSUME NEW type
    PROVE  /\ Of(<<>>, type) = {} /\ Count(<<>>, type) = 0
           /\ ~ Holds(<<>>, type) /\ Idle(<<>>)
           /\ \A kind, from : ~ Fetching(<<>>, kind) /\ ~ Giving(<<>>, kind, from)
           /\ \A n : ~ Due(<<>>, n)
  <1>1. \A t : Of(<<>>, t) = {}
    BY DEF Of
  <1>2. Count(<<>>, type) = 0
    BY ONLY <1>1, FS_EmptySet DEF Count
  <1> QED BY ONLY <1>1, <1>2 DEF Holds, Idle, Busy, Fetching, Giving, Due

LEMMA ClipStart == Clipboard!Init => ClipInv
  <1> SUFFICES ASSUME Clipboard!Init PROVE ClipInv
    OBVIOUS
  <1> DEFINE m == [type |-> "monitor"]
  <1>1. /\ v1 = [kind |-> "none", id |-> 0]
        /\ v2 = [sent |-> 0, acked |-> 0, dirty |-> FALSE]
        /\ v3.pending = 0 /\ v3.ready = 0 /\ v3 \in [pending : Nat, ready : Nat]
        /\ v4 = "none" /\ v5 = FALSE
        /\ v6 = <<>> /\ v8 = <<>> /\ v9 = <<>> /\ v10 = <<m>>
        /\ v11.who = "nobody" /\ v11.id = 0 /\ v11.kinds = {}
        /\ v13 = 0 /\ v14 = 0 /\ v15 = 0 /\ v16 = 0 /\ v18 = <<>>
    BY DEF Clipboard!Init, Clipboard!NoPaste, Clipboard!Nobody
  <1>2. m \in Told(v14)
    BY DEF Told
  <1>3. ClipTyped
    <2>1. <<m>> \in Seq(Told(v14)) /\ <<>> \in Seq(Wanted(v14))
          /\ <<>> \in Seq(Inputs) /\ <<>> \in Seq(Shortcuts)
      BY ONLY <1>2
    <2>2. /\ v1 \in [kind : Clipboard!Kinds \cup {"none", "files"}, id : Nat]
          /\ v2 \in [sent : Nat, acked : Nat, dirty : BOOLEAN]
      BY ONLY <1>1
    <2>5. v5 \in BOOLEAN
      <3>1. v5 = FALSE
        BY ONLY <1>1
      <3> QED BY ONLY Zenon, <3>1
    <2>7. v15 \in 0 .. v14
      BY ONLY <1>1
    <2>6. v11.kinds \subseteq Clipboard!Kinds /\ v11.id \in Nat
      BY ONLY <1>1
    <2>3. v6 \in Seq(Inputs) /\ v8 \in Seq(Shortcuts)
          /\ v9 \in Seq(Wanted(v14)) /\ v10 \in Seq(Told(v14))
      BY ONLY <1>1, <2>1
    <2>4. v13 \in Nat /\ v14 \in Nat /\ v16 \in Nat /\ v4 \in Clipboard!Kinds \cup {"none"}
      BY ONLY <1>1
    <2> QED BY ONLY <1>1, <2>2, <2>3, <2>4, <2>5, <2>6, <2>7 DEF ClipTyped
  <1>4. Of(v10, "answer") = {}
    BY ONLY <1>1 DEF Of
  <1>5. Count(v10, "answer") = 0 /\ Count(v9, "list") = 0
    BY ONLY Zenon, <1>1, <1>4, EmptyHolds, FS_EmptySet DEF Count
  <1>6. ListsCounted /\ PendingKept /\ ReadyKept /\ DirtyKept /\ CopyComes
    BY ONLY <1>1, <1>5 DEF ListsCounted, PendingKept, ReadyKept, DirtyKept, CopyComes
  <1>7. KeysMeet(v9, v11) /\ NewestIs(v10, v11) /\ Clipboard!PastesWhatWasAsked
    BY ONLY <1>1, EmptyHolds DEF KeysMeet, NewestIs, Clipboard!PastesWhatWasAsked
  <1> QED BY ONLY <1>3, <1>6, <1>7 DEF ClipInv

LEMMA ClipStep == ClipInv /\ [Clipboard!Next]_(Clipboard!vars) => ClipInv'
  <1>1. [Clipboard!Next]_(Clipboard!vars) =>
          \/ Clipboard!HostCopies \/ Clipboard!TakeInput \/ Clipboard!TakeDeferred
          \/ Clipboard!Receive \/ Clipboard!Serve \/ Clipboard!ServerCopies
          \/ Clipboard!ServerFetches
          \/ (Clipboard!Reactivate \/ UNCHANGED Clipboard!vars)
    BY DEF Clipboard!Next
  <1> QED
    BY Zenon, <1>1, ClipHostCopies, ClipTakeInput, ClipTakeDeferred, ClipReactivate,
       ClipReceive,
       ClipServe, ClipServerCopies, ClipServerFetches, Zenon

LEMMA ClipHolds == ClipInv => Clipboard!PastesWhatWasAsked /\ Clipboard!Settled
  <1> SUFFICES ASSUME ClipInv, Clipboard!Quiet
               PROVE  /\ v2.acked = v2.sent /\ v3 = Clipboard!NoPaste
                      /\ v5 => ~ v2.dirty
                      /\ v11.who = "server" /\ ~ v17
                           => v12.kind \in v11.kinds /\ v12.id = v11.id
    BY DEF ClipInv, Clipboard!Settled
  <1>0. ClipTyped /\ ListsCounted /\ PendingKept /\ ReadyKept /\ DirtyKept /\ CopyComes
    BY DEF ClipInv
  <1>1. v6 = <<>> /\ v8 = <<>> /\ v9 = <<>> /\ v10 = <<>>
    <2>1. /\ v6 \in Seq(Inputs) /\ v8 \in Seq(Shortcuts)
          /\ v9 \in Seq(Wanted(v14)) /\ v10 \in Seq(Told(v14))
      BY ONLY <1>0 DEF ClipTyped
    <2> DEFINE T == Inputs \cup Shortcuts \cup Wanted(v14) \cup Told(v14)
    <2>2. v6 \in Seq(T) /\ v8 \in Seq(T) /\ v9 \in Seq(T) /\ v10 \in Seq(T)
      BY ONLY <2>1, SeqOfMore
    <2>3. \A a, b \in Seq(T) : a \o b = <<>> => a = <<>> /\ b = <<>>
      OBVIOUS
    <2>4. ((v6 \o v8) \o v9) \o v10 = <<>>
      BY DEF Clipboard!Quiet
    <2> HIDE DEF T
    <2>5. v6 \o v8 \in Seq(T) /\ (v6 \o v8) \o v9 \in Seq(T)
      BY ONLY <2>2
    <2>6. (v6 \o v8) \o v9 = <<>> /\ v10 = <<>>
      BY ONLY <2>2, <2>3, <2>4, <2>5
    <2>7. v6 \o v8 = <<>> /\ v9 = <<>>
      BY ONLY <2>2, <2>3, <2>5, <2>6
    <2> QED BY ONLY <2>2, <2>3, <2>6, <2>7
  <1>2. /\ v2 \in [sent : Nat, acked : Nat, dirty : BOOLEAN]
        /\ v3 \in [pending : Nat, ready : Nat]
    BY ONLY <1>0 DEF ClipTyped
  <1>3. v2.acked = v2.sent
    <2>1. Count(v10, "answer") = 0 /\ Count(v9, "list") = 0
      BY ONLY <1>1, EmptyHolds
    <2> QED BY ONLY <1>0, <1>2, <2>1 DEF ListsCounted
  <1>4. v3.pending = 0
    BY ONLY <1>0, <1>2, <1>3 DEF PendingKept
  <1>5. v3.ready = 0
    BY ONLY <1>0, <1>1, EmptyHolds DEF ReadyKept
  <1>6. v3 = Clipboard!NoPaste
    BY ONLY <1>2, <1>4, <1>5 DEF Clipboard!NoPaste
  <1>7. v5 => ~ v2.dirty
    BY ONLY <1>0, <1>1, EmptyHolds DEF DirtyKept
  <1>8. v11.who = "server" /\ ~ v17 => v12.kind \in v11.kinds /\ v12.id = v11.id
    BY ONLY <1>0, <1>1, EmptyHolds DEF CopyComes
  <1> QED BY ONLY <1>3, <1>6, <1>7, <1>8

-----------------------------------------------------------------------------
(* The sum: a step is one of the part that was chosen. *)

\* The name of a part never changes.
LEMMA PartStep == [Next]_vars => part' = part
  BY DEF Next, vars

\* event_writer.rs: the writer's own invariant holds of the writer in the sum.
THEOREM WriterInvariance == Spec => [](part = "writer" => WriterProofs!IInv)
  <1>1. Init => (part = "writer" => WriterProofs!IInv)
    BY WriterInit DEF Init
  <1>2. (part = "writer" => WriterProofs!IInv) /\ [Next]_vars
          => (part = "writer" => WriterProofs!IInv)'
    <2>1. part = "writer" /\ [Next]_vars => [Writer!Next]_(Writer!vars)
      BY DEF Next, vars, after6, after8, after11, Writer!vars, Writer!threadVars,
             Writer!sentVars
    <2> QED BY <2>1, PartStep, WriterStepKeeps
  <1> QED BY <1>1, <1>2, PTL DEF Spec

\* event_writer.rs: each frame is in one place, and the lines are in order, for every
\* number of frames and control events.
THEOREM WrittenOnce == Spec => []FramesOnce
  <1>1. (part = "writer" => WriterProofs!IInv) => FramesOnce
    BY WriterKeeps DEF FramesOnce
  <1> QED BY <1>1, WriterInvariance, PTL

DevicesInv ==
    /\ part = "microphone" => Microphone!Inv
    /\ part = "display"    => Display!Inv

LEMMA DevicesInit == Init => DevicesInv
  BY MicrophoneInit, DisplayInit DEF Init, DevicesInv

LEMMA DevicesStep == DevicesInv /\ [Next]_vars => DevicesInv'
  <1>1. part = "microphone" /\ [Next]_vars => [Microphone!Next]_(Microphone!vars)
    BY DEF Next, vars, after6, after8, after11, Microphone!vars
  <1>2. part = "display" /\ [Next]_vars => [Display!Next]_(Display!vars)
    BY DEF Next, vars, after6, after8, after11, after14, Display!vars
  <1> QED BY <1>1, <1>2, PartStep, MicrophoneStep, DisplayStep DEF DevicesInv

\* audio_input.rs, display.rs: no packet waits unheard or outlives its capture, and the
\* server has the newest layout, for every capacity and number of captures and wishes.
THEOREM DevicesAreServed == Spec => []DevicesServed
  <1>1. DevicesInv => DevicesServed
    <2>1. Display!Inv => Display!ServerHasLayout
      BY WantedIsNewest DEF Display!Inv, Display!SentIsServers, Display!ServerHasLayout
    <2> QED BY <2>1 DEF DevicesInv, DevicesServed, Microphone!Inv
  <1> QED BY <1>1, DevicesInit, DevicesStep, PTL DEF Spec

LEMMA ClipboardSteps == (part = "clipboard" => ClipInv) /\ [Next]_vars
                          => (part = "clipboard" => ClipInv)'
  <1>1. part = "clipboard" /\ [Next]_vars => [Clipboard!Next]_(Clipboard!vars)
    BY DEF Next, vars, after6, after8, after11, after14, Clipboard!vars,
           Clipboard!clientVars, Clipboard!loopVars, Clipboard!ghosts
  <1> SUFFICES ASSUME part = "clipboard" => ClipInv, [Next]_vars, part' = "clipboard"
               PROVE  ClipInv'
    OBVIOUS
  <1>2. part = "clipboard"
    BY PartStep
  <1>3. ClipInv /\ [Clipboard!Next]_(Clipboard!vars)
    BY <1>1, <1>2
  <1> QED BY ONLY <1>3, ClipStep

\* clipboard.rs: Control-V meets the text it is for, and with nothing on the way no
\* paste, list or copy is left behind, for every number of copies.
THEOREM PastedAsAsked == Spec => []PastesExact
  <1>1. Init => (part = "clipboard" => ClipInv)
    BY ClipStart DEF Init
  <1>2. (part = "clipboard" => ClipInv) => PastesExact
    BY ClipHolds DEF PastesExact
  <1> QED BY <1>1, <1>2, ClipboardSteps, PTL DEF Spec

=============================================================================
