------------------------------ MODULE MCVncProofs ------------------------------
(***************************************************************************)
(* Theorems about the parts of MCVnc, for every value of their bounds.     *)
(* Each part has an invariant of its own, proved in a section of its own;  *)
(* the last section carries them to the sum.                               *)
(***************************************************************************)
EXTENDS MCVnc, TLAPS, SequenceTheorems, FiniteSetTheorems, WellFoundedInduction

-----------------------------------------------------------------------------
(* Queues: what a message put behind or taken from the front leaves where. *)

LEMMA BehindIs ==
    ASSUME NEW S, NEW q \in Seq(S), NEW m \in S
    PROVE  /\ Append(q, m) \in Seq(S) /\ Len(q) \in Nat
           /\ DOMAIN q = 1 .. Len(q) /\ DOMAIN Append(q, m) = 1 .. Len(q) + 1
           /\ Append(q, m)[Len(q) + 1] = m
           /\ \A i \in DOMAIN q : Append(q, m)[i] = q[i]
  BY AppendProperties

LEMMA TailIs ==
    ASSUME NEW S, NEW q \in Seq(S), q # <<>>
    PROVE  /\ Tail(q) \in Seq(S) /\ Len(q) \in Nat \ {0} /\ Head(q) \in S
           /\ DOMAIN q = 1 .. Len(q) /\ DOMAIN Tail(q) = 1 .. Len(q) - 1
           /\ Head(q) = q[1]
           /\ \A i \in DOMAIN Tail(q) : Tail(q)[i] = q[i + 1]
  OBVIOUS

LEMMA EmptyIs == \A S : <<>> \in Seq(S) /\ DOMAIN <<>> = {} /\ Len(<<>>) = 0
  OBVIOUS

-----------------------------------------------------------------------------
(* Continuous updates.  The queues to the server and from it are v5 and v6,  *)
(* the client has v1 to v4, the server v7 to v11; see MCVnc.                 *)

Messages(q) == \A i \in DOMAIN q : q[i].size \in Nat

LEMMA FenceAnswered ==
    ASSUME NEW S, NEW T, NEW answers \in Seq(S), NEW asks \in Seq(T), NEW m \in S,
           asks # <<>>, Head(asks).kind = "fence", m.kind = "fence", m.size = Head(asks).size,
           Messages(answers), Messages(asks), NEW low \in Nat, NEW high \in Nat,
           Continuous!InOrder(answers, asks, low, high)
    PROVE  Continuous!InOrder(Append(answers, m), Tail(asks), low, high)
  <1> DEFINE a == Append(answers, m)  q == Tail(asks)
  <1> USE DEF Continuous!InOrder, Continuous!Ascending, Continuous!Fences, Messages
  <1>1. /\ Len(answers) \in Nat /\ DOMAIN answers = 1 .. Len(answers)
        /\ DOMAIN a = 1 .. Len(answers) + 1 /\ a[Len(answers) + 1] = m
        /\ \A i \in DOMAIN answers : a[i] = answers[i]
    BY BehindIs
  <1>2. /\ Len(asks) \in Nat \ {0} /\ DOMAIN asks = 1 .. Len(asks) /\ Head(asks) = asks[1]
        /\ DOMAIN q = 1 .. Len(asks) - 1 /\ \A i \in DOMAIN q : q[i] = asks[i + 1]
    BY TailIs
  <1> HIDE DEF a, q
  <1>20. /\ \A i \in Continuous!Fences(q) :
               i \in Nat /\ i + 1 \in Continuous!Fences(asks) /\ q[i] = asks[i + 1]
         /\ \A i \in Continuous!Fences(asks) :
               i \in Nat /\ (i = 1 \/ (i - 1 \in Continuous!Fences(q) /\ q[i - 1] = asks[i]))
    <2>1. ASSUME NEW i \in Continuous!Fences(q)
          PROVE  i \in Nat /\ i + 1 \in Continuous!Fences(asks) /\ q[i] = asks[i + 1]
      BY ONLY <1>2, <2>1 DEF Continuous!Fences
    <2>2. ASSUME NEW i \in Continuous!Fences(asks), i # 1
          PROVE  i \in Nat /\ i - 1 \in Continuous!Fences(q) /\ q[i - 1] = asks[i]
      BY ONLY <1>2, <2>2 DEF Continuous!Fences
    <2> QED BY ONLY <2>1, <2>2
  <1>3. 1 \in Continuous!Fences(asks) /\ asks[1].size = m.size /\ m.size \in Nat
    BY <1>2
  <1>4. Continuous!Ascending(q, low, high)
    BY ONLY <1>20, Continuous!InOrder(answers, asks, low, high)
    DEF Continuous!InOrder, Continuous!Ascending
  <1>5. \A i \in Continuous!Fences(a) : i = Len(answers) + 1 \/ i \in Continuous!Fences(answers)
    BY <1>1
  <1>6. low < m.size /\ m.size <= high /\ \A i \in Continuous!Fences(answers) : answers[i].size < m.size
    BY <1>3
  <1>7. Continuous!Ascending(a, low, high)
    <2>1. /\ Len(answers) + 1 \in Continuous!Fences(a)
          /\ \A i \in Continuous!Fences(answers) : i \in Nat /\ i < Len(answers) + 1 /\ a[i] = answers[i]
      BY <1>1
    <2>2. Continuous!Ascending(answers, low, high)
      OBVIOUS
    <2> QED BY ONLY <1>1, <1>5, <1>6, <2>1, <2>2, Len(answers) \in Nat DEF Continuous!Ascending
  <1>8. \A j \in Continuous!Fences(q) : j + 1 \in Continuous!Fences(asks) /\ m.size < asks[j + 1].size
    <2>1. Continuous!Ascending(asks, low, high)
      OBVIOUS
    <2>2. \A j \in Continuous!Fences(q) : 1 < j + 1
      BY ONLY <1>2 DEF Continuous!Fences
    <2> QED BY ONLY <1>3, <1>20, <2>1, <2>2 DEF Continuous!Ascending
  <1>9. \A i \in Continuous!Fences(a), j \in Continuous!Fences(q) : a[i].size < q[j].size
    BY Zenon, <1>1, <1>2, <1>5, <1>8
  <1>10. ASSUME NEW n \in low + 1 .. high
         PROVE  \/ \E i \in Continuous!Fences(a) : a[i].size = n
                \/ \E i \in Continuous!Fences(q) : q[i].size = n
    <2>1. CASE \E i \in Continuous!Fences(answers) : answers[i].size = n
      BY <1>1, <2>1
    <2>2. CASE \E i \in Continuous!Fences(asks) : asks[i].size = n
      <3>1. PICK i \in Continuous!Fences(asks) : asks[i].size = n
        BY <2>2
      <3>2. CASE i = 1
        <4>1. Len(answers) + 1 \in Continuous!Fences(a) /\ a[Len(answers) + 1].size = n
          BY <1>1, <1>3, <3>1, <3>2
        <4> QED BY ONLY <4>1
      <3>3. CASE i # 1
        BY ONLY <1>20, <3>1, <3>3
      <3> QED BY <3>2, <3>3
    <2> QED BY Zenon, <2>1, <2>2
  <1> QED BY Zenon, <1>4, <1>7, <1>9, <1>10 DEF a, q

\* A message that is no fence changes nothing, where it is taken ...
LEMMA OtherTaken ==
    ASSUME NEW T, NEW q \in Seq(T), q # <<>>, Head(q).kind # "fence"
    PROVE  /\ \A a, low, high : Continuous!InOrder(a, q, low, high) => Continuous!InOrder(a, Tail(q), low, high)
           /\ \A a, low, high : Continuous!InOrder(q, a, low, high) => Continuous!InOrder(Tail(q), a, low, high)
  <1> DEFINE t == Tail(q)
  <1>1. /\ Len(q) \in Nat \ {0} /\ DOMAIN q = 1 .. Len(q) /\ Head(q) = q[1]
        /\ DOMAIN t = 1 .. Len(q) - 1 /\ \A i \in DOMAIN t : t[i] = q[i + 1]
    BY TailIs
  <1> HIDE DEF t
  <1>2. \A i \in Continuous!Fences(t) : i \in Nat /\ i + 1 \in Continuous!Fences(q) /\ t[i] = q[i + 1]
    BY <1>1 DEF Continuous!Fences
  <1>3. \A i \in Continuous!Fences(q) : i \in Nat /\ i - 1 \in Continuous!Fences(t) /\ t[i - 1] = q[i]
    BY <1>1 DEF Continuous!Fences
  <1>4. ASSUME NEW low, NEW high, Continuous!Ascending(q, low, high)
        PROVE  Continuous!Ascending(t, low, high)
    BY <1>2, <1>4 DEF Continuous!Ascending
  <1>5. ASSUME NEW a, NEW low, NEW high, Continuous!InOrder(a, q, low, high)
        PROVE  Continuous!InOrder(a, t, low, high)
    BY <1>2, <1>3, <1>4, <1>5 DEF Continuous!InOrder
  <1>6. ASSUME NEW a, NEW low, NEW high, Continuous!InOrder(q, a, low, high)
        PROVE  Continuous!InOrder(t, a, low, high)
    BY <1>2, <1>3, <1>4, <1>6 DEF Continuous!InOrder
  <1> QED BY <1>5, <1>6 DEF t

\* ... and where it is sent.
LEMMA OtherSent ==
    ASSUME NEW T, NEW q \in Seq(T), NEW m \in T, m.kind # "fence"
    PROVE  /\ \A a, low, high : Continuous!InOrder(a, q, low, high) => Continuous!InOrder(a, Append(q, m), low, high)
           /\ \A a, low, high : Continuous!InOrder(q, a, low, high) => Continuous!InOrder(Append(q, m), a, low, high)
  <1> DEFINE t == Append(q, m)
  <1>1. /\ Len(q) \in Nat /\ DOMAIN q = 1 .. Len(q)
        /\ DOMAIN t = 1 .. Len(q) + 1 /\ t[Len(q) + 1] = m
        /\ \A i \in DOMAIN q : t[i] = q[i]
    BY BehindIs
  <1> HIDE DEF t
  <1>2. Continuous!Fences(t) = Continuous!Fences(q) /\ \A i \in Continuous!Fences(q) : t[i] = q[i]
    BY <1>1 DEF Continuous!Fences
  <1>3. \A low, high : Continuous!Ascending(q, low, high) => Continuous!Ascending(t, low, high)
    BY <1>2 DEF Continuous!Ascending
  <1> QED BY Zenon, <1>2, <1>3 DEF Continuous!InOrder, t

\* The server takes an answer, or asks once more.
LEMMA AnswerTaken ==
    ASSUME NEW S, NEW q \in Seq(S), q # <<>>, Head(q).kind = "fence", Messages(q),
           NEW asks, NEW low \in Nat, NEW high \in Nat, Continuous!InOrder(q, asks, low, high),
           Messages(asks)
    PROVE  Continuous!InOrder(Tail(q), asks, Head(q).size, high)
  <1> DEFINE t == Tail(q)  n == Head(q).size
  <1> USE DEF Continuous!InOrder, Continuous!Ascending, Continuous!Fences, Messages
  <1>1. /\ Len(q) \in Nat \ {0} /\ DOMAIN q = 1 .. Len(q) /\ Head(q) = q[1]
        /\ DOMAIN t = 1 .. Len(q) - 1 /\ \A i \in DOMAIN t : t[i] = q[i + 1]
    BY TailIs
  <1>2. 1 \in Continuous!Fences(q) /\ q[1].size = n /\ n \in Nat /\ low < n
    BY <1>1
  <1> HIDE DEF t, n
  <1>3. \A i \in Continuous!Fences(t) :
           i + 1 \in Continuous!Fences(q) /\ t[i] = q[i + 1] /\ i \in Nat /\ n < q[i + 1].size
    BY <1>1, <1>2
  <1>4. Continuous!Ascending(t, n, high)
    <2>1. Continuous!Ascending(q, low, high)
      OBVIOUS
    <2>2. \A i, j \in Continuous!Fences(t) : i < j => i + 1 < j + 1
      BY ONLY <1>3
    <2> QED BY ONLY <1>3, <2>1, <2>2 DEF Continuous!Ascending
  <1>5. Continuous!Ascending(asks, n, high)
    BY <1>2
  <1>6. \A i \in Continuous!Fences(t), j \in Continuous!Fences(asks) : t[i].size < asks[j].size
    BY <1>3
  <1>7. ASSUME NEW k \in n + 1 .. high
        PROVE  \/ \E i \in Continuous!Fences(t) : t[i].size = k
               \/ \E i \in Continuous!Fences(asks) : asks[i].size = k
    <2>1. k \in low + 1 .. high /\ k # n
      BY <1>2
    <2>2. CASE \E i \in Continuous!Fences(q) : q[i].size = k
      <3>1. PICK i \in Continuous!Fences(q) : q[i].size = k
        BY <2>2
      <3>2. i # 1
        BY <1>2, <2>1, <3>1
      <3>3. i - 1 \in Continuous!Fences(t) /\ t[i - 1].size = k
        BY <1>1, <3>1, <3>2
      <3> QED BY <3>3
    <2> QED BY <2>1, <2>2
  <1> QED BY Zenon, <1>4, <1>5, <1>6, <1>7 DEF t, n

LEMMA FenceAsked ==
    ASSUME NEW T, NEW q \in Seq(T), NEW m \in T, m.kind = "fence", Messages(q),
           NEW answers, NEW low \in Nat, NEW high \in Nat, low <= high, m.size = high + 1,
           Continuous!InOrder(answers, q, low, high), Messages(answers)
    PROVE  Continuous!InOrder(answers, Append(q, m), low, high + 1)
  <1> DEFINE t == Append(q, m)
  <1> USE DEF Continuous!InOrder, Continuous!Ascending, Continuous!Fences, Messages
  <1>1. /\ Len(q) \in Nat /\ DOMAIN q = 1 .. Len(q)
        /\ DOMAIN t = 1 .. Len(q) + 1 /\ t[Len(q) + 1] = m
        /\ \A i \in DOMAIN q : t[i] = q[i]
    BY BehindIs
  <1> HIDE DEF t
  <1>2. \A i \in Continuous!Fences(t) : i = Len(q) + 1 \/ i \in Continuous!Fences(q)
    BY <1>1
  <1>3. Len(q) + 1 \in Continuous!Fences(t)
    BY <1>1
  <1>4. Continuous!Ascending(t, low, high + 1)
    BY <1>1, <1>2
  <1>5. Continuous!Ascending(answers, low, high + 1)
    OBVIOUS
  <1>6. \A i \in Continuous!Fences(answers), j \in Continuous!Fences(t) : answers[i].size < t[j].size
    BY <1>1, <1>2
  <1>7. ASSUME NEW k \in low + 1 .. high + 1
        PROVE  \/ \E i \in Continuous!Fences(answers) : answers[i].size = k
               \/ \E i \in Continuous!Fences(t) : t[i].size = k
    <2>1. CASE k = high + 1
      BY <1>1, <1>3, <2>1
    <2>2. CASE k # high + 1
      <3>1. k \in low + 1 .. high
        BY <2>2
      <3> QED BY SMTT(20), <1>1, <3>1
    <2> QED BY <2>1, <2>2
  <1> QED BY Zenon, <1>4, <1>5, <1>6, <1>7 DEF t

\* The region that the server will have, once it has taken what is sent.
Regional(m) == m.kind \in {"enable", "disable"}
WillHave(q, region, n) ==
    \/ region = n /\ \A i \in DOMAIN q : ~Regional(q[i])
    \/ \E i \in DOMAIN q : /\ q[i].kind = "enable" /\ q[i].size = n
                          /\ \A j \in DOMAIN q : Regional(q[j]) => j <= i

\* The size that the framebuffer will have, once the client has read what is sent.
Resizes(m) == m.kind = "update" /\ m.size # 0
WillBe(q, size, n) ==
    \/ size = n /\ \A i \in DOMAIN q : ~Resizes(q[i])
    \/ \E i \in DOMAIN q : /\ Resizes(q[i]) /\ q[i].size = n
                          /\ \A j \in DOMAIN q : Resizes(q[j]) => j <= i

Has(q, kind) == \E i \in DOMAIN q : q[i].kind = kind

LEMMA RegionSent ==
    ASSUME NEW S, NEW q \in Seq(S), NEW m \in S, NEW region, NEW n
    PROVE  /\ m.kind = "enable" => WillHave(Append(q, m), region, m.size)
           /\ ~Regional(m) /\ WillHave(q, region, n) => WillHave(Append(q, m), region, n)
  <1> DEFINE t == Append(q, m)
  <1>1. /\ Len(q) \in Nat /\ DOMAIN q = 1 .. Len(q)
        /\ DOMAIN t = 1 .. Len(q) + 1 /\ t[Len(q) + 1] = m
        /\ \A i \in DOMAIN q : t[i] = q[i]
    BY BehindIs
  <1> HIDE DEF t
  <1>2. Len(q) + 1 \in DOMAIN t /\ \A i \in DOMAIN t : i <= Len(q) + 1
    BY ONLY <1>1
  <1>3. \A i \in DOMAIN t : i = Len(q) + 1 \/ (i \in DOMAIN q /\ t[i] = q[i])
    BY ONLY <1>1
  <1>4. \A i \in DOMAIN q : i \in DOMAIN t /\ t[i] = q[i]
    BY ONLY <1>1
  <1>5. m.kind = "enable" => WillHave(t, region, m.size)
    BY ONLY <1>1, <1>2 DEF WillHave
  <1>6. ~Regional(m) /\ WillHave(q, region, n) => WillHave(t, region, n)
    BY ONLY <1>1, <1>3, <1>4 DEF WillHave
  <1> QED BY <1>5, <1>6 DEF t

LEMMA RegionTaken ==
    ASSUME NEW S, NEW q \in Seq(S), q # <<>>, NEW region, NEW n, WillHave(q, region, n)
    PROVE  /\ Head(q).kind = "enable" => WillHave(Tail(q), Head(q).size, n)
           /\ ~Regional(Head(q)) => WillHave(Tail(q), region, n)
           /\ Head(q).kind = "disable" => WillHave(Tail(q), 0, n)
  <1> DEFINE t == Tail(q)
  <1>1. /\ Len(q) \in Nat \ {0} /\ DOMAIN q = 1 .. Len(q) /\ Head(q) = q[1]
        /\ DOMAIN t = 1 .. Len(q) - 1 /\ \A i \in DOMAIN t : t[i] = q[i + 1]
    BY TailIs
  <1> HIDE DEF t
  <1>2. /\ \A i \in DOMAIN t : i \in Nat /\ i + 1 \in DOMAIN q /\ t[i] = q[i + 1] /\ ~(i + 1 <= 1)
        /\ \A i \in DOMAIN q : i = 1 \/ (i \in Nat /\ i - 1 \in DOMAIN t /\ t[i - 1] = q[i])
        /\ 1 \in DOMAIN q
    BY ONLY <1>1
  <1>3. CASE region = n /\ \A i \in DOMAIN q : ~Regional(q[i])
    <2>1. ~Regional(Head(q))
      BY ONLY <1>1, <1>2, <1>3
    <2>2. WillHave(t, region, n)
      BY ONLY <1>2, <1>3 DEF WillHave
    <2> QED BY ONLY <2>1, <2>2 DEF Regional, t
  <1>4. ASSUME NEW i \in DOMAIN q, q[i].kind = "enable", q[i].size = n,
               \A j \in DOMAIN q : Regional(q[j]) => j <= i
        PROVE  /\ Head(q).kind = "enable" => WillHave(t, Head(q).size, n)
               /\ ~Regional(Head(q)) => WillHave(t, region, n)
               /\ Head(q).kind = "disable" => WillHave(t, 0, n)
    <2>1. CASE i = 1
      <3>1. \A j \in DOMAIN t : ~Regional(t[j])
        BY ONLY <1>2, <1>4, <2>1
      <3> QED BY ONLY <1>1, <1>4, <2>1, <3>1 DEF WillHave, Regional
    <2>2. CASE i # 1
      <3>1. i - 1 \in DOMAIN t /\ t[i - 1].kind = "enable" /\ t[i - 1].size = n /\ i \in Nat
        BY ONLY Zenon, <1>2, <1>4, <2>2
      <3>2. ASSUME NEW j \in DOMAIN t, Regional(t[j])
            PROVE  j <= i - 1
        <4>1. j + 1 \in DOMAIN q /\ Regional(q[j + 1]) /\ j \in Nat
          BY ONLY <1>2, <3>2
        <4>2. j + 1 <= i
          BY ONLY <1>4, <4>1
        <4> QED BY ONLY <3>1, <4>1, <4>2
      <3> QED BY ONLY <3>1, <3>2 DEF WillHave
    <2> QED BY ONLY <2>1, <2>2
  <1> QED BY ONLY <1>3, <1>4, WillHave(q, region, n) DEF WillHave, t

LEMMA SizeSent ==
    ASSUME NEW S, NEW q \in Seq(S), NEW m \in S, NEW size, NEW n
    PROVE  /\ Resizes(m) => WillBe(Append(q, m), size, m.size)
           /\ ~Resizes(m) /\ WillBe(q, size, n) => WillBe(Append(q, m), size, n)
  <1> DEFINE t == Append(q, m)
  <1>1. /\ Len(q) \in Nat /\ DOMAIN q = 1 .. Len(q)
        /\ DOMAIN t = 1 .. Len(q) + 1 /\ t[Len(q) + 1] = m
        /\ \A i \in DOMAIN q : t[i] = q[i]
    BY BehindIs
  <1> HIDE DEF t
  <1>2. Len(q) + 1 \in DOMAIN t /\ \A i \in DOMAIN t : i <= Len(q) + 1
    BY ONLY <1>1
  <1>3. \A i \in DOMAIN t : i = Len(q) + 1 \/ (i \in DOMAIN q /\ t[i] = q[i])
    BY ONLY <1>1
  <1>4. \A i \in DOMAIN q : i \in DOMAIN t /\ t[i] = q[i]
    BY ONLY <1>1
  <1>5. Resizes(m) => WillBe(t, size, m.size)
    BY ONLY <1>1, <1>2 DEF WillBe
  <1>6. ~Resizes(m) /\ WillBe(q, size, n) => WillBe(t, size, n)
    BY ONLY <1>1, <1>3, <1>4 DEF WillBe
  <1> QED BY <1>5, <1>6 DEF t

LEMMA SizeTaken ==
    ASSUME NEW S, NEW q \in Seq(S), q # <<>>, NEW size, NEW n, WillBe(q, size, n)
    PROVE  WillBe(Tail(q), IF Resizes(Head(q)) THEN Head(q).size ELSE size, n)
  <1> DEFINE t == Tail(q)  s == IF Resizes(Head(q)) THEN Head(q).size ELSE size
  <1>1. /\ Len(q) \in Nat \ {0} /\ DOMAIN q = 1 .. Len(q) /\ Head(q) = q[1]
        /\ DOMAIN t = 1 .. Len(q) - 1 /\ \A i \in DOMAIN t : t[i] = q[i + 1]
    BY TailIs
  <1> HIDE DEF t
  <1>2. /\ \A i \in DOMAIN t : i \in Nat /\ i + 1 \in DOMAIN q /\ t[i] = q[i + 1] /\ ~(i + 1 <= 1)
        /\ \A i \in DOMAIN q : i = 1 \/ (i \in Nat /\ i - 1 \in DOMAIN t /\ t[i - 1] = q[i])
        /\ 1 \in DOMAIN q
    BY ONLY <1>1
  <1>3. CASE size = n /\ \A i \in DOMAIN q : ~Resizes(q[i])
    BY ONLY <1>1, <1>2, <1>3 DEF WillBe
  <1>4. ASSUME NEW i \in DOMAIN q, Resizes(q[i]), q[i].size = n,
               \A j \in DOMAIN q : Resizes(q[j]) => j <= i
        PROVE  WillBe(t, s, n)
    <2>1. CASE i = 1
      <3>1. \A j \in DOMAIN t : ~Resizes(t[j])
        BY ONLY <1>2, <1>4, <2>1
      <3> QED BY ONLY <1>1, <1>4, <2>1, <3>1 DEF WillBe
    <2>2. CASE i # 1
      <3>1. i - 1 \in DOMAIN t /\ Resizes(t[i - 1]) /\ t[i - 1].size = n /\ i \in Nat
        BY ONLY Zenon, <1>2, <1>4, <2>2
      <3>2. ASSUME NEW j \in DOMAIN t, Resizes(t[j])
            PROVE  j <= i - 1
        <4>1. j + 1 \in DOMAIN q /\ Resizes(q[j + 1]) /\ j \in Nat
          BY ONLY <1>2, <3>2
        <4>2. j + 1 <= i
          BY ONLY <1>4, <4>1
        <4> QED BY ONLY <3>1, <4>1, <4>2
      <3> QED BY ONLY <3>1, <3>2 DEF WillBe
    <2> QED BY ONLY <2>1, <2>2
  <1> QED BY ONLY <1>3, <1>4, WillBe(q, size, n) DEF WillBe, t

LEMMA KindSent ==
    ASSUME NEW S, NEW q \in Seq(S), NEW m \in S, NEW kind
    PROVE  Has(Append(q, m), kind) <=> m.kind = kind \/ Has(q, kind)
  <1> DEFINE t == Append(q, m)
  <1>1. /\ Len(q) \in Nat /\ DOMAIN q = 1 .. Len(q)
        /\ DOMAIN t = 1 .. Len(q) + 1 /\ t[Len(q) + 1] = m
        /\ \A i \in DOMAIN q : t[i] = q[i]
    BY BehindIs
  <1> HIDE DEF t
  <1>2. Len(q) + 1 \in DOMAIN t /\ \A i \in DOMAIN q : i \in DOMAIN t
    BY ONLY <1>1
  <1>3. \A i \in DOMAIN t : i = Len(q) + 1 \/ i \in DOMAIN q
    BY ONLY <1>1
  <1> QED BY <1>1, <1>2, <1>3 DEF Has, t

LEMMA KindTaken ==
    ASSUME NEW S, NEW q \in Seq(S), q # <<>>, NEW kind
    PROVE  Has(q, kind) <=> Head(q).kind = kind \/ Has(Tail(q), kind)
  <1> DEFINE t == Tail(q)
  <1>1. /\ Len(q) \in Nat \ {0} /\ DOMAIN q = 1 .. Len(q) /\ Head(q) = q[1]
        /\ DOMAIN t = 1 .. Len(q) - 1 /\ \A i \in DOMAIN t : t[i] = q[i + 1]
    BY TailIs
  <1> HIDE DEF t
  <1>2. /\ \A i \in DOMAIN t : i + 1 \in DOMAIN q /\ t[i] = q[i + 1]
        /\ \A i \in DOMAIN q : i = 1 \/ (i - 1 \in DOMAIN t /\ t[i - 1] = q[i])
        /\ 1 \in DOMAIN q
    BY ONLY <1>1
  <1> QED BY Zenon, <1>1, <1>2 DEF Has, t

\* A message put behind a queue, in the form in which Process does it, or none.
LEMMA OneBehind ==
    ASSUME NEW S, NEW q \in Seq(S), NEW m \in S
    PROVE  q \o <<m>> = Append(q, m) /\ q \o <<>> = q /\ Append(q, m) \in Seq(S)
  OBVIOUS

\* Beside the types: while the client reads, the fences are in order; in continuous
\* mode, unless its end is on the way, the server will have the region of the size that
\* the client has; and out of it, with nothing to read, it is asked, or will be.
ContInv ==
    /\ Continuous!TypeOK
    /\ WillBe(v6, v3, v9.size)
    /\ ~v4 =>
         /\ v10.answered <= v10.sent
         /\ Continuous!InOrder(v5, v6, v10.answered, v10.sent)
         /\ v2 /\ ~Has(v6, "end") => WillHave(v5, v8, v3)
         /\ ~v2 /\ v6 = <<>> => v7 \/ Has(v5, "request")

LEMMA ContTypes ==
    ASSUME BoundsAssumption, Continuous!TypeOK
    PROVE  /\ v5 \in Seq(Continuous!ToServer) /\ v6 \in Seq(Continuous!ToClient)
           /\ Messages(v5) /\ Messages(v6)
           /\ v10.answered \in Nat /\ v10.sent \in Nat
           /\ 1 \in Continuous!Sizes /\ Continuous!Sizes \subseteq Nat \ {0}
           /\ ScreenSizes \in Nat /\ FenceCount \in Nat
  <1>1. ScreenSizes \in Nat \ {0} /\ FenceCount \in Nat
    BY DEF BoundsAssumption
  <1>2. \A m \in Continuous!ToServer : m.size \in Nat
    BY <1>1 DEF Continuous!ToServer, Continuous!Sizes
  <1>3. \A m \in Continuous!ToClient : m.size \in Nat
    BY <1>1 DEF Continuous!ToClient
  <1>4. v5 \in Seq(Continuous!ToServer) /\ v6 \in Seq(Continuous!ToClient)
    BY DEF Continuous!TypeOK
  <1>5. v10.answered \in Nat /\ v10.sent \in Nat
    BY <1>1 DEF Continuous!TypeOK
  <1>6. Messages(v5) /\ Messages(v6)
    <2>1. \A i \in DOMAIN v5 : v5[i] \in Continuous!ToServer
      BY ONLY <1>4
    <2>2. \A i \in DOMAIN v6 : v6[i] \in Continuous!ToClient
      BY ONLY <1>4
    <2> QED BY ONLY <1>2, <1>3, <2>1, <2>2 DEF Messages
  <1> QED BY <1>1, <1>4, <1>5, <1>6 DEF Continuous!Sizes

LEMMA ContMessages ==
    ASSUME BoundsAssumption
    PROVE  /\ \A n \in Continuous!Sizes :
                 /\ Continuous!Message("request", n) \in Continuous!ToServer
                 /\ Continuous!Message("enable", n) \in Continuous!ToServer
                 /\ Continuous!Message("disable", n) \in Continuous!ToServer
                 /\ Continuous!Message("update", n) \in Continuous!ToClient
           /\ Continuous!Message("update", 0) \in Continuous!ToClient
           /\ Continuous!Message("end", 0) \in Continuous!ToClient
           /\ \A n \in 1 .. FenceCount :
                 /\ Continuous!Message("fence", n) \in Continuous!ToServer
                 /\ Continuous!Message("fence", n) \in Continuous!ToClient
           /\ \A m \in Continuous!ToClient :
                 /\ m.kind \in {"update", "end", "fence"}
                 /\ m.kind = "fence" => m.size \in 1 .. FenceCount
                 /\ m.kind = "update" /\ m.size # 0 => m.size \in Continuous!Sizes
           /\ \A m \in Continuous!ToServer :
                 /\ m.kind \in {"request", "enable", "disable", "fence"}
                 /\ m.kind = "fence" => m.size \in 1 .. FenceCount
                 /\ m.kind # "fence" => m.size \in Continuous!Sizes
           /\ \A kind, n : /\ Continuous!Message(kind, n).kind = kind
                           /\ Continuous!Message(kind, n).size = n
  BY DEF BoundsAssumption, Continuous!ToServer, Continuous!ToClient, Continuous!Message,
         Continuous!Sizes

LEMMA ContStart ==
    ASSUME BoundsAssumption, Continuous!Init
    PROVE  ContInv
  <1> USE DEF Continuous!Init
  <1> DEFINE m == Continuous!Message("request", 1)
  <1>1. 1 \in Continuous!Sizes /\ m \in Continuous!ToServer /\ m.kind = "request"
    BY SMTT(20), ContMessages DEF BoundsAssumption, Continuous!Sizes
  <1> HIDE DEF m
  <1>2. v5 = <<m>> /\ v5 \in Seq(Continuous!ToServer) /\ DOMAIN v5 = {1} /\ v5[1] = m
    BY <1>1 DEF m
  <1>3. v6 = <<>> /\ v6 \in Seq(Continuous!ToClient) /\ DOMAIN v6 = {}
    BY EmptyIs
  <1>4. Continuous!TypeOK
    <2>1. Redraws \in Nat /\ FenceCount \in Nat /\ ModeEnds \in Nat
      BY DEF BoundsAssumption
    <2>2. v10 \in [sent : 0 .. FenceCount, answered : 0 .. FenceCount]
      BY <2>1
    <2>3. v11 \in [changes : 0 .. Redraws, ends : 0 .. ModeEnds]
      BY <2>1
    <2> QED BY Zenon, <1>1, <1>2, <1>3, <2>2, <2>3 DEF Continuous!TypeOK
  <1>5. WillBe(v6, v3, v9.size)
    BY <1>3 DEF WillBe
  <1>6. Has(v5, "request")
    BY Zenon, <1>1, <1>2 DEF Has
  <1>7. Continuous!InOrder(v5, v6, v10.answered, v10.sent)
    <2>1. Continuous!Fences(v5) = {} /\ Continuous!Fences(v6) = {}
      BY Zenon, <1>1, <1>2, <1>3 DEF Continuous!Fences
    <2>2. v10.answered = 0 /\ v10.sent = 0
      OBVIOUS
    <2>3. \A low, high : /\ Continuous!Ascending(v5, low, high)
                         /\ Continuous!Ascending(v6, low, high)
      BY ONLY <2>1, Zenon DEF Continuous!Ascending
    <2>4. 0 + 1 .. 0 = {}
      BY ONLY SMT
    <2>5. \A n \in v10.answered + 1 .. v10.sent :
             \/ \E i \in Continuous!Fences(v5) : v5[i].size = n
             \/ \E i \in Continuous!Fences(v6) : v6[i].size = n
      BY ONLY <2>2, <2>4, Zenon
    <2> QED BY ONLY <2>1, <2>3, <2>5, Zenon DEF Continuous!InOrder
  <1> QED BY <1>4, <1>5, <1>6, <1>7 DEF ContInv

LEMMA ContProcess ==
    ASSUME BoundsAssumption, ContInv, Continuous!Process
    PROVE  ContInv'
  <1> DEFINE m == Head(v6)
             s1 == v5 \o Continuous!Controls(m)
             s2 == s1 \o Continuous!Regions(m)
             t  == Tail(v6)
  <1>1. /\ v5 \in Seq(Continuous!ToServer) /\ v6 \in Seq(Continuous!ToClient)
        /\ Messages(v5) /\ Messages(v6) /\ v10.answered \in Nat /\ v10.sent \in Nat
        /\ Continuous!Sizes \subseteq Nat \ {0}
    BY Zenon, ContTypes DEF ContInv
  <1>2. /\ ~v4 /\ v6 # <<>> /\ v6' = t /\ v5' = s2 \o Continuous!Polls
        /\ v3' = IF m.kind = "update" /\ m.size # 0 THEN m.size ELSE v3
        /\ Continuous!ObserveEnd(m)
        /\ v4' = v4 /\ v7' = v7 /\ v8' = v8 /\ v9' = v9 /\ v10' = v10 /\ v11' = v11
    BY DEF Continuous!Process, Continuous!serverVars
  <1>3. t \in Seq(Continuous!ToClient) /\ m \in Continuous!ToClient
    BY ONLY <1>1, <1>2, TailIs
  <1>4. v3 \in Continuous!Sizes /\ v3' \in Continuous!Sizes /\ v1 \in BOOLEAN /\ v2 \in BOOLEAN
    BY Zenon, <1>2, <1>3, ContMessages DEF ContInv, Continuous!TypeOK
  <1>5. /\ v1' \in BOOLEAN /\ v2' \in BOOLEAN /\ (m.kind = "end" => v2' = ~v1)
        /\ (m.kind # "end" => v2' = v2 /\ v1' = v1)
    BY Zenon, <1>2, <1>4 DEF Continuous!ObserveEnd
  <1> DEFINE fence == Continuous!Message("fence", m.size)
             enable == Continuous!Message("enable", v3)
             region == Continuous!Message("enable", v3')
             request == Continuous!Message("request", v3')
  <1>6. /\ m.kind \in {"update", "end", "fence"}
        /\ (m.kind = "fence" => fence \in Continuous!ToServer)
        /\ enable \in Continuous!ToServer
        /\ region \in Continuous!ToServer /\ request \in Continuous!ToServer
        /\ fence.kind = "fence" /\ fence.size = m.size
        /\ enable.kind = "enable" /\ enable.size = v3
        /\ region.kind = "enable" /\ region.size = v3' /\ request.kind = "request"
    BY Zenon, <1>3, <1>4, ContMessages
  <1>7. /\ m.kind = "fence" => s1 = v5 \o <<fence>>
        /\ m.kind = "end" /\ ~v1 => s1 = v5 \o <<enable>>
        /\ m.kind = "end" /\ v1 => s1 = v5 \o <<>>
        /\ m.kind = "update" => s1 = v5 \o <<>>
        /\ (m.kind = "update" /\ m.size # 0 /\ v2' => s2 = s1 \o <<region>>)
        /\ (~(m.kind = "update" /\ m.size # 0 /\ v2') => s2 = s1 \o <<>>)
        /\ (v2' => v5' = s2 \o <<>>) /\ (~v2' => v5' = s2 \o <<request>>)
    BY Zenon, <1>2, <1>6 DEF Continuous!Controls, Continuous!Regions, Continuous!Polls
  <1> HIDE DEF s1, s2, t, m, fence, enable, region, request
  <1>8. /\ m.kind = "fence" => s1 = Append(v5, fence)
        /\ m.kind = "end" /\ ~v1 => s1 = Append(v5, enable)
        /\ m.kind = "end" /\ v1 => s1 = v5
        /\ m.kind = "update" => s1 = v5
        /\ s1 \in Seq(Continuous!ToServer)
    <2>1. v5 \o <<enable>> = Append(v5, enable) /\ v5 \o <<>> = v5
          /\ Append(v5, enable) \in Seq(Continuous!ToServer)
      BY ONLY <1>1, <1>6, OneBehind
    <2>2. CASE m.kind = "fence"
      <3>1. fence \in Continuous!ToServer
        BY <1>6, <2>2
      <3>2. v5 \o <<fence>> = Append(v5, fence) /\ Append(v5, fence) \in Seq(Continuous!ToServer)
        BY ONLY <1>1, <3>1, OneBehind
      <3> QED BY ONLY Zenon, <1>7, <2>2, <3>2
    <2> QED BY ONLY Zenon, <1>1, <1>4, <1>6, <1>7, <2>1, <2>2
  <1>9. /\ (m.kind = "update" /\ m.size # 0 /\ v2' => s2 = Append(s1, region))
        /\ (~(m.kind = "update" /\ m.size # 0 /\ v2') => s2 = s1)
        /\ s2 \in Seq(Continuous!ToServer)
    <2>1. s1 \o <<region>> = Append(s1, region) /\ s1 \o <<>> = s1
          /\ Append(s1, region) \in Seq(Continuous!ToServer)
      BY ONLY <1>6, <1>8, OneBehind
    <2> QED BY ONLY Zenon, <1>7, <1>8, <2>1
  <1>10. /\ (v2' => v5' = s2) /\ (~v2' => v5' = Append(s2, request))
         /\ v5' \in Seq(Continuous!ToServer)
    <2>1. s2 \o <<request>> = Append(s2, request) /\ s2 \o <<>> = s2
          /\ Append(s2, request) \in Seq(Continuous!ToServer)
      BY ONLY <1>6, <1>9, OneBehind
    <2> QED BY ONLY Zenon, <1>5, <1>7, <1>9, <2>1
  <1>11. Continuous!TypeOK'
    BY <1>2, <1>3, <1>4, <1>5, <1>10 DEF ContInv, Continuous!TypeOK
  <1>12. WillBe(v6', v3', v9'.size)
    BY <1>1, <1>2, SizeTaken DEF ContInv, Resizes, m, t
  <1>13. Continuous!InOrder(s1, t, v10.answered, v10.sent)
    <2>1. Continuous!InOrder(v5, v6, v10.answered, v10.sent)
      BY <1>2 DEF ContInv
    <2>2. CASE m.kind = "fence"
      <3>1. /\ fence \in Continuous!ToServer /\ fence.kind = "fence"
            /\ Head(v6).kind = "fence" /\ fence.size = Head(v6).size
        BY <1>6, <2>2 DEF m
      <3>2. Continuous!InOrder(Append(v5, fence), Tail(v6), v10.answered, v10.sent)
        BY ONLY <1>1, <1>2, <2>1, <3>1, FenceAnswered
      <3> QED BY ONLY Zenon, <1>8, <2>2, <3>2 DEF t
    <2>3. CASE m.kind # "fence"
      <3>1. Continuous!InOrder(v5, t, v10.answered, v10.sent)
        BY ONLY <1>1, <1>2, <2>1, <2>3, OtherTaken DEF m, t
      <3>2. CASE s1 = Append(v5, enable)
        <4>1. enable.kind # "fence"
          BY <1>6
        <4> QED BY ONLY <1>1, <1>6, <3>1, <3>2, <4>1, OtherSent
      <3> QED BY ONLY <1>4, <1>6, <1>8, <2>3, <3>1, <3>2
    <2> QED BY <2>2, <2>3
  <1>14. Continuous!InOrder(s2, t, v10.answered, v10.sent)
    <2>1. region.kind # "fence"
      BY <1>6
    <2> QED BY ONLY Zenon, <1>6, <1>8, <1>9, <1>13, <2>1, OtherSent
  <1>15. Continuous!InOrder(v5', t, v10.answered, v10.sent)
    <2>1. request.kind # "fence"
      BY <1>6
    <2> QED BY ONLY Zenon, <1>5, <1>6, <1>9, <1>10, <1>14, <2>1, OtherSent
  <1>16. ASSUME v2', ~Has(t, "end")
         PROVE  WillHave(v5', v8, v3')
    <2>1. v5' = s2
      BY <1>10, <1>16
    <2>2. CASE m.kind = "end"
      <3>1. s2 = Append(v5, enable) /\ v3' = v3
        BY Zenon, <1>2, <1>4, <1>5, <1>8, <1>9, <1>16, <2>2
      <3> QED BY ONLY <1>1, <1>6, <2>1, <3>1, RegionSent
    <2>3. CASE m.kind # "end"
      <3>1. ~Has(v6, "end")
        BY ONLY <1>1, <1>2, <1>16, <2>3, KindTaken DEF m, t
      <3>2. WillHave(v5, v8, v3)
        BY Zenon, <1>2, <1>5, <1>16, <2>3, <3>1 DEF ContInv
      <3>3. CASE m.kind = "fence"
        <4>1. s2 = Append(v5, fence) /\ v3' = v3 /\ ~Regional(fence)
          BY <1>2, <1>6, <1>8, <1>9, <3>3 DEF Regional
        <4> QED BY ONLY <1>1, <1>6, <2>1, <3>2, <3>3, <4>1, RegionSent
      <3>4. CASE m.kind = "update" /\ m.size # 0
        <4>1. s2 = Append(s1, region)
          BY <1>9, <1>16, <3>4
        <4> QED BY ONLY <1>6, <1>8, <2>1, <4>1, RegionSent
      <3>5. CASE m.kind = "update" /\ m.size = 0
        BY <1>2, <1>8, <1>9, <2>1, <3>2, <3>5
      <3> QED BY <1>6, <2>3, <3>3, <3>4, <3>5
    <2> QED BY <2>2, <2>3
  <1>17. ~v2' => Has(v5', "request")
    <2>1. Has(Append(s2, request), "request")
      BY ONLY <1>6, <1>9, KindSent
    <2> QED BY ONLY Zenon, <1>10, <2>1
  <1> QED BY Zenon, <1>2, <1>11, <1>12, <1>15, <1>16, <1>17 DEF ContInv

LEMMA ContShutdown ==
    ASSUME BoundsAssumption, ContInv, Continuous!Shutdown
    PROVE  ContInv'
  <1> DEFINE m == Continuous!Message("disable", v3)
  <1>1. v5 \in Seq(Continuous!ToServer)
    BY ContTypes DEF ContInv
  <1>2. m \in Continuous!ToServer
    BY Zenon, ContMessages DEF ContInv, Continuous!TypeOK
  <1>3. v4' = TRUE /\ v2' = FALSE /\ v1' = v1 /\ v3' = v3 /\ v6' = v6 /\ v7' = v7 /\ v8' = v8
        /\ v9' = v9 /\ v10' = v10 /\ v11' = v11 /\ (v5' = v5 \/ v5' = Append(v5, m))
    BY DEF Continuous!Shutdown, Continuous!serverVars
  <1> HIDE DEF m
  <1>4. v5' \in Seq(Continuous!ToServer)
    BY ONLY <1>1, <1>2, <1>3, BehindIs
  <1> QED BY Zenon, <1>3, <1>4 DEF ContInv, Continuous!TypeOK

LEMMA ContServerTakes ==
    ASSUME BoundsAssumption, ContInv, Continuous!ServerTakes
    PROVE  ContInv'
  <1> DEFINE m == Head(v5)  t == Tail(v5)
  <1>1. /\ v5 \in Seq(Continuous!ToServer) /\ v6 \in Seq(Continuous!ToClient)
        /\ Messages(v5) /\ Messages(v6) /\ v10.answered \in Nat /\ v10.sent \in Nat
        /\ Continuous!Sizes \subseteq Nat \ {0} /\ FenceCount \in Nat
    BY Zenon, ContTypes DEF ContInv
  <1>2. /\ v5 # <<>> /\ v5' = t
        /\ v7' = (v7 \/ m.kind = "request")
        /\ v8' = CASE m.kind = "enable"  -> m.size
                   [] m.kind = "disable" -> 0
                   [] OTHER              -> v8
        /\ v10' = IF m.kind = "fence" THEN [v10 EXCEPT !.answered = m.size] ELSE v10
        /\ v1' = v1 /\ v2' = v2 /\ v3' = v3 /\ v4' = v4 /\ v6' = v6 /\ v9' = v9 /\ v11' = v11
    BY DEF Continuous!ServerTakes, Continuous!clientVars
  <1>3. t \in Seq(Continuous!ToServer) /\ m \in Continuous!ToServer
    BY ONLY <1>1, <1>2, TailIs
  <1>4. /\ m.kind \in {"request", "enable", "disable", "fence"}
        /\ (m.kind = "fence" => m.size \in 1 .. FenceCount)
        /\ (m.kind # "fence" => m.size \in Continuous!Sizes)
    BY Zenon, <1>3, ContMessages
  <1>5. /\ v10 \in [sent : 0 .. FenceCount, answered : 0 .. FenceCount]
        /\ v8 \in {0} \cup Continuous!Sizes /\ v7 \in BOOLEAN
    BY DEF ContInv, Continuous!TypeOK
  <1> HIDE DEF m, t
  <1>6. /\ v10' \in [sent : 0 .. FenceCount, answered : 0 .. FenceCount]
        /\ v10'.sent = v10.sent
        /\ v10'.answered = IF m.kind = "fence" THEN m.size ELSE v10.answered
    BY ONLY <1>1, <1>2, <1>4, <1>5
  <1>7. v8' \in {0} \cup Continuous!Sizes /\ v7' \in BOOLEAN
    BY ONLY <1>2, <1>4, <1>5
  <1>8. Continuous!TypeOK'
    BY <1>2, <1>3, <1>6, <1>7 DEF ContInv, Continuous!TypeOK
  <1>9. ASSUME ~v4
        PROVE  /\ v10'.answered <= v10'.sent
               /\ Continuous!InOrder(v5', v6', v10'.answered, v10'.sent)
    <2>1. Continuous!InOrder(v5, v6, v10.answered, v10.sent) /\ v10.answered <= v10.sent
      BY <1>9 DEF ContInv
    <2>2. CASE m.kind = "fence"
      <3>1. Head(v5).kind = "fence"
        BY <2>2 DEF m
      <3>2. Continuous!InOrder(t, v6, m.size, v10.sent)
        BY ONLY <1>1, <1>2, <2>1, <3>1, AnswerTaken DEF m, t
      <3>3. m.size <= v10.sent
        <4>1. 1 \in Continuous!Fences(v5) /\ v5[1] = m
          <5>1. Len(v5) \in Nat \ {0} /\ DOMAIN v5 = 1 .. Len(v5) /\ Head(v5) = v5[1]
            BY ONLY <1>1, <1>2, TailIs
          <5> QED BY ONLY <2>2, <5>1 DEF Continuous!Fences, m
        <4> QED BY ONLY <2>1, <4>1 DEF Continuous!InOrder, Continuous!Ascending
      <3> QED BY ONLY <1>2, <1>6, <2>2, <3>2, <3>3
    <2>3. CASE m.kind # "fence"
      <3>1. Continuous!InOrder(t, v6, v10.answered, v10.sent)
        BY ONLY <1>1, <1>2, <2>1, <2>3, OtherTaken DEF m, t
      <3> QED BY ONLY <1>2, <1>6, <2>1, <2>3, <3>1
    <2> QED BY <2>2, <2>3
  <1>10. ASSUME ~v4, v2, ~Has(v6, "end")
         PROVE  WillHave(v5', v8', v3')
    <2>1. WillHave(v5, v8, v3)
      BY <1>10 DEF ContInv
    <2>2. /\ m.kind = "enable" => WillHave(t, m.size, v3)
          /\ ~Regional(m) => WillHave(t, v8, v3)
          /\ m.kind = "disable" => WillHave(t, 0, v3)
      BY ONLY <1>1, <1>2, <2>1, RegionTaken DEF m, t
    <2> QED BY ONLY <1>2, <1>4, <2>2 DEF Regional
  <1>11. ASSUME ~v4, ~v2, v6 = <<>>
         PROVE  v7' \/ Has(v5', "request")
    <2>1. v7 \/ Has(v5, "request")
      BY <1>11 DEF ContInv
    <2>2. Has(v5, "request") => m.kind = "request" \/ Has(t, "request")
      BY ONLY <1>1, <1>2, KindTaken DEF m, t
    <2> QED BY ONLY Zenon, <1>2, <2>1, <2>2
  <1> QED BY Zenon, <1>2, <1>8, <1>9, <1>10, <1>11 DEF ContInv

\* The steps of the server that send at most one message.
LEMMA ContServerSends ==
    ASSUME BoundsAssumption, ContInv,
           \/ Continuous!ServerUpdates \/ Continuous!ServerFence \/ Continuous!ServerEnds
    PROVE  ContInv'
  <1>1. /\ v5 \in Seq(Continuous!ToServer) /\ v6 \in Seq(Continuous!ToClient)
        /\ Messages(v5) /\ Messages(v6) /\ v10.answered \in Nat /\ v10.sent \in Nat
        /\ Continuous!Sizes \subseteq Nat \ {0} /\ FenceCount \in Nat
    BY Zenon, ContTypes DEF ContInv
  <1>2. v1' = v1 /\ v2' = v2 /\ v3' = v3 /\ v4' = v4 /\ v5' = v5 /\ ~v4
    BY Zenon DEF Continuous!ServerUpdates, Continuous!ServerFence, Continuous!ServerEnds,
           Continuous!clientVars
  <1>3. /\ v9 \in [size : Continuous!Sizes, changed : BOOLEAN]
        /\ v10 \in [sent : 0 .. FenceCount, answered : 0 .. FenceCount]
        /\ v11 \in [changes : 0 .. Redraws, ends : 0 .. ModeEnds]
        /\ v8 \in {0} \cup Continuous!Sizes /\ v7 \in BOOLEAN
        /\ Redraws \in Nat /\ ModeEnds \in Nat
    BY DEF ContInv, Continuous!TypeOK, BoundsAssumption
  <1>4. PICK m \in Continuous!ToClient :
          /\ v6' = Append(v6, m)
          /\ \/ /\ m.kind = "update" /\ v8' = v8 /\ v7' = FALSE /\ v10' = v10 /\ v11' = v11
                /\ v9' \in [size : Continuous!Sizes, changed : BOOLEAN]
                /\ v9'.size = IF m.size = 0 THEN v9.size ELSE m.size
             \/ /\ m.kind = "end" /\ v8' = 0 /\ v7' = v7 /\ v10' = v10 /\ v9' = v9
                /\ v11' \in [changes : 0 .. Redraws, ends : 0 .. ModeEnds]
             \/ /\ m.kind = "fence" /\ v8' = v8 /\ v7' = v7 /\ v9' = v9 /\ v11' = v11
                /\ v10' \in [sent : 0 .. FenceCount, answered : 0 .. FenceCount]
                /\ v10'.answered = v10.answered /\ v10'.sent = v10.sent + 1
                /\ m.size = v10.sent + 1
    <2>1. CASE Continuous!ServerUpdates
      <3>1. v8' = v8 /\ v7' = FALSE /\ v10' = v10 /\ v11' = v11
        BY <2>1 DEF Continuous!ServerUpdates
      <3>2. CASE v9' = [v9 EXCEPT !.changed = FALSE] /\ v6' = Append(v6, Continuous!Message("update", 0))
        <4>1. v9' \in [size : Continuous!Sizes, changed : BOOLEAN] /\ v9'.size = v9.size
          BY ONLY Zenon, <1>3, <3>2
        <4>2. /\ Continuous!Message("update", 0) \in Continuous!ToClient
              /\ Continuous!Message("update", 0).kind = "update"
              /\ Continuous!Message("update", 0).size = 0
          BY ContMessages
        <4> QED BY ONLY <3>1, <3>2, <4>1, <4>2
      <3>3. ASSUME NEW s \in Continuous!Sizes, v9' = [size |-> s, changed |-> FALSE],
                   v6' = Append(v6, Continuous!Message("update", s))
            PROVE  \E m \in Continuous!ToClient :
                      /\ v6' = Append(v6, m) /\ m.kind = "update"
                      /\ v9' \in [size : Continuous!Sizes, changed : BOOLEAN]
                      /\ v9'.size = IF m.size = 0 THEN v9.size ELSE m.size
        <4>1. s # 0
          BY ONLY <1>1, <3>3
        <4>2. /\ Continuous!Message("update", s) \in Continuous!ToClient
              /\ Continuous!Message("update", s).kind = "update"
              /\ Continuous!Message("update", s).size = s
          BY ContMessages
        <4>3. v9' \in [size : Continuous!Sizes, changed : BOOLEAN] /\ v9'.size = s
          BY ONLY <3>3
        <4> QED BY ONLY <3>3, <4>1, <4>2, <4>3
      <3> QED BY Zenon, <2>1, <3>1, <3>2, <3>3 DEF Continuous!ServerUpdates
    <2>2. CASE Continuous!ServerEnds
      <3>1. v11' = [v11 EXCEPT !.ends = @ + 1] /\ v11.ends < ModeEnds
        BY <2>2 DEF Continuous!ServerEnds
      <3>2. v11' \in [changes : 0 .. Redraws, ends : 0 .. ModeEnds]
        BY ONLY <1>3, <3>1
      <3>3. Continuous!Message("end", 0) \in Continuous!ToClient
            /\ Continuous!Message("end", 0).kind = "end"
        BY ContMessages
      <3> QED BY Zenon, <2>2, <3>2, <3>3 DEF Continuous!ServerEnds
    <2>3. CASE Continuous!ServerFence
      <3>1. v10' = [v10 EXCEPT !.sent = @ + 1] /\ v10.sent < FenceCount
        BY <2>3 DEF Continuous!ServerFence
      <3>2. /\ v10' \in [sent : 0 .. FenceCount, answered : 0 .. FenceCount]
            /\ v10'.answered = v10.answered /\ v10'.sent = v10.sent + 1
            /\ v10'.sent \in 1 .. FenceCount
        <4>1. v10.sent \in 0 .. FenceCount
          BY ONLY <1>3
        <4>2. v10.sent + 1 \in 1 .. FenceCount /\ v10.sent + 1 \in 0 .. FenceCount
          BY ONLY <1>1, <3>1, <4>1
        <4> QED BY ONLY <1>3, <3>1, <4>2
      <3> DEFINE m == Continuous!Message("fence", v10'.sent)
      <3>3. m \in Continuous!ToClient /\ m.kind = "fence" /\ m.size = v10.sent + 1
        BY <3>2, ContMessages
      <3>4. v8' = v8 /\ v7' = v7 /\ v9' = v9 /\ v11' = v11 /\ v6' = Append(v6, m)
        BY <2>3 DEF Continuous!ServerFence
      <3> QED BY Zenon, <3>2, <3>3, <3>4
    <2> QED BY Zenon, <2>1, <2>2, <2>3
  <1>5. v6' \in Seq(Continuous!ToClient) /\ v6' # <<>>
    BY ONLY <1>1, <1>4, AppendProperties
  <1>6. Continuous!TypeOK'
    BY Zenon, <1>2, <1>3, <1>4, <1>5 DEF ContInv, Continuous!TypeOK
  <1>7. WillBe(v6', v3', v9'.size)
    <2>1. WillBe(v6, v3, v9.size)
      BY DEF ContInv
    <2>2. /\ Resizes(m) => WillBe(v6', v3, m.size)
          /\ ~Resizes(m) => WillBe(v6', v3, v9.size)
      BY ONLY <1>1, <1>4, <2>1, SizeSent
    <2> QED BY ONLY <1>2, <1>4, <2>2 DEF Resizes
  <1>8. v10'.answered <= v10'.sent
        /\ Continuous!InOrder(v5', v6', v10'.answered, v10'.sent)
    <2>1. Continuous!InOrder(v5, v6, v10.answered, v10.sent) /\ v10.answered <= v10.sent
      BY <1>2 DEF ContInv
    <2>2. CASE m.kind = "fence"
      <3>1. m.size = v10.sent + 1 /\ v10'.answered = v10.answered /\ v10'.sent = v10.sent + 1
        BY <1>4, <2>2
      <3>2. Continuous!InOrder(v5, Append(v6, m), v10.answered, v10.sent + 1)
        <4>1. m \in Continuous!ToClient /\ v10.sent \in Nat /\ v10.answered \in Nat
          BY ONLY <1>1, <1>4
        <4>2. m.size = v10.sent + 1
          BY ONLY <3>1
        <4> QED BY ONLY <1>1, <2>1, <2>2, <4>1, <4>2, FenceAsked
      <3>3. v5' = v5 /\ v6' = Append(v6, m)
        BY <1>2, <1>4
      <3>4. v10.answered <= v10.sent + 1
        BY ONLY <1>1, <2>1
      <3> QED BY ONLY <3>1, <3>2, <3>3, <3>4
    <2>3. CASE m.kind # "fence"
      <3>1. Continuous!InOrder(v5, Append(v6, m), v10.answered, v10.sent)
        BY ONLY <1>1, <1>4, <2>1, <2>3, OtherSent
      <3> QED BY Zenon, <1>2, <1>4, <2>1, <2>3, <3>1
    <2> QED BY <2>2, <2>3
  <1>9. ASSUME v2, ~Has(v6', "end")
        PROVE  WillHave(v5', v8', v3')
    <2>1. m.kind # "end" /\ ~Has(v6, "end")
      BY ONLY <1>1, <1>4, <1>9, KindSent
    <2> QED BY Zenon, <1>2, <1>4, <1>9, <2>1 DEF ContInv
  <1> QED BY <1>2, <1>5, <1>6, <1>7, <1>8, <1>9 DEF ContInv

LEMMA ContScreenChanges ==
    ASSUME BoundsAssumption, ContInv, Continuous!ScreenChanges
    PROVE  ContInv'
  <1>1. /\ v9 \in [size : Continuous!Sizes, changed : BOOLEAN]
        /\ v11 \in [changes : 0 .. Redraws, ends : 0 .. ModeEnds] /\ Redraws \in Nat
        /\ v9' = [v9 EXCEPT !.changed = TRUE]
        /\ v11' = [v11 EXCEPT !.changes = @ + 1] /\ v11.changes < Redraws
    BY DEF ContInv, Continuous!TypeOK, BoundsAssumption, Continuous!ScreenChanges
  <1>2. /\ v9' \in [size : Continuous!Sizes, changed : BOOLEAN] /\ v9'.size = v9.size
        /\ v11' \in [changes : 0 .. Redraws, ends : 0 .. ModeEnds]
    <2>1. v11.changes \in 0 .. Redraws
      BY ONLY <1>1
    <2>2. v11.changes + 1 \in 0 .. Redraws
      BY ONLY <1>1, <2>1
    <2> QED BY ONLY Zenon, <1>1, <2>2
  <1>3. v1' = v1 /\ v2' = v2 /\ v3' = v3 /\ v4' = v4 /\ v5' = v5 /\ v6' = v6 /\ v7' = v7
        /\ v8' = v8 /\ v10' = v10
    BY DEF Continuous!ScreenChanges, Continuous!clientVars
  <1> QED BY <1>2, <1>3 DEF ContInv, Continuous!TypeOK

LEMMA ContSteps ==
    ASSUME BoundsAssumption, ContInv, Continuous!Next
    PROVE  ContInv'
  BY ContProcess, ContShutdown, ContServerTakes, ContServerSends, ContScreenChanges
  DEF Continuous!Next

LEMMA ContHolds ==
    ASSUME BoundsAssumption, ContInv
    PROVE  Continuous!AlwaysAsked /\ Continuous!FencesInOrder
  <1>1. Continuous!FencesInOrder
    BY DEF ContInv, Continuous!FencesInOrder
  <1>2. ASSUME Continuous!Quiet
        PROVE  v3 = v9.size /\ (v7 \/ v8 = v3)
    <2>1. ~v4 /\ v5 = <<>> /\ v6 = <<>>
      BY <1>2 DEF Continuous!Quiet
    <2>2. v3 = v9.size
      BY <2>1, EmptyIs DEF ContInv, WillBe
    <2>3. ~Has(v6, "end") /\ ~Has(v5, "request")
      BY <2>1, EmptyIs DEF Has
    <2>4. v2 => v8 = v3
      BY <2>1, <2>3, EmptyIs DEF ContInv, WillHave
    <2> QED BY <2>1, <2>2, <2>3, <2>4 DEF ContInv
  <1> QED BY <1>1, <1>2 DEF Continuous!AlwaysAsked

-----------------------------------------------------------------------------
(* The decoders.  The client's positions are v1 to v3 and the encoders' v4   *)
(* to v6, the update being read is v7, and v8 to v10 what came of it.         *)

\* Beside what is to be shown: an update that is open is within its limit.
DecodeInv ==
    /\ Decode!TypeOK
    /\ Decode!InStep /\ Decode!RefusedAtLimit
    /\ ~v9 /\ v7.open => /\ v7.read < v7.count
                         /\ \/ v7.count <= UpdateRects
                            \/ v7.count = Decode!Unknown /\ v7.read < UpdateRects

LEMMA DecodeStart ==
    ASSUME BoundsAssumption, Decode!Init
    PROVE  DecodeInv
  <1> USE DEF Decode!Init
  <1>1. UpdateRects \in Nat \ {0} /\ StreamSegments \in Nat \ {0}
    BY DEF BoundsAssumption
  <1>2. v7 = [open |-> FALSE, read |-> 0, count |-> 0] /\ ~v9
    BY DEF Decode!Idle
  <1>3. v7 \in [open : BOOLEAN, read : 0 .. UpdateRects, count : 0 .. Decode!Unknown]
    BY <1>1, <1>2 DEF Decode!Unknown
  <1>4. Decode!TypeOK
    <2>1. 0 \in Decode!Positions
      BY ONLY <1>1 DEF Decode!Positions
    <2>2. v1 \in [ZlibStreams -> Decode!Positions] /\ v4 \in [ZlibStreams -> Decode!Positions]
      BY <2>1
    <2>3. v3 \in [H264Places -> Decode!Positions] /\ v6 \in [H264Places -> Decode!Positions]
      BY <2>1
    <2> QED BY Zenon, <1>3, <2>1, <2>2, <2>3 DEF Decode!TypeOK
  <1> QED BY <1>2, <1>4 DEF DecodeInv, Decode!InStep, Decode!RefusedAtLimit

\* What holds where a rectangle is read, or a header.
LEMMA DecodeUp ==
    ASSUME BoundsAssumption, DecodeInv, Decode!Up
    PROVE  /\ UpdateRects \in Nat \ {0} /\ StreamSegments \in Nat \ {0} /\ H264Contexts \in Nat \ {0}
           /\ IsFiniteSet(H264Places) /\ Decode!Unknown = UpdateRects + 2
           /\ v1 \in [ZlibStreams -> 0 .. StreamSegments] /\ v4 = v1
           /\ v2 \in 0 .. StreamSegments /\ v5 = v2
           /\ v3 \in [H264Places -> 0 .. StreamSegments] /\ v6 = v3
           /\ v7 \in [open : BOOLEAN, read : 0 .. UpdateRects, count : 0 .. UpdateRects + 2]
           /\ v7.open \in BOOLEAN /\ v7.read \in 0 .. UpdateRects /\ v7.count \in 0 .. UpdateRects + 2
           /\ v8 = FALSE /\ v9 = FALSE /\ v10 \subseteq {"tight", "jpeg", "h264", "lastRect"}
           /\ v7.open => /\ v7.read < v7.count
                         /\ \/ v7.count <= UpdateRects
                            \/ v7.count = UpdateRects + 2 /\ v7.read < UpdateRects
  BY DEF BoundsAssumption, DecodeInv, Decode!TypeOK, Decode!Positions, Decode!Up,
     Decode!Unknown,
         Decode!InStep

LEMMA DecodeCounts ==
    ASSUME BoundsAssumption, DecodeInv, Decode!Up, v7.open, Decode!CountRect
    PROVE  /\ v7' \in [open : BOOLEAN, read : 0 .. UpdateRects, count : 0 .. UpdateRects + 2]
           /\ v9' \in BOOLEAN /\ Decode!RefusedAtLimit'
           /\ ~v9' /\ v7'.open => /\ v7'.read < v7'.count
                                  /\ \/ v7'.count <= UpdateRects
                                     \/ v7'.count = Decode!Unknown /\ v7'.read < UpdateRects
  <1> DEFINE n == v7.read + 1
  <1>1. /\ UpdateRects \in Nat \ {0} /\ Decode!Unknown = UpdateRects + 2
        /\ v7 \in [open : BOOLEAN, read : 0 .. UpdateRects, count : 0 .. UpdateRects + 2]
        /\ v7.read \in 0 .. UpdateRects /\ v7.count \in 0 .. UpdateRects + 2
        /\ v7.read < v7.count
        /\ \/ v7.count <= UpdateRects
           \/ v7.count = UpdateRects + 2 /\ v7.read < UpdateRects
    BY Zenon, DecodeUp
  <1>2. /\ v7' = IF n = v7.count THEN [open |-> FALSE, read |-> 0, count |-> 0]
                 ELSE [v7 EXCEPT !.read = n]
        /\ v9' \in BOOLEAN /\ (v9' <=> v7.count = UpdateRects + 2 /\ n = UpdateRects)
    BY Zenon, <1>1 DEF Decode!CountRect, Decode!Idle
  <1>3. n \in 1 .. UpdateRects /\ n <= v7.count
    BY ONLY <1>1
  <1> HIDE DEF n
  <1>4. CASE n = v7.count
    <2>1. v7' = [open |-> FALSE, read |-> 0, count |-> 0] /\ ~v9'
      BY ONLY <1>1, <1>2, <1>4, <1>3
    <2>2. v7' \in [open : BOOLEAN, read : 0 .. UpdateRects, count : 0 .. UpdateRects + 2]
      BY ONLY <1>1, <2>1
    <2> QED BY <1>2, <2>1, <2>2 DEF Decode!RefusedAtLimit
  <1>5. CASE n # v7.count
    <2>1. /\ v7' \in [open : BOOLEAN, read : 0 .. UpdateRects, count : 0 .. UpdateRects + 2]
          /\ v7'.read = n /\ v7'.count = v7.count
      BY ONLY <1>1, <1>2, <1>3, <1>5
    <2>2. n < v7.count
      BY ONLY <1>1, <1>3, <1>5
    <2>3. v7.count <= UpdateRects \/ v7.count = UpdateRects + 2
      BY ONLY <1>1
    <2>4. v9' => v7'.count > UpdateRects /\ v7'.read = UpdateRects
      BY ONLY <1>1, <1>2, <2>1
    <2>5. ~v9' /\ v7.count = UpdateRects + 2 => n < UpdateRects
      BY ONLY <1>1, <1>2, <1>3
    <2> QED BY <1>1, <1>2, <2>1, <2>2, <2>3, <2>4, <2>5 DEF Decode!RefusedAtLimit
  <1> QED BY <1>4, <1>5

LEMMA DecodeHeader ==
    ASSUME BoundsAssumption, DecodeInv, Decode!Header
    PROVE  DecodeInv'
  <1>1. Decode!Up /\ UNCHANGED <<v1, v2, v3, v4, v5, v6, v8, v10>>
    BY DEF Decode!Header, Decode!clientVars, Decode!serverVars
  <1>2. UpdateRects \in Nat \ {0} /\ Decode!Unknown = UpdateRects + 2 /\ v8 = FALSE
    BY Zenon, <1>1, DecodeUp
  <1>3. PICK count \in 0 .. UpdateRects + 2 :
          /\ v9' \in BOOLEAN /\ (v9' <=> count # UpdateRects + 2 /\ count > UpdateRects)
          /\ v7' = IF count = 0 THEN [open |-> FALSE, read |-> 0, count |-> 0]
                   ELSE [open |-> TRUE, read |-> 0, count |-> count]
    <2>1. (0 .. UpdateRects + 1) \cup {Decode!Unknown} = 0 .. UpdateRects + 2
      BY ONLY <1>2
    <2> QED BY Zenon, <1>2, <2>1 DEF Decode!Header, Decode!Idle
  <1>4. /\ v7' \in [open : BOOLEAN, read : 0 .. UpdateRects, count : 0 .. Decode!Unknown]
        /\ v7'.read = 0 /\ v7'.count = count /\ (v7'.open => count > 0) /\ v9' \in BOOLEAN
    BY ONLY <1>2, <1>3
  <1>5. Decode!TypeOK'
    BY <1>1, <1>4 DEF DecodeInv, Decode!TypeOK
  <1>6. Decode!InStep'
    <2>1. Decode!InStep /\ ~v9
      BY <1>1 DEF DecodeInv, Decode!Up
    <2> QED BY <1>1, <2>1 DEF Decode!InStep
  <1>7. v9' => v7'.count > UpdateRects /\ v7'.count # Decode!Unknown
    BY ONLY <1>2, <1>3, <1>4
  <1>8. ~v9' => v7'.count <= UpdateRects \/ (v7'.count = Decode!Unknown /\ v7'.read < UpdateRects)
    BY ONLY <1>2, <1>3, <1>4
  <1>9. v7'.open => v7'.read < v7'.count
    BY ONLY <1>4
  <1> QED BY <1>5, <1>6, <1>7, <1>8, <1>9 DEF DecodeInv, Decode!RefusedAtLimit

LEMMA DecodeLastRect ==
    ASSUME BoundsAssumption, DecodeInv, Decode!LastRect
    PROVE  DecodeInv'
  <1>1. Decode!Up /\ UNCHANGED <<v1, v2, v3, v4, v5, v6, v8, v9>>
        /\ v7' = [open |-> FALSE, read |-> 0, count |-> 0] /\ v10' = v10 \cup {"lastRect"}
    BY DEF Decode!LastRect, Decode!clientVars, Decode!serverVars, Decode!Idle
  <1>2. UpdateRects \in Nat \ {0} /\ Decode!Unknown = UpdateRects + 2 /\ ~v9
    BY Zenon, <1>1, DecodeUp
  <1>3. v7' \in [open : BOOLEAN, read : 0 .. UpdateRects, count : 0 .. Decode!Unknown]
    BY ONLY <1>1, <1>2
  <1> QED BY <1>1, <1>2, <1>3
      DEF DecodeInv, Decode!TypeOK, Decode!InStep, Decode!RefusedAtLimit

LEMMA DecodeTight ==
    ASSUME BoundsAssumption, DecodeInv, Decode!ReadTight
    PROVE  DecodeInv'
  <1>1. /\ Decode!Up /\ v7.open /\ Decode!CountRect
        /\ UNCHANGED <<v2, v3, v5, v6>>
    BY DEF Decode!ReadTight, Decode!Rectangle
  <1>2. PICK resets \in SUBSET ZlibStreams,
             used \in {{}} \cup {{s} : s \in ZlibStreams},
             kind \in {"fill", "jpeg", "basic"} :
          /\ \A s \in used : s \in resets \/ v4[s] < StreamSegments
          /\ v4' = [s \in ZlibStreams |->
                      (IF s \in resets THEN 0 ELSE v4[s]) + (IF s \in used THEN 1 ELSE 0)]
          /\ v1' = [s \in ZlibStreams |->
                      (IF s \in resets THEN 0 ELSE v1[s]) + (IF s \in used THEN 1 ELSE 0)]
          /\ v8' = (\E s \in used : v1'[s] # v4'[s])
          /\ v10' = v10 \cup {"tight"} \cup (IF kind = "jpeg" THEN {"jpeg"} ELSE {})
    <2>1. \A resets : Decode!ResetStreams(resets) =
                        [s \in ZlibStreams |-> IF s \in resets THEN 0 ELSE v1[s]]
      BY DEF Decode!ResetStreams
    <2>2. \A resets, used : Decode!InflateTight(resets, used) <=>
            v1' = [s \in ZlibStreams |->
                     (IF s \in resets THEN 0 ELSE v1[s]) + (IF s \in used THEN 1 ELSE 0)]
      BY <2>1 DEF Decode!InflateTight
    <2> QED BY ONLY Zenon, <2>2, Decode!ReadTight DEF Decode!ReadTight, Decode!EncodeTight
  <1>3. /\ v4 = v1 /\ v1 \in [ZlibStreams -> 0 .. StreamSegments]
        /\ StreamSegments \in Nat \ {0} /\ v9 = FALSE /\ Decode!Unknown = UpdateRects + 2
        /\ v10 \subseteq {"tight", "jpeg", "h264", "lastRect"}
        /\ v2 = v5 /\ v3 = v6
    BY Zenon, <1>1, DecodeUp
  <1>4. v1' = v4' /\ v8' = FALSE
    BY ONLY <1>2, <1>3
  <1>5. v1' \in [ZlibStreams -> 0 .. StreamSegments]
    <2>1. ASSUME NEW s \in ZlibStreams
          PROVE  (IF s \in resets THEN 0 ELSE v1[s]) + (IF s \in used THEN 1 ELSE 0)
                    \in 0 .. StreamSegments
      <3>1. v1[s] \in 0 .. StreamSegments
        BY ONLY <1>3, <2>1
      <3>2. s \in used => s \in resets \/ v1[s] < StreamSegments
        BY ONLY <1>2, <1>3
      <3> QED BY ONLY <1>3, <3>1, <3>2
    <2> QED BY ONLY <1>2, <2>1
  <1>6. v10' \subseteq {"tight", "jpeg", "h264", "lastRect"}
    BY ONLY <1>2, <1>3
  <1>7. Decode!TypeOK'
    BY Zenon, <1>1, <1>3, <1>4, <1>5, <1>6, DecodeCounts DEF DecodeInv, Decode!TypeOK,
       Decode!Positions
  <1>8. Decode!InStep'
    BY <1>1, <1>3, <1>4 DEF Decode!InStep
  <1> QED BY <1>1, <1>7, <1>8, DecodeCounts DEF DecodeInv

LEMMA DecodeZrle ==
    ASSUME BoundsAssumption, DecodeInv, Decode!ReadZrle
    PROVE  DecodeInv'
  <1>1. /\ Decode!Up /\ v7.open /\ Decode!CountRect
        /\ UNCHANGED <<v1, v3, v4, v6, v10>>
        /\ v5 < StreamSegments /\ v5' = v5 + 1 /\ v2' = v2 + 1 /\ v8' = (v2' # v5')
    BY DEF Decode!ReadZrle, Decode!Rectangle
  <1>2. /\ v2 = v5 /\ v5 \in 0 .. StreamSegments /\ StreamSegments \in Nat \ {0}
        /\ v1 = v4 /\ v3 = v6 /\ v9 = FALSE /\ Decode!Unknown = UpdateRects + 2
    BY Zenon, <1>1, DecodeUp
  <1>3. v2' = v5' /\ v5' \in 0 .. StreamSegments /\ v8' = FALSE
    <2>1. v2' = v5'
      BY ONLY <1>1, <1>2
    <2>2. v8' = FALSE
      BY ONLY Zenon, <1>1, <2>1
    <2>3. v5 + 1 \in 0 .. StreamSegments
      BY ONLY <1>1, <1>2
    <2> QED BY ONLY <1>1, <2>1, <2>2, <2>3
  <1>4. Decode!TypeOK'
    BY <1>1, <1>2, <1>3, DecodeCounts DEF DecodeInv, Decode!TypeOK, Decode!Positions
  <1>5. Decode!InStep'
    BY <1>1, <1>2, <1>3 DEF Decode!InStep
  <1> QED BY <1>1, <1>4, <1>5, DecodeCounts DEF DecodeInv

LEMMA DecodeStateless ==
    ASSUME BoundsAssumption, DecodeInv, Decode!ReadStateless
    PROVE  DecodeInv'
  <1>1. /\ Decode!Up /\ v7.open /\ Decode!CountRect
        /\ UNCHANGED <<v1, v2, v3, v4, v5, v6, v8, v10>>
    BY DEF Decode!ReadStateless, Decode!clientVars, Decode!serverVars
  <1>2. v1 = v4 /\ v2 = v5 /\ v3 = v6 /\ v8 = FALSE /\ Decode!Unknown = UpdateRects + 2
    BY Zenon, <1>1, DecodeUp
  <1>3. Decode!TypeOK'
    BY <1>1, <1>2, DecodeCounts DEF DecodeInv, Decode!TypeOK, Decode!Positions
  <1>4. Decode!InStep'
    BY <1>1, <1>2 DEF Decode!InStep
  <1> QED BY <1>1, <1>3, <1>4, DecodeCounts DEF DecodeInv

\* A server that keeps to the client's number of contexts never has the client open one
\* too many: before the data the client has the contexts that the server has.
LEMMA DecodeH264 ==
    ASSUME BoundsAssumption, DecodeInv, Decode!ReadH264
    PROVE  DecodeInv'
  <1>1. /\ Decode!Up /\ v7.open
        /\ UNCHANGED <<v1, v2, v4, v5>>
        /\ v7' = IF v7.read + 1 = v7.count THEN [open |-> FALSE, read |-> 0, count |-> 0]
                 ELSE [v7 EXCEPT !.read = @ + 1]
        /\ v10' = v10 \cup {"h264"}
    BY DEF Decode!ReadH264, Decode!Rectangle, Decode!Idle
  <1>2. PICK place \in H264Places, reset \in SUBSET {"this", "all"}, data \in BOOLEAN :
          /\ data /\ reset = {} => v6[place] < StreamSegments
          /\ Decode!EncodeH264(place, reset, data)
          /\ Decode!Contexts(v6') <= H264Contexts
          /\ Decode!DecodePayload(place, reset, data)
          /\ v8' = (data /\ v3'[place] # v6'[place])
          /\ v9' = (data /\ Decode!KeptContexts(place, reset)[place] = 0
                         /\ Decode!Contexts(Decode!KeptContexts(place, reset)) >= H264Contexts)
    BY DEF Decode!ReadH264
  <1> DEFINE kept == Decode!KeptContexts(place, reset)
  <1>3. /\ UpdateRects \in Nat \ {0} /\ StreamSegments \in Nat \ {0} /\ H264Contexts \in Nat \ {0}
        /\ IsFiniteSet(H264Places) /\ Decode!Unknown = UpdateRects + 2
        /\ v3 \in [H264Places -> 0 .. StreamSegments] /\ v6 = v3
        /\ v1 = v4 /\ v2 = v5 /\ v8 = FALSE /\ v9 = FALSE
        /\ v7 \in [open : BOOLEAN, read : 0 .. UpdateRects, count : 0 .. UpdateRects + 2]
        /\ v7.read \in 0 .. UpdateRects /\ v7.count \in 0 .. UpdateRects + 2
        /\ v10 \subseteq {"tight", "jpeg", "h264", "lastRect"}
        /\ v7.read < v7.count
        /\ \/ v7.count <= UpdateRects
           \/ v7.count = UpdateRects + 2 /\ v7.read < UpdateRects
    BY Zenon, <1>1, DecodeUp
  <1>4. kept = [p \in H264Places |->
                  IF "all" \in reset \/ (p = place /\ "this" \in reset) THEN 0 ELSE v3[p]]
    BY DEF Decode!KeptContexts
  <1>5. v3' = IF data THEN [kept EXCEPT ![place] = @ + 1] ELSE kept
    BY <1>2 DEF Decode!DecodePayload
  <1>6. v6' = [p \in H264Places |->
                 IF p = place THEN (IF reset = {} THEN v3[p] ELSE 0) + (IF data THEN 1 ELSE 0)
                 ELSE IF "all" \in reset THEN 0 ELSE v3[p]]
    BY <1>2, <1>3 DEF Decode!EncodeH264
  <1> HIDE DEF kept
  <1>7. /\ reset = {} \/ "all" \in reset \/ "this" \in reset
        /\ kept \in [H264Places -> 0 .. StreamSegments]
        /\ (data => kept[place] < StreamSegments)
    BY ONLY <1>2, <1>3, <1>4
  <1>8. v3' = v6'
    <2>1. kept[place] = IF reset = {} THEN v3[place] ELSE 0
      BY ONLY <1>2, <1>3, <1>4, <1>7
    <2>2. v3[place] \in 0 .. StreamSegments
      BY ONLY <1>2, <1>3
    <2>3. v3' = [p \in H264Places |-> IF p = place THEN kept[p] + (IF data THEN 1 ELSE 0) ELSE kept[p]]
      <3>1. kept = [p \in H264Places |-> kept[p]]
        BY ONLY <1>7
      <3>2. \A p \in H264Places : kept[p] + 0 = kept[p]
        BY ONLY <1>3, <1>7
      <3> QED BY ONLY <1>2, <1>5, <3>1, <3>2
    <2> QED BY ONLY <1>4, <1>6, <1>7, <2>1, <2>2, <2>3
  <1>9. v3' \in [H264Places -> 0 .. StreamSegments]
    BY ONLY <1>2, <1>3, <1>5, <1>7
  <1>10. v9' = FALSE
    <2>1. SUFFICES ASSUME data, kept[place] = 0 PROVE ~(Decode!Contexts(kept) >= H264Contexts)
      BY Zenon, <1>2 DEF kept
    <2> DEFINE had == {p \in H264Places : kept[p] > 0}
               has == {p \in H264Places : v6'[p] > 0}
    <2>2. has = had \cup {place} /\ place \notin had
      <3>1. kept \in [H264Places -> Nat] /\ v3' = [kept EXCEPT ![place] = @ + 1]
        BY ONLY <1>2, <1>3, <1>5, <1>7, <2>1
      <3>2. \A p \in H264Places : p # place => v3'[p] = kept[p]
        BY ONLY <3>1
      <3>3. v3'[place] = 0 + 1
        BY ONLY <1>2, <2>1, <3>1
      <3>4. v3'[place] > 0 /\ ~(kept[place] > 0)
        BY ONLY <2>1, <3>3
      <3> QED BY ONLY <1>2, <1>8, <3>2, <3>4
    <2>3. IsFiniteSet(had)
      BY ONLY <1>3, FS_Subset
    <2>4. Cardinality(has) = Cardinality(had) + 1 /\ Cardinality(had) \in Nat
      BY ONLY Zenon, <2>2, <2>3, FS_AddElement, FS_CardinalityType
    <2>5. Decode!Contexts(kept) = Cardinality(had) /\ Decode!Contexts(v6') = Cardinality(has)
      BY DEF Decode!Contexts, Decode!Cardinality, Cardinality, Decode!IsFiniteSet, IsFiniteSet
    <2> QED BY ONLY <1>2, <1>3, <2>4, <2>5
  <1>11. v8' = FALSE
    BY ONLY Zenon, <1>2, <1>8
  <1>12. /\ v7' \in [open : BOOLEAN, read : 0 .. UpdateRects, count : 0 .. UpdateRects + 2]
         /\ v7'.open => /\ v7'.read < v7'.count
                        /\ \/ v7'.count <= UpdateRects
                           \/ v7'.count = Decode!Unknown /\ v7'.read < UpdateRects
    <2>1. CASE v7.read + 1 = v7.count
      BY ONLY <1>1, <1>3, <2>1
    <2>2. CASE v7.read + 1 # v7.count
      <3>1. v7' = [v7 EXCEPT !.read = v7.read + 1] /\ v7.read + 1 < v7.count
            /\ v7.read + 1 \in 0 .. UpdateRects
        BY ONLY <1>1, <1>3, <2>2
      <3>2. v7' \in [open : BOOLEAN, read : 0 .. UpdateRects, count : 0 .. UpdateRects + 2]
            /\ v7'.read = v7.read + 1 /\ v7'.count = v7.count
        BY ONLY <1>3, <3>1
      <3>3. v7.count = UpdateRects + 2 => v7.read + 1 < UpdateRects
        <4>1. Decode!Rectangle
          BY DEF Decode!ReadH264
        <4> QED BY ONLY <1>3, <4>1 DEF Decode!Rectangle
      <3> QED BY ONLY <1>3, <3>1, <3>2, <3>3
    <2> QED BY <2>1, <2>2
  <1>13. Decode!TypeOK'
    BY Zenon, <1>1, <1>3, <1>8, <1>9, <1>10, <1>11, <1>12 DEF DecodeInv, Decode!TypeOK,
       Decode!Positions
  <1> QED BY <1>1, <1>3, <1>8, <1>10, <1>11, <1>12, <1>13
      DEF DecodeInv, Decode!InStep, Decode!RefusedAtLimit

LEMMA DecodeSteps ==
    ASSUME BoundsAssumption, DecodeInv, Decode!Next
    PROVE  DecodeInv'
  BY DecodeHeader, DecodeLastRect, DecodeTight, DecodeZrle, DecodeH264, DecodeStateless
  DEF Decode!Next

-----------------------------------------------------------------------------
(* The framebuffer.  It is v1, what the update being applied changes of it    *)
(* v2, and the framebuffer that the host was last sent any of v7.             *)

LEMMA LeastIs ==
    ASSUME NEW T, T \subseteq Nat, T # {}
    PROVE  \E m \in T : \A k \in T : m <= k
  <1>1. PICK m \in T : \A k \in T : ~ (<<k, m>> \in OpToRel(<, Nat))
    BY Zenon, WFMin, NatLessThanWellFounded
  <1>2. ASSUME NEW k \in T
        PROVE  m <= k
    <2>1. ~ (k < m)
      BY Zenon, <1>1 DEF OpToRel
    <2> QED BY ONLY <2>1, k \in T, m \in T, T \subseteq Nat
  <1> QED BY <1>2

LEMMA GreatestIs ==
    ASSUME NEW n \in Nat, NEW T, T \subseteq 1 .. n, T # {}
    PROVE  \E m \in T : \A k \in T : k <= m
  <1> DEFINE U == {n - k : k \in T}
  <1>1. U \subseteq Nat /\ U # {}
    <2>1. ASSUME NEW k \in T PROVE n - k \in Nat
      OBVIOUS
    <2>2. \E k \in T : TRUE
      OBVIOUS
    <2> QED BY ONLY Zenon, <2>1, <2>2
  <1>2. PICK u \in U : \A k \in U : u <= k
    BY ONLY Zenon, <1>1, LeastIs
  <1>3. PICK m \in T : u = n - m
    BY <1>2
  <1>4. ASSUME NEW k \in T PROVE k <= m
    <2>1. n - m <= n - k
      BY Zenon, <1>2, <1>3
    <2> QED BY <2>1
  <1> QED BY <1>4

\* A rectangle on the way: no sides are empty.
Rectangles == [x : Nat, y : Nat, w : Nat \ {0}, h : Nat \ {0}]

LEMMA AreaIs ==
    ASSUME NEW r \in Rectangles
    PROVE  /\ r.x \in Nat /\ r.y \in Nat /\ r.w \in Nat \ {0} /\ r.h \in Nat \ {0}
           /\ Framebuffer!Area(r) \subseteq Nat \X Nat
           /\ \A p, q \in Nat : <<p, q>> \in Framebuffer!Area(r)
                 <=> r.x <= p /\ p < r.x + r.w /\ r.y <= q /\ q < r.y + r.h
           /\ <<r.x, r.y>> \in Framebuffer!Area(r)
           /\ <<r.x + r.w - 1, r.y + r.h - 1>> \in Framebuffer!Area(r)
  <1>1. r.x \in Nat /\ r.y \in Nat /\ r.w \in Nat \ {0} /\ r.h \in Nat \ {0}
    BY DEF Rectangles
  <1>2. /\ r.x .. r.x + r.w - 1 \subseteq Nat /\ r.y .. r.y + r.h - 1 \subseteq Nat
        /\ \A p \in Nat : p \in r.x .. r.x + r.w - 1 <=> r.x <= p /\ p < r.x + r.w
        /\ \A q \in Nat : q \in r.y .. r.y + r.h - 1 <=> r.y <= q /\ q < r.y + r.h
        /\ r.x \in r.x .. r.x + r.w - 1 /\ r.x + r.w - 1 \in r.x .. r.x + r.w - 1
        /\ r.y \in r.y .. r.y + r.h - 1 /\ r.y + r.h - 1 \in r.y .. r.y + r.h - 1
    BY ONLY <1>1
  <1> QED BY ONLY <1>1, <1>2 DEF Framebuffer!Area

LEMMA LeastMost ==
    ASSUME NEW a \in Nat, NEW b \in Nat
    PROVE  /\ Framebuffer!Least(a, b) \in {a, b} /\ Framebuffer!Most(a, b) \in {a, b}
           /\ Framebuffer!Least(a, b) <= a /\ Framebuffer!Least(a, b) <= b
           /\ a <= Framebuffer!Most(a, b) /\ b <= Framebuffer!Most(a, b)
  BY DEF Framebuffer!Least, Framebuffer!Most

\* The union is the smallest rectangle around both.
LEMMA UnionIs ==
    ASSUME NEW a \in Rectangles, NEW b \in Rectangles
    PROVE  LET u == Framebuffer!Union(a, b) IN
           /\ u \in Rectangles
           /\ u.x \in {a.x, b.x} /\ u.x <= a.x /\ u.x <= b.x
           /\ u.y \in {a.y, b.y} /\ u.y <= a.y /\ u.y <= b.y
           /\ u.x + u.w \in {a.x + a.w, b.x + b.w}
           /\ a.x + a.w <= u.x + u.w /\ b.x + b.w <= u.x + u.w
           /\ u.y + u.h \in {a.y + a.h, b.y + b.h}
           /\ a.y + a.h <= u.y + u.h /\ b.y + b.h <= u.y + u.h
  <1> DEFINE x == Framebuffer!Least(a.x, b.x)  y == Framebuffer!Least(a.y, b.y)
             right == Framebuffer!Most(a.x + a.w, b.x + b.w)
             low == Framebuffer!Most(a.y + a.h, b.y + b.h)
             u == Framebuffer!Union(a, b)
  <1>1. /\ a.x \in Nat /\ a.y \in Nat /\ a.w \in Nat \ {0} /\ a.h \in Nat \ {0}
        /\ b.x \in Nat /\ b.y \in Nat /\ b.w \in Nat \ {0} /\ b.h \in Nat \ {0}
    BY DEF Rectangles
  <1>2. u = [x |-> x, y |-> y, w |-> right - x, h |-> low - y]
    BY DEF Framebuffer!Union
  <1>3. x \in {a.x, b.x} /\ x <= a.x /\ x <= b.x /\ y \in {a.y, b.y} /\ y <= a.y /\ y <= b.y
    BY ONLY <1>1, LeastMost
  <1>4. /\ a.x + a.w \in Nat /\ b.x + b.w \in Nat /\ a.y + a.h \in Nat /\ b.y + b.h \in Nat
    BY ONLY <1>1
  <1>5. /\ right \in {a.x + a.w, b.x + b.w} /\ a.x + a.w <= right /\ b.x + b.w <= right
        /\ low \in {a.y + a.h, b.y + b.h} /\ a.y + a.h <= low /\ b.y + b.h <= low
    BY ONLY <1>4, LeastMost
  <1> HIDE DEF x, y, right, low, u
  <1>6. /\ x \in Nat /\ y \in Nat /\ right \in Nat /\ low \in Nat
        /\ right - x \in Nat \ {0} /\ low - y \in Nat \ {0}
        /\ x + (right - x) = right /\ y + (low - y) = low
    <2>1. x \in Nat /\ y \in Nat
      BY ONLY <1>1, <1>3
    <2>2. right \in Nat /\ low \in Nat
      BY ONLY <1>4, <1>5
    <2>3. x <= a.x /\ a.x < a.x + a.w /\ a.x + a.w <= right
      BY ONLY <1>1, <1>3, <1>5
    <2>4. y <= a.y /\ a.y < a.y + a.h /\ a.y + a.h <= low
      BY ONLY <1>1, <1>3, <1>5
    <2>5. x < right /\ y < low
      BY ONLY <1>1, <2>1, <2>2, <2>3, <2>4
    <2> QED BY ONLY <2>1, <2>2, <2>5
  <1>7. u \in Rectangles /\ u.x = x /\ u.y = y /\ u.w = right - x /\ u.h = low - y
    BY ONLY <1>2, <1>6 DEF Rectangles
  <1>8. u.x + u.w = right /\ u.y + u.h = low
    BY ONLY <1>6, <1>7
  <1> QED BY ONLY <1>3, <1>5, <1>7, <1>8 DEF u

LEMMA Inside ==
    ASSUME NEW a \in Rectangles, NEW b \in Rectangles
    PROVE  Framebuffer!Area(a) \subseteq Framebuffer!Area(b)
             <=> /\ b.x <= a.x /\ a.x + a.w <= b.x + b.w
                 /\ b.y <= a.y /\ a.y + a.h <= b.y + b.h
  <1>1. /\ a.x \in Nat /\ a.y \in Nat /\ a.w \in Nat \ {0} /\ a.h \in Nat \ {0}
        /\ b.x \in Nat /\ b.y \in Nat /\ b.w \in Nat \ {0} /\ b.h \in Nat \ {0}
    BY Zenon, AreaIs
  <1>2. ASSUME Framebuffer!Area(a) \subseteq Framebuffer!Area(b)
        PROVE  /\ b.x <= a.x /\ a.x + a.w <= b.x + b.w
               /\ b.y <= a.y /\ a.y + a.h <= b.y + b.h
    <2>1. /\ <<a.x, a.y>> \in Framebuffer!Area(b)
          /\ <<a.x + a.w - 1, a.y + a.h - 1>> \in Framebuffer!Area(b)
      BY <1>2, AreaIs
    <2>2. a.x + a.w - 1 \in Nat /\ a.y + a.h - 1 \in Nat
      BY ONLY <1>1
    <2>3. /\ b.x <= a.x /\ b.y <= a.y
          /\ a.x + a.w - 1 < b.x + b.w /\ a.y + a.h - 1 < b.y + b.h
      BY ONLY Zenon, <1>1, <2>1, <2>2, AreaIs, b \in Rectangles
    <2> QED BY ONLY <1>1, <2>3
  <1>3. ASSUME b.x <= a.x, a.x + a.w <= b.x + b.w, b.y <= a.y, a.y + a.h <= b.y + b.h
        PROVE  Framebuffer!Area(a) \subseteq Framebuffer!Area(b)
    <2>1. /\ a.x .. a.x + a.w - 1 \subseteq b.x .. b.x + b.w - 1
          /\ a.y .. a.y + a.h - 1 \subseteq b.y .. b.y + b.h - 1
      BY ONLY <1>1, <1>3
    <2> QED BY ONLY <2>1 DEF Framebuffer!Area
  <1> QED BY <1>2, <1>3

LEMMA Within ==
    ASSUME NEW a \in Rectangles, NEW n \in Nat, NEW m \in Nat
    PROVE  Framebuffer!Area(a) \subseteq Framebuffer!Pixels(<<n, m>>)
             <=> a.x + a.w <= n /\ a.y + a.h <= m
  <1>1. a.x \in Nat /\ a.y \in Nat /\ a.w \in Nat \ {0} /\ a.h \in Nat \ {0}
    BY Zenon, AreaIs
  <1>2. ASSUME Framebuffer!Area(a) \subseteq Framebuffer!Pixels(<<n, m>>)
        PROVE  a.x + a.w <= n /\ a.y + a.h <= m
    <2>1. <<a.x + a.w - 1, a.y + a.h - 1>> \in Framebuffer!Pixels(<<n, m>>)
      BY Zenon, <1>2, AreaIs
    <2>2. a.x + a.w - 1 \in 0 .. n - 1 /\ a.y + a.h - 1 \in 0 .. m - 1
      BY ONLY <2>1 DEF Framebuffer!Pixels
    <2> QED BY ONLY <1>1, <2>2, n \in Nat, m \in Nat
  <1>3. ASSUME a.x + a.w <= n, a.y + a.h <= m
        PROVE  Framebuffer!Area(a) \subseteq Framebuffer!Pixels(<<n, m>>)
    <2>1. a.x .. a.x + a.w - 1 \subseteq 0 .. n - 1 /\ a.y .. a.y + a.h - 1 \subseteq 0 .. m - 1
      BY ONLY <1>1, <1>3, n \in Nat, m \in Nat
    <2> QED BY ONLY <2>1 DEF Framebuffer!Pixels, Framebuffer!Area
  <1> QED BY <1>2, <1>3

LEMMA UnionCovers ==
    ASSUME NEW a \in Rectangles, NEW b \in Rectangles
    PROVE  LET u == Framebuffer!Union(a, b) IN
           /\ u \in Rectangles
           /\ Framebuffer!Area(a) \subseteq Framebuffer!Area(u)
           /\ Framebuffer!Area(b) \subseteq Framebuffer!Area(u)
           /\ \A n, m \in Nat :
                /\ Framebuffer!Area(a) \subseteq Framebuffer!Pixels(<<n, m>>)
                /\ Framebuffer!Area(b) \subseteq Framebuffer!Pixels(<<n, m>>)
                => Framebuffer!Area(u) \subseteq Framebuffer!Pixels(<<n, m>>)
           /\ Framebuffer!Area(a) \subseteq Framebuffer!Area(b)
                => Framebuffer!Area(u) \subseteq Framebuffer!Area(b)
           /\ Framebuffer!Area(b) \subseteq Framebuffer!Area(a)
                => Framebuffer!Area(u) \subseteq Framebuffer!Area(a)
  <1> DEFINE u == Framebuffer!Union(a, b)
  <1>1. /\ u \in Rectangles
        /\ u.x \in {a.x, b.x} /\ u.x <= a.x /\ u.x <= b.x
        /\ u.y \in {a.y, b.y} /\ u.y <= a.y /\ u.y <= b.y
        /\ u.x + u.w \in {a.x + a.w, b.x + b.w}
        /\ a.x + a.w <= u.x + u.w /\ b.x + b.w <= u.x + u.w
        /\ u.y + u.h \in {a.y + a.h, b.y + b.h}
        /\ a.y + a.h <= u.y + u.h /\ b.y + b.h <= u.y + u.h
    BY UnionIs
  <1> HIDE DEF u
  <1>2. /\ a.x \in Nat /\ a.y \in Nat /\ a.w \in Nat \ {0} /\ a.h \in Nat \ {0}
        /\ b.x \in Nat /\ b.y \in Nat /\ b.w \in Nat \ {0} /\ b.h \in Nat \ {0}
    BY Zenon, AreaIs
  <1>3. /\ Framebuffer!Area(a) \subseteq Framebuffer!Area(u)
        /\ Framebuffer!Area(b) \subseteq Framebuffer!Area(u)
    BY ONLY <1>1, Inside, a \in Rectangles, b \in Rectangles
  <1>4. ASSUME NEW n \in Nat, NEW m \in Nat,
               Framebuffer!Area(a) \subseteq Framebuffer!Pixels(<<n, m>>),
               Framebuffer!Area(b) \subseteq Framebuffer!Pixels(<<n, m>>)
        PROVE  Framebuffer!Area(u) \subseteq Framebuffer!Pixels(<<n, m>>)
    <2>1. a.x + a.w <= n /\ a.y + a.h <= m /\ b.x + b.w <= n /\ b.y + b.h <= m
      BY <1>4, Within
    <2>2. u.x + u.w <= n /\ u.y + u.h <= m
      BY ONLY <1>1, <2>1
    <2> QED BY ONLY <1>1, <2>2, Within, n \in Nat, m \in Nat
  <1>5. ASSUME Framebuffer!Area(a) \subseteq Framebuffer!Area(b)
        PROVE  Framebuffer!Area(u) \subseteq Framebuffer!Area(b)
    <2>1. /\ b.x <= a.x /\ a.x + a.w <= b.x + b.w
          /\ b.y <= a.y /\ a.y + a.h <= b.y + b.h
      BY <1>5, Inside
    <2>2. /\ b.x <= u.x /\ u.x + u.w <= b.x + b.w
          /\ b.y <= u.y /\ u.y + u.h <= b.y + b.h
      BY ONLY <1>1, <1>2, <2>1
    <2> QED BY ONLY <1>1, <2>2, Inside, b \in Rectangles
  <1>6. ASSUME Framebuffer!Area(b) \subseteq Framebuffer!Area(a)
        PROVE  Framebuffer!Area(u) \subseteq Framebuffer!Area(a)
    <2>1. /\ a.x <= b.x /\ b.x + b.w <= a.x + a.w
          /\ a.y <= b.y /\ b.y + b.h <= a.y + a.h
      BY <1>6, Inside
    <2>2. /\ a.x <= u.x /\ u.x + u.w <= a.x + a.w
          /\ a.y <= u.y /\ u.y + u.h <= a.y + a.h
      BY ONLY <1>1, <1>2, <2>1
    <2> QED BY ONLY <1>1, <2>2, Inside, a \in Rectangles
  <1> QED BY ONLY <1>1, <1>3, <1>4, <1>5, <1>6 DEF u

\* The updates: a rectangle and its pixels.
FrameUpdates == UNION {[rect : {r}, bytes : [Framebuffer!Area(r) -> Nat]] : r \in Rectangles}

LEMMA UpdateIs ==
    /\ \A u \in FrameUpdates : /\ u.rect \in Rectangles
                               /\ u.bytes \in [Framebuffer!Area(u.rect) -> Nat]
    /\ \A r \in Rectangles : \A b \in [Framebuffer!Area(r) -> Nat] :
         [rect |-> r, bytes |-> b] \in FrameUpdates
  BY DEF FrameUpdates

\* One of the updates over the pixel has its colour.
Covers(updates, p, bgra) ==
    \E i \in DOMAIN updates : /\ p \in Framebuffer!Area(updates[i].rect)
                              /\ updates[i].bytes[p] = bgra[p]

\* The updates lie within the framebuffer, and each pixel of theirs is covered.
Faithful(updates, size, bgra) ==
    \A i \in DOMAIN updates :
       /\ Framebuffer!Area(updates[i].rect) \subseteq Framebuffer!Pixels(size)
       /\ \A p \in Framebuffer!Area(updates[i].rect) : Covers(updates, p, bgra)

\* Elements of s, with any that is at i but no other left out.
LEMMA SwapRemoveIs ==
    ASSUME NEW S, NEW s \in Seq(S), NEW i \in DOMAIN s
    PROVE  LET t == Framebuffer!SwapRemove(s, i) IN
           /\ t \in Seq(S) /\ Len(t) = Len(s) - 1 /\ DOMAIN t = 1 .. Len(s) - 1
           /\ \A k \in DOMAIN t : \E j \in DOMAIN s : t[k] = s[j]
           /\ \A j \in DOMAIN s : j # i => \E k \in DOMAIN t : t[k] = s[j]
           /\ \A j \in DOMAIN t : j < i => t[j] = s[j]
  <1> DEFINE n == Len(s)
             e == [s EXCEPT ![i] = s[n]]
             t == Framebuffer!SwapRemove(s, i)
  <1>1. n \in Nat \ {0} /\ DOMAIN s = 1 .. n /\ i \in 1 .. n /\ n \in DOMAIN s /\ s[n] \in S
        /\ i \in Nat
    OBVIOUS
  <1>2. /\ e \in Seq(S) /\ Len(e) = n /\ DOMAIN e = 1 .. n
        /\ e[i] = s[n] /\ \A j \in 1 .. n : j # i => e[j] = s[j]
    BY <1>1, ExceptSeq
  <1>3. t = SubSeq(e, 1, n - 1)
    BY DEF Framebuffer!SwapRemove
  <1> HIDE DEF n, e, t
  <1>4. /\ t \in Seq(S) /\ Len(t) = n - 1
        /\ \A k \in 1 .. n - 1 : t[k] = e[k]
    <2>1. \A k \in 1 .. Len(e) + 1 : n - 1 \in 0 .. Len(e) /\ 1 \in 1 .. Len(e) + 1
      BY ONLY <1>1, <1>2
    <2>2. 1 \in 1 .. Len(e) + 1 /\ n - 1 \in 1 - 1 .. Len(e)
      BY ONLY <1>1, <1>2
    <2>3. /\ SubSeq(e, 1, n - 1) \in Seq(S)
          /\ Len(SubSeq(e, 1, n - 1)) = IF 1 <= n - 1 THEN n - 1 - 1 + 1 ELSE 0
          /\ \A k \in 1 .. n - 1 - 1 + 1 : SubSeq(e, 1, n - 1)[k] = e[1 + k - 1]
      BY ONLY <1>2, <2>2, SubSeqProperties
    <2>4. n - 1 - 1 + 1 = n - 1 /\ (~(1 <= n - 1) => n - 1 = 0)
          /\ \A k \in 1 .. n - 1 : 1 + k - 1 = k
      BY ONLY <1>1
    <2> QED BY ONLY <1>3, <2>3, <2>4
  <1>5. DOMAIN t = 1 .. n - 1
    BY ONLY <1>4
  <1>6. ASSUME NEW k \in DOMAIN t PROVE \E j \in DOMAIN s : t[k] = s[j]
    <2>1. k \in 1 .. n /\ t[k] = e[k]
      BY ONLY <1>1, <1>4, <1>5, <1>6
    <2> QED BY ONLY <1>1, <1>2, <2>1
  <1>7. ASSUME NEW j \in DOMAIN s, j # i PROVE \E k \in DOMAIN t : t[k] = s[j]
    <2>1. CASE j = n
      <3>1. i \in 1 .. n - 1
        BY ONLY <1>1, <1>7, <2>1
      <3> QED BY ONLY <1>2, <1>4, <1>5, <2>1, <3>1
    <2>2. CASE j # n
      <3>1. j \in 1 .. n - 1 /\ j \in 1 .. n
        BY ONLY <1>1, <1>7, <2>2
      <3> QED BY ONLY <1>2, <1>4, <1>5, <1>7, <3>1
    <2> QED BY <2>1, <2>2
  <1>8. ASSUME NEW j \in DOMAIN t, j < i PROVE t[j] = s[j]
    <2>1. j \in 1 .. n /\ j # i
      BY ONLY <1>1, <1>5, <1>8
    <2> QED BY ONLY <1>2, <1>4, <1>5, <1>8, <2>1
  <1> QED BY ONLY <1>4, <1>5, <1>6, <1>7, <1>8 DEF n, t

\* The pair that gives way exists, and is a pair.
LEMMA SmallestUnionIs ==
    ASSUME NEW us \in Seq(FrameUpdates), Len(us) >= 2
    PROVE  LET p == Framebuffer!SmallestUnion(us) IN
           p[1] \in DOMAIN us /\ p[2] \in DOMAIN us /\ p[1] < p[2]
  <1> DEFINE pairs == {p \in (DOMAIN us) \X (DOMAIN us) : p[1] < p[2]}
             Cost(i, j) == Framebuffer!Inflation(us, i, j)
             Best(p, q) ==
                LET ip == Framebuffer!Inflation(us, p[1], p[2])
                    iq == Framebuffer!Inflation(us, q[1], q[2])
                IN ip < iq \/ (ip = iq /\ (p[1] < q[1] \/ (p[1] = q[1] /\ p[2] <= q[2])))
  <1>1. DOMAIN us = 1 .. Len(us) /\ Len(us) \in Nat
    OBVIOUS
  <1>2. ASSUME NEW i \in DOMAIN us, NEW j \in DOMAIN us PROVE Cost(i, j) \in Nat
    <2>1. us[i] \in FrameUpdates /\ us[j] \in FrameUpdates
      BY <1>2
    <2>2. us[i].rect \in Rectangles /\ us[j].rect \in Rectangles
      BY <2>1, UpdateIs
    <2>3. Framebuffer!Union(us[i].rect, us[j].rect) \in Rectangles
      BY <2>2, UnionCovers
    <2>4. \A r \in Rectangles : Framebuffer!Count(r) \in Nat
      BY DEF Rectangles, Framebuffer!Count
    <2>5. \A a \in Int : Framebuffer!Most(0, a) \in Nat
      BY DEF Framebuffer!Most
    <2>6. ASSUME NEW a \in Nat, NEW b \in Nat, NEW c \in Nat
          PROVE  a - b - c \in Int
      OBVIOUS
    <2> QED BY ONLY Zenon, <2>2, <2>3, <2>4, <2>5, <2>6 DEF Framebuffer!Inflation, Cost
  <1>3. <<1, 2>> \in pairs
    BY <1>1
  <1> HIDE DEF Cost
  <1>4. PICK m \in {Cost(p[1], p[2]) : p \in pairs} :
          \A k \in {Cost(p[1], p[2]) : p \in pairs} : m <= k
    <2>1. {Cost(p[1], p[2]) : p \in pairs} # {}
      BY <1>3
    <2>2. {Cost(p[1], p[2]) : p \in pairs} \subseteq Nat
      BY <1>2
    <2> QED BY ONLY Zenon, <2>1, <2>2, LeastIs
  <1>5. PICK i \in {p[1] : p \in {p \in pairs : Cost(p[1], p[2]) = m}} :
          \A k \in {p[1] : p \in {p \in pairs : Cost(p[1], p[2]) = m}} : i <= k
    <2>1. {p[1] : p \in {p \in pairs : Cost(p[1], p[2]) = m}} # {}
      BY SMTT(20), <1>4
    <2>2. {p[1] : p \in {p \in pairs : Cost(p[1], p[2]) = m}} \subseteq Nat
      BY <1>1
    <2> QED BY ONLY Zenon, <2>1, <2>2, LeastIs
  <1>6. PICK j \in {p[2] : p \in {p \in pairs : Cost(p[1], p[2]) = m /\ p[1] = i}} :
          \A k \in {p[2] : p \in {p \in pairs : Cost(p[1], p[2]) = m /\ p[1] = i}} : j <= k
    <2>1. {p[2] : p \in {p \in pairs : Cost(p[1], p[2]) = m /\ p[1] = i}} # {}
      BY <1>5
    <2>2. {p[2] : p \in {p \in pairs : Cost(p[1], p[2]) = m /\ p[1] = i}} \subseteq Nat
      BY <1>1
    <2> QED BY ONLY Zenon, <2>1, <2>2, LeastIs
  <1>7. <<i, j>> \in pairs /\ Cost(i, j) = m
    BY <1>6
  <1>8. ASSUME NEW q \in pairs
        PROVE  Best(<<i, j>>, q)
    <2>1. /\ m \in Nat /\ Cost(q[1], q[2]) \in Nat /\ m <= Cost(q[1], q[2])
          /\ i \in Nat /\ j \in Nat /\ q[1] \in Nat /\ q[2] \in Nat
      <3>1. q \in (1 .. Len(us)) \X (1 .. Len(us)) /\ <<i, j>> \in (1 .. Len(us)) \X (1 .. Len(us))
        BY <1>1, <1>7, <1>8
      <3>2. /\ q[1] \in Nat /\ q[2] \in Nat /\ i \in Nat /\ j \in Nat
            /\ q[1] \in DOMAIN us /\ q[2] \in DOMAIN us /\ i \in DOMAIN us /\ j \in DOMAIN us
        BY ONLY <1>1, <3>1
      <3>3. Cost(q[1], q[2]) \in Nat /\ m \in Nat
        BY ONLY <1>2, <1>7, <3>2
      <3>4. m <= Cost(q[1], q[2])
        BY <1>4, <1>8
      <3> QED BY ONLY <3>2, <3>3, <3>4
    <2>2. Cost(q[1], q[2]) = m => i <= q[1]
      BY <1>5
    <2>3. Cost(q[1], q[2]) = m /\ q[1] = i => j <= q[2]
      BY Zenon, <1>6
    <2>4. Cost(i, j) < Cost(q[1], q[2])
          \/ (Cost(i, j) = Cost(q[1], q[2]) /\ (i < q[1] \/ (i = q[1] /\ j <= q[2])))
      BY ONLY <1>7, <2>1, <2>2, <2>3
    <2> QED BY <2>4 DEF Cost
  <1>9. \E p \in pairs : \A q \in pairs : Best(p, q)
    BY ONLY Zenon, <1>7, <1>8
  <1>10. Framebuffer!SmallestUnion(us) = CHOOSE p \in pairs : \A q \in pairs : Best(p, q)
    BY DEF Framebuffer!SmallestUnion
  <1> HIDE DEF Best
  <1>11. Framebuffer!SmallestUnion(us) \in pairs
    BY ONLY Zenon, <1>9, <1>10
  <1> QED BY <1>11

\* The new update is taken in, or two others give way to a snapshot of their union: what
\* was covered is covered with its colour of now, and so is what the update brings.
LEMMA PushIs ==
    ASSUME FrameRegions \in Nat \ {0}, NEW us \in Seq(FrameUpdates), NEW new \in FrameUpdates,
           NEW n \in Nat, NEW m \in Nat, NEW old,
           NEW bgra \in [Framebuffer!Pixels(<<n, m>>) -> Nat],
           Faithful(us, <<n, m>>, old),
           Framebuffer!Area(new.rect) \subseteq Framebuffer!Pixels(<<n, m>>),
           \A p \in Framebuffer!Area(new.rect) : new.bytes[p] = bgra[p],
           \A p \in Framebuffer!Pixels(<<n, m>>) \ Framebuffer!Area(new.rect) : bgra[p] = old[p]
    PROVE  LET t == Framebuffer!PushBounded(us, new, bgra) IN
           /\ t \in Seq(FrameUpdates) /\ Faithful(t, <<n, m>>, bgra)
           /\ \A p \in Framebuffer!Pixels(<<n, m>>) :
                Covers(us, p, old) \/ p \in Framebuffer!Area(new.rect) => Covers(t, p, bgra)
  <1> DEFINE pixels == Framebuffer!Pixels(<<n, m>>)
             fresh == Framebuffer!Area(new.rect)
             able == {i \in DOMAIN us : Framebuffer!CanMerge(us[i].rect, new.rect)}
             t == Framebuffer!PushBounded(us, new, bgra)
  <1>1. /\ DOMAIN us = 1 .. Len(us) /\ Len(us) \in Nat
        /\ \A i \in DOMAIN us : us[i] \in FrameUpdates
    OBVIOUS
  <1>2. new.rect \in Rectangles /\ new.bytes \in [fresh -> Nat]
    BY UpdateIs
  <1>3. /\ \A i \in DOMAIN us : Framebuffer!Area(us[i].rect) \subseteq pixels
        /\ \A i \in DOMAIN us : \A p \in Framebuffer!Area(us[i].rect) : Covers(us, p, old)
        /\ fresh \subseteq pixels
        /\ \A p \in fresh : new.bytes[p] = bgra[p]
        /\ \A p \in pixels \ fresh : bgra[p] = old[p]
    BY Zenon DEF Faithful
  <1> HIDE DEF pixels, fresh, able, t
  \* It is enough that the new updates lie within the framebuffer and cover what they
  \* show, and what the old ones and the new one showed.
  <1>4. CASE able # {}
    <2> DEFINE i == CHOOSE i \in able : \A j \in able : j <= i
               r == Framebuffer!Union(us[i].rect, new.rect)
               bytes == [p \in Framebuffer!Area(r) |-> IF p \in DOMAIN new.bytes THEN new.bytes[p]
                                                       ELSE us[i].bytes[p]]
    <2>1. i \in able
      <3>1. able \subseteq 1 .. Len(us)
        BY <1>1 DEF able
      <3>2. \E k \in able : \A j \in able : j <= k
        BY ONLY Zenon, <1>1, <1>4, <3>1, GreatestIs
      <3> QED BY ONLY <3>2
    <2>2. t = [us EXCEPT ![i] = Framebuffer!Merged(us[i], new)]
      BY <1>4 DEF t, able, Framebuffer!PushBounded
    <2>3. Framebuffer!Merged(us[i], new) = [rect |-> r, bytes |-> bytes]
      BY DEF Framebuffer!Merged
    <2> HIDE DEF i, r, bytes
    <2>4. /\ i \in DOMAIN us /\ us[i] \in FrameUpdates
          /\ us[i].rect \in Rectangles /\ us[i].bytes \in [Framebuffer!Area(us[i].rect) -> Nat]
          /\ Framebuffer!CanMerge(us[i].rect, new.rect)
      BY <1>1, <2>1, UpdateIs DEF able
    <2>5. /\ r \in Rectangles
          /\ Framebuffer!Area(us[i].rect) \subseteq Framebuffer!Area(r)
          /\ fresh \subseteq Framebuffer!Area(r)
      BY ONLY <1>2, <2>4, UnionCovers DEF r, fresh
    <2>6. Framebuffer!Area(r) \subseteq Framebuffer!Area(us[i].rect) \cup fresh
      <3>1. /\ Framebuffer!Area(us[i].rect) \subseteq fresh => Framebuffer!Area(r) \subseteq fresh
            /\ fresh \subseteq Framebuffer!Area(us[i].rect)
                 => Framebuffer!Area(r) \subseteq Framebuffer!Area(us[i].rect)
        BY ONLY Zenon, <1>2, <2>4, UnionCovers DEF r, fresh
      <3> QED BY ONLY <2>4, <3>1 DEF Framebuffer!CanMerge, fresh
    <2>7. /\ bytes \in [Framebuffer!Area(r) -> Nat]
          /\ \A p \in fresh : bytes[p] = new.bytes[p]
          /\ \A p \in Framebuffer!Area(us[i].rect) \ fresh : bytes[p] = us[i].bytes[p]
      BY ONLY <1>2, <2>4, <2>5, <2>6 DEF bytes
    <2>8. [rect |-> r, bytes |-> bytes] \in FrameUpdates
      BY ONLY <2>5, <2>7, UpdateIs
    <2>9. /\ t \in Seq(FrameUpdates) /\ DOMAIN t = DOMAIN us
          /\ t[i].rect = r /\ t[i].bytes = bytes
          /\ \A j \in DOMAIN us : j # i => t[j] = us[j]
      BY <1>1, <2>2, <2>3, <2>4, <2>8, ExceptSeq
    <2>10. \A p \in fresh : Covers(t, p, bgra)
      BY ONLY Zenon, <1>3, <2>4, <2>5, <2>7, <2>9 DEF Covers
    <2>11. ASSUME NEW p \in pixels, p \notin fresh, Covers(us, p, old)
           PROVE  Covers(t, p, bgra)
      <3>1. PICK j \in DOMAIN us : p \in Framebuffer!Area(us[j].rect) /\ us[j].bytes[p] = old[p]
        BY <2>11 DEF Covers
      <3>2. bgra[p] = old[p]
        BY Zenon, <1>3, <2>11
      <3>3. CASE j = i
        BY ONLY Zenon, <2>4, <2>5, <2>7, <2>9, <2>11, <3>1, <3>2, <3>3 DEF Covers
      <3>4. CASE j # i
        BY ONLY Zenon, <2>9, <3>1, <3>2, <3>4 DEF Covers
      <3> QED BY <3>3, <3>4
    <2>12. ASSUME NEW j \in DOMAIN t
           PROVE  /\ Framebuffer!Area(t[j].rect) \subseteq pixels
                  /\ \A p \in Framebuffer!Area(t[j].rect) : Covers(t, p, bgra)
      <3>1. CASE j = i
        <4>1. Framebuffer!Area(t[j].rect) \subseteq Framebuffer!Area(us[i].rect) \cup fresh
          BY ONLY <2>6, <2>9, <3>1
        <4> QED BY ONLY Zenon, <1>3, <2>4, <2>10, <2>11, <4>1
      <3>2. CASE j # i
        BY ONLY Zenon, <1>3, <2>9, <2>10, <2>11, <2>12, <3>2
      <3> QED BY <3>1, <3>2
    <2> QED BY ONLY Zenon, <2>9, <2>10, <2>11, <2>12 DEF Faithful, pixels, fresh, t
  <1> DEFINE all == Append(us, new)
  <1>5. /\ all \in Seq(FrameUpdates) /\ DOMAIN all = 1 .. Len(us) + 1 /\ Len(all) = Len(us) + 1
        /\ all[Len(us) + 1] = new /\ \A i \in DOMAIN us : i \in DOMAIN all /\ all[i] = us[i]
        /\ \A i \in DOMAIN all : i = Len(us) + 1 \/ i \in DOMAIN us
        /\ Len(us) + 1 \in DOMAIN all
    <2>1. all \in Seq(FrameUpdates) /\ DOMAIN all = 1 .. Len(us) + 1 /\ Len(all) = Len(us) + 1
          /\ all[Len(us) + 1] = new /\ \A i \in DOMAIN us : all[i] = us[i]
      BY BehindIs, AppendProperties
    <2> HIDE DEF all
    <2> QED BY ONLY <1>1, <2>1
  <1>6. CASE able = {}
    <2>1. t = Framebuffer!Bounded(all, bgra)
      BY <1>6 DEF t, able, Framebuffer!PushBounded
    <2> HIDE DEF all
    <2>2. \A p \in fresh : Covers(all, p, bgra)
      BY ONLY Zenon, <1>3, <1>5 DEF Covers, fresh
    <2>3. ASSUME NEW p \in pixels, p \notin fresh, Covers(us, p, old)
          PROVE  Covers(all, p, bgra)
      <3>1. bgra[p] = old[p]
        BY Zenon, <1>3, <2>3
      <3> QED BY ONLY Zenon, <1>5, <2>3, <3>1 DEF Covers
    <2>4. ASSUME NEW j \in DOMAIN all
          PROVE  /\ Framebuffer!Area(all[j].rect) \subseteq pixels
                 /\ \A p \in Framebuffer!Area(all[j].rect) : Covers(all, p, bgra)
      <3>1. CASE j = Len(us) + 1
        BY ONLY <1>3, <1>5, <2>2, <3>1 DEF fresh
      <3>2. CASE j # Len(us) + 1
        BY ONLY Zenon, <1>3, <1>5, <2>2, <2>3, <2>4, <3>2
      <3> QED BY <3>1, <3>2
    <2>5. CASE Len(all) <= FrameRegions
      <3>1. t = all
        BY <2>1, <2>5 DEF Framebuffer!Bounded
      <3> QED BY ONLY Zenon, <1>5, <2>2, <2>3, <2>4, <3>1 DEF Faithful, pixels, fresh, t
    <2>6. CASE ~(Len(all) <= FrameRegions)
      <3> DEFINE p == Framebuffer!SmallestUnion(all)
                 a == all[p[1]]
                 b == all[p[2]]
                 r == Framebuffer!Union(a.rect, b.rect)
                 snapshot == Framebuffer!Update(r, bgra)
                 s1 == Framebuffer!SwapRemove(all, p[2])
                 s2 == Framebuffer!SwapRemove(s1, p[1])
      <3>1. t = Append(s2, snapshot)
        BY <2>1, <2>6 DEF Framebuffer!Bounded
      <3>2. Len(all) >= 2
        BY ONLY <1>1, <1>5, <2>6, FrameRegions \in Nat \ {0}
      <3>3. p[1] \in DOMAIN all /\ p[2] \in DOMAIN all /\ p[1] < p[2]
        BY ONLY <1>5, <3>2, SmallestUnionIs
      <3>4. a \in FrameUpdates /\ b \in FrameUpdates
        BY ONLY <1>5, <3>3
      <3> HIDE DEF p, a, b, r, snapshot, s1, s2
      <3>5. a.rect \in Rectangles /\ b.rect \in Rectangles
        BY ONLY <3>4, UpdateIs
      <3>6. /\ r \in Rectangles
            /\ Framebuffer!Area(a.rect) \subseteq Framebuffer!Area(r)
            /\ Framebuffer!Area(b.rect) \subseteq Framebuffer!Area(r)
            /\ (Framebuffer!Area(a.rect) \subseteq pixels /\ Framebuffer!Area(b.rect) \subseteq pixels
                 => Framebuffer!Area(r) \subseteq pixels)
        BY ONLY Zenon, <3>5, UnionCovers, n \in Nat, m \in Nat DEF r, pixels
      <3>7. Framebuffer!Area(r) \subseteq pixels
        BY ONLY <2>4, <3>3, <3>6 DEF a, b
      <3>8. /\ snapshot \in FrameUpdates /\ snapshot.rect = r
            /\ \A q \in Framebuffer!Area(r) : snapshot.bytes[q] = bgra[q]
        <4>1. snapshot = [rect |-> r, bytes |-> [q \in Framebuffer!Area(r) |-> bgra[q]]]
          BY DEF snapshot, Framebuffer!Update
        <4>2. [q \in Framebuffer!Area(r) |-> bgra[q]] \in [Framebuffer!Area(r) -> Nat]
          BY Zenon, <3>7 DEF pixels
        <4> QED BY ONLY Zenon, <3>6, <4>1, <4>2, UpdateIs
      <3>9. /\ s1 \in Seq(FrameUpdates) /\ DOMAIN s1 = 1 .. Len(all) - 1
            /\ \A k \in DOMAIN s1 : \E j \in DOMAIN all : s1[k] = all[j]
            /\ \A j \in DOMAIN all : j # p[2] => \E k \in DOMAIN s1 : s1[k] = all[j]
            /\ \A j \in DOMAIN s1 : j < p[2] => s1[j] = all[j]
        BY ONLY Zenon, <1>5, <3>3, SwapRemoveIs DEF s1
      <3>10. p[1] \in DOMAIN s1 /\ s1[p[1]] = a
        BY ONLY <1>1, <1>5, <3>3, <3>9 DEF a
      <3>11. /\ s2 \in Seq(FrameUpdates)
             /\ \A k \in DOMAIN s2 : \E j \in DOMAIN s1 : s2[k] = s1[j]
             /\ \A j \in DOMAIN s1 : j # p[1] => \E k \in DOMAIN s2 : s2[k] = s1[j]
        <4>1. s1 \in Seq(FrameUpdates) /\ p[1] \in DOMAIN s1
          BY ONLY <3>9, <3>10
        <4> QED BY ONLY <4>1, SwapRemoveIs DEF s2
      <3>12. /\ t \in Seq(FrameUpdates) /\ Len(s2) \in Nat
             /\ DOMAIN s2 = 1 .. Len(s2) /\ DOMAIN t = 1 .. Len(s2) + 1
             /\ t[Len(s2) + 1] = snapshot /\ \A i \in DOMAIN s2 : t[i] = s2[i]
        BY ONLY <3>1, <3>8, <3>11, BehindIs
      <3>13. /\ \A i \in DOMAIN t : i = Len(s2) + 1 \/ i \in DOMAIN s2
             /\ \A i \in DOMAIN s2 : i \in DOMAIN t
             /\ Len(s2) + 1 \in DOMAIN t
        BY ONLY <3>12
      <3>14. \A q \in Framebuffer!Area(r) : Covers(t, q, bgra)
        BY ONLY Zenon, <3>8, <3>12, <3>13 DEF Covers
      <3>15. ASSUME NEW q, Covers(all, q, bgra)
             PROVE  Covers(t, q, bgra)
        <4>1. PICK j \in DOMAIN all : q \in Framebuffer!Area(all[j].rect) /\ all[j].bytes[q] = bgra[q]
          BY <3>15 DEF Covers
        <4>2. CASE j = p[2]
          BY ONLY <3>6, <3>14, <4>1, <4>2 DEF b
        <4>3. CASE j # p[2]
          <5>1. PICK k \in DOMAIN s1 : s1[k] = all[j]
            BY <3>9, <4>3
          <5>2. CASE k = p[1]
            BY ONLY <3>6, <3>10, <3>14, <4>1, <5>1, <5>2
          <5>3. CASE k # p[1]
            <6>1. PICK l \in DOMAIN s2 : s2[l] = s1[k]
              BY <3>11, <5>3
            <6> QED BY ONLY Zenon, <3>12, <3>13, <4>1, <5>1, <6>1 DEF Covers
          <5> QED BY <5>2, <5>3
        <4> QED BY <4>2, <4>3
      <3>16. ASSUME NEW i \in DOMAIN t
             PROVE  /\ Framebuffer!Area(t[i].rect) \subseteq pixels
                    /\ \A q \in Framebuffer!Area(t[i].rect) : Covers(t, q, bgra)
        <4>1. CASE i = Len(s2) + 1
          BY ONLY <3>7, <3>8, <3>12, <3>14, <4>1
        <4>2. CASE i # Len(s2) + 1
          <5>1. \E j \in DOMAIN all : t[i] = all[j]
            BY ONLY <3>9, <3>11, <3>12, <3>13, <3>16, <4>2
          <5> QED BY ONLY <2>4, <3>15, <5>1
        <4> QED BY <4>1, <4>2
      <3> QED BY ONLY Zenon, <2>2, <2>3, <3>12, <3>15, <3>16 DEF Faithful, pixels, fresh, t
    <2> QED BY Zenon, <2>5, <2>6
  <1> QED BY Zenon, <1>4, <1>6

\* Also before the host was sent any, and when it is due the whole, the updates lie
\* within the framebuffer and cover what they show.
FrameInv ==
    /\ v1 = [size |-> v1.size, bgra |-> v1.bgra]
    /\ v1.size \in Framebuffer!Sizes /\ v1.bgra \in [Framebuffer!Pixels(v1.size) -> Nat]
    /\ v2 = [kind |-> v2.kind, updates |-> v2.updates]
    /\ v2.updates \in Seq(FrameUpdates)
    /\ v2.kind # "updates" => v2.updates = <<>>
    /\ Faithful(v2.updates, v1.size, v1.bgra)
    /\ v6 \in Nat
    /\ v3 /\ v2.kind # "full" =>
         /\ v7.size = v1.size
         /\ \A p \in Framebuffer!Pixels(v1.size) :
              v7.bgra[p] # v1.bgra[p] => Covers(v2.updates, p, v1.bgra)

LEMMA NoUpdates ==
    ASSUME NEW size, NEW bgra
    PROVE  <<>> \in Seq(FrameUpdates) /\ Faithful(<<>>, size, bgra) /\ \A p : ~Covers(<<>>, p, bgra)
  BY EmptyIs DEF Faithful, Covers

LEMMA SizeIs ==
    ASSUME BoundsAssumption, NEW size \in Framebuffer!Sizes
    PROVE  /\ size = <<size[1], size[2]>> /\ size[1] \in Nat \ {0} /\ size[2] \in Nat \ {0}
  BY DEF Framebuffer!Sizes, BoundsAssumption

LEMMA BlackIs ==
    ASSUME BoundsAssumption, NEW size \in Framebuffer!Sizes, NEW pic, pic = Framebuffer!Black(size)
    PROVE  /\ pic = [size |-> pic.size, bgra |-> pic.bgra]
           /\ pic.size \in Framebuffer!Sizes /\ pic.bgra \in [Framebuffer!Pixels(pic.size) -> Nat]
  BY DEF Framebuffer!Black

LEMMA FrameStart ==
    ASSUME BoundsAssumption, Framebuffer!Init
    PROVE  FrameInv
  <1>1. v2 = [kind |-> "nothing", updates |-> <<>>] /\ v3 = FALSE /\ v6 = 0
    BY DEF Framebuffer!Init, Framebuffer!Nothing
  <1>2. /\ v1 = [size |-> v1.size, bgra |-> v1.bgra]
        /\ v1.size \in Framebuffer!Sizes /\ v1.bgra \in [Framebuffer!Pixels(v1.size) -> Nat]
    BY Zenon, BlackIs DEF Framebuffer!Init
  <1> QED BY Zenon, <1>1, <1>2, NoUpdates DEF FrameInv

LEMMA RepaintIs ==
    ASSUME BoundsAssumption, FrameInv, NEW r \in Rectangles,
           Framebuffer!Area(r) \subseteq Framebuffer!Pixels(v1.size),
           NEW bytes \in [Framebuffer!Area(r) -> Nat],
           Framebuffer!Repaint(r, bytes), v3' = v3, v7' = v7, v6' \in Nat
    PROVE  FrameInv'
  <1> DEFINE n == v1.size[1]
             m == v1.size[2]
             bgra == Framebuffer!Paint(bytes, v1.bgra)
             new == Framebuffer!Update(r, bgra)
             pushed == Framebuffer!PushBounded(v2.updates, new, bgra)
  <1>1. /\ v1 = [size |-> v1.size, bgra |-> v1.bgra]
        /\ v1.size \in Framebuffer!Sizes /\ v1.bgra \in [Framebuffer!Pixels(v1.size) -> Nat]
        /\ v2.updates \in Seq(FrameUpdates)
        /\ (v2.kind # "updates" => v2.updates = <<>>)
        /\ Faithful(v2.updates, v1.size, v1.bgra)
        /\ (v3 /\ v2.kind # "full" =>
             /\ v7.size = v1.size
             /\ \A p \in Framebuffer!Pixels(v1.size) :
                  v7.bgra[p] # v1.bgra[p] => Covers(v2.updates, p, v1.bgra))
    BY DEF FrameInv
  <1>2. v1.size = <<n, m>> /\ n \in Nat \ {0} /\ m \in Nat \ {0}
    BY Zenon, <1>1, SizeIs
  <1>3. bgra = [p \in Framebuffer!Pixels(v1.size) |-> IF p \in Framebuffer!Area(r) THEN bytes[p]
                                                      ELSE v1.bgra[p]]
    BY <1>1 DEF Framebuffer!Paint
  <1>4. /\ v1' = [v1 EXCEPT !.bgra = bgra]
        /\ v2' = Framebuffer!MergeChange(new, bgra)
    BY DEF Framebuffer!Repaint
  <1>5. \/ v2.kind = "nothing" /\ v2' = [kind |-> "updates", updates |-> <<new>>]
        \/ v2' = [kind |-> "full", updates |-> <<>>]
        \/ v2.kind # "full" /\ v2' = [kind |-> "updates", updates |-> pushed]
    BY Zenon, <1>4 DEF Framebuffer!MergeChange, Framebuffer!Some, Framebuffer!All
  <1> HIDE DEF n, m, bgra
  <1>6. /\ bgra \in [Framebuffer!Pixels(v1.size) -> Nat]
        /\ \A p \in Framebuffer!Area(r) : bgra[p] \in Nat
        /\ \A p \in Framebuffer!Pixels(v1.size) \ Framebuffer!Area(r) : bgra[p] = v1.bgra[p]
    BY ONLY <1>1, <1>3, bytes \in [Framebuffer!Area(r) -> Nat],
            Framebuffer!Area(r) \subseteq Framebuffer!Pixels(v1.size)
  <1>7. v1' = [size |-> v1.size, bgra |-> bgra] /\ v1'.size = v1.size /\ v1'.bgra = bgra
    BY ONLY <1>1, <1>4
  <1>8. /\ new \in FrameUpdates /\ new.rect = r
        /\ \A p \in Framebuffer!Area(r) : new.bytes[p] = bgra[p]
    <2>1. new = [rect |-> r, bytes |-> [p \in Framebuffer!Area(r) |-> bgra[p]]]
      BY DEF Framebuffer!Update
    <2>2. [p \in Framebuffer!Area(r) |-> bgra[p]] \in [Framebuffer!Area(r) -> Nat]
      BY ONLY <1>6
    <2> HIDE DEF new
    <2> QED BY ONLY <2>1, <2>2, UpdateIs, r \in Rectangles
  <1> HIDE DEF new, pushed
  <1>9. CASE v2.kind = "nothing" /\ v2' = [kind |-> "updates", updates |-> <<new>>]
    <2> DEFINE one == <<new>>
    <2>1. one \in Seq(FrameUpdates) /\ DOMAIN one = {1} /\ one[1] = new
      BY <1>8
    <2>2. v2'.updates = one /\ v2'.kind = "updates" /\ v2' = [kind |-> v2'.kind, updates |-> v2'.updates]
      BY <1>9
    <2> HIDE DEF one
    <2>3. \A p \in Framebuffer!Area(r) : Covers(one, p, bgra)
      BY ONLY <1>8, <2>1 DEF Covers
    <2>4. Faithful(one, v1.size, bgra)
      BY ONLY <1>8, <2>1, <2>3, Framebuffer!Area(r) \subseteq Framebuffer!Pixels(v1.size)
         DEF Faithful
    <2>5. ASSUME v3, NEW p \in Framebuffer!Pixels(v1.size), v7.bgra[p] # bgra[p]
          PROVE  Covers(one, p, bgra)
      <3>1. v7.bgra[p] = v1.bgra[p]
        BY Zenon, <1>1, <1>9, <2>5, NoUpdates
      <3> QED BY ONLY <1>6, <2>3, <2>5, <3>1
    <2>6. v3 => v7.size = v1.size
      BY <1>1, <1>9
    <2> QED BY Zenon, <1>1, <1>6, <1>7, <2>1, <2>2, <2>4, <2>5, <2>6 DEF FrameInv
  <1>10. CASE v2' = [kind |-> "full", updates |-> <<>>]
    BY Zenon, <1>1, <1>6, <1>7, <1>10, NoUpdates DEF FrameInv
  <1>11. CASE v2.kind # "full" /\ v2' = [kind |-> "updates", updates |-> pushed]
    <2>1. FrameRegions \in Nat \ {0}
      BY DEF BoundsAssumption
    <2>2. /\ pushed \in Seq(FrameUpdates) /\ Faithful(pushed, <<n, m>>, bgra)
          /\ \A p \in Framebuffer!Pixels(<<n, m>>) :
                Covers(v2.updates, p, v1.bgra) \/ p \in Framebuffer!Area(new.rect)
                  => Covers(pushed, p, bgra)
      <3>1. /\ bgra \in [Framebuffer!Pixels(<<n, m>>) -> Nat]
            /\ Faithful(v2.updates, <<n, m>>, v1.bgra)
            /\ Framebuffer!Area(new.rect) \subseteq Framebuffer!Pixels(<<n, m>>)
            /\ \A p \in Framebuffer!Area(new.rect) : new.bytes[p] = bgra[p]
            /\ \A p \in Framebuffer!Pixels(<<n, m>>) \ Framebuffer!Area(new.rect) : bgra[p] = v1.bgra[p]
            /\ n \in Nat /\ m \in Nat
        BY Zenon, <1>1, <1>2, <1>6, <1>8
      <3> QED BY ONLY Zenon, <1>1, <1>8, <2>1, <3>1, PushIs DEF pushed
    <2>3. v2'.updates = pushed /\ v2'.kind = "updates" /\ v2' = [kind |-> v2'.kind, updates |-> v2'.updates]
      BY <1>11
    <2>4. ASSUME v3, NEW p \in Framebuffer!Pixels(v1.size), v7.bgra[p] # bgra[p]
          PROVE  Covers(pushed, p, bgra)
      <3>1. CASE p \in Framebuffer!Area(r)
        BY ONLY Zenon, <1>2, <1>8, <2>2, <2>4, <3>1
      <3>2. CASE p \notin Framebuffer!Area(r)
        <4>1. Covers(v2.updates, p, v1.bgra)
          BY ONLY <1>1, <1>6, <1>11, <2>4, <3>2
        <4> QED BY ONLY Zenon, <1>2, <2>2, <2>4, <4>1
      <3> QED BY <3>1, <3>2
    <2>5. v3 => v7.size = v1.size
      BY <1>1, <1>11
    <2> QED BY Zenon, <1>1, <1>2, <1>6, <1>7, <2>2, <2>3, <2>4, <2>5 DEF FrameInv
  <1> QED BY <1>5, <1>9, <1>10, <1>11

LEMMA FrameDrawRect ==
    ASSUME BoundsAssumption, FrameInv, Framebuffer!DrawRect
    PROVE  FrameInv'
  <1> DEFINE n == v1.size[1]
             m == v1.size[2]
  <1>1. v1.size = <<n, m>> /\ n \in Nat \ {0} /\ m \in Nat \ {0} /\ v6 \in Nat
    BY Zenon, SizeIs DEF FrameInv
  <1>2. v6' \in Nat /\ v3' = v3 /\ v7' = v7
    BY <1>1 DEF Framebuffer!DrawRect, Framebuffer!Receives
  <1>3. PICK r \in Framebuffer!Rects :
          /\ r.x < n /\ r.y < m
          /\ Framebuffer!Repaint(Framebuffer!Clipped(r),
                                 [p \in Framebuffer!Area(Framebuffer!Clipped(r)) |-> v6'])
    BY Zenon DEF Framebuffer!DrawRect, Framebuffer!Inside, Framebuffer!Width, Framebuffer!Height
  <1> DEFINE c == Framebuffer!Clipped(r)
  <1>4. r \in [x : Nat, y : Nat, w : Nat \ {0}, h : Nat \ {0}]
    BY DEF Framebuffer!Rects, BoundsAssumption
  <1>5. c = [r EXCEPT !.w = Framebuffer!Least(r.w, n - r.x), !.h = Framebuffer!Least(r.h, m - r.y)]
    BY DEF Framebuffer!Clipped, Framebuffer!Width, Framebuffer!Height
  <1> HIDE DEF c, n, m
  <1>6. /\ r.x \in Nat /\ r.y \in Nat /\ r.w \in Nat \ {0} /\ r.h \in Nat \ {0}
        /\ n - r.x \in Nat \ {0} /\ m - r.y \in Nat \ {0}
    BY ONLY <1>1, <1>3, <1>4
  <1>7. /\ Framebuffer!Least(r.w, n - r.x) \in Nat \ {0} /\ Framebuffer!Least(r.w, n - r.x) <= n - r.x
        /\ Framebuffer!Least(r.h, m - r.y) \in Nat \ {0} /\ Framebuffer!Least(r.h, m - r.y) <= m - r.y
    BY ONLY <1>6, LeastMost
  <1>8. /\ c \in Rectangles /\ c.x = r.x /\ c.y = r.y
        /\ c.w = Framebuffer!Least(r.w, n - r.x) /\ c.h = Framebuffer!Least(r.h, m - r.y)
    BY ONLY Zenon, <1>4, <1>5, <1>7 DEF Rectangles
  <1>9. c.x + c.w <= n /\ c.y + c.h <= m
    BY ONLY <1>1, <1>6, <1>7, <1>8
  <1>10. Framebuffer!Area(c) \subseteq Framebuffer!Pixels(v1.size)
    BY ONLY <1>1, <1>8, <1>9, Within
  <1>11. [p \in Framebuffer!Area(c) |-> v6'] \in [Framebuffer!Area(c) -> Nat]
    BY ONLY <1>2
  <1> QED BY <1>2, <1>3, <1>8, <1>10, <1>11, RepaintIs DEF c

LEMMA FrameCopyRect ==
    ASSUME BoundsAssumption, FrameInv, Framebuffer!CopyRect
    PROVE  FrameInv'
  <1> DEFINE n == v1.size[1]
             m == v1.size[2]
  <1>1. v1.size = <<n, m>> /\ n \in Nat \ {0} /\ m \in Nat \ {0} /\ v6 \in Nat
        /\ v1.bgra \in [Framebuffer!Pixels(v1.size) -> Nat]
    BY Zenon, SizeIs DEF FrameInv
  <1>2. v6' \in Nat /\ v3' = v3 /\ v7' = v7
    BY <1>1 DEF Framebuffer!CopyRect, Framebuffer!Receives
  <1> DEFINE Wide(d, sx) == Framebuffer!Least(d.w, Framebuffer!Least(n - sx, n - d.x))
             Tall(d, sy) == Framebuffer!Least(d.h, Framebuffer!Least(m - sy, m - d.y))
             To(d, sx, sy) == [d EXCEPT !.w = Wide(d, sx), !.h = Tall(d, sy)]
  <1>3. PICK d \in Framebuffer!Rects, sx \in 0 .. n - 1, sy \in 0 .. m - 1 :
          /\ d.x < n /\ d.y < m
          /\ Framebuffer!Repaint(To(d, sx, sy),
               [p \in Framebuffer!Area(To(d, sx, sy)) |->
                  v1.bgra[<<p[1] - To(d, sx, sy).x + sx, p[2] - To(d, sx, sy).y + sy>>]])
    BY Zenon DEF Framebuffer!CopyRect, Framebuffer!Inside, Framebuffer!Width, Framebuffer!Height
  <1> DEFINE c == To(d, sx, sy)  wide == Wide(d, sx)  tall == Tall(d, sy)
             bytes == [p \in Framebuffer!Area(c) |-> v1.bgra[<<p[1] - c.x + sx, p[2] - c.y + sy>>]]
  <1>4. d \in [x : Nat, y : Nat, w : Nat \ {0}, h : Nat \ {0}]
    BY DEF Framebuffer!Rects, BoundsAssumption
  <1>5. c = [d EXCEPT !.w = wide, !.h = tall]
    OBVIOUS
  <1>6. /\ d.x \in Nat /\ d.y \in Nat /\ d.w \in Nat \ {0} /\ d.h \in Nat \ {0}
        /\ sx \in Nat /\ sy \in Nat
        /\ n - d.x \in Nat \ {0} /\ m - d.y \in Nat \ {0}
        /\ n - sx \in Nat \ {0} /\ m - sy \in Nat \ {0}
    BY ONLY <1>1, <1>3, <1>4
  <1>7. /\ wide \in Nat \ {0} /\ wide <= n - d.x /\ wide <= n - sx
        /\ tall \in Nat \ {0} /\ tall <= m - d.y /\ tall <= m - sy
    <2> DEFINE a == Framebuffer!Least(n - sx, n - d.x)  b == Framebuffer!Least(m - sy, m - d.y)
    <2>1. /\ a \in Nat \ {0} /\ a <= n - sx /\ a <= n - d.x
          /\ b \in Nat \ {0} /\ b <= m - sy /\ b <= m - d.y
      BY ONLY <1>6, LeastMost
    <2>2. wide = Framebuffer!Least(d.w, a) /\ tall = Framebuffer!Least(d.h, b)
      OBVIOUS
    <2> HIDE DEF a, b, wide, tall
    <2>3. wide \in {d.w, a} /\ wide <= a /\ tall \in {d.h, b} /\ tall <= b
      BY ONLY <1>6, <2>1, <2>2, LeastMost
    <2> QED BY ONLY <1>6, <2>1, <2>3
  <1> HIDE DEF To, Wide, Tall, c, wide, tall, n, m
  <1>8. c \in Rectangles /\ c.x = d.x /\ c.y = d.y /\ c.w = wide /\ c.h = tall
    BY ONLY Zenon, <1>4, <1>5, <1>7 DEF Rectangles
  <1>9. c.x + c.w <= n /\ c.y + c.h <= m
    BY ONLY <1>1, <1>6, <1>7, <1>8
  <1>10. Framebuffer!Area(c) \subseteq Framebuffer!Pixels(v1.size)
    BY ONLY <1>1, <1>8, <1>9, Within
  <1>11. ASSUME NEW p \in Framebuffer!Area(c)
         PROVE  v1.bgra[<<p[1] - c.x + sx, p[2] - c.y + sy>>] \in Nat
    <2>1. p[1] \in c.x .. c.x + c.w - 1 /\ p[2] \in c.y .. c.y + c.h - 1
      BY ONLY <1>11 DEF Framebuffer!Area
    <2>2. p[1] - c.x + sx \in 0 .. n - 1 /\ p[2] - c.y + sy \in 0 .. m - 1
      BY ONLY <1>1, <1>6, <1>7, <1>8, <2>1
    <2>3. <<p[1] - c.x + sx, p[2] - c.y + sy>> \in Framebuffer!Pixels(v1.size)
      BY ONLY <1>1, <2>2 DEF Framebuffer!Pixels
    <2> QED BY ONLY <1>1, <2>3
  <1>12. bytes \in [Framebuffer!Area(c) -> Nat]
    BY ONLY <1>11
  <1>13. Framebuffer!Repaint(c, bytes)
    BY <1>3 DEF c
  <1> HIDE DEF bytes
  <1> QED BY <1>2, <1>8, <1>10, <1>12, <1>13, RepaintIs

LEMMA FrameSteps ==
    ASSUME BoundsAssumption, FrameInv, Framebuffer!Next
    PROVE  FrameInv'
  <1>1. CASE Framebuffer!SetResolution
    <2>1. /\ v1' = [size |-> v1'.size, bgra |-> v1'.bgra]
          /\ v1'.size \in Framebuffer!Sizes /\ v1'.bgra \in [Framebuffer!Pixels(v1'.size) -> Nat]
      BY <1>1, BlackIs DEF Framebuffer!SetResolution
    <2>2. v2' = [kind |-> "full", updates |-> <<>>] /\ v3' = v3 /\ v6' = v6 /\ v7' = v7
      BY <1>1 DEF Framebuffer!SetResolution, Framebuffer!All
    <2> QED BY Zenon, <2>1, <2>2, NoUpdates DEF FrameInv
  <1>2. CASE Framebuffer!FrameEvent
    <2>1. v2' = [kind |-> "nothing", updates |-> <<>>] /\ v1' = v1 /\ v6' = v6 /\ v7' = v1
      BY <1>2 DEF Framebuffer!FrameEvent, Framebuffer!Nothing
    <2> QED BY Zenon, <2>1, NoUpdates DEF FrameInv
  <1>3. CASE Framebuffer!RequestBaseFrame
    BY <1>3 DEF Framebuffer!RequestBaseFrame, FrameInv
  <1> QED BY <1>1, <1>2, <1>3, FrameDrawRect, FrameCopyRect DEF Framebuffer!Next

LEMMA FrameHolds ==
    ASSUME FrameInv
    PROVE  Framebuffer!NothingMissed
  <1>1. ASSUME NEW p, NEW bgra
        PROVE  Covers(v2.updates, p, bgra) => p \in Framebuffer!Regions
    BY DEF Covers, Framebuffer!Regions
  <1>2. ASSUME NEW p \in Framebuffer!Regions
        PROVE  p \in Framebuffer!Pixels(v1.size) /\ Covers(v2.updates, p, v1.bgra)
    BY <1>2 DEF Framebuffer!Regions, FrameInv, Faithful
  <1> QED BY <1>1, <1>2 DEF FrameInv, Framebuffer!NothingMissed, Covers

-----------------------------------------------------------------------------
(* The clipboard.  The client's capabilities and content are v1 and v2, its   *)
(* queues v3 to v5, and v6 the server's; v8 to v11 are the server's state and *)
(* v12 what the host has of it.                                               *)

LEMMA JoinIs ==
    ASSUME NEW S, NEW q \in Seq(S), NEW p \in Seq(S)
    PROVE  /\ q \o p \in Seq(S) /\ Len(q) \in Nat
           /\ \A i \in DOMAIN q : i \in DOMAIN (q \o p) /\ (q \o p)[i] = q[i] /\ i <= Len(q) /\ i \in Nat
           /\ \A j \in DOMAIN p : /\ Len(q) + j \in DOMAIN (q \o p) /\ (q \o p)[Len(q) + j] = p[j]
                                  /\ j \in Nat /\ Len(q) < Len(q) + j
           /\ \A k \in DOMAIN (q \o p) :
                \/ k \in DOMAIN q
                \/ \E j \in DOMAIN p : k = Len(q) + j
  <1> DEFINE n == Len(q)  m == Len(p)  t == q \o p
  <1>1. /\ n \in Nat /\ m \in Nat /\ DOMAIN q = 1 .. n /\ DOMAIN p = 1 .. m
        /\ t \in Seq(S) /\ DOMAIN t = 1 .. n + m
        /\ \A i \in 1 .. n + m : t[i] = IF i <= n THEN q[i] ELSE p[i - n]
    BY ConcatProperties
  <1> HIDE DEF n, m, t
  <1>2. ASSUME NEW i \in DOMAIN q
        PROVE  i \in DOMAIN t /\ t[i] = q[i] /\ i <= n /\ i \in Nat
    BY ONLY <1>1, <1>2
  <1>3. ASSUME NEW j \in DOMAIN p
        PROVE  n + j \in DOMAIN t /\ t[n + j] = p[j] /\ j \in Nat /\ n < n + j
    <2>1. n + j \in 1 .. n + m /\ ~(n + j <= n) /\ n + j - n = j /\ j \in Nat
      BY ONLY <1>1, <1>3
    <2> QED BY ONLY <1>1, <2>1
  <1>4. ASSUME NEW k \in DOMAIN t, k \notin DOMAIN q
        PROVE  \E j \in DOMAIN p : k = n + j
    <2>1. k - n \in 1 .. m /\ k = n + (k - n)
      BY ONLY <1>1, <1>4
    <2> QED BY ONLY <1>1, <2>1
  <1> QED BY ONLY <1>1, <1>2, <1>3, <1>4 DEF n, t

LEMMA Associative ==
    ASSUME NEW S, NEW q \in Seq(S), NEW p \in Seq(S), NEW r \in Seq(S)
    PROVE  (q \o p) \o r = q \o (p \o r)
  BY ConcatAssociative

LEMMA TailOfJoin ==
    ASSUME NEW S, NEW q \in Seq(S), NEW p \in Seq(S), q # <<>>
    PROVE  /\ q \o p # <<>> /\ Head(q \o p) = Head(q) /\ Tail(q \o p) = Tail(q) \o p
  <1> DEFINE n == Len(q)  m == Len(p)  t == q \o p  u == Tail(q) \o p
  <1>1. /\ n \in Nat \ {0} /\ m \in Nat /\ t \in Seq(S) /\ Len(t) = n + m
        /\ \A i \in 1 .. n + m : t[i] = IF i <= n THEN q[i] ELSE p[i - n]
    BY ConcatProperties
  <1>2. /\ Tail(q) \in Seq(S) /\ Len(Tail(q)) = n - 1 /\ Head(q) = q[1]
        /\ \A i \in 1 .. n - 1 : Tail(q)[i] = q[i + 1]
    OBVIOUS
  <1>3. /\ u \in Seq(S) /\ Len(u) = n - 1 + m
        /\ \A i \in 1 .. n - 1 + m : u[i] = IF i <= n - 1 THEN Tail(q)[i] ELSE p[i - (n - 1)]
    BY <1>2, ConcatProperties
  <1> HIDE DEF n, m, t, u
  <1>4. t # <<>> /\ 1 \in 1 .. n + m /\ 1 <= n
    BY ONLY <1>1
  <1>5. Head(t) = Head(q)
    BY ONLY <1>1, <1>2, <1>4
  <1>6. Tail(t) \in Seq(S) /\ Len(Tail(t)) = n + m - 1
        /\ \A i \in 1 .. n + m - 1 : Tail(t)[i] = t[i + 1]
    BY ONLY <1>1, <1>4
  <1>7. ASSUME NEW i \in 1 .. n + m - 1
        PROVE  Tail(t)[i] = u[i]
    <2>1. i \in Nat /\ i + 1 \in 1 .. n + m /\ i \in 1 .. n - 1 + m
      BY ONLY <1>1, <1>7
    <2>2. Tail(t)[i] = IF i + 1 <= n THEN q[i + 1] ELSE p[i + 1 - n]
      BY ONLY <1>1, <1>6, <1>7, <2>1
    <2>3. CASE i + 1 <= n
      <3>1. i \in 1 .. n - 1 /\ i <= n - 1
        BY ONLY <1>1, <1>7, <2>1, <2>3
      <3> QED BY ONLY Zenon, <1>2, <1>3, <2>1, <2>2, <2>3, <3>1
    <2>4. CASE ~(i + 1 <= n)
      <3>1. ~(i <= n - 1) /\ i + 1 - n = i - (n - 1)
        BY ONLY <1>1, <2>1, <2>4
      <3> QED BY ONLY Zenon, <1>3, <2>1, <2>2, <2>4, <3>1
    <2> QED BY Zenon, <2>3, <2>4
  <1>8. n + m - 1 = n - 1 + m
    BY ONLY <1>1
  <1>9. Tail(t) = u
    BY ONLY <1>3, <1>6, <1>7, <1>8, SeqEqual
  <1> QED BY ONLY <1>4, <1>5, <1>9 DEF t, u

\* A message carries a content's version; all that are in the queue carry this one; the
\* last one does, or none does and this one was there already; a message of this kind
\* for one of these formats; and one with no older content behind it.
Carries(m) == m.kind \in {"legacy", "provide"}
Fresh(q, n) == \A i \in DOMAIN q : Carries(q[i]) => q[i].version = n
Final(q, done, n) ==
    \/ done /\ \A i \in DOMAIN q : ~Carries(q[i])
    \/ \E i \in DOMAIN q : /\ Carries(q[i]) /\ q[i].version = n
                          /\ \A j \in DOMAIN q : Carries(q[j]) => j <= i
Asks(q, kind, formats) == \E i \in DOMAIN q : q[i].kind = kind /\ q[i].formats \cap formats # {}
Announced(q, formats, n) ==
    \E i \in DOMAIN q : /\ q[i].kind = "notify" /\ q[i].formats \cap formats # {}
                       /\ \A j \in DOMAIN q : i < j /\ Carries(q[j]) => q[j].version = n

LEMMA NoneQueued ==
    /\ \A n : Fresh(<<>>, n) /\ \A done \in BOOLEAN : Final(<<>>, done, n) <=> done
    /\ \A kind, formats, n : ~Asks(<<>>, kind, formats) /\ ~Announced(<<>>, formats, n)
  BY EmptyIs DEF Fresh, Final, Asks, Announced

LEMMA OneQueued ==
    ASSUME NEW m
    PROVE  /\ \A n : Fresh(<<m>>, n) <=> (Carries(m) => m.version = n)
           /\ \A done : Carries(m) => Final(<<m>>, done, m.version)
           /\ \A kind, formats : Asks(<<m>>, kind, formats)
                                   <=> m.kind = kind /\ m.formats \cap formats # {}
           /\ \A formats, n : Announced(<<m>>, formats, n)
                                <=> m.kind = "notify" /\ m.formats \cap formats # {}
  <1> DEFINE q == <<m>>
  <1>1. DOMAIN q = {1} /\ q[1] = m
    OBVIOUS
  <1> HIDE DEF q
  <1>2. \A n : Fresh(q, n) <=> (Carries(m) => m.version = n)
    BY ONLY <1>1 DEF Fresh
  <1>3. \A done : Carries(m) => Final(q, done, m.version)
    BY ONLY <1>1 DEF Final
  <1>4. \A kind, formats : Asks(q, kind, formats) <=> m.kind = kind /\ m.formats \cap formats # {}
    BY ONLY <1>1 DEF Asks
  <1>5. \A formats, n : Announced(q, formats, n) <=> m.kind = "notify" /\ m.formats \cap formats # {}
    BY ONLY <1>1 DEF Announced
  <1> QED BY ONLY <1>2, <1>3, <1>4, <1>5 DEF q

LEMMA Joined ==
    ASSUME NEW S, NEW q \in Seq(S), NEW p \in Seq(S)
    PROVE  /\ \A n : Fresh(q \o p, n) <=> Fresh(q, n) /\ Fresh(p, n)
           /\ \A done, n : Final(q, done, n) /\ Fresh(p, n) => Final(q \o p, done, n)
           /\ \A done, n : Final(p, FALSE, n) => Final(q \o p, done, n)
           /\ \A kind, formats : Asks(q \o p, kind, formats)
                                   <=> Asks(q, kind, formats) \/ Asks(p, kind, formats)
           /\ \A formats, n : Announced(q, formats, n) /\ Fresh(p, n) => Announced(q \o p, formats, n)
           /\ \A formats, n : Announced(p, formats, n) => Announced(q \o p, formats, n)
  <1> DEFINE t == q \o p  l == Len(q)
  <1>1. /\ t \in Seq(S) /\ l \in Nat
        /\ \A i \in DOMAIN q : i \in DOMAIN t /\ t[i] = q[i] /\ i <= l /\ i \in Nat
        /\ \A j \in DOMAIN p : l + j \in DOMAIN t /\ t[l + j] = p[j] /\ j \in Nat /\ l < l + j
        /\ \A k \in DOMAIN t : k \in DOMAIN q \/ \E j \in DOMAIN p : k = l + j
    BY ONLY SMTT(20), JoinIs, q \in Seq(S), p \in Seq(S)
  <1> HIDE DEF t, l
  <1>2. ASSUME NEW n
        PROVE  Fresh(t, n) <=> Fresh(q, n) /\ Fresh(p, n)
    <2>1. ASSUME Fresh(t, n) PROVE Fresh(q, n)
      BY ONLY <1>1, <2>1 DEF Fresh
    <2>2. ASSUME Fresh(t, n), NEW j \in DOMAIN p, Carries(p[j]) PROVE p[j].version = n
      <3>1. l + j \in DOMAIN t /\ t[l + j] = p[j]
        BY ONLY <1>1, <2>2
      <3> QED BY ONLY <2>2, <3>1 DEF Fresh
    <2>3. ASSUME Fresh(q, n), Fresh(p, n), NEW k \in DOMAIN t, Carries(t[k]) PROVE t[k].version = n
      <3>1. CASE k \in DOMAIN q
        BY ONLY <1>1, <2>3, <3>1 DEF Fresh
      <3>2. ASSUME NEW j \in DOMAIN p, k = l + j PROVE t[k].version = n
        <4>1. t[k] = p[j]
          BY ONLY <1>1, <3>2
        <4> QED BY ONLY <2>3, <3>2, <4>1 DEF Fresh
      <3> QED BY ONLY <1>1, <2>3, <3>1, <3>2
    <2> QED BY ONLY <2>1, <2>2, <2>3 DEF Fresh
  <1>3. ASSUME NEW done, NEW n, Final(q, done, n), Fresh(p, n)
        PROVE  Final(t, done, n)
    <2>1. CASE \A j \in DOMAIN p : ~Carries(p[j])
      <3>1. \A k \in DOMAIN t : Carries(t[k]) => k \in DOMAIN q /\ t[k] = q[k]
        <4>1. ASSUME NEW k \in DOMAIN t, NEW j \in DOMAIN p, k = l + j PROVE ~Carries(t[k])
          <5>1. t[k] = p[j]
            BY ONLY <1>1, <4>1
          <5> QED BY ONLY <2>1, <4>1, <5>1
        <4> QED BY ONLY <1>1, <4>1
      <3>2. \A i \in DOMAIN q : i \in DOMAIN t /\ t[i] = q[i]
        BY ONLY <1>1
      <3> QED BY ONLY <1>3, <3>1, <3>2 DEF Final
    <2>2. CASE \E j \in DOMAIN p : Carries(p[j])
      <3> DEFINE all == {j \in DOMAIN p : Carries(p[j])}
      <3>1. Len(p) \in Nat /\ all \subseteq 1 .. Len(p) /\ all # {}
        BY <2>2
      <3>2. PICK j \in all : \A k \in all : k <= j
        BY ONLY Zenon, <3>1, GreatestIs
      <3>3. j \in DOMAIN p /\ Carries(p[j]) /\ p[j].version = n
        BY <1>3, <3>2 DEF Fresh
      <3>4. l + j \in DOMAIN t /\ Carries(t[l + j]) /\ t[l + j].version = n
        BY ONLY <1>1, <3>3
      <3>5. ASSUME NEW k \in DOMAIN t, Carries(t[k]) PROVE k <= l + j
        <4>1. CASE k \in DOMAIN q
          <5>1. k <= l /\ k \in Nat /\ j \in Nat
            BY ONLY <1>1, <3>3, <4>1
          <5> QED BY ONLY <1>1, <5>1
        <4>2. ASSUME NEW i \in DOMAIN p, k = l + i PROVE k <= l + j
          <5>1. i <= j /\ i \in Nat /\ j \in Nat
            BY <1>1, <3>2, <3>3, <3>5, <4>2
          <5> QED BY ONLY <1>1, <4>2, <5>1
        <4> QED BY ONLY <1>1, <3>5, <4>1, <4>2
      <3> QED BY ONLY <3>4, <3>5 DEF Final
    <2> QED BY <2>1, <2>2
  <1>4. ASSUME NEW done, NEW n, Final(p, FALSE, n)
        PROVE  Final(t, done, n)
    <2>1. PICK j \in DOMAIN p : /\ Carries(p[j]) /\ p[j].version = n
                                /\ \A k \in DOMAIN p : Carries(p[k]) => k <= j
      BY <1>4 DEF Final
    <2>2. l + j \in DOMAIN t /\ Carries(t[l + j]) /\ t[l + j].version = n /\ j \in Nat
      BY ONLY <1>1, <2>1
    <2>3. ASSUME NEW k \in DOMAIN t, Carries(t[k]) PROVE k <= l + j
      <3>1. CASE k \in DOMAIN q
        <4>1. k <= l /\ k \in Nat
          BY ONLY <1>1, <3>1
        <4> QED BY ONLY <1>1, <2>2, <4>1
      <3>2. ASSUME NEW i \in DOMAIN p, k = l + i PROVE k <= l + j
        <4>1. i <= j /\ i \in Nat
          BY ONLY <1>1, <2>1, <2>3, <3>2
        <4> QED BY ONLY <1>1, <2>2, <3>2, <4>1
      <3> QED BY ONLY <1>1, <2>3, <3>1, <3>2
    <2> QED BY ONLY <2>2, <2>3 DEF Final
  <1>5. ASSUME NEW kind, NEW formats
        PROVE  Asks(t, kind, formats) <=> Asks(q, kind, formats) \/ Asks(p, kind, formats)
    BY ONLY <1>1 DEF Asks
  <1>6. ASSUME NEW formats, NEW n, Announced(q, formats, n), Fresh(p, n)
        PROVE  Announced(t, formats, n)
    BY ONLY SMTT(20), <1>1, <1>6 DEF Announced, Fresh
  <1>7. ASSUME NEW formats, NEW n, Announced(p, formats, n)
        PROVE  Announced(t, formats, n)
    <2>1. PICK i \in DOMAIN p :
            /\ p[i].kind = "notify" /\ p[i].formats \cap formats # {}
            /\ \A j \in DOMAIN p : i < j /\ Carries(p[j]) => p[j].version = n
      BY <1>7 DEF Announced
    <2>2. l + i \in DOMAIN t /\ t[l + i] = p[i] /\ i \in Nat
      BY ONLY <1>1, <2>1
    <2>3. ASSUME NEW k \in DOMAIN t, l + i < k, Carries(t[k])
          PROVE  t[k].version = n
      <3>1. k \notin DOMAIN q
        <4>1. SUFFICES ASSUME k \in DOMAIN q PROVE FALSE
          OBVIOUS
        <4>2. k \in Nat /\ k <= l
          BY ONLY <1>1, <4>1
        <4> QED BY ONLY <1>1, <2>2, <2>3, <4>2
      <3>2. PICK j \in DOMAIN p : k = l + j
        BY ONLY <1>1, <2>3, <3>1
      <3>3. j \in Nat /\ i < j
        BY ONLY <1>1, <2>2, <2>3, <3>2
      <3> QED BY ONLY <1>1, <2>1, <2>3, <3>2, <3>3
    <2> QED BY ONLY <2>1, <2>2, <2>3 DEF Announced
  <1> QED BY ONLY Zenon, <1>2, <1>3, <1>4, <1>5, <1>6, <1>7 DEF t

LEMMA Taken ==
    ASSUME NEW S, NEW q \in Seq(S), q # <<>>
    PROVE  /\ \A done, n : Final(q, done, n) =>
                Final(Tail(q), IF Carries(Head(q)) THEN Head(q).version = n ELSE done, n)
           /\ \A kind, formats : Asks(q, kind, formats) =>
                \/ Head(q).kind = kind /\ Head(q).formats \cap formats # {}
                \/ Asks(Tail(q), kind, formats)
  <1> DEFINE t == Tail(q)
  <1>1. /\ Len(q) \in Nat \ {0} /\ DOMAIN q = 1 .. Len(q) /\ Head(q) = q[1]
        /\ DOMAIN t = 1 .. Len(q) - 1 /\ \A i \in DOMAIN t : t[i] = q[i + 1]
    BY TailIs
  <1> HIDE DEF t
  <1>2. /\ \A i \in DOMAIN t : i \in Nat /\ i + 1 \in DOMAIN q /\ t[i] = q[i + 1] /\ ~(i + 1 <= 1)
        /\ \A i \in DOMAIN q : i = 1 \/ (i \in Nat /\ i - 1 \in DOMAIN t /\ t[i - 1] = q[i])
        /\ 1 \in DOMAIN q
    BY ONLY <1>1
  <1>3. ASSUME NEW done, NEW n, Final(q, done, n)
        PROVE  Final(t, IF Carries(Head(q)) THEN Head(q).version = n ELSE done, n)
    <2>1. CASE done /\ \A i \in DOMAIN q : ~Carries(q[i])
      BY ONLY <1>1, <1>2, <2>1 DEF Final
    <2>2. ASSUME NEW i \in DOMAIN q, Carries(q[i]), q[i].version = n,
                 \A j \in DOMAIN q : Carries(q[j]) => j <= i
          PROVE  Final(t, IF Carries(Head(q)) THEN Head(q).version = n ELSE done, n)
      <3>1. CASE i = 1
        <4>1. \A j \in DOMAIN t : ~Carries(t[j])
          BY ONLY <1>2, <2>2, <3>1
        <4> QED BY ONLY <1>1, <2>2, <3>1, <4>1 DEF Final
      <3>2. CASE i # 1
        <4>1. i - 1 \in DOMAIN t /\ Carries(t[i - 1]) /\ t[i - 1].version = n /\ i \in Nat
          BY ONLY Zenon, <1>2, <2>2, <3>2
        <4>2. ASSUME NEW j \in DOMAIN t, Carries(t[j]) PROVE j <= i - 1
          <5>1. j + 1 \in DOMAIN q /\ Carries(q[j + 1]) /\ j \in Nat
            BY ONLY <1>2, <4>2
          <5>2. j + 1 <= i
            BY ONLY <2>2, <5>1
          <5> QED BY ONLY <4>1, <5>1, <5>2
        <4> QED BY ONLY <4>1, <4>2 DEF Final
      <3> QED BY <3>1, <3>2
    <2> QED BY ONLY <1>3, <2>1, <2>2 DEF Final
  <1>4. ASSUME NEW kind, NEW formats, Asks(q, kind, formats)
        PROVE  \/ Head(q).kind = kind /\ Head(q).formats \cap formats # {}
               \/ Asks(t, kind, formats)
    BY ONLY <1>1, <1>2, <1>4 DEF Asks
  <1> QED BY ONLY <1>3, <1>4 DEF t

\* The server's capabilities, as the client has them once it was told.
Told == [formats |-> v8.formats, actions |-> v8.actions]

LegacyOnly(q) == \A i \in DOMAIN q : q[i].kind = "legacy"

\* What the server may have sent.
Proper(m) ==
    /\ m.kind \in {"legacy", "caps", "request", "notify", "provide"}
    /\ m.kind = "caps" => m.formats = v8.formats
    /\ Carries(m) => m.formats # {}
    /\ m.kind \in {"request", "notify", "provide"} => v1 = Told
    /\ m.kind = "request" => "provide" \in v8.actions

\* No extended message is on the way before the client was told of the capabilities,
\* and what the session thread has at hand is of the content of now.
Negotiated ==
    /\ v7 = TRUE
    /\ v1 = Clipboard!None \/ v1 = Told
    /\ v3 = <<>> \/ \E m \in Clipboard!Messages : v3 = <<m>>
    /\ Fresh(v3, v2.version)
    /\ \A i \in DOMAIN v6 : Proper(v6[i])
    /\ v1 = Clipboard!None =>
         v9 = FALSE /\ LegacyOnly(v3) /\ LegacyOnly(v4) /\ LegacyOnly(v5)

\* The formats of the host's content that the server takes.
Offered == v2.formats \cap v1.formats

\* Before, the last content on the way is the host's of now, or the server has it.  After,
\* a notice of it is on the way, or the server's request for it, or it is the last one
\* on the way or there; and none that is older can follow.
ServerWillHave ==
    /\ v1 = Clipboard!None /\ "text" \in v2.formats =>
         Final((v5 \o v4) \o v3, v11 = v2.version, v2.version)
    /\ v1 # Clipboard!None /\ Offered # {} /\ {"notify", "provide"} \subseteq v1.actions =>
         \/ Asks(v3, "notify", Offered)
         \/ Announced(v4, Offered, v2.version)
         \/ /\ Fresh(v4, v2.version)
            /\ \/ Asks(v5, "notify", Offered)
               \/ Asks(v6, "request", Offered)
               \/ Final(v5, v11 = v2.version, v2.version)

\* A notice of the server's content of now is on the way, or the client's request, or
\* it is the last content on the way, or the host has it.
HostWillHave ==
    v1 = Clipboard!None \/ "request" \in v1.actions =>
         \/ Asks(v6, "notify", v10.formats)
         \/ Asks(v5, "request", v10.formats)
         \/ Final(v6, v10.version \in {v12.text, v12.image}, v10.version)

ClipInv == Clipboard!TypeOK /\ Negotiated /\ ServerWillHave /\ HostWillHave

LEMMA ClipStart ==
    ASSUME BoundsAssumption, Clipboard!Init
    PROVE  ClipInv
  <1> USE DEF Clipboard!Init
  <1>1. Copies \in Nat
    BY DEF BoundsAssumption
  <1>2. /\ v1 = Clipboard!None /\ v2 = Clipboard!NoContent /\ v7 = TRUE /\ v9 = FALSE
        /\ v3 = <<>> /\ v4 = <<>> /\ v5 = <<>> /\ v6 = <<>>
        /\ v10 = Clipboard!NoContent /\ v11 = 0 /\ v12 = [text |-> 0, image |-> 0]
    OBVIOUS
  <1>3. Clipboard!TypeOK
    <2>1. v12 \in [text : 0 .. Copies, image : 0 .. Copies] /\ v11 \in 0 .. Copies
      BY ONLY <1>1, <1>2
    <2>2. v8 \in [formats : SUBSET Clipboard!Formats, actions : SUBSET Clipboard!Actions, sent : BOOLEAN]
      BY Zenon
    <2> QED BY Zenon, <1>2, <2>1, <2>2, EmptyIs DEF Clipboard!TypeOK
  <1>4. Negotiated
    BY ONLY <1>2, EmptyIs, NoneQueued DEF Negotiated, LegacyOnly
  <1>5. ServerWillHave
    BY ONLY <1>2 DEF ServerWillHave, Clipboard!NoContent
  <1>6. HostWillHave
    <2>1. v10.version = 0 /\ v12.text = 0
      BY <1>2 DEF Clipboard!NoContent
    <2>2. Final(v6, v10.version \in {v12.text, v12.image}, v10.version)
      BY ONLY <1>2, <2>1, EmptyIs DEF Final
    <2> QED BY ONLY <2>2 DEF HostWillHave
  <1> QED BY <1>3, <1>4, <1>5, <1>6 DEF ClipInv

LEMMA ContentIs ==
    ASSUME BoundsAssumption, NEW c \in {Clipboard!NoContent} \cup Clipboard!Contents
    PROVE  /\ c.version \in 0 .. Copies /\ c.version \in Nat
           /\ c.formats \in SUBSET Clipboard!Formats
           /\ c # Clipboard!NoContent => c.formats # {}
  <1>1. Copies \in Nat
    BY DEF BoundsAssumption
  <1>2. CASE c = Clipboard!NoContent
    BY <1>1, <1>2 DEF Clipboard!NoContent
  <1>3. CASE c \in Clipboard!Contents
    <2> DEFINE nonempty == (SUBSET Clipboard!Formats) \ {{}}
    <2>1. c.version \in 1 .. Copies /\ c.formats \in nonempty
      BY <1>3 DEF Clipboard!Contents
    <2> QED BY ONLY <1>1, <2>1
  <1> QED BY <1>2, <1>3

LEMMA ClipTypes ==
    ASSUME BoundsAssumption, Clipboard!TypeOK
    PROVE  /\ v3 \in Seq(Clipboard!Messages) /\ v4 \in Seq(Clipboard!Messages)
           /\ v5 \in Seq(Clipboard!Messages) /\ v6 \in Seq(Clipboard!Messages)
           /\ Copies \in Nat /\ 0 \in 0 .. Copies
           /\ v2.version \in 0 .. Copies /\ v2.formats \in SUBSET Clipboard!Formats
           /\ v10.version \in 0 .. Copies /\ v10.formats \in SUBSET Clipboard!Formats
           /\ v10 # Clipboard!NoContent => v10.formats # {}
           /\ Told # Clipboard!None /\ Told.formats = v8.formats /\ Told.actions = v8.actions
           /\ v8.formats \in SUBSET Clipboard!Formats
           /\ v9 \in BOOLEAN
  <1>1. Copies \in Nat /\ 0 \in 0 .. Copies
    BY DEF BoundsAssumption
  <1>2. /\ v3 \in Seq(Clipboard!Messages) /\ v4 \in Seq(Clipboard!Messages)
        /\ v5 \in Seq(Clipboard!Messages) /\ v6 \in Seq(Clipboard!Messages)
        /\ v9 \in BOOLEAN
    BY DEF Clipboard!TypeOK
  <1>3. /\ v2 \in {Clipboard!NoContent} \cup Clipboard!Contents
        /\ v10 \in {Clipboard!NoContent} \cup Clipboard!Contents
    BY DEF Clipboard!TypeOK
  <1>4. /\ v2.version \in 0 .. Copies /\ v2.formats \in SUBSET Clipboard!Formats
        /\ v10.version \in 0 .. Copies /\ v10.formats \in SUBSET Clipboard!Formats
        /\ v10 # Clipboard!NoContent => v10.formats # {}
    BY <1>3, ContentIs
  <1>5. /\ v8.formats \in SUBSET Clipboard!Formats /\ v8.actions \in SUBSET Clipboard!Actions
    BY Zenon DEF Clipboard!TypeOK
  <1>6. Told.formats = v8.formats /\ Told.actions = v8.actions /\ Clipboard!None.actions = {"none"}
    BY DEF Told, Clipboard!None
  <1>7. "none" \notin Clipboard!Actions
    BY DEF Clipboard!Actions
  <1> QED BY ONLY <1>1, <1>2, <1>4, <1>5, <1>6, <1>7

LEMMA ClipMessages ==
    ASSUME NEW kind \in {"legacy", "caps", "request", "peek", "notify", "provide"},
           NEW formats \in SUBSET Clipboard!Formats, NEW version \in 0 .. Copies
    PROVE  LET m == Clipboard!Message(kind, formats, version) IN
           /\ m \in Clipboard!Messages
           /\ m.kind = kind /\ m.formats = formats /\ m.version = version
  BY DEF Clipboard!Message, Clipboard!Messages

\* The formats that are announced are those offered, with a content of now.
AtMostOne(a, n, known) ==
    a = <<>> \/ \E m \in Clipboard!Messages :
                   /\ a = <<m>> /\ (Carries(m) => m.version = n)
                   /\ m.kind \in {"legacy", "notify", "provide"}
                   /\ (known = Clipboard!None => m.kind = "legacy")
TextItself(a, n) ==
    \E m \in Clipboard!Messages : a = <<m>> /\ m.kind = "legacy" /\ m.version = n
NoticeOf(a, formats) ==
    \E m \in Clipboard!Messages : a = <<m>> /\ m.kind = "notify" /\ m.formats = formats

LEMMA AnnouncedIs ==
    ASSUME BoundsAssumption, Clipboard!TypeOK, NEW known,
           known = Clipboard!None \/ known = Told,
           NEW content \in {Clipboard!NoContent} \cup Clipboard!Contents,
           NEW a, a = Clipboard!Announcement(content, known)
    PROVE  /\ AtMostOne(a, content.version, known)
           /\ known = Clipboard!None /\ "text" \in content.formats => TextItself(a, content.version)
           /\ known # Clipboard!None /\ content.formats \cap known.formats # {}
                /\ {"notify", "provide"} \subseteq known.actions =>
                NoticeOf(a, content.formats \cap known.formats)
  <1> DEFINE f == content.formats \cap known.formats
             l == Clipboard!Message("legacy", {"text"}, content.version)
             n == Clipboard!Message("notify", f, 0)
             p == Clipboard!Message("provide", f, content.version)
  <1>1. /\ Copies \in Nat /\ content.version \in 0 .. Copies /\ content.formats \subseteq Clipboard!Formats
        /\ 0 \in 0 .. Copies
    BY DEF BoundsAssumption, Clipboard!NoContent, Clipboard!Contents
  <1>2. /\ l \in Clipboard!Messages /\ l.kind = "legacy" /\ l.version = content.version
        /\ n \in Clipboard!Messages /\ n.kind = "notify" /\ n.formats = f
        /\ p \in Clipboard!Messages /\ p.kind = "provide" /\ p.version = content.version
    <2>1. f \in SUBSET Clipboard!Formats /\ {"text"} \in SUBSET Clipboard!Formats
      BY <1>1 DEF Clipboard!Formats
    <2> QED BY ONLY <1>1, <2>1, ClipMessages
  <1>3. \/ content = Clipboard!NoContent /\ a = <<>>
        \/ content # Clipboard!NoContent /\ known = Clipboard!None
             /\ a = IF "text" \in content.formats THEN <<l>> ELSE <<>>
        \/ content # Clipboard!NoContent /\ known # Clipboard!None
             /\ a = IF f = {} THEN <<>> ELSE IF "notify" \in known.actions THEN <<n>>
                    ELSE IF "provide" \in known.actions THEN <<p>> ELSE <<>>
    BY Zenon DEF Clipboard!Announcement, Clipboard!OutgoingFormats
  <1> HIDE DEF f, l, n, p
  <1>4. content = Clipboard!NoContent => content.formats = {}
    BY DEF Clipboard!NoContent
  <1>5. content.formats = {} => f = {}
    BY DEF f
  <1>6. ~Carries(n)
    BY ONLY <1>2 DEF Carries
  <1>7. CASE content = Clipboard!NoContent
    BY ONLY <1>3, <1>4, <1>5, <1>7 DEF f, AtMostOne
  <1>8. CASE content # Clipboard!NoContent /\ known = Clipboard!None
    BY ONLY <1>2, <1>3, <1>8 DEF AtMostOne, TextItself
  <1>9. CASE content # Clipboard!NoContent /\ known # Clipboard!None
    BY ONLY <1>2, <1>3, <1>6, <1>9 DEF f, AtMostOne, NoticeOf
  <1> QED BY <1>7, <1>8, <1>9

LEMMA LegacyJoined ==
    ASSUME NEW S, NEW q \in Seq(S), NEW p \in Seq(S), LegacyOnly(q), LegacyOnly(p)
    PROVE  LegacyOnly(q \o p)
  <1>1. ASSUME NEW k \in DOMAIN (q \o p) PROVE (q \o p)[k].kind = "legacy"
    <2>1. CASE k \in DOMAIN q
      BY <2>1, JoinIs DEF LegacyOnly
    <2>2. CASE k \notin DOMAIN q
      BY <2>2, JoinIs DEF LegacyOnly
    <2> QED BY <2>1, <2>2
  <1> QED BY ONLY <1>1 DEF LegacyOnly

LEMMA FinalWeaker ==
    ASSUME NEW q, NEW done, NEW then, done => then, NEW n, Final(q, done, n)
    PROVE  Final(q, then, n)
  BY DEF Final

LEMMA AnnouncedAsks ==
    ASSUME NEW q, NEW formats, NEW n, Announced(q, formats, n)
    PROVE  Asks(q, "notify", formats)
  BY DEF Announced, Asks

LEMMA ClipEnqueue ==
    ASSUME BoundsAssumption, ClipInv, Clipboard!Enqueue
    PROVE  ClipInv'
  <1> DEFINE S == Clipboard!Messages
  <1>1. /\ v3 \in Seq(S) /\ v4 \in Seq(S) /\ v5 \in Seq(S) /\ v6 \in Seq(S)
    BY Zenon, ClipTypes DEF ClipInv
  <1>2. /\ v4' = v4 \o v3 /\ v3' = <<>> /\ v1' = v1 /\ v2' = v2 /\ v5' = v5 /\ v6' = v6
        /\ v7' = v7 /\ v8' = v8 /\ v9' = v9 /\ v10' = v10 /\ v11' = v11 /\ v12' = v12
    BY DEF Clipboard!Enqueue, Clipboard!clientVars, Clipboard!serverVars
  <1> HIDE DEF S
  <1>3. v4' \in Seq(S) /\ v3' \in Seq(S)
    BY ONLY <1>1, <1>2, ConcatProperties, EmptyIs
  <1>4. Clipboard!TypeOK'
    BY Zenon, <1>2, <1>3 DEF ClipInv, Clipboard!TypeOK, S
  <1>5. Negotiated'
    <2>1. LegacyOnly(v4) /\ LegacyOnly(v3) => LegacyOnly(v4')
      BY ONLY <1>1, <1>2, LegacyJoined
    <2>2. LegacyOnly(v3')
      BY ONLY <1>2, EmptyIs DEF LegacyOnly
    <2> QED BY Zenon, <1>2, <2>1, <2>2, NoneQueued DEF ClipInv, Negotiated, Proper, Told
  <1>6. ServerWillHave'
    <2>1. Fresh(v3, v2.version)
      BY DEF ClipInv, Negotiated
    <2>2. (v5 \o (v4 \o v3)) \o <<>> = (v5 \o v4) \o v3
      <3>1. (v5 \o v4) \o v3 = v5 \o (v4 \o v3)
        BY ONLY <1>1, Associative
      <3>2. v5 \o v4 \in Seq(S)
        BY ONLY <1>1, ConcatProperties
      <3>3. (v5 \o v4) \o v3 \in Seq(S)
        BY ONLY <1>1, <3>2, ConcatProperties
      <3> QED BY ONLY <3>1, <3>3, ConcatEmptySeq
    <2>3. /\ Fresh(v4, v2.version) => Fresh(v4', v2.version)
          /\ Announced(v4, Offered, v2.version) => Announced(v4', Offered, v2.version)
      BY ONLY Zenon, <1>1, <1>2, <2>1, Joined
    <2>4. v1 # Clipboard!None /\ Asks(v3, "notify", Offered) => Announced(v4', Offered, v2.version)
      <3>1. ASSUME Asks(v3, "notify", Offered) PROVE Announced(v3, Offered, v2.version)
        BY ONLY <2>1, <3>1 DEF Asks, Announced, Fresh
      <3> QED BY ONLY Zenon, <1>1, <1>2, <3>1, Joined
    <2>5. Offered' = Offered
      BY ONLY <1>2 DEF Offered
    <2>6. ServerWillHave
      BY DEF ClipInv
    <2> QED BY ONLY Zenon, <1>2, <2>2, <2>3, <2>4, <2>5, <2>6 DEF ServerWillHave
  <1>7. HostWillHave'
    BY <1>2 DEF ClipInv, HostWillHave
  <1> QED BY <1>4, <1>5, <1>6, <1>7 DEF ClipInv

LEMMA ClipDrain ==
    ASSUME BoundsAssumption, ClipInv, Clipboard!Drain
    PROVE  ClipInv'
  <1> DEFINE S == Clipboard!Messages
  <1>1. /\ v3 \in Seq(S) /\ v4 \in Seq(S) /\ v5 \in Seq(S) /\ v6 \in Seq(S)
    BY Zenon, ClipTypes DEF ClipInv
  <1>2. /\ v5' = v5 \o v4 /\ v4' = <<>> /\ v1' = v1 /\ v2' = v2 /\ v3' = v3 /\ v6' = v6
        /\ v7' = v7 /\ v8' = v8 /\ v9' = v9 /\ v10' = v10 /\ v11' = v11 /\ v12' = v12
    BY DEF Clipboard!Drain, Clipboard!clientVars, Clipboard!serverVars
  <1> HIDE DEF S
  <1>3. v5' \in Seq(S) /\ v4' \in Seq(S)
    BY ONLY <1>1, <1>2, ConcatProperties, EmptyIs
  <1>4. Clipboard!TypeOK'
    BY Zenon, <1>2, <1>3 DEF ClipInv, Clipboard!TypeOK, S
  <1>5. Negotiated'
    <2>1. LegacyOnly(v5) /\ LegacyOnly(v4) => LegacyOnly(v5')
      BY ONLY <1>1, <1>2, LegacyJoined
    <2>2. LegacyOnly(v4')
      BY ONLY <1>2, EmptyIs DEF LegacyOnly
    <2> QED BY Zenon, <1>2, <2>1, <2>2 DEF ClipInv, Negotiated, Proper, Told
  <1>6. ServerWillHave'
    <2>1. ServerWillHave
      BY DEF ClipInv
    <2>2. v5' \o v4' = v5 \o v4
      BY ONLY <1>1, <1>2, ConcatEmptySeq, ConcatProperties
    <2>3. /\ Asks(v4, "notify", Offered) => Asks(v5', "notify", Offered)
          /\ Asks(v5, "notify", Offered) => Asks(v5', "notify", Offered)
          /\ Fresh(v4, v2.version) /\ Final(v5, v11 = v2.version, v2.version)
               => Final(v5', v11 = v2.version, v2.version)
      BY ONLY Zenon, <1>1, <1>2, Joined
    <2>4. Announced(v4, Offered, v2.version) => Asks(v5', "notify", Offered)
      BY ONLY <2>3, AnnouncedAsks
    <2>5. Offered' = Offered
      BY ONLY <1>2 DEF Offered
    <2> QED BY ONLY <1>2, <2>1, <2>2, <2>3, <2>4, <2>5, NoneQueued DEF ServerWillHave
  <1>7. HostWillHave'
    <2>1. Asks(v5, "request", v10.formats) => Asks(v5', "request", v10.formats)
      BY ONLY Zenon, <1>1, <1>2, Joined
    <2> QED BY <1>2, <2>1 DEF ClipInv, HostWillHave
  <1> QED BY <1>4, <1>5, <1>6, <1>7 DEF ClipInv

\* What is put behind the server's messages: it must not be an older content of the
\* server, and what was asked for stays asked for.
LEMMA ServerSent ==
    ASSUME NEW S, NEW q \in Seq(S), NEW m \in S
    PROVE  /\ Append(q, m) \in Seq(S)
           /\ \A kind, formats : Asks(q, kind, formats) => Asks(Append(q, m), kind, formats)
           /\ \A done, n : Final(q, done, n) /\ (Carries(m) => m.version = n)
                             => Final(Append(q, m), done, n)
           /\ \A kind, formats : m.kind = kind /\ m.formats \cap formats # {}
                                   => Asks(Append(q, m), kind, formats)
           /\ \A done : Carries(m) => Final(Append(q, m), done, m.version)
  <1> DEFINE p == <<m>>
  <1>1. p \in Seq(S) /\ Append(q, m) = q \o p /\ Append(q, m) \in Seq(S)
    BY AppendIsConcat
  <1>2. /\ \A n : Fresh(p, n) <=> (Carries(m) => m.version = n)
        /\ \A done : Carries(m) => Final(p, done, m.version)
        /\ \A kind, formats : Asks(p, kind, formats) <=> m.kind = kind /\ m.formats \cap formats # {}
    BY OneQueued
  <1> HIDE DEF p
  <1>3. /\ \A done, n : Final(q, done, n) /\ Fresh(p, n) => Final(q \o p, done, n)
        /\ \A done, n : Final(p, FALSE, n) => Final(q \o p, done, n)
        /\ \A kind, formats : Asks(q \o p, kind, formats)
                                <=> Asks(q, kind, formats) \/ Asks(p, kind, formats)
    BY ONLY Zenon, <1>1, Joined
  <1>4. ASSUME NEW kind, NEW formats, Asks(q, kind, formats)
        PROVE  Asks(Append(q, m), kind, formats)
    BY ONLY <1>1, <1>3, <1>4
  <1>5. ASSUME NEW done, NEW n, Final(q, done, n), Carries(m) => m.version = n
        PROVE  Final(Append(q, m), done, n)
    BY ONLY <1>1, <1>2, <1>3, <1>5
  <1>6. ASSUME NEW kind, NEW formats, m.kind = kind, m.formats \cap formats # {}
        PROVE  Asks(Append(q, m), kind, formats)
    BY ONLY <1>1, <1>2, <1>3, <1>6
  <1>7. ASSUME NEW done, Carries(m)
        PROVE  Final(Append(q, m), done, m.version)
    BY ONLY Zenon, <1>1, <1>2, <1>3, <1>7
  <1> QED BY ONLY <1>1, <1>4, <1>5, <1>6, <1>7

LEMMA ProperSent ==
    ASSUME NEW S, NEW q \in Seq(S), NEW m \in S, Proper(m), \A i \in DOMAIN q : Proper(q[i])
    PROVE  \A i \in DOMAIN Append(q, m) : Proper(Append(q, m)[i])
  <1>1. /\ Len(q) \in Nat /\ DOMAIN q = 1 .. Len(q) /\ DOMAIN Append(q, m) = 1 .. Len(q) + 1
        /\ Append(q, m)[Len(q) + 1] = m /\ \A i \in DOMAIN q : Append(q, m)[i] = q[i]
    BY BehindIs
  <1>2. \A i \in 1 .. Len(q) + 1 : i \in 1 .. Len(q) \/ i = Len(q) + 1
    BY ONLY <1>1
  <1> QED BY ONLY <1>1, <1>2, Proper(m), \A i \in DOMAIN q : Proper(q[i])

LEMMA ClipServerCaps ==
    ASSUME BoundsAssumption, ClipInv, Clipboard!ServerCaps
    PROVE  ClipInv'
  <1> DEFINE S == Clipboard!Messages  m == Clipboard!Message("caps", v8.formats, 0)
  <1>1. /\ v6 \in Seq(S) /\ 0 \in 0 .. Copies /\ v8.formats \in SUBSET Clipboard!Formats
    BY Zenon, ClipTypes DEF ClipInv
  <1>2. /\ v6' = Append(v6, m) /\ v1' = v1 /\ v2' = v2 /\ v3' = v3 /\ v4' = v4 /\ v5' = v5
        /\ v7' = v7 /\ v8' = [v8 EXCEPT !.sent = TRUE] /\ v9' = v9 /\ v10' = v10
        /\ v11' = v11 /\ v12' = v12
    BY DEF Clipboard!ServerCaps, Clipboard!clientVars, Clipboard!serverVars, Clipboard!Send
  <1>3. m \in S /\ m.kind = "caps" /\ m.formats = v8.formats
    BY ONLY <1>1, ClipMessages
  <1>4. v8 \in [formats : SUBSET Clipboard!Formats, actions : SUBSET Clipboard!Actions,
                sent : BOOLEAN]
    BY Zenon DEF ClipInv, Clipboard!TypeOK
  <1>5. /\ v8' \in [formats : SUBSET Clipboard!Formats, actions : SUBSET Clipboard!Actions,
                    sent : BOOLEAN]
        /\ v8'.formats = v8.formats /\ v8'.actions = v8.actions
    BY ONLY Zenon, <1>2, <1>4
  <1> HIDE DEF S, m
  <1>6. ~Carries(m)
    BY ONLY <1>3 DEF Carries
  <1>7. /\ v6' \in Seq(S)
        /\ \A kind, formats : Asks(v6, kind, formats) => Asks(v6', kind, formats)
        /\ \A done, n : Final(v6, done, n) => Final(v6', done, n)
    BY ONLY <1>1, <1>2, <1>3, <1>6, ServerSent
  <1>8. Clipboard!TypeOK'
    BY Zenon, <1>2, <1>5, <1>7 DEF ClipInv, Clipboard!TypeOK, S
  <1>9. Told' = Told
    BY ONLY <1>5 DEF Told
  <1>10. Negotiated'
    <2>1. Negotiated
      BY DEF ClipInv
    <2>2. Proper(m)
      BY ONLY <1>3, <1>6 DEF Proper
    <2>3. \A i \in DOMAIN v6' : Proper(v6'[i])
      BY ONLY <1>1, <1>2, <1>3, <2>1, <2>2, ProperSent DEF Negotiated
    <2>4. (\A i \in DOMAIN v6 : Proper(v6[i]))'
      BY ONLY <1>2, <1>5, <1>9, <2>3 DEF Proper
    <2> QED BY ONLY <1>2, <1>9, <2>1, <2>4 DEF Negotiated
  <1>11. ServerWillHave'
    <2>1. ServerWillHave
      BY DEF ClipInv
    <2>2. Offered' = Offered
      BY ONLY <1>2 DEF Offered
    <2> QED BY ONLY <1>2, <1>7, <2>1, <2>2 DEF ServerWillHave
  <1>12. HostWillHave'
    <2>1. HostWillHave
      BY DEF ClipInv
    <2> QED BY ONLY <1>2, <1>7, <2>1 DEF HostWillHave
  <1> QED BY <1>8, <1>10, <1>11, <1>12 DEF ClipInv

LEMMA ClipServerCopies ==
    ASSUME BoundsAssumption, ClipInv, Clipboard!ServerCopies
    PROVE  ClipInv'
  <1> DEFINE S == Clipboard!Messages
  <1>1. PICK f \in (IF v9 THEN (SUBSET Clipboard!Formats) \ {{}} ELSE {{"text"}}) :
          /\ v10' = [version |-> v10.version + 1, formats |-> f]
          /\ v6' = Append(v6, IF v9 THEN Clipboard!Message("notify", f, 0)
                              ELSE Clipboard!Message("legacy", f, v10'.version))
    BY Zenon DEF Clipboard!ServerCopies, Clipboard!Send
  <1>2. /\ v1' = v1 /\ v2' = v2 /\ v3' = v3 /\ v4' = v4 /\ v5' = v5
        /\ v7' = v7 /\ v8' = v8 /\ v9' = v9 /\ v11' = v11 /\ v12' = v12
        /\ v2.version + v10.version < Copies
    BY DEF Clipboard!ServerCopies, Clipboard!clientVars, Clipboard!serverVars
  <1>3. /\ v6 \in Seq(S) /\ Copies \in Nat /\ 0 \in 0 .. Copies /\ v9 \in BOOLEAN
        /\ v2.version \in 0 .. Copies /\ v10.version \in 0 .. Copies
        /\ Told # Clipboard!None
    BY Zenon, ClipTypes DEF ClipInv
  <1>4. f \in SUBSET Clipboard!Formats /\ f # {}
    BY Zenon, <1>1, <1>3 DEF Clipboard!Formats
  <1>5. v10.version + 1 \in 1 .. Copies /\ v10.version + 1 \in 0 .. Copies
    BY ONLY <1>2, <1>3
  <1>6. v10'.version = v10.version + 1 /\ v10'.formats = f
    BY ONLY <1>1
  <1>7. v10' \in Clipboard!Contents
    <2> DEFINE nonempty == (SUBSET Clipboard!Formats) \ {{}}
    <2>1. f \in nonempty
      BY ONLY <1>4
    <2> HIDE DEF nonempty
    <2>2. v10' \in [version : 1 .. Copies, formats : nonempty]
      BY ONLY <1>1, <1>5, <2>1
    <2> QED BY ONLY <2>2 DEF Clipboard!Contents, nonempty
  <1> DEFINE m == IF v9 THEN Clipboard!Message("notify", f, 0)
                  ELSE Clipboard!Message("legacy", f, v10'.version)
  <1>8. m \in S /\ m.formats = f /\ m.kind = (IF v9 THEN "notify" ELSE "legacy")
        /\ (~v9 => m.version = v10'.version)
    BY ONLY <1>3, <1>4, <1>5, <1>6, ClipMessages
  <1>9. v6' = Append(v6, m)
    BY ONLY <1>1
  <1> HIDE DEF S, m
  <1>10. /\ v6' \in Seq(S)
         /\ \A kind, formats : Asks(v6, kind, formats) => Asks(v6', kind, formats)
         /\ \A kind, formats : m.kind = kind /\ m.formats \cap formats # {} => Asks(v6', kind, formats)
         /\ \A done : Carries(m) => Final(v6', done, m.version)
    BY ONLY Zenon, <1>3, <1>8, <1>9, ServerSent
  <1>11. Clipboard!TypeOK'
    BY Zenon, <1>2, <1>7, <1>10 DEF ClipInv, Clipboard!TypeOK, S
  <1>12. Told' = Told
    BY ONLY <1>2 DEF Told
  <1>13. Negotiated'
    <2>1. Negotiated
      BY DEF ClipInv
    <2>2. v9 => v1 = Told
      BY ONLY <1>3, <2>1 DEF Negotiated
    <2>3. Proper(m)
      BY ONLY <1>4, <1>8, <2>2 DEF Proper
    <2>4. \A i \in DOMAIN v6' : Proper(v6'[i])
      BY ONLY <1>3, <1>8, <1>9, <2>1, <2>3, ProperSent DEF Negotiated
    <2>5. (\A i \in DOMAIN v6 : Proper(v6[i]))'
      BY ONLY <1>2, <1>12, <2>4 DEF Proper
    <2> QED BY ONLY <1>2, <1>12, <2>1, <2>5 DEF Negotiated
  <1>14. ServerWillHave'
    <2>1. ServerWillHave
      BY DEF ClipInv
    <2>2. Offered' = Offered
      BY ONLY <1>2 DEF Offered
    <2> QED BY ONLY <1>2, <1>10, <2>1, <2>2 DEF ServerWillHave
  <1>15. HostWillHave'
    <2>1. CASE v9
      <3>1. Asks(v6', "notify", v10'.formats)
        BY ONLY <1>4, <1>6, <1>8, <1>10, <2>1
      <3> QED BY ONLY <3>1 DEF HostWillHave
    <2>2. CASE ~v9
      <3>1. Carries(m) /\ m.version = v10'.version
        BY ONLY <1>8, <2>2 DEF Carries
      <3>2. Final(v6', v10'.version \in {v12'.text, v12'.image}, v10'.version)
        BY ONLY <1>10, <3>1
      <3> QED BY ONLY <3>2 DEF HostWillHave
    <2> QED BY <2>1, <2>2
  <1> QED BY <1>11, <1>13, <1>14, <1>15 DEF ClipInv

LEMMA ClipSetLocal ==
    ASSUME BoundsAssumption, ClipInv, Clipboard!SetLocal
    PROVE  ClipInv'
  <1> DEFINE S == Clipboard!Messages
  <1>1. PICK format \in {"text", "dib"} :
          v2' = [version |-> v2.version + 1, formats |-> {format}]
    BY Zenon DEF Clipboard!SetLocal
  <1>2. /\ v1' = v1 /\ v3 = <<>> /\ v4' = v4 /\ v5' = v5 /\ v6' = v6
        /\ v7' = v7 /\ v8' = v8 /\ v9' = v9 /\ v10' = v10 /\ v11' = v11 /\ v12' = v12
        /\ v3' = Clipboard!Announcement(v2', v1)
        /\ v2.version + v10.version < Copies
    BY DEF Clipboard!SetLocal, Clipboard!serverVars
  <1>3. /\ v4 \in Seq(S) /\ v5 \in Seq(S) /\ v6 \in Seq(S) /\ Copies \in Nat
        /\ v2.version \in 0 .. Copies /\ v10.version \in 0 .. Copies
    BY Zenon, ClipTypes DEF ClipInv
  <1>4. v2' \in Clipboard!Contents
    <2> DEFINE nonempty == (SUBSET Clipboard!Formats) \ {{}}
    <2>1. {format} \in nonempty
      BY DEF Clipboard!Formats
    <2>2. v2.version + 1 \in 1 .. Copies
      BY ONLY <1>2, <1>3
    <2> HIDE DEF nonempty
    <2>3. v2' \in [version : 1 .. Copies, formats : nonempty]
      BY ONLY <1>1, <2>1, <2>2
    <2> QED BY ONLY <2>3 DEF Clipboard!Contents, nonempty
  <1>5. Negotiated /\ HostWillHave
    BY DEF ClipInv
  <1>6. v1 = Clipboard!None \/ v1 = Told
    BY ONLY <1>5 DEF Negotiated
  <1>7. /\ AtMostOne(v3', v2'.version, v1)
        /\ v1 = Clipboard!None /\ "text" \in v2'.formats => TextItself(v3', v2'.version)
        /\ v1 # Clipboard!None /\ v2'.formats \cap v1.formats # {}
             /\ {"notify", "provide"} \subseteq v1.actions =>
             NoticeOf(v3', v2'.formats \cap v1.formats)
    <2>1. Clipboard!TypeOK
      BY DEF ClipInv
    <2>2. v2' \in {Clipboard!NoContent} \cup Clipboard!Contents
      BY <1>4
    <2> QED BY Zenon, <1>2, <1>6, <2>1, <2>2, AnnouncedIs
  <1> HIDE DEF S
  <1>8. v3' \in Seq(S) /\ Fresh(v3', v2'.version) /\ (v1 = Clipboard!None => LegacyOnly(v3'))
    <2>1. CASE v3' = <<>>
      BY ONLY <2>1, EmptyIs, NoneQueued DEF LegacyOnly
    <2>2. ASSUME NEW m \in S, v3' = <<m>>, Carries(m) => m.version = v2'.version,
                 v1 = Clipboard!None => m.kind = "legacy"
          PROVE  v3' \in Seq(S) /\ Fresh(v3', v2'.version) /\ (v1 = Clipboard!None => LegacyOnly(v3'))
      <3>1. v3' \in Seq(S) /\ DOMAIN v3' = {1} /\ v3'[1] = m
        BY <2>2
      <3>2. Fresh(v3', v2'.version)
        BY ONLY <2>2, OneQueued
      <3> QED BY ONLY <2>2, <3>1, <3>2 DEF LegacyOnly
    <2> QED BY ONLY <1>7, <2>1, <2>2 DEF AtMostOne, S
  <1>9. Clipboard!TypeOK'
    BY Zenon, <1>2, <1>4, <1>8 DEF ClipInv, Clipboard!TypeOK, S
  <1>10. Told' = Told
    BY ONLY <1>2 DEF Told
  <1>11. Negotiated'
    <2>1. v3' = <<>> \/ \E m \in S : v3' = <<m>>
      BY ONLY <1>7 DEF AtMostOne, S
    <2> QED BY ONLY <1>2, <1>5, <1>8, <1>10, <2>1 DEF Negotiated, Proper, S
  <1>12. ServerWillHave'
    <2>1. ASSUME v1 = Clipboard!None, "text" \in v2'.formats
          PROVE  Final((v5' \o v4') \o v3', v11' = v2'.version, v2'.version)
      <3>1. PICK m \in S : v3' = <<m>> /\ m.kind = "legacy" /\ m.version = v2'.version
        BY ONLY <1>7, <2>1 DEF TextItself, S
      <3>2. Final(v3', FALSE, v2'.version)
        <4>1. Carries(m)
          BY ONLY <3>1 DEF Carries
        <4>2. Final(<<m>>, FALSE, m.version)
          BY ONLY Zenon, <4>1, OneQueued
        <4> QED BY ONLY Zenon, <3>1, <4>2
      <3>3. v5 \o v4 \in Seq(S)
        BY ONLY <1>3, ConcatProperties
      <3>4. Final((v5 \o v4) \o v3', v11' = v2'.version, v2'.version)
        BY ONLY Zenon, <1>8, <3>2, <3>3, Joined
      <3> QED BY ONLY <1>2, <3>4
    <2>2. ASSUME v1 # Clipboard!None, Offered' # {}, {"notify", "provide"} \subseteq v1.actions
          PROVE  Asks(v3', "notify", Offered')
      <3>1. Offered' = v2'.formats \cap v1.formats
        BY ONLY <1>2 DEF Offered
      <3>2. PICK m \in S : v3' = <<m>> /\ m.kind = "notify" /\ m.formats = Offered'
        BY ONLY <1>7, <2>2, <3>1 DEF NoticeOf, S
      <3>3. m.formats \cap Offered' # {}
        BY ONLY <2>2, <3>2
      <3> QED BY ONLY <3>2, <3>3, OneQueued
    <2> QED BY ONLY <1>2, <2>1, <2>2 DEF ServerWillHave
  <1>13. HostWillHave'
    BY ONLY <1>2, <1>5 DEF HostWillHave
  <1> QED BY <1>9, <1>11, <1>12, <1>13 DEF ClipInv

LEMMA ProperTail ==
    ASSUME NEW S, NEW q \in Seq(S), q # <<>>
    PROVE  /\ (\A i \in DOMAIN q : Proper(q[i])) =>
                Proper(Head(q)) /\ \A i \in DOMAIN Tail(q) : Proper(Tail(q)[i])
           /\ LegacyOnly(q) => Head(q).kind = "legacy" /\ LegacyOnly(Tail(q))
  <1>1. /\ Len(q) \in Nat \ {0} /\ DOMAIN q = 1 .. Len(q) /\ Head(q) = q[1]
        /\ DOMAIN Tail(q) = 1 .. Len(q) - 1 /\ \A i \in DOMAIN Tail(q) : Tail(q)[i] = q[i + 1]
    BY TailIs
  <1>2. 1 \in DOMAIN q /\ \A i \in DOMAIN Tail(q) : i + 1 \in DOMAIN q
    BY ONLY <1>1
  <1> QED BY ONLY <1>1, <1>2 DEF LegacyOnly

\* What the server answers to a message it takes.
LEMMA ServerAnswer ==
    ASSUME BoundsAssumption, ClipInv, Clipboard!ServerTakes, NEW head, head = Head(v5)
    PROVE  \/ /\ v6' = v6
              /\ ~(head.kind = "notify" /\ "provide" \in v8.actions)
              /\ ~(head.kind = "request" /\ head.formats \cap v10.formats # {})
           \/ \E m \in Clipboard!Messages :
                /\ v6' = Append(v6, m) /\ Proper(m)
                /\ Carries(m) => m.version = v10.version
                /\ head.kind = "notify" => m.kind = "request" /\ m.formats = head.formats
                /\ head.kind = "request" => Carries(m)
  <1> DEFINE S == Clipboard!Messages
             asked == Clipboard!Message("request", head.formats, 0)
             told == Clipboard!Message("notify", v10.formats, 0)
             given == Clipboard!Message("provide", head.formats \cap v10.formats, v10.version)
  <1>1. /\ v5 \in Seq(S) /\ 0 \in 0 .. Copies /\ v10.version \in 0 .. Copies
        /\ v10.formats \in SUBSET Clipboard!Formats
        /\ v10 # Clipboard!NoContent => v10.formats # {}
        /\ Told # Clipboard!None
    BY Zenon, ClipTypes DEF ClipInv
  <1>2. v5 # <<>>
    BY DEF Clipboard!ServerTakes
  <1>3. head \in S
    BY SMTT(20), <1>1, <1>2
  <1>4. /\ head.kind \in {"legacy", "caps", "request", "peek", "notify", "provide"}
        /\ head.formats \in SUBSET Clipboard!Formats
    BY <1>3 DEF Clipboard!Messages
  <1>5. /\ asked \in S /\ asked.kind = "request" /\ asked.formats = head.formats
        /\ told \in S /\ told.kind = "notify" /\ told.formats = v10.formats
        /\ given \in S /\ given.kind = "provide" /\ given.formats = head.formats \cap v10.formats
        /\ given.version = v10.version
    <2>1. head.formats \cap v10.formats \in SUBSET Clipboard!Formats
      BY ONLY <1>1
    <2> QED BY ONLY <1>1, <1>4, <2>1, ClipMessages
  <1>6. \/ head.kind = "notify" /\ "provide" \in v8.actions /\ v6' = Append(v6, asked)
        \/ head.kind = "peek" /\ v10 # Clipboard!NoContent /\ v6' = Append(v6, told)
        \/ /\ head.kind = "request"
           /\ \/ head.formats \cap v10.formats = {} /\ v6' = v6
              \/ head.formats \cap v10.formats # {} /\ v6' = Append(v6, given)
        \/ /\ \/ head.kind \in {"legacy", "caps", "provide"}
              \/ head.kind = "notify" /\ "provide" \notin v8.actions
              \/ head.kind = "peek" /\ v10 = Clipboard!NoContent
           /\ v6' = v6
    BY Zenon DEF Clipboard!ServerTakes, Clipboard!Send
  <1>7. head.kind # "legacy" => v1 = Told
    <2>1. Negotiated
      BY DEF ClipInv
    <2>2. v1 = Clipboard!None => head.kind = "legacy"
      BY ONLY <1>1, <1>2, <2>1, ProperTail, head = Head(v5) DEF Negotiated
    <2> QED BY ONLY <2>1, <2>2 DEF Negotiated
  <1> HIDE DEF S, asked, told, given
  <1>8. CASE head.kind = "notify" /\ "provide" \in v8.actions /\ v6' = Append(v6, asked)
    <2>1. Proper(asked) /\ ~Carries(asked)
      BY ONLY <1>5, <1>7, <1>8 DEF Proper, Carries
    <2> QED BY ONLY <1>5, <1>8, <2>1 DEF S
  <1>9. CASE head.kind = "peek" /\ v10 # Clipboard!NoContent /\ v6' = Append(v6, told)
    <2>1. Proper(told) /\ ~Carries(told)
      BY ONLY <1>5, <1>7, <1>9 DEF Proper, Carries
    <2> QED BY ONLY <1>5, <1>9, <2>1 DEF S
  <1>10. CASE head.kind = "request" /\ head.formats \cap v10.formats # {} /\ v6' = Append(v6, given)
    <2>1. Proper(given) /\ Carries(given)
      BY ONLY <1>5, <1>7, <1>10 DEF Proper, Carries
    <2> QED BY ONLY <1>5, <1>10, <2>1 DEF S
  <1> QED BY ONLY <1>6, <1>8, <1>9, <1>10

LEMMA ClipServerTakes ==
    ASSUME BoundsAssumption, ClipInv, Clipboard!ServerTakes
    PROVE  ClipInv'
  <1> DEFINE S == Clipboard!Messages  head == Head(v5)
  <1>1. /\ v3 \in Seq(S) /\ v4 \in Seq(S) /\ v5 \in Seq(S) /\ v6 \in Seq(S)
        /\ v9 \in BOOLEAN /\ Told # Clipboard!None /\ Told.actions = v8.actions
    BY Zenon, ClipTypes DEF ClipInv
  <1>2. /\ v5 # <<>> /\ v5' = Tail(v5) /\ v1' = v1 /\ v2' = v2 /\ v3' = v3 /\ v4' = v4
        /\ v7' = v7 /\ v8' = v8 /\ v10' = v10 /\ v12' = v12
        /\ v11' = (IF Carries(head) THEN head.version ELSE v11)
    BY DEF Clipboard!ServerTakes, Clipboard!clientVars, Carries
  <1>3. v9' = (v9 \/ head.kind = "caps")
    BY DEF Clipboard!ServerTakes
  <1>4. \/ /\ v6' = v6
           /\ ~(head.kind = "notify" /\ "provide" \in v8.actions)
           /\ ~(head.kind = "request" /\ head.formats \cap v10.formats # {})
        \/ \E m \in S :
             /\ v6' = Append(v6, m) /\ Proper(m)
             /\ Carries(m) => m.version = v10.version
             /\ head.kind = "notify" => m.kind = "request" /\ m.formats = head.formats
             /\ head.kind = "request" => Carries(m)
    BY Zenon, ServerAnswer
  <1>5. head \in S /\ v5' \in Seq(S)
    BY <1>1, <1>2, TailIs
  <1>6. head.version \in 0 .. Copies
    BY Zenon, <1>5 DEF Clipboard!Messages
  <1>7. Negotiated /\ ServerWillHave /\ HostWillHave
    BY DEF ClipInv
  <1>8. Told' = Told /\ Offered' = Offered
    BY ONLY <1>2 DEF Told, Offered
  <1> HIDE DEF S, head
  <1>9. /\ \A i \in DOMAIN v6 : Proper(v6[i])
        /\ v1 = Clipboard!None => v9 = FALSE /\ head.kind = "legacy" /\ LegacyOnly(v5')
    <2>1. /\ \A i \in DOMAIN v6 : Proper(v6[i])
          /\ v1 = Clipboard!None => v9 = FALSE /\ LegacyOnly(v5)
      BY ONLY <1>7 DEF Negotiated
    <2> QED BY ONLY <1>1, <1>2, <2>1, ProperTail DEF head
  <1>10. /\ v6' \in Seq(S)
         /\ \A i \in DOMAIN v6' : Proper(v6'[i])
         /\ \A kind, formats : Asks(v6, kind, formats) => Asks(v6', kind, formats)
         /\ \A done : Final(v6, done, v10.version) => Final(v6', done, v10.version)
         /\ \A formats : head.kind = "notify" /\ "provide" \in v8.actions
                           /\ head.formats \cap formats # {} => Asks(v6', "request", formats)
         /\ head.kind = "request" /\ head.formats \cap v10.formats # {}
              => Final(v6', v10.version \in {v12.text, v12.image}, v10.version)
    <2>1. CASE /\ v6' = v6
               /\ ~(head.kind = "notify" /\ "provide" \in v8.actions)
               /\ ~(head.kind = "request" /\ head.formats \cap v10.formats # {})
      BY ONLY <1>1, <1>9, <2>1
    <2>2. ASSUME NEW m \in S, v6' = Append(v6, m), Proper(m),
                 Carries(m) => m.version = v10.version,
                 head.kind = "notify" => m.kind = "request" /\ m.formats = head.formats,
                 head.kind = "request" => Carries(m)
          PROVE  /\ v6' \in Seq(S)
                 /\ \A i \in DOMAIN v6' : Proper(v6'[i])
                 /\ \A kind, formats : Asks(v6, kind, formats) => Asks(v6', kind, formats)
                 /\ \A done : Final(v6, done, v10.version) => Final(v6', done, v10.version)
                 /\ \A formats : head.kind = "notify" /\ "provide" \in v8.actions
                                   /\ head.formats \cap formats # {} => Asks(v6', "request", formats)
                 /\ head.kind = "request" /\ head.formats \cap v10.formats # {}
                      => Final(v6', v10.version \in {v12.text, v12.image}, v10.version)
      <3>1. \A i \in DOMAIN v6' : Proper(v6'[i])
        BY ONLY <1>1, <1>9, <2>2, ProperSent
      <3>2. /\ v6' \in Seq(S)
            /\ \A kind, formats : Asks(v6, kind, formats) => Asks(v6', kind, formats)
            /\ \A done, n : Final(v6, done, n) /\ (Carries(m) => m.version = n) => Final(v6', done, n)
            /\ \A kind, formats : m.kind = kind /\ m.formats \cap formats # {} => Asks(v6', kind, formats)
            /\ \A done : Carries(m) => Final(v6', done, m.version)
        BY ONLY Zenon, <1>1, <2>2, ServerSent
      <3> QED BY ONLY <2>2, <3>1, <3>2
    <2> QED BY ONLY <1>4, <2>1, <2>2
  <1>11. /\ \A done, n : Final(v5, done, n) =>
                Final(v5', IF Carries(head) THEN head.version = n ELSE done, n)
         /\ \A kind, formats : Asks(v5, kind, formats) =>
                \/ head.kind = kind /\ head.formats \cap formats # {}
                \/ Asks(v5', kind, formats)
    BY ONLY <1>1, <1>2, Taken DEF head
  <1>12. Clipboard!TypeOK'
    <2>1. v11' \in 0 .. Copies /\ v9' \in BOOLEAN
      BY <1>1, <1>2, <1>3, <1>6 DEF ClipInv, Clipboard!TypeOK
    <2> QED BY Zenon, <1>2, <1>5, <1>10, <2>1 DEF ClipInv, Clipboard!TypeOK, S
  <1>13. Negotiated'
    <2>1. (\A i \in DOMAIN v6 : Proper(v6[i]))'
      BY ONLY <1>2, <1>8, <1>10 DEF Proper
    <2>2. v1 = Clipboard!None => v9' = FALSE
      BY ONLY Zenon, <1>3, <1>9
    <2> QED BY ONLY <1>2, <1>7, <1>8, <1>9, <2>1, <2>2 DEF Negotiated
  <1>14. ServerWillHave'
    <2>1. ASSUME v1 = Clipboard!None, "text" \in v2.formats
          PROVE  Final((v5' \o v4') \o v3', v11' = v2.version, v2.version)
      <3> DEFINE p == (v5 \o v4) \o v3
      <3>1. Final(p, v11 = v2.version, v2.version)
        BY ONLY <1>7, <2>1 DEF ServerWillHave
      <3>2. v5 \o v4 # <<>> /\ Head(v5 \o v4) = head /\ Tail(v5 \o v4) = v5' \o v4
        BY ONLY <1>1, <1>2, TailOfJoin DEF head
      <3>3. v5 \o v4 \in Seq(S) /\ p \in Seq(S)
        BY ONLY <1>1, ConcatProperties
      <3> DEFINE r == v5 \o v4
      <3>4. p # <<>> /\ Head(p) = head /\ Tail(p) = (v5' \o v4) \o v3
        <4>1. r \in Seq(S) /\ r # <<>> /\ Head(r) = head /\ Tail(r) = v5' \o v4 /\ p = r \o v3
          BY ONLY Zenon, <3>2, <3>3
        <4> HIDE DEF r, p
        <4>2. r \o v3 # <<>> /\ Head(r \o v3) = Head(r) /\ Tail(r \o v3) = Tail(r) \o v3
          BY ONLY <1>1, <4>1, TailOfJoin
        <4> QED BY ONLY Zenon, <4>1, <4>2
      <3> HIDE DEF p
      <3>5. Final(Tail(p), IF Carries(head) THEN head.version = v2.version ELSE v11 = v2.version, v2.version)
        BY ONLY <3>1, <3>3, <3>4, Taken
      <3>6. (IF Carries(head) THEN head.version = v2.version ELSE v11 = v2.version)
              => v11' = v2.version
        BY ONLY <1>2
      <3>7. Final(Tail(p), v11' = v2.version, v2.version)
        BY ONLY Zenon, <3>5, <3>6, FinalWeaker
      <3> QED BY ONLY Zenon, <1>2, <3>4, <3>7
    <2>2. ASSUME v1 # Clipboard!None, Offered # {}, {"notify", "provide"} \subseteq v1.actions
          PROVE  \/ Asks(v3, "notify", Offered)
                 \/ Announced(v4, Offered, v2.version)
                 \/ /\ Fresh(v4, v2.version)
                    /\ \/ Asks(v5', "notify", Offered)
                       \/ Asks(v6', "request", Offered)
                       \/ Final(v5', v11' = v2.version, v2.version)
      <3>1. "provide" \in v8.actions
        BY ONLY <1>1, <1>7, <2>2 DEF Negotiated
      <3>2. \/ Asks(v3, "notify", Offered)
            \/ Announced(v4, Offered, v2.version)
            \/ /\ Fresh(v4, v2.version)
               /\ \/ Asks(v5, "notify", Offered)
                  \/ Asks(v6, "request", Offered)
                  \/ Final(v5, v11 = v2.version, v2.version)
        BY ONLY <1>7, <2>2 DEF ServerWillHave
      <3>3. Asks(v5, "notify", Offered) => Asks(v5', "notify", Offered) \/ Asks(v6', "request", Offered)
        BY ONLY <1>10, <1>11, <3>1
      <3>4. Asks(v6, "request", Offered) => Asks(v6', "request", Offered)
        BY ONLY <1>10
      <3>5. ASSUME Final(v5, v11 = v2.version, v2.version)
            PROVE  Final(v5', v11' = v2.version, v2.version)
        <4>1. Final(v5', IF Carries(head) THEN head.version = v2.version ELSE v11 = v2.version, v2.version)
          BY ONLY <1>11, <3>5
        <4>2. (IF Carries(head) THEN head.version = v2.version ELSE v11 = v2.version)
                => v11' = v2.version
          BY ONLY <1>2
        <4> QED BY ONLY Zenon, <4>1, <4>2, FinalWeaker
      <3> QED BY ONLY <3>2, <3>3, <3>4, <3>5
    <2> QED BY ONLY <1>2, <1>8, <2>1, <2>2 DEF ServerWillHave
  <1>15. HostWillHave'
    <2>1. ASSUME v1 = Clipboard!None \/ "request" \in v1.actions
          PROVE  \/ Asks(v6', "notify", v10.formats)
                 \/ Asks(v5', "request", v10.formats)
                 \/ Final(v6', v10.version \in {v12.text, v12.image}, v10.version)
      <3>1. \/ Asks(v6, "notify", v10.formats)
            \/ Asks(v5, "request", v10.formats)
            \/ Final(v6, v10.version \in {v12.text, v12.image}, v10.version)
        BY ONLY <1>7, <2>1 DEF HostWillHave
      <3>2. Asks(v5, "request", v10.formats) => \/ Asks(v5', "request", v10.formats)
              \/ Final(v6', v10.version \in {v12.text, v12.image}, v10.version)
        BY ONLY <1>10, <1>11
      <3> QED BY ONLY <1>10, <3>1, <3>2
    <2> QED BY ONLY <1>2, <2>1 DEF HostWillHave
  <1> QED BY <1>12, <1>13, <1>14, <1>15 DEF ClipInv

\* What the client answers to a message it receives.
LEMMA CapsAnswerIs ==
    ASSUME BoundsAssumption, ClipInv, NEW a, a = Clipboard!CapsAnswer(Told)
    PROVE  /\ a \in Seq(Clipboard!Messages) /\ Fresh(a, v2.version)
           /\ v2.formats \cap v8.formats # {} /\ {"notify", "provide"} \subseteq v8.actions
                => Asks(a, "notify", v2.formats \cap v8.formats)
  <1> DEFINE S == Clipboard!Messages
             caps == Clipboard!Message("caps", Clipboard!Formats, 0)
             look == Clipboard!Message("peek", {}, 0)
             p == IF "peek" \in Told.actions THEN <<look>> ELSE <<>>
             r == Clipboard!Announcement(v2, Told)
  <1>1. /\ 0 \in 0 .. Copies /\ v2.version \in 0 .. Copies
        /\ Told # Clipboard!None /\ Told.formats = v8.formats /\ Told.actions = v8.actions
    BY Zenon, ClipTypes DEF ClipInv
  <1>2. /\ caps \in S /\ caps.kind = "caps" /\ look \in S /\ look.kind = "peek"
    BY ONLY <1>1, ClipMessages
  <1>3. a = (<<caps>> \o p) \o r
    BY DEF Clipboard!CapsAnswer
  <1>4. /\ AtMostOne(r, v2.version, Told)
        /\ v2.formats \cap Told.formats # {} /\ {"notify", "provide"} \subseteq Told.actions
             => NoticeOf(r, v2.formats \cap Told.formats)
    <2>1. /\ Clipboard!TypeOK /\ v2 \in {Clipboard!NoContent} \cup Clipboard!Contents
      BY Zenon DEF ClipInv, Clipboard!TypeOK
    <2>2. \A c \in {Clipboard!NoContent} \cup Clipboard!Contents :
            \A b : b = Clipboard!Announcement(c, Told) =>
                     /\ AtMostOne(b, c.version, Told)
                     /\ Told # Clipboard!None /\ c.formats \cap Told.formats # {}
                          /\ {"notify", "provide"} \subseteq Told.actions =>
                          NoticeOf(b, c.formats \cap Told.formats)
      BY Zenon, <2>1, AnnouncedIs
    <2> QED BY ONLY Zenon, <1>1, <2>1, <2>2
  <1> HIDE DEF caps, look, r, S
  <1>5. <<caps>> \in Seq(S) /\ Fresh(<<caps>>, v2.version)
    <2>1. <<caps>> \in Seq(S) /\ ~Carries(caps)
      BY ONLY <1>2 DEF Carries
    <2> QED BY ONLY <2>1, OneQueued
  <1>6. p \in Seq(S) /\ Fresh(p, v2.version)
    <2>1. <<look>> \in Seq(S) /\ ~Carries(look)
      BY ONLY <1>2 DEF Carries
    <2>2. Fresh(<<look>>, v2.version)
      BY ONLY <2>1, OneQueued
    <2> QED BY ONLY <2>1, <2>2, EmptyIs, NoneQueued
  <1> HIDE DEF p
  <1>7. r \in Seq(S) /\ Fresh(r, v2.version)
    <2>1. CASE r = <<>>
      BY ONLY <2>1, EmptyIs, NoneQueued
    <2>2. ASSUME NEW m \in S, r = <<m>>, Carries(m) => m.version = v2.version
          PROVE  r \in Seq(S) /\ Fresh(r, v2.version)
      <3>1. <<m>> \in Seq(S)
        BY <2>2
      <3>2. Fresh(<<m>>, v2.version)
        BY ONLY <2>2, OneQueued
      <3> QED BY ONLY <2>2, <3>1, <3>2
    <2> QED BY ONLY <1>4, <2>1, <2>2 DEF AtMostOne, S
  <1>8. <<caps>> \o p \in Seq(S) /\ Fresh(<<caps>> \o p, v2.version)
    BY ONLY Zenon, <1>5, <1>6, Joined, ConcatProperties
  <1> DEFINE t == <<caps>> \o p
  <1>9. t \in Seq(S) /\ Fresh(t, v2.version) /\ a = t \o r
    BY ONLY <1>3, <1>8
  <1> HIDE DEF t
  <1>10. a \in Seq(S) /\ Fresh(a, v2.version)
    BY ONLY Zenon, <1>7, <1>9, Joined, ConcatProperties
  <1>11. ASSUME v2.formats \cap v8.formats # {}, {"notify", "provide"} \subseteq v8.actions
         PROVE  Asks(a, "notify", v2.formats \cap v8.formats)
    <2> DEFINE f == v2.formats \cap v8.formats
    <2>1. NoticeOf(r, f)
      BY ONLY <1>1, <1>4, <1>11
    <2>2. f # {}
      BY ONLY <1>11
    <2> HIDE DEF f
    <2>3. PICK m \in S : r = <<m>> /\ m.kind = "notify" /\ m.formats = f
      BY ONLY <2>1 DEF NoticeOf, S
    <2>4. m.formats \cap f # {}
      BY ONLY <2>2, <2>3
    <2>5. Asks(<<m>>, "notify", f)
      BY ONLY <2>3, <2>4, OneQueued
    <2>6. Asks(a, "notify", f)
      BY ONLY Zenon, <1>7, <1>9, <2>3, <2>5, Joined
    <2> QED BY <2>6 DEF f
  <1> QED BY ONLY <1>10, <1>11 DEF S

LEMMA ClientAnswer ==
    ASSUME BoundsAssumption, ClipInv, NEW head \in Clipboard!Messages, Proper(head),
           v1 = Clipboard!None \/ v1 = Told,
           NEW a, a = Clipboard!Answers(head)
    PROVE  /\ a \in Seq(Clipboard!Messages) /\ Fresh(a, v2.version)
           /\ head.kind = "legacy" => a = <<>>
           /\ head.kind = "request" /\ head.formats \cap Offered # {} => Final(a, FALSE, v2.version)
           /\ head.kind = "notify" /\ "request" \in v1.actions =>
                \A formats : head.formats \cap formats # {} => Asks(a, "request", formats)
           /\ head.kind = "caps" /\ v2.formats \cap v8.formats # {}
                /\ {"notify", "provide"} \subseteq v8.actions
                => Asks(a, "notify", v2.formats \cap v8.formats)
           /\ ~Clipboard!Refused(head)
  <1> DEFINE S == Clipboard!Messages
             f == head.formats \cap Offered
             given == Clipboard!Message("provide", f, v2.version)
             asked == Clipboard!Message("request", head.formats, 0)
  <1>1. /\ 0 \in 0 .. Copies /\ v2.version \in 0 .. Copies
        /\ v2.formats \in SUBSET Clipboard!Formats
        /\ Told # Clipboard!None /\ Told.formats = v8.formats /\ Told.actions = v8.actions
    BY Zenon, ClipTypes DEF ClipInv
  <1>2. head.formats \in SUBSET Clipboard!Formats
    BY DEF Clipboard!Messages
  <1>3. /\ given \in S /\ given.kind = "provide" /\ given.version = v2.version
        /\ asked \in S /\ asked.kind = "request" /\ asked.formats = head.formats
    <2>1. f \in SUBSET Clipboard!Formats
      BY ONLY <1>2
    <2> QED BY ONLY <1>1, <1>2, <2>1, ClipMessages
  <1>4. /\ head.kind \in {"legacy", "caps", "request", "notify", "provide"}
        /\ head.kind \in {"request", "notify", "provide"} => v1 = Told
        /\ head.kind = "request" => "provide" \in v8.actions
        /\ head.kind = "caps" => head.formats = v8.formats
    BY ONLY Proper(head) DEF Proper
  <1>5. ~Clipboard!Refused(head)
    BY ONLY <1>1, <1>4 DEF Clipboard!Refused
  <1>6. /\ head.kind \in {"legacy", "provide"} => a = <<>>
        /\ head.kind = "caps" => a = Clipboard!CapsAnswer(Told)
        /\ head.kind = "notify" => a = IF head.formats = {} \/ "request" \notin v1.actions
                                      THEN <<>> ELSE <<asked>>
        /\ head.kind = "request" => a = IF f = {} THEN <<>> ELSE <<given>>
    <2>1. head.kind \in {"legacy", "provide"} => a = <<>>
      BY Zenon DEF Clipboard!Answers
    <2>2. head.kind = "caps" => a = Clipboard!CapsAnswer(Told)
      BY <1>4 DEF Clipboard!Answers, Clipboard!ToldCaps, Told
    <2>3. head.kind = "notify" => a = IF head.formats = {} \/ "request" \notin v1.actions
                                      THEN <<>> ELSE <<asked>>
      BY DEF Clipboard!Answers
    <2>4. head.kind = "request" => a = IF f = {} THEN <<>> ELSE <<given>>
      <3>1. SUFFICES ASSUME head.kind = "request" PROVE a = IF f = {} THEN <<>> ELSE <<given>>
        BY Zenon
      <3>2. v1 = Told /\ v1 # Clipboard!None /\ "provide" \in v1.actions
        BY ONLY <1>1, <1>4, <3>1
      <3>3. head.formats \cap Clipboard!OutgoingFormats(v2, v1) = f
        BY <3>2 DEF Clipboard!OutgoingFormats, Offered
      <3> QED BY Zenon, <3>1, <3>2, <3>3 DEF Clipboard!Answers
    <2> QED BY ONLY <2>1, <2>2, <2>3, <2>4
  <1> HIDE DEF S, f, given, asked
  <1>7. /\ <<given>> \in Seq(S) /\ Fresh(<<given>>, v2.version) /\ Final(<<given>>, FALSE, v2.version)
        /\ <<asked>> \in Seq(S) /\ Fresh(<<asked>>, v2.version)
        /\ \A formats : head.formats \cap formats # {} => Asks(<<asked>>, "request", formats)
    <2>1. Carries(given) /\ ~Carries(asked) /\ <<given>> \in Seq(S) /\ <<asked>> \in Seq(S)
      BY ONLY <1>3 DEF Carries
    <2>2. Final(<<given>>, FALSE, given.version)
      BY ONLY Zenon, <2>1, OneQueued
    <2>3. Fresh(<<given>>, v2.version) /\ Fresh(<<asked>>, v2.version)
      BY ONLY <1>3, <2>1, OneQueued
    <2>4. \A formats : head.formats \cap formats # {} => Asks(<<asked>>, "request", formats)
      BY ONLY <1>3, OneQueued
    <2> QED BY ONLY Zenon, <1>3, <2>1, <2>2, <2>3, <2>4
  <1>8. CASE head.kind \in {"legacy", "provide"}
    <2>1. a = <<>>
      BY ONLY <1>6, <1>8
    <2>2. a \in Seq(S) /\ Fresh(a, v2.version)
      BY ONLY <2>1, EmptyIs, NoneQueued
    <2> QED BY ONLY Zenon, <1>5, <1>8, <2>1, <2>2 DEF S
  <1>9. CASE head.kind = "caps"
    <2>1. a = Clipboard!CapsAnswer(Told)
      BY ONLY <1>6, <1>9
    <2>2. /\ a \in Seq(Clipboard!Messages) /\ Fresh(a, v2.version)
          /\ v2.formats \cap v8.formats # {} /\ {"notify", "provide"} \subseteq v8.actions
               => Asks(a, "notify", v2.formats \cap v8.formats)
      BY Zenon, <2>1, CapsAnswerIs
    <2> QED BY ONLY <1>5, <1>9, <2>2
  <1>10. CASE head.kind = "request"
    <2>1. a = IF f = {} THEN <<>> ELSE <<given>>
      BY ONLY <1>6, <1>10
    <2>2. a \in Seq(S) /\ Fresh(a, v2.version) /\ (f # {} => Final(a, FALSE, v2.version))
      BY ONLY Zenon, <1>7, <2>1, EmptyIs, NoneQueued
    <2> QED BY ONLY Zenon, <1>5, <1>10, <2>2 DEF S, f
  <1>11. CASE head.kind = "notify"
    <2>1. a = IF head.formats = {} \/ "request" \notin v1.actions THEN <<>> ELSE <<asked>>
      BY ONLY <1>6, <1>11
    <2>2. a \in Seq(S) /\ Fresh(a, v2.version)
      BY ONLY <1>7, <2>1, EmptyIs, NoneQueued
    <2>3. "request" \in v1.actions => \A formats : head.formats \cap formats # {} => Asks(a, "request", formats)
      <3>1. ASSUME "request" \in v1.actions, NEW formats, head.formats \cap formats # {}
            PROVE  Asks(a, "request", formats)
        <4>1. a = <<asked>>
          BY ONLY <2>1, <3>1
        <4> QED BY ONLY <1>7, <3>1, <4>1
      <3> QED BY ONLY <3>1
    <2> QED BY ONLY <1>5, <1>11, <2>2, <2>3 DEF S
  <1> QED BY ONLY Zenon, <1>4, <1>8, <1>9, <1>10, <1>11

LEMMA ClipReceive ==
    ASSUME BoundsAssumption, ClipInv, Clipboard!Receive
    PROVE  ClipInv'
  <1> DEFINE S == Clipboard!Messages  head == Head(v6)  a == Clipboard!Answers(head)
             shown == IF head.kind \notin {"legacy", "provide"} THEN v12
                      ELSE [text  |-> IF head.formats \cap {"text", "html"} # {}
                                      THEN head.version ELSE v12.text,
                            image |-> IF "dib" \in head.formats
                                      THEN head.version ELSE v12.image]
  <1>1. /\ v3 \in Seq(S) /\ v4 \in Seq(S) /\ v5 \in Seq(S) /\ v6 \in Seq(S)
        /\ v8.formats \in SUBSET Clipboard!Formats
        /\ Told # Clipboard!None /\ Told.formats = v8.formats /\ Told.actions = v8.actions
    BY Zenon, ClipTypes DEF ClipInv
  <1>2. /\ v6 # <<>> /\ v6' = Tail(v6) /\ v5' = (v5 \o a) \o v4 /\ v4' = <<>>
        /\ v7' = ~Clipboard!Refused(head)
        /\ v1' = IF head.kind = "caps" THEN Clipboard!ToldCaps(head) ELSE v1
        /\ v12' = shown
        /\ v2' = v2 /\ v3' = v3 /\ v8' = v8 /\ v9' = v9 /\ v10' = v10 /\ v11' = v11
    BY DEF Clipboard!Receive, Clipboard!Observe, Clipboard!serverVars
  <1>3. Negotiated /\ ServerWillHave /\ HostWillHave
    BY DEF ClipInv
  <1>4. head \in S /\ v6' \in Seq(S)
    BY <1>1, <1>2, TailIs
  <1>5. /\ head.formats \in SUBSET Clipboard!Formats /\ head.version \in 0 .. Copies
    BY Zenon, <1>4 DEF Clipboard!Messages
  <1> HIDE DEF head
  <1>6. Proper(head) /\ \A i \in DOMAIN v6' : Proper(v6'[i])
    BY ONLY Zenon, <1>1, <1>2, <1>3, ProperTail DEF head, Negotiated
  <1>7. /\ head.kind \in {"legacy", "caps", "request", "notify", "provide"}
        /\ Carries(head) => head.formats # {}
        /\ head.kind \in {"request", "notify", "provide"} => v1 = Told
        /\ head.kind = "caps" => head.formats = v8.formats
    BY ONLY <1>6 DEF Proper
  <1>8. v1 = Clipboard!None \/ v1 = Told
    BY ONLY <1>3 DEF Negotiated
  <1>9. v1' = (IF head.kind = "caps" THEN Told ELSE v1)
    BY ONLY <1>2, <1>7 DEF Clipboard!ToldCaps, Told
  <1>10. /\ a \in Seq(S) /\ Fresh(a, v2.version)
         /\ head.kind = "legacy" => a = <<>>
         /\ head.kind = "request" /\ head.formats \cap Offered # {} => Final(a, FALSE, v2.version)
         /\ head.kind = "notify" /\ "request" \in v1.actions =>
              \A formats : head.formats \cap formats # {} => Asks(a, "request", formats)
         /\ head.kind = "caps" /\ v2.formats \cap v8.formats # {}
              /\ {"notify", "provide"} \subseteq v8.actions
              => Asks(a, "notify", v2.formats \cap v8.formats)
         /\ ~Clipboard!Refused(head)
    BY Zenon, <1>4, <1>6, <1>8, ClientAnswer
  <1>11. v12 \in [text : 0 .. Copies, image : 0 .. Copies]
    BY DEF ClipInv, Clipboard!TypeOK
  <1>12. v12' \in [text : 0 .. Copies, image : 0 .. Copies]
    BY ONLY <1>2, <1>5, <1>11
  <1>13. /\ ~Carries(head) => v12' = v12
         /\ Carries(head) => head.version \in {v12'.text, v12'.image}
    <2>1. ~Carries(head) => v12' = v12
      BY ONLY <1>2 DEF Carries
    <2>2. ASSUME Carries(head) PROVE head.version \in {v12'.text, v12'.image}
      <3>1. head.formats \cap {"text", "html"} # {} \/ "dib" \in head.formats
        BY ONLY <1>5, <1>7, <2>2 DEF Clipboard!Formats
      <3>2. v12' = [text  |-> IF head.formats \cap {"text", "html"} # {}
                              THEN head.version ELSE v12.text,
                    image |-> IF "dib" \in head.formats
                              THEN head.version ELSE v12.image]
        BY ONLY <1>2, <2>2 DEF Carries
      <3> QED BY ONLY <3>1, <3>2
    <2> QED BY ONLY <2>1, <2>2
  <1> HIDE DEF S, a, shown
  <1> DEFINE t == v5 \o a
  <1>14. t \in Seq(S) /\ v5' = t \o v4
    BY ONLY <1>1, <1>2, <1>10, ConcatProperties
  <1> HIDE DEF t
  <1>15. v5' \in Seq(S) /\ v4' \in Seq(S)
    BY ONLY <1>1, <1>2, <1>14, ConcatProperties, EmptyIs
  <1>16. \A kind, formats :
           /\ Asks(v5, kind, formats) => Asks(v5', kind, formats)
           /\ Asks(a, kind, formats) => Asks(v5', kind, formats)
           /\ Asks(v4, kind, formats) => Asks(v5', kind, formats)
    <2>1. \A kind, formats : Asks(v5, kind, formats) \/ Asks(a, kind, formats)
                               => Asks(t, kind, formats)
      BY ONLY Zenon, <1>1, <1>10, Joined DEF t
    <2>2. \A kind, formats : Asks(t, kind, formats) \/ Asks(v4, kind, formats)
                               => Asks(v5', kind, formats)
      BY ONLY Zenon, <1>1, <1>14, Joined
    <2> QED BY ONLY <2>1, <2>2
  <1>17. Clipboard!TypeOK'
    <2>1. v1' \in {Clipboard!None} \cup [formats : SUBSET Clipboard!Formats, actions : SUBSET Clipboard!Actions]
      <3>1. v8.actions \in SUBSET Clipboard!Actions
        BY DEF ClipInv, Clipboard!TypeOK
      <3> QED BY ONLY <1>1, <1>8, <1>9, <3>1 DEF Told
    <2>2. v7' \in BOOLEAN
      BY ONLY <1>2, <1>10
    <2> QED BY Zenon, <1>2, <1>4, <1>12, <1>15, <2>1, <2>2 DEF ClipInv, Clipboard!TypeOK, S
  <1>18. Told' = Told
    BY ONLY <1>2 DEF Told
  <1>19. Negotiated'
    <2>1. \A m : Proper(m) => Proper(m)'
      BY ONLY <1>2, <1>9, <1>18 DEF Proper
    <2>2. (\A i \in DOMAIN v6 : Proper(v6[i]))'
      <3>1. ASSUME NEW m, Proper(m)
            PROVE  /\ m.kind \in {"legacy", "caps", "request", "notify", "provide"}
                   /\ m.kind = "caps" => m.formats = v8'.formats
                   /\ Carries(m) => m.formats # {}
                   /\ m.kind \in {"request", "notify", "provide"} => v1' = Told'
                   /\ m.kind = "request" => "provide" \in v8'.actions
        BY ONLY <1>2, <1>9, <1>18, <3>1 DEF Proper
      <3> QED BY ONLY <1>6, <3>1 DEF Proper
    <2>3. ASSUME v1' = Clipboard!None
          PROVE  v9' = FALSE /\ LegacyOnly(v3') /\ LegacyOnly(v4') /\ LegacyOnly(v5')
      <3>1. v1 = Clipboard!None /\ head.kind = "legacy"
        BY ONLY <1>1, <1>7, <1>8, <1>9, <2>3
      <3>2. v9 = FALSE /\ LegacyOnly(v3) /\ LegacyOnly(v4) /\ LegacyOnly(v5)
        BY ONLY <1>3, <3>1 DEF Negotiated
      <3>3. t = v5
        BY ONLY <1>1, <1>10, <3>1, ConcatEmptySeq DEF t
      <3>4. LegacyOnly(v5')
        BY ONLY <1>1, <1>14, <3>2, <3>3, LegacyJoined
      <3>5. LegacyOnly(v4')
        BY ONLY <1>2, EmptyIs DEF LegacyOnly
      <3> QED BY ONLY <1>2, <3>2, <3>4, <3>5
    <2>4. v1' = Clipboard!None \/ v1' = Told'
      BY ONLY <1>8, <1>9, <1>18
    <2>5. v7' = TRUE
      BY ONLY Zenon, <1>2, <1>10
    <2> QED BY ONLY Zenon, <1>2, <1>3, <2>2, <2>3, <2>4, <2>5 DEF Negotiated
  <1>20. ServerWillHave'
    <2>1. ASSUME v1' = Clipboard!None, "text" \in v2.formats
          PROVE  Final((v5' \o v4') \o v3', v11' = v2.version, v2.version)
      <3>1. v1 = Clipboard!None /\ head.kind = "legacy"
        BY ONLY <1>1, <1>7, <1>8, <1>9, <2>1
      <3>2. t = v5
        BY ONLY <1>1, <1>10, <3>1, ConcatEmptySeq DEF t
      <3>3. v5' \o v4' = v5 \o v4
        BY ONLY <1>2, <1>14, <1>15, <3>2, ConcatEmptySeq
      <3> QED BY ONLY Zenon, <1>2, <1>3, <2>1, <3>1, <3>3 DEF ServerWillHave
    <2>2. ASSUME v1' # Clipboard!None, Offered' # {}, {"notify", "provide"} \subseteq v1'.actions
          PROVE  \/ Asks(v3', "notify", Offered')
                 \/ Announced(v4', Offered', v2'.version)
                 \/ /\ Fresh(v4', v2'.version)
                    /\ \/ Asks(v5', "notify", Offered')
                       \/ Asks(v6', "request", Offered')
                       \/ Final(v5', v11' = v2'.version, v2'.version)
      <3>1. Fresh(v4', v2'.version)
        BY ONLY <1>2, NoneQueued
      <3>2. CASE head.kind = "caps"
        <4>1. Offered' = v2.formats \cap v8.formats /\ v1'.actions = v8.actions
          BY ONLY <1>1, <1>2, <1>9, <3>2 DEF Offered
        <4>2. Asks(a, "notify", Offered')
          <5>1. head.kind = "caps" /\ v2.formats \cap v8.formats # {}
                /\ {"notify", "provide"} \subseteq v8.actions
                => Asks(a, "notify", v2.formats \cap v8.formats)
            BY ONLY <1>10
          <5> QED BY ONLY <2>2, <3>2, <4>1, <5>1
        <4>3. Asks(v5', "notify", Offered')
          BY ONLY <1>16, <4>2
        <4> QED BY ONLY <3>1, <4>3
      <3>3. CASE head.kind # "caps"
        <4>1. v1' = v1 /\ Offered' = Offered
          BY ONLY <1>2, <1>9, <3>3 DEF Offered
        <4>2. \/ Asks(v3, "notify", Offered)
              \/ Announced(v4, Offered, v2.version)
              \/ /\ Fresh(v4, v2.version)
                 /\ \/ Asks(v5, "notify", Offered)
                    \/ Asks(v6, "request", Offered)
                    \/ Final(v5, v11 = v2.version, v2.version)
          BY ONLY <1>3, <2>2, <4>1 DEF ServerWillHave
        <4>3. Announced(v4, Offered, v2.version) => Asks(v5', "notify", Offered)
          <5>1. Announced(v4, Offered, v2.version) => Asks(v4, "notify", Offered)
            BY AnnouncedAsks
          <5> QED BY ONLY <1>16, <5>1
        <4>4. Asks(v6, "request", Offered) =>
                \/ head.kind = "request" /\ head.formats \cap Offered # {}
                \/ Asks(v6', "request", Offered)
          BY ONLY <1>1, <1>2, Taken DEF head
        <4>5. Fresh(v4, v2.version) /\ Final(v5, v11 = v2.version, v2.version)
                => Final(v5', v11 = v2.version, v2.version)
          <5>1. Final(v5, v11 = v2.version, v2.version) => Final(t, v11 = v2.version, v2.version)
            BY ONLY Zenon, <1>1, <1>10, Joined DEF t
          <5> QED BY ONLY Zenon, <1>1, <1>14, <5>1, Joined
        <4>6. Fresh(v4, v2.version) /\ head.kind = "request" /\ head.formats \cap Offered # {}
                => Final(v5', v11 = v2.version, v2.version)
          <5>1. Final(a, FALSE, v2.version) => Final(t, v11 = v2.version, v2.version)
            BY ONLY Zenon, <1>1, <1>10, Joined DEF t
          <5>2. Fresh(v4, v2.version) /\ Final(t, v11 = v2.version, v2.version)
                  => Final(v5', v11 = v2.version, v2.version)
            BY ONLY Zenon, <1>1, <1>14, Joined
          <5>3. head.kind = "request" /\ head.formats \cap Offered # {} => Final(a, FALSE, v2.version)
            BY ONLY Zenon, <1>10
          <5> QED BY ONLY Zenon, <5>1, <5>2, <5>3
        <4>7. Asks(v5, "notify", Offered) => Asks(v5', "notify", Offered)
          BY ONLY <1>16
        <4>8. \/ Asks(v3, "notify", Offered)
              \/ Asks(v5', "notify", Offered)
              \/ Asks(v6', "request", Offered)
              \/ Final(v5', v11 = v2.version, v2.version)
          BY ONLY <4>2, <4>3, <4>4, <4>5, <4>6, <4>7
        <4> QED BY ONLY <1>2, <3>1, <4>1, <4>8
      <3> QED BY <3>2, <3>3
    <2> QED BY ONLY <1>2, <2>1, <2>2 DEF ServerWillHave
  <1>21. HostWillHave'
    <2>1. ASSUME v1' = Clipboard!None \/ "request" \in v1'.actions
          PROVE  \/ Asks(v6', "notify", v10.formats)
                 \/ Asks(v5', "request", v10.formats)
                 \/ Final(v6', v10.version \in {v12'.text, v12'.image}, v10.version)
      <3>1. v1 = Clipboard!None \/ "request" \in v1.actions
        BY ONLY <1>8, <1>9, <2>1
      <3>2. \/ Asks(v6, "notify", v10.formats)
            \/ Asks(v5, "request", v10.formats)
            \/ Final(v6, v10.version \in {v12.text, v12.image}, v10.version)
        BY ONLY <1>3, <3>1 DEF HostWillHave
      <3>3. Asks(v6, "notify", v10.formats) =>
              \/ head.kind = "notify" /\ head.formats \cap v10.formats # {}
              \/ Asks(v6', "notify", v10.formats)
        BY ONLY <1>1, <1>2, Taken DEF head
      <3>4. head.kind = "notify" /\ head.formats \cap v10.formats # {}
              => Asks(v5', "request", v10.formats)
        <4>1. head.kind = "notify" => "request" \in v1.actions
          BY ONLY <1>1, <1>7, <3>1
        <4>2. head.kind = "notify" /\ "request" \in v1.actions =>
                \A formats : head.formats \cap formats # {} => Asks(a, "request", formats)
          BY ONLY <1>10
        <4>3. Asks(a, "request", v10.formats) => Asks(v5', "request", v10.formats)
          BY ONLY <1>16
        <4> QED BY ONLY <4>1, <4>2, <4>3
      <3>5. ASSUME Final(v6, v10.version \in {v12.text, v12.image}, v10.version)
            PROVE  Final(v6', v10.version \in {v12'.text, v12'.image}, v10.version)
        <4> DEFINE had == v10.version \in {v12.text, v12.image}
                   has == v10.version \in {v12'.text, v12'.image}
                   of == head.version = v10.version
                   done == IF Carries(head) THEN of ELSE had
        <4>1. done => has
          BY ONLY <1>13
        <4>2. Final(v6, had, v10.version)
          BY ONLY <3>5
        <4> HIDE DEF had, has
        <4>3. Final(v6', done, v10.version)
          BY ONLY <1>1, <1>2, <4>2, Taken DEF head
        <4> HIDE DEF done
        <4>4. Final(v6', has, v10.version)
          BY ONLY <4>1, <4>3, FinalWeaker
        <4> QED BY ONLY <4>4 DEF has
      <3> QED BY ONLY <1>16, <3>2, <3>3, <3>4, <3>5
    <2> QED BY ONLY <1>2, <2>1 DEF HostWillHave
  <1> QED BY <1>17, <1>19, <1>20, <1>21 DEF ClipInv

LEMMA ClipSteps ==
    ASSUME BoundsAssumption, ClipInv, Clipboard!Next
    PROVE  ClipInv'
  BY ClipSetLocal, ClipEnqueue, ClipDrain, ClipReceive, ClipServerCaps, ClipServerCopies,
     ClipServerTakes DEF Clipboard!Next

LEMMA ClipHolds ==
    ASSUME BoundsAssumption, ClipInv
    PROVE  Clipboard!ServerHasLatest /\ Clipboard!HostHasLatest /\ Clipboard!NeverRefused
  <1>1. Negotiated /\ ServerWillHave /\ HostWillHave
    BY DEF ClipInv
  <1>2. v7 = TRUE /\ (v1 = Clipboard!None \/ v1 = Told)
    BY ONLY <1>1 DEF Negotiated
  <1>3. Clipboard!NeverRefused
    BY <1>2 DEF Clipboard!NeverRefused
  <1>4. /\ \A done : Final(<<>>, done, v2.version) => done
        /\ \A done : Final(<<>>, done, v10.version) => done
        /\ \A kind, formats, n : ~Asks(<<>>, kind, formats) /\ ~Announced(<<>>, formats, n)
    BY EmptyIs DEF Final, Asks, Announced
  <1>5. (<<>> \o <<>>) \o <<>> = <<>>
    OBVIOUS
  <1>6. Clipboard!ServerHasLatest
    <2>1. SUFFICES ASSUME Clipboard!Settled PROVE Clipboard!ServerHasLatest
      BY DEF Clipboard!ServerHasLatest
    <2>2. v3 = <<>> /\ v4 = <<>> /\ v5 = <<>> /\ v6 = <<>>
      BY <2>1 DEF Clipboard!Settled
    <2>3. v1 = Clipboard!None /\ "text" \in v2.formats => v11 = v2.version
      BY ONLY Zenon, <1>1, <1>4, <1>5, <2>2 DEF ServerWillHave
    <2>4. v1 # Clipboard!None /\ Offered # {} /\ {"notify", "provide"} \subseteq v1.actions
            => v11 = v2.version
      BY ONLY Zenon, <1>1, <1>4, <2>2 DEF ServerWillHave
    <2> QED BY <2>3, <2>4 DEF Clipboard!ServerHasLatest, Clipboard!HasCaps, Offered
  <1>7. Clipboard!HostHasLatest
    <2>1. SUFFICES ASSUME Clipboard!Settled PROVE Clipboard!HostHasLatest
      BY DEF Clipboard!HostHasLatest
    <2>2. v5 = <<>> /\ v6 = <<>>
      BY <2>1 DEF Clipboard!Settled
    <2>3. v1 = Clipboard!None \/ "request" \in v1.actions => v10.version \in {v12.text, v12.image}
      <3> DEFINE has == v10.version \in {v12.text, v12.image}
      <3>1. v1 = Clipboard!None \/ "request" \in v1.actions => Final(<<>>, has, v10.version)
        BY ONLY <1>1, <1>4, <2>2 DEF HostWillHave
      <3> HIDE DEF has
      <3>2. Final(<<>>, has, v10.version) => has
        BY ONLY EmptyIs DEF Final
      <3> QED BY ONLY <3>1, <3>2 DEF has
    <2> QED BY <2>3 DEF Clipboard!HostHasLatest, Clipboard!HasCaps
  <1> QED BY <1>3, <1>6, <1>7

-----------------------------------------------------------------------------
(* The desktop's size.  The client's state is v1 to v4, the requests on their  *)
(* way are v5 and v6, the server has the screen v7 and v10, its updates are in *)
(* v8, and v11 to v13 say what was chosen, wanted and asked for; see MCVnc.    *)

SizeBounds == HostLayouts \in Nat \ {0} /\ OtherResizes \in Nat

Streams == Seq(Seq(Resize!Updates))

\* A framebuffer update that concerns the size holds one or two of its updates.
Packed(s) == \A i \in DOMAIN s : Len(s[i]) \in 1 .. 2

\* An answer is on its way, and only one.
Answer(update) == update.reason = "Client"
Owed(s)        == \E i \in DOMAIN s : \E j \in DOMAIN s[i] : Answer(s[i][j])
OneAnswer(s)   ==
    \A i, k \in DOMAIN s : \A j \in DOMAIN s[i], l \in DOMAIN s[k] :
        Answer(s[i][j]) /\ Answer(s[k][l]) => i = k /\ j = l

\* The last update on its way that applies a layout tells of this screen.
LastApplied(s, i, j) ==
    /\ Resize!AppliesLayout(s[i][j])
    /\ \A k \in DOMAIN s : \A l \in DOMAIN s[k] :
          Resize!AppliesLayout(s[k][l]) => k < i \/ (k = i /\ l <= j)
Tells(s, layout) ==
    \A i \in DOMAIN s : \A j \in DOMAIN s[i] : LastApplied(s, i, j) => s[i][j].layout = layout
NoneApplies(s) == \A i \in DOMAIN s : \A j \in DOMAIN s[i] : ~Resize!AppliesLayout(s[i][j])

\* OneRequest, without the pairs.
Single ==
    v9 => /\ Len(v5) + Len(v6) <= 1
          /\ v3 <=> v5 # <<>> \/ v6 # <<>> \/ Owed(v8)
          /\ Owed(v8) => v5 = <<>> /\ v6 = <<>>
          /\ OneAnswer(v8)

\* The screen is what the last update on its way says, or what the client knows.
ScreenOnItsWay ==
    v9 => /\ Tells(v8, v7)
          /\ NoneApplies(v8) /\ v10 > 0 => v4 = v7

\* No number is one of a layout that the host has not chosen yet.
ChosenSoFar == v2 <= v11 /\ v12 <= v11 /\ v13 <= v11

ResizeInv == /\ SizeBounds /\ Resize!TypeOK /\ Packed(v8)
             /\ ChosenSoFar /\ Single /\ Resize!NewestKept /\ Resize!NothingStranded /\ ScreenOnItsWay

-----------------------------------------------------------------------------
(* The stream, one update longer. *)

\* t is s and update at place (m, n), behind all that is in s.
OneMore(s, t, m, n, update) ==
    /\ m \in DOMAIN t /\ n \in DOMAIN t[m] /\ t[m][n] = update
    /\ \A k \in DOMAIN s : \A l \in DOMAIN s[k] :
          k \in DOMAIN t /\ l \in DOMAIN t[k] /\ t[k][l] = s[k][l]
    /\ \A k \in DOMAIN t : \A l \in DOMAIN t[k] :
          \/ k = m /\ l = n
          \/ /\ k \in DOMAIN s /\ l \in DOMAIN s[k] /\ t[k][l] = s[k][l]
             /\ k < m \/ (k = m /\ l < n)

\* The framebuffer update of a new size update of its own.
LEMMA SentAlone ==
    ASSUME NEW s \in Streams, Packed(s), NEW update \in Resize!Updates
    PROVE  LET t == Append(s, <<update>>)
           IN  t \in Streams /\ Packed(t) /\ OneMore(s, t, Len(s) + 1, 1, update)
  <1> DEFINE t == Append(s, <<update>>)
  <1>1. <<update>> \in Seq(Resize!Updates) /\ Len(<<update>>) = 1 /\ <<update>>[1] = update
        /\ DOMAIN <<update>> = {1}
    OBVIOUS
  <1>2. /\ t \in Streams /\ Len(t) = Len(s) + 1 /\ Len(s) \in Nat
        /\ \A i \in 1 .. Len(s) : t[i] = s[i]
        /\ t[Len(s) + 1] = <<update>>
    BY <1>1, AppendProperties DEF Streams
  <1>3. DOMAIN s = 1 .. Len(s) /\ DOMAIN t = 1 .. Len(t)
    BY <1>2 DEF Streams
  <1> HIDE DEF t
  <1>4. /\ \A i \in DOMAIN s : i \in DOMAIN t /\ t[i] = s[i] /\ i < Len(s) + 1
        /\ \A i \in DOMAIN t : i = Len(s) + 1 \/ i \in DOMAIN s
        /\ Len(s) + 1 \in DOMAIN t
    BY ONLY <1>2, <1>3
  <1>5. Packed(t)
    BY <1>1, <1>2, <1>4 DEF Packed
  <1>6. OneMore(s, t, Len(s) + 1, 1, update)
    BY <1>1, <1>2, <1>4 DEF OneMore
  <1> QED BY <1>2, <1>5, <1>6 DEF t

\* A new size update in the last framebuffer update.
LEMMA SentAlong ==
    ASSUME NEW s \in Streams, Packed(s), NEW update \in Resize!Updates,
           s # <<>>, Len(s[Len(s)]) < 2
    PROVE  LET t == [s EXCEPT ![Len(s)] = Append(@, update)]
           IN  t \in Streams /\ Packed(t) /\ OneMore(s, t, Len(s), 2, update)
  <1> DEFINE last == s[Len(s)]
             more == Append(last, update)
             t == [s EXCEPT ![Len(s)] = more]
  <1>1. Len(s) \in Nat \ {0} /\ DOMAIN s = 1 .. Len(s) /\ Len(s) \in DOMAIN s /\ Len(s) \in 1 .. Len(s)
    BY DEF Streams
  <1>2. last \in Seq(Resize!Updates) /\ Len(last) \in 1 .. 2
    BY <1>1 DEF Streams, Packed
  <1>3. Len(last) = 1
    BY <1>2
  <1>4. /\ more \in Seq(Resize!Updates) /\ Len(more) = 2
        /\ DOMAIN last = {1} /\ DOMAIN more = {1, 2}
        /\ more[1] = last[1] /\ more[2] = update
    <2>1. /\ more \in Seq(Resize!Updates) /\ Len(more) = Len(last) + 1
          /\ \A i \in 1 .. Len(last) : more[i] = last[i]
          /\ more[Len(last) + 1] = update
      BY <1>2, AppendProperties
    <2>2. DOMAIN last = 1 .. Len(last) /\ DOMAIN more = 1 .. Len(more)
      BY <1>2, <2>1
    <2> QED BY <1>3, <2>1, <2>2
  <1> HIDE DEF more
  <1>5. /\ t \in Streams /\ DOMAIN t = DOMAIN s /\ t[Len(s)] = more
        /\ \A i \in DOMAIN s : i # Len(s) => t[i] = s[i]
    BY <1>1, <1>4, ExceptSeq DEF Streams
  <1>6. \A i \in DOMAIN s : i # Len(s) => i < Len(s)
    BY <1>1
  <1> HIDE DEF t, last
  <1>7. Packed(t)
    BY <1>4, <1>5 DEF Packed
  <1>8. OneMore(s, t, Len(s), 2, update)
    <2>1. last = s[Len(s)]
      BY DEF last
    <2>2. Len(s) \in DOMAIN t /\ 2 \in DOMAIN t[Len(s)] /\ t[Len(s)][2] = update
      BY <1>1, <1>4, <1>5
    <2>3. ASSUME NEW k \in DOMAIN s, NEW l \in DOMAIN s[k]
          PROVE  k \in DOMAIN t /\ l \in DOMAIN t[k] /\ t[k][l] = s[k][l]
      <3>1. CASE k = Len(s)
        BY <1>4, <1>5, <2>1, <2>3, <3>1
      <3>2. CASE k # Len(s)
        BY <1>5, <2>3, <3>2
      <3> QED BY <3>1, <3>2
    <2>4. ASSUME NEW k \in DOMAIN t, NEW l \in DOMAIN t[k]
          PROVE  \/ k = Len(s) /\ l = 2
                 \/ /\ k \in DOMAIN s /\ l \in DOMAIN s[k] /\ t[k][l] = s[k][l]
                    /\ k < Len(s) \/ (k = Len(s) /\ l < 2)
      <3>1. CASE k = Len(s)
        BY <1>4, <1>5, <2>1, <2>4, <3>1
      <3>2. CASE k # Len(s)
        BY <1>5, <1>6, <2>4, <3>2
      <3> QED BY <3>1, <3>2
    <2> QED BY <2>2, <2>3, <2>4 DEF OneMore
  <1> QED BY <1>5, <1>7, <1>8 DEF t, more, last

LEMMA Sent ==
    ASSUME v8 \in Streams, Packed(v8), NEW update \in Resize!Updates, Resize!SendUpdate(update)
    PROVE  /\ v8' \in Streams /\ Packed(v8')
           /\ \E m, n \in Nat : OneMore(v8, v8', m, n, update)
  <1>1. Len(v8) \in Nat /\ Len(v8) + 1 \in Nat
    BY DEF Streams
  <1>2. CASE v8' = Append(v8, <<update>>)
    BY <1>1, <1>2, SentAlone
  <1>3. CASE /\ v8 # <<>> /\ Len(v8[Len(v8)]) < 2
             /\ v8' = [v8 EXCEPT ![Len(v8)] = Append(@, update)]
    BY Zenon, <1>1, <1>3, SentAlong
  <1> QED BY <1>2, <1>3 DEF Resize!SendUpdate

\* What one more update does to the answers and to what is told of the screen.
LEMMA OneMoreAnswer ==
    ASSUME NEW s, NEW t, NEW m \in Nat, NEW n \in Nat, NEW update,
           OneMore(s, t, m, n, update)
    PROVE  /\ Answer(update) => Owed(t) /\ (~Owed(s) => OneAnswer(t))
           /\ ~Answer(update) => (Owed(t) <=> Owed(s)) /\ (OneAnswer(s) => OneAnswer(t))
  <1>1. Answer(update) => Owed(t) /\ (~Owed(s) => OneAnswer(t))
    BY DEF OneMore, Owed, OneAnswer
  <1>2. ~Answer(update) => (Owed(t) <=> Owed(s))
    BY DEF OneMore, Owed
  <1>3. ~Answer(update) /\ OneAnswer(s) => OneAnswer(t)
    BY DEF OneMore, OneAnswer
  <1> QED BY <1>1, <1>2, <1>3

LEMMA OneMoreScreen ==
    ASSUME NEW s, NEW t \in Streams, NEW m \in Nat, NEW n \in Nat, NEW update,
           OneMore(s, t, m, n, update)
    PROVE  /\ Resize!AppliesLayout(update) => Tells(t, update.layout) /\ ~NoneApplies(t)
           /\ ~Resize!AppliesLayout(update) =>
                 /\ NoneApplies(t) => NoneApplies(s)
                 /\ \A layout : Tells(s, layout) => Tells(t, layout)
  <1>1. Resize!AppliesLayout(update) => ~NoneApplies(t)
    BY DEF OneMore, NoneApplies
  <1>2. ASSUME Resize!AppliesLayout(update), NEW i \in DOMAIN t, NEW j \in DOMAIN t[i], LastApplied(t, i, j)
        PROVE  t[i][j].layout = update.layout
    <2>1. m < i \/ (m = i /\ n <= j)
      BY <1>2 DEF OneMore, LastApplied
    <2>2. (i = m /\ j = n) \/ i < m \/ (i = m /\ j < n)
      BY DEF OneMore
    <2>3. i = m /\ j = n
      <3>1. t[i] \in Seq(Resize!Updates) /\ i \in Nat
        BY DEF Streams
      <3>2. j \in Nat
        BY <3>1
      <3> QED BY ONLY <2>1, <2>2, <3>1, <3>2, m \in Nat, n \in Nat
    <2> QED BY <2>3 DEF OneMore
  <1>3. ~Resize!AppliesLayout(update) /\ NoneApplies(t) => NoneApplies(s)
    BY DEF OneMore, NoneApplies
  <1>4. ASSUME ~Resize!AppliesLayout(update), NEW layout, Tells(s, layout),
               NEW i \in DOMAIN t, NEW j \in DOMAIN t[i], LastApplied(t, i, j)
        PROVE  t[i][j].layout = layout
    <2>1. i \in DOMAIN s /\ j \in DOMAIN s[i] /\ t[i][j] = s[i][j]
      BY <1>4 DEF OneMore, LastApplied
    <2>2. LastApplied(s, i, j)
      BY <1>4, <2>1 DEF OneMore, LastApplied
    <2> QED BY <1>4, <2>1, <2>2 DEF Tells
  <1> QED BY <1>1, <1>2, <1>3, <1>4 DEF Tells

-----------------------------------------------------------------------------
(* The stream without its first framebuffer update. *)

LEMMA TailPlaces ==
    ASSUME NEW s \in Streams, s # <<>>, Packed(s)
    PROVE  LET t == Tail(s)
           IN  /\ t \in Streams /\ Packed(t)
               /\ 1 \in DOMAIN s /\ s[1] = Head(s)
               /\ \A i \in DOMAIN t : i \in Nat /\ i + 1 \in DOMAIN s /\ s[i + 1] = t[i] /\ i + 1 > 1
               /\ \A i \in DOMAIN s : i = 1 \/ \E k \in DOMAIN t : i = k + 1
  <1> DEFINE t == Tail(s)
  <1>1. /\ t \in Streams /\ Len(t) = Len(s) - 1 /\ Len(s) \in Nat \ {0}
        /\ DOMAIN s = 1 .. Len(s) /\ DOMAIN t = 1 .. Len(t)
        /\ \A i \in 1 .. Len(t) : t[i] = s[i + 1]
        /\ s[1] = Head(s)
    BY HeadTailProperties DEF Streams
  <1> HIDE DEF t
  <1>2. 1 \in DOMAIN s
    BY ONLY <1>1
  <1>3. \A i \in DOMAIN t : i \in Nat /\ i + 1 \in DOMAIN s /\ i + 1 > 1
    BY ONLY <1>1
  <1>4. \A i \in DOMAIN s : i = 1 \/ (i - 1 \in DOMAIN t /\ i = (i - 1) + 1)
    BY ONLY <1>1
  <1>5. Packed(t)
    BY <1>1, <1>3 DEF Packed
  <1> QED BY ONLY <1>1, <1>2, <1>3, <1>4, <1>5 DEF t

\* The first framebuffer update, or a later one, has the answer.
LEMMA TailAnswers ==
    ASSUME NEW s \in Streams, s # <<>>, Packed(s), OneAnswer(s)
    PROVE  LET answered == \E j \in DOMAIN Head(s) : Answer(Head(s)[j])
           IN  /\ Owed(s) <=> answered \/ Owed(Tail(s))
               /\ answered => ~Owed(Tail(s))
               /\ OneAnswer(Tail(s))
  <1> DEFINE t == Tail(s)
             h == Head(s)
             answered == \E j \in DOMAIN h : Answer(h[j])
  <1>1. /\ 1 \in DOMAIN s /\ s[1] = h
        /\ \A i \in DOMAIN t : i \in Nat /\ i + 1 \in DOMAIN s /\ s[i + 1] = t[i] /\ i + 1 > 1
        /\ \A i \in DOMAIN s : i = 1 \/ \E k \in DOMAIN t : i = k + 1
    BY TailPlaces
  <1> HIDE DEF t, h
  <1>2. Owed(s) => answered \/ Owed(t)
    <2>1. ASSUME NEW i \in DOMAIN s, NEW j \in DOMAIN s[i], Answer(s[i][j])
          PROVE  answered \/ Owed(t)
      <3>1. CASE i = 1
        BY <1>1, <2>1, <3>1
      <3>2. ASSUME NEW k \in DOMAIN t, i = k + 1
            PROVE  Owed(t)
        BY <1>1, <2>1, <3>2 DEF Owed
      <3> QED BY <1>1, <3>1, <3>2
    <2> QED BY <2>1 DEF Owed
  <1>3. answered \/ Owed(t) => Owed(s)
    BY <1>1 DEF Owed
  <1>4. answered => ~Owed(t)
    <2>1. ASSUME NEW j \in DOMAIN h, Answer(h[j]), NEW i \in DOMAIN t, NEW l \in DOMAIN t[i],
                 Answer(t[i][l])
          PROVE  FALSE
      <3>1. 1 = i + 1
        BY <1>1, <2>1 DEF OneAnswer
      <3> QED BY <1>1, <3>1
    <2> QED BY <2>1 DEF Owed
  <1>5. OneAnswer(t)
    <2>1. ASSUME NEW i \in DOMAIN t, NEW k \in DOMAIN t, NEW j \in DOMAIN t[i], NEW l \in DOMAIN t[k],
                 Answer(t[i][j]), Answer(t[k][l])
          PROVE  i = k /\ j = l
      <3>1. i + 1 = k + 1 /\ j = l
        BY <1>1, <2>1 DEF OneAnswer
      <3>2. i \in Nat /\ k \in Nat
        BY <1>1
      <3> QED BY ONLY <3>1, <3>2
    <2> QED BY <2>1 DEF OneAnswer
  <1> QED BY <1>2, <1>3, <1>4, <1>5 DEF t, h

\* What is left tells of the same screen; if nothing is left, it was the first
\* framebuffer update that did, or the client.
LEMMA TailScreen ==
    ASSUME NEW s \in Streams, s # <<>>, Packed(s), NEW layout, Tells(s, layout)
    PROVE  /\ Tells(Tail(s), layout)
           /\ NoneApplies(Tail(s)) =>
                 \/ Resize!AppliedLayout(Head(s)) = layout
                 \/ NoneApplies(s) /\ Resize!AppliedLayout(Head(s)) = v4
  <1> DEFINE t == Tail(s)
             h == Head(s)
             applied == {i \in DOMAIN h : Resize!AppliesLayout(h[i])}
  <1>1. /\ 1 \in DOMAIN s /\ s[1] = h
        /\ \A i \in DOMAIN t : i \in Nat /\ i + 1 \in DOMAIN s /\ s[i + 1] = t[i] /\ i + 1 > 1
        /\ \A i \in DOMAIN s : i = 1 \/ \E k \in DOMAIN t : i = k + 1
    BY TailPlaces
  <1>2. applied \subseteq 1 .. 2
    <2>1. h \in Seq(Resize!Updates) /\ Len(h) \in 1 .. 2
      BY <1>1 DEF Streams, Packed
    <2> QED BY <2>1
  <1>3. applied # {} => \E i \in applied : \A j \in applied : j <= i
    BY <1>2
  <1>4. Resize!AppliedLayout(h) = IF applied = {} THEN v4
                                  ELSE h[CHOOSE i \in applied : \A j \in applied : j <= i].layout
    BY DEF Resize!AppliedLayout
  <1> HIDE DEF t, h
  <1>5. ASSUME NEW i \in DOMAIN t, NEW j \in DOMAIN t[i], LastApplied(t, i, j)
        PROVE  t[i][j].layout = layout
    <2>1. ASSUME NEW k \in DOMAIN s, NEW l \in DOMAIN s[k], Resize!AppliesLayout(s[k][l])
          PROVE  k < i + 1 \/ (k = i + 1 /\ l <= j)
      <3>1. CASE k = 1
        BY <1>1, <3>1
      <3>2. ASSUME NEW m \in DOMAIN t, k = m + 1
            PROVE  k < i + 1 \/ (k = i + 1 /\ l <= j)
        <4>1. l \in DOMAIN t[m] /\ Resize!AppliesLayout(t[m][l])
          BY <1>1, <2>1, <3>2
        <4>2. m < i \/ (m = i /\ l <= j)
          BY <1>5, <4>1 DEF LastApplied
        <4>3. m \in Nat /\ i \in Nat
          BY <1>1
        <4> QED BY ONLY <3>2, <4>2, <4>3
      <3> QED BY <1>1, <3>1, <3>2
    <2>2. i + 1 \in DOMAIN s /\ s[i + 1] = t[i]
      BY <1>1
    <2>3. LastApplied(s, i + 1, j)
      BY <1>5, <2>1, <2>2 DEF LastApplied
    <2> QED BY <2>2, <2>3 DEF Tells
  <1>6. ASSUME NoneApplies(t), applied # {}
        PROVE  Resize!AppliedLayout(h) = layout
    <2> DEFINE i == CHOOSE i \in applied : \A j \in applied : j <= i
    <2>1. i \in applied /\ \A j \in applied : j <= i
      BY <1>3, <1>6
    <2> HIDE DEF i
    <2>2. i \in DOMAIN s[1] /\ Resize!AppliesLayout(s[1][i])
      BY <1>1, <2>1
    <2>3. ASSUME NEW k \in DOMAIN s, NEW l \in DOMAIN s[k], Resize!AppliesLayout(s[k][l])
          PROVE  k = 1 /\ l <= i
      <3>1. k = 1
        BY <1>1, <1>6, <2>3 DEF NoneApplies
      <3> QED BY <1>1, <2>1, <2>3, <3>1
    <2>4. LastApplied(s, 1, i)
      BY <2>2, <2>3 DEF LastApplied
    <2>5. s[1][i].layout = layout
      BY <1>1, <2>2, <2>4 DEF Tells
    <2> QED BY <1>1, <1>4, <1>6, <2>5 DEF i
  <1>7. NoneApplies(t) /\ applied = {} => NoneApplies(s)
    BY <1>1 DEF NoneApplies
  <1> QED BY <1>4, <1>5, <1>6, <1>7 DEF Tells, t, h

-----------------------------------------------------------------------------
(* The steps. *)

LEMMA ResizeStart == SizeBounds /\ Resize!Init => ResizeInv
  <1> SUFFICES ASSUME SizeBounds, Resize!Init PROVE ResizeInv
    OBVIOUS
  <1> USE DEF Resize!Init
  <1>1. 1 \in 0 .. HostLayouts /\ 0 \in 0 .. HostLayouts /\ 1 \in 1 .. HostLayouts
        /\ 0 \in 0 .. OtherResizes
    BY DEF SizeBounds
  <1>2. v7 \in Resize!Layouts
    BY DEF SizeBounds, Resize!Foreign, Resize!Layouts
  <1>3. Resize!TypeOK
    <2>1. <<>> \in Seq(1 .. HostLayouts) /\ <<>> \in Seq(Seq(Resize!Updates))
      BY EmptySeq
    <2>2. /\ v5 \in Seq(1 .. HostLayouts) /\ v6 \in Seq(1 .. HostLayouts)
          /\ v8 \in Seq(Seq(Resize!Updates))
      BY <2>1
    <2>3. /\ v2 \in 0 .. HostLayouts /\ v11 \in 1 .. HostLayouts /\ v10 \in 0 .. OtherResizes
          /\ v12 \in 0 .. HostLayouts /\ v13 \in 0 .. HostLayouts
      BY <1>1
    <2> QED BY Zenon, <1>2, <2>2, <2>3 DEF Resize!TypeOK
  <1>4. Packed(v8) /\ OneAnswer(v8) /\ ~Owed(v8) /\ Tells(v8, v7)
    BY DEF Packed, OneAnswer, Owed, Tells
  <1>5. Single /\ ScreenOnItsWay
    BY <1>4 DEF Single, ScreenOnItsWay
  <1>6. ChosenSoFar /\ Resize!NewestKept /\ Resize!NothingStranded
    BY DEF ChosenSoFar, Resize!NewestKept, Resize!NothingStranded
  <1> QED BY <1>3, <1>4, <1>5, <1>6 DEF ResizeInv

LEMMA RequestLayoutInv == ResizeInv /\ Resize!RequestLayout => ResizeInv'
  <1> SUFFICES ASSUME ResizeInv, Resize!RequestLayout PROVE ResizeInv'
    OBVIOUS
  <1>1. /\ v9 /\ v5 = <<>> /\ v11' = v11 + 1
        /\ UNCHANGED <<v1, v4, v6, v7, v10, v8, v9>>
        /\ v11' \in 1 .. HostLayouts /\ v11' \in 0 .. HostLayouts
        /\ v11 < v11' /\ v11 \in Nat
    BY DEF Resize!RequestLayout, Resize!serverVars, ResizeInv, Resize!TypeOK, SizeBounds
  <1>2. v2 \in Nat /\ v12 \in Nat /\ v13 \in Nat
        /\ v2 < v11' /\ v12 < v11' /\ v13 < v11'
    BY <1>1 DEF ResizeInv, Resize!TypeOK, ChosenSoFar, SizeBounds
  <1>3. Packed(v8') /\ ScreenOnItsWay' /\ SizeBounds'
    BY <1>1 DEF ResizeInv, ScreenOnItsWay, SizeBounds
  <1>4. CASE /\ v1 = "Unknown" \/ (v1 = "Supported" /\ v3)
             /\ v2' = v11' /\ v12' = v11' /\ UNCHANGED <<v3, v5, v13>>
    <2>1. Resize!TypeOK'
      BY <1>1, <1>4 DEF ResizeInv, Resize!TypeOK
    <2>2. ChosenSoFar' /\ Resize!NewestKept' /\ Resize!NothingStranded'
      BY <1>1, <1>2, <1>4 DEF ChosenSoFar, Resize!NewestKept, Resize!NothingStranded
    <2>3. Single'
      BY <1>1, <1>4 DEF ResizeInv, Single
    <2> QED BY <1>3, <2>1, <2>2, <2>3 DEF ResizeInv
  <1>5. CASE /\ v1 = "Unsupported"
             /\ UNCHANGED <<v2, v3, v5, v12, v13>>
    <2>1. Resize!TypeOK'
      BY <1>1, <1>5 DEF ResizeInv, Resize!TypeOK
    <2>2. ChosenSoFar'
      BY <1>1, <1>2, <1>5 DEF ChosenSoFar
    <2>3. Single' /\ Resize!NewestKept' /\ Resize!NothingStranded'
      BY <1>1, <1>5 DEF ResizeInv, Single, Resize!NewestKept, Resize!NothingStranded
    <2> QED BY <1>3, <2>1, <2>2, <2>3 DEF ResizeInv
  <1>6. CASE /\ v1 = "Supported" /\ ~v3 /\ v3' = TRUE
             /\ v5' = <<v11'>> /\ v12' = v11' /\ v13' = v11' /\ v2' = v2
    <2>1. v2 = 0
      BY <1>1, <1>6 DEF ResizeInv, Resize!NothingStranded
    <2>2. v6 = <<>> /\ ~Owed(v8)
      BY <1>1, <1>6 DEF ResizeInv, Single
    <2>3. v5' \in Seq(1 .. HostLayouts) /\ v5' # <<>> /\ Len(v5') = 1
      BY <1>1, <1>6
    <2>4. Resize!TypeOK'
      BY <1>1, <1>6, <2>3 DEF ResizeInv, Resize!TypeOK
    <2>5. ChosenSoFar' /\ Resize!NewestKept' /\ Resize!NothingStranded'
      BY <1>1, <1>2, <1>6, <2>1 DEF ChosenSoFar, Resize!NewestKept, Resize!NothingStranded
    <2>6. Single'
      BY <1>1, <1>6, <2>2, <2>3 DEF ResizeInv, Single
    <2> QED BY <1>3, <2>4, <2>5, <2>6 DEF ResizeInv
  <1> QED BY Zenon, <1>1, <1>4, <1>5, <1>6 DEF Resize!RequestLayout, Resize!QueueLayout

LEMMA WriteRequestInv == ResizeInv /\ Resize!WriteRequest => ResizeInv'
  <1> SUFFICES ASSUME ResizeInv, Resize!WriteRequest PROVE ResizeInv'
    OBVIOUS
  <1>1. /\ v9 /\ v5 # <<>> /\ v5' = <<>>
        /\ UNCHANGED <<v1, v2, v3, v4, v7, v10, v8,
                       v11, v12, v13>>
        /\ v5 \in Seq(1 .. HostLayouts) /\ v6 \in Seq(1 .. HostLayouts)
        /\ Len(v5) + Len(v6) <= 1 /\ OneAnswer(v8) /\ ~Owed(v8)
    BY DEF Resize!WriteRequest, Resize!stateVars, Resize!serverVars, ResizeInv, Resize!TypeOK,
       Single
  <1>2. v5' \in Seq(1 .. HostLayouts) /\ Len(v5') = 0
    BY <1>1
  <1>3. v6 = <<>>
    BY ONLY <1>1
  <1>4. Packed(v8') /\ SizeBounds' /\ ChosenSoFar'
    BY <1>1 DEF ResizeInv, SizeBounds, ChosenSoFar
  <1>5. CASE v6' = v6 \o v5 /\ v9' = v9
    <2>1. v6' = v5
      BY <1>1, <1>3, <1>5
    <2>2. v3
      BY <1>1 DEF ResizeInv, Single
    <2>3. Resize!TypeOK'
      BY <1>1, <1>2, <1>5, <2>1 DEF ResizeInv, Resize!TypeOK
    <2>4. Single'
      BY <1>1, <1>2, <1>5, <2>1, <2>2 DEF Single
    <2>5. Resize!NewestKept' /\ Resize!NothingStranded' /\ ScreenOnItsWay'
      BY <1>1, <1>5 DEF ResizeInv, Resize!NewestKept, Resize!NothingStranded, ScreenOnItsWay
    <2> QED BY <1>4, <2>3, <2>4, <2>5 DEF ResizeInv
  <1>6. CASE v9' = FALSE /\ v6' = v6
    <2>1. Resize!TypeOK'
      BY Zenon, <1>1, <1>2, <1>6 DEF ResizeInv, Resize!TypeOK
    <2>2. Single' /\ Resize!NewestKept' /\ Resize!NothingStranded' /\ ScreenOnItsWay'
      BY <1>6 DEF Single, Resize!NewestKept, Resize!NothingStranded, ScreenOnItsWay
    <2> QED BY <1>4, <2>1, <2>2 DEF ResizeInv
  <1> QED BY Zenon, <1>5, <1>6 DEF Resize!WriteRequest

\* A framebuffer update tells of a layout that the client can keep.
LEMMA AppliedType ==
    ASSUME ResizeInv, NEW updates \in Seq(Resize!Updates), Len(updates) \in 1 .. 2
    PROVE  Resize!AppliedLayout(updates) \in {0} \cup Resize!Layouts
  <1> DEFINE applied == {i \in DOMAIN updates : Resize!AppliesLayout(updates[i])}
             last == CHOOSE i \in applied : \A j \in applied : j <= i
  <1>1. \A i \in DOMAIN updates : updates[i].layout \in Resize!Layouts
    <2>1. \A u \in Resize!Updates : u.layout \in Resize!Layouts
      BY DEF Resize!Updates
    <2> QED BY <2>1
  <1>2. applied # {} => last \in DOMAIN updates
    <2>1. applied \subseteq 1 .. 2
      OBVIOUS
    <2>2. applied # {} => \E i \in applied : \A j \in applied : j <= i
      BY <2>1
    <2> QED BY <2>2
  <1>3. Resize!AppliedLayout(updates) = IF applied = {} THEN v4 ELSE updates[last].layout
    BY DEF Resize!AppliedLayout
  <1>4. v4 \in {0} \cup Resize!Layouts
    BY DEF ResizeInv, Resize!TypeOK
  <1> HIDE DEF applied, last
  <1> QED BY <1>1, <1>2, <1>3, <1>4

LEMMA HandleUpdateInv == ResizeInv /\ Resize!HandleUpdate => ResizeInv'
  <1> SUFFICES ASSUME ResizeInv, Resize!HandleUpdate PROVE ResizeInv'
    OBVIOUS
  <1> DEFINE updates == Head(v8)
             answered   == \E i \in DOMAIN updates : Answer(updates[i])
             prohibited == \E i \in DOMAIN updates : updates[i].result = "ResizeProhibited"
             flying     == v3 /\ ~answered
             sends      == ~prohibited /\ ~flying /\ v2 # 0
  <1>1. /\ v9 /\ v8 # <<>> /\ v8' = Tail(v8)
        /\ UNCHANGED <<v5, v7, v10, v11>>
        /\ v8 \in Streams /\ Packed(v8)
    BY DEF Resize!HandleUpdate, Resize!serverVars, ResizeInv, Resize!TypeOK, Streams
  <1>2. /\ v1' = IF prohibited THEN "Unsupported" ELSE "Supported"
        /\ v4' = Resize!AppliedLayout(updates)
        /\ v3' = (flying \/ sends)
        /\ v2' = IF prohibited \/ sends THEN 0 ELSE v2
        /\ v12' = IF prohibited THEN 0 ELSE v12
        /\ ~sends => UNCHANGED <<v6, v9, v13>>
        /\ sends => /\ v13' = v2
                    /\ \/ v6' = Append(v6, v2) /\ UNCHANGED v9
                       \/ v9' = FALSE /\ UNCHANGED v6
    BY Zenon DEF Resize!HandleUpdate, Resize!Observe, Answer
  <1>3. updates \in Seq(Resize!Updates) /\ Len(updates) \in 1 .. 2
    <2>1. 1 \in DOMAIN v8 /\ v8[1] = updates
      BY <1>1, TailPlaces
    <2> QED BY <1>1, <2>1 DEF Streams, Packed
  <1>4. /\ Len(v5) + Len(v6) <= 1
        /\ v3 <=> v5 # <<>> \/ v6 # <<>> \/ Owed(v8)
        /\ Owed(v8) => v5 = <<>> /\ v6 = <<>>
        /\ OneAnswer(v8)
        /\ v5 \in Seq(1 .. HostLayouts) /\ v6 \in Seq(1 .. HostLayouts)
    BY <1>1 DEF ResizeInv, Single, Resize!TypeOK
  <1>5. /\ Owed(v8) <=> answered \/ Owed(v8')
        /\ answered => ~Owed(v8')
        /\ OneAnswer(v8')
    BY <1>1, <1>4, TailAnswers
  <1>6. v8' \in Streams /\ Packed(v8')
    BY <1>1, TailPlaces
  <1>7. Resize!AppliedLayout(updates) \in {0} \cup Resize!Layouts
    BY <1>3, AppliedType
  <1>8. /\ v2 \in 0 .. HostLayouts /\ v12 \in 0 .. HostLayouts /\ v13 \in 0 .. HostLayouts
        /\ v2 # 0 => v2 \in 1 .. HostLayouts
        /\ 0 \in 0 .. HostLayouts /\ v11 \in Nat
        /\ v2 <= v11 /\ v12 <= v11 /\ v13 <= v11
    BY DEF ResizeInv, Resize!TypeOK, SizeBounds, ChosenSoFar
  <1> HIDE DEF answered, prohibited, flying, updates
  <1>9. Resize!TypeOK'
    <2>1. v6' \in Seq(1 .. HostLayouts)
      <3>1. CASE sends /\ v6' = Append(v6, v2)
        <4>1. v2 \in 1 .. HostLayouts
          BY <1>8, <3>1
        <4> QED BY ONLY <1>4, <3>1, <4>1, AppendProperties
      <3>2. CASE v6' = v6
        BY <1>4, <3>2
      <3> QED BY <1>2, <3>1, <3>2
    <2>2. v3' \in BOOLEAN /\ v9' \in BOOLEAN
      BY Zenon, <1>1, <1>2
    <2>3. v1' \in {"Unknown", "Supported", "Unsupported"}
      BY <1>2
    <2>4. v2' \in 0 .. HostLayouts /\ v12' \in 0 .. HostLayouts /\ v13' \in 0 .. HostLayouts
      BY ONLY <1>2, <1>8
    <2> QED BY <1>1, <1>2, <1>6, <1>7, <2>1, <2>2, <2>3, <2>4 DEF ResizeInv, Resize!TypeOK,
               Streams
  <1>10. ChosenSoFar'
    <2>1. 0 <= v11
      BY <1>8
    <2> QED BY ONLY Zenon, <1>1, <1>2, <1>8, <2>1 DEF ChosenSoFar
  <1>11. ASSUME v9' PROVE Single'
    <2>1. CASE sends
      <3>1. v5 = <<>> /\ v6 = <<>> /\ ~Owed(v8')
        BY <1>4, <1>5, <2>1 DEF flying
      <3>2. v6' = <<v2>>
        BY <1>2, <1>11, <2>1, <3>1
      <3>3. Len(v6') = 1 /\ v6' # <<>> /\ Len(v5') = 0 /\ v5' = <<>>
        BY <1>1, <3>1, <3>2
      <3>4. v3'
        BY Zenon, <1>2, <2>1
      <3>5. OneAnswer(v8')
        BY <1>5
      <3> QED BY ONLY <3>1, <3>3, <3>4, <3>5 DEF Single
    <2>2. CASE ~sends
      <3>1. v6' = v6 /\ v5' = v5 /\ (v3' <=> flying)
        BY Zenon, <1>1, <1>2, <2>2
      <3>2. CASE answered
        <4>1. v5 = <<>> /\ v6 = <<>> /\ ~Owed(v8') /\ ~flying
          BY <1>4, <1>5, <3>2 DEF flying
        <4> QED BY <1>4, <1>5, <3>1, <4>1 DEF Single
      <3>3. CASE ~answered
        <4>1. (flying <=> v3) /\ (Owed(v8') <=> Owed(v8))
          BY <1>5, <3>3 DEF flying, ResizeInv, Resize!TypeOK
        <4> QED BY <1>4, <1>5, <3>1, <4>1 DEF Single
      <3> QED BY <3>2, <3>3
    <2> QED BY <2>1, <2>2
  <1>12. Single'
    BY <1>11 DEF Single
  <1>13. Resize!NewestKept' /\ Resize!NothingStranded'
    <2>1. v12 # 0 => \/ v2 = v12 /\ v13 < v2
                     \/ v2 = 0 /\ v13 = v12
      BY <1>1 DEF ResizeInv, Resize!NewestKept
    <2> QED BY ONLY Zenon, <1>2, <2>1 DEF Resize!NewestKept, Resize!NothingStranded
  <1>14. ScreenOnItsWay'
    <2>1. Tells(v8, v7) /\ (NoneApplies(v8) /\ v10 > 0 => v4 = v7)
      BY <1>1 DEF ResizeInv, ScreenOnItsWay
    <2>2. /\ Tells(v8', v7)
          /\ NoneApplies(v8') =>
                \/ Resize!AppliedLayout(updates) = v7
                \/ NoneApplies(v8) /\ Resize!AppliedLayout(updates) = v4
      BY <1>1, <2>1, TailScreen DEF updates
    <2> QED BY <1>1, <1>2, <2>1, <2>2 DEF ScreenOnItsWay
  <1> QED BY <1>6, <1>9, <1>10, <1>12, <1>13, <1>14 DEF ResizeInv, SizeBounds

LEMMA ServerAnswersInv == ResizeInv /\ Resize!ServerAnswers => ResizeInv'
  <1> SUFFICES ASSUME ResizeInv, Resize!ServerAnswers PROVE ResizeInv'
    OBVIOUS
  <1>1. /\ v9 /\ v6 # <<>> /\ v6' = Tail(v6)
        /\ UNCHANGED <<v1, v2, v3, v4, v5, v9, v10,
                       v11, v12, v13>>
        /\ v6 \in Seq(1 .. HostLayouts) /\ v5 \in Seq(1 .. HostLayouts)
        /\ v8 \in Streams /\ Packed(v8)
    BY DEF Resize!ServerAnswers, Resize!stateVars, ResizeInv, Resize!TypeOK, Streams
  <1>2. PICK result \in Resize!Results :
          /\ v7' = IF result = "Success" THEN Head(v6) ELSE v7
          /\ Resize!SendUpdate([reason |-> "Client", result |-> result, layout |-> Head(v6)])
    BY DEF Resize!ServerAnswers
  <1> DEFINE update == [reason |-> "Client", result |-> result, layout |-> Head(v6)]
  <1>3. Head(v6) \in 1 .. HostLayouts /\ Head(v6) \in Resize!Layouts
    <2>1. v6 \in Seq(1 .. HostLayouts) /\ v6 # <<>>
      BY <1>1
    <2>2. \A S : \A s \in Seq(S) : s # <<>> => Head(s) \in S
      BY ONLY TRUE
    <2>3. Head(v6) \in 1 .. HostLayouts
      BY Zenon, <2>1, <2>2
    <2> QED BY <2>3 DEF ResizeInv, SizeBounds, Resize!Layouts
  <1>4. /\ update \in Resize!Updates /\ Answer(update) /\ update.layout = Head(v6)
        /\ Resize!AppliesLayout(update) <=> result = "Success"
    BY <1>3 DEF Resize!Updates, Answer, Resize!AppliesLayout
  <1> HIDE DEF update
  <1>5. /\ v8' \in Streams /\ Packed(v8')
        /\ \E m, n \in Nat : OneMore(v8, v8', m, n, update)
    BY <1>1, <1>2, <1>4, Sent DEF update
  <1>6. PICK m \in Nat, n \in Nat : OneMore(v8, v8', m, n, update)
    BY <1>5
  <1>7. v3 /\ v5 = <<>> /\ ~Owed(v8) /\ Len(v6) = 1
    <2>1. v3 /\ ~Owed(v8)
      BY <1>1 DEF ResizeInv, Single
    <2>2. Len(v5) + Len(v6) <= 1
      BY <1>1 DEF ResizeInv, Single
    <2>3. Len(v5) \in Nat
      BY ONLY <1>1
    <2>4. Len(v6) \in Nat \ {0}
      BY ONLY <1>1
    <2>5. \A x \in Nat, y \in Nat \ {0} : x + y <= 1 => x = 0 /\ y = 1
      BY ONLY TRUE
    <2>6. Len(v5) = 0 /\ Len(v6) = 1
      BY ONLY Zenon, <2>2, <2>3, <2>4, <2>5
    <2>7. v5 = <<>>
      BY ONLY <1>1, <2>6
    <2> QED BY ONLY <2>1, <2>6, <2>7
  <1>8. v6' = <<>> /\ v6' \in Seq(1 .. HostLayouts) /\ Len(v6') = 0 /\ Len(v5) = 0
    BY ONLY <1>1, <1>7
  <1>9. Owed(v8') /\ OneAnswer(v8')
    BY <1>4, <1>6, <1>7, OneMoreAnswer
  <1>10. Resize!TypeOK'
    <2>1. v7' \in Resize!Layouts
      BY <1>2, <1>3 DEF ResizeInv, Resize!TypeOK
    <2> QED BY <1>1, <1>5, <1>8, <2>1 DEF ResizeInv, Resize!TypeOK, Streams
  <1>11. Single'
    <2>1. v5' = <<>> /\ v3'
      BY ONLY <1>1, <1>7
    <2>2. Len(v5') + Len(v6') <= 1
      BY ONLY <1>8, <2>1
    <2> QED BY ONLY <1>8, <1>9, <2>1, <2>2 DEF Single
  <1>12. ScreenOnItsWay'
    <2>1. Tells(v8, v7) /\ (NoneApplies(v8) /\ v10 > 0 => v4 = v7)
      BY <1>1 DEF ResizeInv, ScreenOnItsWay
    <2>2. /\ Resize!AppliesLayout(update) => Tells(v8', update.layout) /\ ~NoneApplies(v8')
          /\ ~Resize!AppliesLayout(update) =>
                /\ NoneApplies(v8') => NoneApplies(v8)
                /\ Tells(v8, v7) => Tells(v8', v7)
      BY <1>5, <1>6, OneMoreScreen
    <2>3. v7' = IF Resize!AppliesLayout(update) THEN update.layout ELSE v7
      BY <1>2, <1>4
    <2>4. Tells(v8', v7')
      BY <2>1, <2>2, <2>3
    <2>5. NoneApplies(v8') => v7' = v7 /\ NoneApplies(v8)
      BY <2>2, <2>3
    <2> QED BY <1>1, <2>1, <2>4, <2>5 DEF ScreenOnItsWay
  <1>13. ChosenSoFar' /\ Resize!NewestKept' /\ Resize!NothingStranded'
    BY <1>1 DEF ResizeInv, ChosenSoFar, Resize!NewestKept, Resize!NothingStranded
  <1> QED BY <1>5, <1>10, <1>11, <1>12, <1>13 DEF ResizeInv, SizeBounds

LEMMA ServerResizesInv == ResizeInv /\ Resize!ServerResizes => ResizeInv'
  <1> SUFFICES ASSUME ResizeInv, Resize!ServerResizes PROVE ResizeInv'
    OBVIOUS
  <1>1. /\ v9 /\ v10 < OtherResizes /\ v10' = v10 + 1
        /\ v7' = Resize!Foreign(v10')
        /\ UNCHANGED <<v1, v2, v3, v4, v5, v6, v9,
                       v11, v12, v13>>
        /\ v8 \in Streams /\ Packed(v8)
    BY DEF Resize!ServerResizes, Resize!stateVars, ResizeInv, Resize!TypeOK, Streams
  <1>2. PICK reason \in {"Server", "OtherClient"} :
          Resize!SendUpdate([reason |-> reason, result |-> "Success", layout |-> v7'])
    BY DEF Resize!ServerResizes
  <1> DEFINE update == [reason |-> reason, result |-> "Success", layout |-> v7']
  <1>3. v10' \in 0 .. OtherResizes /\ v7' \in Resize!Layouts
    <2>1. v10 \in 0 .. OtherResizes /\ HostLayouts \in Nat /\ OtherResizes \in Nat
      BY DEF ResizeInv, Resize!TypeOK, SizeBounds
    <2>2. v10' \in 0 .. OtherResizes
      BY ONLY <1>1, <2>1
    <2> QED BY ONLY <1>1, <2>1, <2>2 DEF Resize!Foreign, Resize!Layouts
  <1>4. /\ update \in Resize!Updates /\ ~Answer(update) /\ update.layout = v7' /\ Resize!AppliesLayout(update)
    BY <1>3 DEF Resize!Updates, Answer, Resize!AppliesLayout
  <1> HIDE DEF update
  <1>5. /\ v8' \in Streams /\ Packed(v8')
        /\ \E m, n \in Nat : OneMore(v8, v8', m, n, update)
    BY <1>1, <1>2, <1>4, Sent DEF update
  <1>6. PICK m \in Nat, n \in Nat : OneMore(v8, v8', m, n, update)
    BY <1>5
  <1>7. (Owed(v8') <=> Owed(v8)) /\ (OneAnswer(v8) => OneAnswer(v8'))
    BY <1>4, <1>6, OneMoreAnswer
  <1>8. Tells(v8', v7') /\ ~NoneApplies(v8')
    BY <1>4, <1>5, <1>6, OneMoreScreen
  <1>9. Resize!TypeOK'
    BY <1>1, <1>3, <1>5 DEF ResizeInv, Resize!TypeOK, Streams
  <1>10. Single'
    BY <1>1, <1>7 DEF ResizeInv, Single
  <1>11. ScreenOnItsWay'
    BY <1>8 DEF ScreenOnItsWay
  <1>12. ChosenSoFar' /\ Resize!NewestKept' /\ Resize!NothingStranded'
    BY <1>1 DEF ResizeInv, ChosenSoFar, Resize!NewestKept, Resize!NothingStranded
  <1> QED BY <1>5, <1>9, <1>10, <1>11, <1>12 DEF ResizeInv, SizeBounds

LEMMA ResizeSteps == ResizeInv /\ Resize!Next => ResizeInv'
  BY RequestLayoutInv, WriteRequestInv, HandleUpdateInv, ServerAnswersInv, ServerResizesInv
     DEF Resize!Next

LEMMA ResizeHolds ==
    ASSUME ResizeInv
    PROVE  Resize!OneRequest /\ Resize!NewestKept /\ Resize!NothingStranded /\ Resize!ScreenKnown
  <1>1. ASSUME v9 PROVE Resize!OneRequest
    <2>1. /\ Len(v5) + Len(v6) <= 1
          /\ v3 <=> v5 # <<>> \/ v6 # <<>> \/ Owed(v8)
          /\ Owed(v8) => v5 = <<>> /\ v6 = <<>>
          /\ OneAnswer(v8)
      BY <1>1 DEF ResizeInv, Single
    <2>2. \A i \in DOMAIN v8 : DOMAIN v8[i] \subseteq 1 .. 2
      <3>1. \A i \in DOMAIN v8 : v8[i] \in Seq(Resize!Updates) /\ Len(v8[i]) \in 1 .. 2
        BY DEF ResizeInv, Resize!TypeOK, Packed
      <3> QED BY <3>1
    <2>3. Resize!Answers # {} <=> Owed(v8)
      <3>1. ASSUME NEW i \in DOMAIN v8, NEW j \in DOMAIN v8[i], Answer(v8[i][j])
            PROVE  <<i, j>> \in Resize!Answers
        BY <2>2, <3>1 DEF Resize!Answers, Answer
      <3>2. ASSUME NEW p \in Resize!Answers
            PROVE  p[1] \in DOMAIN v8 /\ p[2] \in DOMAIN v8[p[1]] /\ Answer(v8[p[1]][p[2]])
        BY <3>2 DEF Resize!Answers, Answer
      <3> QED BY Zenon, <3>1, <3>2 DEF Owed
    <2>4. \A a, b \in Resize!Answers : a = b
      <3>1. SUFFICES ASSUME NEW a \in Resize!Answers, NEW b \in Resize!Answers PROVE a = b
        OBVIOUS
      <3>2. a = <<a[1], a[2]>> /\ b = <<b[1], b[2]>>
        BY DEF Resize!Answers
      <3>3. /\ a[1] \in DOMAIN v8 /\ a[2] \in DOMAIN v8[a[1]] /\ Answer(v8[a[1]][a[2]])
            /\ b[1] \in DOMAIN v8 /\ b[2] \in DOMAIN v8[b[1]] /\ Answer(v8[b[1]][b[2]])
        BY DEF Resize!Answers, Answer
      <3>4. a[1] = b[1] /\ a[2] = b[2]
        BY <2>1, <3>3 DEF OneAnswer
      <3> QED BY ONLY <3>2, <3>4
    <2> QED BY <2>1, <2>3, <2>4 DEF Resize!OneRequest
  <1>2. Resize!OneRequest
    BY <1>1 DEF Resize!OneRequest
  <1>3. Resize!ScreenKnown
    <2>1. v8 = <<>> => NoneApplies(v8)
      BY DEF NoneApplies
    <2> QED BY <2>1 DEF ResizeInv, ScreenOnItsWay, Resize!ScreenKnown
  <1> QED BY <1>2, <1>3 DEF ResizeInv

-----------------------------------------------------------------------------
(* The layouts: the host's monitors are v1, what becomes of them v2.         *)

LEMMA SameCount == \A S : Layouts!Cardinality(S) = Cardinality(S)
  BY DEF Layouts!Cardinality, Cardinality

LEMMA FewerIs ==
    ASSUME NEW n \in Nat, NEW S, NEW T, S \subseteq T, T \subseteq 1 .. n
    PROVE  /\ Cardinality(S) \in Nat /\ Cardinality(T) \in Nat
           /\ S # T => Cardinality(S) < Cardinality(T)
           /\ Cardinality(S) <= n
  <1>1. IsFiniteSet(1 .. n) /\ Cardinality(1 .. n) = n
    BY FS_Interval
  <1>2. IsFiniteSet(T) /\ Cardinality(T) <= n
    BY ONLY Zenon, <1>1, T \subseteq 1 .. n, FS_Subset
  <1>3. /\ IsFiniteSet(S) /\ Cardinality(S) <= Cardinality(T)
        /\ Cardinality(T) = Cardinality(S) => T = S
    BY ONLY <1>2, S \subseteq T, FS_Subset
  <1>4. Cardinality(S) \in Nat /\ Cardinality(T) \in Nat
    BY ONLY <1>2, <1>3, FS_CardinalityType
  <1> QED BY ONLY <1>2, <1>3, <1>4, n \in Nat

\* Where a strict order leaves no two of 1 .. n unordered, counting those ahead of each
\* gives every number below n once.
LEMMA RanksAre ==
    ASSUME NEW n \in Nat, NEW A \in [1 .. n -> SUBSET (1 .. n)],
           \A i \in 1 .. n : i \notin A[i],
           \A i, j \in 1 .. n : i \in A[j] => A[i] \subseteq A[j],
           \A i, j \in 1 .. n : i # j => i \in A[j] \/ j \in A[i]
    PROVE  /\ \A i, j \in 1 .. n : i # j => Cardinality(A[i]) # Cardinality(A[j])
           /\ \A i \in 1 .. n : \E k \in 1 .. n : Cardinality(A[k]) = i - 1
           /\ \A i \in 1 .. n : Cardinality(A[i]) + 1 \in 1 .. n
  <1>1. ASSUME NEW i \in 1 .. n, NEW j \in 1 .. n, i \in A[j]
        PROVE  Cardinality(A[i]) # Cardinality(A[j])
    <2>1. A[i] \subseteq A[j] /\ A[i] # A[j] /\ A[j] \subseteq 1 .. n
      BY <1>1
    <2>2. /\ Cardinality(A[i]) \in Nat /\ Cardinality(A[j]) \in Nat
          /\ Cardinality(A[i]) < Cardinality(A[j])
      BY ONLY <2>1, n \in Nat, FewerIs
    <2> QED BY ONLY <2>2
  <1>2. \A i, j \in 1 .. n : i # j => Cardinality(A[i]) # Cardinality(A[j])
    BY <1>1
  <1>3. ASSUME NEW i \in 1 .. n
        PROVE  Cardinality(A[i]) + 1 \in 1 .. n
    <2>1. A[i] \subseteq 1 .. n /\ A[i] # 1 .. n
      OBVIOUS
    <2>2. Cardinality(1 .. n) = n
      BY FS_Interval
    <2>3. Cardinality(A[i]) \in Nat /\ Cardinality(A[i]) < Cardinality(1 .. n)
      BY ONLY Zenon, <2>1, n \in Nat, FewerIs
    <2> QED BY ONLY <2>2, <2>3, n \in Nat
  <1> DEFINE f == [i \in 1 .. n |-> Cardinality(A[i]) + 1]
  <1>4. ASSUME NEW i \in 1 .. n, NEW j \in 1 .. n, i # j
        PROVE  Cardinality(A[i]) + 1 # Cardinality(A[j]) + 1
    <2>1. Cardinality(A[i]) # Cardinality(A[j])
      BY <1>2, <1>4
    <2>2. Cardinality(A[i]) \in Nat /\ Cardinality(A[j]) \in Nat
      BY FewerIs
    <2> QED BY ONLY <2>1, <2>2
  <1>5. f \in Injection(1 .. n, 1 .. n)
    BY ONLY <1>3, <1>4 DEF Injection, IsInjective
  <1>6. IsFiniteSet(1 .. n)
    BY FS_Interval
  <1>7. f \in Surjection(1 .. n, 1 .. n)
    BY ONLY <1>5, <1>6, FS_Injection
  <1>8. ASSUME NEW i \in 1 .. n
        PROVE  \E k \in 1 .. n : Cardinality(A[k]) = i - 1
    <2>1. PICK k \in 1 .. n : f[k] = i
      BY ONLY Zenon, <1>7 DEF Surjection
    <2>2. Cardinality(A[k]) + 1 = i
      BY ONLY <2>1
    <2>3. Cardinality(A[k]) \in Nat
      BY FewerIs
    <2> QED BY ONLY <2>2, <2>3
  <1> QED BY ONLY <1>2, <1>3, <1>8

LEMMA SmallestIs ==
    ASSUME NEW n \in Nat \ {0}, NEW f \in [1 .. n -> Int]
    PROVE  \E i \in 1 .. n : \A j \in 1 .. n : f[i] <= f[j]
  <1> DEFINE A(i) == {j \in 1 .. n : f[j] < f[i]}
             C == {Cardinality(A(i)) : i \in 1 .. n}
  <1>1. \A i \in 1 .. n : A(i) \subseteq 1 .. n /\ Cardinality(A(i)) \in Nat
    BY FewerIs
  <1>2. C \subseteq Nat /\ C # {}
    <2> HIDE DEF A
    <2> QED BY ONLY <1>1, n \in Nat \ {0}
  <1>3. PICK c \in C : \A k \in C : c <= k
    BY ONLY Zenon, <1>2, LeastIs
  <1>4. PICK i \in 1 .. n : c = Cardinality(A(i))
    BY Zenon, <1>3
  <1>5. ASSUME NEW j \in 1 .. n, f[j] < f[i]
        PROVE  FALSE
    <2>1. A(j) \subseteq A(i)
      BY <1>5
    <2>2. j \in A(i) /\ j \notin A(j)
      BY <1>5
    <2>3. Cardinality(A(j)) < Cardinality(A(i))
      <3> HIDE DEF A
      <3> QED BY ONLY Zenon, <1>1, <2>1, <2>2, n \in Nat \ {0}, FewerIs
    <2>4. c <= Cardinality(A(j))
      BY Zenon, <1>3
    <2> QED BY ONLY <1>1, <1>4, <2>3, <2>4
  <1>6. \A j \in 1 .. n : f[i] <= f[j]
    BY <1>5
  <1> QED BY ONLY <1>6

\* Both ends of the numbers that a list of monitors gives.
LEMMA EndsAre ==
    ASSUME NEW n \in Nat \ {0}, NEW f \in [1 .. n -> Int]
    PROVE  LET S == {f[i] : i \in 1 .. n} IN
           /\ Layouts!Lowest(S) \in Int /\ Layouts!Highest(S) \in Int
           /\ \E i \in 1 .. n : f[i] = Layouts!Lowest(S)
           /\ \E i \in 1 .. n : f[i] = Layouts!Highest(S)
           /\ \A i \in 1 .. n : Layouts!Lowest(S) <= f[i] /\ f[i] <= Layouts!Highest(S)
  <1> DEFINE S == {f[i] : i \in 1 .. n}
             g == [i \in 1 .. n |-> - f[i]]
  <1>1. PICK i \in 1 .. n : \A j \in 1 .. n : f[i] <= f[j]
    BY Zenon, SmallestIs
  <1>2. g \in [1 .. n -> Int]
    OBVIOUS
  <1>3. PICK k \in 1 .. n : \A j \in 1 .. n : g[k] <= g[j]
    <2> HIDE DEF g
    <2> QED BY ONLY Zenon, <1>2, n \in Nat \ {0}, SmallestIs
  <1>4. \A j \in 1 .. n : f[j] <= f[k]
    BY <1>3
  <1>5. \E a \in S : \A b \in S : a <= b
    BY Zenon, <1>1
  <1>6. \E a \in S : \A b \in S : b <= a
    BY <1>4
  <1>7. /\ Layouts!Lowest(S) \in S /\ Layouts!Highest(S) \in S
        /\ \A b \in S : Layouts!Lowest(S) <= b /\ b <= Layouts!Highest(S)
    <2> HIDE DEF S
    <2> QED BY ONLY <1>5, <1>6 DEF Layouts!Lowest, Layouts!Highest
  <1> QED BY Zenon, <1>7

\* What the proofs need of a list of monitors.
Listed(ms, n) ==
    /\ n \in Nat /\ DOMAIN ms = 1 .. n
    /\ \A i \in 1 .. n : /\ ms[i].name \in Int /\ ms[i].left \in Int /\ ms[i].top \in Int
                         /\ ms[i].width \in Int /\ ms[i].height \in Int
                         /\ ms[i].primary \in BOOLEAN

LEMMA KeysDiffer ==
    ASSUME NEW ms, NEW n, Listed(ms, n), Layouts!Acceptable(ms)
    PROVE  /\ \A i \in 1 .. n : ~ Layouts!Before(ms[i], ms[i])
           /\ \A i, j, k \in 1 .. n :
                Layouts!Before(ms[i], ms[j]) /\ Layouts!Before(ms[j], ms[k])
                => Layouts!Before(ms[i], ms[k])
           /\ \A i, j \in 1 .. n :
                i # j => Layouts!Before(ms[i], ms[j]) \/ Layouts!Before(ms[j], ms[i])
  <1>1. /\ DOMAIN ms = 1 .. n
        /\ \A i \in 1 .. n : /\ ms[i].name \in Int /\ ms[i].left \in Int /\ ms[i].top \in Int
                             /\ ms[i].primary \in BOOLEAN
        /\ \A i, j \in 1 .. n : i # j => ms[i].name # ms[j].name
    BY Zenon DEF Listed, Layouts!Acceptable
  <1>2. \A i \in 1 .. n : ~ Layouts!Before(ms[i], ms[i])
    BY ONLY <1>1 DEF Layouts!Before
  <1>3. ASSUME NEW i \in 1 .. n, NEW j \in 1 .. n, NEW k \in 1 .. n,
               Layouts!Before(ms[i], ms[j]), Layouts!Before(ms[j], ms[k])
        PROVE  Layouts!Before(ms[i], ms[k])
    BY ONLY <1>1, <1>3 DEF Layouts!Before
  <1>4. ASSUME NEW i \in 1 .. n, NEW j \in 1 .. n, i # j
        PROVE  Layouts!Before(ms[i], ms[j]) \/ Layouts!Before(ms[j], ms[i])
    BY ONLY <1>1, <1>4 DEF Layouts!Before
  <1> QED BY ONLY <1>2, <1>3, <1>4

\* The order of the screens: each place has the one monitor of that rank, and the first
\* the primary one.
LEMMA OrderIs ==
    ASSUME NEW ms, NEW n, Listed(ms, n), Layouts!Acceptable(ms)
    PROVE  /\ n # 0
           /\ Layouts!Order(ms) \in [1 .. n -> 1 .. n]
           /\ \A i \in 1 .. n : Layouts!Rank(Layouts!Order(ms)[i], ms) = i - 1
           /\ \A k \in 1 .. n : \E i \in 1 .. n : Layouts!Order(ms)[i] = k
           /\ \A i, j \in 1 .. n : i # j => Layouts!Order(ms)[i] # Layouts!Order(ms)[j]
           /\ \A i, j \in 1 .. n : i # j => Layouts!Rank(i, ms) # Layouts!Rank(j, ms)
           /\ ms[Layouts!Order(ms)[1]].primary
  <1> DEFINE A == [k \in 1 .. n |-> {j \in 1 .. n : Layouts!Before(ms[j], ms[k])}]
             o == Layouts!Order(ms)
  <1>1. n \in Nat /\ DOMAIN ms = 1 .. n
    BY DEF Listed
  <1>2. A \in [1 .. n -> SUBSET (1 .. n)]
    OBVIOUS
  <1>3. /\ \A i \in 1 .. n : i \notin A[i]
        /\ \A i, j \in 1 .. n : i \in A[j] => A[i] \subseteq A[j]
        /\ \A i, j \in 1 .. n : i # j => i \in A[j] \/ j \in A[i]
    BY KeysDiffer
  <1>4. \A k \in 1 .. n : Layouts!Rank(k, ms) = Cardinality(A[k])
    BY ONLY Zenon, <1>1, SameCount DEF Layouts!Rank
  <1>5. /\ \A i, j \in 1 .. n : i # j => Cardinality(A[i]) # Cardinality(A[j])
        /\ \A i \in 1 .. n : \E k \in 1 .. n : Cardinality(A[k]) = i - 1
        /\ \A i \in 1 .. n : Cardinality(A[i]) + 1 \in 1 .. n
    <2> HIDE DEF A
    <2> QED BY ONLY Zenon, <1>1, <1>2, <1>3, RanksAre
  <1>6. ASSUME NEW i \in 1 .. n
        PROVE  o[i] \in 1 .. n /\ Layouts!Rank(o[i], ms) = i - 1
    <2>1. \E k \in 1 .. n : Layouts!Rank(k, ms) = i - 1
      BY ONLY Zenon, <1>4, <1>5
    <2> QED BY ONLY <1>1, <2>1 DEF Layouts!Order
  <1>7. o \in [1 .. n -> 1 .. n]
    BY ONLY <1>1, <1>6 DEF Layouts!Order
  <1>8. PICK p \in 1 .. n : ms[p].primary /\ \A j \in 1 .. n : ms[j].primary => j = p
    <2>1. PICK p \in DOMAIN ms : \A j \in DOMAIN ms : ms[j].primary <=> j = p
      BY ONLY Layouts!Acceptable(ms) DEF Layouts!Acceptable
    <2>2. ms[p].primary /\ \A j \in DOMAIN ms : ms[j].primary => j = p
      BY ONLY <2>1
    <2> QED BY ONLY Zenon, <1>1, <2>2
  <1>9. n # 0 /\ 1 \in 1 .. n
    BY ONLY <1>1, <1>8
  <1>10. ms[o[1]].primary
    <2>1. o[1] \in 1 .. n /\ Layouts!Rank(o[1], ms) = 0
      BY ONLY <1>6, <1>9
    <2>2. IsFiniteSet(A[o[1]])
      <3>1. IsFiniteSet(1 .. n)
        BY ONLY <1>1, FS_Interval
      <3>2. A[o[1]] \subseteq 1 .. n
        BY <2>1
      <3> QED BY ONLY Zenon, <3>1, <3>2, FS_Subset
    <2>3. A[o[1]] = {}
      BY ONLY Zenon, <1>4, <2>1, <2>2, FS_EmptySet
    <2>4. ~ Layouts!Before(ms[p], ms[o[1]])
      BY ONLY Zenon, <2>1, <2>3
    <2>5. CASE o[1] # p
      <3>1. Layouts!Before(ms[o[1]], ms[p])
        BY ONLY <1>8, <2>1, <2>4, <2>5, KeysDiffer, Listed(ms, n), Layouts!Acceptable(ms)
      <3>2. ~ ms[o[1]].primary
        BY ONLY <1>8, <2>1, <2>5
      <3> QED BY ONLY Zenon, <1>8, <3>1, <3>2 DEF Layouts!Before
    <2> QED BY ONLY <1>8, <2>5
  <1>11. ASSUME NEW i \in 1 .. n, NEW j \in 1 .. n, i # j
         PROVE  Layouts!Rank(i, ms) # Layouts!Rank(j, ms)
    <2>1. Cardinality(A[i]) # Cardinality(A[j])
      BY ONLY <1>5, <1>11
    <2> QED BY ONLY <1>4, <2>1
  <1>12. ASSUME NEW k \in 1 .. n
         PROVE  \E i \in 1 .. n : o[i] = k
    <2>1. Layouts!Rank(k, ms) = Cardinality(A[k]) /\ Cardinality(A[k]) + 1 \in 1 .. n
      BY ONLY <1>4, <1>5
    <2>2. Cardinality(A[k]) \in Nat
      <3>1. A[k] \subseteq 1 .. n
        BY ONLY <1>2
      <3> QED BY ONLY <1>1, <3>1, FewerIs
    <2>3. PICK i \in 1 .. n : i = Cardinality(A[k]) + 1
      BY ONLY <2>1
    <2>4. o[i] \in 1 .. n /\ Layouts!Rank(o[i], ms) = i - 1
      BY ONLY <1>6
    <2>5. i - 1 = Layouts!Rank(k, ms)
      BY ONLY <2>1, <2>2, <2>3
    <2>6. o[i] = k
      BY ONLY <1>11, <2>4, <2>5
    <2> QED BY ONLY <2>6
  <1>13. \A i, j \in 1 .. n : i # j => o[i] # o[j]
    BY ONLY <1>1, <1>6
  <1> QED BY ONLY Zenon, <1>6, <1>7, <1>9, <1>10, <1>11, <1>12, <1>13

LEMMA FrameIs ==
    ASSUME NEW ms, NEW n, Listed(ms, n), n # 0
    PROVE  /\ Layouts!Left(ms) \in Int /\ Layouts!Right(ms) \in Int
           /\ Layouts!Top(ms) \in Int /\ Layouts!Bottom(ms) \in Int
           /\ \E i \in 1 .. n : ms[i].left = Layouts!Left(ms)
           /\ \E i \in 1 .. n : ms[i].top = Layouts!Top(ms)
           /\ \E i \in 1 .. n : ms[i].left + ms[i].width = Layouts!Right(ms)
           /\ \E i \in 1 .. n : ms[i].top + ms[i].height = Layouts!Bottom(ms)
  <1>1. /\ n \in Nat \ {0} /\ DOMAIN ms = 1 .. n
        /\ \A i \in 1 .. n : /\ ms[i].left \in Int /\ ms[i].top \in Int
                             /\ ms[i].width \in Int /\ ms[i].height \in Int
    BY DEF Listed
  <1> DEFINE l == [i \in 1 .. n |-> ms[i].left]
             t == [i \in 1 .. n |-> ms[i].top]
             r == [i \in 1 .. n |-> ms[i].left + ms[i].width]
             b == [i \in 1 .. n |-> ms[i].top + ms[i].height]
  <1>2. /\ l \in [1 .. n -> Int] /\ t \in [1 .. n -> Int]
        /\ r \in [1 .. n -> Int] /\ b \in [1 .. n -> Int]
    BY ONLY <1>1
  <1>3. /\ Layouts!Left(ms) = Layouts!Lowest({l[i] : i \in 1 .. n})
        /\ Layouts!Top(ms) = Layouts!Lowest({t[i] : i \in 1 .. n})
        /\ Layouts!Right(ms) = Layouts!Highest({r[i] : i \in 1 .. n})
        /\ Layouts!Bottom(ms) = Layouts!Highest({b[i] : i \in 1 .. n})
    <2>1. /\ {ms[i].left : i \in DOMAIN ms} = {l[i] : i \in 1 .. n}
          /\ {ms[i].top : i \in DOMAIN ms} = {t[i] : i \in 1 .. n}
          /\ {ms[i].left + ms[i].width : i \in DOMAIN ms} = {r[i] : i \in 1 .. n}
          /\ {ms[i].top + ms[i].height : i \in DOMAIN ms} = {b[i] : i \in 1 .. n}
      BY ONLY Zenon, <1>1
    <2> HIDE DEF l, t, r, b
    <2> QED BY ONLY Zenon, <2>1
        DEF Layouts!Left, Layouts!Top, Layouts!Right, Layouts!Bottom
  <1>4. /\ Layouts!Left(ms) \in Int /\ \E i \in 1 .. n : l[i] = Layouts!Left(ms)
        /\ Layouts!Top(ms) \in Int /\ \E i \in 1 .. n : t[i] = Layouts!Top(ms)
        /\ Layouts!Right(ms) \in Int /\ \E i \in 1 .. n : r[i] = Layouts!Right(ms)
        /\ Layouts!Bottom(ms) \in Int /\ \E i \in 1 .. n : b[i] = Layouts!Bottom(ms)
    <2> HIDE DEF l, t, r, b
    <2>1. n \in Nat \ {0}
      BY ONLY <1>1
    <2>2. Layouts!Left(ms) \in Int /\ \E i \in 1 .. n : l[i] = Layouts!Left(ms)
      BY ONLY Zenon, <1>2, <1>3, <2>1, EndsAre
    <2>3. Layouts!Top(ms) \in Int /\ \E i \in 1 .. n : t[i] = Layouts!Top(ms)
      BY ONLY Zenon, <1>2, <1>3, <2>1, EndsAre
    <2>4. Layouts!Right(ms) \in Int /\ \E i \in 1 .. n : r[i] = Layouts!Right(ms)
      BY ONLY Zenon, <1>2, <1>3, <2>1, EndsAre
    <2>5. Layouts!Bottom(ms) \in Int /\ \E i \in 1 .. n : b[i] = Layouts!Bottom(ms)
      BY ONLY Zenon, <1>2, <1>3, <2>1, EndsAre
    <2> QED BY ONLY <2>2, <2>3, <2>4, <2>5
  <1> QED BY ONLY <1>4

LEMMA MonitorsShown ==
    ASSUME NEW n, Listed(v1, n), v2 \in {Layouts!Refused, Layouts!FromRemoteLayout(v1)}
    PROVE  Layouts!ScreensAreMonitors
  <1> SUFFICES ASSUME v2 # Layouts!Refused
               PROVE  Layouts!ScreensAreMonitors
    BY Zenon DEF Layouts!ScreensAreMonitors, Layouts!Accepted
  <1> DEFINE o == Layouts!Order(v1)
  <1>1. /\ Layouts!Acceptable(v1)
        /\ v2 = [width   |-> Layouts!Right(v1) - Layouts!Left(v1),
                 height  |-> Layouts!Bottom(v1) - Layouts!Top(v1),
                 screens |-> [i \in DOMAIN v1 |-> Layouts!Screen(v1[o[i]], v1)]]
    BY DEF Layouts!FromRemoteLayout
  <1>2. /\ n \in Nat /\ DOMAIN v1 = 1 .. n
        /\ \A i \in 1 .. n : /\ v1[i].left \in Int /\ v1[i].top \in Int
                             /\ v1[i].width \in Int /\ v1[i].height \in Int
    BY DEF Listed
  <1>3. /\ n # 0 /\ o \in [1 .. n -> 1 .. n] /\ v1[o[1]].primary
        /\ \A k \in 1 .. n : \E i \in 1 .. n : o[i] = k
        /\ \A i, j \in 1 .. n : i # j => o[i] # o[j]
    BY ONLY Zenon, Listed(v1, n), <1>1, OrderIs
  <1> DEFINE l == Layouts!Left(v1)  t == Layouts!Top(v1)
             r == Layouts!Right(v1)  b == Layouts!Bottom(v1)
  <1>4. /\ l \in Int /\ t \in Int /\ r \in Int /\ b \in Int
        /\ \E i \in 1 .. n : v1[i].left = l
        /\ \E i \in 1 .. n : v1[i].top = t
        /\ \E i \in 1 .. n : v1[i].left + v1[i].width = r
        /\ \E i \in 1 .. n : v1[i].top + v1[i].height = b
    BY ONLY Listed(v1, n), <1>3, FrameIs
  <1> HIDE DEF l, t, r, b, o
  <1>5. /\ v2.width = r - l /\ v2.height = b - t
        /\ \A i \in 1 .. n : /\ v2.screens[i].x = v1[o[i]].left - l
                             /\ v2.screens[i].y = v1[o[i]].top - t
                             /\ v2.screens[i].width = v1[o[i]].width
                             /\ v2.screens[i].height = v1[o[i]].height
    BY ONLY <1>1, <1>2 DEF Layouts!Screen, l, t, r, b
  <1>6. ASSUME NEW i \in 1 .. n, NEW j \in 1 .. n
        PROVE  /\ i # j => o[i] # o[j]
               /\ v2.screens[i].x - v2.screens[j].x = v1[o[i]].left - v1[o[j]].left
               /\ v2.screens[i].y - v2.screens[j].y = v1[o[i]].top - v1[o[j]].top
               /\ v2.screens[i].width = v1[o[i]].width
               /\ v2.screens[i].height = v1[o[i]].height
    <2>1. i # j => o[i] # o[j]
      BY ONLY <1>3
    <2>2. /\ v2.screens[i].x = v1[o[i]].left - l /\ v2.screens[j].x = v1[o[j]].left - l
          /\ v2.screens[i].y = v1[o[i]].top - t /\ v2.screens[j].y = v1[o[j]].top - t
          /\ v2.screens[i].width = v1[o[i]].width /\ v2.screens[i].height = v1[o[i]].height
      BY ONLY <1>5
    <2>3. o[i] \in 1 .. n /\ o[j] \in 1 .. n
      BY ONLY Zenon, <1>3
    <2>4. /\ v1[o[i]].left \in Int /\ v1[o[j]].left \in Int /\ l \in Int
          /\ v1[o[i]].top \in Int /\ v1[o[j]].top \in Int /\ t \in Int
      BY ONLY Zenon, <1>2, <1>4, <2>3
    <2> QED BY ONLY <2>1, <2>2, <2>4
  <1>7. \E i \in 1 .. n : v2.screens[i].x = 0
    <2>1. PICK k \in 1 .. n : v1[k].left = l
      BY ONLY <1>4
    <2>2. PICK i \in 1 .. n : o[i] = k
      BY ONLY <1>3
    <2>3. v2.screens[i].x = v1[k].left - l /\ l \in Int
      BY ONLY <1>4, <1>5, <2>2
    <2> QED BY ONLY <2>1, <2>3
  <1>8. \E i \in 1 .. n : v2.screens[i].y = 0
    <2>1. PICK k \in 1 .. n : v1[k].top = t
      BY ONLY <1>4
    <2>2. PICK i \in 1 .. n : o[i] = k
      BY ONLY <1>3
    <2>3. v2.screens[i].y = v1[k].top - t /\ t \in Int
      BY ONLY <1>4, <1>5, <2>2
    <2> QED BY ONLY <2>1, <2>3
  <1>9. \E i \in 1 .. n : v2.screens[i].x + v2.screens[i].width = v2.width
    <2>1. PICK k \in 1 .. n : v1[k].left + v1[k].width = r
      BY ONLY <1>4
    <2>2. PICK i \in 1 .. n : o[i] = k
      BY ONLY <1>3
    <2>3. /\ v2.screens[i].x = v1[k].left - l /\ v2.screens[i].width = v1[k].width
          /\ v2.width = r - l
      BY ONLY <1>5, <2>2
    <2>4. /\ v1[k].left \in Int /\ v1[k].width \in Int /\ l \in Int /\ r \in Int
      BY ONLY Zenon, <1>2, <1>4
    <2> QED BY ONLY <2>1, <2>3, <2>4
  <1>10. \E i \in 1 .. n : v2.screens[i].y + v2.screens[i].height = v2.height
    <2>1. PICK k \in 1 .. n : v1[k].top + v1[k].height = b
      BY ONLY <1>4
    <2>2. PICK i \in 1 .. n : o[i] = k
      BY ONLY <1>3
    <2>3. /\ v2.screens[i].y = v1[k].top - t /\ v2.screens[i].height = v1[k].height
          /\ v2.height = b - t
      BY ONLY <1>5, <2>2
    <2>4. /\ v1[k].top \in Int /\ v1[k].height \in Int /\ t \in Int /\ b \in Int
      BY ONLY Zenon, <1>2, <1>4
    <2> QED BY ONLY <2>1, <2>3, <2>4
  <1>11. o \in [DOMAIN v1 -> DOMAIN v1] /\ DOMAIN v1 = 1 .. n
    BY ONLY Zenon, <1>2, <1>3
  <1>12. /\ v1[o[1]].primary
         /\ \A i, j \in DOMAIN v1 :
              /\ i # j => o[i] # o[j]
              /\ v2.screens[i].x - v2.screens[j].x = v1[o[i]].left - v1[o[j]].left
              /\ v2.screens[i].y - v2.screens[j].y = v1[o[i]].top - v1[o[j]].top
              /\ v2.screens[i].width = v1[o[i]].width
              /\ v2.screens[i].height = v1[o[i]].height
    <2>1. ASSUME NEW i \in DOMAIN v1, NEW j \in DOMAIN v1
          PROVE  /\ i # j => o[i] # o[j]
                 /\ v2.screens[i].x - v2.screens[j].x = v1[o[i]].left - v1[o[j]].left
                 /\ v2.screens[i].y - v2.screens[j].y = v1[o[i]].top - v1[o[j]].top
                 /\ v2.screens[i].width = v1[o[i]].width
                 /\ v2.screens[i].height = v1[o[i]].height
      <3>1. i \in 1 .. n /\ j \in 1 .. n
        BY ONLY <1>11, <2>1
      <3> QED BY ONLY <1>6, <3>1, Zenon
    <2> QED BY ONLY <1>3, <2>1
  <1>13. /\ \E i \in DOMAIN v1 : v2.screens[i].x = 0
         /\ \E i \in DOMAIN v1 : v2.screens[i].y = 0
         /\ \E i \in DOMAIN v1 : v2.screens[i].x + v2.screens[i].width = v2.width
         /\ \E i \in DOMAIN v1 : v2.screens[i].y + v2.screens[i].height = v2.height
    BY ONLY <1>7, <1>8, <1>9, <1>10, <1>11
  <1>14. PICK order \in [DOMAIN v1 -> DOMAIN v1] :
            /\ v1[order[1]].primary
            /\ \A i, j \in DOMAIN v1 :
                 /\ i # j => order[i] # order[j]
                 /\ v2.screens[i].x - v2.screens[j].x = v1[order[i]].left - v1[order[j]].left
                 /\ v2.screens[i].y - v2.screens[j].y = v1[order[i]].top - v1[order[j]].top
                 /\ v2.screens[i].width = v1[order[i]].width
                 /\ v2.screens[i].height = v1[order[i]].height
    BY ONLY <1>11, <1>12, Zenon
  <1> QED BY ONLY <1>13, <1>14, SMTT(60) DEF Layouts!ScreensAreMonitors

\* The same monitors in another order.
Reordered(qs, ms, n, p) ==
    /\ p \in [1 .. n -> 1 .. n] /\ \A i, j \in 1 .. n : i # j => p[i] # p[j]
    /\ qs = [i \in DOMAIN ms |-> ms[p[i]]]

\* And what it means place by place.
Permuted(qs, ms, n, p) ==
    /\ n \in Nat /\ DOMAIN ms = 1 .. n /\ DOMAIN qs = 1 .. n
    /\ p \in [1 .. n -> 1 .. n] /\ \A i, j \in 1 .. n : i # j => p[i] # p[j]
    /\ \A k \in 1 .. n : \E i \in 1 .. n : p[i] = k
    /\ \A i \in 1 .. n : qs[i] = ms[p[i]]

LEMMA ReorderedIs ==
    ASSUME NEW ms, NEW n, Listed(ms, n), Layouts!Acceptable(ms),
           NEW p, NEW qs, Reordered(qs, ms, n, p)
    PROVE  Listed(qs, n) /\ Layouts!Acceptable(qs) /\ Permuted(qs, ms, n, p)
  <1> p \in [1 .. n -> 1 .. n] /\ \A i, j \in 1 .. n : i # j => p[i] # p[j]
    BY DEF Reordered
  <1>1. n \in Nat /\ DOMAIN ms = 1 .. n
    BY DEF Listed
  <1>2. DOMAIN qs = 1 .. n /\ \A i \in 1 .. n : qs[i] = ms[p[i]]
    BY ONLY <1>1, Reordered(qs, ms, n, p) DEF Reordered
  <1>3. Listed(qs, n)
    BY ONLY Zenon, <1>1, <1>2, Listed(ms, n), p \in [1 .. n -> 1 .. n] DEF Listed
  <1>4. \A k \in 1 .. n : \E i \in 1 .. n : p[i] = k
    <2>1. p \in Injection(1 .. n, 1 .. n)
      BY DEF Injection, IsInjective
    <2>2. IsFiniteSet(1 .. n)
      BY ONLY <1>1, FS_Interval
    <2>3. p \in Surjection(1 .. n, 1 .. n)
      BY ONLY <2>1, <2>2, FS_Injection
    <2> QED BY ONLY <2>3 DEF Surjection
  <1>5. qs # <<>>
    <2>1. n # 0
      BY OrderIs
    <2> QED BY ONLY <1>1, <1>2, <2>1
  <1>6. \E i \in 1 .. n : \A j \in 1 .. n : qs[j].primary <=> j = i
    <2>1. PICK k \in DOMAIN ms : \A j \in DOMAIN ms : ms[j].primary <=> j = k
      BY ONLY Layouts!Acceptable(ms) DEF Layouts!Acceptable
    <2>2. PICK i \in 1 .. n : p[i] = k
      BY <1>1, <1>4
    <2>3. \A j \in 1 .. n : p[j] \in DOMAIN ms /\ (p[j] = k <=> j = i)
      BY <1>1, <2>2
    <2>4. ASSUME NEW j \in 1 .. n
          PROVE  qs[j].primary <=> j = i
      <3>1. qs[j].primary <=> ms[p[j]].primary
        BY ONLY <1>2
      <3>2. ms[p[j]].primary <=> p[j] = k
        BY ONLY <2>1, <2>3
      <3> QED BY ONLY <2>3, <3>1, <3>2
    <2> QED BY ONLY <2>4
  <1>7. /\ \A i \in 1 .. n : /\ qs[i].name # 0 /\ qs[i].width \in 1 .. SpanLimit
                             /\ qs[i].height \in 1 .. SpanLimit
        /\ \A i, j \in 1 .. n :
             i # j => /\ qs[i].name # qs[j].name
                      /\ Layouts!StableScreenId(qs[i].name) # Layouts!StableScreenId(qs[j].name)
    <2>1. /\ \A i \in 1 .. n : /\ ms[i].name # 0 /\ ms[i].width \in 1 .. SpanLimit
                               /\ ms[i].height \in 1 .. SpanLimit
          /\ \A i, j \in 1 .. n :
               i # j => /\ ms[i].name # ms[j].name
                        /\ Layouts!StableScreenId(ms[i].name)
                             # Layouts!StableScreenId(ms[j].name)
      BY ONLY Zenon, <1>1, Layouts!Acceptable(ms) DEF Layouts!Acceptable
    <2>2. /\ \A i \in 1 .. n : p[i] \in 1 .. n
          /\ \A i, j \in 1 .. n : i # j => p[i] # p[j]
      OBVIOUS
    <2> QED BY ONLY SMTT(20), <1>2, <2>1, <2>2
  <1> DEFINE Clear(a, b) == ~ Layouts!Overlap(a.left, a.top, a.width, a.height,
                                              b.left, b.top, b.width, b.height)
  <1>8. \A i, j \in 1 .. n : i # j => Clear(ms[i], ms[j])
    <2>1. \A i, j \in 1 .. n : i < j => Clear(ms[i], ms[j])
      BY ONLY <1>1, Layouts!Acceptable(ms)
         DEF Layouts!Acceptable, Layouts!NonOverlappingMonitors
    <2>2. \A i, j \in 1 .. n : Clear(ms[i], ms[j]) => Clear(ms[j], ms[i])
      BY ONLY Listed(ms, n) DEF Listed, Layouts!Overlap
    <2> HIDE DEF Clear
    <2> QED BY ONLY <1>1, <2>1, <2>2
  <1>9. \A i, j \in 1 .. n : i # j => Clear(qs[i], qs[j])
    <2> HIDE DEF Clear
    <2> QED BY <1>2, <1>8
  <1>10. Layouts!NonOverlappingMonitors(qs)
    BY ONLY <1>1, <1>2, <1>9 DEF Layouts!NonOverlappingMonitors
  <1>11. Layouts!Acceptable(qs)
    <2>1. DOMAIN qs = 1 .. n
      BY ONLY <1>2
    <2>2. /\ \E i \in DOMAIN qs : \A j \in DOMAIN qs : qs[j].primary <=> j = i
          /\ \A i \in DOMAIN qs : /\ qs[i].name # 0 /\ qs[i].width \in 1 .. SpanLimit
                                  /\ qs[i].height \in 1 .. SpanLimit
          /\ \A i, j \in DOMAIN qs :
               i # j => /\ qs[i].name # qs[j].name
                        /\ Layouts!StableScreenId(qs[i].name)
                             # Layouts!StableScreenId(qs[j].name)
      BY ONLY <1>6, <1>7, <2>1
    <2> QED BY ONLY <1>5, <1>10, <2>2 DEF Layouts!Acceptable
  <1> QED BY <1>1, <1>2, <1>3, <1>4, <1>11 DEF Permuted

LEMMA RankReordered ==
    ASSUME NEW ms, NEW n, NEW p, NEW qs, Permuted(qs, ms, n, p), NEW i \in 1 .. n
    PROVE  Layouts!Rank(i, qs) = Layouts!Rank(p[i], ms)
  <1> /\ n \in Nat /\ DOMAIN ms = 1 .. n /\ DOMAIN qs = 1 .. n
      /\ p \in [1 .. n -> 1 .. n] /\ \A a, b \in 1 .. n : a # b => p[a] # p[b]
      /\ \A k \in 1 .. n : \E a \in 1 .. n : p[a] = k
      /\ \A a \in 1 .. n : qs[a] = ms[p[a]]
    BY DEF Permuted
  <1> DEFINE S == {j \in 1 .. n : Layouts!Before(ms[p[j]], ms[p[i]])}
             T == {j \in 1 .. n : Layouts!Before(ms[j], ms[p[i]])}
             f == [j \in S |-> p[j]]
  <1>1. f \in [S -> T]
    OBVIOUS
  <1>2. \A j, k \in S : f[j] = f[k] => j = k
    OBVIOUS
  <1>3. \A k \in T : \E j \in S : f[j] = k
    OBVIOUS
  <1>4. f \in Bijection(S, T)
    <2> HIDE DEF S, T, f
    <2> QED BY ONLY <1>1, <1>2, <1>3
        DEF Bijection, Injection, Surjection, IsInjective
  <1>5. IsFiniteSet(S)
    <2>1. IsFiniteSet(1 .. n) /\ S \subseteq 1 .. n
      BY FS_Interval
    <2> HIDE DEF S
    <2> QED BY ONLY Zenon, <2>1, FS_Subset
  <1>6. Cardinality(S) = Cardinality(T)
    <2> HIDE DEF S, T, f
    <2>1. ExistsBijection(S, T)
      BY ONLY <1>4 DEF ExistsBijection
    <2> QED BY ONLY <1>5, <2>1, FS_Bijection
  <1>7. /\ {j \in DOMAIN qs : Layouts!Before(qs[j], qs[i])} = S
        /\ {j \in DOMAIN ms : Layouts!Before(ms[j], ms[p[i]])} = T
    <2>1. i \in 1 .. n /\ DOMAIN qs = 1 .. n /\ \A j \in 1 .. n : qs[j] = ms[p[j]]
      BY Zenon
    <2>2. {j \in DOMAIN qs : Layouts!Before(qs[j], qs[i])}
            = {j \in 1 .. n : Layouts!Before(qs[j], ms[p[i]])}
      BY ONLY <2>1
    <2>3. {j \in 1 .. n : Layouts!Before(qs[j], ms[p[i]])}
            = {j \in 1 .. n : Layouts!Before(ms[p[j]], ms[p[i]])}
      BY ONLY <2>1
    <2> QED BY <2>2, <2>3
  <1> HIDE DEF S, T
  <1> QED BY ONLY <1>6, <1>7, SameCount DEF Layouts!Rank

LEMMA LayoutReordered ==
    ASSUME NEW ms, NEW n, Listed(ms, n), Layouts!Acceptable(ms),
           NEW p, NEW qs, Reordered(qs, ms, n, p)
    PROVE  Layouts!FromRemoteLayout(qs) = Layouts!FromRemoteLayout(ms)
  <1>1. Listed(qs, n) /\ Layouts!Acceptable(qs) /\ Permuted(qs, ms, n, p)
    BY ReorderedIs
  <1> /\ n \in Nat /\ DOMAIN ms = 1 .. n /\ DOMAIN qs = 1 .. n /\ p \in [1 .. n -> 1 .. n]
      /\ \A k \in 1 .. n : \E i \in 1 .. n : p[i] = k
      /\ \A i \in 1 .. n : qs[i] = ms[p[i]]
    BY <1>1 DEF Permuted
  <1>2. /\ {qs[i].left : i \in DOMAIN qs} = {ms[i].left : i \in DOMAIN ms}
        /\ {qs[i].top : i \in DOMAIN qs} = {ms[i].top : i \in DOMAIN ms}
        /\ {qs[i].left + qs[i].width : i \in DOMAIN qs}
             = {ms[i].left + ms[i].width : i \in DOMAIN ms}
        /\ {qs[i].top + qs[i].height : i \in DOMAIN qs}
             = {ms[i].top + ms[i].height : i \in DOMAIN ms}
    <2>1. /\ DOMAIN ms = 1 .. n /\ DOMAIN qs = 1 .. n
          /\ \A i \in 1 .. n : p[i] \in 1 .. n /\ qs[i] = ms[p[i]]
          /\ \A k \in 1 .. n : \E i \in 1 .. n : p[i] = k
      OBVIOUS
    <2>2. {qs[i].left : i \in 1 .. n} = {ms[i].left : i \in 1 .. n}
      <3>1. ASSUME NEW i \in 1 .. n PROVE qs[i].left \in {ms[k].left : k \in 1 .. n}
        BY ONLY Zenon, <2>1
      <3>2. ASSUME NEW k \in 1 .. n PROVE ms[k].left \in {qs[i].left : i \in 1 .. n}
        <4>1. PICK j \in 1 .. n : qs[j] = ms[k]
          BY ONLY <2>1
        <4> QED BY ONLY <4>1
      <3> QED BY ONLY <3>1, <3>2
    <2>3. {qs[i].top : i \in 1 .. n} = {ms[i].top : i \in 1 .. n}
      <3>1. ASSUME NEW i \in 1 .. n PROVE qs[i].top \in {ms[k].top : k \in 1 .. n}
        BY ONLY Zenon, <2>1
      <3>2. ASSUME NEW k \in 1 .. n PROVE ms[k].top \in {qs[i].top : i \in 1 .. n}
        <4>1. PICK j \in 1 .. n : qs[j] = ms[k]
          BY ONLY <2>1
        <4> QED BY ONLY <4>1
      <3> QED BY ONLY <3>1, <3>2
    <2>4. {qs[i].left + qs[i].width : i \in 1 .. n} = {ms[i].left + ms[i].width : i \in 1 .. n}
      <3>1. ASSUME NEW i \in 1 .. n
            PROVE  qs[i].left + qs[i].width \in {ms[k].left + ms[k].width : k \in 1 .. n}
        BY ONLY Zenon, <2>1
      <3>2. ASSUME NEW k \in 1 .. n
            PROVE  ms[k].left + ms[k].width \in {qs[i].left + qs[i].width : i \in 1 .. n}
        <4>1. PICK j \in 1 .. n : qs[j] = ms[k]
          BY ONLY <2>1
        <4> QED BY ONLY <4>1
      <3> QED BY ONLY <3>1, <3>2
    <2>5. {qs[i].top + qs[i].height : i \in 1 .. n} = {ms[i].top + ms[i].height : i \in 1 .. n}
      <3>1. ASSUME NEW i \in 1 .. n
            PROVE  qs[i].top + qs[i].height \in {ms[k].top + ms[k].height : k \in 1 .. n}
        BY ONLY Zenon, <2>1
      <3>2. ASSUME NEW k \in 1 .. n
            PROVE  ms[k].top + ms[k].height \in {qs[i].top + qs[i].height : i \in 1 .. n}
        <4>1. PICK j \in 1 .. n : qs[j] = ms[k]
          BY ONLY <2>1
        <4> QED BY ONLY <4>1
      <3> QED BY ONLY <3>1, <3>2
    <2> QED BY ONLY Zenon, <2>1, <2>2, <2>3, <2>4, <2>5
  <1>3. /\ Layouts!Left(qs) = Layouts!Left(ms) /\ Layouts!Top(qs) = Layouts!Top(ms)
        /\ Layouts!Right(qs) = Layouts!Right(ms) /\ Layouts!Bottom(qs) = Layouts!Bottom(ms)
    BY ONLY Zenon, <1>2 DEF Layouts!Left, Layouts!Top, Layouts!Right, Layouts!Bottom
  <1>4. ASSUME NEW i \in 1 .. n
        PROVE  qs[Layouts!Order(qs)[i]] = ms[Layouts!Order(ms)[i]]
    <2> DEFINE a == Layouts!Order(qs)[i]  b == Layouts!Order(ms)[i]
    <2>1. a \in 1 .. n /\ Layouts!Rank(a, qs) = i - 1
      BY ONLY Zenon, <1>1, <1>4, OrderIs
    <2>2. /\ b \in 1 .. n /\ Layouts!Rank(b, ms) = i - 1
          /\ \A j, k \in 1 .. n : j # k => Layouts!Rank(j, ms) # Layouts!Rank(k, ms)
      <3>1. /\ Layouts!Order(ms) \in [1 .. n -> 1 .. n]
            /\ \A j \in 1 .. n : Layouts!Rank(Layouts!Order(ms)[j], ms) = j - 1
            /\ \A j, k \in 1 .. n : j # k => Layouts!Rank(j, ms) # Layouts!Rank(k, ms)
        BY ONLY Zenon, Listed(ms, n), Layouts!Acceptable(ms), OrderIs
      <3> QED BY ONLY <1>4, <3>1
    <2> HIDE DEF a, b
    <2>3. Layouts!Rank(a, qs) = Layouts!Rank(p[a], ms)
      BY ONLY <1>1, <2>1, RankReordered
    <2>4. p[a] = b
      BY ONLY <2>1, <2>2, <2>3, p \in [1 .. n -> 1 .. n]
    <2> QED BY Zenon, <2>1, <2>4 DEF a, b
  <1>5. ASSUME NEW m
        PROVE  Layouts!Screen(m, qs) = Layouts!Screen(m, ms)
    BY ONLY <1>3 DEF Layouts!Screen
  <1>6. [i \in DOMAIN qs |-> Layouts!Screen(qs[Layouts!Order(qs)[i]], qs)]
          = [i \in DOMAIN ms |-> Layouts!Screen(ms[Layouts!Order(ms)[i]], ms)]
    BY <1>4, <1>5
  <1> QED BY ONLY <1>1, <1>3, <1>6, Layouts!Acceptable(ms) DEF Layouts!FromRemoteLayout

LayoutInv ==
    /\ \E n \in Nat : v1 \in [1 .. n -> Layouts!Monitors]
    /\ v2 \in {Layouts!Refused, Layouts!FromRemoteLayout(v1)}

LEMMA LayoutStart ==
    ASSUME BoundsAssumption, Layouts!Init
    PROVE  LayoutInv
  <1>1. MonitorCount \in Nat
    BY DEF BoundsAssumption
  <1>2. PICK n \in 0 .. MonitorCount : v1 \in [1 .. n -> Layouts!Monitors]
    BY DEF Layouts!Init
  <1>3. \E k \in Nat : v1 \in [1 .. k -> Layouts!Monitors]
    BY ONLY <1>1, <1>2
  <1> QED BY <1>3 DEF LayoutInv, Layouts!Init

LEMMA LayoutSteps ==
    ASSUME LayoutInv, Layouts!Next
    PROVE  LayoutInv'
  <1>1. v1' = v1 /\ v2' = Layouts!FromRemoteLayout(v1)
    BY DEF Layouts!Next, Layouts!Convert
  <1>2. Layouts!FromRemoteLayout(v1)' = Layouts!FromRemoteLayout(v1)
    BY ONLY <1>1
  <1> QED BY <1>1, <1>2 DEF LayoutInv

LEMMA LayoutHolds ==
    ASSUME BoundsAssumption, LayoutInv
    PROVE  Layouts!ScreensAreMonitors /\ Layouts!OrderIrrelevant
  <1>1. PICK n \in Nat : v1 \in [1 .. n -> Layouts!Monitors]
    BY Zenon DEF LayoutInv
  <1>2. /\ MonitorNames \subseteq Int /\ {- Reach, Reach} \subseteq Int
        /\ {0, Reach} \subseteq Int /\ 0 .. Breadth \subseteq Int
    BY DEF BoundsAssumption
  <1>3. Listed(v1, n)
    BY ONLY Zenon, <1>1, <1>2 DEF Listed, Layouts!Monitors
  <1>4. Layouts!ScreensAreMonitors
    BY <1>3, MonitorsShown DEF LayoutInv
  <1>5. ASSUME v2 # Layouts!Refused,
               NEW p \in [DOMAIN v1 -> DOMAIN v1],
               \A i, j \in DOMAIN v1 : i # j => p[i] # p[j]
        PROVE  Layouts!FromRemoteLayout([i \in DOMAIN v1 |-> v1[p[i]]]) = v2
    <2>1. v2 = Layouts!FromRemoteLayout(v1) /\ Layouts!Acceptable(v1)
      BY <1>5 DEF LayoutInv, Layouts!FromRemoteLayout
    <2>2. DOMAIN v1 = 1 .. n
      BY <1>1
    <2> DEFINE qs == [i \in DOMAIN v1 |-> v1[p[i]]]
    <2>3. Reordered(qs, v1, n, p)
      BY Zenon, <1>5, <2>2 DEF Reordered
    <2> HIDE DEF qs
    <2>4. Layouts!FromRemoteLayout(qs) = Layouts!FromRemoteLayout(v1)
      BY ONLY <1>3, <2>1, <2>3, LayoutReordered
    <2> QED BY ONLY <2>1, <2>4 DEF qs
  <1>6. Layouts!OrderIrrelevant
    BY ONLY <1>5 DEF Layouts!OrderIrrelevant, Layouts!Accepted
  <1> QED BY ONLY <1>4, <1>6

-----------------------------------------------------------------------------
(* File transfers.  The client's state is v1 to v4, what the session thread  *)
(* has at hand v5, the queue v6, the wire v7 and the stream back v10; the    *)
(* server has v8 and v9; see MCVnc.                                          *)

FileAsks    == [kind : {"get", "cancel", "list", "put", "putcancel"}, req : Nat, of : Nat]
FileAnswers == [kind : {"chunk", "end", "failed", "listed", "putcancel"}, req : Nat]

Once(q, kind)  == \A i, j \in DOMAIN q : q[i].kind = kind /\ q[j].kind = kind => i = j
Numbered(q, n) == \A i \in DOMAIN q : q[i].kind = "get" => q[i].req = n

\* What is sent of a file, and the last that is sent of it.
Data(m)     == m.kind \in {"chunk", "end", "failed"}
Last(m)     == m.kind \in {"end", "failed"}
Silent(q)   == \A i \in DOMAIN q : ~Data(q[i])
Ended(q)    == \E i \in DOMAIN q : Last(q[i])
Whole(q, n) == \A i \in DOMAIN q : Data(q[i]) =>
                  q[i].req = n /\ \A j \in DOMAIN q : Last(q[j]) => i <= j

\* One of a kind in three queues, at most.
InOne(a, b, c, kind) ==
    /\ Once(a, kind) /\ Once(b, kind) /\ Once(c, kind)
    /\ ~(Has(a, kind) /\ Has(b, kind)) /\ ~(Has(b, kind) /\ Has(c, kind))
    /\ ~(Has(a, kind) /\ Has(c, kind))
InNone(a, b, c, kind) == ~Has(a, kind) /\ ~Has(b, kind) /\ ~Has(c, kind)

LEMMA AskSent ==
    ASSUME NEW q \in Seq(FileAsks), NEW m \in FileAsks
    PROVE  /\ Append(q, m) \in Seq(FileAsks)
           /\ \A kind : Has(Append(q, m), kind) <=> m.kind = kind \/ Has(q, kind)
           /\ \A kind : Once(q, kind) /\ (m.kind # kind \/ ~Has(q, kind))
                          => Once(Append(q, m), kind)
           /\ \A n : Numbered(q, n) /\ (m.kind = "get" => m.req = n)
                       => Numbered(Append(q, m), n)
  <1> DEFINE t == Append(q, m)
  <1>1. /\ t \in Seq(FileAsks) /\ Len(q) \in Nat /\ DOMAIN q = 1 .. Len(q)
        /\ DOMAIN t = 1 .. Len(q) + 1 /\ t[Len(q) + 1] = m
        /\ \A i \in DOMAIN q : t[i] = q[i]
    BY BehindIs
  <1> HIDE DEF t
  <1>2. /\ \A i \in DOMAIN t : i = Len(q) + 1 \/ i \in DOMAIN q
        /\ Len(q) + 1 \in DOMAIN t /\ \A i \in DOMAIN q : i \in DOMAIN t
    BY ONLY <1>1
  <1>3. \A kind : Has(t, kind) <=> m.kind = kind \/ Has(q, kind)
    BY ONLY <1>1, <1>2 DEF Has
  <1>4. ASSUME NEW kind, Once(q, kind), m.kind # kind \/ ~Has(q, kind)
        PROVE  Once(t, kind)
    BY ONLY <1>1, <1>2, <1>4 DEF Has, Once
  <1>5. ASSUME NEW n, Numbered(q, n), m.kind = "get" => m.req = n
        PROVE  Numbered(t, n)
    BY ONLY <1>1, <1>2, <1>5 DEF Numbered
  <1> QED BY ONLY <1>1, <1>3, <1>4, <1>5 DEF t

LEMMA AskTaken ==
    ASSUME NEW q \in Seq(FileAsks), q # <<>>
    PROVE  /\ Tail(q) \in Seq(FileAsks) /\ Head(q) \in FileAsks
           /\ \A kind : Has(q, kind) <=> Head(q).kind = kind \/ Has(Tail(q), kind)
           /\ \A kind : Once(q, kind) =>
                 Once(Tail(q), kind) /\ (Head(q).kind = kind => ~Has(Tail(q), kind))
           /\ \A n : Numbered(q, n) =>
                 Numbered(Tail(q), n) /\ (Head(q).kind = "get" => Head(q).req = n)
  <1> DEFINE t == Tail(q)
  <1>1. /\ t \in Seq(FileAsks) /\ Len(q) \in Nat \ {0} /\ Head(q) \in FileAsks
        /\ DOMAIN q = 1 .. Len(q) /\ DOMAIN t = 1 .. Len(q) - 1 /\ Head(q) = q[1]
        /\ \A i \in DOMAIN t : t[i] = q[i + 1]
    BY TailIs
  <1> HIDE DEF t
  <1>2. /\ \A i \in DOMAIN t : i + 1 \in DOMAIN q /\ i \in Nat \ {0} /\ t[i] = q[i + 1]
        /\ \A i \in DOMAIN q : i = 1 \/ (i - 1 \in DOMAIN t /\ t[i - 1] = q[i])
        /\ 1 \in DOMAIN q
    BY ONLY <1>1
  <1>3. ASSUME NEW kind
        PROVE  Has(q, kind) <=> Head(q).kind = kind \/ Has(t, kind)
    BY ONLY <1>1, <1>2 DEF Has
  <1>4. ASSUME NEW kind, Once(q, kind)
        PROVE  Once(t, kind) /\ (Head(q).kind = kind => ~Has(t, kind))
    <2>1. ASSUME NEW i \in DOMAIN t, NEW j \in DOMAIN t, t[i].kind = kind, t[j].kind = kind
          PROVE  i = j
      <3>1. i + 1 = j + 1
        BY ONLY <1>2, <1>4, <2>1 DEF Once
      <3> QED BY ONLY <1>2, <2>1, <3>1
    <2>2. ASSUME Head(q).kind = kind, NEW i \in DOMAIN t, t[i].kind = kind
          PROVE  FALSE
      <3>1. i + 1 = 1
        BY ONLY Zenon, <1>1, <1>2, <1>4, <2>2 DEF Once
      <3> QED BY ONLY <1>2, <2>2, <3>1
    <2> QED BY ONLY <2>1, <2>2 DEF Once, Has
  <1>5. ASSUME NEW n, Numbered(q, n)
        PROVE  Numbered(t, n) /\ (Head(q).kind = "get" => Head(q).req = n)
    <2>1. Head(q).kind = "get" => Head(q).req = n
      BY ONLY <1>1, <1>2, <1>5 DEF Numbered
    <2>2. Numbered(t, n)
      BY ONLY <1>2, <1>5 DEF Numbered
    <2> QED BY ONLY <2>1, <2>2
  <1> QED BY ONLY <1>1, <1>3, <1>4, <1>5 DEF t

LEMMA SilentIs ==
    ASSUME NEW q, NEW n, Silent(q)
    PROVE  Whole(q, n) /\ ~Ended(q)
  BY DEF Silent, Whole, Ended, Data, Last

LEMMA AnswerSent ==
    ASSUME NEW q \in Seq(FileAnswers), NEW m \in FileAnswers
    PROVE  /\ Append(q, m) \in Seq(FileAnswers)
           /\ Has(Append(q, m), "listed") <=> m.kind = "listed" \/ Has(q, "listed")
           /\ Once(q, "listed") /\ (m.kind # "listed" \/ ~Has(q, "listed"))
                => Once(Append(q, m), "listed")
           /\ Silent(q) /\ ~Data(m) => Silent(Append(q, m))
           /\ Ended(Append(q, m)) <=> Ended(q) \/ Last(m)
           /\ \A n : Whole(q, n) /\ (Data(m) => m.req = n /\ ~Ended(q)) => Whole(Append(q, m), n)
  <1> DEFINE t == Append(q, m)
  <1>1. /\ t \in Seq(FileAnswers) /\ Len(q) \in Nat /\ DOMAIN q = 1 .. Len(q)
        /\ DOMAIN t = 1 .. Len(q) + 1 /\ t[Len(q) + 1] = m
        /\ \A i \in DOMAIN q : t[i] = q[i]
    BY BehindIs
  <1> HIDE DEF t
  <1>2. /\ \A i \in DOMAIN t : i = Len(q) + 1 \/ i \in DOMAIN q
        /\ Len(q) + 1 \in DOMAIN t /\ \A i \in DOMAIN q : i \in DOMAIN t /\ i <= Len(q) + 1
        /\ Len(q) + 1 <= Len(q) + 1
    BY ONLY <1>1
  <1>3. Has(t, "listed") <=> m.kind = "listed" \/ Has(q, "listed")
    BY ONLY <1>1, <1>2 DEF Has
  <1>4. Once(q, "listed") /\ (m.kind # "listed" \/ ~Has(q, "listed")) => Once(t, "listed")
    BY ONLY <1>1, <1>2 DEF Has, Once
  <1>5. Silent(q) /\ ~Data(m) => Silent(t)
    BY ONLY <1>1, <1>2 DEF Silent
  <1>6. Ended(t) <=> Ended(q) \/ Last(m)
    BY ONLY <1>1, <1>2 DEF Ended
  <1>7. ASSUME NEW n, Whole(q, n), Data(m) => m.req = n /\ ~Ended(q)
        PROVE  Whole(t, n)
    <2>1. ASSUME NEW i \in DOMAIN t, Data(t[i])
          PROVE  t[i].req = n
      BY ONLY <1>1, <1>2, <1>7, <2>1 DEF Whole
    <2>2. ASSUME NEW i \in DOMAIN t, Data(t[i]), NEW j \in DOMAIN t, Last(t[j])
          PROVE  i <= j
      <3>1. CASE j = Len(q) + 1
        BY ONLY <1>2, <2>2, <3>1
      <3>2. CASE j \in DOMAIN q
        <4>1. Ended(q)
          BY ONLY <1>1, <2>2, <3>2 DEF Ended
        <4>2. i \in DOMAIN q
          BY ONLY <1>1, <1>2, <1>7, <2>2, <4>1
        <4> QED BY ONLY <1>1, <1>7, <2>2, <3>2, <4>2 DEF Whole
      <3> QED BY ONLY <1>2, <2>2, <3>1, <3>2
    <2> QED BY ONLY <2>1, <2>2 DEF Whole
  <1> QED BY ONLY <1>1, <1>3, <1>4, <1>5, <1>6, <1>7 DEF t

LEMMA AnswerTakenFrom ==
    ASSUME NEW q \in Seq(FileAnswers), q # <<>>
    PROVE  /\ Tail(q) \in Seq(FileAnswers) /\ Head(q) \in FileAnswers
           /\ Has(q, "listed") <=> Head(q).kind = "listed" \/ Has(Tail(q), "listed")
           /\ Once(q, "listed") => /\ Once(Tail(q), "listed")
                                   /\ Head(q).kind = "listed" => ~Has(Tail(q), "listed")
           /\ Silent(q) => Silent(Tail(q)) /\ ~Data(Head(q))
           /\ Ended(Tail(q)) => Ended(q)
           /\ Last(Head(q)) => Ended(q)
           /\ \A n : Whole(q, n) => /\ Whole(Tail(q), n)
                                    /\ Data(Head(q)) => Head(q).req = n
                                    /\ Last(Head(q)) => Silent(Tail(q))
  <1> DEFINE t == Tail(q)
  <1>1. /\ t \in Seq(FileAnswers) /\ Len(q) \in Nat \ {0} /\ Head(q) \in FileAnswers
        /\ DOMAIN q = 1 .. Len(q) /\ DOMAIN t = 1 .. Len(q) - 1 /\ Head(q) = q[1]
        /\ \A i \in DOMAIN t : t[i] = q[i + 1]
    BY TailIs
  <1> HIDE DEF t
  <1>2. /\ \A i \in DOMAIN t : i + 1 \in DOMAIN q /\ i \in Nat \ {0} /\ t[i] = q[i + 1]
        /\ \A i \in DOMAIN q : i = 1 \/ (i - 1 \in DOMAIN t /\ t[i - 1] = q[i])
        /\ 1 \in DOMAIN q
    BY ONLY <1>1
  <1>3. Has(q, "listed") <=> Head(q).kind = "listed" \/ Has(t, "listed")
    BY ONLY <1>1, <1>2 DEF Has
  <1>4. ASSUME Once(q, "listed")
        PROVE  Once(t, "listed") /\ (Head(q).kind = "listed" => ~Has(t, "listed"))
    <2>1. ASSUME NEW i \in DOMAIN t, NEW j \in DOMAIN t,
                 t[i].kind = "listed", t[j].kind = "listed"
          PROVE  i = j
      <3>1. i + 1 = j + 1
        BY ONLY <1>2, <1>4, <2>1 DEF Once
      <3> QED BY ONLY <1>2, <2>1, <3>1
    <2>2. ASSUME Head(q).kind = "listed", NEW i \in DOMAIN t, t[i].kind = "listed"
          PROVE  FALSE
      <3>1. i + 1 = 1
        BY ONLY <1>1, <1>2, <1>4, <2>2 DEF Once
      <3> QED BY ONLY <1>2, <2>2, <3>1
    <2> QED BY ONLY <2>1, <2>2 DEF Once, Has
  <1>5. Silent(q) => Silent(t) /\ ~Data(Head(q))
    BY ONLY <1>1, <1>2 DEF Silent
  <1>6. (Ended(t) => Ended(q)) /\ (Last(Head(q)) => Ended(q))
    BY ONLY <1>1, <1>2 DEF Ended
  <1>7. ASSUME NEW n, Whole(q, n)
        PROVE  /\ Whole(t, n)
               /\ Data(Head(q)) => Head(q).req = n
               /\ Last(Head(q)) => Silent(t)
    <2>1. ASSUME NEW i \in DOMAIN t, Data(t[i])
          PROVE  t[i].req = n
      BY ONLY <1>2, <1>7, <2>1 DEF Whole
    <2>2. ASSUME NEW i \in DOMAIN t, Data(t[i]), NEW j \in DOMAIN t, Last(t[j])
          PROVE  i <= j
      <3>1. i + 1 <= j + 1
        BY ONLY <1>2, <1>7, <2>2 DEF Whole
      <3> QED BY ONLY <1>2, <2>2, <3>1
    <2>3. ASSUME Last(Head(q)), NEW i \in DOMAIN t, Data(t[i])
          PROVE  FALSE
      <3>1. i + 1 <= 1
        BY ONLY Zenon, <1>1, <1>2, <1>7, <2>3 DEF Whole
      <3> QED BY ONLY <1>2, <2>3, <3>1
    <2>4. Data(Head(q)) => Head(q).req = n
      BY ONLY <1>1, <1>2, <1>7 DEF Whole
    <2> QED BY ONLY <2>1, <2>2, <2>3, <2>4 DEF Whole, Silent
  <1> QED BY ONLY <1>1, <1>3, <1>4, <1>5, <1>6, <1>7 DEF t

FileTyped ==
    /\ v1 \in [id : Nat, left : Nat, req : Nat, got : 0 .. FileChunks, from : SUBSET Nat]
    /\ v2 \in Nat /\ v3 \in BOOLEAN /\ v8 \in Nat /\ v13 \in Nat
    /\ v5 \in Seq(FileAsks) /\ v6 \in Seq(FileAsks) /\ v7 \in Seq(FileAsks)
    /\ v10 \in Seq(FileAnswers)
    /\ v12 \in [downloads : Nat, lists : Nat, uploads : Nat]
    /\ v12.downloads + v12.lists + v12.uploads <= FileTransfers
    /\ v15 \in [Files!Downloads -> Nat]

\* The session thread has one message at hand, of a download that was started.
AtHand ==
    v5 = <<>> \/ (v5 = <<v5[1]>> /\ v5[1].of <= v12.downloads)

\* The active download waits for the file that was asked for last, and has nothing of
\* any other.
OfItsFile ==
    v1 = Files!Idle \/
       /\ v1.id \in 1 .. v12.downloads /\ v1.req = v13 /\ v2 = 0
       /\ v1.from \subseteq {v13} /\ (v1.got > 0 => v1.from = {v13})
       /\ ~Has(v5, "cancel")

\* That file is asked for, or sent, or the last of it is on the way, or neither; and
\* nothing is, once the client has read the last of it.
OneFile ==
    /\ InOne(v5, v6, v7, "get")
    /\ Numbered(v5, v13) /\ Numbered(v6, v13) /\ Numbered(v7, v13)
    /\ v8 # 0 => v8 = v13
    /\ Whole(v10, v13) /\ (Ended(v10) => v8 = 0)
    /\ ~InNone(v5, v6, v7, "get") => v8 = 0 /\ Silent(v10)
    /\ v1 = Files!Idle /\ v2 = 0 => InNone(v5, v6, v7, "get") /\ v8 = 0 /\ Silent(v10)

\* So it is with the one listing.
OneList ==
    /\ InOne(v5, v6, v7, "list") /\ Once(v10, "listed")
    /\ Has(v10, "listed") => InNone(v5, v6, v7, "list")
    /\ ~v3 => InNone(v5, v6, v7, "list") /\ ~Has(v10, "listed")

\* A download is not over while it is active or its cancel is at hand.
Cancels(q, d) == \E i \in DOMAIN q : q[i].kind = "cancel" /\ q[i].of = d
Unsettled(d)  == v1.id = d \/ Cancels(v5, d)
ToldOnce(d) ==
    /\ d > v12.downloads => v15[d] = 0 /\ d \notin v14
    /\ d <= v12.downloads /\ d \notin v14 =>
         /\ Unsettled(d) => v15[d] = 0
         /\ ~Unsettled(d) => v15[d] <= 1 /\ (v11 = "up" => v15[d] = 1)

FileInv ==
    /\ FileTyped /\ AtHand /\ OfItsFile /\ OneFile /\ OneList
    /\ \A d \in Files!Downloads : ToldOnce(d)
    /\ v11 # "protocol" /\ Files!FilesIntact

LEMMA NoAsk ==
    /\ <<>> \in Seq(FileAsks) /\ <<>> \in Seq(FileAnswers)
    /\ \A kind : ~Has(<<>>, kind) /\ Once(<<>>, kind)
    /\ \A n : Numbered(<<>>, n)
    /\ \A d : ~Cancels(<<>>, d)
    /\ Silent(<<>>)
  <1>1. \A S : <<>> \in Seq(S) /\ DOMAIN <<>> = {}
    BY EmptyIs
  <1> QED BY ONLY <1>1 DEF Has, Once, Numbered, Cancels, Silent

LEMMA OneAsk ==
    ASSUME NEW m \in FileAsks
    PROVE  /\ <<m>> \in Seq(FileAsks) /\ <<m>> # <<>> /\ Head(<<m>>) = m /\ Tail(<<m>>) = <<>>
           /\ <<m>>[1] = m
           /\ \A kind : Has(<<m>>, kind) <=> m.kind = kind
           /\ \A kind : Once(<<m>>, kind)
           /\ \A n : Numbered(<<m>>, n) <=> (m.kind = "get" => m.req = n)
           /\ \A d : Cancels(<<m>>, d) <=> m.kind = "cancel" /\ m.of = d
  <1>1. /\ <<m>> \in Seq(FileAsks) /\ <<m>> # <<>> /\ Head(<<m>>) = m /\ Tail(<<m>>) = <<>>
        /\ <<m>>[1] = m /\ DOMAIN <<m>> = {1}
    OBVIOUS
  <1> DEFINE s == <<m>>
  <1>2. s[1] = m /\ DOMAIN s = {1}
    BY ONLY <1>1
  <1> HIDE DEF s
  <1>3. \A kind : (Has(s, kind) <=> m.kind = kind) /\ Once(s, kind)
    BY ONLY <1>2 DEF Has, Once
  <1>4. \A n : Numbered(s, n) <=> (m.kind = "get" => m.req = n)
    BY ONLY <1>2 DEF Numbered
  <1>5. \A d : Cancels(s, d) <=> m.kind = "cancel" /\ m.of = d
    BY ONLY <1>2 DEF Cancels
  <1> QED BY ONLY <1>1, <1>3, <1>4, <1>5 DEF s

LEMMA FileMessages ==
    /\ \A kind \in {"cancel", "list", "put", "putcancel"} : \A d \in Nat :
         LET m == [Files!Ask(kind) EXCEPT !.of = d] IN
         m \in FileAsks /\ m.kind = kind /\ m.of = d
    /\ \A kind \in {"cancel", "list", "put", "putcancel"} :
         LET m == Files!Ask(kind) IN m \in FileAsks /\ m.kind = kind /\ m.of = 0
    /\ \A n, d \in Nat :
         LET m == [Files!Get(n) EXCEPT !.of = d] IN
         m \in FileAsks /\ m.kind = "get" /\ m.of = d /\ m.req = n
    /\ \A n \in Nat : LET m == Files!Get(n) IN m \in FileAsks /\ m.kind = "get" /\ m.req = n
    /\ \A kind \in {"chunk", "end", "failed", "listed", "putcancel"} : \A n \in Nat :
         LET m == Files!Say(kind, n) IN m \in FileAnswers /\ m.kind = kind /\ m.req = n
  BY DEF Files!Ask, Files!Get, Files!Say, FileAsks, FileAnswers

LEMMA FileBounds ==
    ASSUME BoundsAssumption
    PROVE  /\ FileTransfers \in Nat /\ FilesEach \in Nat \ {0} /\ FileChunks \in Nat \ {0}
           /\ Files!Downloads = 1 .. FileTransfers
  BY DEF BoundsAssumption, Files!Downloads

LEMMA StartNextIs ==
    ASSUME BoundsAssumption, NEW d \in Nat, NEW left \in Nat \ {0}, v13 \in Nat,
           Files!StartNext(d, left)
    PROVE  /\ v13' = v13 + 1 /\ v13' \in Nat
           /\ v1' \in [id : Nat, left : Nat, req : Nat, got : 0 .. FileChunks, from : SUBSET Nat]
           /\ v1'.id = d /\ v1'.req = v13' /\ v1'.got = 0 /\ v1'.from = {}
  <1> DEFINE n == left - 1
  <1>1. /\ v13' = v13 + 1 /\ v13' \in Nat /\ n \in Nat
        /\ v1' = [Files!Idle EXCEPT !.id = d, !.left = n, !.req = v13']
    BY DEF Files!StartNext
  <1>2. FileChunks \in Nat /\ 0 \in 0 .. FileChunks
    BY FileBounds
  <1> HIDE DEF n
  <1>3. /\ Files!Idle \in [id : Nat, left : Nat, req : Nat, got : 0 .. FileChunks,
                           from : SUBSET Nat]
        /\ Files!Idle.got = 0 /\ Files!Idle.from = {}
    BY <1>2 DEF Files!Idle
  <1> HIDE DEF Files!Idle
  <1>4. /\ v1' \in [id : Nat, left : Nat, req : Nat, got : 0 .. FileChunks, from : SUBSET Nat]
        /\ v1'.id = d /\ v1'.req = v13' /\ v1'.got = 0 /\ v1'.from = {}
    BY ONLY Zenon, d \in Nat, <1>1, <1>3
  <1> QED BY ONLY <1>1, <1>4

LEMMA FileStart ==
    ASSUME BoundsAssumption, Files!Init
    PROVE  FileInv
  <1> USE DEF Files!Init
  <1>1. /\ v5 = <<>> /\ v6 = <<>> /\ v7 = <<>> /\ v10 = <<>> /\ v1 = Files!Idle /\ v2 = 0
        /\ v3 = FALSE /\ v8 = 0 /\ v13 = 0 /\ v11 = "up" /\ v14 = {} /\ v16 = {}
        /\ v12 = [downloads |-> 0, lists |-> 0, uploads |-> 0]
        /\ v15 = [d \in Files!Downloads |-> 0]
    OBVIOUS
  <1>2. FileTyped
    <2>1. v1 \in [id : Nat, left : Nat, req : Nat, got : 0 .. FileChunks, from : SUBSET Nat]
      BY <1>1, FileBounds DEF Files!Idle
    <2>2. v15 \in [Files!Downloads -> Nat]
      BY ONLY <1>1
    <2>3. v12 \in [downloads : Nat, lists : Nat, uploads : Nat]
          /\ v12.downloads + v12.lists + v12.uploads <= FileTransfers
      BY <1>1, FileBounds
    <2> QED BY ONLY Zenon, <1>1, <2>1, <2>2, <2>3, NoAsk DEF FileTyped
  <1>3. OneFile
    BY ONLY <1>1, NoAsk, SilentIs DEF OneFile, InOne, InNone
  <1>4. OneList
    BY ONLY <1>1, NoAsk DEF OneList, InOne, InNone
  <1>5. ASSUME NEW d \in Files!Downloads PROVE ToldOnce(d)
    <2>1. Files!Downloads = 1 .. FileTransfers /\ FileTransfers \in Nat
      BY FileBounds
    <2>2. d \in Nat \ {0}
      BY ONLY <1>5, <2>1
    <2> QED BY ONLY <1>1, <1>5, <2>2 DEF ToldOnce
  <1>6. Files!FilesIntact
    BY ONLY <1>1 DEF Files!FilesIntact
  <1> QED BY ONLY <1>1, <1>2, <1>3, <1>4, <1>5, <1>6 DEF FileInv, AtHand, OfItsFile

LEMMA FileIs ==
    ASSUME BoundsAssumption, FileInv
    PROVE  /\ FileTyped /\ AtHand /\ OfItsFile /\ OneFile /\ OneList
           /\ v11 # "protocol" /\ Files!FilesIntact
           /\ \A d \in Files!Downloads : ToldOnce(d) /\ d \in Nat \ {0} /\ d <= FileTransfers
           /\ FileTransfers \in Nat /\ FileChunks \in Nat \ {0}
           /\ v1 # Files!Idle => v1.id # 0 /\ v1.id \in Files!Downloads
           /\ v12.downloads \in Nat /\ v12.downloads <= FileTransfers
  <1>1. /\ v1 # Files!Idle => v1.id \in 1 .. v12.downloads
        /\ v12.downloads \in Nat /\ v12.lists \in Nat /\ v12.uploads \in Nat
        /\ v12.downloads + v12.lists + v12.uploads <= FileTransfers
    BY DEF FileInv, FileTyped, OfItsFile
  <1>2. FileTransfers \in Nat /\ Files!Downloads = 1 .. FileTransfers /\ FileChunks \in Nat \ {0}
    BY FileBounds
  <1>3. v12.downloads <= FileTransfers
    BY ONLY <1>1, <1>2
  <1>4. v1 # Files!Idle => v1.id # 0 /\ v1.id \in Files!Downloads
    BY ONLY <1>1, <1>2, <1>3
  <1>5. \A d \in Files!Downloads : ToldOnce(d) /\ d \in Nat \ {0} /\ d <= FileTransfers
    BY ONLY <1>2, FileInv DEF FileInv
  <1> QED BY ONLY <1>1, <1>2, <1>3, <1>4, <1>5, FileInv DEF FileInv


LEMMA NoGet ==
    ASSUME NEW q, ~Has(q, "get")
    PROVE  Once(q, "get") /\ \A n : Numbered(q, n)
  BY DEF Has, Once, Numbered

LEMMA NoCancel ==
    ASSUME NEW q, ~Has(q, "cancel")
    PROVE  \A d : ~Cancels(q, d)
  BY DEF Has, Cancels

LEMMA Counted ==
    ASSUME NEW s \in [downloads : Nat, lists : Nat, uploads : Nat]
    PROVE  /\ LET t == [s EXCEPT !.downloads = @ + 1] IN
              /\ t \in [downloads : Nat, lists : Nat, uploads : Nat]
              /\ t.downloads = s.downloads + 1 /\ t.lists = s.lists /\ t.uploads = s.uploads
           /\ LET t == [s EXCEPT !.lists = @ + 1] IN
              /\ t \in [downloads : Nat, lists : Nat, uploads : Nat]
              /\ t.downloads = s.downloads /\ t.lists = s.lists + 1 /\ t.uploads = s.uploads
           /\ LET t == [s EXCEPT !.uploads = @ + 1] IN
              /\ t \in [downloads : Nat, lists : Nat, uploads : Nat]
              /\ t.downloads = s.downloads /\ t.lists = s.lists /\ t.uploads = s.uploads + 1
  OBVIOUS

LEMMA TellAdds ==
    ASSUME NEW S, NEW f \in [S -> Nat], NEW d
    PROVE  LET g == [f EXCEPT ![d] = @ + 1] IN
           /\ g \in [S -> Nat] /\ \A e \in S : g[e] = IF e = d THEN f[e] + 1 ELSE f[e]
  <1> DEFINE g == [f EXCEPT ![d] = @ + 1]
  <1>1. \A e \in S : f[e] \in Nat /\ f[e] + 1 \in Nat
    OBVIOUS
  <1>2. g = [e \in S |-> IF e = d THEN f[e] + 1 ELSE f[e]]
    BY Zenon
  <1> HIDE DEF g
  <1> QED BY ONLY Zenon, <1>1, <1>2 DEF g

LEMMA StartDownloadKeepsFiles ==
    ASSUME BoundsAssumption, FileInv, Files!StartDownload
    PROVE  FileInv'
  <1> DEFINE d == v12.downloads + 1
  <1>0. /\ FileTransfers \in Nat /\ FilesEach \in Nat \ {0} /\ FileChunks \in Nat \ {0}
        /\ Files!Downloads = 1 .. FileTransfers
    BY FileBounds
  <1>1. /\ v11 = "up" /\ v5 = <<>>
        /\ v12.downloads + v12.lists + v12.uploads < FileTransfers
        /\ v12' = [v12 EXCEPT !.downloads = @ + 1]
        /\ v2' = v2 /\ v3' = v3 /\ v4' = v4 /\ v6' = v6 /\ v7' = v7 /\ v8' = v8 /\ v9' = v9
        /\ v10' = v10 /\ v11' = v11 /\ v14' = v14 /\ v16' = v16
    BY DEF Files!StartDownload, Files!Free, Files!Up, Files!Fewer, Files!serverVars
  <1>2. \/ /\ v1 = Files!Idle /\ v2 = 0
           /\ \E n \in 1 .. FilesEach : Files!StartNext(d, n)
           /\ v5' = <<[Files!Get(v13') EXCEPT !.of = d]>> /\ v15' = v15
        \/ Files!Tell(d) /\ v1' = v1 /\ v13' = v13 /\ v5' = v5
    BY DEF Files!StartDownload
  <1>3. FileTyped /\ AtHand /\ OfItsFile /\ OneFile /\ OneList
    BY FileIs
  <1>4. /\ v12' \in [downloads : Nat, lists : Nat, uploads : Nat] /\ v12'.downloads = d
        /\ v12'.downloads + v12'.lists + v12'.uploads <= FileTransfers
        /\ d \in Nat \ {0} /\ v12.downloads \in Nat /\ d = v12.downloads + 1
    <2>1. v12 \in [downloads : Nat, lists : Nat, uploads : Nat]
      BY ONLY <1>3 DEF FileTyped
    <2>2. /\ v12' \in [downloads : Nat, lists : Nat, uploads : Nat]
          /\ v12'.downloads = d /\ v12'.lists = v12.lists /\ v12'.uploads = v12.uploads
      BY ONLY <1>1, <2>1, Counted
    <2>3. v12.downloads \in Nat /\ v12.lists \in Nat /\ v12.uploads \in Nat
      BY ONLY <2>1
    <2> QED BY ONLY <1>0, <1>1, <2>2, <2>3
  <1>5. v1.id = 0 \/ v1.id \in 1 .. v12.downloads
    BY ONLY <1>3 DEF OfItsFile, Files!Idle
  <1>6. /\ \A e : ~Cancels(v5, e)
        /\ \A e \in Files!Downloads : ToldOnce(e) /\ e \in Nat \ {0}
    BY Zenon, <1>1, FileIs, NoAsk
  <1> HIDE DEF d
  <1>7. CASE /\ v1 = Files!Idle /\ v2 = 0
             /\ \E n \in 1 .. FilesEach : Files!StartNext(d, n)
             /\ v5' = <<[Files!Get(v13') EXCEPT !.of = d]>> /\ v15' = v15
    <2>1. PICK n \in 1 .. FilesEach : Files!StartNext(d, n)
      BY <1>7
    <2>2. v13 \in Nat /\ n \in Nat \ {0} /\ d \in Nat
      BY <1>0, <1>3, <1>4 DEF FileTyped
    <2>4. /\ v13' \in Nat /\ d \in Nat
          /\ v1' \in [id : Nat, left : Nat, req : Nat, got : 0 .. FileChunks, from : SUBSET Nat]
          /\ v1'.id = d /\ v1'.req = v13' /\ v1'.got = 0 /\ v1'.from = {}
      BY <2>1, <2>2, StartNextIs
    <2>5. PICK m \in FileAsks : v5' = <<m>> /\ m.kind = "get" /\ m.of = d /\ m.req = v13'
      <3>1. LET m == [Files!Get(v13') EXCEPT !.of = d] IN
            m \in FileAsks /\ m.kind = "get" /\ m.of = d /\ m.req = v13'
        BY ONLY <2>4, FileMessages
      <3> QED BY ONLY Zenon, <1>7, <3>1
    <2>6. /\ v5' \in Seq(FileAsks) /\ v5' # <<>> /\ v5'[1] = m /\ v5' = <<v5'[1]>>
          /\ \A kind : Has(v5', kind) <=> "get" = kind
          /\ \A kind : Once(v5', kind)
          /\ Numbered(v5', v13') /\ \A e : ~Cancels(v5', e)
      BY ONLY <2>5, OneAsk
    <2>7. FileTyped'
      BY ONLY Zenon, <1>1, <1>3, <1>4, <1>7, <2>4, <2>6 DEF FileTyped
    <2>8. AtHand'
      BY ONLY <1>4, <2>5, <2>6 DEF AtHand
    <2>9. OfItsFile'
      <3>1. d \in 1 .. v12'.downloads
        BY ONLY <1>4
      <3>2. v2' = 0
        BY ONLY <1>1, <1>7
      <3> QED BY ONLY <2>4, <2>6, <3>1, <3>2 DEF OfItsFile
    <2>10. InNone(v5, v6, v7, "get") /\ v8 = 0 /\ Silent(v10)
      BY ONLY <1>3, <1>7 DEF OneFile
    <2>11. OneFile'
      <3>1. /\ Once(v6, "get") /\ Once(v7, "get") /\ Numbered(v6, v13') /\ Numbered(v7, v13')
            /\ ~Has(v6, "get") /\ ~Has(v7, "get")
        BY ONLY <2>10, NoGet DEF InNone
      <3>2. Whole(v10, v13') /\ ~Ended(v10)
        BY ONLY <2>10, SilentIs
      <3>3. v1' # Files!Idle
        BY <1>4, <2>4 DEF Files!Idle
      <3> QED BY ONLY <1>1, <2>6, <2>10, <3>1, <3>2, <3>3 DEF OneFile, InOne, InNone, Files!Idle
    <2>12. OneList'
      BY ONLY <1>1, <1>3, <2>6, NoAsk DEF OneList, InOne, InNone
    <2>13. ASSUME NEW e \in Files!Downloads PROVE ToldOnce(e)'
      <3>1. ToldOnce(e) /\ e \in Nat \ {0} /\ ~Cancels(v5, e) /\ ~Cancels(v5', e) /\ v1.id = 0
        BY <1>6, <1>7, <2>6 DEF Files!Idle
      <3> QED BY ONLY <1>1, <1>4, <1>7, <2>4, <3>1 DEF ToldOnce, Unsettled
    <2>14. v11' # "protocol" /\ Files!FilesIntact'
      BY Zenon, <1>1, FileIs DEF Files!FilesIntact
    <2> QED BY ONLY <2>7, <2>8, <2>9, <2>11, <2>12, <2>13, <2>14 DEF FileInv, Files!Downloads
  <1>8. CASE Files!Tell(d) /\ v1' = v1 /\ v13' = v13 /\ v5' = v5
    <2>1. /\ v15' \in [Files!Downloads -> Nat]
          /\ \A e \in Files!Downloads : v15'[e] = IF e = d THEN v15[e] + 1 ELSE v15[e]
      <3>1. v15 \in [Files!Downloads -> Nat] /\ v15' = [v15 EXCEPT ![d] = @ + 1]
        BY ONLY <1>3, <1>8 DEF FileTyped, Files!Tell
      <3> QED BY ONLY <3>1, TellAdds
    <2>2. FileTyped'
      BY ONLY Zenon, <1>1, <1>3, <1>4, <1>8, <2>1 DEF FileTyped, Files!Downloads
    <2>3. AtHand' /\ OfItsFile' /\ OneFile' /\ OneList'
      <3>1. AtHand'
        BY ONLY <1>1, <1>8 DEF AtHand
      <3>2. OfItsFile'
        BY ONLY <1>1, <1>3, <1>4, <1>8 DEF OfItsFile, Files!Idle
      <3>3. OneFile' /\ OneList'
        BY ONLY <1>1, <1>3, <1>8 DEF OneFile, OneList, Files!Idle
      <3> QED BY ONLY <3>1, <3>2, <3>3
    <2>4. ASSUME NEW e \in Files!Downloads PROVE ToldOnce(e)'
      <3>1. ToldOnce(e) /\ e \in Nat \ {0} /\ ~Cancels(v5, e)
        BY <1>6
      <3>2. v15'[e] = IF e = d THEN v15[e] + 1 ELSE v15[e]
        BY ONLY <2>1, <2>4
      <3> QED BY ONLY <1>1, <1>4, <1>5, <1>8, <3>1, <3>2 DEF ToldOnce, Unsettled
    <2>5. v11' # "protocol" /\ Files!FilesIntact'
      BY Zenon, <1>1, FileIs DEF Files!FilesIntact
    <2> QED BY ONLY <2>2, <2>3, <2>4, <2>5 DEF FileInv, Files!Downloads
  <1> QED BY ONLY <1>2, <1>7, <1>8

LEMMA CancelDownloadKeepsFiles ==
    ASSUME BoundsAssumption, FileInv, Files!CancelDownload
    PROVE  FileInv'
  <1>1. /\ v11 = "up" /\ v5 = <<>> /\ v1 # Files!Idle
        /\ v2' = v1.id /\ v1' = Files!Idle
        /\ v5' = <<[Files!Ask("cancel") EXCEPT !.of = v1.id]>>
        /\ v3' = v3 /\ v4' = v4 /\ v6' = v6 /\ v7' = v7 /\ v8' = v8 /\ v9' = v9
        /\ v10' = v10 /\ v11' = v11 /\ v12' = v12 /\ v13' = v13 /\ v14' = v14 /\ v15' = v15
        /\ v16' = v16
    BY DEF Files!CancelDownload, Files!Free, Files!Up, Files!serverVars, Files!ghostVars
  <1>2. /\ FileTyped /\ AtHand /\ OfItsFile /\ OneFile /\ OneList
        /\ v1.id # 0 /\ v1.id \in Files!Downloads
    BY Zenon, <1>1, FileIs
  <1>3. v1.id \in Nat /\ v1.id \in 1 .. v12.downloads /\ v12.downloads \in Nat
    BY ONLY <1>1, <1>2 DEF OfItsFile, FileTyped
  <1>4. PICK m \in FileAsks : v5' = <<m>> /\ m.kind = "cancel" /\ m.of = v1.id
    <2>1. LET m == [Files!Ask("cancel") EXCEPT !.of = v1.id] IN
          m \in FileAsks /\ m.kind = "cancel" /\ m.of = v1.id
      BY ONLY <1>3, FileMessages
    <2> QED BY ONLY Zenon, <1>1, <2>1
  <1>5. /\ v5' \in Seq(FileAsks) /\ v5' # <<>> /\ v5'[1] = m /\ v5' = <<v5'[1]>>
        /\ \A kind : Has(v5', kind) <=> "cancel" = kind
        /\ \A kind : Once(v5', kind)
        /\ Numbered(v5', v13) /\ \A e : Cancels(v5', e) <=> v1.id = e
    BY ONLY <1>4, OneAsk
  <1>6. Files!Idle.id = 0 /\ v1' \in [id : Nat, left : Nat, req : Nat, got : 0 .. FileChunks,
                                      from : SUBSET Nat]
    BY <1>1, FileBounds DEF Files!Idle
  <1>7. FileTyped'
    BY ONLY Zenon, <1>1, <1>2, <1>3, <1>5, <1>6 DEF FileTyped
  <1>8. AtHand'
    BY ONLY <1>1, <1>3, <1>4, <1>5 DEF AtHand
  <1>9. OneFile'
    BY ONLY <1>1, <1>2, <1>5, NoAsk DEF OneFile, InOne, InNone
  <1>10. OneList'
    BY ONLY <1>1, <1>2, <1>5, NoAsk DEF OneList, InOne, InNone
  <1>11. ASSUME NEW e \in Files!Downloads PROVE ToldOnce(e)'
    <2>1. ToldOnce(e) /\ e \in Nat \ {0} /\ ~Cancels(v5, e)
      BY Zenon, <1>1, FileIs, NoAsk
    <2> QED BY ONLY <1>1, <1>5, <1>6, <2>1 DEF ToldOnce, Unsettled
  <1>12. v11' # "protocol" /\ Files!FilesIntact'
    BY Zenon, <1>1, FileIs DEF Files!FilesIntact
  <1> QED BY ONLY <1>1, <1>7, <1>8, <1>9, <1>10, <1>11, <1>12
          DEF FileInv, OfItsFile, Files!Downloads

\* A message of the host that is about no download.
LEMMA HostAsksOther ==
    ASSUME BoundsAssumption, FileInv, v5 = <<>>,
           v12' \in [downloads : Nat, lists : Nat, uploads : Nat],
           v12'.downloads = v12.downloads,
           v12'.downloads + v12'.lists + v12'.uploads <= FileTransfers,
           NEW m \in FileAsks, m.of = 0, m.kind \in {"list", "put", "putcancel"},
           v5' = <<>> \/ v5' = <<m>>, v3' \in BOOLEAN,
           v3' = v3 \/ (~v3 /\ v3'), v5' = <<m>> /\ m.kind = "list" => ~v3 /\ v3',
           v1' = v1, v2' = v2, v6' = v6, v7' = v7, v8' = v8, v10' = v10, v11' = v11,
           v13' = v13, v14' = v14, v15' = v15, v16' = v16
    PROVE  FileInv'
  <1>0. /\ v1' = v1 /\ v2' = v2 /\ v6' = v6 /\ v7' = v7 /\ v8' = v8 /\ v10' = v10
        /\ v11' = v11 /\ v13' = v13 /\ v14' = v14 /\ v15' = v15 /\ v16' = v16
        /\ v12'.downloads = v12.downloads /\ m.kind \in {"list", "put", "putcancel"}
    OBVIOUS
  <1>1. FileTyped /\ AtHand /\ OfItsFile /\ OneFile /\ OneList /\ v12.downloads \in Nat
    BY Zenon, FileIs
  <1>2. /\ v5' \in Seq(FileAsks) /\ (v5' # <<>> => v5' = <<v5'[1]>> /\ v5'[1].of = 0)
        /\ \A kind : Has(v5', kind) => m.kind = kind /\ v5' = <<m>>
        /\ \A kind : Once(v5', kind)
        /\ Numbered(v5', v13) /\ \A e : ~Cancels(v5', e)
    <2>1. CASE v5' = <<>>
      BY ONLY <2>1, NoAsk
    <2>2. CASE v5' = <<m>>
      BY Zenon, <2>2, OneAsk
    <2> QED BY <2>1, <2>2
  <1>3. FileTyped'
    BY Zenon, <1>1, <1>2 DEF FileTyped, Files!Downloads
  <1>4. AtHand'
    BY ONLY <1>0, <1>1, <1>2 DEF AtHand
  <1>5. OfItsFile'
    <2>1. ~Has(v5', "cancel")
      BY ONLY <1>0, <1>2
    <2> QED BY ONLY <1>0, <1>1, <2>1 DEF OfItsFile, Files!Idle
  <1>6. OneFile'
    <2>1. ~Has(v5', "get") /\ Once(v5', "get") /\ Numbered(v5', v13)
      BY ONLY <1>0, <1>2
    <2> QED BY ONLY <1>0, <1>1, <2>1 DEF OneFile, InOne, InNone, Files!Idle
  <1>7. OneList'
    BY Zenon, <1>1, <1>2, NoAsk DEF OneList, InOne, InNone
  <1>8. ASSUME NEW e \in Files!Downloads PROVE ToldOnce(e)'
    <2>1. ToldOnce(e) /\ ~Cancels(v5, e) /\ ~Cancels(v5', e)
      BY Zenon, <1>2, FileIs, NoAsk
    <2> QED BY <2>1 DEF ToldOnce, Unsettled
  <1>9. v11' # "protocol" /\ Files!FilesIntact'
    BY Zenon, FileIs DEF Files!FilesIntact
  <1> QED BY ONLY <1>3, <1>4, <1>5, <1>6, <1>7, <1>8, <1>9 DEF FileInv, Files!Downloads

LEMMA OtherRequestsKeepFiles ==
    ASSUME BoundsAssumption, FileInv,
           Files!RequestList \/ Files!Upload \/ Files!CancelUpload
    PROVE  FileInv'
  <1>1. /\ v11 = "up" /\ v5 = <<>> /\ v1' = v1 /\ v2' = v2 /\ v6' = v6 /\ v7' = v7 /\ v8' = v8
        /\ v10' = v10 /\ v11' = v11 /\ v13' = v13 /\ v14' = v14 /\ v15' = v15 /\ v16' = v16
    BY Zenon DEF Files!RequestList, Files!Upload, Files!CancelUpload, Files!Free, Files!Up,
           Files!serverVars, Files!ghostVars
  <1>2. /\ FileTransfers \in Nat /\ v3 \in BOOLEAN
        /\ v12 \in [downloads : Nat, lists : Nat, uploads : Nat]
        /\ v12.downloads + v12.lists + v12.uploads <= FileTransfers
    BY Zenon, FileIs DEF FileTyped
  <1>3. /\ v12' \in [downloads : Nat, lists : Nat, uploads : Nat]
        /\ v12'.downloads = v12.downloads
        /\ v12'.downloads + v12'.lists + v12'.uploads <= FileTransfers
    <2>1. \/ v12' = v12
          \/ /\ v12.downloads + v12.lists + v12.uploads < FileTransfers
             /\ \/ v12' = [v12 EXCEPT !.lists = @ + 1]
                \/ v12' = [v12 EXCEPT !.uploads = @ + 1]
      BY DEF Files!RequestList, Files!Upload, Files!CancelUpload, Files!Fewer
    <2>2. v12.downloads \in Nat /\ v12.lists \in Nat /\ v12.uploads \in Nat
      BY ONLY <1>2
    <2>3. \/ v12' = v12
          \/ /\ v12.downloads + v12.lists + v12.uploads < FileTransfers
             /\ v12' \in [downloads : Nat, lists : Nat, uploads : Nat]
             /\ v12'.downloads = v12.downloads
             /\ \/ v12'.lists = v12.lists + 1 /\ v12'.uploads = v12.uploads
                \/ v12'.lists = v12.lists /\ v12'.uploads = v12.uploads + 1
      BY ONLY <1>2, <2>1, Counted
    <2> QED BY ONLY <1>2, <2>2, <2>3
  <1>4. \E kind \in {"list", "put", "putcancel"} :
          /\ v5' = <<>> \/ v5' = <<Files!Ask(kind)>>
          /\ v3' = v3 \/ (~v3 /\ v3' = TRUE)
          /\ v5' = <<Files!Ask(kind)>> /\ kind = "list" => ~v3 /\ v3' = TRUE
    BY Zenon DEF Files!RequestList, Files!Upload, Files!CancelUpload, Files!Payload
  <1>5. PICK m \in FileAsks :
          /\ m.of = 0 /\ m.kind \in {"list", "put", "putcancel"}
          /\ v5' = <<>> \/ v5' = <<m>>
          /\ v3' = v3 \/ (~v3 /\ v3' = TRUE)
          /\ v5' = <<m>> /\ m.kind = "list" => ~v3 /\ v3' = TRUE
    <2>1. \A kind \in {"list", "put", "putcancel"} :
            Files!Ask(kind) \in FileAsks /\ Files!Ask(kind).kind = kind
            /\ Files!Ask(kind).of = 0
      BY ONLY FileMessages
    <2> QED BY ONLY <1>4, <2>1
  <1>6. v3' \in BOOLEAN
    BY ONLY Zenon, <1>2, <1>5
  <1> QED BY Zenon, <1>1, <1>3, <1>5, <1>6, HostAsksOther

LEMMA AskMoved ==
    ASSUME NEW a, NEW b \in Seq(FileAsks), NEW c \in Seq(FileAsks), b # <<>>
    PROVE  /\ Append(c, Head(b)) \in Seq(FileAsks) /\ Tail(b) \in Seq(FileAsks)
           /\ \A kind : InOne(a, b, c, kind) => InOne(a, Tail(b), Append(c, Head(b)), kind)
           /\ \A kind : InNone(a, b, c, kind) <=> InNone(a, Tail(b), Append(c, Head(b)), kind)
           /\ \A n : Numbered(b, n) /\ Numbered(c, n)
                       => Numbered(Tail(b), n) /\ Numbered(Append(c, Head(b)), n)
  <1> DEFINE m == Head(b)
             t == Tail(b)
             s == Append(c, m)
  <1>1. /\ t \in Seq(FileAsks) /\ m \in FileAsks
        /\ \A kind : Has(b, kind) <=> m.kind = kind \/ Has(t, kind)
        /\ \A kind : Once(b, kind) => Once(t, kind) /\ (m.kind = kind => ~Has(t, kind))
        /\ \A n : Numbered(b, n) => Numbered(t, n) /\ (m.kind = "get" => m.req = n)
    BY AskTaken
  <1>2. /\ s \in Seq(FileAsks)
        /\ \A kind : Has(s, kind) <=> m.kind = kind \/ Has(c, kind)
        /\ \A kind : Once(c, kind) /\ (m.kind # kind \/ ~Has(c, kind)) => Once(s, kind)
        /\ \A n : Numbered(c, n) /\ (m.kind = "get" => m.req = n) => Numbered(s, n)
    BY <1>1, AskSent
  <1> HIDE DEF m, t, s
  <1>3. ASSUME NEW kind
        PROVE  /\ InOne(a, b, c, kind) => InOne(a, t, s, kind)
               /\ InNone(a, b, c, kind) <=> InNone(a, t, s, kind)
    BY ONLY <1>1, <1>2 DEF InOne, InNone
  <1> QED BY ONLY <1>1, <1>2, <1>3 DEF m, t, s

LEMMA DrainKeepsFiles ==
    ASSUME BoundsAssumption, FileInv, Files!Drain
    PROVE  FileInv'
  <1>1. /\ v6 # <<>> /\ v7' = Append(v7, Head(v6)) /\ v6' = Tail(v6)
        /\ v1' = v1 /\ v2' = v2 /\ v3' = v3 /\ v5' = v5 /\ v8' = v8 /\ v10' = v10
        /\ v11' = v11 /\ v12' = v12 /\ v13' = v13 /\ v14' = v14 /\ v15' = v15 /\ v16' = v16
    BY DEF Files!Drain, Files!fileVars, Files!serverVars, Files!ghostVars
  <1>2. /\ FileTyped /\ AtHand /\ OfItsFile /\ OneFile /\ OneList
        /\ v11 # "protocol" /\ Files!FilesIntact
        /\ \A d \in Files!Downloads : ToldOnce(d)
    BY FileIs
  <1>3. /\ v7' \in Seq(FileAsks) /\ v6' \in Seq(FileAsks)
        /\ \A kind : InOne(v5, v6, v7, kind) => InOne(v5, v6', v7', kind)
        /\ \A kind : InNone(v5, v6, v7, kind) <=> InNone(v5, v6', v7', kind)
        /\ Numbered(v6, v13) /\ Numbered(v7, v13)
             => Numbered(v6', v13) /\ Numbered(v7', v13)
    BY ONLY Zenon, <1>1, <1>2, AskMoved DEF FileTyped
  <1>4. FileTyped' /\ AtHand' /\ OfItsFile'
    BY ONLY Zenon, <1>1, <1>2, <1>3 DEF FileTyped, AtHand, OfItsFile, Files!Idle,
       Files!Downloads
  <1>5. OneFile' /\ OneList'
    BY ONLY <1>1, <1>2, <1>3 DEF OneFile, OneList, Files!Idle
  <1>6. v11' # "protocol" /\ Files!FilesIntact' /\ \A d \in Files!Downloads : ToldOnce(d)'
    BY ONLY <1>1, <1>2 DEF Files!FilesIntact, ToldOnce, Unsettled
  <1> QED BY ONLY <1>4, <1>5, <1>6 DEF FileInv, Files!Downloads

LEMMA DispatchKeepsFiles ==
    ASSUME BoundsAssumption, FileInv, Files!Dispatch
    PROVE  FileInv'
  <1> DEFINE m == Head(v5)
  <1>1. /\ v11 = "up" /\ v5 # <<>> /\ v5' = Tail(v5)
        /\ v1' = v1 /\ v2' = v2 /\ v3' = v3 /\ v7' = v7 /\ v8' = v8 /\ v10' = v10
        /\ v12' = v12 /\ v13' = v13 /\ v16' = v16
    BY DEF Files!Dispatch, Files!fileVars, Files!serverVars, Files!Up
  <1>2. \/ /\ v6' = Append(v6, m) /\ v11' = v11 /\ v14' = v14
           /\ m.kind = "cancel" /\ Files!Tell(m.of)
        \/ /\ v6' = Append(v6, m) /\ v11' = v11 /\ v14' = v14
           /\ m.kind # "cancel" /\ v15' = v15
        \/ /\ v6' = v6 /\ v11' = "write" /\ v14' = v14 /\ v15' = v15
        \/ /\ v6' = v6 /\ v11' = v11 /\ m.kind = "get"
           /\ v14' = v14 \cup {m.of} /\ Files!Tell(m.of)
        \/ /\ v6' = v6 /\ v11' = v11 /\ v14' = v14 /\ m.kind \in {"list", "put"} /\ v15' = v15
    BY Zenon DEF Files!Dispatch
  <1>3. /\ FileTyped /\ AtHand /\ OfItsFile /\ OneFile /\ OneList
        /\ Files!FilesIntact /\ v12.downloads \in Nat
    BY FileIs
  <1>4. m \in FileAsks /\ v5 = <<m>> /\ v5' = <<>> /\ m.of <= v12.downloads
    <2>1. v5 = <<v5[1]>> /\ v5[1].of <= v12.downloads /\ v5 \in Seq(FileAsks)
      BY ONLY <1>1, <1>3 DEF AtHand, FileTyped
    <2>2. Head(v5) = v5[1] /\ Tail(v5) = <<>> /\ Head(v5) \in FileAsks
      <3>1. PICK s : s = v5[1] /\ v5 = <<s>>
        BY ONLY <2>1
      <3>2. Head(v5) = s /\ Tail(v5) = <<>>
        BY ONLY <3>1
      <3>3. Head(v5) \in FileAsks
        BY ONLY <1>1, <2>1, TailIs
      <3> QED BY ONLY <3>1, <3>2, <3>3
    <2> QED BY ONLY <1>1, <2>1, <2>2
  <1>5. /\ \A kind : Has(v5, kind) <=> m.kind = kind
        /\ Numbered(v5, v13) <=> (m.kind = "get" => m.req = v13)
        /\ \A d : Cancels(v5, d) <=> m.kind = "cancel" /\ m.of = d
        /\ m.of \in Nat /\ m.req \in Nat
    <2>1. m.of \in Nat /\ m.req \in Nat
      BY ONLY <1>4 DEF FileAsks
    <2> HIDE DEF m
    <2> QED BY ONLY <1>4, <2>1, OneAsk
  <1> HIDE DEF m
  <1>6. /\ v5' \in Seq(FileAsks) /\ Numbered(v5', v13)
        /\ \A kind : ~Has(v5', kind) /\ Once(v5', kind)
        /\ \A d : ~Cancels(v5', d)
    BY ONLY <1>4, NoAsk
  <1>7. /\ v6' \in Seq(FileAsks) /\ (Numbered(v5, v13) /\ Numbered(v6, v13) => Numbered(v6', v13))
        /\ \A kind : InOne(v5, v6, v7, kind) => InOne(v5', v6', v7', kind)
        /\ \A kind : InNone(v5, v6, v7, kind) => InNone(v5', v6', v7', kind)
    <2>1. v6 \in Seq(FileAsks)
      BY ONLY <1>3 DEF FileTyped
    <2>2. CASE v6' = v6
      BY ONLY <1>1, <1>6, <2>1, <2>2 DEF InOne, InNone
    <2>3. CASE v6' = Append(v6, m)
      <3>1. /\ v6' \in Seq(FileAsks)
            /\ \A kind : Has(v6', kind) <=> m.kind = kind \/ Has(v6, kind)
            /\ \A kind : Once(v6, kind) /\ (m.kind # kind \/ ~Has(v6, kind)) => Once(v6', kind)
            /\ Numbered(v6, v13) /\ (m.kind = "get" => m.req = v13) => Numbered(v6', v13)
        BY ONLY <1>4, <2>1, <2>3, AskSent
      <3> QED BY ONLY <1>1, <1>5, <1>6, <3>1 DEF InOne, InNone
    <2> QED BY ONLY <1>2, <2>2, <2>3
  <1>8. /\ v15' \in [Files!Downloads -> Nat]
        /\ v15' = v15 \/ \A e \in Files!Downloads :
                           v15'[e] = IF e = m.of THEN v15[e] + 1 ELSE v15[e]
    <2>1. v15 \in [Files!Downloads -> Nat] /\ (v15' = v15 \/ v15' = [v15 EXCEPT ![m.of] = @ + 1])
      BY ONLY Zenon, <1>2, <1>3 DEF FileTyped, Files!Tell
    <2> QED BY ONLY <2>1, TellAdds
  <1>9. FileTyped'
    BY ONLY Zenon, <1>1, <1>3, <1>6, <1>7, <1>8 DEF FileTyped, Files!Downloads
  <1>10. AtHand' /\ OfItsFile'
    BY ONLY <1>1, <1>3, <1>4, <1>6 DEF AtHand, OfItsFile, Files!Idle
  <1>11. OneFile' /\ OneList'
    BY ONLY <1>1, <1>3, <1>6, <1>7 DEF OneFile, OneList, Files!Idle
  <1>12. ASSUME NEW e \in Files!Downloads PROVE ToldOnce(e)'
    <2>1. ToldOnce(e) /\ e \in Nat \ {0} /\ v15[e] \in Nat
      BY Zenon, FileIs DEF FileTyped
    <2>2. Unsettled(e)' <=> v1.id = e
      BY ONLY <1>1, <1>6 DEF Unsettled
    <2>3. Unsettled(e) <=> v1.id = e \/ (m.kind = "cancel" /\ m.of = e)
      BY ONLY <1>5 DEF Unsettled
    <2>4. CASE v15' = v15 /\ v14' = v14 /\ m.kind # "cancel" /\ v11' = v11
      BY ONLY <1>1, <2>1, <2>2, <2>3, <2>4 DEF ToldOnce
    <2>5. CASE v15' = v15 /\ v14' = v14 /\ v11' = "write"
      BY ONLY <1>1, <2>1, <2>2, <2>3, <2>5 DEF ToldOnce
    <2>6. CASE v14' = v14 /\ m.kind = "cancel" /\ Files!Tell(m.of) /\ v11' = v11
      <3>1. v15'[e] = IF e = m.of THEN v15[e] + 1 ELSE v15[e]
        BY ONLY Zenon, <1>3, <1>12, <2>6, TellAdds DEF FileTyped, Files!Tell
      <3>2. v1 = Files!Idle
        BY ONLY <1>3, <1>5, <2>6 DEF OfItsFile
      <3>3. v1.id # e
        BY ONLY <2>1, <3>2 DEF Files!Idle
      <3> QED BY ONLY <1>1, <1>3, <1>4, <2>1, <2>2, <2>3, <2>6, <3>1, <3>3 DEF ToldOnce
    <2>7. CASE v14' = v14 \cup {m.of} /\ m.kind = "get" /\ Files!Tell(m.of) /\ v11' = v11
      <3>1. v15'[e] = IF e = m.of THEN v15[e] + 1 ELSE v15[e]
        BY ONLY Zenon, <1>3, <1>12, <2>7, TellAdds DEF FileTyped, Files!Tell
      <3> QED BY ONLY <1>1, <1>3, <1>4, <1>5, <2>1, <2>2, <2>3, <2>7, <3>1 DEF ToldOnce
    <2> QED BY ONLY <1>2, <2>4, <2>5, <2>6, <2>7
  <1>13. v11' # "protocol" /\ Files!FilesIntact'
    BY ONLY <1>1, <1>2, <1>3 DEF Files!FilesIntact
  <1> QED BY ONLY <1>9, <1>10, <1>11, <1>12, <1>13 DEF FileInv, Files!Downloads

\* What is no part of a file changes no verdict.
LEMMA NoVerdict ==
    ASSUME BoundsAssumption, FileInv, v1' = v1, v5' = v5, v12' = v12, v14' = v14, v15' = v15,
           v16' = v16, v11' = v11 \/ v11' \in {"upload", "local"}
    PROVE  /\ AtHand' /\ v11' # "protocol" /\ Files!FilesIntact'
           /\ \A d \in Files!Downloads : ToldOnce(d)'
  <1>1. AtHand /\ v11 # "protocol" /\ Files!FilesIntact
    BY FileIs
  <1>2. AtHand' /\ v11' # "protocol" /\ Files!FilesIntact'
    BY Zenon, <1>1 DEF AtHand, Files!FilesIntact
  <1>3. ASSUME NEW d \in Files!Downloads PROVE ToldOnce(d)'
    <2>1. ToldOnce(d)
      BY FileIs
    <2> QED BY <2>1 DEF ToldOnce, Unsettled
  <1> QED BY ONLY <1>2, <1>3

LEMMA OtherAnswersKeepFiles ==
    ASSUME BoundsAssumption, FileInv, Files!ReadList \/ Files!ReadUploadCancel
    PROVE  FileInv'
  <1>1. /\ v10 # <<>> /\ v10' = Tail(v10) /\ v5' = v5 /\ v6' = v6 /\ v7' = v7 /\ v8' = v8
        /\ v1' = v1 /\ v2' = v2 /\ v12' = v12 /\ v13' = v13 /\ v14' = v14 /\ v15' = v15
        /\ v16' = v16 /\ v11 = "up"
        /\ \/ /\ Head(v10).kind = "listed" /\ v3' = FALSE
              /\ v11' = IF v3 THEN "up" ELSE "protocol"
           \/ Head(v10).kind = "putcancel" /\ v3' = v3 /\ v11' \in {"up", "upload"}
    BY Zenon DEF Files!ReadList, Files!ReadUploadCancel, Files!serverVars, Files!ghostVars,
       Files!Up
  <1>2. FileTyped /\ AtHand /\ OfItsFile /\ OneFile /\ OneList
    BY FileIs
  <1>3. /\ v10' \in Seq(FileAnswers)
        /\ Has(v10, "listed") <=> Head(v10).kind = "listed" \/ Has(v10', "listed")
        /\ Once(v10, "listed") => /\ Once(v10', "listed")
                                  /\ Head(v10).kind = "listed" => ~Has(v10', "listed")
        /\ Silent(v10) => Silent(v10')
        /\ Ended(v10') => Ended(v10)
        /\ Whole(v10, v13) => Whole(v10', v13)
    BY ONLY Zenon, <1>1, <1>2, AnswerTakenFrom DEF FileTyped
  <1>4. v3 \in BOOLEAN /\ (Head(v10).kind = "listed" => v3)
    BY ONLY <1>2, <1>3 DEF OneList, FileTyped
  <1>5. v11' = v11 \/ v11' \in {"upload", "local"}
    BY ONLY <1>1, <1>4
  <1>6. /\ AtHand' /\ v11' # "protocol" /\ Files!FilesIntact'
        /\ \A d \in Files!Downloads : ToldOnce(d)'
    BY <1>1, <1>5, NoVerdict
  <1>7. FileTyped' /\ OfItsFile'
    BY ONLY Zenon, <1>1, <1>2, <1>3, <1>4 DEF FileTyped, OfItsFile, Files!Idle, Files!Downloads
  <1>8. OneFile'
    BY ONLY <1>1, <1>2, <1>3 DEF OneFile, Files!Idle
  <1>9. OneList'
    BY ONLY <1>1, <1>2, <1>3 DEF OneList
  <1> QED BY ONLY <1>6, <1>7, <1>8, <1>9 DEF FileInv, Files!Downloads

LEMMA ServerSendsKeepsFiles ==
    ASSUME BoundsAssumption, FileInv, Files!ServerSends
    PROVE  FileInv'
  <1>1. /\ v5' = v5 /\ v6' = v6 /\ v7' = v7 /\ v3' = v3
        /\ v1' = v1 /\ v2' = v2 /\ v12' = v12 /\ v13' = v13 /\ v14' = v14 /\ v15' = v15
        /\ v16' = v16 /\ v11' = v11
    BY DEF Files!ServerSends, Files!fileVars, Files!ghostVars
  <1>2. FileTyped /\ AtHand /\ OfItsFile /\ OneFile /\ OneList /\ v8 \in Nat
    BY Zenon, FileIs DEF FileTyped
  <1>3. PICK m \in FileAnswers :
          /\ v10' = Append(v10, m) /\ m.kind # "listed"
          /\ \/ v8 # 0 /\ m.req = v8 /\ m.kind = "chunk" /\ v8' = v8
             \/ v8 # 0 /\ m.req = v8 /\ m.kind \in {"end", "failed"} /\ v8' = 0
             \/ m.kind = "putcancel" /\ v8' = v8
    <2>1. \/ v10' = Append(v10, Files!Say("chunk", v8)) /\ v8 # 0 /\ v8' = v8
          \/ /\ \E kind \in {"end", "failed"} : v10' = Append(v10, Files!Say(kind, v8))
             /\ v8 # 0 /\ v8' = 0
          \/ v10' = Append(v10, Files!Say("putcancel", 0)) /\ v8' = v8
      BY Zenon DEF Files!ServerSends, Files!serverVars
    <2>2. \A kind \in {"chunk", "end", "failed", "listed", "putcancel"} : \A n \in Nat :
            /\ Files!Say(kind, n) \in FileAnswers
            /\ Files!Say(kind, n).kind = kind /\ Files!Say(kind, n).req = n
      BY ONLY FileMessages
    <2>3. CASE v10' = Append(v10, Files!Say("chunk", v8)) /\ v8 # 0 /\ v8' = v8
      BY ONLY <1>2, <2>2, <2>3
    <2>4. CASE /\ \E kind \in {"end", "failed"} : v10' = Append(v10, Files!Say(kind, v8))
               /\ v8 # 0 /\ v8' = 0
      BY ONLY <1>2, <2>2, <2>4
    <2>5. CASE v10' = Append(v10, Files!Say("putcancel", 0)) /\ v8' = v8
      BY ONLY <2>2, <2>5
    <2> QED BY ONLY <2>1, <2>3, <2>4, <2>5
  <1>4. v10 \in Seq(FileAnswers) /\ (v8 # 0 => v8 = v13)
    BY ONLY <1>2 DEF FileTyped, OneFile
  <1>5. /\ v10' \in Seq(FileAnswers)
        /\ Has(v10', "listed") <=> Has(v10, "listed")
        /\ Once(v10, "listed") => Once(v10', "listed")
        /\ Silent(v10) /\ ~Data(m) => Silent(v10')
        /\ Ended(v10') <=> Ended(v10) \/ Last(m)
        /\ Whole(v10, v13) /\ (Data(m) => m.req = v13 /\ ~Ended(v10)) => Whole(v10', v13)
    BY ONLY <1>3, <1>4, AnswerSent
  <1>6. /\ AtHand' /\ v11' # "protocol" /\ Files!FilesIntact'
        /\ \A d \in Files!Downloads : ToldOnce(d)'
    BY <1>1, NoVerdict
  <1>7. FileTyped' /\ OfItsFile'
    <2>1. v8' \in Nat
      BY ONLY <1>2, <1>3
    <2>2. FileTyped'
      BY ONLY Zenon, <1>1, <1>2, <1>5, <2>1 DEF FileTyped, Files!Downloads
    <2>3. OfItsFile'
      BY ONLY <1>1, <1>2 DEF OfItsFile, Files!Idle
    <2> QED BY ONLY <2>2, <2>3
  <1>8. OneFile'
    BY ONLY <1>1, <1>2, <1>3, <1>4, <1>5 DEF OneFile, Files!Idle, Data, Last
  <1>9. OneList'
    BY ONLY <1>1, <1>2, <1>5 DEF OneList
  <1> QED BY ONLY <1>6, <1>7, <1>8, <1>9 DEF FileInv, Files!Downloads

LEMMA ServerTakesKeepsFiles ==
    ASSUME BoundsAssumption, FileInv, Files!ServerTakes
    PROVE  FileInv'
  <1> DEFINE m == Head(v7)
  <1>1. /\ v7 # <<>> /\ v7' = Tail(v7) /\ v5' = v5 /\ v6' = v6 /\ v3' = v3
        /\ v1' = v1 /\ v2' = v2 /\ v12' = v12 /\ v13' = v13 /\ v14' = v14 /\ v15' = v15
        /\ v16' = v16 /\ v11' = v11
    BY DEF Files!ServerTakes, Files!fileVars, Files!ghostVars
  <1>2. /\ FileTyped /\ AtHand /\ OfItsFile /\ OneFile /\ OneList
        /\ v8 \in Nat /\ v7 \in Seq(FileAsks) /\ v10 \in Seq(FileAnswers)
    BY Zenon, FileIs DEF FileTyped
  <1>3. \/ m.kind = "get" /\ v8' = m.req /\ v10' = v10
        \/ m.kind = "cancel" /\ v8' = 0 /\ v8 = 0 /\ v10' = v10
        \/ /\ m.kind = "cancel" /\ v8' = 0 /\ v8 # 0
           /\ \E kind \in {"failed", "end"} : v10' = Append(v10, Files!Say(kind, v8))
        \/ m.kind = "list" /\ v10' = Append(v10, Files!Say("listed", 0)) /\ v8' = v8
        \/ m.kind \in {"put", "putcancel"} /\ v10' = v10 /\ v8' = v8
    BY Zenon DEF Files!ServerTakes, Files!serverVars
  <1>4. /\ v7' \in Seq(FileAsks) /\ m \in FileAsks
        /\ \A kind : Has(v7, kind) <=> m.kind = kind \/ Has(v7', kind)
        /\ \A kind : Once(v7, kind) => Once(v7', kind) /\ (m.kind = kind => ~Has(v7', kind))
        /\ Numbered(v7, v13) => Numbered(v7', v13) /\ (m.kind = "get" => m.req = v13)
    BY ONLY <1>1, <1>2, AskTaken
  <1> HIDE DEF m
  <1>5. m.req \in Nat
    BY ONLY <1>4 DEF FileAsks
  <1>6. /\ AtHand' /\ v11' # "protocol" /\ Files!FilesIntact'
        /\ \A d \in Files!Downloads : ToldOnce(d)'
    BY <1>1, NoVerdict
  <1>7. \A kind : /\ InOne(v5, v6, v7, kind) =>
                       /\ InOne(v5', v6', v7', kind)
                       /\ m.kind = kind => InNone(v5', v6', v7', kind)
                  /\ m.kind # kind => (InNone(v5, v6, v7, kind) <=> InNone(v5', v6', v7', kind))
                  /\ InNone(v5, v6, v7, kind) => m.kind # kind /\ InNone(v5', v6', v7', kind)
    BY ONLY <1>1, <1>4 DEF InOne, InNone
  <1>8. OfItsFile'
    BY ONLY <1>1, <1>2 DEF OfItsFile, Files!Idle
  <1>9. /\ InOne(v5, v6, v7, "get") /\ Numbered(v5, v13) /\ Numbered(v6, v13)
        /\ Numbered(v7, v13) /\ (v8 # 0 => v8 = v13)
        /\ Whole(v10, v13) /\ (Ended(v10) => v8 = 0)
        /\ ~InNone(v5, v6, v7, "get") => v8 = 0 /\ Silent(v10)
        /\ v1 = Files!Idle /\ v2 = 0 => InNone(v5, v6, v7, "get") /\ v8 = 0 /\ Silent(v10)
        /\ Silent(v10) => ~Ended(v10)
    BY ONLY <1>2, SilentIs DEF OneFile
  <1>10. CASE v10' = v10 /\ m.kind \in {"get", "cancel", "put", "putcancel"}
    <2>1. v8' \in Nat /\ ((m.kind = "get" /\ v8' = m.req) \/ v8' = v8 \/ v8' = 0)
      BY ONLY <1>2, <1>3, <1>5, <1>10
    <2>2. v8' # v8 /\ v8' # 0 => m.kind = "get" /\ v8' = v13
      BY ONLY <1>4, <1>9, <2>1
    <2>3. FileTyped'
      BY ONLY Zenon, <1>1, <1>2, <1>4, <1>10, <2>1 DEF FileTyped, Files!Downloads
    <2>4. OneFile'
      <3>1. m.kind # "get" => v8' = v8 \/ v8' = 0
        BY ONLY <2>1
      <3> QED BY ONLY <1>1, <1>4, <1>7, <1>9, <1>10, <2>2, <3>1 DEF OneFile, Files!Idle
    <2>5. OneList'
      BY ONLY <1>1, <1>2, <1>4, <1>7, <1>10 DEF OneList
    <2> QED BY ONLY <1>6, <1>8, <2>3, <2>4, <2>5 DEF FileInv, Files!Downloads
  <1>11. CASE /\ m.kind = "cancel" /\ v8' = 0 /\ v8 # 0
              /\ \E kind \in {"failed", "end"} : v10' = Append(v10, Files!Say(kind, v8))
    <2>1. PICK a \in FileAnswers : /\ v10' = Append(v10, a) /\ a.req = v8
                                   /\ a.kind \in {"failed", "end"}
      <3>1. PICK kind \in {"failed", "end"} : v10' = Append(v10, Files!Say(kind, v8))
        BY ONLY <1>11
      <3>2. \A k \in {"failed", "end"} : \A n \in Nat :
              /\ Files!Say(k, n) \in FileAnswers
              /\ Files!Say(k, n).kind = k /\ Files!Say(k, n).req = n
        BY ONLY FileMessages
      <3> QED BY ONLY <1>2, kind \in {"failed", "end"}, <3>1, <3>2
    <2>2. /\ v10' \in Seq(FileAnswers)
          /\ Has(v10', "listed") <=> Has(v10, "listed")
          /\ Once(v10, "listed") => Once(v10', "listed")
          /\ Whole(v10, v13) /\ a.req = v13 /\ ~Ended(v10) => Whole(v10', v13)
      BY ONLY <1>2, <2>1, AnswerSent
    <2>3. FileTyped'
      BY ONLY Zenon, <1>1, <1>2, <1>4, <1>11, <2>2 DEF FileTyped, Files!Downloads
    <2>4. OneFile'
      BY ONLY <1>1, <1>4, <1>7, <1>9, <1>11, <2>1, <2>2 DEF OneFile, Files!Idle
    <2>5. OneList'
      BY ONLY <1>1, <1>2, <1>4, <1>7, <1>11, <2>2 DEF OneList
    <2> QED BY ONLY <1>6, <1>8, <2>3, <2>4, <2>5 DEF FileInv, Files!Downloads
  <1>12. CASE m.kind = "list" /\ v10' = Append(v10, Files!Say("listed", 0)) /\ v8' = v8
    <2>1. PICK a \in FileAnswers : v10' = Append(v10, a) /\ a.kind = "listed"
      <3>1. Files!Say("listed", 0) \in FileAnswers /\ Files!Say("listed", 0).kind = "listed"
        BY Zenon, FileMessages
      <3> QED BY ONLY <1>12, <3>1
    <2>2. /\ v10' \in Seq(FileAnswers) /\ ~Data(a) /\ ~Last(a)
          /\ Once(v10, "listed") /\ ~Has(v10, "listed") => Once(v10', "listed")
          /\ Silent(v10) => Silent(v10')
          /\ Ended(v10') <=> Ended(v10)
          /\ Whole(v10, v13) => Whole(v10', v13)
      <3>1. ~Data(a) /\ ~Last(a)
        BY ONLY <2>1 DEF Data, Last
      <3> QED BY ONLY <1>2, <2>1, <3>1, AnswerSent
    <2>3. FileTyped'
      BY ONLY Zenon, <1>1, <1>2, <1>4, <1>12, <2>2 DEF FileTyped, Files!Downloads
    <2>4. OneFile'
      BY ONLY <1>1, <1>4, <1>7, <1>9, <1>12, <2>2 DEF OneFile, Files!Idle
    <2>5. OneList'
      <3>1. ~InNone(v5, v6, v7, "list") /\ InNone(v5', v6', v7', "list")
            /\ InOne(v5', v6', v7', "list")
        BY ONLY <1>2, <1>7, <1>12 DEF OneList
      <3>2. v3 /\ ~Has(v10, "listed") /\ Once(v10, "listed")
        BY ONLY <1>2, <3>1 DEF OneList
      <3> QED BY ONLY <1>1, <2>2, <3>1, <3>2 DEF OneList
    <2> QED BY ONLY <1>6, <1>8, <2>3, <2>4, <2>5 DEF FileInv, Files!Downloads
  <1> QED BY ONLY <1>3, <1>10, <1>11, <1>12

\* What is known when the first of the stream is part of a file.
LEMMA DataRead ==
    ASSUME FileTyped, OneFile, OneList, v10 # <<>>, Data(Head(v10))
    PROVE  /\ Tail(v10) \in Seq(FileAnswers) /\ Head(v10).req = v13
           /\ InNone(v5, v6, v7, "get") /\ ~(v1 = Files!Idle /\ v2 = 0)
           /\ Whole(Tail(v10), v13) /\ (Ended(Tail(v10)) => v8 = 0)
           /\ Last(Head(v10)) => v8 = 0 /\ Silent(Tail(v10))
           /\ Once(Tail(v10), "listed") /\ (Has(Tail(v10), "listed") => Has(v10, "listed"))
  <1> DEFINE t == Tail(v10)
             h == Head(v10)
  <1>1. v10 \in Seq(FileAnswers)
    BY DEF FileTyped
  <1>2. /\ t \in Seq(FileAnswers)
        /\ Has(v10, "listed") <=> h.kind = "listed" \/ Has(t, "listed")
        /\ Once(v10, "listed") => Once(t, "listed")
        /\ Silent(v10) => ~Data(h)
        /\ Ended(t) => Ended(v10)
        /\ Last(h) => Ended(v10)
        /\ \A n : Whole(v10, n) => /\ Whole(t, n)
                                   /\ Data(h) => h.req = n
                                   /\ Last(h) => Silent(t)
    BY <1>1, AnswerTakenFrom
  <1>3. Data(h) /\ OneFile /\ OneList
    OBVIOUS
  <1> HIDE DEF t, h
  <1> QED BY ONLY <1>2, <1>3 DEF OneFile, OneList, t, h

LEMMA DownloadSettles ==
    ASSUME BoundsAssumption, FileInv, v1 # Files!Idle, v1' = Files!Idle, Files!Tell(v1.id),
           v5' = v5, v12' = v12, v14' = v14, v11' = v11
    PROVE  /\ v15' \in [Files!Downloads -> Nat] /\ AtHand' /\ OfItsFile'
           /\ v1' \in [id : Nat, left : Nat, req : Nat, got : 0 .. FileChunks, from : SUBSET Nat]
           /\ \A d \in Files!Downloads : ToldOnce(d)'
  <1>1. /\ AtHand /\ v1.id # 0 /\ v1.id \in 1 .. v12.downloads /\ v12.downloads \in Nat
        /\ ~Has(v5, "cancel")
        /\ v15 \in [Files!Downloads -> Nat]
    BY Zenon, FileIs DEF OfItsFile, FileTyped
  <1>2. \A d : ~Cancels(v5, d)
    BY ONLY <1>1, NoCancel
  <1>3. v15' = [v15 EXCEPT ![v1.id] = @ + 1]
    BY DEF Files!Tell
  <1>4. /\ v15' \in [Files!Downloads -> Nat]
        /\ \A e \in Files!Downloads : v15'[e] = IF e = v1.id THEN v15[e] + 1 ELSE v15[e]
    BY ONLY <1>1, <1>3, TellAdds
  <1>5. AtHand' /\ OfItsFile'
    BY <1>1 DEF AtHand, OfItsFile, Files!Idle
  <1>6. Files!Idle.id = 0 /\ v1' \in [id : Nat, left : Nat, req : Nat, got : 0 .. FileChunks,
                                      from : SUBSET Nat]
    BY FileBounds DEF Files!Idle
  <1>7. ASSUME NEW d \in Files!Downloads PROVE ToldOnce(d)'
    <2>1. ToldOnce(d) /\ d \in Nat \ {0} /\ ~Cancels(v5, d)
      BY <1>2, FileIs
    <2>2. v15'[d] = IF d = v1.id THEN v15[d] + 1 ELSE v15[d]
      BY ONLY <1>4, <1>7
    <2>3. v1'.id = 0
      BY ONLY v1' = Files!Idle, <1>6
    <2>4. v5' = v5 /\ v12' = v12 /\ v14' = v14 /\ v11' = v11
      OBVIOUS
    <2> QED BY ONLY <1>1, <2>1, <2>2, <2>3, <2>4 DEF ToldOnce, Unsettled
  <1> QED BY ONLY <1>4, <1>5, <1>6, <1>7

LEMMA CancelWritten ==
    ASSUME NEW q \in Seq(FileAsks)
    PROVE  LET t == Append(q, Files!Ask("cancel")) IN
           /\ t \in Seq(FileAsks)
           /\ \A kind \in {"get", "list"} : /\ Has(t, kind) <=> Has(q, kind)
                                            /\ Once(q, kind) => Once(t, kind)
           /\ \A n : Numbered(q, n) => Numbered(t, n)
  <1>1. PICK m \in FileAsks : m = Files!Ask("cancel") /\ m.kind = "cancel"
    BY FileMessages
  <1> QED BY <1>1, AskSent

LEMMA GetWritten ==
    ASSUME NEW q \in Seq(FileAsks), NEW r \in Nat, ~Has(q, "get")
    PROVE  LET t == Append(q, Files!Get(r)) IN
           /\ t \in Seq(FileAsks) /\ Once(t, "get") /\ Numbered(t, r)
           /\ Has(t, "list") <=> Has(q, "list")
           /\ Once(q, "list") => Once(t, "list")
  <1>1. PICK m \in FileAsks : m = Files!Get(r) /\ m.kind = "get" /\ m.req = r
    BY FileMessages
  <1>2. Once(q, "get") /\ Numbered(q, r)
    BY NoGet
  <1> QED BY <1>1, <1>2, AskSent

LEMMA ReadDownloadKeepsFiles ==
    ASSUME BoundsAssumption, FileInv, Files!ReadDownload
    PROVE  FileInv'
  <1> DEFINE h == Head(v10)
  <1>1. /\ v11 = "up" /\ v10 # <<>> /\ v10' = Tail(v10) /\ v3' = v3 /\ v5' = v5 /\ v6' = v6
        /\ v8' = v8 /\ v12' = v12 /\ v14' = v14
    BY DEF Files!ReadDownload, Files!Up, Files!serverVars
  <1>2. \/ h.kind = "chunk" /\ Files!ReadChunk(h.req)
        \/ h.kind = "end" /\ Files!ReadEnd
        \/ h.kind = "failed" /\ Files!ReadFailed
    BY DEF Files!ReadDownload
  <1>3. /\ FileTyped /\ AtHand /\ OfItsFile /\ OneFile /\ OneList /\ Files!FilesIntact
        /\ v2 \in Nat /\ v8 \in Nat /\ v13 \in Nat /\ v7 \in Seq(FileAsks)
        /\ FileChunks \in Nat \ {0}
    BY Zenon, FileIs DEF FileTyped
  <1>4. /\ v10' \in Seq(FileAnswers) /\ h.req = v13
        /\ InNone(v5, v6, v7, "get") /\ ~(v1 = Files!Idle /\ v2 = 0)
        /\ Whole(v10', v13) /\ (Ended(v10') => v8 = 0)
        /\ Last(h) => v8 = 0 /\ Silent(v10')
        /\ Once(v10', "listed") /\ (Has(v10', "listed") => Has(v10, "listed"))
    <2>1. Data(h)
      BY ONLY <1>2 DEF Data
    <2> QED BY <1>1, <1>3, <2>1, DataRead
  <1>5. h.kind \in {"end", "failed"} => Last(h)
    BY DEF Last
  <1> DEFINE Kept == v1' = v1 /\ v7' = v7 /\ v13' = v13 /\ v15' = v15 /\ v16' = v16
             Failing == /\ v2 = 0 /\ v1 # Files!Idle /\ v2' = v1.id /\ v1' = Files!Idle
                        /\ v7' = Append(v7, Files!Ask("cancel")) /\ Files!Tell(v1.id)
                        /\ v13' = v13 /\ v16' = v16 /\ v11' = v11
             Over == /\ v2 = 0 /\ v2' = 0 /\ v1 # Files!Idle /\ v1' = Files!Idle
                     /\ Files!Tell(v1.id) /\ v7' = v7 /\ v13' = v13 /\ v11' = v11
             Following == /\ v2 = 0 /\ v2' = 0 /\ v1 # Files!Idle /\ v1.left > 0
                          /\ Files!StartNext(v1.id, v1.left)
                          /\ v7' = Append(v7, Files!Get(v13')) /\ v15' = v15 /\ v11' = v11
             Saving == \/ v16' = v16
                       \/ /\ v1.got = FileChunks
                          /\ v16' = v16 \cup {[req |-> v1.req, from |-> v1.from, got |-> v1.got]}
             Stored == /\ v2 = 0 /\ v2' = 0 /\ v1 # Files!Idle /\ v1.got < FileChunks
                       /\ v1' = [v1 EXCEPT !.got = @ + 1, !.from = @ \cup {h.req}]
                       /\ v7' = v7 /\ v13' = v13 /\ v15' = v15 /\ v16' = v16 /\ v11' = v11
  <1>6. \/ Kept /\ v2 # 0 /\ v11' = v11 /\ (v2' = v2 \/ (v2' = 0 /\ h.kind # "chunk"))
        \/ Kept /\ v2 = 0 /\ v2' = 0 /\ v1 # Files!Idle /\ v11' = "local"
        \/ Stored
        \/ Failing
        \/ h.kind = "end" /\ Following /\ Saving
        \/ Over /\ Saving /\ h.kind # "chunk"
        \/ v2 = 0 /\ v1 = Files!Idle
    <2> USE DEF Files!Disconnect, Files!Fail
    <2>1. CASE h.kind = "chunk" /\ Files!ReadChunk(h.req)
      <3> HIDE DEF h
      <3>1. \/ v2 # 0 /\ Kept /\ v2' = v2 /\ v11' = v11
            \/ v2 = 0 /\ v1 = Files!Idle
            \/ /\ v2 = 0 /\ v1 # Files!Idle /\ v1.got < FileChunks
               /\ v1' = [v1 EXCEPT !.got = @ + 1, !.from = @ \cup {h.req}]
               /\ v2' = v2 /\ v7' = v7 /\ v13' = v13 /\ v15' = v15 /\ v16' = v16 /\ v11' = v11
            \/ v2 = 0 /\ v1 # Files!Idle /\ Files!Fail
        BY ONLY <2>1, Zenon DEF Files!ReadChunk
      <3>2. v2 = 0 /\ v1 # Files!Idle /\ Files!Fail => Failing
        BY ONLY DEF Files!Fail
      <3>3. CASE v2 # 0 /\ Kept /\ v2' = v2 /\ v11' = v11
        <4> HIDE DEF Kept, Failing, Stored, Following, Over, Saving
        <4> QED BY ONLY <3>3
      <3>4. CASE /\ v2 = 0 /\ v1 # Files!Idle /\ v1.got < FileChunks
                 /\ v1' = [v1 EXCEPT !.got = @ + 1, !.from = @ \cup {h.req}]
                 /\ v2' = v2 /\ v7' = v7 /\ v13' = v13 /\ v15' = v15 /\ v16' = v16
                 /\ v11' = v11
        <4>1. Stored
          BY ONLY <3>4
        <4> QED BY ONLY <4>1
      <3>5. CASE v2 = 0 /\ v1 # Files!Idle /\ Files!Fail
        <4>1. Failing
          BY ONLY <3>2, <3>5
        <4> QED BY ONLY <4>1
      <3>6. CASE v2 = 0 /\ v1 = Files!Idle
        BY ONLY <3>6
      <3> QED BY ONLY <3>1, <3>3, <3>4, <3>5, <3>6
    <2>2. CASE h.kind = "end" /\ Files!ReadEnd
      <3> HIDE DEF h
      <3>1. Files!FinishFile /\ v1.got = FileChunks /\ v2 = 0 /\ v1 # Files!Idle
              => (Following \/ Over) /\ Saving
        BY ONLY <2>2 DEF Files!FinishFile, Files!Persist
      <3> HIDE DEF Following, Over, Saving
      <3> QED BY ONLY <2>2, <3>1 DEF Files!ReadEnd, Files!CannotStartNext
    <2>3. CASE h.kind = "failed" /\ Files!ReadFailed
      <3> HIDE DEF h
      <3> QED BY ONLY <2>3 DEF Files!ReadFailed
    <2> QED BY ONLY <1>2, <2>1, <2>2, <2>3
  <1>7. h.kind \in {"chunk", "end", "failed"}
    BY ONLY <1>2
  <1> HIDE DEF h, Following, Over, Saving, Stored, Failing
  <1>8. OneList /\ v7' \in Seq(FileAsks) /\ (Has(v7', "list") <=> Has(v7, "list"))
          /\ (Once(v7, "list") => Once(v7', "list")) => OneList'
    BY ONLY <1>1, <1>4 DEF OneList, InOne, InNone
  <1>9. ASSUME Saving PROVE Files!FilesIntact'
    <2>1. v1.got = FileChunks => v1.from = {v13} /\ v1.req = v13
      BY ONLY <1>3 DEF OfItsFile, Files!Idle
    <2> QED BY ONLY <1>3, <1>9, <2>1 DEF Saving, Files!FilesIntact
  <1>10. CASE Kept /\ v2 # 0 /\ v11' = v11 /\ (v2' = v2 \/ (v2' = 0 /\ h.kind # "chunk"))
    <2>1. /\ AtHand' /\ v11' # "protocol" /\ Files!FilesIntact'
          /\ \A d \in Files!Downloads : ToldOnce(d)'
      BY <1>1, <1>10, NoVerdict
    <2>2. v1 = Files!Idle
      BY ONLY <1>3, <1>10 DEF OfItsFile
    <2>3. FileTyped' /\ OfItsFile'
      BY ONLY <1>1, <1>3, <1>4, <1>10, <2>2 DEF FileTyped, OfItsFile, Files!Idle,
         Files!Downloads
    <2>4. OneFile'
      BY ONLY <1>1, <1>3, <1>4, <1>5, <1>7, <1>10 DEF OneFile, Files!Idle
    <2>5. OneList'
      BY ONLY <1>1, <1>3, <1>8, <1>10
    <2> QED BY ONLY <2>1, <2>3, <2>4, <2>5 DEF FileInv, Files!Downloads
  <1>11. CASE Kept /\ v2 = 0 /\ v2' = 0 /\ v1 # Files!Idle /\ v11' = "local"
    <2>1. /\ AtHand' /\ v11' # "protocol" /\ Files!FilesIntact'
          /\ \A d \in Files!Downloads : ToldOnce(d)'
      BY <1>1, <1>11, NoVerdict
    <2>2. FileTyped' /\ OfItsFile'
      BY ONLY Zenon, <1>1, <1>3, <1>4, <1>11 DEF FileTyped, OfItsFile, Files!Idle,
         Files!Downloads
    <2>3. OneFile'
      BY ONLY <1>1, <1>3, <1>4, <1>11 DEF OneFile, Files!Idle
    <2>4. OneList'
      BY ONLY <1>1, <1>3, <1>8, <1>11
    <2> QED BY ONLY <2>1, <2>2, <2>3, <2>4 DEF FileInv, Files!Downloads
  <1>12. CASE Stored
    <2> USE DEF Stored
    <2>1. /\ v1.id # 0 /\ v1.id \in 1 .. v12.downloads /\ v1.req = v13
          /\ v1.from \subseteq {v13}
          /\ v1 \in [id : Nat, left : Nat, req : Nat, got : 0 .. FileChunks, from : SUBSET Nat]
          /\ ~Has(v5, "cancel")
      BY Zenon, <1>3, <1>12, FileIs DEF OfItsFile, FileTyped
    <2>2. v1' = [v1 EXCEPT !.got = v1.got + 1, !.from = v1.from \cup {v13}]
      BY ONLY <1>4, <1>12
    <2>3. /\ v1' \in [id : Nat, left : Nat, req : Nat, got : 0 .. FileChunks, from : SUBSET Nat]
          /\ v1'.id = v1.id /\ v1'.req = v13 /\ v1'.from = {v13}
      <3>1. v1.from \cup {v13} = {v13} /\ {v13} \in SUBSET Nat
        BY ONLY <1>3, <2>1
      <3>2. v1.got + 1 \in 0 .. FileChunks
        BY ONLY <1>3, <1>12, <2>1
      <3> HIDE DEF Stored
      <3> QED BY ONLY Zenon, <2>1, <2>2, <3>1, <3>2
    <2>4. v1' # Files!Idle
      BY <2>1, <2>3 DEF Files!Idle
    <2>5. FileTyped'
      BY ONLY Zenon, <1>1, <1>3, <1>4, <1>12, <2>3 DEF FileTyped, Files!Downloads
    <2>6. OfItsFile' /\ AtHand'
      BY ONLY Zenon, <1>1, <1>3, <1>12, <2>1, <2>3 DEF OfItsFile, AtHand
    <2>7. OneFile'
      BY ONLY <1>1, <1>3, <1>4, <1>12, <2>4 DEF OneFile, Files!Idle
    <2>8. OneList'
      BY ONLY <1>1, <1>3, <1>8, <1>12
    <2>9. ASSUME NEW d \in Files!Downloads PROVE ToldOnce(d)'
      <3>1. ToldOnce(d)
        BY FileIs
      <3> QED BY ONLY <1>1, <1>12, <2>3, <3>1 DEF ToldOnce, Unsettled
    <2>10. v11' # "protocol" /\ Files!FilesIntact'
      BY ONLY <1>1, <1>3, <1>12 DEF Files!FilesIntact
    <2> QED BY ONLY <2>5, <2>6, <2>7, <2>8, <2>9, <2>10 DEF FileInv, Files!Downloads
  <1>13. CASE Failing
    <2>1. /\ v15' \in [Files!Downloads -> Nat] /\ AtHand' /\ OfItsFile'
          /\ v1' \in [id : Nat, left : Nat, req : Nat, got : 0 .. FileChunks, from : SUBSET Nat]
          /\ \A d \in Files!Downloads : ToldOnce(d)'
      BY Zenon, <1>1, <1>13, DownloadSettles DEF Failing
    <2>2. /\ v7' \in Seq(FileAsks)
          /\ \A kind \in {"get", "list"} : /\ Has(v7', kind) <=> Has(v7, kind)
                                           /\ Once(v7, kind) => Once(v7', kind)
          /\ Numbered(v7, v13) => Numbered(v7', v13)
      BY ONLY <1>3, <1>13, CancelWritten DEF Failing
    <2>3. v2' # 0 /\ v2' \in Nat
      BY Zenon, <1>13, FileIs DEF Failing, OfItsFile, FileTyped
    <2>4. FileTyped'
      BY ONLY Zenon, <1>1, <1>3, <1>4, <1>13, <2>1, <2>2, <2>3 DEF FileTyped, Files!Downloads,
         Failing
    <2>5. OneFile'
      BY ONLY <1>1, <1>3, <1>4, <1>13, <2>2, <2>3 DEF OneFile, InOne, InNone, Failing
    <2>6. OneList'
      BY ONLY <1>3, <1>8, <2>2
    <2>7. v11' # "protocol" /\ Files!FilesIntact'
      BY ONLY <1>1, <1>3, <1>13 DEF Files!FilesIntact, Failing
    <2> QED BY ONLY <2>1, <2>4, <2>5, <2>6, <2>7 DEF FileInv, Files!Downloads
  <1>14. CASE h.kind = "end" /\ Following /\ Saving
    <2>1. /\ v1.id # 0 /\ v1.id \in 1 .. v12.downloads /\ v1.id \in Nat /\ v1.left \in Nat \ {0}
          /\ ~Has(v5, "cancel")
      <3>1. v1.left \in Nat /\ v1.id \in Nat /\ v1.left > 0
        BY ONLY <1>3, <1>14 DEF FileTyped, Following
      <3>2. v1.id # 0 /\ v1.id \in 1 .. v12.downloads /\ ~Has(v5, "cancel")
        BY Zenon, <1>3, <1>14, FileIs DEF OfItsFile, Following
      <3> QED BY ONLY <3>1, <3>2
    <2>2. /\ v13' = v13 + 1 /\ v13' \in Nat
          /\ v1' \in [id : Nat, left : Nat, req : Nat, got : 0 .. FileChunks, from : SUBSET Nat]
          /\ v1'.id = v1.id /\ v1'.req = v13' /\ v1'.got = 0 /\ v1'.from = {}
      <3>1. Files!StartNext(v1.id, v1.left)
        BY ONLY <1>14 DEF Following
      <3> QED BY Zenon, <1>3, <2>1, <3>1, StartNextIs
    <2>3. ~Has(v5, "get") /\ ~Has(v6, "get") /\ ~Has(v7, "get")
      BY ONLY <1>4 DEF InNone
    <2>4. /\ v7' \in Seq(FileAsks) /\ Once(v7', "get") /\ Numbered(v7', v13')
          /\ Has(v7', "list") <=> Has(v7, "list")
          /\ Once(v7, "list") => Once(v7', "list")
      BY ONLY <1>3, <1>14, <2>2, <2>3, GetWritten DEF Following
    <2>5. /\ v8 = 0 /\ Silent(v10') /\ Whole(v10', v13') /\ ~Ended(v10')
          /\ Once(v5, "get") /\ Once(v6, "get")
          /\ Numbered(v5, v13') /\ Numbered(v6, v13')
      BY ONLY <1>4, <1>5, <1>14, <2>3, NoGet, SilentIs
    <2>6. v1' # Files!Idle
      BY <2>1, <2>2 DEF Files!Idle
    <2>7. v2' = 0 /\ v15' = v15 /\ v11' = v11
      BY ONLY <1>14 DEF Following
    <2>8. FileTyped'
      BY ONLY Zenon, <1>1, <1>3, <1>4, <2>2, <2>4, <2>7 DEF FileTyped, Files!Downloads
    <2>9. OfItsFile' /\ AtHand'
      BY ONLY <1>1, <1>3, <2>1, <2>2, <2>7 DEF OfItsFile, AtHand
    <2>10. OneFile'
      BY ONLY <1>1, <2>3, <2>4, <2>5, <2>6 DEF OneFile, InOne, Files!Idle
    <2>11. OneList'
      BY ONLY <1>3, <1>8, <2>4
    <2>12. ASSUME NEW d \in Files!Downloads PROVE ToldOnce(d)'
      <3>1. ToldOnce(d)
        BY FileIs
      <3> QED BY ONLY <1>1, <2>2, <2>7, <3>1 DEF ToldOnce, Unsettled
    <2>13. v11' # "protocol" /\ Files!FilesIntact'
      BY ONLY <1>1, <1>9, <1>14, <2>7
    <2> QED BY ONLY <2>8, <2>9, <2>10, <2>11, <2>12, <2>13 DEF FileInv, Files!Downloads
  <1>15. CASE Over /\ Saving /\ h.kind # "chunk"
    <2>1. /\ v15' \in [Files!Downloads -> Nat] /\ AtHand' /\ OfItsFile'
          /\ v1' \in [id : Nat, left : Nat, req : Nat, got : 0 .. FileChunks, from : SUBSET Nat]
          /\ \A d \in Files!Downloads : ToldOnce(d)'
      BY Zenon, <1>1, <1>15, DownloadSettles DEF Over
    <2>2. v2' = 0 /\ v7' = v7 /\ v13' = v13 /\ v11' = v11
      BY ONLY <1>15 DEF Over
    <2>3. v8 = 0 /\ Silent(v10')
      BY ONLY <1>4, <1>5, <1>7, <1>15
    <2>4. FileTyped'
      BY ONLY Zenon, <1>1, <1>3, <1>4, <2>1, <2>2 DEF FileTyped, Files!Downloads
    <2>5. OneFile'
      BY ONLY <1>1, <1>3, <1>4, <2>2, <2>3 DEF OneFile, Files!Idle
    <2>6. OneList'
      BY ONLY <1>3, <1>8, <2>2
    <2>7. v11' # "protocol" /\ Files!FilesIntact'
      BY ONLY <1>1, <1>9, <1>15, <2>2
    <2> QED BY ONLY <2>1, <2>4, <2>5, <2>6, <2>7 DEF FileInv, Files!Downloads
  <1>16. CASE v2 = 0 /\ v1 = Files!Idle
    BY ONLY <1>4, <1>16
  <1> QED BY ONLY <1>6, <1>10, <1>11, <1>12, <1>13, <1>14, <1>15, <1>16

LEMMA FileStep ==
    ASSUME BoundsAssumption, FileInv, Files!Next
    PROVE  FileInv'
  BY StartDownloadKeepsFiles, CancelDownloadKeepsFiles, OtherRequestsKeepFiles,
     DispatchKeepsFiles, DrainKeepsFiles, ReadDownloadKeepsFiles, OtherAnswersKeepFiles,
     ServerTakesKeepsFiles, ServerSendsKeepsFiles
     DEF Files!Next, Files!Session, Files!Owner, Files!Server

LEMMA FileHolds ==
    ASSUME BoundsAssumption, FileInv
    PROVE  Files!FilesIntact /\ Files!OneVerdict /\ Files!NoFalseAlarm
  <1>1. /\ Files!FilesIntact /\ v11 # "protocol" /\ v12.downloads \in Nat
        /\ v15 \in [Files!Downloads -> Nat]
        /\ v1 = Files!Idle \/ v1.id \in 1 .. v12.downloads
    BY Zenon, FileIs DEF FileTyped, OfItsFile
  <1>2. ASSUME NEW d \in Files!Downloads, d \notin v14
        PROVE  /\ v15[d] <= 1
               /\ v15[d] = 1 => v1.id # d
               /\ v11 = "up" /\ d <= v12.downloads /\ v1.id # d /\ v5 = <<>> => v15[d] = 1
    <2>1. ToldOnce(d) /\ d \in Nat \ {0} /\ v15[d] \in Nat
      BY <1>1, FileIs
    <2>2. v5 = <<>> => ~Cancels(v5, d)
      BY NoAsk
    <2> QED BY ONLY <1>1, <1>2, <2>1, <2>2 DEF ToldOnce, Unsettled
  <1>3. Files!OneVerdict
    BY ONLY <1>2 DEF Files!OneVerdict, Files!Up
  <1> QED BY ONLY <1>1, <1>3 DEF Files!NoFalseAlarm

-----------------------------------------------------------------------------
(* The parts together.                                                       *)

PartsInv ==
    /\ part = "resize" => ResizeInv
    /\ part = "layouts" => LayoutInv
    /\ part = "framebuffer" => FrameInv
    /\ part = "continuous" => ContInv
    /\ part = "clipboard" => ClipInv
    /\ part = "decode" => DecodeInv
    /\ part = "files" => FileInv

LEMMA PartsStart == BoundsAssumption /\ Init => PartsInv
  <1> SUFFICES ASSUME BoundsAssumption, Init PROVE PartsInv
    OBVIOUS
  <1>1. SizeBounds
    BY DEF BoundsAssumption, SizeBounds
  <1>2. CASE part = "resize"
    <2>1. Resize!Init
      BY <1>2 DEF Init
    <2> QED BY <1>1, <1>2, <2>1, ResizeStart DEF PartsInv
  <1>3. CASE part = "framebuffer"
    <2>1. Framebuffer!Init
      BY <1>3 DEF Init
    <2> QED BY <1>3, <2>1, FrameStart DEF PartsInv
  <1>4. CASE part = "continuous"
    <2>1. Continuous!Init
      BY <1>4 DEF Init
    <2> QED BY <1>4, <2>1, ContStart DEF PartsInv
  <1>5. CASE part = "clipboard"
    <2>1. Clipboard!Init
      BY <1>5 DEF Init
    <2> QED BY <1>5, <2>1, ClipStart DEF PartsInv
  <1>6. CASE part = "decode"
    <2>1. Decode!Init
      BY <1>6 DEF Init
    <2> QED BY <1>6, <2>1, DecodeStart DEF PartsInv
  <1>7. CASE part = "layouts"
    <2>1. Layouts!Init
      BY <1>7 DEF Init
    <2> QED BY <1>7, <2>1, LayoutStart DEF PartsInv
  <1>8. CASE part = "files"
    <2>1. Files!Init
      BY <1>8 DEF Init
    <2> QED BY <1>8, <2>1, FileStart DEF PartsInv
  <1> QED BY <1>2, <1>3, <1>4, <1>5, <1>6, <1>7, <1>8 DEF PartsInv

LEMMA PartsStep == BoundsAssumption /\ PartsInv /\ Next => PartsInv'
  <1> SUFFICES ASSUME BoundsAssumption, PartsInv, Next PROVE PartsInv'
    OBVIOUS
  <1>1. part' = part
    BY DEF Next
  <1>2. CASE part = "resize"
    <2>1. Resize!Next /\ ResizeInv
      BY <1>2 DEF Next, PartsInv
    <2> QED BY <1>1, <1>2, <2>1, ResizeSteps DEF PartsInv
  <1>3. CASE part = "framebuffer"
    <2>1. Framebuffer!Next /\ FrameInv
      BY <1>3 DEF Next, PartsInv
    <2> QED BY <1>1, <1>3, <2>1, FrameSteps DEF PartsInv
  <1>4. CASE part = "continuous"
    <2>1. Continuous!Next /\ ContInv
      BY <1>4 DEF Next, PartsInv
    <2> QED BY <1>1, <1>4, <2>1, ContSteps DEF PartsInv
  <1>5. CASE part = "clipboard"
    <2>1. Clipboard!Next /\ ClipInv
      BY <1>5 DEF Next, PartsInv
    <2> QED BY <1>1, <1>5, <2>1, ClipSteps DEF PartsInv
  <1>6. CASE part = "decode"
    <2>1. Decode!Next /\ DecodeInv
      BY <1>6 DEF Next, PartsInv
    <2> QED BY <1>1, <1>6, <2>1, DecodeSteps DEF PartsInv
  <1>7. CASE part = "layouts"
    <2>1. Layouts!Next /\ LayoutInv
      BY <1>7 DEF Next, PartsInv
    <2> QED BY <1>1, <1>7, <2>1, LayoutSteps DEF PartsInv
  <1>8. CASE part = "files"
    <2>1. Files!Next /\ FileInv
      BY <1>8 DEF Next, PartsInv
    <2> QED BY <1>1, <1>8, <2>1, FileStep DEF PartsInv
  <1> QED BY <1>1, <1>2, <1>3, <1>4, <1>5, <1>6, <1>7, <1>8 DEF PartsInv

LEMMA PartsStutter == PartsInv /\ UNCHANGED vars => PartsInv'
  <1> SUFFICES ASSUME PartsInv, UNCHANGED vars PROVE PartsInv'
    OBVIOUS
  <1>1. /\ part' = part /\ v1' = v1 /\ v2' = v2 /\ v3' = v3 /\ v4' = v4 /\ v5' = v5 /\ v6' = v6
        /\ v7' = v7 /\ v8' = v8 /\ v9' = v9 /\ v10' = v10 /\ v11' = v11 /\ v12' = v12
        /\ v13' = v13 /\ v14' = v14 /\ v15' = v15 /\ v16' = v16
    BY DEF vars, after2, after6, after7, after10, after11, after12, after13
  <1>2. ResizeInv => ResizeInv'
    BY ONLY <1>1 DEF ResizeInv, SizeBounds, Resize!TypeOK, Resize!Layouts, ChosenSoFar, Single,
       Resize!NewestKept, Resize!NothingStranded, ScreenOnItsWay
  <1>3. FrameInv => FrameInv'
    BY ONLY <1>1 DEF FrameInv
  <1>4. ContInv => ContInv'
    BY ONLY <1>1 DEF ContInv, Continuous!TypeOK
  <1>5. ClipInv => ClipInv'
    BY ONLY <1>1 DEF ClipInv, Clipboard!TypeOK, Negotiated, Proper, ServerWillHave,
       HostWillHave,
       Offered, Told
  <1>6. DecodeInv => DecodeInv'
    BY ONLY <1>1 DEF DecodeInv, Decode!TypeOK, Decode!InStep, Decode!RefusedAtLimit
  <1>7. LayoutInv => LayoutInv'
    BY ONLY <1>1 DEF LayoutInv
  <1>8. FileInv => FileInv'
    BY ONLY Zenon, <1>1 DEF FileInv, FileTyped, AtHand, OfItsFile, OneFile, OneList, ToldOnce,
       Unsettled, Files!FilesIntact, Files!Downloads, Files!Idle
  <1> QED BY <1>1, <1>2, <1>3, <1>4, <1>5, <1>6, <1>7, <1>8 DEF PartsInv

LEMMA PartsHold == BoundsAssumption /\ PartsInv =>
                     /\ DesktopSized /\ NothingMissed /\ DecodersInStep
                     /\ ClipboardsAgree /\ FilesKept
  <1> SUFFICES ASSUME BoundsAssumption, PartsInv
               PROVE  /\ DesktopSized /\ NothingMissed /\ DecodersInStep
                      /\ ClipboardsAgree /\ FilesKept
    OBVIOUS
  <1>1. NothingMissed
    <2>1. part = "framebuffer" => Framebuffer!NothingMissed
      BY FrameHolds DEF PartsInv
    <2>2. part = "continuous" => Continuous!AlwaysAsked /\ Continuous!FencesInOrder
      BY ContHolds DEF PartsInv
    <2> QED BY <2>1, <2>2 DEF NothingMissed
  <1>2. DecodersInStep
    BY DEF PartsInv, DecodeInv, DecodersInStep
  <1>3. ClipboardsAgree
    BY ClipHolds DEF PartsInv, ClipboardsAgree
  <1>4. DesktopSized
    <2>1. part = "resize" => /\ Resize!OneRequest /\ Resize!NewestKept
                             /\ Resize!NothingStranded /\ Resize!ScreenKnown
      BY ResizeHolds DEF PartsInv
    <2>2. part = "layouts" => Layouts!ScreensAreMonitors /\ Layouts!OrderIrrelevant
      BY LayoutHolds DEF PartsInv
    <2> QED BY ONLY <2>1, <2>2 DEF DesktopSized
  <1>5. FilesKept
    BY FileHolds DEF PartsInv, FilesKept
  <1> QED BY <1>1, <1>2, <1>3, <1>4, <1>5

LEMMA Parts == Spec => []PartsInv
  <1>1. BoundsAssumption /\ PartsInv /\ [Next]_vars => PartsInv'
    BY PartsStep, PartsStutter
  <1>2. BoundsAssumption
    BY BoundsAssumption
  <1> QED BY <1>1, <1>2, PartsStart, PTL DEF Spec

\* One SetDesktopSize is out at a time, its answer brings the one screen of the connection,
\* the newest layout that the host asked for is kept until it is sent and never waits for
\* an answer that cannot come; and the layout sent is the host's monitors, the primary
\* one first, in the smallest framebuffer, in whatever order the host lists them.
THEOREM DesktopFollowsHost == Spec => []DesktopSized
  BY Parts, PartsHold, BoundsAssumption, PTL

\* A pixel that changed since the host was last told of the framebuffer is in one of the
\* regions that it will be sent, however regions are merged, dropped and replaced by a
\* full frame; and the client goes on asking for what changes, however the end of
\* continuous updates, a new size and the requests cross, and answers fences in order.
THEOREM NoPixelMissed == Spec => []NothingMissed
  BY Parts, PartsHold, BoundsAssumption, PTL

\* No compressed segment meets a decoder that is elsewhere in its stream, and an update
\* is refused only at its limits, for every number of streams, contexts and rectangles.
THEOREM DecodersStayInStep == Spec => []DecodersInStep
  BY Parts, PartsHold, BoundsAssumption, PTL

\* With nothing on the way each side of the clipboard has what the other copied last,
\* however copies, notices, requests and the negotiation cross.
THEOREM ClipboardsConverge == Spec => []ClipboardsAgree
  BY Parts, PartsHold, BoundsAssumption, PTL

\* A file that is saved is what the server sent for it, whole; each download is reported
\* over once; and no transfer of a server that follows the protocol ends the connection as
\* if it did not: for every number of transfers, of files in a download and of chunks in
\* a file, whichever are cancelled, refused or failed, and when.
THEOREM TransfersKept == Spec => []FilesKept
  BY Parts, PartsHold, BoundsAssumption, PTL

=============================================================================
