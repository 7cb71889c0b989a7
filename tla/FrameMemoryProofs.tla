------------------------- MODULE FrameMemoryProofs -------------------------
(***************************************************************************)
(* Proofs about FrameMemory, for all files, streams, lengths of frames and *)
(* headers: its types, and that sharing a buffer does harm in the one      *)
(* constellation SpoiltOnlyInTheWay names.                                 *)
(***************************************************************************)
EXTENDS FrameMemory, LritFileProofs

-----------------------------------------------------------------------------
(* Sequences joined end to end: FlattenSeq is a recursive function, whose   *)
(* equation is shown to have a solution and to determine it.                *)

Joins(s, n, g) == \A i \in 1..n : g[i] = IF i = 1 THEN s[i] ELSE g[i-1] \o s[i]

(* The equation has a solution. *)
LEMMA JoinsExist ==
    ASSUME NEW T, NEW s, NEW n \in Nat, \A i \in 1..n : s[i] \in Seq(T)
    PROVE  \E g : g \in [1..n -> Seq(T)] /\ Joins(s, n, g)
<1> DEFINE Has == [m \in 0..n |-> \E g : g \in [1..m -> Seq(T)] /\ Joins(s, m, g)]
<1> DEFINE Bad == {m \in 0..n : ~Has[m]}
<1> HIDE DEF Has
<1>0. ASSUME Bad = {} PROVE Has[n]
  BY <1>0
<1> SUFFICES ASSUME Bad # {} PROVE FALSE
  <2>1. n \in 0..n /\ Has[n]
    BY <1>0
  <2> QED
    BY <2>1, Zenon DEF Has
<1>1. PICK m \in Bad : \A y \in Bad : m <= y
  <2>1. Bad \subseteq Nat
    OBVIOUS
  <2> QED
    BY <2>1, LeastOf
<1>2. m \in 0..n /\ ~Has[m]
  OBVIOUS
<1>3. m # 0
  <2>1. Has[0]
    <3> DEFINE g == [i \in 1..0 |-> << >>]
    <3>1. g \in [1..0 -> Seq(T)] /\ 1..0 = {}
      OBVIOUS
    <3> HIDE DEF g
    <3>2. Joins(s, 0, g)
      BY <3>1 DEF Joins
    <3>3. 0 \in 0..n
      OBVIOUS
    <3>4. \E f : f \in [1..0 -> Seq(T)] /\ Joins(s, 0, f)
      BY <3>1, <3>2, Zenon
    <3> QED
      BY <3>3, <3>4, Zenon DEF Has
  <2> QED
    BY <1>2, <2>1
<1>4. m - 1 \in 0..n /\ m \in 1..n /\ m - 1 < m
  BY <1>2, <1>3
<1>5. Has[m - 1]
  <2>1. m - 1 \notin Bad
    BY <1>1, <1>2, <1>4
  <2> QED
    BY <1>4, <2>1
<1>6. PICK h : h \in [1..m - 1 -> Seq(T)] /\ Joins(s, m - 1, h)
  BY <1>4, <1>5 DEF Has
<1> DEFINE g == [i \in 1..m |-> IF i < m THEN h[i] ELSE IF i = 1 THEN s[i] ELSE h[i - 1] \o s[i]]
<1>7. s[m] \in Seq(T) /\ (m # 1 => m - 1 \in 1..m - 1)
  BY <1>4
<1>8. \A i \in 1..m : i < m => i \in 1..m - 1
  BY <1>4
<1>9. g \in [1..m -> Seq(T)]
  <2>1. \A i \in 1..m : g[i] \in Seq(T)
    <3> TAKE i \in 1..m
    <3>1. CASE i < m
      BY <1>6, <1>8, <3>1
    <3>2. CASE ~(i < m)
      <4>1. i = m
        BY <1>4, <3>2
      <4>2. m # 1 => h[m - 1] \in Seq(T)
        BY <1>6, <1>7
      <4>3. m # 1 => h[m - 1] \o s[m] \in Seq(T)
        BY <1>7, <4>2
      <4> QED
        BY <1>7, <3>2, <4>1, <4>3
    <3> QED
      BY <3>1, <3>2
  <2> QED
    BY <2>1
<1>10. Joins(s, m, g)
  <2> SUFFICES ASSUME NEW i \in 1..m
               PROVE  g[i] = IF i = 1 THEN s[i] ELSE g[i-1] \o s[i]
    BY Zenon DEF Joins
  <2>1. i # 1 => g[i - 1] = h[i - 1]
    BY <1>4
  <2>2. CASE i < m
    <3>1. i \in 1..m - 1
      BY <1>8, <2>2
    <3>2. g[i] = h[i] /\ h[i] = IF i = 1 THEN s[i] ELSE h[i-1] \o s[i]
      BY <1>6, <2>2, <3>1 DEF Joins
    <3> QED
      BY <2>1, <3>2
  <2>3. CASE ~(i < m)
    BY <2>1, <2>3
  <2> QED
    BY <2>2, <2>3
<1>11. Has[m]
  <2> HIDE DEF g
  <2> QED
    BY <1>2, <1>9, <1>10 DEF Has
<1> QED
  BY <1>2, <1>11

SameUpTo(s, t, n) == \A i \in 1..n : s[i] = t[i]

(* There is one solution. *)
LEMMA JoinsAgree ==
    ASSUME NEW s, NEW t, NEW n \in Nat, NEW m \in Nat, NEW g, NEW h, m >= n,
           SameUpTo(s, t, n), Joins(s, n, g), Joins(t, m, h)
    PROVE  SameUpTo(g, h, n)
<1> SUFFICES \A i \in 1..n : h[i] = g[i]
  BY DEF SameUpTo
<1> DEFINE Bad == {i \in 1..n : h[i] # g[i]}
<1> SUFFICES ASSUME Bad # {} PROVE FALSE
  OBVIOUS
<1>1. PICK i \in Bad : \A y \in Bad : i <= y
  <2>1. Bad \subseteq Nat
    OBVIOUS
  <2> QED
    BY <2>1, LeastOf
<1>2. i \in 1..n /\ h[i] # g[i] /\ i \in 1..m /\ i \in Nat
  OBVIOUS
<1>3. i # 1 => i - 1 \in 1..n /\ ~(i <= i - 1)
  BY <1>2
<1>4. i # 1 => h[i - 1] = g[i - 1]
  BY <1>1, <1>3
<1>5. g[i] = IF i = 1 THEN s[i] ELSE g[i-1] \o s[i]
  BY <1>2 DEF Joins
<1>6. h[i] = IF i = 1 THEN t[i] ELSE h[i-1] \o t[i]
  BY <1>2 DEF Joins
<1>7. s[i] = t[i]
  BY <1>2 DEF SameUpTo
<1> QED
  BY <1>2, <1>4, <1>5, <1>6, <1>7

(* FlattenSeq is such a join. *)
LEMMA FlattenIs ==
    ASSUME NEW T, NEW s \in Seq(Seq(T))
    PROVE  \E g : /\ g \in [1..Len(s) -> Seq(T)] /\ Joins(s, Len(s), g)
                  /\ FlattenSeq(s) = IF Len(s) = 0 THEN s ELSE g[Len(s)]
<1> DEFINE n == Len(s)
<1> DEFINE F(g) == [i \in 1..Len(s) |-> IF i = 1 THEN s[i] ELSE g[i-1] \o s[i]]
<1> DEFINE flat == CHOOSE g : g = F(g)
<1>1. FlattenSeq(s) = IF Len(s) = 0 THEN s ELSE flat[Len(s)]
  BY Zenon DEF FlattenSeq
<1>2. n \in Nat /\ \A i \in 1..n : s[i] \in Seq(T)
  OBVIOUS
<1>3. PICK g : g \in [1..n -> Seq(T)] /\ Joins(s, n, g)
  <2> HIDE DEF n
  <2> QED
    BY <1>2, JoinsExist
<1>4. g = F(g)
  BY <1>3 DEF Joins
<1>5. flat = F(flat)
  <2> HIDE DEF F
  <2> QED
    BY <1>4
<1>6. Joins(s, n, flat) /\ DOMAIN flat = 1..n
  <2> HIDE DEF flat
  <2>1. \A i \in 1..n : flat[i] = F(flat)[i]
    <3> HIDE DEF F
    <3> QED BY <1>5
  <2>2. DOMAIN flat = DOMAIN F(flat)
    <3> HIDE DEF F
    <3> QED BY <1>5
  <2> QED
    BY <2>1, <2>2 DEF Joins
<1> HIDE DEF F, flat
<1>7. \A i \in 1..n : flat[i] = g[i]
  <2> HIDE DEF n
  <2>1. n >= n /\ n \in Nat
    BY <1>2
  <2>2. Joins(s, n, g) /\ Joins(s, n, flat)
    BY <1>3, <1>6
  <2>3. SameUpTo(s, s, n)
    BY DEF SameUpTo
  <2> QED
    BY <2>1, <2>2, <2>3, JoinsAgree DEF SameUpTo
<1>8. n # 0 => n \in 1..n
  BY <1>2
<1> QED
  BY <1>1, <1>3, <1>7, <1>8

(* Joined sequences are a sequence; one more is joined at the end. *)
LEMMA FlattenFacts ==
    ASSUME NEW T, NEW s \in Seq(Seq(T))
    PROVE  /\ FlattenSeq(s) \in Seq(T)
           /\ s = << >> => FlattenSeq(s) = << >>
           /\ \A e \in Seq(T) : FlattenSeq(s \o <<e>>) = FlattenSeq(s) \o e
<1> DEFINE n == Len(s)
<1>1. PICK g : /\ g \in [1..n -> Seq(T)] /\ Joins(s, n, g)
               /\ FlattenSeq(s) = IF n = 0 THEN s ELSE g[n]
  BY FlattenIs
<1>2. n \in Nat /\ (n = 0 <=> s = << >>) /\ (n # 0 => n \in 1..n)
      /\ \A i \in 1..n : s[i] \in Seq(T)
  OBVIOUS
<1>3. FlattenSeq(s) \in Seq(T) /\ (s = << >> => FlattenSeq(s) = << >>)
  <2>1. << >> \in Seq(T)
    OBVIOUS
  <2> HIDE DEF n
  <2> QED
    BY <1>1, <1>2, <2>1
<1>4. ASSUME NEW e \in Seq(T), NEW t, t = s \o <<e>>
      PROVE  FlattenSeq(t) = FlattenSeq(s) \o e
  <2>1. t \in Seq(Seq(T)) /\ Len(t) = n + 1 /\ t[n + 1] = e /\ \A i \in 1..n : s[i] = t[i]
    BY <1>4
  <2>2. PICK h : /\ h \in [1..Len(t) -> Seq(T)] /\ Joins(t, Len(t), h)
                 /\ FlattenSeq(t) = IF Len(t) = 0 THEN t ELSE h[Len(t)]
    BY <2>1, FlattenIs
  <2> HIDE DEF n
  <2>3. n + 1 \in Nat /\ n + 1 # 0 /\ n + 1 \in 1..n+1 /\ (n + 1) - 1 = n /\ n + 1 >= n
        /\ (n + 1 = 1 <=> n = 0)
    BY <1>2
  <2>4. FlattenSeq(t) = h[n + 1] /\ Joins(t, n + 1, h)
    BY <2>1, <2>2, <2>3
  <2>5. h[n + 1] = IF n + 1 = 1 THEN t[n + 1] ELSE h[(n + 1) - 1] \o t[n + 1]
    BY <2>3, <2>4 DEF Joins
  <2>6. \A i \in 1..n : h[i] = g[i]
    <3>1. SameUpTo(s, t, n)
      BY <2>1 DEF SameUpTo
    <3>2. Joins(s, n, g)
      BY <1>1
    <3>3. SameUpTo(g, h, n)
      BY <1>2, <2>3, <2>4, <3>1, <3>2, JoinsAgree
    <3> QED
      BY <3>3 DEF SameUpTo
  <2>7. CASE n = 0
    <3>1. FlattenSeq(t) = e
      BY <2>1, <2>3, <2>4, <2>5, <2>7
    <3>2. FlattenSeq(s) = << >>
      BY <1>2, <1>3, <2>7
    <3>3. << >> \o e = e
      OBVIOUS
    <3> QED
      BY <3>1, <3>2, <3>3
  <2>8. CASE n # 0
    <3>1. FlattenSeq(t) = h[n] \o e /\ h[n] = g[n] /\ FlattenSeq(s) = g[n]
      BY <1>1, <1>2, <2>1, <2>3, <2>4, <2>5, <2>6, <2>8
    <3> QED
      BY <3>1
  <2> QED
    BY <2>7, <2>8
<1> QED
  BY <1>3, <1>4

-----------------------------------------------------------------------------
(* The stream of packets, and where its octets lie.                         *)

Sending == stream \in Streams /\ offset \in 0..ZoneLen-1

(* The constants, spelled out. *)
LEMMA LengthFacts ==
    /\ ZoneLen \in Nat /\ ZoneLen > 0 /\ HdrLen \in Nat /\ HdrLen > 0
    /\ StripLen \in Nat /\ StripLen > 0 /\ HeadLen \in Nat /\ HeadLen > 0
    /\ CrcLen \in Nat /\ CrcLen > 0 /\ Cols \in Nat /\ Cols > 0
BY FrameMemoryAssumption, LritFileAssumption

(* An SDU, its file and its lengths. *)
LEMMA SduFacts ==
    ASSUME Sending, NEW k \in 1..Len(stream)
    PROVE  /\ Len(stream) \in Nat /\ DOMAIN stream = 1..Len(stream) /\ k \in DOMAIN stream
           /\ stream[k][1] \in Sent /\ stream[k][2] \in 1..Parts(stream[k][1])
           /\ stream[k] = <<stream[k][1], stream[k][2]>> /\ stream[k][2] \in Nat
           /\ ApidOf(k) \in Apids /\ IsPacked(k) \in BOOLEAN
           /\ Meta[stream[k][1]].lens[stream[k][2]] \in Nat
           /\ Ahead(k) \in Nat /\ Ahead(k) >= HdrLen /\ (~IsFirst(k) => Ahead(k) = HdrLen)
           /\ RawLen(k) \in Nat /\ (IsFirst(k) => RawLen(k) >= HeadLen)
           /\ PacketLen(k) \in Nat /\ PacketLen(k) >= 1
<1>1. stream \in Seq(Nat \X Nat) /\ IsStream(stream)
  BY FrameMemoryAssumption DEF Sending
<1>2. /\ Len(stream) \in Nat /\ DOMAIN stream = 1..Len(stream) /\ k \in DOMAIN stream
      /\ stream[k][1] \in Sent /\ stream[k][2] \in 1..Parts(stream[k][1])
      /\ stream[k] = <<stream[k][1], stream[k][2]>> /\ stream[k][2] \in Nat
  BY <1>1, PlacesOf
<1>3. /\ ApidOf(k) \in Apids /\ IsPacked(k) \in BOOLEAN
      /\ Meta[stream[k][1]].lens[stream[k][2]] \in Nat
  BY <1>2, MetaFacts DEF ApidOf, IsPacked
<1>4. Ahead(k) \in Nat /\ Ahead(k) >= HdrLen /\ (~IsFirst(k) => Ahead(k) = HdrLen)
  <2>1. Ahead(k) = IF IsFirst(k) THEN HdrLen + StripLen ELSE HdrLen + 0
    BY Zenon DEF Ahead
  <2> QED
    BY <2>1, LengthFacts
<1>5. RawLen(k) \in Nat /\ (IsFirst(k) => RawLen(k) >= HeadLen)
  <2> DEFINE l == Meta[stream[k][1]].lens[stream[k][2]]
  <2>1. RawLen(k) = IF IsFirst(k) THEN l + HeadLen ELSE l + 0
    BY Zenon DEF RawLen
  <2>2. l \in Nat
    BY <1>3
  <2> HIDE DEF l
  <2> QED
    BY <2>1, <2>2, LengthFacts
<1>6. PacketLen(k) \in Nat /\ PacketLen(k) >= 1
  BY <1>4, <1>5, LengthFacts DEF PacketLen
<1> QED
  BY <1>2, <1>3, <1>4, <1>5, <1>6

(* The greatest position of some is one of them. *)
LEMMA MaxIn ==
    ASSUME NEW n \in Nat, NEW s \in SUBSET (1..n), s # {}
    PROVE  Max(s) \in s
<1> DEFINE Bounds == {b \in Nat : \A x \in s : x <= b}
<1>1. n \in Bounds /\ Bounds \subseteq Nat
  OBVIOUS
<1>2. PICK b \in Bounds : \A y \in Bounds : b <= y
  BY <1>1, LeastOf
<1>3. b \in Nat /\ (\A x \in s : x \in Nat /\ x >= 1 /\ x <= b)
  OBVIOUS
<1>4. b \in s
  <2> SUFFICES ASSUME b \notin s PROVE FALSE
    OBVIOUS
  <2>1. b # 0
    <3>1. PICK x \in s : TRUE
      OBVIOUS
    <3> QED
      BY <1>3, <3>1
  <2>2. b - 1 \in Nat /\ \A x \in s : x <= b - 1
    BY <1>3, <2>1
  <2>3. b - 1 \in Bounds
    BY <2>2
  <2>4. b <= b - 1
    BY <1>2, <2>3
  <2> QED
    BY <1>3, <2>4
<1> QED
  BY <1>3, <1>4 DEF Max

(* The packets as chunks, so that their octets are sums. *)
Packets == [j \in 1..Len(stream) |-> [len |-> PacketLen(j)]]

(* Where a packet begins: behind the octets of those ahead of it. *)
LEMMA PacketSums ==
    ASSUME Sending, NEW k \in 1..Len(stream)+1
    PROVE  \E g : /\ SumsTo(Packets, 1..k-1, g) /\ PacketAt(k) = offset + g[1..k-1]
                  /\ \A s \in SUBSET (1..k-1) : g[s] \in Nat
<1> DEFINE n == k - 1
           seq == [j \in 1..k-1 |-> j]
           F(iter) == [s \in SUBSET (DOMAIN seq) |->
              IF s = {} THEN 0 ELSE iter[s \ {Max(s)}] + PacketLen(seq[Max(s)])]
           sums == CHOOSE iter : iter = F(iter)
<1>1. PacketAt(k) = offset + sums[DOMAIN seq]
  BY Zenon DEF PacketAt, FoldLeft, MapThenFoldSet
<1>2. Len(stream) \in Nat
  BY FrameMemoryAssumption DEF Sending
<1>3. /\ n \in Nat /\ DOMAIN seq = 1..n /\ \A i \in 1..n : i \in 1..Len(stream) /\ seq[i] = i
  BY <1>2
<1> HIDE DEF seq, n
<1>4. \A i \in 1..n : Packets[i].len \in Nat /\ Packets[i].len = PacketLen(seq[i])
  BY <1>3, SduFacts DEF Packets
<1>5. PICK g : g \in [SUBSET (1..n) -> Nat] /\ SumsTo(Packets, 1..n, g)
  BY <1>3, <1>4, SumsExist
<1>6. \A s \in SUBSET (1..n) : s # {} => Packets[Max(s)].len = PacketLen(seq[Max(s)])
  BY <1>3, <1>4, MaxIn
<1>7. g = F(g)
  BY <1>3, <1>5, <1>6 DEF SumsTo
<1>8. sums = F(sums)
  <2> HIDE DEF F
  <2> QED
    BY <1>7
<1>9. SumsTo(Packets, 1..n, sums)
  <2> HIDE DEF sums
  <2>1. \A s \in SUBSET (1..n) : sums[s] = F(sums)[s]
    <3> HIDE DEF F
    <3> QED BY <1>8
  <2> QED
    BY <1>3, <1>6, <2>1 DEF SumsTo
<1> HIDE DEF sums, F
<1>10. \A s \in SUBSET (1..n) : sums[s] \in Nat
  BY <1>3, <1>4, <1>9, SumsAreNat
<1> QED
  BY <1>1, <1>3, <1>9, <1>10 DEF n

(* A packet begins where the one ahead of it ends. *)
LEMMA PacketNext ==
    ASSUME Sending, NEW k \in 1..Len(stream)
    PROVE  /\ PacketAt(k) \in Nat /\ PacketAt(k + 1) \in Nat
           /\ PacketAt(k + 1) = PacketEnd(k)
<1>1. /\ Len(stream) \in Nat /\ k \in 1..Len(stream)+1 /\ k + 1 \in 1..Len(stream)+1
      /\ k \in Nat /\ k >= 1 /\ (k + 1) - 1 = k /\ offset \in Nat
  BY SduFacts, LengthFacts DEF Sending
<1>2. PICK g : /\ SumsTo(Packets, 1..k-1, g) /\ PacketAt(k) = offset + g[1..k-1]
               /\ \A s \in SUBSET (1..k-1) : g[s] \in Nat
  BY <1>1, PacketSums
<1>3. PICK h : /\ SumsTo(Packets, 1..k, h) /\ PacketAt(k + 1) = offset + h[1..k]
               /\ \A s \in SUBSET (1..k) : h[s] \in Nat
  <2>1. \E h : /\ SumsTo(Packets, 1..(k+1)-1, h) /\ PacketAt(k + 1) = offset + h[1..(k+1)-1]
               /\ \A s \in SUBSET (1..(k+1)-1) : h[s] \in Nat
    BY <1>1, PacketSums
  <2> QED
    BY <1>1, <2>1
<1>4. SumsTo(Packets, 1..k-1, h)
  <2>1. SUBSET (1..k-1) \subseteq SUBSET (1..k)
    BY <1>1
  <2> QED
    BY <1>3, <2>1 DEF SumsTo
<1>5. g[1..k-1] = h[1..k-1]
  <2>1. k - 1 \in Nat /\ \A i \in 1..k-1 : Packets[i].len = Packets[i].len
    BY <1>1
  <2> QED
    BY <1>2, <1>4, <2>1, SumsAgree
<1>6. Max(1..k) = k
  BY <1>1, MaxIs
<1>7. (1..k) \ {k} = 1..k-1 /\ 1..k # {} /\ 1..k \in SUBSET (1..k)
      /\ 1..k-1 \in SUBSET (1..k-1)
  <2>1. k \in 1..k /\ k \notin 1..k-1 /\ 1..k-1 \subseteq 1..k
    BY <1>1
  <2>2. \A i \in 1..k : i # k => i \in 1..k-1
    BY <1>1
  <2> QED
    BY <2>1, <2>2
<1>8. h[1..k] = h[1..k-1] + PacketLen(k)
  BY <1>3, <1>6, <1>7 DEF SumsTo, Packets
<1>9. PacketLen(k) \in Nat /\ g[1..k-1] \in Nat
  BY <1>2, <1>7, SduFacts
<1> QED
  BY <1>1, <1>2, <1>3, <1>5, <1>8, <1>9 DEF PacketEnd

(* An SDU lies in its packet, between the headers and the CRC. *)
LEMMA PacketParts ==
    ASSUME Sending, NEW k \in 1..Len(stream)
    PROVE  /\ PacketAt(k) \in Nat /\ RawAt(k) \in Nat /\ PacketEnd(k) \in Nat
           /\ PacketAt(k) + HdrLen <= RawAt(k) /\ PacketAt(k) < RawAt(k)
           /\ ~IsFirst(k) => RawAt(k) = PacketAt(k) + HdrLen
           /\ RawAt(k) + RawLen(k) < PacketEnd(k)
           /\ PacketEnd(k) = RawAt(k) + RawLen(k) + CrcLen
           /\ RawAt(k) < PacketEnd(k)
<1>1. PacketAt(k) \in Nat /\ PacketEnd(k) = PacketAt(k) + PacketLen(k)
  BY PacketNext DEF PacketEnd
<1>2. /\ Ahead(k) \in Nat /\ Ahead(k) >= HdrLen /\ RawLen(k) \in Nat
      /\ ~IsFirst(k) => Ahead(k) = HdrLen
  BY SduFacts
<1>3. RawAt(k) = PacketAt(k) + Ahead(k) /\ PacketLen(k) = Ahead(k) + RawLen(k) + CrcLen
  BY DEF RawAt, PacketLen
<1> QED
  BY <1>1, <1>2, <1>3, LengthFacts

(* Packets lie one behind the other. *)
LEMMA InOrder ==
    ASSUME Sending, NEW j \in 1..Len(stream), NEW k \in 1..Len(stream)+1, j < k
    PROVE  PacketEnd(j) <= PacketAt(k) /\ PacketAt(k) \in Nat
<1> DEFINE at == [i \in 1..Len(stream)+1 |-> PacketAt(i)]
           N == Len(stream)
           Bad == {i \in 1..N+1 : j < i /\ ~(PacketEnd(j) <= at[i])}
<1>1. N \in Nat /\ j \in 1..N /\ k \in 1..N+1
  BY SduFacts
<1>2. ASSUME NEW i \in 1..N
      PROVE  at[i] \in Nat /\ at[i + 1] \in Nat /\ at[i + 1] >= at[i] /\ at[i + 1] = PacketEnd(i)
  <2>1. i \in 1..N+1 /\ i + 1 \in 1..N+1
    BY <1>1
  <2>2. PacketLen(i) \in Nat /\ PacketAt(i) \in Nat /\ PacketAt(i + 1) \in Nat
        /\ PacketAt(i + 1) = PacketEnd(i)
    BY SduFacts, PacketNext
  <2> QED
    BY <2>1, <2>2 DEF PacketEnd
<1>3. at[k] = PacketAt(k)
  BY <1>1
<1> HIDE DEF at, N
<1>4. PacketEnd(j) \in Nat
  BY <1>1, <1>2
<1>5. at[k] \in Nat
  <2>1. k - 1 \in 1..N /\ (k - 1) + 1 = k
    BY <1>1
  <2> QED
    BY <1>2, <2>1
<1>6. Bad = {}
  <2> SUFFICES ASSUME Bad # {} PROVE FALSE
    OBVIOUS
  <2>1. PICK i \in Bad : \A y \in Bad : i <= y
    <3>1. Bad \subseteq Nat
      BY <1>1
    <3> HIDE DEF Bad
    <3> QED
      BY <3>1, LeastOf
  <2>2. i \in 1..N+1 /\ j < i /\ ~(PacketEnd(j) <= at[i])
    OBVIOUS
  <2>3. i - 1 \in 1..N /\ i - 1 \in 1..N+1 /\ (i - 1) + 1 = i /\ ~(i <= i - 1)
    BY <1>1, <2>2
  <2>4. at[i] = PacketEnd(i - 1) /\ at[i] >= at[i - 1] /\ at[i] \in Nat /\ at[i - 1] \in Nat
    BY <1>2, <2>3
  <2>5. CASE i - 1 = j
    BY <1>4, <2>2, <2>4, <2>5
  <2>6. CASE i - 1 # j
    <3>1. j < i - 1
      BY <1>1, <2>2, <2>3, <2>6
    <3>2. i - 1 \notin Bad
      BY <2>1, <2>3
    <3>3. PacketEnd(j) <= at[i - 1]
      BY <2>3, <3>1, <3>2
    <3> QED
      BY <1>4, <2>2, <2>4, <3>3
  <2> QED
    BY <2>5, <2>6
<1> QED
  BY <1>1, <1>3, <1>5, <1>6

(* Frames: an octet lies in its frame, and the frames are in order. *)
LEMMA FrameFacts ==
    /\ \A p \in Nat : FrameOf(p) \in Nat /\ ZoneEnd(p) \in Nat
                      /\ ZoneLen * FrameOf(p) <= p /\ p < ZoneEnd(p)
    /\ \A p, q \in Nat : p <= q => FrameOf(p) <= FrameOf(q) /\ ZoneEnd(p) <= ZoneEnd(q)
    /\ \A p, q \in Nat : p <= q /\ q < ZoneEnd(p) => FrameOf(q) = FrameOf(p)
    /\ \A p, q \in Nat : FrameOf(q) = FrameOf(p) => ZoneEnd(q) = ZoneEnd(p)
<1>1. ZoneLen \in Nat /\ ZoneLen > 0
  BY LengthFacts
<1>2. \A z \in Nat : z > 0 => \A p \in Nat :
         /\ p \div z \in Nat /\ (p \div z + 1) * z \in Nat
         /\ z * (p \div z) <= p /\ p < (p \div z + 1) * z
  OBVIOUS
<1>3. \A z \in Nat : z > 0 => \A p, q \in Nat :
         p <= q => p \div z <= q \div z
  OBVIOUS
<1>4. \A a, b, z \in Nat : a <= b => (a + 1) * z <= (b + 1) * z
  OBVIOUS
<1>5. \A z \in Nat : z > 0 => \A p, q \in Nat :
         p <= q /\ q < (p \div z + 1) * z => q \div z = p \div z
  OBVIOUS
<1>6. \A p \in Nat : FrameOf(p) \in Nat /\ ZoneEnd(p) \in Nat
                      /\ ZoneLen * FrameOf(p) <= p /\ p < ZoneEnd(p)
  BY <1>1, <1>2 DEF FrameOf, ZoneEnd
<1>7. \A p, q \in Nat : p <= q => FrameOf(p) <= FrameOf(q)
  BY <1>1, <1>3 DEF FrameOf
<1>8. \A p, q \in Nat : p <= q => ZoneEnd(p) <= ZoneEnd(q)
  BY <1>1, <1>4, <1>6, <1>7 DEF ZoneEnd
<1>9. \A p, q \in Nat : p <= q /\ q < ZoneEnd(p) => FrameOf(q) = FrameOf(p)
  BY <1>1, <1>5 DEF FrameOf, ZoneEnd
<1>10. \A p, q \in Nat : FrameOf(q) = FrameOf(p) => ZoneEnd(q) = ZoneEnd(p)
  BY DEF ZoneEnd
<1> QED
  BY <1>6, <1>7, <1>8, <1>9, <1>10

(* An SDU that is not cut lies in one frame. *)
LEMMA Uncut ==
    ASSUME Sending, NEW k \in 1..Len(stream), ~Carried(k)
    PROVE  /\ FrameOf(RawAt(k)) = FrameOf(PacketAt(k))
           /\ ZoneEnd(RawAt(k)) = ZoneEnd(PacketAt(k))
           /\ PacketEnd(k) <= ZoneEnd(RawAt(k))
<1>1. /\ PacketAt(k) \in Nat /\ RawAt(k) \in Nat /\ PacketEnd(k) \in Nat
      /\ PacketAt(k) < RawAt(k) /\ RawAt(k) < PacketEnd(k)
  BY PacketParts
<1>2. ZoneEnd(PacketAt(k)) \in Nat /\ PacketEnd(k) <= ZoneEnd(PacketAt(k))
  BY <1>1, FrameFacts DEF Carried
<1>3. PacketAt(k) <= RawAt(k) /\ RawAt(k) < ZoneEnd(PacketAt(k))
  BY <1>1, <1>2
<1>4. FrameOf(RawAt(k)) = FrameOf(PacketAt(k))
  BY <1>1, <1>3, FrameFacts
<1> QED
  BY <1>1, <1>2, <1>4, FrameFacts

(* SDUs arrive in the order they are sent. *)
LEMMA ArriveInOrder ==
    ASSUME Sending, NEW j \in 1..Len(stream), NEW k \in 1..Len(stream), j <= k
    PROVE  ArrivesIn(j) \in Nat /\ ArrivesIn(k) \in Nat /\ ArrivesIn(j) <= ArrivesIn(k)
<1>1. ASSUME NEW i \in 1..Len(stream)
      PROVE  /\ FrameOf(PacketAt(i)) \in Nat /\ FrameOf(PacketEnd(i)) \in Nat
             /\ FrameOf(PacketAt(i)) <= ArrivesIn(i) /\ ArrivesIn(i) <= FrameOf(PacketEnd(i))
             /\ ArrivesIn(i) \in Nat
  <2>1. /\ PacketAt(i) \in Nat /\ PacketEnd(i) \in Nat /\ PacketAt(i) <= PacketEnd(i)
    BY PacketParts
  <2>2. FrameOf(PacketAt(i)) \in Nat /\ FrameOf(PacketEnd(i)) \in Nat
        /\ FrameOf(PacketAt(i)) <= FrameOf(PacketEnd(i))
    BY <2>1, FrameFacts
  <2>3. ArrivesIn(i) = FrameOf(PacketEnd(i)) \/ ArrivesIn(i) = FrameOf(PacketAt(i))
    BY DEF ArrivesIn
  <2> QED
    BY <2>2, <2>3
<1>2. Len(stream) \in Nat
  BY SduFacts
<1>3. CASE j = k
  BY <1>1, <1>3
<1>4. CASE j < k
  <2>1. PacketEnd(j) <= PacketAt(k) /\ PacketEnd(j) \in Nat /\ PacketAt(k) \in Nat
    BY <1>2, <1>4, InOrder, PacketParts
  <2>2. FrameOf(PacketEnd(j)) <= FrameOf(PacketAt(k))
    BY <2>1, FrameFacts
  <2> QED
    BY <1>1, <2>2
<1> QED
  BY <1>2, <1>3, <1>4

(* The frames hold every packet whole. *)
LEMMA AllFrames ==
    ASSUME Sending
    PROVE  /\ TotalLen \in Nat
           /\ \A k \in 1..Len(stream) :
                 /\ PacketEnd(k) < TotalLen
                 /\ \A p \in Nat : p <= PacketEnd(k) => ZoneEnd(p) <= TotalLen
<1> DEFINE last == PacketAt(Len(stream) + 1)
<1>1. Len(stream) \in Nat
  BY FrameMemoryAssumption DEF Sending
<1>2. last \in Nat
  <2>1. Len(stream) + 1 \in 1..Len(stream)+1 /\ offset \in Nat
    BY <1>1, LengthFacts DEF Sending
  <2>2. PICK g : /\ SumsTo(Packets, 1..(Len(stream)+1)-1, g)
                 /\ last = offset + g[1..(Len(stream)+1)-1]
                 /\ \A s \in SUBSET (1..(Len(stream)+1)-1) : g[s] \in Nat
    BY <2>1, PacketSums
  <2>3. g[1..(Len(stream)+1)-1] \in Nat
    BY <2>2
  <2> HIDE DEF last
  <2> QED
    BY <2>1, <2>2, <2>3
<1>3. \A k \in 1..Len(stream) : PacketEnd(k) \in Nat /\ PacketEnd(k) <= last
  <2> TAKE k \in 1..Len(stream)
  <2>1. Len(stream) + 1 \in 1..Len(stream)+1 /\ k < Len(stream) + 1
    BY <1>1
  <2> QED
    BY <2>1, InOrder, PacketParts
<1>4. TotalLen = ZoneEnd(last)
  BY DEF TotalLen
<1> HIDE DEF last
<1>5. TotalLen \in Nat /\ last < TotalLen
  BY <1>2, <1>4, FrameFacts
<1>6. ASSUME NEW k \in 1..Len(stream), NEW p \in Nat, p <= PacketEnd(k)
      PROVE  ZoneEnd(p) <= TotalLen
  <2>1. p <= last
    BY <1>2, <1>3, <1>6
  <2> QED
    BY <1>2, <1>4, <2>1, FrameFacts
<1>7. \A k \in 1..Len(stream) : PacketEnd(k) < TotalLen
  BY <1>2, <1>3, <1>5
<1> QED
  BY <1>5, <1>6, <1>7

(* The place of a part of a file. *)
Place(f, i) == CHOOSE k \in DOMAIN stream : stream[k] = <<f, i>>

(* It is the one place where that part is sent. *)
LEMMA PlaceIs ==
    ASSUME Sending, NEW k \in 1..Len(stream), NEW f, NEW i, stream[k] = <<f, i>>
    PROVE  Place(f, i) = k
<1>1. stream \in Seq(Nat \X Nat) /\ IsStream(stream)
  BY FrameMemoryAssumption DEF Sending
<1>2. DOMAIN stream = 1..Len(stream)
  BY SduFacts
<1>3. \A j \in 1..Len(stream) : stream[j] = stream[k] => j = k
  BY <1>1, SentOnce
<1>4. k \in DOMAIN stream /\ stream[k] = <<f, i>>
  BY <1>2
<1>5. Place(f, i) \in DOMAIN stream /\ stream[Place(f, i)] = <<f, i>>
  BY <1>4, Zenon DEF Place
<1> QED
  BY <1>2, <1>3, <1>4, <1>5
-----------------------------------------------------------------------------
(* Octets.                                                                  *)

Octs == Int \X Nat

(* Two sequences joined, index by index. *)
LEMMA ConcatIs ==
    ASSUME NEW T, NEW a \in Seq(T), NEW b \in Seq(T)
    PROVE  /\ a \o b \in Seq(T) /\ Len(a \o b) = Len(a) + Len(b)
           /\ \A i \in 1..Len(a)+Len(b) : (a \o b)[i] = IF i <= Len(a) THEN a[i] ELSE b[i - Len(a)]
OBVIOUS

(* One more element. *)
LEMMA OneMore ==
    ASSUME NEW T, NEW s \in Seq(T), NEW x \in T
    PROVE  /\ s \o <<x>> \in Seq(T) /\ Len(s \o <<x>>) = Len(s) + 1
           /\ (s \o <<x>>)[Len(s) + 1] = x /\ \A i \in 1..Len(s) : (s \o <<x>>)[i] = s[i]
OBVIOUS

(* Sequences of the same elements are the same. *)
LEMMA SameSeq ==
    ASSUME NEW T, NEW a \in Seq(T), NEW b \in Seq(T), Len(a) = Len(b),
           \A i \in 1..Len(a) : a[i] = b[i]
    PROVE  a = b
OBVIOUS

(* Octets as they are sent, and rows. *)
LEMMA OctetTypes ==
    /\ \A p \in Int, n \in Nat : AsSent(p, n) \in Seq(Octs) /\ Len(AsSent(p, n)) = n
    /\ \A p \in Int : RowOf(p) \in Seq(Octs) /\ Len(RowOf(p)) = Cols
    /\ Garbage \in Seq(Octs) /\ Black \in Seq(Octs)
<1>1. Cols \in Nat
  BY LengthFacts
<1>2. ASSUME NEW p \in Int, NEW n \in Nat
      PROVE  AsSent(p, n) \in Seq(Octs) /\ Len(AsSent(p, n)) = n
  <2>1. \A i \in 1..n : <<p + i - 1, 0>> \in Octs
    BY DEF Octs
  <2>2. AsSent(p, n) \in [1..n -> Octs]
    BY <2>1 DEF AsSent
  <2> QED
    BY <2>2
<1>3. \A p \in Int : RowOf(p) \in [1..Cols -> Octs]
  BY <1>1 DEF RowOf, Octs
<1>4. Garbage \in [1..Cols -> Octs] /\ Black \in [1..Cols -> Octs]
  BY <1>1 DEF Garbage, Black, Octs
<1>5. \A s \in [1..Cols -> Octs] : s \in Seq(Octs) /\ Len(s) = Cols
  BY <1>1
<1> QED
  BY <1>2, <1>3, <1>4, <1>5

(* The data octets of an SDU. *)
LEMMA BodyFacts ==
    ASSUME Sending, NEW k \in 1..Len(stream)
    PROVE  /\ Body(k) \in Seq(Octs)
           /\ Len(Body(k)) = Meta[stream[k][1]].lens[stream[k][2]]
           /\ Meta[stream[k][1]].lens[stream[k][2]] > 0 => Body(k)[1][1] \in Int
           /\ ~IsFirst(k) => Body(k) = AsSent(RawAt(k), RawLen(k))
           /\ IsFirst(k) => AsSent(RawAt(k), RawLen(k)) = AsSent(RawAt(k), HeadLen) \o Body(k)
<1> DEFINE l == Meta[stream[k][1]].lens[stream[k][2]]
<1>1. /\ RawAt(k) \in Nat /\ l \in Nat /\ HeadLen \in Nat /\ RawLen(k) \in Nat
      /\ RawLen(k) = IF IsFirst(k) THEN l + HeadLen ELSE l
  <2>1. RawAt(k) \in Nat /\ l \in Nat /\ HeadLen \in Nat /\ RawLen(k) \in Nat
    BY SduFacts, PacketParts, LengthFacts
  <2>2. RawLen(k) = IF IsFirst(k) THEN l + HeadLen ELSE l + 0
    BY Zenon DEF RawLen
  <2> HIDE DEF l
  <2> QED
    BY <2>1, <2>2
<1>2. PICK p \in Int : /\ Body(k) = AsSent(p, l)
                       /\ p = IF IsFirst(k) THEN RawAt(k) + HeadLen ELSE RawAt(k)
  <2> HIDE DEF l
  <2>1. CASE IsFirst(k)
    <3>1. RawAt(k) + HeadLen \in Int /\ RawLen(k) - HeadLen = l
      BY <1>1, <2>1
    <3> QED
      BY <2>1, <3>1 DEF Body
  <2>2. CASE ~IsFirst(k)
    <3>1. RawAt(k) \in Int /\ RawLen(k) = l
      BY <1>1, <2>2
    <3> QED
      BY <2>2, <3>1 DEF Body
  <2> QED
    BY <2>1, <2>2
<1> HIDE DEF l
<1>3. Body(k) \in Seq(Octs) /\ Len(Body(k)) = l
  BY <1>1, <1>2, OctetTypes
<1>4. l > 0 => Body(k)[1][1] \in Int
  <2> SUFFICES ASSUME l > 0 PROVE Body(k)[1] \in Octs
    BY DEF Octs
  <2>1. 1 \in 1..l
    BY <1>1
  <2> QED
    BY <1>3, <2>1
<1>5. ~IsFirst(k) => Body(k) = AsSent(RawAt(k), RawLen(k))
  BY <1>1, <1>2
<1>6. ASSUME IsFirst(k)
      PROVE  AsSent(RawAt(k), RawLen(k)) = AsSent(RawAt(k), HeadLen) \o Body(k)
  <2> DEFINE a == RawAt(k)
             h == AsSent(a, HeadLen)
             b == Body(k)
             s == AsSent(a, HeadLen + l)
  <2>1. a \in Int /\ HeadLen \in Nat /\ l \in Nat /\ RawLen(k) = HeadLen + l
    BY <1>1, <1>6
  <2>2. b = AsSent(a + HeadLen, l)
    BY <1>2, <1>6
  <2> HIDE DEF a
  <2>3. h \in Seq(Octs) /\ Len(h) = HeadLen /\ \A i \in 1..HeadLen : h[i] = <<a + i - 1, 0>>
    BY <2>1, OctetTypes DEF AsSent
  <2>4. /\ b \in Seq(Octs) /\ Len(b) = l
        /\ \A i \in 1..l : b[i] = <<a + HeadLen + i - 1, 0>>
    <3>1. b \in Seq(Octs) /\ Len(b) = l
      BY <1>3
    <3> HIDE DEF b
    <3>2. \A i \in 1..l : b[i] = <<(a + HeadLen) + i - 1, 0>>
      BY <2>2 DEF AsSent
    <3> QED
      BY <2>1, <3>1, <3>2
  <2>5. /\ s \in Seq(Octs) /\ Len(s) = HeadLen + l
        /\ \A i \in 1..HeadLen+l : s[i] = <<a + i - 1, 0>>
    <3>1. HeadLen + l \in Nat
      BY <2>1
    <3> QED
      BY <2>1, <3>1, OctetTypes DEF AsSent
  <2> HIDE DEF h, b, s
  <2>6. h \o b \in Seq(Octs) /\ Len(h \o b) = HeadLen + l
        /\ \A i \in 1..HeadLen+l : (h \o b)[i] = IF i <= HeadLen THEN h[i] ELSE b[i - HeadLen]
    BY <2>1, <2>3, <2>4, ConcatIs
  <2>7. \A i \in 1..HeadLen+l : (h \o b)[i] = s[i]
    <3> TAKE i \in 1..HeadLen+l
    <3>1. CASE i <= HeadLen
      <4>1. i \in 1..HeadLen
        BY <2>1, <3>1
      <4> QED
        BY <2>3, <2>5, <2>6, <3>1, <4>1
    <3>2. CASE ~(i <= HeadLen)
      <4>1. i - HeadLen \in 1..l /\ a + HeadLen + (i - HeadLen) - 1 = a + i - 1
        BY <2>1, <3>2
      <4> QED
        BY <2>4, <2>5, <2>6, <3>2, <4>1
    <3> QED
      BY <3>1, <3>2
  <2>8. h \o b = s
    BY <2>5, <2>6, <2>7, SameSeq
  <2> QED
    BY <2>1, <2>8 DEF h, b, s, a
<1> QED
  BY <1>3, <1>4, <1>5, <1>6 DEF l
-----------------------------------------------------------------------------
(* What a file would hold, part by part.                                    *)

(* The octets of a part once it is unpacked, and of all parts up to p.      *)
UnpackedLen(f, i) == IF Meta[f].packed THEN Cols ELSE Meta[f].lens[i]
Total(f, p) == Octets(Pieces(f, p, TRUE))

(* A first part whose headers are parsed on opening stays as it came.       *)
EarlyReady(f) == Meta[f].flagged /\ Meta[f].lens[1] > 0
Growth(f) == IF Meta[f].packed /\ EarlyReady(f) THEN Cols - Meta[f].lens[1] ELSE 0

(* A sent chunk, unpacked. *)
LEMMA UnpackedSent ==
    ASSUME NEW f \in Sent, NEW i \in 1..Parts(f), Meta[f].lens[i] > 0
    PROVE  LET c == Unpacked(SentChunk(f, i), TRUE) IN
           /\ c \in Chunk /\ c.file = f /\ c.part = i /\ c.kind = "plain"
           /\ c.len = UnpackedLen(f, i) /\ c.len \in Nat /\ NonEmpty(c) = <<c>>
<1> DEFINE b == SentChunk(f, i)
           c == Unpacked(b, TRUE)
<1>1. /\ b \in Chunk /\ b.file = f /\ b.part = i /\ b.len = Meta[f].lens[i]
      /\ b.kind = IF Meta[f].packed THEN "packed" ELSE "plain"
  BY SentChunkType DEF SentChunk
<1>2. c = IF Meta[f].packed THEN Row(b) ELSE b
  <2> HIDE DEF b
  <2> QED
    BY <1>1 DEF Unpacked
<1>3. c \in Chunk /\ c.len > 0
  <2> HIDE DEF b
  <2> QED
    BY <1>1, UnpackedType
<1>4. c.file = f /\ c.part = i /\ c.kind = "plain" /\ c.len = UnpackedLen(f, i)
  <2> HIDE DEF b, c
  <2>1. CASE Meta[f].packed
    <3>1. Row(b).file = b.file /\ Row(b).part = b.part /\ Row(b).kind = "plain" /\ Row(b).len = Cols
      BY <1>1 DEF Row, Chunk
    <3> QED
      BY <1>1, <1>2, <2>1, <3>1 DEF UnpackedLen
  <2>2. CASE ~Meta[f].packed
    BY <1>1, <1>2, <2>2 DEF UnpackedLen
  <2> QED
    BY <2>1, <2>2
<1>5. c.len \in Nat /\ NonEmpty(c) = <<c>>
  <2> HIDE DEF c
  <2> QED
    BY <1>3 DEF Chunk, NonEmpty
<1> QED
  BY <1>3, <1>4, <1>5

(* The octets of the parts add up to the declared length. *)
LEMMA TotalFacts ==
    ASSUME NEW f \in Sent, NEW p \in 1..Parts(f)
    PROVE  /\ Total(f, p) \in Nat
           /\ Total(f, 1) = IF Meta[f].lens[1] > 0 THEN UnpackedLen(f, 1) ELSE 0
           /\ p + 1 \in 1..Parts(f) => Total(f, p + 1) = Total(f, p) + UnpackedLen(f, p + 1)
           /\ Total(f, Parts(f)) = DataLength[f]
<1>1. p \in Nat /\ p >= 1 /\ 1 \in 1..Parts(f) /\ Parts(f) \in 1..Parts(f) /\ Parts(f) \in Nat
  BY MetaFacts
<1>2. \A q \in 1..Parts(f) : Pieces(f, q, TRUE) \in Seq(Chunk) /\ Total(f, q) \in Nat
  BY PiecesAre, OctetsFacts DEF Total
<1>3. Total(f, 1) = IF Meta[f].lens[1] > 0 THEN UnpackedLen(f, 1) ELSE 0
  <2> DEFINE c == Unpacked(SentChunk(f, 1), TRUE)
  <2>1. Pieces(f, 1, TRUE) = NonEmpty(c)
    <3>1. c \in Chunk /\ NonEmpty(c) \in Seq(Chunk)
      BY <1>1, SentChunkType, UnpackedType, NonEmptyType
    <3>2. [i \in 1..1-1 |-> Unpacked(SentChunk(f, i + 1), TRUE)] = << >>
      OBVIOUS
    <3>3. \A d \in Seq(Chunk) : d \o << >> = d
      OBVIOUS
    <3>4. Pieces(f, 1, TRUE) = NonEmpty(c) \o << >>
      BY <3>2, Zenon DEF Pieces
    <3> HIDE DEF c
    <3> QED
      BY <3>1, <3>3, <3>4
  <2>2. CASE Meta[f].lens[1] > 0
    <3>1. c \in Chunk /\ c.len = UnpackedLen(f, 1) /\ c.len \in Nat /\ NonEmpty(c) = <<c>>
      BY <1>1, <2>2, UnpackedSent
    <3> HIDE DEF c
    <3>2. << >> \in Seq(Chunk) /\ << >> \o <<c>> = <<c>>
      BY <3>1
    <3>3. Octets(<< >>) = 0
      BY <3>2, OctetsFacts
    <3>4. Octets(<<c>>) = Octets(<< >>) + c.len
      BY <3>1, <3>2, OctetsGrow
    <3>5. Octets(<<c>>) = c.len
      BY <3>1, <3>2, <3>3, <3>4
    <3>6. Pieces(f, 1, TRUE) = <<c>>
      BY <2>1, <3>1
    <3> QED
      BY <2>2, <3>1, <3>5, <3>6 DEF Total
  <2>3. CASE ~(Meta[f].lens[1] > 0)
    <3>1. SentChunk(f, 1) \in Chunk /\ SentChunk(f, 1).len = Meta[f].lens[1]
      BY <1>1, SentChunkType DEF SentChunk
    <3>2. ~(c.len > 0)
      BY <2>3, <3>1, UnpackedType
    <3>3. NonEmpty(c) = << >>
      BY <3>2 DEF NonEmpty
    <3>4. << >> \in Seq(Chunk)
      OBVIOUS
    <3>5. Octets(<< >>) = 0
      BY <3>4, OctetsFacts
    <3> HIDE DEF c
    <3> QED
      BY <2>1, <2>3, <3>3, <3>5 DEF Total
  <2> QED
    BY <2>2, <2>3
<1>4. ASSUME p + 1 \in 1..Parts(f)
      PROVE  Total(f, p + 1) = Total(f, p) + UnpackedLen(f, p + 1)
  <2> DEFINE c == Unpacked(SentChunk(f, p + 1), TRUE)
  <2>1. Meta[f].lens[p + 1] > 0
    <3>1. p + 1 \in 2..Parts(f)
      BY <1>1, <1>4
    <3> QED
      BY <3>1, MetaFacts
  <2>2. c \in Chunk /\ c.len = UnpackedLen(f, p + 1) /\ NonEmpty(c) = <<c>>
    BY <1>4, <2>1, UnpackedSent
  <2>3. Pieces(f, p + 1, TRUE) = Pieces(f, p, TRUE) \o NonEmpty(c)
    BY <1>4, PiecesGrow
  <2> HIDE DEF c
  <2>4. Octets(Pieces(f, p, TRUE) \o <<c>>) = Octets(Pieces(f, p, TRUE)) + c.len
    BY <1>2, <2>2, OctetsGrow
  <2> QED
    BY <2>2, <2>3, <2>4 DEF Total
<1>5. Total(f, Parts(f)) = DataLength[f]
  <2>1. Original[f] = Pieces(f, Parts(f), TRUE)
    BY Zenon DEF Original, Pieces
  <2>2. DataLength[f] = Octets(Original[f])
    BY DEF DataLength
  <2> QED
    BY <2>1, <2>2 DEF Total
<1> QED
  BY <1>2, <1>3, <1>4, <1>5

(***************************************************************************)
(* v is what the first p parts of its file make: they were sent, its       *)
(* chunks are theirs, and as long as its headers are unknown it has at     *)
(* most the last part.                                                     *)
(***************************************************************************)
ValueAt(v, p) ==
    /\ v \in FileType
    /\ p \in 1..Parts(v.file)
    /\ \A i \in 1..p : \E k \in DOMAIN stream : stream[k] = <<v.file, i>>
    /\ \A i \in DOMAIN v.data :
          /\ v.data[i].file = v.file /\ v.data[i].part \in 1..p
          /\ Meta[v.file].lens[v.data[i].part] > 0
    /\ \A i \in 2..p : \E j \in DOMAIN v.data : v.data[j].part = i
    /\ ~v.ready => /\ v.data = NonEmpty(SentChunk(v.file, p))
                   /\ \A i \in 1..p-1 : Meta[v.file].lens[i] = 0
                   /\ ~EarlyReady(v.file)
    /\ v.ready => Octets(v.data) = Total(v.file, p) - Growth(v.file)

(* The octets of a chunk as Expected has them. *)
ChunkOctets(c) ==
    LET b == Body(Sdu(c)) IN IF c.kind = "plain" /\ IsPacked(Sdu(c)) THEN RowOf(b[1][1]) ELSE b

Known(c) ==
    /\ c \in Chunk
    /\ \E k \in DOMAIN stream : stream[k] = <<c.file, c.part>>
    /\ Meta[c.file].lens[c.part] > 0

(* The octets of a chunk that was sent. *)
LEMMA KnownOctets ==
    ASSUME Sending, NEW k \in 1..Len(stream), NEW c \in Chunk, stream[k] = <<c.file, c.part>>,
           Meta[c.file].lens[c.part] > 0
    PROVE  /\ Sdu(c) = k
           /\ ChunkOctets(c) = IF c.kind = "plain" /\ IsPacked(k) THEN RowOf(Body(k)[1][1]) ELSE Body(k)
           /\ ChunkOctets(c) \in Seq(Octs)
<1>1. Sdu(c) = Place(c.file, c.part)
  BY DEF Sdu, Place
<1>2. Place(c.file, c.part) = k
  BY PlaceIs
<1>3. ChunkOctets(c) = IF c.kind = "plain" /\ IsPacked(k) THEN RowOf(Body(k)[1][1]) ELSE Body(k)
  BY <1>1, <1>2 DEF ChunkOctets
<1>4. stream[k][1] = c.file /\ stream[k][2] = c.part
  OBVIOUS
<1>5. Body(k) \in Seq(Octs) /\ Body(k)[1][1] \in Int
  BY <1>4, BodyFacts
<1>6. RowOf(Body(k)[1][1]) \in Seq(Octs)
  BY <1>5, OctetTypes
<1> QED
  BY <1>1, <1>2, <1>3, <1>5, <1>6

(* The octets of chunks, one behind the other. *)
DataOctets(d) == FlattenSeq([i \in DOMAIN d |-> ChunkOctets(d[i])])

(* What LritFile has a file hold is the octets of its chunks. *)
LEMMA ExpectedIs ==
    ASSUME NEW v
    PROVE  Expected(v) = DataOctets(v.data)
BY DEF Expected, DataOctets, ChunkOctets

(* They are octets, and one more chunk adds its own behind them. *)
LEMMA DataOctetsFacts ==
    ASSUME Sending, NEW d \in Seq(Chunk), \A i \in DOMAIN d : Known(d[i])
    PROVE  /\ DataOctets(d) \in Seq(Octs)
           /\ d = << >> => DataOctets(d) = << >>
           /\ \A c : Known(c) => DataOctets(d \o <<c>>) = DataOctets(d) \o ChunkOctets(c)
<1>0. ASSUME NEW c, Known(c) PROVE ChunkOctets(c) \in Seq(Octs)
  <2>1. PICK k \in DOMAIN stream : stream[k] = <<c.file, c.part>>
    BY <1>0 DEF Known
  <2>2. k \in 1..Len(stream)
    <3>1. stream \in Seq(Nat \X Nat)
      BY FrameMemoryAssumption DEF Sending
    <3> QED
      BY <3>1
  <2> QED
    BY <1>0, <2>1, <2>2, KnownOctets DEF Known
<1> DEFINE e == [i \in DOMAIN d |-> ChunkOctets(d[i])]
<1>1. e \in Seq(Seq(Octs)) /\ Len(e) = Len(d) /\ DOMAIN e = 1..Len(d) /\ DOMAIN d = 1..Len(d)
      /\ Len(d) \in Nat
  <2>1. DOMAIN d = 1..Len(d) /\ Len(d) \in Nat
    OBVIOUS
  <2>2. \A i \in DOMAIN d : ChunkOctets(d[i]) \in Seq(Octs)
    BY <1>0
  <2>3. e \in [1..Len(d) -> Seq(Octs)]
    BY <2>1, <2>2
  <2> HIDE DEF e
  <2>4. \A s \in [1..Len(d) -> Seq(Octs)] :
           s \in Seq(Seq(Octs)) /\ Len(s) = Len(d) /\ DOMAIN s = 1..Len(d)
    BY <2>1
  <2> QED
    BY <2>1, <2>3, <2>4
<1>2. DataOctets(d) = FlattenSeq(e)
  BY DEF DataOctets
<1>3. d = << >> => e = << >>
  <2> HIDE DEF e
  <2> QED
    BY <1>1
<1>4. ASSUME NEW c, Known(c) PROVE DataOctets(d \o <<c>>) = DataOctets(d) \o ChunkOctets(c)
  <2> DEFINE t == d \o <<c>>
             u == [i \in DOMAIN t |-> ChunkOctets(t[i])]
  <2>0. c \in Chunk
    BY <1>4 DEF Known
  <2>1. DOMAIN t = 1..Len(d)+1 /\ t[Len(d)+1] = c /\ \A i \in 1..Len(d) : t[i] = d[i]
    BY <1>1, <2>0
  <2> HIDE DEF t
  <2>2. /\ DOMAIN u = 1..Len(d)+1 /\ u[Len(d)+1] = ChunkOctets(c)
        /\ \A i \in 1..Len(d) : u[i] = ChunkOctets(d[i])
    BY <1>1, <2>1
  <2>3. u = e \o <<ChunkOctets(c)>>
    <3> DEFINE w == e \o <<ChunkOctets(c)>>
    <3>1. \A i \in 1..Len(d) : e[i] = ChunkOctets(d[i])
      BY <1>1
    <3> HIDE DEF e
    <3>2. ChunkOctets(c) \in Seq(Octs)
      BY <1>0, <1>4
    <3>3. w \in Seq(Seq(Octs)) /\ Len(w) = Len(d) + 1 /\ w[Len(d)+1] = ChunkOctets(c)
          /\ \A i \in 1..Len(d) : w[i] = e[i]
      <4>1. e \in Seq(Seq(Octs)) /\ Len(e) = Len(d)
        BY <1>1
      <4>2. /\ w \in Seq(Seq(Octs)) /\ Len(w) = Len(e) + 1
            /\ w[Len(e) + 1] = ChunkOctets(c) /\ \A i \in 1..Len(e) : w[i] = e[i]
        BY <3>2, <4>1, OneMore
      <4> HIDE DEF w
      <4> QED
        BY <4>1, <4>2
    <3>4. u \in Seq(Seq(Octs)) /\ Len(u) = Len(d) + 1
      <4>1. \A i \in 1..Len(d)+1 : u[i] \in Seq(Octs)
        <5> TAKE i \in 1..Len(d)+1
        <5>1. CASE i = Len(d) + 1
          BY <2>2, <3>2, <5>1
        <5>2. CASE i # Len(d) + 1
          <6>1. i \in 1..Len(d)
            BY <1>1, <5>2
          <6>2. ChunkOctets(d[i]) \in Seq(Octs)
            BY <1>0, <1>1, <6>1
          <6> QED
            BY <2>2, <6>1, <6>2
        <5> QED
          BY <5>1, <5>2
      <4>2. u = [i \in DOMAIN u |-> u[i]]
        OBVIOUS
      <4> HIDE DEF u
      <4>3. u \in [1..Len(d)+1 -> Seq(Octs)] /\ Len(d) + 1 \in Nat
        BY <1>1, <2>2, <4>1, <4>2
      <4> QED
        BY <4>3
    <3> HIDE DEF u, w
    <3>5. \A i \in 1..Len(d)+1 : u[i] = w[i]
      <4> TAKE i \in 1..Len(d)+1
      <4>1. i = Len(d) + 1 \/ i \in 1..Len(d)
        BY <1>1
      <4> QED
        BY <2>2, <3>1, <3>3, <4>1
    <3>6. u = w
      BY <3>3, <3>4, <3>5, SameSeq
    <3> QED
      BY <3>6 DEF w
  <2>4. DataOctets(t) = FlattenSeq(u)
    BY DEF DataOctets
  <2>5. ChunkOctets(c) \in Seq(Octs)
    BY <1>0, <1>4
  <2>6. FlattenSeq(e \o <<ChunkOctets(c)>>) = FlattenSeq(e) \o ChunkOctets(c)
    <3> HIDE DEF e
    <3> QED
      BY <1>1, <2>5, FlattenFacts
  <2> QED
    BY <1>2, <2>3, <2>4, <2>6 DEF t
<1> HIDE DEF e
<1> QED
  BY <1>1, <1>2, <1>3, <1>4, FlattenFacts

(* One chunk, or none. *)
LEMMA OneChunk ==
    ASSUME Sending, NEW k \in 1..Len(stream), NEW c \in Chunk, stream[k] = <<c.file, c.part>>,
           c.len > 0 <=> Meta[c.file].lens[c.part] > 0
    PROVE  /\ Octets(NonEmpty(c)) = c.len
           /\ DataOctets(NonEmpty(c)) = IF c.len > 0 THEN ChunkOctets(c) ELSE << >>
<1>1. << >> \in Seq(Chunk) /\ (\A i \in DOMAIN << >> : Known(<< >>[i])) /\ c.len \in Nat
  BY DEF Chunk
<1>2. Octets(<< >>) = 0 /\ DataOctets(<< >>) = << >>
  BY <1>1, OctetsFacts, DataOctetsFacts
<1>3. CASE c.len > 0
  <2>1. NonEmpty(c) = <<c>>
    BY <1>3 DEF NonEmpty
  <2>2. Known(c)
    <3>1. k \in DOMAIN stream
      BY SduFacts
    <3> QED
      BY <1>3, <3>1 DEF Known
  <2>3. ChunkOctets(c) \in Seq(Octs)
    BY <1>3, KnownOctets
  <2>4. << >> \o <<c>> = <<c>>
    OBVIOUS
  <2>5. Octets(<<c>>) = 0 + c.len
    BY <1>1, <1>2, <2>4, OctetsGrow
  <2>6. DataOctets(<<c>>) = << >> \o ChunkOctets(c)
    BY <1>1, <1>2, <2>2, <2>4, DataOctetsFacts
  <2>7. \A s \in Seq(Octs) : << >> \o s = s
    OBVIOUS
  <2> QED
    BY <1>1, <1>3, <2>1, <2>3, <2>5, <2>6, <2>7
<1>4. CASE ~(c.len > 0)
  BY <1>1, <1>2, <1>4 DEF NonEmpty
<1> QED
  BY <1>3, <1>4

(* The chunk of an SDU, as it came and unpacked. *)
CameAs(k, b) ==
    /\ b.file \in Sent /\ b.part \in 1..Parts(b.file) /\ b \in Chunk
    /\ Meta[b.file].lens[b.part] \in Nat /\ b.len = Meta[b.file].lens[b.part]
    /\ Octets(NonEmpty(b)) = b.len /\ DataOctets(NonEmpty(b)) = Body(k)
    /\ Meta[b.file].lens[b.part] > 0 =>
          NonEmpty(b) = <<b>> /\ Known(b) /\ ChunkOctets(b) = Body(k)

UnpackedAs(k, c, f, i) ==
    /\ c \in Chunk /\ c.file = f /\ c.part = i
    /\ NonEmpty(c) = <<c>> /\ Known(c) /\ c.len = UnpackedLen(f, i) /\ c.len \in Nat
    /\ ChunkOctets(c) = IF Meta[f].packed THEN RowOf(Body(k)[1][1]) ELSE Body(k)

(* An SDU of the stream is such a chunk, and unpacked it is such a row. *)
LEMMA SduChunk ==
    ASSUME Sending, NEW k \in 1..Len(stream), NEW f, NEW i, stream[k] = <<f, i>>
    PROVE  /\ CameAs(k, SentChunk(f, i))
           /\ Meta[f].lens[i] > 0 => UnpackedAs(k, Unpacked(SentChunk(f, i), TRUE), f, i)
<1> DEFINE b == SentChunk(f, i)
           c == Unpacked(SentChunk(f, i), TRUE)
<1>1. /\ f \in Sent /\ i \in 1..Parts(f) /\ Meta[f].lens[i] \in Nat /\ k \in DOMAIN stream
      /\ stream[k][1] = f /\ stream[k][2] = i /\ IsPacked(k) = Meta[f].packed
  <2>1. stream[k][1] = f /\ stream[k][2] = i
    OBVIOUS
  <2> QED
    BY <2>1, SduFacts DEF IsPacked
<1>2. b \in Chunk /\ b.file = f /\ b.part = i /\ b.len = Meta[f].lens[i]
      /\ b.kind = IF Meta[f].packed THEN "packed" ELSE "plain"
  BY <1>1, SentChunkType DEF SentChunk
<1> HIDE DEF b
<1>3. Octets(NonEmpty(b)) = b.len
      /\ DataOctets(NonEmpty(b)) = IF b.len > 0 THEN ChunkOctets(b) ELSE << >>
  BY <1>1, <1>2, OneChunk
<1>4. Body(k) \in Seq(Octs) /\ Len(Body(k)) = Meta[f].lens[i]
  BY <1>1, BodyFacts
<1>5. ASSUME Meta[f].lens[i] > 0
      PROVE  NonEmpty(b) = <<b>> /\ Known(b) /\ ChunkOctets(b) = Body(k)
  <2>1. ChunkOctets(b) = IF b.kind = "plain" /\ IsPacked(k) THEN RowOf(Body(k)[1][1]) ELSE Body(k)
    BY <1>1, <1>2, <1>5, KnownOctets
  <2>2. ~(b.kind = "plain" /\ IsPacked(k))
    BY <1>1, <1>2
  <2>3. ChunkOctets(b) = Body(k)
    BY <2>1, <2>2
  <2> QED
    BY <1>1, <1>2, <1>5, <2>3 DEF NonEmpty, Known
<1>6. ASSUME Meta[f].lens[i] > 0
      PROVE  UnpackedAs(k, c, f, i)
  <2>1. /\ c \in Chunk /\ c.file = f /\ c.part = i /\ c.kind = "plain"
        /\ c.len = UnpackedLen(f, i) /\ c.len \in Nat /\ NonEmpty(c) = <<c>>
    BY <1>1, <1>6, UnpackedSent
  <2> HIDE DEF c
  <2>2. ChunkOctets(c) = IF c.kind = "plain" /\ IsPacked(k) THEN RowOf(Body(k)[1][1]) ELSE Body(k)
    BY <1>1, <1>6, <2>1, KnownOctets
  <2>3. Known(c)
    BY <1>1, <1>6, <2>1 DEF Known
  <2> QED
    BY <1>1, <2>1, <2>2, <2>3 DEF UnpackedAs
<1>7. DataOctets(NonEmpty(b)) = Body(k)
  <2>1. CASE b.len > 0
    BY <1>2, <1>3, <1>5, <2>1
  <2>2. CASE ~(b.len > 0)
    <3>1. Len(Body(k)) = 0
      BY <1>1, <1>2, <1>4, <2>2
    <3>2. Body(k) = << >>
      BY <1>4, <3>1
    <3> QED
      BY <1>3, <2>2, <3>2
  <2> QED
    BY <2>1, <2>2
<1>8. CameAs(k, b)
  BY <1>1, <1>2, <1>3, <1>5, <1>7 DEF CameAs
<1> HIDE DEF c
<1> QED
  BY <1>2, <1>6, <1>8 DEF b, c

(* What is known of such a value. *)
LEMMA ValueFacts ==
    ASSUME Sending, NEW v, NEW p, ValueAt(v, p)
    PROVE  /\ v.file \in Sent /\ v.ready \in BOOLEAN /\ v.data \in Seq(Chunk)
           /\ p \in 1..Parts(v.file) /\ p \in Nat /\ p >= 1 /\ Octets(v.data) \in Nat
           /\ \A i \in DOMAIN v.data : Known(v.data[i])
           /\ Expected(v) \in Seq(Octs)
           /\ \A i \in 1..p : /\ Place(v.file, i) \in 1..Len(stream)
                              /\ stream[Place(v.file, i)] = <<v.file, i>>
           /\ ~v.ready => /\ Octets(v.data) = Meta[v.file].lens[p]
                          /\ Expected(v) = Body(Place(v.file, p))
<1>1. /\ v.file \in Sent /\ v.ready \in BOOLEAN /\ v.data \in Seq(Chunk)
      /\ p \in 1..Parts(v.file)
  BY DEF ValueAt, FileType
<1>2. p \in Nat /\ p >= 1 /\ p \in 1..p /\ Octets(v.data) \in Nat
  BY <1>1, MetaFacts, OctetsFacts
<1>3. DOMAIN stream = 1..Len(stream)
  <2>1. stream \in Seq(Nat \X Nat)
    BY FrameMemoryAssumption DEF Sending
  <2> QED
    BY <2>1
<1>4. \A i \in 1..p : /\ Place(v.file, i) \in 1..Len(stream)
                      /\ stream[Place(v.file, i)] = <<v.file, i>>
  BY <1>3, Zenon DEF ValueAt, Place
<1>5. ASSUME NEW i \in DOMAIN v.data PROVE Known(v.data[i])
  <2>1. v.data[i].file = v.file /\ v.data[i].part \in 1..p /\ v.data[i] \in Chunk
        /\ Meta[v.file].lens[v.data[i].part] > 0
    BY <1>1 DEF ValueAt
  <2>2. \E k \in DOMAIN stream : stream[k] = <<v.file, v.data[i].part>>
    BY <2>1 DEF ValueAt
  <2> QED
    BY <2>1, <2>2 DEF Known
<1>6. Expected(v) \in Seq(Octs)
  BY <1>1, <1>5, ExpectedIs, DataOctetsFacts
<1>7. ASSUME ~v.ready
      PROVE  /\ Octets(v.data) = Meta[v.file].lens[p]
             /\ Expected(v) = Body(Place(v.file, p))
  <2>1. v.data = NonEmpty(SentChunk(v.file, p))
    BY <1>7 DEF ValueAt
  <2> DEFINE b == SentChunk(v.file, p)
  <2>2. b.file = v.file /\ b.part = p /\ CameAs(Place(v.file, p), b)
    BY <1>2, <1>4, SduChunk DEF SentChunk
  <2> HIDE DEF b
  <2>3. /\ b.len = Meta[v.file].lens[p] /\ Octets(NonEmpty(b)) = b.len
        /\ DataOctets(NonEmpty(b)) = Body(Place(v.file, p))
    BY <2>2 DEF CameAs
  <2> QED
    BY <2>1, <2>3, ExpectedIs DEF b
<1> QED
  BY <1>1, <1>2, <1>4, <1>5, <1>6, <1>7

(* A file that is opened. *)
LEMMA ValueOpen ==
    ASSUME Sending, NEW k \in 1..Len(stream), NEW f, stream[k] = <<f, 1>>
    PROVE  LET v == OpenNew(f) IN
           /\ ValueAt(v, 1) /\ v.file = f
           /\ Octets(v.data) = Meta[f].lens[1] /\ Expected(v) = Body(k)
<1> DEFINE v == OpenNew(f)
           b == SentChunk(f, 1)
<1>0. b.file = f /\ b.part = 1 /\ CameAs(k, b)
  BY SduChunk DEF SentChunk
<1> HIDE DEF b
<1>1. /\ f \in Sent /\ 1 \in 1..Parts(f) /\ Meta[f].lens[1] \in Nat
      /\ b \in Chunk /\ b.file = f /\ b.part = 1 /\ b.len = Meta[f].lens[1]
      /\ Octets(NonEmpty(b)) = b.len /\ DataOctets(NonEmpty(b)) = Body(k)
      /\ Meta[f].lens[1] > 0 => NonEmpty(b) = <<b>>
  BY <1>0 DEF CameAs
<1>2. v \in FileType /\ v.file = f /\ Meta[f].flagged \in BOOLEAN /\ k \in DOMAIN stream
  BY <1>1, OpenNewType, MetaFacts, SduFacts
<1>3. v.data = NonEmpty(b) /\ v.ready = (Meta[f].flagged /\ Octets(NonEmpty(b)) > 0)
  BY Zenon DEF OpenNew, MakeSecondaryHeaders, b
<1> HIDE DEF v
<1>4. v.ready <=> EarlyReady(f)
  BY <1>1, <1>2, <1>3 DEF EarlyReady
<1>5. ASSUME NEW i \in DOMAIN v.data
      PROVE  v.data[i].file = f /\ v.data[i].part \in 1..1 /\ Meta[f].lens[v.data[i].part] > 0
  <2>1. CASE b.len > 0
    <3>1. v.data = <<b>>
      BY <1>3, <2>1 DEF NonEmpty
    <3>2. v.data[i] = b
      BY <3>1
    <3> QED
      BY <1>1, <2>1, <3>2
  <2>2. CASE ~(b.len > 0)
    <3>1. v.data = << >>
      BY <1>3, <2>2 DEF NonEmpty
    <3> QED
      BY <3>1
  <2> QED
    BY <2>1, <2>2
<1>6. v.ready => Octets(v.data) = Total(f, 1) - Growth(f)
  <2> SUFFICES ASSUME v.ready PROVE Octets(v.data) = Total(f, 1) - Growth(f)
    OBVIOUS
  <2>1. EarlyReady(f) /\ Meta[f].lens[1] > 0 /\ Octets(v.data) = Meta[f].lens[1]
    BY <1>1, <1>3, <1>4 DEF EarlyReady
  <2>2. Total(f, 1) = UnpackedLen(f, 1)
    BY <1>1, <2>1, TotalFacts
  <2> QED
    BY <1>1, <2>1, <2>2, LengthFacts DEF UnpackedLen, Growth
<1>7. \A i \in 1..1 : \E j \in DOMAIN stream : stream[j] = <<f, i>>
  BY <1>2
<1>8. ~v.ready => /\ v.data = NonEmpty(SentChunk(f, 1))
                  /\ \A i \in 1..1-1 : Meta[f].lens[i] = 0
                  /\ ~EarlyReady(f)
  BY <1>3, <1>4 DEF b
<1>9. ValueAt(v, 1)
  <2>1. \A i \in 2..1 : \E j \in DOMAIN v.data : v.data[j].part = i
    OBVIOUS
  <2> QED
    BY <1>1, <1>2, <1>5, <1>6, <1>7, <1>8, <2>1 DEF ValueAt
<1>10. Octets(v.data) = Meta[f].lens[1] /\ Expected(v) = Body(k)
  BY <1>1, <1>3, ExpectedIs
<1> QED
  BY <1>2, <1>9, <1>10 DEF v

(* The chunks d of a file's first p parts, as the next part finds them: those *)
(* it had, unpacked if its headers become known only now.                    *)
GetsReady(v) == v.ready \/ Octets(v.data) > 0
ReadyNow(v) == ~v.ready /\ Octets(v.data) > 0

OldOctets(v) ==
    IF ReadyNow(v) /\ Meta[v.file].packed THEN RowOf(Expected(v)[1][1]) ELSE Expected(v)
OldLen(v, p) == IF ReadyNow(v) THEN UnpackedLen(v.file, p) ELSE Octets(v.data)

OldChunks(v, p, d) ==
    /\ d \in Seq(Chunk)
    /\ \A i \in DOMAIN d : /\ d[i].file = v.file /\ d[i].part \in 1..p
                           /\ Meta[v.file].lens[d[i].part] > 0
    /\ \A i \in DOMAIN v.data : i \in DOMAIN d /\ d[i].part = v.data[i].part
    /\ Octets(d) = OldLen(v, p) /\ DataOctets(d) = OldOctets(v)
    /\ GetsReady(v) => Octets(d) = Total(v.file, p) - Growth(v.file)
    /\ ~GetsReady(v) => d = << >> /\ Meta[v.file].lens[p] = 0

(* Those are the chunks AppendSDU has. *)
Kept(v) ==
    IF v.ready THEN v.data
    ELSE [i \in DOMAIN v.data |->
            IF GetsReady(v) /\ Meta[v.file].packed THEN Unpacked(v.data[i], TRUE) ELSE v.data[i]]

(* They hold the octets of the parts that came, unpacked if the headers get ready. *)
LEMMA KeptChunks ==
    ASSUME Sending, NEW v, NEW p, ValueAt(v, p)
    PROVE  OldChunks(v, p, Kept(v))
<1> DEFINE f == v.file
           k == Place(f, p)
<1>1. /\ f \in Sent /\ v.ready \in BOOLEAN /\ v.data \in Seq(Chunk) /\ p \in 1..Parts(f)
      /\ p \in Nat /\ p >= 1 /\ Octets(v.data) \in Nat
      /\ k \in 1..Len(stream) /\ stream[k] = <<f, p>>
      /\ ~v.ready => Octets(v.data) = Meta[f].lens[p] /\ Expected(v) = Body(k)
  <2>1. /\ f \in Sent /\ v.ready \in BOOLEAN /\ v.data \in Seq(Chunk) /\ p \in 1..Parts(f)
        /\ p \in Nat /\ p >= 1 /\ Octets(v.data) \in Nat
    BY ValueFacts
  <2>2. \A i \in 1..p : Place(f, i) \in 1..Len(stream) /\ stream[Place(f, i)] = <<f, i>>
    BY ValueFacts
  <2>3. ~v.ready => Octets(v.data) = Meta[f].lens[p] /\ Expected(v) = Body(k)
    BY ValueFacts
  <2>4. p \in 1..p
    BY <2>1
  <2> HIDE DEF f
  <2> QED
    BY <2>1, <2>2, <2>3, <2>4
<1>2. /\ \A i \in DOMAIN v.data : /\ v.data[i].file = f /\ v.data[i].part \in 1..p
                                  /\ Meta[f].lens[v.data[i].part] > 0
      /\ ~v.ready => /\ v.data = NonEmpty(SentChunk(f, p))
                     /\ \A i \in 1..p-1 : Meta[f].lens[i] = 0
                     /\ ~EarlyReady(f)
      /\ v.ready => Octets(v.data) = Total(f, p) - Growth(f)
  BY DEF ValueAt
<1>3. DataOctets(v.data) = Expected(v)
  BY ExpectedIs
<1> DEFINE b == SentChunk(f, p)
           c == Unpacked(SentChunk(f, p), TRUE)
<1>4. CameAs(k, b) /\ (Meta[f].lens[p] > 0 => UnpackedAs(k, c, f, p)) /\ b.file = f /\ b.part = p
  <2>1. CameAs(k, b) /\ (Meta[f].lens[p] > 0 => UnpackedAs(k, c, f, p))
    BY <1>1, SduChunk
  <2>2. b.file = f /\ b.part = p
    BY DEF SentChunk
  <2> HIDE DEF b, c, f, k
  <2> QED
    BY <2>1, <2>2
<1>5. ~Meta[f].packed => c = b
  BY <1>1, PlainPieces
<1>6. c = Unpacked(b, TRUE) /\ b = SentChunk(f, p)
  OBVIOUS
<1>7. f = v.file
  OBVIOUS
<1> HIDE DEF f, k, b, c
<1>8. CASE v.ready
  <2>1. Kept(v) = v.data /\ ~ReadyNow(v) /\ GetsReady(v)
    BY <1>8 DEF Kept, ReadyNow, GetsReady
  <2>2. OldLen(v, p) = Octets(v.data) /\ OldOctets(v) = Expected(v)
    BY <2>1 DEF OldLen, OldOctets
  <2> QED
    BY <1>1, <1>2, <1>3, <1>7, <1>8, <2>1, <2>2 DEF OldChunks
<1>9. CASE ~v.ready /\ Octets(v.data) = 0
  <2>1. ~ReadyNow(v) /\ ~GetsReady(v) /\ Meta[f].lens[p] = 0
    BY <1>1, <1>9 DEF ReadyNow, GetsReady
  <2>2. v.data = << >>
    BY <1>2, <1>4, <1>6, <1>9, <2>1 DEF CameAs, NonEmpty
  <2>3. Kept(v) = << >>
    BY <1>9, <2>2 DEF Kept
  <2>4. OldLen(v, p) = Octets(v.data) /\ OldOctets(v) = Expected(v)
    BY <2>1 DEF OldLen, OldOctets
  <2> QED
    BY <1>1, <1>2, <1>3, <1>7, <2>1, <2>2, <2>3, <2>4 DEF OldChunks
<1>10. CASE ~v.ready /\ Octets(v.data) > 0
  <2>1. ReadyNow(v) /\ GetsReady(v) /\ Meta[f].lens[p] > 0
    BY <1>1, <1>10 DEF ReadyNow, GetsReady
  <2>2. v.data = <<b>> /\ Known(b) /\ ChunkOctets(b) = Body(k)
    BY <1>2, <1>4, <1>6, <1>10, <2>1 DEF CameAs
  <2>3. /\ c \in Chunk /\ c.file = f /\ c.part = p /\ Known(c) /\ c.len = UnpackedLen(f, p)
        /\ c.len \in Nat /\ NonEmpty(c) = <<c>>
        /\ ChunkOctets(c) = IF Meta[f].packed THEN RowOf(Body(k)[1][1]) ELSE Body(k)
    BY <1>4, <2>1 DEF UnpackedAs
  <2>4. Kept(v) = <<c>>
    <3>1. Kept(v) = [i \in DOMAIN v.data |->
            IF GetsReady(v) /\ Meta[f].packed THEN Unpacked(v.data[i], TRUE) ELSE v.data[i]]
      BY <1>7, <1>10 DEF Kept
    <3>2. DOMAIN v.data = 1..1 /\ v.data[1] = b
      BY <2>2
    <3>3. (IF GetsReady(v) /\ Meta[f].packed THEN Unpacked(b, TRUE) ELSE b) = c
      BY <1>5, <1>6, <2>1
    <3>4. Kept(v) = [i \in 1..1 |-> c]
      <4>1. \A i \in DOMAIN v.data : v.data[i] = b
        BY <3>2
      <4>2. \A i \in DOMAIN v.data :
               (IF GetsReady(v) /\ Meta[f].packed THEN Unpacked(v.data[i], TRUE) ELSE v.data[i]) = c
        BY <3>3, <4>1
      <4> QED
        BY <3>1, <3>2, <4>2
    <3> QED
      BY <3>4
  <2>5. Octets(<<c>>) = UnpackedLen(f, p) /\ DataOctets(<<c>>) = ChunkOctets(c)
    <3>1. << >> \in Seq(Chunk) /\ (\A i \in DOMAIN << >> : Known(<< >>[i])) /\ << >> \o <<c>> = <<c>>
      BY <2>3
    <3>2. Octets(<< >>) = 0 /\ DataOctets(<< >>) = << >>
      BY <3>1, OctetsFacts, DataOctetsFacts
    <3>3. Octets(<<c>>) = 0 + c.len
      BY <2>3, <3>1, <3>2, OctetsGrow
    <3>4. DataOctets(<<c>>) = << >> \o ChunkOctets(c)
      BY <2>3, <3>1, <3>2, DataOctetsFacts
    <3>5. ChunkOctets(c) \in Seq(Octs)
      <4>1. k \in 1..Len(stream) /\ stream[k] = <<c.file, c.part>> /\ Meta[c.file].lens[c.part] > 0
        BY <1>1, <2>1, <2>3
      <4> QED
        BY <2>3, <4>1, KnownOctets
    <3>6. \A s \in Seq(Octs) : << >> \o s = s
      OBVIOUS
    <3> QED
      BY <2>3, <3>3, <3>4, <3>5, <3>6
  <2>6. OldOctets(v) = DataOctets(<<c>>)
    BY <1>1, <1>7, <1>10, <2>1, <2>3, <2>5 DEF OldOctets
  <2>7. OldLen(v, p) = UnpackedLen(f, p)
    BY <1>7, <2>1 DEF OldLen
  <2>8. UnpackedLen(f, p) = Total(f, p) - Growth(f)
    <3>1. Growth(f) = 0
      BY <1>2, <1>10 DEF Growth
    <3>2. p = 1 \/ p = 2
      <4>1. p - 1 >= 2 => 2 \in 1..p-1 /\ 2 \in 2..Parts(f)
        BY <1>1, MetaFacts
      <4>2. 2 \in 2..Parts(f) => Meta[f].lens[2] > 0
        BY <1>1, MetaFacts
      <4>3. ~(p - 1 >= 2)
        BY <1>2, <1>10, <4>1, <4>2
      <4> QED
        BY <1>1, <4>3
    <3>3. /\ Total(f, 1) = IF Meta[f].lens[1] > 0 THEN UnpackedLen(f, 1) ELSE 0
          /\ Total(f, p) \in Nat
      BY <1>1, TotalFacts
    <3>4. UnpackedLen(f, p) \in Nat
      BY <2>3
    <3>5. CASE p = 1
      BY <2>1, <3>1, <3>3, <3>4, <3>5
    <3>6. CASE p = 2
      <4>1. 1 \in 1..p-1 /\ 1 \in 1..Parts(f) /\ 1 + 1 = p
        BY <1>1, <3>6, MetaFacts
      <4>2. Meta[f].lens[1] = 0
        BY <1>2, <1>10, <4>1
      <4>3. Total(f, 1) = 0
        BY <3>3, <4>2
      <4>4. Total(f, 1 + 1) = Total(f, 1) + UnpackedLen(f, 1 + 1)
        BY <1>1, <4>1, TotalFacts
      <4> QED
        BY <3>1, <3>4, <4>1, <4>3, <4>4
    <3> QED
      BY <3>2, <3>5, <3>6
  <2>9. <<c>> \in Seq(Chunk) /\ \A i \in DOMAIN <<c>> : <<c>>[i] = c
    BY <2>3
  <2>10. p \in 1..p
    BY <1>1
  <2>11. \A i \in DOMAIN <<c>> : /\ <<c>>[i].file = f /\ <<c>>[i].part \in 1..p
                                 /\ Meta[f].lens[<<c>>[i].part] > 0
    BY <2>1, <2>3, <2>9, <2>10
  <2> DEFINE d == <<c>>
  <2> HIDE DEF d
  <2>12. Kept(v) = d /\ d \in Seq(Chunk) /\ Octets(d) = UnpackedLen(f, p)
         /\ OldOctets(v) = DataOctets(d)
    BY <2>4, <2>5, <2>6, <2>9 DEF d
  <2>13. \A i \in DOMAIN v.data : i \in DOMAIN d /\ d[i].part = v.data[i].part
    <3>1. DOMAIN v.data = DOMAIN d /\ \A i \in DOMAIN v.data : v.data[i] = b /\ d[i] = c
      BY <2>2 DEF d
    <3> QED
      BY <1>4, <2>3, <3>1
  <2>14. \A i \in DOMAIN d : /\ d[i].file = f /\ d[i].part \in 1..p
                             /\ Meta[f].lens[d[i].part] > 0
    BY <2>11 DEF d
  <2> QED
    BY <1>7, <2>1, <2>7, <2>8, <2>12, <2>13, <2>14 DEF OldChunks
<1> QED
  BY <1>1, <1>8, <1>9, <1>10

(* The next part joins. *)
NewOctets(v, k) ==
    IF GetsReady(v) /\ Meta[v.file].packed THEN RowOf(Body(k)[1][1]) ELSE Body(k)
NewLen(v, p) ==
    IF GetsReady(v) THEN UnpackedLen(v.file, p + 1) ELSE Meta[v.file].lens[p + 1]

JoinedAs(v, p, k, w) ==
    /\ ValueAt(w, p + 1) /\ w.file = v.file /\ w.ready = GetsReady(v)
    /\ Octets(w.data) = OldLen(v, p) + NewLen(v, p)
    /\ Expected(w) = OldOctets(v) \o NewOctets(v, k)
    /\ OldLen(v, p) \in Nat /\ NewLen(v, p) \in Nat
    /\ OldOctets(v) \in Seq(Octs) /\ NewOctets(v, k) \in Seq(Octs)

(* AppendSDU with the next part of a file adds the octets of that part. *)
LEMMA ValueJoin ==
    ASSUME Sending, NEW v, NEW p, ValueAt(v, p),
           NEW k \in 1..Len(stream), stream[k] = <<v.file, p + 1>>
    PROVE  JoinedAs(v, p, k, AppendSDU(v, SentChunk(v.file, p + 1), TRUE))
<1> DEFINE f == v.file
           w == AppendSDU(v, SentChunk(f, p + 1), TRUE)
           b == SentChunk(f, p + 1)
           c == Unpacked(SentChunk(f, p + 1), TRUE)
           d == Kept(v)
<1>1. /\ f \in Sent /\ v.ready \in BOOLEAN /\ v.data \in Seq(Chunk) /\ p \in 1..Parts(f)
      /\ p \in Nat /\ p >= 1 /\ Octets(v.data) \in Nat /\ v \in FileType
  BY ValueFacts DEF ValueAt
<1>2. p + 1 \in 1..Parts(f) /\ p + 1 \in 2..Parts(f) /\ Meta[f].lens[p + 1] > 0
      /\ Meta[f].lens[p + 1] \in Nat
  <2>1. p + 1 \in 1..Parts(f) /\ Meta[f].lens[p + 1] \in Nat
    <3>1. stream[k][1] = f /\ stream[k][2] = p + 1
      OBVIOUS
    <3> HIDE DEF f
    <3> QED
      BY <3>1, SduFacts
  <2>2. p + 1 \in 2..Parts(f)
    BY <1>1, <2>1, MetaFacts
  <2> QED
    BY <1>1, <2>1, <2>2, MetaFacts
<1>3. OldChunks(v, p, d)
  BY KeptChunks
<1>4. /\ d \in Seq(Chunk)
      /\ \A i \in DOMAIN d : /\ d[i].file = f /\ d[i].part \in 1..p
                             /\ Meta[f].lens[d[i].part] > 0
      /\ \A i \in DOMAIN v.data : i \in DOMAIN d /\ d[i].part = v.data[i].part
      /\ Octets(d) = OldLen(v, p) /\ DataOctets(d) = OldOctets(v)
      /\ GetsReady(v) => Octets(d) = Total(f, p) - Growth(f)
      /\ ~GetsReady(v) => d = << >> /\ Meta[f].lens[p] = 0
  <2> HIDE DEF d
  <2> QED
    BY <1>3 DEF OldChunks
<1>5. CameAs(k, b) /\ UnpackedAs(k, c, f, p + 1) /\ b.file = f /\ b.part = p + 1
      /\ b.len = Meta[f].lens[p + 1]
  <2>1. CameAs(k, b) /\ UnpackedAs(k, c, f, p + 1)
    BY <1>2, SduChunk
  <2>2. b.file = f /\ b.part = p + 1 /\ b.len = Meta[f].lens[p + 1]
    BY DEF SentChunk
  <2> HIDE DEF b, c, f
  <2> QED
    BY <2>1, <2>2
<1>6. ~Meta[f].packed => c = b
  BY <1>1, PlainPieces
<1> DEFINE e == IF GetsReady(v) /\ Meta[f].packed THEN c ELSE b
<1>7. w.file = f /\ w.ready = GetsReady(v) /\ w.data = d \o NonEmpty(e) /\ w \in FileType
  <2>1. w \in FileType
    BY <1>1, <1>2, SentChunkType, AppendType
  <2>2. w = [v EXCEPT !.ready = GetsReady(v), !.data = d \o NonEmpty(e)]
    BY Zenon DEF AppendSDU, Kept, GetsReady, MakeSecondaryHeaders
  <2> HIDE DEF d, e, w, f
  <2>3. w.file = v.file /\ w.ready = GetsReady(v) /\ w.data = d \o NonEmpty(e)
    BY <1>1, <2>2 DEF FileType
  <2> QED
    BY <2>1, <2>3 DEF f
<1> HIDE DEF w, b, c, d
<1>8. /\ c \in Chunk /\ c.file = f /\ c.part = p + 1 /\ Known(c) /\ c.len = UnpackedLen(f, p + 1)
      /\ c.len \in Nat /\ NonEmpty(c) = <<c>>
      /\ ChunkOctets(c) = IF Meta[f].packed THEN RowOf(Body(k)[1][1]) ELSE Body(k)
  BY <1>5 DEF UnpackedAs
<1>9. /\ b \in Chunk /\ NonEmpty(b) = <<b>> /\ Known(b) /\ ChunkOctets(b) = Body(k)
  BY <1>2, <1>5 DEF CameAs
<1>10. /\ e \in Chunk /\ e.file = f /\ e.part = p + 1 /\ Known(e) /\ NonEmpty(e) = <<e>>
       /\ e.len = NewLen(v, p) /\ ChunkOctets(e) = NewOctets(v, k) /\ e.len \in Nat
  <2> HIDE DEF f
  <2>1. f = v.file
    BY DEF f
  <2>2. CASE GetsReady(v) /\ Meta[f].packed
    BY <1>8, <2>1, <2>2 DEF NewLen, NewOctets
  <2>3. CASE GetsReady(v) /\ ~Meta[f].packed
    BY <1>5, <1>6, <1>8, <1>9, <2>1, <2>3 DEF NewLen, NewOctets
  <2>4. CASE ~GetsReady(v)
    BY <1>2, <1>5, <1>9, <2>1, <2>4 DEF NewLen, NewOctets
  <2> QED
    BY <2>2, <2>3, <2>4
<1> HIDE DEF e
<1>11. w.data = d \o <<e>>
  BY <1>7, <1>10
<1>12. \A i \in DOMAIN d : Known(d[i])
  <2>1. \A i \in 1..p : \E j \in DOMAIN stream : stream[j] = <<f, i>>
    BY DEF ValueAt
  <2> TAKE i \in DOMAIN d
  <2>2. d[i] \in Chunk /\ d[i].file = f /\ d[i].part \in 1..p /\ Meta[f].lens[d[i].part] > 0
    BY <1>4
  <2> HIDE DEF f
  <2> QED
    BY <2>1, <2>2 DEF Known
<1>13. Octets(w.data) = OldLen(v, p) + NewLen(v, p)
  BY <1>4, <1>10, <1>11, OctetsGrow
<1>14. Expected(w) = OldOctets(v) \o NewOctets(v, k)
  <2>1. DataOctets(d \o <<e>>) = DataOctets(d) \o ChunkOctets(e)
    BY <1>4, <1>10, <1>12, DataOctetsFacts
  <2>2. Expected(w) = DataOctets(w.data)
    BY ExpectedIs
  <2> QED
    BY <1>4, <1>10, <1>11, <2>1, <2>2
<1>15. /\ OldLen(v, p) \in Nat /\ NewLen(v, p) \in Nat
       /\ OldOctets(v) \in Seq(Octs) /\ NewOctets(v, k) \in Seq(Octs)
  <2>1. OldLen(v, p) \in Nat /\ NewLen(v, p) \in Nat
    BY <1>4, <1>10, OctetsFacts
  <2>2. OldOctets(v) \in Seq(Octs)
    BY <1>4, <1>12, DataOctetsFacts
  <2>3. NewOctets(v, k) \in Seq(Octs)
    <3>1. k \in 1..Len(stream) /\ stream[k] = <<e.file, e.part>> /\ Meta[e.file].lens[e.part] > 0
      BY <1>2, <1>10
    <3> QED
      BY <1>10, <3>1, KnownOctets
  <2> QED
    BY <2>1, <2>2, <2>3
<1>16. ValueAt(w, p + 1)
  <2>1. \A i \in 1..p+1 : \E j \in DOMAIN stream : stream[j] = <<f, i>>
    <3>1. \A i \in 1..p : \E j \in DOMAIN stream : stream[j] = <<f, i>>
      BY DEF ValueAt
    <3>2. \A i \in 1..p+1 : i \in 1..p \/ i = p + 1
      BY <1>1
    <3>3. k \in DOMAIN stream
      BY SduFacts
    <3> HIDE DEF f
    <3>4. stream[k] = <<f, p + 1>>
      BY DEF f
    <3> QED
      BY <3>1, <3>2, <3>3, <3>4
  <2>2. \A i \in DOMAIN w.data : /\ w.data[i].file = f /\ w.data[i].part \in 1..p+1
                                 /\ Meta[f].lens[w.data[i].part] > 0
    <3> TAKE i \in DOMAIN w.data
    <3>1. i = Len(d) + 1 \/ i \in 1..Len(d)
      BY <1>4, <1>10, <1>11
    <3>2. w.data[Len(d) + 1] = e /\ \A j \in 1..Len(d) : w.data[j] = d[j]
      BY <1>4, <1>10, <1>11, OneMore
    <3>3. CASE i = Len(d) + 1
      <4>1. p + 1 \in 1..p+1
        BY <1>1
      <4> QED
        BY <1>2, <1>10, <3>2, <3>3, <4>1
    <3>4. CASE i \in 1..Len(d)
      <4>1. i \in DOMAIN d /\ w.data[i] = d[i]
        BY <1>4, <3>2, <3>4
      <4>2. d[i].file = f /\ d[i].part \in 1..p /\ Meta[f].lens[d[i].part] > 0
        BY <1>4, <4>1
      <4>3. 1..p \subseteq 1..p+1
        BY <1>1
      <4> QED
        BY <4>1, <4>2, <4>3
    <3> QED
      BY <3>1, <3>3, <3>4
  <2>3. ASSUME ~GetsReady(v)
        PROVE  /\ w.data = NonEmpty(SentChunk(f, p + 1))
               /\ \A i \in 1..(p + 1)-1 : Meta[f].lens[i] = 0
               /\ ~EarlyReady(f)
    <3>1. d = << >> /\ Meta[f].lens[p] = 0 /\ e = b /\ ~v.ready
      BY <1>4, <2>3 DEF e, GetsReady
    <3>2. << >> \o <<b>> = <<b>>
      OBVIOUS
    <3>3. w.data = NonEmpty(b)
      BY <1>9, <1>11, <3>1, <3>2
    <3>4. (\A i \in 1..p-1 : Meta[f].lens[i] = 0) /\ ~EarlyReady(f)
      BY <3>1 DEF ValueAt
    <3>5. \A i \in 1..(p + 1)-1 : i \in 1..p-1 \/ i = p
      BY <1>1
    <3> HIDE DEF f
    <3> QED
      BY <3>1, <3>3, <3>4, <3>5 DEF b
  <2>4. ASSUME GetsReady(v)
        PROVE  Octets(w.data) = Total(f, p + 1) - Growth(f)
    <3>1. Octets(w.data) = (Total(f, p) - Growth(f)) + UnpackedLen(f, p + 1)
      BY <1>4, <1>10, <1>13, <2>4 DEF NewLen
    <3>2. Total(f, p + 1) = Total(f, p) + UnpackedLen(f, p + 1) /\ Total(f, p) \in Nat
          /\ Total(f, p + 1) \in Nat
      BY <1>1, <1>2, TotalFacts
    <3>3. UnpackedLen(f, p + 1) \in Nat
      BY <1>8
    <3>4. Growth(f) \in Int
      <4>1. 1 \in 1..Parts(f)
        BY <1>1, MetaFacts
      <4>2. Meta[f].lens[1] \in Nat
        BY <1>1, <4>1, MetaFacts
      <4> QED
        BY <4>2, LengthFacts DEF Growth
    <3> HIDE DEF f
    <3> QED
      BY <3>1, <3>2, <3>3, <3>4
  <2>5. \A i \in 2..p+1 : \E j \in DOMAIN w.data : w.data[j].part = i
    <3> TAKE i \in 2..p+1
    <3>1. DOMAIN w.data = 1..Len(d)+1 /\ w.data[Len(d) + 1] = e
          /\ DOMAIN d = 1..Len(d) /\ Len(d) \in Nat /\ \A j \in 1..Len(d) : w.data[j] = d[j]
      BY <1>4, <1>10, <1>11, OneMore
    <3>2. CASE i = p + 1
      <4>1. Len(d) + 1 \in DOMAIN w.data
        BY <3>1
      <4> QED
        BY <1>10, <3>1, <3>2, <4>1
    <3>3. CASE i # p + 1
      <4>1. i \in 2..p
        BY <1>1, <3>3
      <4>2. PICK j \in DOMAIN v.data : v.data[j].part = i
        BY <4>1 DEF ValueAt
      <4>3. j \in DOMAIN d /\ d[j].part = i
        BY <1>4, <4>2
      <4>4. j \in DOMAIN w.data /\ w.data[j] = d[j]
        BY <3>1, <4>3
      <4> QED
        BY <4>3, <4>4
    <3> QED
      BY <3>2, <3>3
  <2> HIDE DEF f
  <2> QED
    BY <1>2, <1>7, <2>1, <2>2, <2>3, <2>4, <2>5 DEF ValueAt
<1>17. JoinedAs(v, p, k, w)
  BY <1>7, <1>13, <1>14, <1>15, <1>16 DEF JoinedAs
<1> QED
  BY <1>17 DEF w
-----------------------------------------------------------------------------
(* Slices.                                                                  *)

MemOK(m) == m \in [0..TotalLen-1 -> Octs]

(* A slice holds the headers of its file and ends in its frame. *)
SliceOK(f) ==
    /\ f \in Slice /\ HeadLen <= f.len
    /\ f.at = Nil => f.len = Len(f.own)
    /\ f.at # Nil => f.at + f.len <= ZoneEnd(f.at) /\ ZoneEnd(f.at) <= TotalLen

(* A file being worked on, and the buffers. *)
States == [file : Slice, mem : [0..TotalLen-1 -> Octs]]

(* The fields of a slice. *)
LEMMA SliceFacts ==
    ASSUME NEW f, SliceOK(f)
    PROVE  /\ f \in Slice /\ f.value \in FileType /\ f.ready \in BOOLEAN /\ f.len \in Nat
           /\ f.at \in Nat \cup {Nil} /\ f.own \in Seq(Octs) /\ HeadLen <= f.len
           /\ f.at # Nil => f.at \in Nat
           /\ f.value.file \in Sent
BY DEF SliceOK, Slice, Octs, FileType

(* Octets that are read from the buffers. *)
LEMMA ReadFacts ==
    ASSUME Sending, NEW m, MemOK(m), NEW p \in Nat, NEW n \in Nat, p + n <= TotalLen
    PROVE  /\ Read(m, p, n) \in Seq(Octs) /\ Len(Read(m, p, n)) = n
           /\ \A i \in 1..n : Read(m, p, n)[i] = m[p + i - 1]
<1>1. TotalLen \in Nat
  BY AllFrames
<1>2. \A i \in 1..n : p + i - 1 \in 0..TotalLen-1
  BY <1>1
<1>3. Read(m, p, n) \in [1..n -> Octs]
  BY <1>2 DEF Read, MemOK
<1>4. \A i \in 1..n : Read(m, p, n)[i] = m[p + i - 1]
  BY DEF Read
<1> QED
  BY <1>3, <1>4

(* The octets of a slice. *)
LEMMA RawDataType ==
    ASSUME Sending, NEW m, MemOK(m), NEW f, SliceOK(f)
    PROVE  RawData(m, f) \in Seq(Octs) /\ Len(RawData(m, f)) = f.len
<1>1. f.len \in Nat /\ f.own \in Seq(Octs) /\ (f.at # Nil => f.at \in Nat)
  BY SliceFacts
<1>2. CASE f.at = Nil
  BY <1>1, <1>2 DEF RawData, SliceOK
<1>3. CASE f.at # Nil
  <2>1. f.at \in Nat /\ f.at + f.len <= ZoneEnd(f.at) /\ ZoneEnd(f.at) <= TotalLen
    BY <1>1, <1>3 DEF SliceOK
  <2>2. ZoneEnd(f.at) \in Nat /\ TotalLen \in Nat
    BY <2>1, FrameFacts, AllFrames
  <2>3. f.at + f.len <= TotalLen
    BY <1>1, <2>1, <2>2
  <2>4. RawData(m, f) = Read(m, f.at, f.len)
    BY <1>3 DEF RawData
  <2> QED
    BY <1>1, <2>1, <2>3, <2>4, ReadFacts
<1> QED
  BY <1>2, <1>3

(* What an append does: octets join the slice, which moves to a buffer of   *)
(* its own or is written on in place.                                       *)
Written(s, r, p) ==
    /\ s.file.at # Nil /\ s.file.at + HeadLen <= p
    /\ p < s.file.at + r.file.len /\ p < ZoneEnd(s.file.at)

Grew(s, r) ==
    /\ r \in States /\ SliceOK(r.file) /\ MemOK(r.mem)
    /\ r.file.value = s.file.value
    /\ r.file.at \in {s.file.at, Nil}
    /\ \A p \in 0..TotalLen-1 : r.mem[p] = s.mem[p] \/ Written(s, r, p)

Appended(s, d, r) ==
    /\ Grew(s, r)
    /\ r.file.ready = s.file.ready
    /\ r.file.len = s.file.len + Len(d)
    /\ RawData(r.mem, r.file) = RawData(s.mem, s.file) \o d

(* Go's append adds the octets to the file; it writes behind it, or nowhere. *)
LEMMA AppendFacts ==
    ASSUME Sending, NEW s, SliceOK(s.file), MemOK(s.mem), NEW d \in Seq(Octs)
    PROVE  Appended(s, d, AppendTo(s, d))
<1> DEFINE f == s.file
           m == s.mem
           end == f.at + f.len
           n == Len(d)
           r == AppendTo(s, d)
           raw == RawData(m, f)
<1>1. /\ f \in Slice /\ f.value \in FileType /\ f.ready \in BOOLEAN /\ f.len \in Nat
      /\ f.at \in Nat \cup {Nil} /\ f.own \in Seq(Octs) /\ HeadLen <= f.len
      /\ f.at # Nil => f.at \in Nat
  BY SliceFacts
<1>2. raw \in Seq(Octs) /\ Len(raw) = f.len
  BY RawDataType
<1>3. n \in Nat /\ HeadLen \in Nat /\ TotalLen \in Nat /\ Nil \notin Nat
  BY LengthFacts, AllFrames, LritFileAssumption
<1>4. DOMAIN m = 0..TotalLen-1 /\ \A p \in 0..TotalLen-1 : m[p] \in Octs
  BY DEF MemOK
<1>5. /\ raw \o d \in Seq(Octs) /\ Len(raw \o d) = f.len + n
      /\ \A i \in 1..f.len+n : (raw \o d)[i] = IF i <= f.len THEN raw[i] ELSE d[i - f.len]
  <2> HIDE DEF raw, f
  <2> QED
    BY <1>2, ConcatIs
<1>6. CASE f.at # Nil /\ end + n <= ZoneEnd(f.at)
  <2> DEFINE g == [f EXCEPT !.len = @ + n]
             w == [p \in DOMAIN m |-> IF p \in end .. end + n - 1 THEN d[p - end + 1] ELSE m[p]]
  <2>1. r = [file |-> g, mem |-> w]
    BY <1>6 DEF AppendTo
  <2>2. /\ g \in Slice /\ g.value = f.value /\ g.ready = f.ready /\ g.len = f.len + n
        /\ g.at = f.at /\ g.own = f.own
    <3> HIDE DEF f
    <3> QED
      BY <1>1, <1>3 DEF Slice
  <2>3. f.at \in Nat /\ end \in Nat /\ end + n <= ZoneEnd(f.at) /\ ZoneEnd(f.at) <= TotalLen
        /\ ZoneEnd(f.at) \in Nat
    <3>1. f.at \in Nat
      BY <1>1, <1>6
    <3>2. ZoneEnd(f.at) \in Nat /\ end \in Nat
      <4>1. ZoneEnd(f.at) \in Nat
        <5> HIDE DEF f
        <5> QED
          BY <3>1, FrameFacts
      <4>2. end \in Nat
        <5> HIDE DEF f
        <5> QED
          BY <1>1, <3>1
      <4> QED
        BY <4>1, <4>2
    <3>3. end + n <= ZoneEnd(f.at) /\ ZoneEnd(f.at) <= TotalLen
      BY <1>6 DEF SliceOK
    <3> QED
      BY <3>1, <3>2, <3>3
  <2>4. /\ DOMAIN w = 0..TotalLen-1
        /\ \A p \in 0..TotalLen-1 : w[p] = IF p \in end .. end + n - 1 THEN d[p - end + 1] ELSE m[p]
    BY <1>4
  <2>5. \A p \in end .. end + n - 1 : p - end + 1 \in 1..n /\ d[p - end + 1] \in Octs
    BY <1>3, <2>3
  <2> HIDE DEF g
  <2>6. MemOK(w)
    <3>1. \A p \in 0..TotalLen-1 : w[p] \in Octs
      <4> HIDE DEF w, m, end
      <4> QED
        BY <1>4, <2>4, <2>5
    <3>2. w = [p \in 0..TotalLen-1 |-> w[p]]
      BY <2>4
    <3> HIDE DEF w
    <3> QED
      BY <3>1, <3>2 DEF MemOK
  <2> HIDE DEF w
  <2>7. SliceOK(g)
    <3>1. g.at + g.len <= ZoneEnd(g.at) /\ ZoneEnd(g.at) <= TotalLen /\ HeadLen <= g.len /\ g.at # Nil
      <4> HIDE DEF f
      <4> QED
        BY <1>1, <1>3, <1>6, <2>2, <2>3
    <3> QED
      BY <2>2, <3>1 DEF SliceOK
  <2>8. RawData(w, g) = raw \o d
    <3> DEFINE new == RawData(w, g)
               old == raw \o d
    <3>1. new \in Seq(Octs) /\ Len(new) = f.len + n
      BY <2>2, <2>6, <2>7, RawDataType
    <3>2. \A i \in 1..f.len+n : new[i] = w[f.at + i - 1]
      BY <1>6, <2>2 DEF RawData, Read
    <3>3. \A i \in 1..f.len : raw[i] = m[f.at + i - 1]
      BY <1>6 DEF RawData, Read
    <3>4. \A i \in 1..f.len+n : new[i] = old[i]
      <4> TAKE i \in 1..f.len+n
      <4> DEFINE p == f.at + i - 1
      <4>1. p \in 0..TotalLen-1 /\ i \in Nat /\ p - end + 1 = i - f.len
            /\ (p \in end .. end + n - 1 <=> ~(i <= f.len)) /\ (i <= f.len => i \in 1..f.len)
        <5> DEFINE at == f.at
                   len == f.len
                   zone == ZoneEnd(f.at)
        <5>1. /\ at \in Nat /\ len \in Nat /\ zone \in Nat /\ n \in Nat /\ TotalLen \in Nat
              /\ at + len + n <= zone /\ zone <= TotalLen /\ i \in 1..len+n
              /\ p = at + i - 1 /\ end = at + len
          BY <1>1, <1>3, <2>3
        <5>2. f.len = len
          OBVIOUS
        <5> HIDE DEF n, at, len, zone, p, end
        <5> QED
          BY <5>1, <5>2
      <4>2. new[i] = w[p]
        BY <3>2
      <4>3. w[p] = IF p \in end .. end + n - 1 THEN d[p - end + 1] ELSE m[p]
        BY <2>4, <4>1
      <4>4. i <= f.len => raw[i] = m[p]
        BY <3>3, <4>1
      <4> HIDE DEF p, end, new, raw, m, f
      <4> QED
        BY <1>5, <4>1, <4>2, <4>3, <4>4
    <3> HIDE DEF new, old
    <3>5. old \in Seq(Octs) /\ Len(old) = f.len + n
      BY <1>5 DEF old
    <3>6. new = old
      <4> HIDE DEF f
      <4> QED
        BY <3>1, <3>4, <3>5, SameSeq
    <3> QED
      BY <3>6 DEF new, old
  <2>9. ASSUME NEW p \in 0..TotalLen-1, w[p] # m[p]
        PROVE  f.at + HeadLen <= p /\ p < f.at + g.len /\ p < ZoneEnd(f.at)
    <3>1. p \in end .. end + n - 1
      BY <2>4, <2>9
    <3> DEFINE at == f.at
               len == f.len
               zone == ZoneEnd(f.at)
    <3>2. /\ at \in Nat /\ len \in Nat /\ zone \in Nat /\ n \in Nat /\ HeadLen \in Nat
          /\ HeadLen <= len /\ at + len + n <= zone /\ end = at + len /\ g.len = len + n
      BY <1>1, <1>3, <2>2, <2>3
    <3>3. at + HeadLen <= p /\ p < at + (len + n) /\ p < zone
      <4> HIDE DEF n, at, len, zone, end
      <4> QED
        BY <3>1, <3>2
    <3> QED
      BY <3>2, <3>3
  <2>10. r.file = g /\ r.mem = w
    BY <2>1
  <2> HIDE DEF r, raw
  <2>11. Grew(s, r)
    <3>1. \A p \in 0..TotalLen-1 : r.mem[p] = s.mem[p] \/ Written(s, r, p)
      BY <1>6, <2>9, <2>10 DEF Written
    <3> QED
      <4>1. r \in States
        BY <2>1, <2>2, <2>6 DEF MemOK, States, r
      <4> QED
        BY <2>2, <2>6, <2>7, <2>10, <3>1, <4>1 DEF Grew
  <2>12. Appended(s, d, r)
    BY <2>2, <2>8, <2>10, <2>11 DEF Appended, raw
  <2> QED
    BY <2>12 DEF r
<1>7. CASE ~(f.at # Nil /\ end + n <= ZoneEnd(f.at))
  <2> DEFINE g == [f EXCEPT !.at = Nil, !.own = raw \o d, !.len = @ + n]
  <2>1. r = [file |-> g, mem |-> m]
    BY <1>7 DEF AppendTo
  <2>2. /\ g \in Slice /\ g.value = f.value /\ g.ready = f.ready /\ g.len = f.len + n
        /\ g.at = Nil /\ g.own = raw \o d
    <3>1. f.len + n \in Nat
      BY <1>1, <1>3
    <3>2. raw \o d \in Seq(Int \X Nat)
      BY <1>5 DEF Octs
    <3> HIDE DEF f, raw, n
    <3> QED
      BY <1>1, <3>1, <3>2 DEF Slice
  <2> HIDE DEF g
  <2>3. SliceOK(g)
    <3>1. HeadLen <= g.len /\ g.len = Len(g.own)
      <4> HIDE DEF f, raw, n
      <4> QED
        BY <1>1, <1>3, <1>5, <2>2
    <3> QED
      BY <2>2, <3>1 DEF SliceOK
  <2>4. RawData(m, g) = raw \o d
    BY <2>2 DEF RawData
  <2>5. r.file = g /\ r.mem = m
    BY <2>1
  <2> HIDE DEF r, raw
  <2>6. Grew(s, r)
    <3>1. r \in States
      BY <2>1, <2>2 DEF MemOK, States, r
    <3> QED
      BY <2>2, <2>3, <2>5, <3>1 DEF Grew
  <2>7. Appended(s, d, r)
    BY <2>2, <2>4, <2>5, <2>6 DEF Appended, raw
  <2> QED
    BY <2>7 DEF r
<1> QED
  BY <1>6, <1>7

(* Growing, and then some more. *)
LEMMA GrewOn ==
    ASSUME Sending, NEW s, SliceOK(s.file), NEW r, Grew(s, r), NEW d \in Seq(Octs),
           NEW t, Appended(r, d, t)
    PROVE  Grew(s, t) /\ t.file.len >= r.file.len
<1>1. Grew(r, t) /\ t.file.len = r.file.len + Len(d)
  BY DEF Appended
<1>2. /\ r.file.len \in Nat /\ Len(d) \in Nat /\ s.file.at \in Nat \cup {Nil} /\ HeadLen <= r.file.len
      /\ HeadLen \in Nat /\ Nil \notin Nat
  BY SliceFacts, LengthFacts, LritFileAssumption DEF Grew
<1>3. t.file.len >= r.file.len /\ t.file.len \in Nat
  BY <1>1, <1>2
<1>4. t.file.at \in {s.file.at, Nil} /\ t.file.value = s.file.value
  BY <1>1 DEF Grew
<1>5. ASSUME NEW p \in 0..TotalLen-1
      PROVE  t.mem[p] = s.mem[p] \/ Written(s, t, p)
  <2>1. CASE t.mem[p] = r.mem[p] /\ r.mem[p] = s.mem[p]
    BY <2>1
  <2>2. CASE Written(s, r, p)
    <3>1. s.file.at \in Nat /\ p \in Int
      BY <1>2, <2>2, AllFrames DEF Written
    <3>2. p < s.file.at + t.file.len
      BY <1>2, <1>3, <2>2, <3>1 DEF Written
    <3> QED
      BY <2>2, <3>2 DEF Written
  <2>3. CASE Written(r, t, p)
    <3>1. r.file.at = s.file.at
      BY <2>3 DEF Grew, Written
    <3> QED
      BY <2>3, <3>1 DEF Written
  <2> QED
    BY <1>1, <2>1, <2>2, <2>3 DEF Grew
<1> QED
  BY <1>1, <1>3, <1>4, <1>5 DEF Grew

(* What is appended are octets. *)
LEMMA RowsType ==
    ASSUME Sending, NEW f, NEW octets \in Seq(Octs), NEW d \in RowsFor(f, octets)
    PROVE  d \in Seq(Octs)
<1>1. CASE octets = << >>
  BY <1>1 DEF RowsFor
<1>2. CASE octets # << >>
  <2>1. octets[1] \in Octs
    BY <1>2
  <2>2. octets[1][1] \in Int
    BY <2>1 DEF Octs
  <2>3. RowOf(octets[1][1]) \in Seq(Octs) /\ Garbage \in Seq(Octs)
    BY <2>2, OctetTypes
  <2>4. d = octets \/ d = RowOf(octets[1][1]) \/ d = Garbage
    BY DEF RowsFor
  <2> QED
    BY <2>3, <2>4
<1> QED
  BY <1>1, <1>2

(* Rows of other files are kept as they come. *)
LEMMA RowsPlain ==
    ASSUME NEW f, ~Meta[f.value.file].packed, NEW octets
    PROVE  RowsFor(f, octets) = {octets}
BY DEF RowsFor

(* A part of a sequence. *)
LEMMA SubSeqIs ==
    ASSUME NEW T, NEW s \in Seq(T), NEW m \in 1..Len(s)+1, NEW n \in 0..Len(s), m <= n + 1
    PROVE  /\ SubSeq(s, m, n) \in Seq(T) /\ Len(SubSeq(s, m, n)) = n - m + 1
           /\ \A i \in 1..n-m+1 : SubSeq(s, m, n)[i] = s[m + i - 1]
OBVIOUS

(* The octets behind the headers. *)
LEMMA DataFacts ==
    ASSUME Sending, NEW m, MemOK(m), NEW f, SliceOK(f)
    PROVE  /\ Data(m, f) \in Seq(Octs) /\ Len(Data(m, f)) = f.len - HeadLen
           /\ f.len - HeadLen \in Nat
           /\ \A h \in Seq(Octs), d \in Seq(Octs) :
                 Len(h) = HeadLen /\ RawData(m, f) = h \o d =>
                    Data(m, f) = d /\ SubSeq(RawData(m, f), 1, HeadLen) = h
<1> DEFINE raw == RawData(m, f)
<1>1. raw \in Seq(Octs) /\ Len(raw) = f.len
  BY RawDataType
<1>2. HeadLen \in Nat /\ HeadLen > 0 /\ f.len \in Nat /\ HeadLen <= f.len
  BY LengthFacts, SliceFacts
<1>3. Data(m, f) = SubSeq(raw, HeadLen + 1, f.len)
  BY DEF Data
<1> HIDE DEF raw
<1>4. /\ HeadLen + 1 \in 1..Len(raw)+1 /\ f.len \in 0..Len(raw) /\ HeadLen + 1 <= f.len + 1
      /\ f.len - (HeadLen + 1) + 1 = f.len - HeadLen /\ f.len - HeadLen \in Nat
  BY <1>1, <1>2
<1>5. Data(m, f) \in Seq(Octs) /\ Len(Data(m, f)) = f.len - HeadLen
      /\ \A i \in 1..f.len-HeadLen : Data(m, f)[i] = raw[HeadLen + 1 + i - 1]
  BY <1>1, <1>3, <1>4, SubSeqIs
<1>6. ASSUME NEW h \in Seq(Octs), NEW d \in Seq(Octs), Len(h) = HeadLen, raw = h \o d
      PROVE  Data(m, f) = d /\ SubSeq(raw, 1, HeadLen) = h
  <2>1. /\ Len(raw) = HeadLen + Len(d)
        /\ \A i \in 1..HeadLen+Len(d) : raw[i] = IF i <= HeadLen THEN h[i] ELSE d[i - HeadLen]
    BY <1>6, ConcatIs
  <2>2. Len(d) = f.len - HeadLen /\ Len(d) \in Nat
    BY <1>1, <1>2, <2>1
  <2>3. \A i \in 1..Len(d) : Data(m, f)[i] = d[i]
    <3> TAKE i \in 1..Len(d)
    <3>1. HeadLen + 1 + i - 1 = HeadLen + i /\ HeadLen + i \in 1..HeadLen+Len(d)
          /\ ~(HeadLen + i <= HeadLen) /\ (HeadLen + i) - HeadLen = i
      BY <1>2, <2>2
    <3> QED
      BY <1>5, <2>1, <2>2, <3>1
  <2>4. Data(m, f) = d
    BY <1>5, <2>2, <2>3, SameSeq
  <2> DEFINE head == SubSeq(raw, 1, HeadLen)
  <2>5. 1 \in 1..Len(raw)+1 /\ HeadLen \in 0..Len(raw) /\ 1 <= HeadLen + 1 /\ HeadLen - 1 + 1 = HeadLen
    BY <1>1, <1>2
  <2>6. head \in Seq(Octs) /\ Len(head) = HeadLen /\ \A i \in 1..HeadLen : head[i] = raw[1 + i - 1]
    BY <1>1, <2>5, SubSeqIs
  <2> HIDE DEF head
  <2>7. \A i \in 1..HeadLen : head[i] = h[i]
    <3> TAKE i \in 1..HeadLen
    <3>1. 1 + i - 1 = i /\ i \in 1..HeadLen+Len(d) /\ i <= HeadLen
      BY <1>2, <2>2
    <3> QED
      BY <2>1, <2>6, <3>1
  <2>8. head = h
    BY <1>6, <2>6, <2>7, SameSeq
  <2> QED
    BY <2>4, <2>8 DEF head
<1> QED
  BY <1>4, <1>5, <1>6 DEF raw

(* What an SDU's slice reads. *)
LEMMA OctetFacts ==
    ASSUME Sending, NEW m, MemOK(m), NEW k \in 1..Len(stream)
    PROVE  /\ Octet(m, k) \in Seq(Octs) /\ Len(Octet(m, k)) = RawLen(k)
           /\ RawAt(k) + RawLen(k) <= TotalLen
           /\ (\A p \in RawAt(k) .. RawAt(k)+RawLen(k)-1 : m[p] = <<p, 0>>) =>
                 Octet(m, k) = AsSent(RawAt(k), RawLen(k))
<1>1. /\ RawAt(k) \in Nat /\ RawLen(k) \in Nat /\ PacketEnd(k) \in Nat /\ TotalLen \in Nat
      /\ RawAt(k) + RawLen(k) < PacketEnd(k) /\ PacketEnd(k) < TotalLen
  BY PacketParts, SduFacts, AllFrames
<1>2. RawAt(k) + RawLen(k) <= TotalLen
  BY <1>1
<1>3. RawAt(k) \in Int
  BY <1>1
<1>4. CASE Carried(k)
  BY <1>1, <1>2, <1>3, <1>4, OctetTypes DEF Octet
<1>5. CASE ~Carried(k)
  <2>1. Octet(m, k) = Read(m, RawAt(k), RawLen(k))
    BY <1>5 DEF Octet
  <2>2. Octet(m, k) \in Seq(Octs) /\ Len(Octet(m, k)) = RawLen(k)
    BY <1>1, <1>2, <2>1, ReadFacts
  <2>3. ASSUME \A p \in RawAt(k) .. RawAt(k)+RawLen(k)-1 : m[p] = <<p, 0>>
        PROVE  Octet(m, k) = AsSent(RawAt(k), RawLen(k))
    <3>1. \A i \in 1..RawLen(k) : m[RawAt(k) + i - 1] = <<RawAt(k) + i - 1, 0>>
      <4> TAKE i \in 1..RawLen(k)
      <4>1. RawAt(k) + i - 1 \in RawAt(k) .. RawAt(k)+RawLen(k)-1
        BY <1>1
      <4> QED
        BY <2>3, <4>1
    <3> QED
      BY <2>1, <3>1 DEF Read, AsSent
  <2> QED
    BY <1>2, <2>2, <2>3
<1> QED
  BY <1>4, <1>5

(* The headers become known: the octets behind them are cut off. *)
CutOff(s) == CutTo([s EXCEPT !.file = [s.file EXCEPT !.ready = TRUE]], HeadLen)

(* That writes nothing, and leaves the headers. *)
LEMMA CutFacts ==
    ASSUME Sending, NEW s \in States, SliceOK(s.file)
    PROVE  /\ Grew(s, CutOff(s)) /\ CutOff(s).file.ready = TRUE /\ CutOff(s).file.len = HeadLen
           /\ RawData(CutOff(s).mem, CutOff(s).file) = SubSeq(RawData(s.mem, s.file), 1, HeadLen)
<1> DEFINE f == s.file
           m == s.mem
           g == [f EXCEPT !.ready = TRUE]
           h == [g EXCEPT !.len = HeadLen,
                          !.own = IF g.at = Nil THEN SubSeq(@, 1, HeadLen) ELSE @]
           c == CutOff(s)
<1>1. /\ f \in Slice /\ f.value \in FileType /\ f.ready \in BOOLEAN /\ f.len \in Nat
      /\ f.at \in Nat \cup {Nil} /\ f.own \in Seq(Octs) /\ HeadLen <= f.len
      /\ f.at # Nil => f.at \in Nat
  BY SliceFacts
<1>2. m \in [0..TotalLen-1 -> Octs] /\ s = [file |-> f, mem |-> m] /\ MemOK(m)
  BY DEF States, MemOK
<1>3. HeadLen \in Nat /\ Nil \notin Nat
  BY LengthFacts, LritFileAssumption
<1>4. g \in Slice /\ g.value = f.value /\ g.ready = TRUE /\ g.len = f.len /\ g.at = f.at /\ g.own = f.own
  <2> HIDE DEF f
  <2> QED
    BY <1>1 DEF Slice
<1>5. c.file = h /\ c.mem = m /\ c = [file |-> h, mem |-> m]
  <2>1. [s EXCEPT !.file = g] = [file |-> g, mem |-> m]
    <3> HIDE DEF g, f, m
    <3> QED
      BY <1>2
  <2>2. c = CutTo([file |-> g, mem |-> m], HeadLen)
    BY <2>1, Zenon DEF CutOff
  <2> HIDE DEF g, c, m
  <2> DEFINE x == [file |-> g, mem |-> m]
             e == [x.file EXCEPT !.len = HeadLen,
                                 !.own = IF x.file.at = Nil THEN SubSeq(@, 1, HeadLen) ELSE @]
  <2>3. CutTo(x, HeadLen) = [x EXCEPT !.file = e]
    <3> HIDE DEF x
    <3> QED
      BY DEF CutTo
  <2>4. x.file = g /\ x.mem = m
    OBVIOUS
  <2>5. e = h
    <3> HIDE DEF x
    <3> QED
      BY <2>4
  <2> HIDE DEF e, h
  <2>6. [x EXCEPT !.file = e] = [file |-> e, mem |-> m]
    OBVIOUS
  <2>7. c = [file |-> h, mem |-> m]
    BY <2>2, <2>3, <2>5, <2>6
  <2> QED
    BY <2>7
<1>6. f.at = Nil => /\ SubSeq(f.own, 1, HeadLen) \in Seq(Octs)
                    /\ Len(SubSeq(f.own, 1, HeadLen)) = HeadLen
  <2> SUFFICES ASSUME f.at = Nil
               PROVE  /\ SubSeq(f.own, 1, HeadLen) \in Seq(Octs)
                      /\ Len(SubSeq(f.own, 1, HeadLen)) = HeadLen
    OBVIOUS
  <2>1. Len(f.own) = f.len
    BY DEF SliceOK
  <2>2. 1 \in 1..Len(f.own)+1 /\ HeadLen \in 0..Len(f.own) /\ 1 <= HeadLen + 1
        /\ HeadLen - 1 + 1 = HeadLen
    BY <1>1, <1>3, <2>1
  <2> HIDE DEF f
  <2> QED
    BY <1>1, <2>2, SubSeqIs
<1> DEFINE own == IF f.at = Nil THEN SubSeq(f.own, 1, HeadLen) ELSE f.own
<1>7. /\ h \in Slice /\ h.value = f.value /\ h.ready = TRUE /\ h.len = HeadLen /\ h.at = f.at
      /\ h.own = own
  <2>1. own \in Seq(Int \X Nat)
    BY <1>1, <1>6 DEF Octs
  <2>2. h = [g EXCEPT !.len = HeadLen, !.own = own]
    <3>1. (IF g.at = Nil THEN SubSeq(g.own, 1, HeadLen) ELSE g.own) = own
      <4> HIDE DEF g, f
      <4> QED
        BY <1>4 DEF f
    <3> HIDE DEF g, own
    <3> QED
      BY <3>1
  <2> HIDE DEF g, own, f, h
  <2> QED
    BY <1>3, <1>4, <2>1, <2>2 DEF Slice
<1>8. SliceOK(h)
  <2>1. h.at = Nil => h.len = Len(h.own)
    BY <1>6, <1>7
  <2>2. h.at # Nil => h.at + h.len <= ZoneEnd(h.at) /\ ZoneEnd(h.at) <= TotalLen
    <3> SUFFICES ASSUME f.at # Nil PROVE f.at + HeadLen <= ZoneEnd(f.at) /\ ZoneEnd(f.at) <= TotalLen
      BY <1>7
    <3>1. f.at \in Nat /\ f.at + f.len <= ZoneEnd(f.at) /\ ZoneEnd(f.at) <= TotalLen
      BY <1>1 DEF SliceOK
    <3>2. ZoneEnd(f.at) \in Nat
      BY <3>1, FrameFacts
    <3> HIDE DEF f
    <3> QED
      BY <1>1, <1>3, <3>1, <3>2
  <2>3. HeadLen <= h.len
    BY <1>3, <1>7
  <2> HIDE DEF h
  <2> QED
    BY <1>7, <2>1, <2>2, <2>3 DEF SliceOK
<1>9. RawData(m, h) = SubSeq(RawData(m, f), 1, HeadLen)
  <2>1. CASE f.at = Nil
    <3>1. RawData(m, h) = h.own /\ RawData(m, f) = f.own
      BY <1>7, <2>1 DEF RawData
    <3> QED
      BY <1>7, <2>1, <3>1
  <2>2. CASE f.at # Nil
    <3> DEFINE raw == RawData(m, f)
               head == SubSeq(RawData(m, f), 1, HeadLen)
               new == RawData(m, h)
    <3>1. raw \in Seq(Octs) /\ Len(raw) = f.len /\ new \in Seq(Octs) /\ Len(new) = HeadLen
      <4>1. raw \in Seq(Octs) /\ Len(raw) = f.len
        BY <1>2, RawDataType
      <4>2. new \in Seq(Octs) /\ Len(new) = h.len
        <5> HIDE DEF h
        <5> QED
          BY <1>2, <1>8, RawDataType
      <4>3. h.len = HeadLen
        BY <1>7
      <4> HIDE DEF raw, new, h
      <4> QED
        BY <4>1, <4>2, <4>3
    <3>2. (\A i \in 1..HeadLen : new[i] = m[f.at + i - 1]) /\ (\A i \in 1..f.len : raw[i] = m[f.at + i - 1])
      <4>1. new = Read(m, f.at, HeadLen) /\ raw = Read(m, f.at, f.len)
        BY <1>7, <2>2 DEF RawData
      <4> HIDE DEF new, raw
      <4> QED
        BY <4>1 DEF Read
    <3> HIDE DEF raw, new, h
    <3>3. 1 \in 1..Len(raw)+1 /\ HeadLen \in 0..Len(raw) /\ 1 <= HeadLen + 1 /\ HeadLen - 1 + 1 = HeadLen
      <4> HIDE DEF f
      <4> QED
        BY <1>1, <1>3, <3>1
    <3>4. SubSeq(raw, 1, HeadLen) \in Seq(Octs) /\ Len(SubSeq(raw, 1, HeadLen)) = HeadLen
          /\ \A i \in 1..HeadLen : SubSeq(raw, 1, HeadLen)[i] = raw[1 + i - 1]
      BY <3>1, <3>3, SubSeqIs
    <3>5. \A i \in 1..HeadLen : new[i] = SubSeq(raw, 1, HeadLen)[i]
      <4> TAKE i \in 1..HeadLen
      <4>1. 1 + i - 1 = i /\ i \in 1..f.len
        <5> HIDE DEF f
        <5> QED
          BY <1>1, <1>3
      <4> QED
        BY <3>2, <3>4, <4>1
    <3>6. new = SubSeq(raw, 1, HeadLen)
      BY <3>1, <3>4, <3>5, SameSeq
    <3> QED
      BY <3>6 DEF new, raw
  <2> QED
    BY <2>1, <2>2
<1> HIDE DEF h, c
<1>10. Grew(s, c)
  <2>1. c \in States
    BY <1>2, <1>5, <1>7 DEF States
  <2> QED
    BY <1>2, <1>5, <1>7, <1>8, <2>1 DEF Grew
<1> QED
  BY <1>5, <1>7, <1>9, <1>10 DEF c

(* The outcomes of that: the octets are appended again. *)
AgainAs(s, d, r) ==
    /\ Grew(s, r) /\ r.file.ready = TRUE /\ r.file.len = HeadLen + Len(d)
    /\ d \in Seq(Octs)
    /\ RawData(r.mem, r.file) = SubSeq(RawData(s.mem, s.file), 1, HeadLen) \o d

(* Nothing has grown if nothing was appended. *)
LEMMA GrewSame ==
    ASSUME NEW s \in States, SliceOK(s.file)
    PROVE  Grew(s, s) /\ MemOK(s.mem)
BY DEF Grew, States, MemOK

(* Either the headers do not parse and nothing happens, or it is that. *)
LEMMA ReappendedFacts ==
    ASSUME Sending, NEW s \in States, SliceOK(s.file), NEW parsed \in BOOLEAN,
           NEW r \in Reappended(s, parsed)
    PROVE  /\ Grew(s, r)
           /\ ~parsed => r = s
           /\ parsed => \E g : \E d \in RowsFor(g, Data(s.mem, s.file)) :
                           /\ g.value = s.file.value /\ g.ready = TRUE
                           /\ AgainAs(s, d, r)
<1>1. MemOK(s.mem) /\ Grew(s, s)
  BY GrewSame
<1>2. CASE ~parsed
  <2>1. r = s
    BY <1>2 DEF Reappended
  <2> QED
    BY <1>1, <1>2, <2>1
<1>3. CASE parsed
  <2> DEFINE g == [s.file EXCEPT !.ready = TRUE]
             c == CutOff(s)
  <2>1. PICK d \in RowsFor(g, Data(s.mem, s.file)) : r = AppendTo(c, d)
    <3>1. r \in {AppendTo(c, d) : d \in RowsFor(g, Data(s.mem, s.file))}
      BY <1>3, Zenon DEF Reappended, CutOff
    <3> HIDE DEF g, c
    <3> QED
      BY <3>1
  <2>2. g.value = s.file.value /\ g.ready = TRUE
    BY SliceFacts DEF Slice
  <2>3. /\ Grew(s, c) /\ c.file.ready = TRUE /\ c.file.len = HeadLen
        /\ RawData(c.mem, c.file) = SubSeq(RawData(s.mem, s.file), 1, HeadLen)
    BY CutFacts
  <2> HIDE DEF g, c
  <2>4. d \in Seq(Octs)
    <3>1. Data(s.mem, s.file) \in Seq(Octs)
      BY <1>1, DataFacts
    <3> QED
      BY <3>1, RowsType
  <2>5. SliceOK(c.file) /\ MemOK(c.mem)
    BY <2>3 DEF Grew
  <2>6. Appended(c, d, r)
    BY <2>1, <2>4, <2>5, AppendFacts
  <2>7. Grew(s, r)
    BY <2>3, <2>4, <2>6, GrewOn
  <2>8. AgainAs(s, d, r)
    BY <2>3, <2>4, <2>6, <2>7 DEF AgainAs, Appended
  <2> QED
    BY <1>3, <2>2, <2>7, <2>8
<1> QED
  BY <1>2, <1>3

(* The outcomes of Append. *)
LEMMA AppendsFacts ==
    ASSUME Sending, NEW s \in States, SliceOK(s.file), NEW k \in 1..Len(stream),
           NEW t \in Appends(s, k)
    PROVE  /\ Grew(s, t)
           /\ \E parsed \in Parses(s, k) : \E r \in Reappended(s, parsed) :
                 \E d \in RowsFor(r.file, Octet(r.mem, k)) :
                    /\ parsed \in BOOLEAN /\ Grew(s, r) /\ d \in Seq(Octs)
                    /\ Appended(r, d, t)
<1>1. PICK parsed \in Parses(s, k) : \E r \in Reappended(s, parsed) :
         \E d \in RowsFor(r.file, Octet(r.mem, k)) : t = AppendTo(r, d)
  BY DEF Appends
<1>2. PICK r \in Reappended(s, parsed) : \E d \in RowsFor(r.file, Octet(r.mem, k)) : t = AppendTo(r, d)
  BY <1>1
<1>3. PICK d \in RowsFor(r.file, Octet(r.mem, k)) : t = AppendTo(r, d)
  BY <1>2
<1>4. parsed \in BOOLEAN
  BY DEF Parses
<1>5. Grew(s, r)
  BY <1>4, ReappendedFacts
<1>6. SliceOK(r.file) /\ MemOK(r.mem)
  BY <1>5 DEF Grew
<1>7. d \in Seq(Octs)
  BY <1>6, OctetFacts, RowsType
<1>8. Appended(r, d, t)
  BY <1>3, <1>6, <1>7, AppendFacts
<1>9. Grew(s, t)
  BY <1>5, <1>7, <1>8, GrewOn
<1> QED
  BY <1>4, <1>5, <1>7, <1>8, <1>9

(* Closing: rows are appended, or nothing. *)
Missing(f) == ((DataLength[f.value.file] - (f.len - HeadLen)) % Word) \div Cols

(* Close appends whole rows behind the file, if any are missing. *)
LEMMA ClosedFacts ==
    ASSUME Sending, NEW s \in States, SliceOK(s.file)
    PROVE  /\ Grew(s, Closed(s)) /\ Closed(s).file.ready = s.file.ready
           /\ Missing(s.file) \in Nat
           /\ ~(Missing(s.file) \in 1..NumRows(s.file.value.file) - 1) => Closed(s) = s
<1> DEFINE f == s.file.value.file
           missing == ((DataLength[f] - (s.file.len - HeadLen)) % Word) \div Cols
           rows == FlattenSeq([i \in 1..missing |-> FillRowOf(s)])
<1>1. Closed(s) = IF Meta[f].image /\ missing \in 1..NumRows(f) - 1 THEN AppendTo(s, rows) ELSE s
  BY Zenon DEF Closed
<1>2. missing = Missing(s.file)
  BY DEF Missing
<1>3. MemOK(s.mem) /\ Grew(s, s)
  BY GrewSame
<1>4. f \in Sent /\ s.file.len \in Nat /\ HeadLen \in Nat /\ Cols \in Nat /\ Cols > 0
  BY SliceFacts, LengthFacts
<1>5. missing \in Nat
  <2> DEFINE x == DataLength[f] - (s.file.len - HeadLen)
  <2>1. DataLength[f] \in Nat
    BY <1>4, OriginalType
  <2>2. x \in Int
    BY <1>4, <2>1
  <2>3. x % Word \in Nat
    <3>1. Sent # {}
      BY <1>4
    <3> HIDE DEF x
    <3> QED
      BY <2>2, <3>1, WordFacts
  <2>4. missing = (x % Word) \div Cols
    OBVIOUS
  <2> HIDE DEF x, missing
  <2>5. \A y \in Nat : y \div Cols \in Nat
    BY <1>4
  <2> QED
    BY <2>3, <2>4, <2>5
<1>6. FillRowOf(s) \in Seq(Octs)
  <2> DEFINE d == Data(s.mem, s.file)
  <2>1. d \in Seq(Octs)
    BY <1>3, DataFacts
  <2>2. FillRowOf(s) = IF Len(d) > Cols THEN SubSeq(d, Len(d) - Cols + 1, Len(d)) ELSE Black
    BY DEF FillRowOf
  <2> HIDE DEF d
  <2>3. CASE Len(d) > Cols
    <3>1. Len(d) - Cols + 1 \in 1..Len(d)+1 /\ Len(d) \in 0..Len(d) /\ Len(d) - Cols + 1 <= Len(d) + 1
      BY <1>4, <2>1, <2>3
    <3>2. SubSeq(d, Len(d) - Cols + 1, Len(d)) \in Seq(Octs)
      BY <2>1, <3>1, SubSeqIs
    <3> QED
      BY <2>2, <2>3, <3>2
  <2>4. CASE ~(Len(d) > Cols)
    BY <2>2, <2>4, OctetTypes
  <2> QED
    BY <2>3, <2>4
<1>7. rows \in Seq(Octs)
  <2> HIDE DEF missing
  <2>1. [i \in 1..missing |-> FillRowOf(s)] \in Seq(Seq(Octs))
    <3>1. [i \in 1..missing |-> FillRowOf(s)] \in [1..missing -> Seq(Octs)]
      BY <1>6
    <3> QED
      BY <1>5, <3>1
  <2> QED
    BY <2>1, FlattenFacts
<1> HIDE DEF rows, missing, f
<1>8. CASE Meta[f].image /\ missing \in 1..NumRows(f) - 1
  <2>1. Closed(s) = AppendTo(s, rows)
    BY <1>1, <1>8
  <2>2. Appended(s, rows, Closed(s))
    BY <1>3, <1>7, <2>1, AppendFacts
  <2>3. Grew(s, Closed(s)) /\ Closed(s).file.ready = s.file.ready
    BY <2>2 DEF Appended
  <2> QED
    BY <1>2, <1>5, <1>8, <2>3 DEF f
<1>9. CASE ~(Meta[f].image /\ missing \in 1..NumRows(f) - 1)
  <2>1. Closed(s) = s
    BY <1>1, <1>9
  <2> QED
    BY <1>2, <1>3, <1>5, <2>1
<1> QED
  BY <1>8, <1>9
-----------------------------------------------------------------------------
(* The stream never changes, nor where its octets lie.                      *)

(* What is computed from the stream alone is the same in the next state. *)
LEMMA SameStream ==
    ASSUME UNCHANGED <<stream, offset>>
    PROVE  /\ Sending' = Sending /\ TotalLen' = TotalLen
           /\ \A k : /\ PacketAt(k)' = PacketAt(k) /\ PacketEnd(k)' = PacketEnd(k)
                     /\ RawAt(k)' = RawAt(k) /\ RawLen(k)' = RawLen(k)
                     /\ IsFirst(k)' = IsFirst(k) /\ IsPacked(k)' = IsPacked(k)
                     /\ ApidOf(k)' = ApidOf(k) /\ Carried(k)' = Carried(k)
                     /\ ArrivesIn(k)' = ArrivesIn(k)
<1>1. ASSUME NEW k PROVE PacketAt(k)' = PacketAt(k)
  BY SMT DEF PacketAt, PacketLen, Ahead, RawLen, IsFirst, FoldLeft, MapThenFoldSet
<1>2. ASSUME NEW k
      PROVE  /\ RawLen(k)' = RawLen(k) /\ Ahead(k)' = Ahead(k) /\ PacketLen(k)' = PacketLen(k)
             /\ IsFirst(k)' = IsFirst(k) /\ IsPacked(k)' = IsPacked(k) /\ ApidOf(k)' = ApidOf(k)
  BY DEF RawLen, Ahead, PacketLen, IsFirst, IsPacked, ApidOf
<1>3. ASSUME NEW k PROVE RawAt(k)' = RawAt(k) /\ PacketEnd(k)' = PacketEnd(k)
  BY <1>1, <1>2 DEF RawAt, PacketEnd
<1>4. ASSUME NEW k PROVE Carried(k)' = Carried(k)
  BY <1>1, <1>3 DEF Carried
<1>5. ASSUME NEW k PROVE ArrivesIn(k)' = ArrivesIn(k)
  BY <1>1, <1>3, <1>4 DEF ArrivesIn
<1>6. TotalLen' = TotalLen
  <2>1. \A k : PacketAt(k)' = PacketAt(k)
    BY <1>1
  <2>2. TotalLen' = ZoneEnd(PacketAt(Len(stream) + 1)')
    BY DEF TotalLen
  <2>3. PacketAt(Len(stream) + 1)' = PacketAt(Len(stream) + 1)
    BY SMT DEF PacketAt, PacketLen, Ahead, RawLen, IsFirst, FoldLeft, MapThenFoldSet
  <2> QED
    BY <2>2, <2>3 DEF TotalLen
<1>7. Sending' = Sending
  BY DEF Sending
<1> QED
  BY <1>1, <1>2, <1>3, <1>4, <1>5, <1>6, <1>7

(* Nor what a file would hold. *)
LEMMA SameFiles ==
    ASSUME UNCHANGED <<stream, offset>>
    PROVE  /\ \A f, i : Place(f, i)' = Place(f, i)
           /\ \A j, k : InTheWay(j, k)' = InTheWay(j, k)
           /\ \A v : Expected(v)' = Expected(v)
           /\ \A v, p : ValueAt(v, p)' = ValueAt(v, p)
           /\ \A m : MemOK(m)' = MemOK(m)
           /\ \A f : SliceOK(f)' = SliceOK(f)
<1>1. ASSUME NEW f, NEW i PROVE Place(f, i)' = Place(f, i)
  BY DEF Place
<1>2. ASSUME NEW j, NEW k PROVE InTheWay(j, k)' = InTheWay(j, k)
  BY SameStream DEF InTheWay
<1>3. ASSUME NEW c PROVE Sdu(c)' = Sdu(c)
  BY DEF Sdu
<1>4. ASSUME NEW k PROVE Body(k)' = Body(k)
  BY SameStream DEF Body
<1>5. ASSUME NEW c
      PROVE  Body(Sdu(c))' = Body(Sdu(c)) /\ IsPacked(Sdu(c))' = IsPacked(Sdu(c))
  <2>1. Body(Sdu(c))' = Body(Sdu(c))
    BY <1>3, <1>4, SameStream DEF Body, RawAt, RawLen, IsFirst
  <2>2. IsPacked(Sdu(c))' = IsPacked(Sdu(c))
    BY <1>3 DEF IsPacked
  <2> QED
    BY <2>1, <2>2
<1>6. ASSUME NEW v PROVE Expected(v)' = Expected(v)
  BY <1>5 DEF Expected
<1>7. ASSUME NEW v, NEW p PROVE ValueAt(v, p)' = ValueAt(v, p)
  BY DEF ValueAt
<1>8. ASSUME NEW m PROVE MemOK(m)' = MemOK(m)
  BY SameStream DEF MemOK
<1>9. ASSUME NEW f PROVE SliceOK(f)' = SliceOK(f)
  BY SameStream DEF SliceOK
<1> QED
  BY <1>1, <1>2, <1>6, <1>7, <1>8, <1>9
-----------------------------------------------------------------------------
(* Types.                                                                   *)

TypeInv ==
    /\ Sending
    /\ frame \in Nat
    /\ MemOK(mem)
    /\ APIDs \in [Apids -> SUBSET (1..Len(stream))]
    /\ cur \in Apids \cup {Nil}
    /\ DOMAIN Files = Apids /\ \A a \in Apids : Files[a] = Nil \/ SliceOK(Files[a])
    /\ \A f \in delivered : SliceOK(f)

(* A file that is opened on SDU k. *)
LEMMA OpenSliceFacts ==
    ASSUME Sending, NEW m, MemOK(m), NEW k \in 1..Len(stream), IsFirst(k)
    PROVE  LET f == OpenSlice(m, k) IN
           /\ SliceOK(f) /\ f.value = OpenNew(stream[k][1]) /\ f.ready = f.value.ready
           /\ f.len = RawLen(k) /\ f.at = IF Carried(k) THEN Nil ELSE RawAt(k)
           /\ RawData(m, f) = Octet(m, k)
<1> DEFINE f == OpenSlice(m, k)
           v == OpenNew(stream[k][1])
<1>1. /\ RawAt(k) \in Nat /\ RawLen(k) \in Nat /\ RawLen(k) >= HeadLen
      /\ RawAt(k) + RawLen(k) < PacketEnd(k) /\ PacketEnd(k) \in Nat
      /\ stream[k][1] \in Sent
  BY PacketParts, SduFacts
<1>2. v \in FileType /\ v.ready \in BOOLEAN
  BY <1>1, OpenNewType DEF FileType
<1>3. f = [value |-> v, ready |-> v.ready, len |-> RawLen(k),
           at |-> IF Carried(k) THEN Nil ELSE RawAt(k),
           own |-> IF Carried(k) THEN Octet(m, k) ELSE << >>]
  BY DEF OpenSlice
<1>4. Octet(m, k) \in Seq(Octs) /\ Len(Octet(m, k)) = RawLen(k)
  BY OctetFacts
<1>5. Nil \notin Nat /\ HeadLen \in Nat
  BY LritFileAssumption, LengthFacts
<1> HIDE DEF f, v
<1>6. f.value = v /\ f.ready = v.ready /\ f.len = RawLen(k)
      /\ f.at = (IF Carried(k) THEN Nil ELSE RawAt(k))
      /\ f.own = (IF Carried(k) THEN Octet(m, k) ELSE << >>)
  BY <1>3
<1>7. f \in Slice
  <2>1. f.own \in Seq(Int \X Nat)
    BY <1>4, <1>6 DEF Octs
  <2>2. f.at \in Nat \cup {Nil}
    BY <1>1, <1>6
  <2>3. f = [value |-> f.value, ready |-> f.ready, len |-> f.len, at |-> f.at, own |-> f.own]
    BY <1>3
  <2> QED
    BY <1>1, <1>2, <1>6, <2>1, <2>2, <2>3 DEF Slice
<1>8. SliceOK(f)
  <2>1. CASE Carried(k)
    BY <1>1, <1>4, <1>6, <1>7, <2>1 DEF SliceOK
  <2>2. CASE ~Carried(k)
    <3>1. f.at = RawAt(k) /\ f.at # Nil
      BY <1>1, <1>5, <1>6, <2>2
    <3>2. PacketEnd(k) <= ZoneEnd(RawAt(k))
      BY <2>2, Uncut
    <3>3. ZoneEnd(RawAt(k)) <= TotalLen
      <4>1. RawAt(k) <= PacketEnd(k)
        BY <1>1
      <4> QED
        BY <1>1, <4>1, AllFrames
    <3>4. ZoneEnd(RawAt(k)) \in Nat
      BY <1>1, FrameFacts
    <3>5. RawAt(k) + RawLen(k) <= ZoneEnd(RawAt(k))
      BY <1>1, <3>2, <3>4
    <3> QED
      BY <1>1, <1>5, <1>6, <1>7, <3>1, <3>3, <3>5 DEF SliceOK
  <2> QED
    BY <2>1, <2>2
<1>9. RawData(m, f) = Octet(m, k)
  <2>1. CASE Carried(k)
    BY <1>6, <2>1 DEF RawData
  <2>2. CASE ~Carried(k)
    BY <1>1, <1>5, <1>6, <2>2 DEF RawData, Octet
  <2> QED
    BY <2>1, <2>2
<1> QED
  BY <1>6, <1>8, <1>9 DEF f, v

(* A file that SDU k joined keeps its slice. *)
LEMMA JoinedSlice ==
    ASSUME Sending, NEW f, SliceOK(f), NEW k \in 1..Len(stream)
    PROVE  LET g == Joined(f, k) IN
           /\ SliceOK(g) /\ g.ready = f.ready /\ g.len = f.len /\ g.at = f.at /\ g.own = f.own
           /\ g.value = AppendSDU(f.value, SentChunk(stream[k][1], stream[k][2]), TRUE)
           /\ \A m : RawData(m, g) = RawData(m, f)
<1> DEFINE g == Joined(f, k)
           w == AppendSDU(f.value, SentChunk(stream[k][1], stream[k][2]), TRUE)
<1>1. w \in FileType
  <2>1. f.value \in FileType /\ stream[k][1] \in Sent /\ stream[k][2] \in 1..Parts(stream[k][1])
    BY SliceFacts, SduFacts
  <2> QED
    BY <2>1, SentChunkType, AppendType
<1>2. g = [f EXCEPT !.value = w]
  BY DEF Joined
<1> HIDE DEF w, g
<1>3. g \in Slice /\ g.ready = f.ready /\ g.len = f.len /\ g.at = f.at /\ g.own = f.own /\ g.value = w
  <2>1. f \in Slice
    BY SliceFacts
  <2> QED
    BY <1>1, <1>2, <2>1 DEF Slice
<1>4. SliceOK(g)
  BY <1>3 DEF SliceOK
<1>5. \A m : RawData(m, g) = RawData(m, f)
  BY <1>3 DEF RawData
<1> QED
  BY <1>3, <1>4, <1>5 DEF g, w

(* A file that is handed on. *)
HandOn(s) == IF s.file.ready THEN Closed(s) ELSE s

(* It has grown by what Close appended, if its headers are known. *)
LEMMA HandOnFacts ==
    ASSUME Sending, NEW s \in States, SliceOK(s.file)
    PROVE  Grew(s, HandOn(s)) /\ HandOn(s).file.ready = s.file.ready
BY ClosedFacts, GrewSame DEF HandOn

(* The first frame is about to come. *)
LEMMA InitTypes ==
    ASSUME Init
    PROVE  TypeInv
<1>1. Sending
  BY DEF Init, Sending
<1>2. TotalLen \in Nat
  BY <1>1, AllFrames
<1>3. MemOK(mem)
  BY <1>2 DEF Init, MemOK, Octs
<1> QED
  BY <1>1, <1>3 DEF Init, TypeInv

(* What a step leaves as it was, and what it must show. *)
LEMMA TypesKept ==
    ASSUME TypeInv, UNCHANGED <<stream, offset>>, frame' \in Nat,
           MemOK(mem'), APIDs' \in [Apids -> SUBSET (1..Len(stream))],
           cur' \in Apids \cup {Nil},
           DOMAIN Files' = Apids, \A a \in Apids : Files'[a] = Nil \/ SliceOK(Files'[a]),
           \A f \in delivered' : SliceOK(f)
    PROVE  TypeInv'
<1>1. Sending'
  BY SameStream DEF TypeInv
<1>2. MemOK(mem)'
  BY SameFiles
<1>3. (\A a \in Apids : Files[a] = Nil \/ SliceOK(Files[a]))'
  BY SameFiles
<1>4. (\A f \in delivered : SliceOK(f))'
  BY SameFiles
<1> QED
  BY <1>1, <1>2, <1>3, <1>4 DEF TypeInv

(* A file worked on, in the current state. *)
LEMMA NowFacts ==
    ASSUME TypeInv, NEW f, SliceOK(f), NEW k
    PROVE  /\ [file |-> f, mem |-> mem] \in States
           /\ [Now(k) EXCEPT !.file = f] = [file |-> f, mem |-> mem]
<1>1. f \in Slice /\ mem \in [0..TotalLen-1 -> Octs]
  BY SliceFacts DEF TypeInv, MemOK
<1> QED
  BY <1>1 DEF States, Now

(* Whatever is handed on was a file; the one it came from is closed. *)
LEMMA HandTypes ==
    ASSUME TypeInv, NEW k \in 1..Len(stream), Applies(k), NEW s \in States, SliceOK(s.file), Hand(s)
    PROVE  TypeInv'
<1>1. Sending /\ cur \in Apids /\ UNCHANGED <<stream, offset, frame, cur>>
      /\ APIDs' = [APIDs EXCEPT ![cur] = @ \ {k}]
  BY DEF TypeInv, Applies
<1> DEFINE c == HandOn(s)
           q == [APIDs EXCEPT ![cur] = @ \ {k}]
           g == [Files EXCEPT ![cur] = Nil]
           d == IF s.file.ready THEN delivered \cup {c.file} ELSE delivered
<1>2. mem' = c.mem /\ Files' = g /\ delivered' = d /\ APIDs' = q
  BY <1>1, Zenon DEF Hand, HandOn
<1>3. Grew(s, c)
  BY <1>1, HandOnFacts
<1>4. MemOK(c.mem) /\ SliceOK(c.file)
  BY <1>3 DEF Grew
<1>5. q \in [Apids -> SUBSET (1..Len(stream))]
  BY DEF TypeInv
<1>6. DOMAIN g = Apids /\ \A a \in Apids : g[a] = Nil \/ SliceOK(g[a])
  BY <1>1 DEF TypeInv
<1> HIDE DEF c
<1>7. \A f \in d : SliceOK(f)
  BY <1>4 DEF TypeInv
<1>8. frame' \in Nat /\ cur' \in Apids \cup {Nil}
  BY <1>1 DEF TypeInv
<1> HIDE DEF d, g, q
<1> QED
  BY <1>1, <1>2, <1>4, <1>5, <1>6, <1>7, <1>8, TypesKept

(* Every step keeps the types. *)
LEMMA NextTypes ==
    ASSUME TypeInv, [Next]_vars
    PROVE  TypeInv'
<1>1. /\ Sending /\ frame \in Nat /\ MemOK(mem) /\ APIDs \in [Apids -> SUBSET (1..Len(stream))]
      /\ cur \in Apids \cup {Nil}
      /\ DOMAIN Files = Apids /\ \A a \in Apids : Files[a] = Nil \/ SliceOK(Files[a])
      /\ \A f \in delivered : SliceOK(f)
  BY DEF TypeInv
<1>2. DOMAIN stream = 1..Len(stream)
  <2>1. stream \in Seq(Nat \X Nat)
    BY <1>1, FrameMemoryAssumption DEF Sending
  <2> QED
    BY <2>1
<1>3. CASE ParseFrame
  <2>1. APIDs' \in [Apids -> SUBSET (1..Len(stream))]
    BY <1>2, <1>3 DEF ParseFrame
  <2> QED
    BY <1>1, <1>3, <2>1, TypesKept DEF ParseFrame
<1>4. ASSUME NEW a \in Apids, PickAPID(a) PROVE TypeInv'
  BY <1>1, <1>4, TypesKept DEF PickAPID
<1>5. CASE EndAPID
  BY <1>1, <1>5, TypesKept DEF EndAPID
<1>6. ASSUME NEW k \in DOMAIN stream, ProcessSDU(k) PROVE TypeInv'
  <2>1. k \in 1..Len(stream)
    BY <1>2
  <2>2. /\ Applies(k) /\ cur \in Apids /\ UNCHANGED <<stream, offset, frame, cur>>
        /\ APIDs' = [APIDs EXCEPT ![cur] = @ \ {k}]
    <3>1. Applies(k)
      BY <1>6 DEF ProcessSDU, BadCRC, StartFile, NoFile, ContinueFile, FinishFile, SingleFile
    <3> QED
      BY <1>1, <3>1 DEF Applies
  <2>3. APIDs' \in [Apids -> SUBSET (1..Len(stream))]
    BY <1>1, <2>2
  <2>4. ASSUME NEW g, Files' = [Files EXCEPT ![cur] = g], g = Nil \/ SliceOK(g),
               MemOK(mem'), delivered' = delivered
        PROVE  TypeInv'
    <3>1. DOMAIN Files' = Apids /\ \A a \in Apids : Files'[a] = Nil \/ SliceOK(Files'[a])
      BY <1>1, <2>2, <2>4
    <3> QED
      BY <1>1, <2>2, <2>3, <2>4, <3>1, TypesKept
  <2>5. CASE BadCRC(k)
    BY <1>1, <2>4, <2>5 DEF BadCRC
  <2>6. CASE StartFile(k)
    <3>1. IsFirst(k) /\ mem' = mem /\ delivered' = delivered
          /\ Files' = [Files EXCEPT ![cur] = OpenSlice(mem, k)]
      BY <2>6 DEF StartFile
    <3>2. SliceOK(OpenSlice(mem, k))
      BY <1>1, <2>1, <3>1, OpenSliceFacts
    <3> QED
      BY <1>1, <2>4, <3>1, <3>2
  <2>7. CASE NoFile(k)
    BY <1>1, <2>2, <2>3, <2>7, TypesKept DEF NoFile
  <2>8. ASSUME Files[cur] # Nil
        PROVE  /\ SliceOK(Files[cur]) /\ Now(k) \in States /\ Now(k).file = Files[cur]
               /\ \A t \in Appends(Now(k), k) :
                     /\ t \in States /\ SliceOK(t.file) /\ MemOK(t.mem)
                     /\ [t EXCEPT !.file = Joined(t.file, k)] \in States
                     /\ [t EXCEPT !.file = Joined(t.file, k)].file = Joined(t.file, k)
                     /\ SliceOK(Joined(t.file, k))
    <3>1. SliceOK(Files[cur])
      BY <1>1, <2>2, <2>8
    <3>2. Now(k) \in States /\ Now(k).file = Files[cur]
      <4>1. Files[cur] \in Slice
        BY <3>1, SliceFacts
      <4> QED
        BY <1>1, <4>1 DEF Now, States, MemOK
    <3>3. ASSUME NEW t \in Appends(Now(k), k)
          PROVE  /\ t \in States /\ SliceOK(t.file) /\ MemOK(t.mem)
                 /\ [t EXCEPT !.file = Joined(t.file, k)] \in States
                 /\ [t EXCEPT !.file = Joined(t.file, k)].file = Joined(t.file, k)
                 /\ SliceOK(Joined(t.file, k))
      <4>1. Grew(Now(k), t)
        BY <1>1, <2>1, <3>1, <3>2, AppendsFacts
      <4>2. t \in States /\ SliceOK(t.file) /\ MemOK(t.mem)
        BY <4>1 DEF Grew
      <4>3. SliceOK(Joined(t.file, k))
        BY <1>1, <2>1, <4>2, JoinedSlice
      <4>4. Joined(t.file, k) \in Slice
        BY <4>3, SliceFacts
      <4> QED
        BY <4>2, <4>3, <4>4 DEF States
    <3> QED
      BY <3>1, <3>2, <3>3
  <2>9. CASE ContinueFile(k)
    <3>1. PICK t \in Appends(Now(k), k) :
             /\ mem' = t.mem /\ Files' = [Files EXCEPT ![cur] = Joined(t.file, k)]
             /\ delivered' = delivered /\ Files[cur] # Nil
      BY <2>9 DEF ContinueFile
    <3>2. SliceOK(Joined(t.file, k)) /\ MemOK(t.mem)
      BY <2>8, <3>1
    <3> QED
      BY <2>4, <3>1, <3>2
  <2>10. CASE FinishFile(k)
    <3>1. PICK t \in Appends(Now(k), k) : Hand([t EXCEPT !.file = Joined(@, k)]) /\ Files[cur] # Nil
      BY <2>10 DEF FinishFile
    <3> DEFINE s == [t EXCEPT !.file = Joined(t.file, k)]
    <3>2. s \in States /\ SliceOK(s.file)
      BY <2>8, <3>1
    <3>3. Hand(s)
      BY <3>1
    <3> HIDE DEF s
    <3> QED
      BY <2>1, <2>2, <3>2, <3>3, HandTypes
  <2>11. CASE SingleFile(k)
    <3> DEFINE f == OpenSlice(mem, k)
               s == [file |-> f, mem |-> mem]
    <3>1. IsFirst(k) /\ Hand([Now(k) EXCEPT !.file = f])
      BY <2>11 DEF SingleFile
    <3>2. SliceOK(f)
      BY <1>1, <2>1, <3>1, OpenSliceFacts
    <3> HIDE DEF f
    <3>3. s \in States /\ [Now(k) EXCEPT !.file = f] = s
      BY <3>2, NowFacts
    <3>4. SliceOK(s.file) /\ Hand(s)
      BY <3>1, <3>2, <3>3
    <3> HIDE DEF s
    <3> QED
      BY <2>1, <2>2, <3>3, <3>4, HandTypes
  <2> QED
    BY <1>6, <2>5, <2>6, <2>7, <2>9, <2>10, <2>11 DEF ProcessSDU
<1>7. CASE UNCHANGED vars
  BY <1>1, <1>7, TypesKept DEF vars
<1> QED
  BY <1>3, <1>4, <1>5, <1>6, <1>7 DEF Next

(* What the runs call TypeOK. *)
LEMMA TypesShown ==
    ASSUME TypeInv
    PROVE  TypeOK
<1>1. mem \in [0..TotalLen-1 -> Int \X Nat]
  BY DEF TypeInv, MemOK, Octs
<1>2. \A a \in Apids : Files[a] = Nil \/ Files[a] \in Slice
  BY DEF TypeInv, SliceOK
<1>3. delivered \subseteq Slice
  BY DEF TypeInv, SliceOK
<1>4. ASSUME NEW f \in delivered \cup {Files[a] : a \in {a \in Apids : Files[a] # Nil}}
      PROVE  IF f.at = Nil THEN f.len = Len(f.own) ELSE f.at + f.len <= ZoneEnd(f.at)
  <2>1. SliceOK(f)
    BY <1>4 DEF TypeInv
  <2> QED
    BY <2>1 DEF SliceOK
<1> QED
  BY <1>1, <1>2, <1>3, <1>4 DEF TypeOK

(***************************************************************************)
(* A file's slice stays in the frame it began in and a slice of its own    *)
(* has the length the file thinks it has, for every stream, length of a    *)
(* frame and number of files: append writes on in place only as far as the *)
(* buffer goes (FrameMemory, TypeOK).                                      *)
(***************************************************************************)
THEOREM FrameMemoryTypes == Spec => []TypeOK
<1>1. Init => TypeInv
  BY InitTypes
<1>2. TypeInv /\ [Next]_vars => TypeInv'
  BY NextTypes
<1>3. TypeInv => TypeOK
  BY TypesShown
<1> QED
  BY <1>1, <1>2, <1>3, PTL DEF Spec
-----------------------------------------------------------------------------
(* The invariant.                                                           *)

(* The SDUs that were applied. *)
DoneSet == {k \in 1..Len(stream) : ArrivesIn(k) < frame /\ k \notin APIDs[ApidOf(k)]}

(* No SDU lies in the way of the first p parts of F, nor they in a file's.  *)
Calm(F, p) ==
    \A i \in 1..p, j \in 1..Len(stream) :
        ~InTheWay(j, Place(F, i)) /\ ~(InTheWay(Place(F, i), j) /\ IsFirst(j))

(* The slice has the octets of the file's parts and ends before the last    *)
(* part's packet does.                                                      *)
Within(f, p) ==
    /\ f.len = HeadLen + Octets(f.value.data)
    /\ RawAt(Place(f.value.file, 1)) + f.len
          <= RawAt(Place(f.value.file, p)) + RawLen(Place(f.value.file, p))
    /\ f.ready => f.value.ready

(* The slice holds exactly what LritFile says. *)
Intact(m, f) ==
    /\ f.ready = f.value.ready
    /\ f.len = HeadLen + Octets(f.value.data)
    /\ RawData(m, f) = AsSent(RawAt(Place(f.value.file, 1)), HeadLen) \o Expected(f.value)

(* A file of which the first p parts came, with buffers m, D being done. *)
SliceInv(m, D, f, p) ==
    /\ ValueAt(f.value, p)
    /\ \A i \in 1..p : Place(f.value.file, i) \in D
    /\ f.at # Nil => /\ f.at = RawAt(Place(f.value.file, 1))
                     /\ ~Carried(Place(f.value.file, 1))
    /\ ~Meta[f.value.file].packed => Within(f, p)
    /\ Calm(f.value.file, p) => Intact(m, f)

(* An octet may be written over if it lies behind the headers of a file     *)
(* begun in its frame, and not behind the packets of that file's SDUs       *)
(* unless the file's rows grow.                                             *)
Exposed(D, p) ==
    \E j \in D :
        /\ IsFirst(j) /\ ~Carried(j) /\ FrameOf(RawAt(j)) = FrameOf(p) /\ RawAt(j) + HeadLen <= p
        /\ IsPacked(j) \/ \E e \in D : stream[e][1] = stream[j][1] /\ p < PacketEnd(e)

MemInv(m, D) == \A p \in 0..TotalLen-1 : m[p] = <<p, 0>> \/ Exposed(D, p)

(* The file APID a has open waits for the SDU behind the last one done. *)
OpenInv(m, D, f, a) ==
    /\ Meta[f.value.file].apid = a
    /\ \E p \in 1..Parts(f.value.file)-1 :
          /\ SliceInv(m, D, f, p)
          /\ \A k \in D : ApidOf(k) = a => k <= Place(f.value.file, p)

DeliveredInv(m, D, f) == SliceInv(m, D, f, Parts(f.value.file))

(* SDUs that wait arrived with the last frame, behind those that are done. *)
PendingInv(D) ==
    \A a \in Apids : \A k \in APIDs[a] :
        /\ ApidOf(k) = a /\ ArrivesIn(k) + 1 = frame
        /\ \A j \in D : ApidOf(j) = a => j < k

(* A file handed on was sent before the one its APID has open. *)
LastOf(f) == Place(f.value.file, Parts(f.value.file))
FirstOf(f) == Place(f.value.file, 1)

ApartInv ==
    \A f \in delivered : LET a == Meta[f.value.file].apid IN
        Files[a] # Nil => LastOf(f) < FirstOf(Files[a])

(* What holds whichever file is worked on. *)
Rest(m, D, a) ==
    /\ MemInv(m, D)
    /\ \A b \in Apids \ {a} : Files[b] # Nil => OpenInv(m, D, Files[b], b)
    /\ \A f \in delivered : DeliveredInv(m, D, f)

Inv ==
    /\ TypeInv
    /\ PendingInv(DoneSet)
    /\ MemInv(mem, DoneSet)
    /\ \A a \in Apids : Files[a] # Nil => OpenInv(mem, DoneSet, Files[a], a)
    /\ \A f \in delivered : DeliveredInv(mem, DoneSet, f)
    /\ ApartInv

(* The parts of a file and where they lie. *)
LEMMA PartsOf ==
    ASSUME Sending, NEW v, NEW p, ValueAt(v, p)
    PROVE  /\ v.file \in Sent /\ p \in 1..Parts(v.file) /\ p \in Nat /\ p >= 1
           /\ \A i \in 1..p : /\ Place(v.file, i) \in 1..Len(stream)
                              /\ stream[Place(v.file, i)] = <<v.file, i>>
                              /\ stream[Place(v.file, i)][1] = v.file
                              /\ stream[Place(v.file, i)][2] = i
                              /\ ApidOf(Place(v.file, i)) = Meta[v.file].apid
                              /\ IsPacked(Place(v.file, i)) = Meta[v.file].packed
           /\ 1 \in 1..p /\ p \in 1..p /\ IsFirst(Place(v.file, 1))
           /\ Place(v.file, 1) <= Place(v.file, p)
<1>1. /\ v.file \in Sent /\ p \in 1..Parts(v.file) /\ p \in Nat /\ p >= 1
      /\ \A i \in 1..p : /\ Place(v.file, i) \in 1..Len(stream)
                         /\ stream[Place(v.file, i)] = <<v.file, i>>
  BY ValueFacts
<1>2. 1 \in 1..p /\ p \in 1..p
  BY <1>1
<1>3. ASSUME NEW i \in 1..p
      PROVE  /\ stream[Place(v.file, i)][1] = v.file /\ stream[Place(v.file, i)][2] = i
             /\ ApidOf(Place(v.file, i)) = Meta[v.file].apid
             /\ IsPacked(Place(v.file, i)) = Meta[v.file].packed
  <2>1. stream[Place(v.file, i)] = <<v.file, i>>
    BY <1>1
  <2>2. stream[Place(v.file, i)][1] = v.file /\ stream[Place(v.file, i)][2] = i
    BY <2>1
  <2> QED
    BY <2>2 DEF ApidOf, IsPacked
<1>4. IsFirst(Place(v.file, 1))
  BY <1>2, <1>3 DEF IsFirst
<1>5. Place(v.file, 1) <= Place(v.file, p)
  <2> DEFINE a == Place(v.file, 1)
             b == Place(v.file, p)
  <2>1. a \in 1..Len(stream) /\ b \in 1..Len(stream) /\ stream[a][1] = v.file /\ stream[b][1] = v.file
        /\ stream[a][2] = 1 /\ stream[b][2] = p /\ v.file \in Nat
    BY <1>1, <1>2, <1>3, MetaFacts
  <2>2. stream \in Seq(Nat \X Nat) /\ IsStream(stream)
    BY FrameMemoryAssumption DEF Sending
  <2> HIDE DEF a, b
  <2>3. CASE a <= b
    BY <2>3 DEF a, b
  <2>4. CASE ~(a <= b)
    <3>1. b \in 1..a-1
      BY <2>1, <2>4
    <3>2. Meta[stream[b][1]].apid = Meta[stream[a][1]].apid
      BY <2>1
    <3>3. stream[b][1] < stream[a][1] \/ (stream[b][1] = stream[a][1] /\ stream[b][2] < stream[a][2])
      BY <2>1, <2>2, <3>1, <3>2, Ascends
    <3> QED
      BY <1>1, <2>1, <3>3
  <2> QED
    BY <2>3, <2>4
<1> QED
  BY <1>1, <1>2, <1>3, <1>4, <1>5

(* The SDU behind the last one of an open file is its next part. *)
LEMMA NextPart ==
    ASSUME Sending, NEW k \in 1..Len(stream), ~IsFirst(k), NEW q \in 1..Len(stream), q < k,
           ApidOf(q) = ApidOf(k), \A j \in 1..k-1 : ApidOf(j) = ApidOf(k) => j <= q,
           NEW f, NEW p, stream[q] = <<f, p>>
    PROVE  stream[k] = <<f, p + 1>>
<1>1. stream \in Seq(Nat \X Nat) /\ IsStream(stream)
  BY FrameMemoryAssumption DEF Sending
<1>2. stream[k][2] # 1
  BY DEF IsFirst
<1>3. PICK j \in 1..k-1 :
         /\ Meta[stream[j][1]].apid = Meta[stream[k][1]].apid
         /\ \A i \in 1..k-1 : Meta[stream[i][1]].apid = Meta[stream[k][1]].apid => i <= j
         /\ stream[k] = <<stream[j][1], stream[j][2] + 1>>
  BY <1>1, <1>2, PlacesOf
<1>4. q \in 1..k-1 /\ Len(stream) \in Nat
  BY SduFacts
<1>5. j <= q /\ q <= j
  BY <1>3, <1>4 DEF ApidOf
<1>6. j = q
  BY <1>3, <1>4, <1>5
<1>7. stream[q][1] = f /\ stream[q][2] = p
  OBVIOUS
<1> QED
  BY <1>3, <1>6, <1>7

(* A slice whose octets are not written over. *)
LEMMA Unwritten ==
    ASSUME NEW m, NEW w, NEW f, f.at # Nil => \A i \in 1..f.len : w[f.at + i - 1] = m[f.at + i - 1]
    PROVE  RawData(w, f) = RawData(m, f)
<1>1. CASE f.at = Nil
  BY <1>1 DEF RawData
<1>2. CASE f.at # Nil
  <2>1. Read(w, f.at, f.len) = Read(m, f.at, f.len)
    BY <1>2 DEF Read
  <2> QED
    BY <1>2, <2>1 DEF RawData
<1> QED
  BY <1>1, <1>2

(* Where the file of SDU j is written on: behind its headers, in its frame. *)
Behind(j, p) == ~Carried(j) /\ RawAt(j) + HeadLen <= p /\ p < ZoneEnd(RawAt(j))

(* A calm file is not written over by another one. *)
LEMMA Elsewhere ==
    ASSUME Sending, NEW m, NEW w, NEW D, NEW f, SliceOK(f), NEW p, SliceInv(m, D, f, p),
           Calm(f.value.file, p), NEW j \in 1..Len(stream), IsFirst(j),
           ApidOf(j) # Meta[f.value.file].apid \/ Place(f.value.file, p) < j,
           \A q \in 0..TotalLen-1 : w[q] = m[q] \/ Behind(j, q)
    PROVE  RawData(w, f) = RawData(m, f)
<1> DEFINE F == f.value.file
           first == Place(F, 1)
           last == Place(F, p)
<1>1. /\ p \in Nat /\ 1 \in 1..p /\ p \in 1..p /\ first \in 1..Len(stream) /\ last \in 1..Len(stream)
      /\ ApidOf(first) = Meta[F].apid /\ IsPacked(first) = Meta[F].packed /\ IsFirst(first)
      /\ first <= last /\ Len(stream) \in Nat
  <2>1. ValueAt(f.value, p)
    BY DEF SliceInv
  <2> QED
    BY <2>1, PartsOf, SduFacts
<1>2. /\ RawAt(j) \in Nat /\ PacketAt(j) \in Nat /\ PacketAt(j) < RawAt(j)
      /\ RawAt(first) \in Nat /\ PacketAt(first) \in Nat /\ HeadLen \in Nat /\ TotalLen \in Nat
      /\ RawAt(last) \in Nat /\ RawLen(last) \in Nat /\ PacketEnd(last) \in Nat
      /\ RawAt(last) + RawLen(last) < PacketEnd(last)
  BY <1>1, PacketParts, SduFacts, LengthFacts, AllFrames
<1>3. f.at \in Nat \cup {Nil} /\ f.len \in Nat
  BY SliceFacts
<1> SUFFICES ASSUME f.at # Nil, NEW i \in 1..f.len
             PROVE  w[f.at + i - 1] = m[f.at + i - 1]
  BY Unwritten
<1> DEFINE q == f.at + i - 1
<1>4. /\ f.at \in Nat /\ f.at = RawAt(first) /\ ~Carried(first)
      /\ f.at + f.len <= ZoneEnd(f.at) /\ ZoneEnd(f.at) <= TotalLen /\ ZoneEnd(f.at) \in Nat
  <2>1. f.at \in Nat
    BY <1>3
  <2> QED
    BY <2>1, FrameFacts DEF SliceOK, SliceInv
<1>5. q \in Nat /\ f.at <= q /\ q < ZoneEnd(f.at) /\ q \in 0..TotalLen-1 /\ q < f.at + f.len
  <2> DEFINE at == f.at
             len == f.len
             zone == ZoneEnd(f.at)
  <2>1. at \in Nat /\ len \in Nat /\ zone \in Nat /\ at + len <= zone /\ zone <= TotalLen
        /\ i \in 1..len /\ q = at + i - 1
    BY <1>3, <1>4
  <2>2. q \in Nat /\ at <= q /\ q < zone /\ q \in 0..TotalLen-1 /\ q < at + len
    <3> HIDE DEF at, len, zone, q
    <3> QED
      BY <1>2, <2>1
  <2> QED
    BY <2>2
<1> SUFFICES ASSUME Behind(j, q) PROVE FALSE
  BY <1>5
<1> HIDE DEF F, first, last, q
<1>6. ~Carried(j) /\ RawAt(j) + HeadLen <= q /\ q < ZoneEnd(RawAt(j)) /\ RawAt(j) <= q
  <2>1. ~Carried(j) /\ RawAt(j) + HeadLen <= q /\ q < ZoneEnd(RawAt(j))
    BY DEF Behind
  <2> QED
    BY <1>2, <1>5, <2>1
<1>7. FrameOf(q) = FrameOf(RawAt(j)) /\ FrameOf(q) = FrameOf(RawAt(first))
  BY <1>2, <1>4, <1>5, <1>6, FrameFacts
<1>8. FrameOf(PacketAt(j)) = FrameOf(PacketAt(first))
  BY <1>1, <1>4, <1>6, <1>7, Uncut
<1>9. \A x \in 1..Len(stream) : ~InTheWay(x, first) /\ ~(InTheWay(first, x) /\ IsFirst(x))
  BY <1>1 DEF Calm, F, first
<1>10. ~InTheWay(j, first) /\ ~InTheWay(first, j)
  BY <1>9
<1>11. CASE ApidOf(j) # Meta[F].apid
  <2>1. j < first \/ first < j
    BY <1>1, <1>11
  <2> QED
    BY <1>1, <1>4, <1>6, <1>8, <1>10, <1>11, <2>1 DEF InTheWay
<1>12. CASE last < j
  <2>1. first < j
    BY <1>1, <1>12
  <2>2. ~IsPacked(first)
    BY <1>1, <1>4, <1>6, <1>8, <1>10, <2>1 DEF InTheWay
  <2>3. Within(f, p)
    BY <1>1, <2>2 DEF SliceInv, F
  <2>4. f.at + f.len <= RawAt(last) + RawLen(last)
    BY <1>4, <2>3 DEF Within, F, first, last
  <2>5. PacketEnd(last) <= PacketAt(j)
    <3>1. j \in 1..Len(stream)+1
      BY <1>1
    <3> QED
      BY <1>1, <1>12, <3>1, InOrder
  <2> DEFINE at == f.at
             len == f.len
  <2>6. at \in Nat /\ len \in Nat /\ q < at + len /\ at + len <= RawAt(last) + RawLen(last)
    BY <1>3, <1>4, <1>5, <2>4
  <2> HIDE DEF at, len
  <2> QED
    BY <1>2, <1>5, <1>6, <2>5, <2>6
<1> QED
  BY <1>11, <1>12 DEF F, last

(* The buffers are written on behind the headers of SDU j's file, as far as *)
(* the file's packets reach unless its rows grow.                           *)
Writes(m, w, D, j) ==
    \A q \in 0..TotalLen-1 :
        \/ w[q] = m[q]
        \/ /\ Behind(j, q)
           /\ IsPacked(j) \/ \E e \in D : stream[e][1] = stream[j][1] /\ q < PacketEnd(e)

(* Another file keeps what it has. *)
LEMMA SliceKept ==
    ASSUME Sending, NEW m, NEW w, NEW D, NEW E, D \subseteq E, NEW f, SliceOK(f),
           NEW p, SliceInv(m, D, f, p), NEW j \in 1..Len(stream), IsFirst(j),
           ApidOf(j) # Meta[f.value.file].apid \/ Place(f.value.file, p) < j,
           Writes(m, w, D, j)
    PROVE  SliceInv(w, E, f, p)
<1>1. \A q \in 0..TotalLen-1 : w[q] = m[q] \/ Behind(j, q)
  BY DEF Writes
<1>2. ASSUME Calm(f.value.file, p) PROVE Intact(w, f)
  <2>1. RawData(w, f) = RawData(m, f)
    BY <1>1, <1>2, Elsewhere
  <2>2. Intact(m, f)
    BY <1>2 DEF SliceInv
  <2> QED
    BY <2>1, <2>2 DEF Intact
<1> QED
  BY <1>2 DEF SliceInv

(* More SDUs of the APID are done. *)
LEMMA RestMore ==
    ASSUME NEW m, NEW D, NEW E, NEW a, Rest(m, D, a), D \subseteq E,
           \A k \in E \ D : ApidOf(k) = a
    PROVE  Rest(m, E, a)
<1>1. ASSUME NEW p, Exposed(D, p) PROVE Exposed(E, p)
  BY <1>1 DEF Exposed
<1>2. MemInv(m, E)
  BY <1>1 DEF Rest, MemInv
<1>3. ASSUME NEW f, NEW p, SliceInv(m, D, f, p) PROVE SliceInv(m, E, f, p)
  BY <1>3 DEF SliceInv
<1>4. ASSUME NEW b \in Apids \ {a}, Files[b] # Nil PROVE OpenInv(m, E, Files[b], b)
  <2> DEFINE f == Files[b]
  <2>1. OpenInv(m, D, f, b)
    BY <1>4 DEF Rest
  <2> HIDE DEF f
  <2>2. PICK p \in 1..Parts(f.value.file)-1 :
           /\ SliceInv(m, D, f, p)
           /\ \A k \in D : ApidOf(k) = b => k <= Place(f.value.file, p)
    BY <2>1 DEF OpenInv
  <2>3. \A k \in E : ApidOf(k) = b => k <= Place(f.value.file, p)
    BY <2>2
  <2>4. OpenInv(m, E, f, b)
    BY <1>3, <2>1, <2>2, <2>3 DEF OpenInv
  <2> QED
    BY <2>4 DEF f
<1>5. \A f \in delivered : DeliveredInv(m, E, f)
  BY <1>3 DEF Rest, DeliveredInv
<1> QED
  BY <1>2, <1>4, <1>5 DEF Rest

(* The APID's file writes on. *)
LEMMA RestWritten ==
    ASSUME TypeInv, NEW m, NEW w, NEW D \in SUBSET (1..Len(stream)), NEW a, Rest(m, D, a),
           NEW j \in D, IsFirst(j), ApidOf(j) = a, Writes(m, w, D, j),
           \A f \in delivered : Meta[f.value.file].apid = a => LastOf(f) < j
    PROVE  Rest(w, D, a)
<1>1. /\ Sending /\ j \in 1..Len(stream) /\ TotalLen \in Nat /\ RawAt(j) \in Nat /\ HeadLen \in Nat
      /\ \A b \in Apids : Files[b] = Nil \/ SliceOK(Files[b])
      /\ \A f \in delivered : SliceOK(f)
  <2>1. Sending /\ j \in 1..Len(stream)
    BY DEF TypeInv
  <2>2. TotalLen \in Nat /\ RawAt(j) \in Nat /\ HeadLen \in Nat
    BY <2>1, AllFrames, PacketParts, LengthFacts
  <2> QED
    BY <2>1, <2>2 DEF TypeInv
<1>2. MemInv(w, D)
  <2> SUFFICES ASSUME NEW q \in 0..TotalLen-1 PROVE w[q] = <<q, 0>> \/ Exposed(D, q)
    BY DEF MemInv
  <2>1. CASE w[q] = m[q]
    BY <2>1 DEF Rest, MemInv
  <2>2. CASE w[q] # m[q]
    <3>1. ~Carried(j) /\ RawAt(j) + HeadLen <= q /\ q < ZoneEnd(RawAt(j))
          /\ (IsPacked(j) \/ \E e \in D : stream[e][1] = stream[j][1] /\ q < PacketEnd(e))
      BY <2>2 DEF Writes, Behind
    <3>2. q \in Nat /\ RawAt(j) <= q
      BY <1>1, <3>1
    <3>3. FrameOf(RawAt(j)) = FrameOf(q)
      BY <1>1, <3>1, <3>2, FrameFacts
    <3> QED
      BY <3>1, <3>3 DEF Exposed
  <2> QED
    BY <2>1, <2>2
<1>3. ASSUME NEW b \in Apids \ {a}, Files[b] # Nil PROVE OpenInv(w, D, Files[b], b)
  <2> DEFINE f == Files[b]
  <2>1. OpenInv(m, D, f, b) /\ SliceOK(f)
    BY <1>1, <1>3 DEF Rest
  <2> HIDE DEF f
  <2>2. PICK p \in 1..Parts(f.value.file)-1 :
           /\ SliceInv(m, D, f, p)
           /\ \A k \in D : ApidOf(k) = b => k <= Place(f.value.file, p)
    BY <2>1 DEF OpenInv
  <2>3. ApidOf(j) # Meta[f.value.file].apid
    BY <2>1 DEF OpenInv
  <2>4. SliceInv(w, D, f, p)
    BY <1>1, <2>1, <2>2, <2>3, SliceKept
  <2>5. OpenInv(w, D, f, b)
    BY <2>1, <2>2, <2>4 DEF OpenInv
  <2> QED
    BY <2>5 DEF f
<1>4. ASSUME NEW f \in delivered PROVE DeliveredInv(w, D, f)
  <2>0. DeliveredInv(m, D, f)
    BY DEF Rest
  <2>1. SliceInv(m, D, f, Parts(f.value.file)) /\ SliceOK(f)
    <3>1. SliceInv(m, D, f, Parts(f.value.file))
      BY <2>0, Zenon DEF DeliveredInv
    <3>2. SliceOK(f)
      BY <1>1
    <3> QED
      BY <3>1, <3>2
  <2>2. ApidOf(j) # Meta[f.value.file].apid \/ Place(f.value.file, Parts(f.value.file)) < j
    BY DEF LastOf
  <2>3. SliceInv(w, D, f, Parts(f.value.file))
    BY <1>1, <2>1, <2>2, SliceKept
  <2> QED
    BY <2>3 DEF DeliveredInv
<1> QED
  BY <1>2, <1>3, <1>4 DEF Rest

(* A file that grew wrote on behind its headers only. *)
LEMMA GrewWrites ==
    ASSUME Sending, NEW s, SliceOK(s.file), NEW t, Grew(s, t),
           NEW C, NEW o, SliceInv(s.mem, C, s.file, o),
           NEW D, NEW g, NEW p, SliceInv(t.mem, D, g, p),
           g.value.file = s.file.value.file, g.len = t.file.len
    PROVE  /\ Writes(s.mem, t.mem, D, FirstOf(s.file))
           /\ FirstOf(s.file) \in D /\ FirstOf(s.file) \in 1..Len(stream)
           /\ IsFirst(FirstOf(s.file))
           /\ ApidOf(FirstOf(s.file)) = Meta[s.file.value.file].apid
<1> DEFINE F == s.file.value.file
           j == FirstOf(s.file)
           e == Place(F, p)
<1>0. j = Place(F, 1) /\ g.value.file = F
  BY DEF FirstOf
<1>1. ValueAt(g.value, p) /\ \A i \in 1..p : Place(F, i) \in D
  BY DEF SliceInv
<1>2. /\ 1 \in 1..p /\ p \in 1..p /\ j \in 1..Len(stream) /\ e \in 1..Len(stream)
      /\ stream[e][1] = F /\ stream[j][1] = F /\ IsFirst(j) /\ IsPacked(j) = Meta[F].packed
      /\ ApidOf(j) = Meta[F].apid
  <2> HIDE DEF F
  <2> QED
    BY <1>0, <1>1, PartsOf
<1>3. j \in D /\ e \in D
  BY <1>0, <1>1, <1>2
<1>4. /\ RawAt(j) \in Nat /\ RawAt(e) \in Nat /\ RawLen(e) \in Nat /\ PacketEnd(e) \in Nat
      /\ RawAt(e) + RawLen(e) < PacketEnd(e) /\ g.len \in Nat
  <2>1. SliceOK(t.file)
    BY DEF Grew
  <2> QED
    BY <1>2, <2>1, PacketParts, SduFacts, SliceFacts
<1>5. s.file.at # Nil => s.file.at = RawAt(j) /\ ~Carried(j)
  BY <1>0 DEF SliceInv
<1>6. ~Meta[F].packed => RawAt(j) + g.len <= RawAt(e) + RawLen(e)
  BY <1>0 DEF SliceInv, Within
<1> HIDE DEF F, j, e
<1>7. ASSUME NEW q \in 0..TotalLen-1, t.mem[q] # s.mem[q]
      PROVE  /\ Behind(j, q)
             /\ IsPacked(j) \/ \E x \in D : stream[x][1] = stream[j][1] /\ q < PacketEnd(x)
  <2>1. Written(s, t, q)
    BY <1>7 DEF Grew
  <2>2. ~Carried(j) /\ RawAt(j) + HeadLen <= q /\ q < RawAt(j) + g.len /\ q < ZoneEnd(RawAt(j))
    BY <1>5, <2>1 DEF Written
  <2>3. Behind(j, q)
    BY <2>2 DEF Behind
  <2>4. ASSUME ~IsPacked(j) PROVE q < PacketEnd(e)
    <3>1. RawAt(j) + g.len <= RawAt(e) + RawLen(e) /\ q \in Int
      BY <1>2, <1>6, <2>4
    <3> DEFINE n == g.len
    <3>2. n \in Nat /\ q < RawAt(j) + n /\ RawAt(j) + n <= RawAt(e) + RawLen(e)
      BY <1>4, <2>2, <3>1
    <3> HIDE DEF n
    <3> QED
      BY <1>4, <3>1, <3>2
  <2> QED
    BY <1>2, <1>3, <2>3, <2>4
<1>8. Writes(s.mem, t.mem, D, j)
  BY <1>7 DEF Writes
<1> QED
  BY <1>2, <1>3, <1>8 DEF F, j
-----------------------------------------------------------------------------
(* The operations keep a file what it should be.                            *)

(* A file is opened on an SDU whose CRC is good. *)
LEMMA SliceOpened ==
    ASSUME Sending, NEW m, MemOK(m), NEW k \in 1..Len(stream), IsFirst(k), CRCGood(m, k),
           NEW D, k \in D
    PROVE  /\ SliceInv(m, D, OpenSlice(m, k), 1)
           /\ OpenSlice(m, k).value.file = stream[k][1] /\ Place(stream[k][1], 1) = k
<1> DEFINE f == OpenSlice(m, k)
           F == stream[k][1]
           v == OpenNew(F)
<1>1. /\ SliceOK(f) /\ f.value = v /\ f.ready = v.ready /\ f.len = RawLen(k)
      /\ f.at = (IF Carried(k) THEN Nil ELSE RawAt(k)) /\ RawData(m, f) = Octet(m, k)
  BY OpenSliceFacts
<1>2. stream[k] = <<F, 1>> /\ Place(F, 1) = k
  <2>1. stream[k] = <<F, 1>>
    BY SduFacts DEF IsFirst
  <2> QED
    BY <2>1, PlaceIs
<1>3. ValueAt(v, 1) /\ v.file = F /\ Octets(v.data) = Meta[F].lens[1] /\ Expected(v) = Body(k)
  BY <1>2, ValueOpen
<1>4. /\ RawAt(k) \in Nat /\ RawLen(k) \in Nat /\ PacketEnd(k) \in Nat /\ PacketAt(k) \in Nat
      /\ PacketAt(k) + HdrLen <= RawAt(k) /\ RawAt(k) + RawLen(k) < PacketEnd(k) /\ HdrLen \in Nat
      /\ Meta[F].lens[1] \in Nat /\ HeadLen \in Nat
  <2>1. Meta[stream[k][1]].lens[stream[k][2]] \in Nat /\ stream[k][2] = 1
    BY <1>2, SduFacts DEF IsFirst
  <2>2. /\ RawAt(k) \in Nat /\ RawLen(k) \in Nat /\ PacketEnd(k) \in Nat /\ PacketAt(k) \in Nat
        /\ PacketAt(k) + HdrLen <= RawAt(k) /\ RawAt(k) + RawLen(k) < PacketEnd(k) /\ HdrLen \in Nat
        /\ HeadLen \in Nat
    BY SduFacts, PacketParts, LengthFacts
  <2> QED
    BY <2>1, <2>2
<1>5. RawLen(k) = HeadLen + Octets(v.data)
  <2>1. RawLen(k) = Meta[F].lens[1] + HeadLen
    BY DEF RawLen, IsFirst
  <2> HIDE DEF F, v
  <2> QED
    BY <1>3, <1>4, <2>1
<1>6. Octet(m, k) = AsSent(RawAt(k), RawLen(k))
  <2>1. CASE Carried(k)
    BY <2>1 DEF Octet
  <2>2. CASE ~Carried(k)
    <3>1. \A p \in RawAt(k) .. RawAt(k)+RawLen(k)-1 : m[p] = <<p, 0>>
      <4> TAKE p \in RawAt(k) .. RawAt(k)+RawLen(k)-1
      <4>1. p \in PacketAt(k) + HdrLen .. PacketEnd(k) - 1
        BY <1>4
      <4> QED
        BY <2>2, <4>1 DEF CRCGood
    <3> QED
      BY <3>1, OctetFacts
  <2> QED
    BY <2>1, <2>2
<1>7. AsSent(RawAt(k), RawLen(k)) = AsSent(RawAt(k), HeadLen) \o Body(k)
  BY BodyFacts
<1> HIDE DEF f, v, F
<1>8. f.value.file = F /\ \A i \in 1..1 : Place(F, i) \in D
  BY <1>1, <1>2, <1>3
<1>9. f.at # Nil => f.at = RawAt(k) /\ ~Carried(k)
  BY <1>1
<1>10. Within(f, 1)
  <2>1. RawAt(k) + f.len <= RawAt(k) + RawLen(k)
    BY <1>1, <1>4
  <2> QED
    BY <1>1, <1>2, <1>5, <1>8, <2>1 DEF Within
<1>11. Intact(m, f)
  BY <1>1, <1>2, <1>3, <1>5, <1>6, <1>7, <1>8 DEF Intact
<1>12. ValueAt(f.value, 1)
  BY <1>1, <1>3
<1> QED
  BY <1>2, <1>8, <1>9, <1>10, <1>11, <1>12 DEF SliceInv, f, F

(* The parts of a file that were calm stay so with fewer. *)
LEMMA CalmBefore ==
    ASSUME NEW F, NEW p \in Nat, Calm(F, p + 1)
    PROVE  Calm(F, p)
<1>1. \A i \in 1..p : i \in 1..p+1
  OBVIOUS
<1> QED
  BY <1>1, Zenon DEF Calm

(* The octets of a file that are no rows are not fewer or more when they   *)
(* are appended again.                                                      *)
LEMMA PlainAgain ==
    ASSUME Sending, NEW s \in States, SliceOK(s.file), ~Meta[s.file.value.file].packed,
           NEW parsed \in BOOLEAN, NEW r \in Reappended(s, parsed)
    PROVE  /\ r.file.len = s.file.len /\ r.file.value = s.file.value
           /\ r.file.ready => s.file.ready \/ parsed
<1>1. MemOK(s.mem) /\ Grew(s, r)
  BY GrewSame, ReappendedFacts
<1>2. CASE ~parsed
  BY <1>2, ReappendedFacts
<1>3. CASE parsed
  <2>1. PICK g : \E d \in RowsFor(g, Data(s.mem, s.file)) :
                   g.value = s.file.value /\ AgainAs(s, d, r)
    BY <1>3, ReappendedFacts
  <2>2. PICK d \in RowsFor(g, Data(s.mem, s.file)) : g.value = s.file.value /\ AgainAs(s, d, r)
    BY <2>1
  <2>3. RowsFor(g, Data(s.mem, s.file)) = {Data(s.mem, s.file)}
    BY <2>2, RowsPlain
  <2>4. d = Data(s.mem, s.file)
    BY <2>3
  <2>5. Len(d) = s.file.len - HeadLen
    BY <1>1, <2>4, DataFacts
  <2>6. r.file.len = HeadLen + Len(d)
    BY <2>2 DEF AgainAs
  <2>7. s.file.len \in Nat /\ HeadLen \in Nat
    BY SliceFacts, LengthFacts
  <2> QED
    BY <1>1, <1>3, <2>5, <2>6, <2>7 DEF Grew
<1> QED
  BY <1>2, <1>3

(* SDU k continues the file s, of which p parts came. *)
Continues(s, D, p, k) ==
    /\ s \in States /\ SliceOK(s.file) /\ SliceInv(s.mem, D, s.file, p)
    /\ k \in 1..Len(stream) /\ stream[k] = <<s.file.value.file, p + 1>>
    /\ Place(s.file.value.file, p) < k /\ CRCGood(s.mem, k)

(* The facts about such an SDU that the lemmas below keep needing. *)
LEMMA ContinueFacts ==
    ASSUME Sending, NEW s, NEW D, NEW p, NEW k, Continues(s, D, p, k)
    PROVE  LET F == s.file.value.file
               q == Place(F, p)
               j == Place(F, 1)
           IN  /\ MemOK(s.mem) /\ ValueAt(s.file.value, p) /\ s.file.value.file \in Sent
               /\ p \in Nat /\ p >= 1 /\ p + 1 \in 1..Parts(F) /\ ~IsFirst(k) /\ Place(F, p + 1) = k
               /\ ApidOf(k) = Meta[F].apid /\ Meta[F].lens[p + 1] \in Nat /\ Meta[F].lens[p + 1] > 0
               /\ RawLen(k) = Meta[F].lens[p + 1] /\ Body(k) = AsSent(RawAt(k), RawLen(k))
               /\ RawAt(k) = PacketAt(k) + HdrLen
               /\ q \in 1..Len(stream) /\ j \in 1..Len(stream) /\ j < k /\ IsFirst(j)
               /\ ApidOf(j) = Meta[F].apid /\ IsPacked(j) = Meta[F].packed
               /\ IsPacked(q) = Meta[F].packed
               /\ RawAt(q) + RawLen(q) < PacketAt(k)
<1> DEFINE F == s.file.value.file
           q == Place(F, p)
           j == Place(F, 1)
<1>1. /\ s \in States /\ SliceOK(s.file) /\ ValueAt(s.file.value, p) /\ k \in 1..Len(stream)
      /\ stream[k] = <<F, p + 1>> /\ q < k
  BY DEF Continues, SliceInv
<1>2. MemOK(s.mem)
  BY <1>1, GrewSame
<1>3. /\ F \in Sent /\ p \in Nat /\ p >= 1 /\ q \in 1..Len(stream) /\ j \in 1..Len(stream)
      /\ IsFirst(j) /\ ApidOf(j) = Meta[F].apid /\ IsPacked(j) = Meta[F].packed /\ j <= q
      /\ IsPacked(q) = Meta[F].packed
  BY <1>1, PartsOf
<1>4. stream[k][1] = F /\ stream[k][2] = p + 1 /\ k \in Nat /\ Len(stream) \in Nat
  BY <1>1, SduFacts
<1> HIDE DEF F, q, j
<1>5. p + 1 \in 1..Parts(F) /\ Meta[F].lens[p + 1] \in Nat /\ Meta[F].lens[p + 1] > 0
  <2>1. p + 1 \in 1..Parts(F)
    BY <1>1, <1>4, SduFacts
  <2>2. p + 1 \in 2..Parts(F)
    BY <1>3, <2>1
  <2> QED
    BY <1>3, <2>1, <2>2, MetaFacts
<1>6. ~IsFirst(k) /\ ApidOf(k) = Meta[F].apid
  <2>1. p + 1 # 1
    BY <1>3
  <2> QED
    BY <1>4, <2>1 DEF IsFirst, ApidOf
<1>7. RawLen(k) = Meta[F].lens[p + 1]
  <2>1. RawLen(k) = Meta[F].lens[p + 1] + 0
    BY <1>4, <1>6, Zenon DEF RawLen
  <2> QED
    BY <1>5, <2>1
<1>8. Place(F, p + 1) = k
  BY <1>1, PlaceIs
<1>9. Body(k) = AsSent(RawAt(k), RawLen(k)) /\ RawAt(k) = PacketAt(k) + HdrLen
  BY <1>1, <1>6, BodyFacts, PacketParts
<1>10. j < k /\ RawAt(q) + RawLen(q) < PacketAt(k)
  <2>1. k \in 1..Len(stream)+1
    BY <1>1, <1>4
  <2>2. PacketEnd(q) <= PacketAt(k) /\ PacketAt(k) \in Nat
    BY <1>1, <1>3, <2>1, InOrder
  <2>3. RawAt(q) + RawLen(q) < PacketEnd(q) /\ RawAt(q) \in Nat /\ RawLen(q) \in Nat
        /\ PacketEnd(q) \in Nat
    BY <1>3, PacketParts, SduFacts
  <2> QED
    BY <1>1, <1>3, <1>4, <2>2, <2>3
<1> QED
  BY <1>1, <1>2, <1>3, <1>5, <1>6, <1>7, <1>8, <1>9, <1>10 DEF F, q, j

(* The value of a file that SDU k continues. *)
LEMMA JoinedValue ==
    ASSUME Sending, NEW s, NEW D, NEW p, NEW k, Continues(s, D, p, k), NEW t, Grew(s, t)
    PROVE  /\ JoinedAs(s.file.value, p, k, Joined(t.file, k).value)
           /\ SliceOK(Joined(t.file, k)) /\ Joined(t.file, k).ready = t.file.ready
           /\ Joined(t.file, k).len = t.file.len /\ Joined(t.file, k).at = t.file.at
           /\ Joined(t.file, k).value.file = s.file.value.file
           /\ \A m : RawData(m, Joined(t.file, k)) = RawData(m, t.file)
<1> DEFINE v == s.file.value
           w == AppendSDU(v, SentChunk(v.file, p + 1), TRUE)
           g == Joined(t.file, k)
<1>1. k \in 1..Len(stream) /\ stream[k] = <<v.file, p + 1>> /\ ValueAt(v, p)
  BY DEF Continues, SliceInv
<1>2. t.file.value = v /\ SliceOK(t.file)
  BY DEF Grew
<1>3. stream[k][1] = v.file /\ stream[k][2] = p + 1
  BY <1>1
<1>4. /\ SliceOK(g) /\ g.ready = t.file.ready /\ g.len = t.file.len /\ g.at = t.file.at
      /\ g.value = AppendSDU(t.file.value, SentChunk(stream[k][1], stream[k][2]), TRUE)
      /\ \A m : RawData(m, g) = RawData(m, t.file)
  BY <1>1, <1>2, JoinedSlice
<1>5. g.value = w
  <2> HIDE DEF g, v
  <2> QED
    BY <1>2, <1>3, <1>4
<1>6. JoinedAs(v, p, k, w)
  <2> HIDE DEF v
  <2> QED
    BY <1>1, ValueJoin
<1> HIDE DEF g, w, v
<1>7. g.value.file = v.file
  BY <1>5, <1>6 DEF JoinedAs
<1> QED
  BY <1>4, <1>5, <1>6, <1>7 DEF g, v

(* A file whose rows do not grow ends within the packet of SDU k. *)
LEMMA JoinedWithin ==
    ASSUME Sending, NEW s, NEW D, NEW p, NEW k, Continues(s, D, p, k),
           ~Meta[s.file.value.file].packed, NEW t \in Appends(s, k)
    PROVE  Within(Joined(t.file, k), p + 1)
<1> DEFINE v == s.file.value
           F == s.file.value.file
           q == Place(F, p)
           j == Place(F, 1)
           g == Joined(t.file, k)
           l == Meta[F].lens[p + 1]
           n == s.file.len
<1>1. /\ p \in Nat /\ p >= 1 /\ Place(F, p + 1) = k /\ l \in Nat
      /\ RawLen(k) = l /\ RawAt(k) = PacketAt(k) + HdrLen
      /\ q \in 1..Len(stream) /\ j \in 1..Len(stream)
      /\ RawAt(q) + RawLen(q) < PacketAt(k) /\ MemOK(s.mem) /\ ValueAt(v, p)
  BY ContinueFacts
<1>2. /\ s \in States /\ SliceOK(s.file) /\ k \in 1..Len(stream) /\ Within(s.file, p)
      /\ ~Meta[F].packed
  BY DEF Continues, SliceInv
<1>3. Grew(s, t)
  BY <1>2, AppendsFacts
<1>4. PICK parsed \in Parses(s, k) : \E r \in Reappended(s, parsed) :
         \E d \in RowsFor(r.file, Octet(r.mem, k)) :
            parsed \in BOOLEAN /\ Grew(s, r) /\ d \in Seq(Octs) /\ Appended(r, d, t)
  BY <1>2, AppendsFacts
<1>5. PICK r \in Reappended(s, parsed) :
         \E d \in RowsFor(r.file, Octet(r.mem, k)) :
            parsed \in BOOLEAN /\ Grew(s, r) /\ d \in Seq(Octs) /\ Appended(r, d, t)
  BY <1>4
<1>6. PICK d \in RowsFor(r.file, Octet(r.mem, k)) :
            parsed \in BOOLEAN /\ Grew(s, r) /\ d \in Seq(Octs) /\ Appended(r, d, t)
  BY <1>5
<1>7. r.file.len = n /\ r.file.value = v /\ (r.file.ready => s.file.ready \/ parsed)
  BY <1>2, <1>6, PlainAgain
<1>8. Len(d) = l /\ t.file.len = n + l /\ t.file.ready = r.file.ready
  <2>1. d = Octet(r.mem, k)
    <3>1. RowsFor(r.file, Octet(r.mem, k)) = {Octet(r.mem, k)}
      BY <1>2, <1>7, RowsPlain
    <3> QED
      BY <3>1
  <2>2. MemOK(r.mem)
    BY <1>6 DEF Grew
  <2>3. Len(d) = RawLen(k)
    BY <1>2, <2>1, <2>2, OctetFacts
  <2> QED
    BY <1>1, <1>6, <1>7, <2>3 DEF Appended
<1>9. /\ JoinedAs(v, p, k, g.value) /\ g.ready = t.file.ready /\ g.len = t.file.len
      /\ g.value.file = F
  BY <1>3, JoinedValue
<1>10. /\ RawAt(k) \in Nat /\ PacketAt(k) \in Nat /\ RawAt(q) \in Nat /\ RawLen(q) \in Nat
       /\ RawAt(j) \in Nat /\ HdrLen \in Nat /\ HeadLen \in Nat /\ n \in Nat
       /\ Octets(v.data) \in Nat
  BY <1>1, <1>2, SduFacts, PacketParts, LengthFacts, SliceFacts, ValueFacts
<1>11. /\ n = HeadLen + Octets(v.data) /\ RawAt(j) + n <= RawAt(q) + RawLen(q)
       /\ s.file.ready => v.ready
  BY <1>2 DEF Within
<1>12. OldLen(v, p) = Octets(v.data) /\ NewLen(v, p) = l
  <2>1. ReadyNow(v) => Octets(v.data) = Meta[F].lens[p]
    BY <1>1, ValueFacts DEF ReadyNow
  <2> QED
    BY <1>2, <2>1 DEF OldLen, NewLen, UnpackedLen
<1>13. Octets(g.value.data) = Octets(v.data) + l /\ g.value.ready = GetsReady(v)
  BY <1>9, <1>12 DEF JoinedAs
<1>14. g.ready => g.value.ready
  <2> SUFFICES ASSUME g.ready PROVE GetsReady(v)
    BY <1>13
  <2>1. s.file.ready \/ parsed
    BY <1>7, <1>8, <1>9
  <2>2. parsed => n > HeadLen
    <3>1. ASSUME parsed, ~(n > HeadLen) PROVE FALSE
      <4>1. n <= HeadLen
        BY <1>10, <3>1
      <4>2. Parses(s, k) = {FALSE}
        BY <4>1 DEF Parses
      <4> QED
        BY <3>1, <4>2
    <3> QED
      BY <3>1
  <2>3. n > HeadLen => Octets(v.data) > 0
    <3> HIDE DEF n, v
    <3> QED
      BY <1>10, <1>11
  <2> QED
    BY <1>11, <2>1, <2>2, <2>3 DEF GetsReady
<1> HIDE DEF v, F, q, j, g, l, n
<1>15. g.len = HeadLen + Octets(g.value.data)
  BY <1>1, <1>8, <1>9, <1>10, <1>11, <1>13
<1>16. RawAt(j) + g.len <= RawAt(k) + RawLen(k)
  <2>1. g.len = n + l
    BY <1>8, <1>9
  <2>2. RawAt(j) + n < PacketAt(k)
    <3>1. RawAt(j) + n <= RawAt(q) + RawLen(q) /\ RawAt(q) + RawLen(q) < PacketAt(k)
      BY <1>1, <1>11
    <3> QED
      BY <1>10, <3>1
  <2>3. RawAt(k) = PacketAt(k) + HdrLen /\ l \in Nat
    BY <1>1
  <2>4. RawAt(j) + (n + l) <= RawAt(k) + l
    BY <1>10, <2>2, <2>3
  <2> QED
    BY <1>1, <2>1, <2>4
<1>17. Place(g.value.file, 1) = j /\ Place(g.value.file, p + 1) = k
  BY <1>1, <1>9 DEF j
<1> QED
  BY <1>14, <1>15, <1>16, <1>17 DEF Within, g

(* What a calm file has, and that SDU k's headers and parts lie elsewhere.  *)
CalmAt(s, p, k) ==
    LET v == s.file.value
        h == AsSent(RawAt(Place(v.file, 1)), HeadLen)
    IN  /\ s.file.ready = v.ready /\ s.file.len = HeadLen + Octets(v.data)
        /\ h \in Seq(Octs) /\ Len(h) = HeadLen
        /\ Data(s.mem, s.file) = Expected(v) /\ RawData(s.mem, s.file) = h \o Expected(v)
        /\ SubSeq(RawData(s.mem, s.file), 1, HeadLen) = h
        /\ Len(Expected(v)) = Octets(v.data) /\ Octets(v.data) \in Nat
        /\ Expected(v) \in Seq(Octs)
        /\ ~InTheWay(Place(v.file, 1), k)

(* A file that nothing lies in the way of is that, when its next SDU comes. *)
LEMMA CalmHas ==
    ASSUME Sending, NEW s, NEW D, NEW p, NEW k, Continues(s, D, p, k),
           Calm(s.file.value.file, p + 1)
    PROVE  CalmAt(s, p, k)
<1> DEFINE v == s.file.value
           F == s.file.value.file
           j == Place(F, 1)
           h == AsSent(RawAt(j), HeadLen)
<1>1. /\ MemOK(s.mem) /\ ValueAt(v, p) /\ p \in Nat /\ p >= 1 /\ Place(F, p + 1) = k
      /\ j \in 1..Len(stream)
  BY ContinueFacts
<1>2. SliceOK(s.file) /\ SliceInv(s.mem, D, s.file, p)
  BY DEF Continues
<1>3. Calm(F, p)
  <2> HIDE DEF F
  <2> QED
    BY <1>1, CalmBefore DEF F
<1>4. /\ s.file.ready = v.ready /\ s.file.len = HeadLen + Octets(v.data)
      /\ RawData(s.mem, s.file) = h \o Expected(v)
  BY <1>2, <1>3 DEF SliceInv, Intact
<1>5. Expected(v) \in Seq(Octs) /\ Octets(v.data) \in Nat
  BY <1>1, ValueFacts
<1>6. h \in Seq(Octs) /\ Len(h) = HeadLen /\ HeadLen \in Nat
  <2>1. RawAt(j) \in Int /\ HeadLen \in Nat
    BY <1>1, PacketParts, LengthFacts
  <2> QED
    BY <2>1, OctetTypes
<1>7. ~InTheWay(j, k)
  <2>1. p + 1 \in 1..p+1
    BY <1>1
  <2> QED
    BY <1>1, <2>1 DEF Calm
<1> HIDE DEF h, j, v
<1>8. Data(s.mem, s.file) = Expected(v) /\ SubSeq(RawData(s.mem, s.file), 1, HeadLen) = h
  <2>1. \A x \in Seq(Octs), y \in Seq(Octs) :
           Len(x) = HeadLen /\ RawData(s.mem, s.file) = x \o y =>
              Data(s.mem, s.file) = y /\ SubSeq(RawData(s.mem, s.file), 1, HeadLen) = x
    BY <1>1, <1>2, DataFacts
  <2> QED
    BY <1>4, <1>5, <1>6, <2>1
<1>9. Len(Expected(v)) = Octets(v.data)
  <2>1. Len(RawData(s.mem, s.file)) = s.file.len
    BY <1>1, <1>2, RawDataType
  <2>2. Len(h \o Expected(v)) = Len(h) + Len(Expected(v))
    BY <1>5, <1>6, ConcatIs
  <2>3. Len(Expected(v)) \in Nat
    BY <1>5
  <2> QED
    BY <1>4, <1>5, <1>6, <2>1, <2>2, <2>3
<1> QED
  BY <1>4, <1>5, <1>6, <1>7, <1>8, <1>9, Zenon DEF CalmAt, h, v, j, F

(* Its headers are parsed when there is something behind them. *)
LEMMA CalmParses ==
    ASSUME Sending, NEW s, NEW D, NEW p, NEW k, Continues(s, D, p, k), CalmAt(s, p, k)
    PROVE  Parses(s, k) = {ReadyNow(s.file.value)}
<1> DEFINE v == s.file.value
           first == CHOOSE j \in DOMAIN stream : stream[j] = <<v.file, 1>>
           n == s.file.len
<1>1. /\ s.file.ready = v.ready /\ n = HeadLen + Octets(v.data)
      /\ SubSeq(RawData(s.mem, s.file), 1, HeadLen) = AsSent(RawAt(Place(v.file, 1)), HeadLen)
      /\ Octets(v.data) \in Nat
  BY DEF CalmAt
<1>2. first = Place(v.file, 1)
  BY DEF Place
<1>3. Parses(s, k) =
        IF s.file.ready \/ n <= HeadLen THEN {FALSE}
        ELSE IF SubSeq(RawData(s.mem, s.file), 1, HeadLen) = AsSent(RawAt(first), HeadLen)
             THEN {TRUE} ELSE BOOLEAN
  BY Zenon DEF Parses
<1>4. v.ready \in BOOLEAN /\ HeadLen \in Nat
  <2>1. ValueAt(v, p)
    BY ContinueFacts
  <2> QED
    BY <2>1, ValueFacts, LengthFacts
<1> HIDE DEF v, first, n
<1>5. n <= HeadLen <=> Octets(v.data) = 0
  BY <1>1, <1>4
<1>6. CASE v.ready
  <2>1. ReadyNow(v) = FALSE
    BY <1>6 DEF ReadyNow
  <2> QED
    BY <1>1, <1>3, <1>6, <2>1 DEF v
<1>7. CASE ~v.ready /\ Octets(v.data) = 0
  <2>1. ReadyNow(v) = FALSE
    BY <1>7 DEF ReadyNow
  <2> QED
    BY <1>3, <1>5, <1>7, <2>1 DEF v
<1>8. CASE ~v.ready /\ Octets(v.data) # 0
  <2>1. Octets(v.data) > 0
    BY <1>1, <1>8
  <2>2. ReadyNow(v) = TRUE
    BY <1>8, <2>1 DEF ReadyNow
  <2>3. ~(s.file.ready \/ n <= HeadLen)
    BY <1>1, <1>5, <1>8
  <2>4. Parses(s, k) = {TRUE}
    BY <1>1, <1>2, <1>3, <2>3
  <2> QED
    BY <2>2, <2>4 DEF v
<1> QED
  BY <1>6, <1>7, <1>8

(* What is then appended again are its octets, unpacked. *)
LEMMA CalmAgain ==
    ASSUME Sending, NEW s, NEW D, NEW p, NEW k, Continues(s, D, p, k), CalmAt(s, p, k),
           NEW parsed \in Parses(s, k), NEW r \in Reappended(s, parsed)
    PROVE  /\ r.file.ready = GetsReady(s.file.value) /\ r.file.value = s.file.value
           /\ RawData(r.mem, r.file) =
                 AsSent(RawAt(Place(s.file.value.file, 1)), HeadLen) \o OldOctets(s.file.value)
           /\ Len(OldOctets(s.file.value)) = OldLen(s.file.value, p)
<1> DEFINE v == s.file.value
           F == v.file
           q == Place(F, p)
           h == AsSent(RawAt(Place(F, 1)), HeadLen)
<1>1. /\ s.file.ready = v.ready
      /\ Data(s.mem, s.file) = Expected(v) /\ RawData(s.mem, s.file) = h \o Expected(v)
      /\ SubSeq(RawData(s.mem, s.file), 1, HeadLen) = h
      /\ Len(Expected(v)) = Octets(v.data) /\ Octets(v.data) \in Nat
      /\ Expected(v) \in Seq(Octs)
  BY DEF CalmAt
<1>2. s \in States /\ SliceOK(s.file)
  BY DEF Continues
<1>3. /\ ValueAt(v, p) /\ F \in Sent /\ p \in Nat /\ p >= 1
      /\ q \in 1..Len(stream) /\ IsPacked(q) = Meta[F].packed
  BY ContinueFacts
<1>4. v.ready \in BOOLEAN
      /\ (~v.ready => Octets(v.data) = Meta[F].lens[p] /\ Expected(v) = Body(q))
  BY <1>3, ValueFacts
<1>5. parsed = ReadyNow(v) /\ parsed \in BOOLEAN
  <2>1. Parses(s, k) = {ReadyNow(v)}
    BY CalmParses
  <2> QED
    BY <2>1 DEF ReadyNow
<1>6. r.file.value = v
  BY <1>2, <1>5, ReappendedFacts DEF Grew
<1> HIDE DEF v, F, q, h
<1>7. CASE ~ReadyNow(v)
  <2>1. r = s
    BY <1>2, <1>5, <1>7, ReappendedFacts
  <2>2. OldOctets(v) = Expected(v) /\ OldLen(v, p) = Octets(v.data)
    BY <1>7 DEF OldOctets, OldLen
  <2>3. GetsReady(v) = v.ready
    BY <1>4, <1>7 DEF GetsReady, ReadyNow
  <2> QED
    BY <1>1, <1>6, <2>1, <2>2, <2>3 DEF v, F, h
<1>8. CASE ReadyNow(v)
  <2>1. PICK g : \E d \in RowsFor(g, Data(s.mem, s.file)) :
                   g.value = s.file.value /\ g.ready = TRUE /\ AgainAs(s, d, r)
    BY <1>2, <1>5, <1>8, ReappendedFacts
  <2>2. PICK d \in RowsFor(g, Expected(v)) :
                   g.value = v /\ g.ready = TRUE /\ AgainAs(s, d, r)
    BY <1>1, <2>1 DEF v
  <2>3. ~v.ready /\ Octets(v.data) > 0 /\ GetsReady(v) = TRUE
    BY <1>8 DEF ReadyNow, GetsReady
  <2>4. Expected(v) # << >> /\ Expected(v) = Body(q)
    <3>1. Len(<< >>) = 0
      OBVIOUS
    <3> QED
      BY <1>1, <1>4, <2>3, <3>1
  <2>5. d = OldOctets(v) /\ Len(OldOctets(v)) = OldLen(v, p)
    <3>1. CASE ~Meta[F].packed
      <4>1. RowsFor(g, Expected(v)) = {Expected(v)}
        BY <2>2, <3>1, RowsPlain DEF F
      <4>2. OldOctets(v) = Expected(v) /\ OldLen(v, p) = Meta[F].lens[p]
        BY <1>8, <3>1 DEF OldOctets, OldLen, UnpackedLen, F
      <4> QED
        BY <1>1, <1>4, <2>2, <2>3, <4>1, <4>2
    <3>2. CASE Meta[F].packed
      <4>1. \E i \in DOMAIN stream : IsPacked(i) /\ Expected(v) = Body(i)
        <5>1. q \in DOMAIN stream
          BY <1>3, SduFacts
        <5> QED
          BY <1>3, <2>4, <3>2, <5>1
      <4>2. g.ready /\ Meta[g.value.file].packed
        BY <2>2, <3>2 DEF F
      <4>3. RowsFor(g, Expected(v)) = {RowOf(Expected(v)[1][1])}
        BY <2>4, <4>1, <4>2 DEF RowsFor
      <4>4. OldOctets(v) = RowOf(Expected(v)[1][1]) /\ OldLen(v, p) = Cols
        BY <1>8, <3>2 DEF OldOctets, OldLen, UnpackedLen, F
      <4>5. Len(RowOf(Expected(v)[1][1])) = Cols
        <5>1. Body(q)[1][1] \in Int
          <6>1. stream[q][1] = F /\ stream[q][2] = p
            <7>1. \A i \in 1..p : stream[Place(v.file, i)] = <<v.file, i>>
              BY <1>3, ValueFacts
            <7>2. p \in 1..p
              BY <1>3
            <7>3. stream[q] = <<F, p>>
              BY <7>1, <7>2 DEF F, q
            <7> QED
              BY <7>3
          <6>2. Meta[stream[q][1]].lens[stream[q][2]] > 0
            BY <1>4, <2>3, <6>1
          <6> QED
            BY <1>3, <6>2, BodyFacts
        <5> QED
          BY <2>4, <5>1, OctetTypes
      <4> QED
        BY <2>2, <4>3, <4>4, <4>5
    <3> QED
      BY <3>1, <3>2
  <2>6. r.file.ready = TRUE /\ RawData(r.mem, r.file) = h \o d
    BY <1>1, <2>2 DEF AgainAs
  <2> QED
    BY <1>6, <2>3, <2>5, <2>6 DEF v, F, h
<1> QED
  BY <1>7, <1>8

(* Appending the octets again does not write over those of SDU k. *)
LEMMA CalmOctet ==
    ASSUME Sending, NEW s, NEW D, NEW p, NEW k, Continues(s, D, p, k), CalmAt(s, p, k),
           NEW parsed \in BOOLEAN, NEW r \in Reappended(s, parsed)
    PROVE  Octet(r.mem, k) = Body(k)
<1> DEFINE F == s.file.value.file
           q == Place(F, p)
           j == Place(F, 1)
           at == s.file.at
<1>1. /\ ~IsFirst(k) /\ ApidOf(k) = Meta[F].apid /\ Body(k) = AsSent(RawAt(k), RawLen(k))
      /\ RawAt(k) = PacketAt(k) + HdrLen
      /\ q \in 1..Len(stream) /\ j \in 1..Len(stream) /\ j < k /\ IsFirst(j)
      /\ IsPacked(j) = Meta[F].packed /\ RawAt(q) + RawLen(q) < PacketAt(k)
  BY ContinueFacts
<1>2. /\ s \in States /\ SliceOK(s.file) /\ k \in 1..Len(stream) /\ CRCGood(s.mem, k)
      /\ SliceInv(s.mem, D, s.file, p)
  BY DEF Continues
<1>3. ~InTheWay(j, k)
  BY DEF CalmAt
<1>4. at # Nil => at = RawAt(j) /\ ~Carried(j)
  BY <1>2 DEF SliceInv
<1>5. ~Meta[F].packed => RawAt(j) + s.file.len <= RawAt(q) + RawLen(q)
  BY <1>2 DEF SliceInv, Within
<1>6. Grew(s, r)
  BY <1>2, ReappendedFacts
<1>7. ~Meta[F].packed => r.file.len = s.file.len
  <2> HIDE DEF F
  <2> QED
    BY <1>2, PlainAgain DEF F
<1> HIDE DEF F, q, j, at
<1>8. CASE Carried(k)
  BY <1>1, <1>8 DEF Octet
<1>9. CASE ~Carried(k)
  <2> SUFFICES ASSUME NEW x \in RawAt(k) .. RawAt(k)+RawLen(k)-1 PROVE r.mem[x] = <<x, 0>>
    <3>1. MemOK(r.mem)
      BY <1>6 DEF Grew
    <3> QED
      BY <1>1, <1>2, <3>1, OctetFacts
  <2>1. /\ RawAt(k) \in Nat /\ RawLen(k) \in Nat /\ PacketAt(k) \in Nat /\ PacketEnd(k) \in Nat
        /\ RawAt(k) + RawLen(k) < PacketEnd(k) /\ HdrLen \in Nat /\ TotalLen \in Nat
        /\ PacketEnd(k) < TotalLen /\ RawAt(j) \in Nat /\ RawAt(q) \in Nat /\ RawLen(q) \in Nat
        /\ HeadLen \in Nat /\ PacketAt(j) \in Nat
    BY <1>1, <1>2, SduFacts, PacketParts, LengthFacts, AllFrames
  <2>2. /\ x \in Nat /\ x \in PacketAt(k) + HdrLen .. PacketEnd(k) - 1 /\ x \in 0..TotalLen-1
        /\ PacketAt(k) <= x /\ x < PacketEnd(k)
    <3>1. /\ RawAt(k) = PacketAt(k) + HdrLen /\ x \in Int
          /\ RawAt(k) <= x /\ x <= RawAt(k) + RawLen(k) - 1
      BY <1>1, <2>1
    <3>2. x < PacketEnd(k) /\ PacketAt(k) <= x /\ x \in Nat
      BY <2>1, <3>1
    <3> QED
      BY <2>1, <3>1, <3>2
  <2>3. s.mem[x] = <<x, 0>>
    BY <1>2, <1>9, <2>2 DEF CRCGood
  <2>4. CASE r.mem[x] = s.mem[x]
    BY <2>3, <2>4
  <2>5. CASE r.mem[x] # s.mem[x]
    <3>1. Written(s, r, x)
      BY <1>6, <2>2, <2>5 DEF Grew
    <3>2. /\ ~Carried(j) /\ RawAt(j) + HeadLen <= x /\ x < RawAt(j) + r.file.len
          /\ x < ZoneEnd(RawAt(j))
      BY <1>4, <3>1 DEF Written, at
    <3>3. FrameOf(x) = FrameOf(RawAt(j))
      <4>1. RawAt(j) <= x
        BY <2>1, <2>2, <3>2
      <4> QED
        BY <2>1, <2>2, <3>2, <4>1, FrameFacts
    <3>4. FrameOf(x) = FrameOf(PacketAt(k))
      <4>1. ZoneEnd(PacketAt(k)) \in Nat /\ PacketEnd(k) <= ZoneEnd(PacketAt(k))
        BY <1>9, <2>1, FrameFacts DEF Carried
      <4>2. x < ZoneEnd(PacketAt(k))
        BY <2>1, <2>2, <4>1
      <4> QED
        BY <2>1, <2>2, <4>2, FrameFacts
    <3>5. FrameOf(PacketAt(j)) = FrameOf(PacketAt(k))
      BY <1>1, <3>2, <3>3, <3>4, Uncut
    <3>6. ~IsPacked(j)
      BY <1>1, <1>3, <1>9, <3>2, <3>5 DEF InTheWay
    <3>7. RawAt(j) + r.file.len < PacketAt(k)
      <4>1. RawAt(j) + r.file.len <= RawAt(q) + RawLen(q) /\ RawAt(q) + RawLen(q) < PacketAt(k)
        BY <1>1, <1>5, <1>7, <3>6
      <4>2. r.file.len \in Nat
        BY <1>6, SliceFacts DEF Grew
      <4> DEFINE n == r.file.len
      <4> HIDE DEF n
      <4>3. RawAt(j) + n < PacketAt(k)
        BY <2>1, <4>1, <4>2 DEF n
      <4> QED
        BY <4>3 DEF n
    <3>8. r.file.len \in Nat
      BY <1>6, SliceFacts DEF Grew
    <3> DEFINE n == r.file.len
    <3>9. n \in Nat /\ RawAt(j) + n < PacketAt(k) /\ x < RawAt(j) + n
      BY <3>2, <3>7, <3>8
    <3> HIDE DEF n
    <3> QED
      BY <2>1, <2>2, <3>9
  <2> QED
    BY <2>4, <2>5
<1> QED
  BY <1>8, <1>9

(* SDU k joins, and the file holds what LritFile says. *)
LEMMA JoinedIntact ==
    ASSUME Sending, NEW s, NEW D, NEW p, NEW k, Continues(s, D, p, k), CalmAt(s, p, k),
           NEW t \in Appends(s, k)
    PROVE  Intact(t.mem, Joined(t.file, k))
<1> DEFINE v == s.file.value
           F == v.file
           h == AsSent(RawAt(Place(F, 1)), HeadLen)
           g == Joined(t.file, k)
           a == OldOctets(v)
           b == NewOctets(v, k)
<1>1. s \in States /\ SliceOK(s.file) /\ k \in 1..Len(stream) /\ stream[k] = <<F, p + 1>>
  BY DEF Continues
<1>2. Grew(s, t)
  BY <1>1, AppendsFacts
<1>3. PICK parsed \in Parses(s, k) : \E r \in Reappended(s, parsed) :
         \E d \in RowsFor(r.file, Octet(r.mem, k)) :
            parsed \in BOOLEAN /\ Grew(s, r) /\ d \in Seq(Octs) /\ Appended(r, d, t)
  BY <1>1, AppendsFacts
<1>4. PICK r \in Reappended(s, parsed) :
         \E d \in RowsFor(r.file, Octet(r.mem, k)) :
            parsed \in BOOLEAN /\ Grew(s, r) /\ d \in Seq(Octs) /\ Appended(r, d, t)
  BY <1>3
<1>5. PICK d \in RowsFor(r.file, Octet(r.mem, k)) :
            parsed \in BOOLEAN /\ Grew(s, r) /\ d \in Seq(Octs) /\ Appended(r, d, t)
  BY <1>4
<1>6. /\ r.file.ready = GetsReady(v) /\ r.file.value = v
      /\ RawData(r.mem, r.file) = h \o a /\ Len(a) = OldLen(v, p)
  BY CalmAgain
<1>7. Octet(r.mem, k) = Body(k)
  BY <1>5, CalmOctet
<1>8. Meta[F].lens[p + 1] \in Nat /\ Meta[F].lens[p + 1] > 0 /\ RawLen(k) = Meta[F].lens[p + 1]
  BY ContinueFacts
<1>9. /\ JoinedAs(v, p, k, g.value) /\ g.ready = t.file.ready /\ g.len = t.file.len
      /\ g.value.file = F /\ SliceOK(g) /\ RawData(t.mem, g) = RawData(t.mem, t.file)
  BY <1>2, JoinedValue
<1>10. h \in Seq(Octs) /\ Len(h) = HeadLen /\ HeadLen \in Nat
  BY LengthFacts DEF CalmAt
<1>11. stream[k][1] = F /\ stream[k][2] = p + 1
  BY <1>1
<1> HIDE DEF v, F, h, g, a, b
<1>12. /\ g.value.ready = GetsReady(v) /\ Expected(g.value) = a \o b
       /\ Octets(g.value.data) = OldLen(v, p) + NewLen(v, p)
       /\ OldLen(v, p) \in Nat /\ NewLen(v, p) \in Nat /\ a \in Seq(Octs) /\ b \in Seq(Octs)
  BY <1>9 DEF JoinedAs, a, b
<1>13. Len(Body(k)) = Meta[F].lens[p + 1] /\ Body(k)[1][1] \in Int
  BY <1>1, <1>8, <1>11, BodyFacts
<1>14. d = b /\ Len(b) = NewLen(v, p)
  <2>1. CASE GetsReady(v) /\ Meta[F].packed
    <3>1. Body(k) # << >>
      <4>1. Len(<< >>) = 0
        OBVIOUS
      <4> QED
        BY <1>8, <1>13, <4>1
    <3>2. \E i \in DOMAIN stream : IsPacked(i) /\ Body(k) = Body(i)
      <4>1. k \in DOMAIN stream /\ IsPacked(k)
        BY <1>1, <1>11, <2>1, SduFacts DEF IsPacked
      <4> QED
        BY <4>1
    <3>3. r.file.ready /\ Meta[r.file.value.file].packed
      BY <1>6, <2>1 DEF F
    <3>4. RowsFor(r.file, Body(k)) = {RowOf(Body(k)[1][1])}
      BY <3>1, <3>2, <3>3 DEF RowsFor
    <3>5. b = RowOf(Body(k)[1][1]) /\ NewLen(v, p) = Cols
      BY <2>1 DEF b, NewOctets, NewLen, UnpackedLen, F
    <3> QED
      BY <1>5, <1>7, <1>13, <3>4, <3>5, OctetTypes
  <2>2. CASE ~(GetsReady(v) /\ Meta[F].packed)
    <3>1. ~(r.file.ready /\ Meta[r.file.value.file].packed)
      BY <1>6, <2>2 DEF F
    <3>2. RowsFor(r.file, Body(k)) = {Body(k)}
      BY <3>1 DEF RowsFor
    <3>3. b = Body(k)
      BY <2>2 DEF b, NewOctets, F
    <3>4. NewLen(v, p) = Meta[F].lens[p + 1]
      BY <2>2 DEF NewLen, UnpackedLen, F
    <3> QED
      BY <1>5, <1>7, <1>13, <3>2, <3>3, <3>4
  <2> QED
    BY <2>1, <2>2
<1>15. RawData(t.mem, g) = h \o Expected(g.value)
  <2>1. RawData(t.mem, t.file) = (h \o a) \o b
    BY <1>5, <1>6, <1>14 DEF Appended
  <2>2. (h \o a) \o b = h \o (a \o b)
    BY <1>10, <1>12
  <2> QED
    BY <1>9, <1>12, <2>1, <2>2
<1>16. g.len = HeadLen + Octets(g.value.data)
  <2>1. MemOK(t.mem)
    BY <1>2 DEF Grew
  <2>2. Len(RawData(t.mem, g)) = g.len
    BY <1>9, <2>1, RawDataType
  <2>3. Len(a \o b) = Len(a) + Len(b) /\ a \o b \in Seq(Octs)
    BY <1>12, ConcatIs
  <2>4. Len(h \o (a \o b)) = Len(h) + Len(a \o b)
    BY <1>10, <2>3, ConcatIs
  <2> QED
    BY <1>6, <1>10, <1>12, <1>14, <1>15, <2>2, <2>3, <2>4
<1>17. g.ready = g.value.ready
  BY <1>5, <1>6, <1>9, <1>12 DEF Appended
<1> QED
  BY <1>9, <1>15, <1>16, <1>17 DEF Intact, g, h

(* A file that SDU k continues is what it should be. *)
LEMMA SliceJoined ==
    ASSUME Sending, NEW s, NEW D, NEW p, NEW k, Continues(s, D, p, k), NEW E, D \subseteq E, k \in E,
           NEW t \in Appends(s, k)
    PROVE  SliceInv(t.mem, E, Joined(t.file, k), p + 1)
<1> DEFINE v == s.file.value
           F == v.file
           g == Joined(t.file, k)
<1>1. s \in States /\ SliceOK(s.file) /\ k \in 1..Len(stream) /\ SliceInv(s.mem, D, s.file, p)
  BY DEF Continues
<1>2. Grew(s, t)
  BY <1>1, AppendsFacts
<1>3. JoinedAs(v, p, k, g.value) /\ g.at = t.file.at /\ g.value.file = F
  BY <1>2, JoinedValue
<1>4. p \in Nat /\ Place(F, p + 1) = k
  BY ContinueFacts
<1>5. ~Meta[F].packed => Within(g, p + 1)
  BY JoinedWithin
<1>6. Calm(F, p + 1) => Intact(t.mem, g)
  BY CalmHas, JoinedIntact
<1>7. g.at # Nil => g.at = s.file.at
  BY <1>2, <1>3 DEF Grew
<1>8. /\ \A i \in 1..p : Place(F, i) \in D
      /\ s.file.at # Nil => s.file.at = RawAt(Place(F, 1)) /\ ~Carried(Place(F, 1))
  BY <1>1 DEF SliceInv
<1> HIDE DEF v, g, F
<1>9. ValueAt(g.value, p + 1)
  BY <1>3 DEF JoinedAs
<1>10. \A i \in 1..p+1 : Place(F, i) \in E
  <2> TAKE i \in 1..p+1
  <2>1. i = p + 1 \/ i \in 1..p
    BY <1>4
  <2> QED
    BY <1>4, <1>8, <2>1
<1> QED
  BY <1>3, <1>5, <1>6, <1>7, <1>8, <1>9, <1>10 DEF SliceInv, g

(* The rows a file of N octets lacks when it has L less than C too few, or  *)
(* too many: none that are filled.                                          *)
LEMMA NoneMissing ==
    ASSUME NEW W \in Nat, NEW C \in Nat, NEW N \in Nat, NEW L \in Nat, C > 0, N < W, N + L <= W,
           NEW x \in Int, x = 0 \/ (x = C - L /\ L > 0)
    PROVE  ~((x % W) \div C \in 1..(N \div C)-1)
<1> DEFINE y == x % W
<1>1. W > 0
  OBVIOUS
<1>2. y \in Nat /\ y < W
  BY <1>1
<1>3. CASE x >= 0 /\ x < C
  <2>1. y <= x
    <3>1. \A u, w \in Nat : w > 0 => u % w <= u
      OBVIOUS
    <3>2. x \in Nat
      BY <1>3
    <3> QED
      BY <1>1, <3>1, <3>2
  <2> HIDE DEF y
  <2>2. y < C
    BY <1>2, <1>3, <2>1
  <2>3. y \div C = 0
    BY <1>2, <2>2
  <2> QED
    BY <2>3 DEF y
<1>4. CASE x < 0
  <2>1. x = C - L /\ L - C \in 1..W-1
    BY <1>4
  <2>2. y = W - (L - C)
    <3> DEFINE z == L - C
    <3>1. z \in 1..W-1 /\ x = 0 - z
      BY <2>1
    <3>2. y = (0 - z) % W
      BY <3>1
    <3> HIDE DEF z, y
    <3>3. \A w \in Nat : w > 0 => \A u \in 1..w-1 : (0 - u) % w = w - u
      OBVIOUS
    <3>4. (0 - z) % W = W - z
      BY <1>1, <3>1, <3>3
    <3> QED
      BY <3>2, <3>4 DEF z
  <2> HIDE DEF y
  <2>3. y >= N + C
    BY <1>2, <2>2
  <2>4. \A u, w, c \in Nat : c > 0 /\ u >= w => u \div c >= w \div c
    OBVIOUS
  <2>5. y \div C >= N \div C /\ N \div C \in Nat /\ y \div C \in Nat
    <3>1. y >= N
      BY <1>2, <2>3
    <3>2. \A u, c \in Nat : c > 0 => u \div c \in Nat
      OBVIOUS
    <3> QED
      BY <1>2, <2>4, <3>1, <3>2
  <2> DEFINE a == y \div C
             b == N \div C
  <2>6. a \in Nat /\ b \in Nat /\ a >= b
    BY <2>5
  <2> HIDE DEF a, b
  <2>7. ~(a \in 1..b-1)
    BY <2>6
  <2> QED
    BY <2>7 DEF a, b, y
<1>5. x < 0 \/ (x >= 0 /\ x < C)
  OBVIOUS
<1> QED
  BY <1>3, <1>4, <1>5

(* A file that is handed on is what it should be. *)
LEMMA SliceClosed ==
    ASSUME Sending, NEW s \in States, SliceOK(s.file), NEW D,
           SliceInv(s.mem, D, s.file, Parts(s.file.value.file))
    PROVE  LET t == HandOn(s) IN SliceInv(t.mem, D, t.file, Parts(t.file.value.file))
<1> DEFINE t == HandOn(s)
           v == s.file.value
           F == s.file.value.file
           P == Parts(F)
           n == s.file.len
<1>1. Grew(s, t)
  BY HandOnFacts
<1>2. t.file.value = v /\ t.file.at \in {s.file.at, Nil}
  BY <1>1 DEF Grew
<1>3. ValueAt(v, P) /\ F \in Sent /\ P \in 1..P /\ Octets(v.data) \in Nat
  BY ValueFacts DEF SliceInv
<1>4. CASE t = s
  BY <1>2, <1>4
<1>5. CASE ~s.file.ready
  BY <1>4, <1>5 DEF HandOn
<1>6. CASE s.file.ready /\ (~Meta[F].packed \/ Calm(F, P))
  <2>1. v.ready /\ n = HeadLen + Octets(v.data)
    BY <1>6 DEF SliceInv, Within, Intact
  <2>2. Octets(v.data) = Total(F, P) - Growth(F) /\ Total(F, P) = DataLength[F]
    BY <1>3, <2>1, TotalFacts DEF ValueAt
  <2>3. /\ DataLength[F] \in Nat /\ DataLength[F] < Word /\ Word \in Nat
        /\ DataLength[F] + Meta[F].lens[1] <= Word /\ Meta[F].lens[1] \in Nat
        /\ Cols \in Nat /\ Cols > 0 /\ HeadLen \in Nat
    <3>1. 1 \in 1..Parts(F) /\ Meta[F].lens[1] \in Nat
      BY <1>3, MetaFacts
    <3> QED
      BY <1>3, <3>1, OriginalType, LengthFacts, LritFileAssumption, FrameMemoryAssumption
  <2> DEFINE L == Meta[F].lens[1]
             x == Growth(F)
  <2>4. x \in Int /\ (x = 0 \/ (x = Cols - L /\ L > 0))
    <3>1. x = IF Meta[F].packed /\ EarlyReady(F) THEN Cols - L ELSE 0
      BY DEF Growth
    <3> HIDE DEF x
    <3> QED
      BY <2>3, <3>1 DEF EarlyReady
  <2>5. Missing(s.file) = (x % Word) \div Cols
    <3> HIDE DEF x, v
    <3>1. DataLength[F] - (n - HeadLen) = x
      BY <1>3, <2>1, <2>2, <2>3, <2>4 DEF x
    <3> QED
      BY <3>1 DEF Missing
  <2> HIDE DEF x, L
  <2>6. ~((x % Word) \div Cols \in 1..(DataLength[F] \div Cols)-1)
    BY <2>3, <2>4, NoneMissing DEF L
  <2>7. ~(Missing(s.file) \in 1..NumRows(F)-1)
    BY <2>5, <2>6 DEF NumRows
  <2>8. Closed(s) = s
    BY <2>7, ClosedFacts
  <2> QED
    BY <1>4, <1>6, <2>8 DEF HandOn
<1>7. CASE Meta[F].packed /\ ~Calm(F, P)
  <2>1. /\ \A i \in 1..P : Place(F, i) \in D
        /\ s.file.at # Nil => s.file.at = RawAt(Place(F, 1)) /\ ~Carried(Place(F, 1))
    BY DEF SliceInv
  <2> HIDE DEF t, v, P
  <2>2. t.file.value.file = F /\ Parts(t.file.value.file) = P
    BY <1>2 DEF v, P
  <2> HIDE DEF F
  <2>3. SliceInv(t.mem, D, t.file, P)
    BY <1>2, <1>3, <1>7, <2>1, <2>2 DEF SliceInv
  <2> QED
    BY <2>2, <2>3 DEF t
<1> QED
  BY <1>5, <1>6, <1>7
-----------------------------------------------------------------------------
(* The steps.                                                               *)

(* The CRC of an SDU that waits is good, unless it lies in a file's way. *)
LEMMA PendingGood ==
    ASSUME TypeInv, PendingInv(DoneSet), MemInv(mem, DoneSet),
           NEW a \in Apids, NEW k \in APIDs[a]
    PROVE  CRCGood(mem, k) \/ \E j \in DOMAIN stream : InTheWay(j, k)
<1> SUFFICES ASSUME ~CRCGood(mem, k) PROVE \E j \in DOMAIN stream : InTheWay(j, k)
  OBVIOUS
<1>1. Sending /\ k \in 1..Len(stream) /\ MemOK(mem)
  BY DEF TypeInv
<1>2. ApidOf(k) = a /\ \A j \in DoneSet : ApidOf(j) = a => j < k
  BY DEF PendingInv
<1>3. PICK q \in PacketAt(k) + HdrLen .. PacketEnd(k) - 1 : mem[q] # <<q, 0>>
  BY DEF CRCGood
<1>4. ~Carried(k)
  BY DEF CRCGood
<1>5. /\ PacketAt(k) \in Nat /\ PacketEnd(k) \in Nat /\ HdrLen \in Nat /\ TotalLen \in Nat
      /\ PacketEnd(k) < TotalLen /\ HeadLen \in Nat /\ Len(stream) \in Nat
  BY <1>1, PacketParts, LengthFacts, AllFrames, SduFacts
<1>6. q \in Nat /\ q \in 0..TotalLen-1 /\ PacketAt(k) <= q /\ q < PacketEnd(k)
  BY <1>5
<1>7. Exposed(DoneSet, q)
  BY <1>3, <1>6 DEF MemInv
<1>8. PICK j \in DoneSet :
         /\ IsFirst(j) /\ ~Carried(j) /\ FrameOf(RawAt(j)) = FrameOf(q) /\ RawAt(j) + HeadLen <= q
         /\ IsPacked(j) \/ \E e \in DoneSet : stream[e][1] = stream[j][1] /\ q < PacketEnd(e)
  BY <1>7 DEF Exposed
<1>9. j \in 1..Len(stream) /\ DoneSet \subseteq 1..Len(stream)
  BY DEF DoneSet
<1>10. /\ RawAt(j) \in Nat /\ PacketAt(j) \in Nat /\ PacketAt(j) < RawAt(j)
       /\ j \in DOMAIN stream
  BY <1>1, <1>9, PacketParts, SduFacts
<1>11. FrameOf(PacketAt(j)) = FrameOf(PacketAt(k))
  <2>1. ZoneEnd(PacketAt(k)) \in Nat /\ PacketEnd(k) <= ZoneEnd(PacketAt(k))
    <3>1. ZoneEnd(PacketAt(k)) \in Nat
      BY <1>5, FrameFacts
    <3>2. ~(PacketEnd(k) > ZoneEnd(PacketAt(k)))
      BY <1>4 DEF Carried
    <3> QED
      BY <1>5, <3>1, <3>2
  <2>2. q < ZoneEnd(PacketAt(k))
    BY <1>5, <1>6, <2>1
  <2>3. FrameOf(q) = FrameOf(PacketAt(k))
    BY <1>5, <1>6, <2>2, FrameFacts
  <2> QED
    BY <1>1, <1>8, <1>9, <2>3, Uncut
<1>12. j < k
  <2>1. j # k
    BY <1>1, <1>2, <1>9
  <2>2. CASE k < j
    <3>1. j \in 1..Len(stream)+1
      BY <1>5, <1>9
    <3>2. PacketEnd(k) <= PacketAt(j)
      BY <1>1, <2>2, <3>1, InOrder
    <3> QED
      BY <1>5, <1>6, <1>8, <1>10, <3>2
  <2> QED
    BY <1>1, <1>5, <1>9, <2>1, <2>2
<1>13. ApidOf(j) # ApidOf(k) \/ IsPacked(j)
  <2> SUFFICES ASSUME ApidOf(j) = ApidOf(k), ~IsPacked(j) PROVE FALSE
    OBVIOUS
  <2>1. PICK e \in DoneSet : stream[e][1] = stream[j][1] /\ q < PacketEnd(e)
    BY <1>8
  <2>2. e \in 1..Len(stream) /\ ApidOf(e) = a
    BY <1>2, <1>9, <2>1 DEF ApidOf
  <2>3. e < k /\ k \in 1..Len(stream)+1
    BY <1>1, <1>2, <1>5, <2>2
  <2>4. PacketEnd(e) <= PacketAt(k) /\ PacketEnd(e) \in Nat
    BY <1>1, <2>2, <2>3, InOrder, PacketParts
  <2> QED
    BY <1>5, <1>6, <2>1, <2>4
<1> QED
  BY <1>4, <1>8, <1>10, <1>11, <1>12, <1>13 DEF InTheWay

(* The invariant is about the buffers and files only, besides the stream. *)
LEMMA SameInv ==
    ASSUME UNCHANGED <<stream, offset>>
    PROVE  /\ \A m, D, f, a : OpenInv(m, D, f, a)' = OpenInv(m, D, f, a)
           /\ \A m, D, f : DeliveredInv(m, D, f)' = DeliveredInv(m, D, f)
           /\ \A m, D : MemInv(m, D)' = MemInv(m, D)
           /\ \A f : LastOf(f)' = LastOf(f) /\ FirstOf(f)' = FirstOf(f)
<1>1. /\ \A k : /\ PacketEnd(k)' = PacketEnd(k)
                /\ RawAt(k)' = RawAt(k) /\ RawLen(k)' = RawLen(k)
                /\ IsFirst(k)' = IsFirst(k) /\ IsPacked(k)' = IsPacked(k)
                /\ ApidOf(k)' = ApidOf(k) /\ Carried(k)' = Carried(k)
      /\ TotalLen' = TotalLen
  BY SameStream
<1>2. /\ \A f, i : Place(f, i)' = Place(f, i)
      /\ \A j, k : InTheWay(j, k)' = InTheWay(j, k)
      /\ \A v : Expected(v)' = Expected(v)
      /\ \A v, p : ValueAt(v, p)' = ValueAt(v, p)
  BY SameFiles
<1>3. ASSUME NEW F, NEW p PROVE Calm(F, p)' = Calm(F, p)
  <2>1. ASSUME NEW i, NEW j
        PROVE  InTheWay(j, Place(F, i))' = InTheWay(j, Place(F, i))
               /\ InTheWay(Place(F, i), j)' = InTheWay(Place(F, i), j)
    BY <1>1, <1>2, SameStream DEF InTheWay
  <2> QED
    BY <1>1, <2>1 DEF Calm
<1>4. ASSUME NEW F, NEW i
      PROVE  /\ RawAt(Place(F, i))' = RawAt(Place(F, i))
             /\ RawLen(Place(F, i))' = RawLen(Place(F, i))
             /\ Carried(Place(F, i))' = Carried(Place(F, i))
  BY <1>1, <1>2
<1>5. ASSUME NEW f, NEW p PROVE Within(f, p)' = Within(f, p)
  BY <1>4 DEF Within
<1>6. ASSUME NEW m, NEW f PROVE Intact(m, f)' = Intact(m, f)
  BY <1>2, <1>4 DEF Intact
<1>7. ASSUME NEW m, NEW D, NEW f, NEW p PROVE SliceInv(m, D, f, p)' = SliceInv(m, D, f, p)
  BY <1>2, <1>3, <1>4, <1>5, <1>6 DEF SliceInv
<1>8. ASSUME NEW m, NEW D, NEW f, NEW a PROVE OpenInv(m, D, f, a)' = OpenInv(m, D, f, a)
  BY <1>1, <1>2, <1>7 DEF OpenInv
<1>9. ASSUME NEW m, NEW D, NEW f PROVE DeliveredInv(m, D, f)' = DeliveredInv(m, D, f)
  BY <1>7 DEF DeliveredInv
<1>10. ASSUME NEW m, NEW D PROVE MemInv(m, D)' = MemInv(m, D)
  BY <1>1 DEF MemInv, Exposed
<1>11. ASSUME NEW f PROVE LastOf(f)' = LastOf(f) /\ FirstOf(f)' = FirstOf(f)
  BY <1>2 DEF LastOf, FirstOf
<1> QED
  BY <1>8, <1>9, <1>10, <1>11

(* SDU k is the next one of its APID, and done with this step. *)
Turn(k, E) ==
    /\ k \in 1..Len(stream) /\ cur \in Apids /\ ApidOf(k) = cur /\ k \in APIDs[cur]
    /\ UNCHANGED <<stream, offset, frame, cur>>
    /\ E = DoneSet \cup {k} /\ E \subseteq 1..Len(stream) /\ DoneSet \subseteq E /\ k \in E
    /\ \A j \in DoneSet : ApidOf(j) = cur => j < k
    /\ \A j \in 1..k-1 : ApidOf(j) = cur => j \in DoneSet
    /\ Rest(mem, E, cur)
    /\ DoneSet' = E

(* The lowest SDU that waits on the current APID is such a turn. *)
LEMMA TurnOf ==
    ASSUME Inv, NEW k \in 1..Len(stream), Applies(k)
    PROVE  Turn(k, DoneSet \cup {k}) /\ PendingInv(DoneSet)'
<1> DEFINE D == DoneSet
           E == DoneSet \cup {k}
<1>1. /\ cur \in Apids /\ k \in APIDs[cur] /\ \A j \in APIDs[cur] : k <= j
      /\ APIDs' = [APIDs EXCEPT ![cur] = @ \ {k}]
      /\ UNCHANGED <<stream, offset, frame, cur>>
  BY DEF Applies, Inv, TypeInv
<1>2. Sending /\ frame \in Nat /\ APIDs \in [Apids -> SUBSET (1..Len(stream))]
  BY DEF Inv, TypeInv
<1>3. \A a \in Apids : \A x \in APIDs[a] :
         /\ ApidOf(x) = a /\ ArrivesIn(x) + 1 = frame
         /\ \A j \in D : ApidOf(j) = a => j < x
  BY DEF Inv, PendingInv
<1>4. ApidOf(k) = cur /\ ArrivesIn(k) + 1 = frame /\ \A j \in D : ApidOf(j) = cur => j < k
  BY <1>1, <1>3
<1>5. D \subseteq 1..Len(stream) /\ Len(stream) \in Nat
  BY <1>2, SduFacts DEF DoneSet
<1>6. /\ \A x : ApidOf(x)' = ApidOf(x) /\ ArrivesIn(x)' = ArrivesIn(x)
      /\ Len(stream)' = Len(stream)
  BY <1>1, SameStream
<1>7. \A x \in 1..Len(stream) : ApidOf(x) \in Apids /\ ArrivesIn(x) \in Nat
  BY <1>2, SduFacts, ArriveInOrder
<1>8. \A a \in Apids : APIDs'[a] = IF a = cur THEN APIDs[a] \ {k} ELSE APIDs[a]
  BY <1>1, <1>2
<1>9. DoneSet' = E
  <2>1. DoneSet' = {x \in 1..Len(stream) : ArrivesIn(x) < frame /\ x \notin APIDs'[ApidOf(x)]}
    <3>1. DoneSet' = {x \in 1..Len(stream)' : ArrivesIn(x)' < frame' /\ x \notin APIDs'[ApidOf(x)']}
      BY DEF DoneSet
    <3> QED
      BY <1>1, <1>6, <3>1
  <2>2. ArrivesIn(k) < frame
    BY <1>2, <1>4, <1>7
  <2>3. \A x \in 1..Len(stream) :
           ArrivesIn(x) < frame /\ x \notin APIDs'[ApidOf(x)]
             <=> x = k \/ (ArrivesIn(x) < frame /\ x \notin APIDs[ApidOf(x)])
    <3> TAKE x \in 1..Len(stream)
    <3>1. APIDs'[ApidOf(x)] = IF ApidOf(x) = cur THEN APIDs[ApidOf(x)] \ {k} ELSE APIDs[ApidOf(x)]
      BY <1>7, <1>8
    <3> QED
      BY <1>4, <2>2, <3>1
  <2> QED
    BY <2>1, <2>3 DEF DoneSet
<1>10. ASSUME NEW j \in 1..k-1, ApidOf(j) = cur PROVE j \in D
  <2>1. j \in 1..Len(stream) /\ j <= k /\ ~(k <= j)
    BY <1>5
  <2>2. ArrivesIn(j) <= ArrivesIn(k) /\ ArrivesIn(j) \in Nat /\ ArrivesIn(k) \in Nat
    BY <1>2, <2>1, ArriveInOrder
  <2>3. ArrivesIn(j) < frame
    BY <1>2, <1>4, <2>2
  <2>4. j \notin APIDs[ApidOf(j)]
    BY <1>1, <1>10, <2>1
  <2> QED
    BY <2>1, <2>3, <2>4 DEF DoneSet
<1> HIDE DEF D
<1>11. PendingInv(DoneSet)'
  <2>1. ASSUME NEW a \in Apids, NEW x \in APIDs'[a]
        PROVE  /\ ApidOf(x) = a /\ ArrivesIn(x) + 1 = frame
               /\ \A j \in E : ApidOf(j) = a => j < x
    <3>1. x \in APIDs[a] /\ (a = cur => x # k)
      BY <1>8, <2>1
    <3>2. ASSUME NEW j \in E, ApidOf(j) = a PROVE j < x
      <4>1. CASE j \in DoneSet
        BY <1>3, <3>1, <3>2, <4>1 DEF D
      <4>2. CASE j = k
        <5>1. a = cur /\ k <= x /\ x # k /\ x \in 1..Len(stream)
          BY <1>1, <1>2, <1>4, <3>1, <3>2, <4>2
        <5> QED
          BY <4>2, <5>1
      <4> QED
        BY <4>1, <4>2
    <3> QED
      BY <1>3, <3>1, <3>2
  <2>2. \A a \in Apids : \A x \in APIDs'[a] :
           /\ ApidOf(x)' = a /\ ArrivesIn(x)' + 1 = frame'
           /\ \A j \in DoneSet' : ApidOf(j)' = a => j < x
    <3> HIDE DEF E
    <3> QED
      BY <1>1, <1>6, <1>9, <2>1
  <2> QED
    BY <2>2 DEF PendingInv
<1>12. Rest(mem, E, cur)
  <2>1. Rest(mem, DoneSet, cur)
    BY DEF Inv, Rest
  <2>2. \A x \in E \ DoneSet : ApidOf(x) = cur
    BY <1>4
  <2> QED
    BY <2>1, <2>2, RestMore
<1> QED
  BY <1>1, <1>4, <1>5, <1>9, <1>10, <1>11, <1>12 DEF Turn, D

(* What a step that applies SDU k must show. *)
LEMMA InvKept ==
    ASSUME Inv, TypeInv', PendingInv(DoneSet)', NEW k, NEW E, Turn(k, E),
           NEW g, \A b \in Apids : Files'[b] = IF b = cur THEN g ELSE Files[b],
           NEW h, delivered' = delivered \cup h,
           Rest(mem', E, cur),
           g = Nil \/ OpenInv(mem', E, g, cur),
           \A f \in h : DeliveredInv(mem', E, f) /\ Meta[f.value.file].apid = cur,
           g = Nil \/ h = {},
           g = Nil \/ \A f \in delivered : Meta[f.value.file].apid = cur => LastOf(f) < FirstOf(g)
    PROVE  Inv'
<1>1. UNCHANGED <<stream, offset, frame, cur>> /\ cur \in Apids /\ DoneSet' = E
  BY DEF Turn
<1>2. MemInv(mem', E) /\ MemInv(mem, DoneSet)'
  <2>1. MemInv(mem', E)
    BY DEF Rest
  <2> QED
    BY <1>1, <2>1, SameInv
<1>3. ASSUME NEW b \in Apids, Files'[b] # Nil PROVE OpenInv(mem', E, Files'[b], b)
  <2>1. CASE b = cur
    BY <1>1, <1>3, <2>1
  <2>2. CASE b # cur
    <3>1. Files'[b] = Files[b]
      BY <2>2
    <3> QED
      BY <1>3, <2>2, <3>1 DEF Rest
  <2> QED
    BY <2>1, <2>2
<1>4. (\A a \in Apids : Files[a] # Nil => OpenInv(mem, DoneSet, Files[a], a))'
  BY <1>1, <1>3, SameInv
<1>5. ASSUME NEW f \in delivered' PROVE DeliveredInv(mem', E, f)
  <2>1. CASE f \in delivered
    BY <2>1 DEF Rest
  <2>2. CASE f \in h
    BY <2>2
  <2> QED
    BY <2>1, <2>2
<1>6. (\A f \in delivered : DeliveredInv(mem, DoneSet, f))'
  BY <1>1, <1>5, SameInv
<1>7. ASSUME NEW f \in delivered', Files'[Meta[f.value.file].apid] # Nil
      PROVE  LastOf(f) < FirstOf(Files'[Meta[f.value.file].apid])
  <2> DEFINE a == Meta[f.value.file].apid
  <2>1. a \in Apids
    <3>1. SliceOK(f)
      <4>1. (\A x \in delivered : SliceOK(x))'
        BY DEF TypeInv
      <4> QED
        BY <1>1, <4>1, SameFiles
    <3> QED
      BY <3>1, SliceFacts, MetaFacts
  <2>2. CASE a = cur
    <3>1. Files'[a] = g /\ g # Nil
      BY <1>7, <2>1, <2>2
    <3> QED
      BY <2>2, <3>1
  <2>3. CASE a # cur
    <3>1. Files'[a] = Files[a] /\ f \in delivered
      BY <2>1, <2>3
    <3> QED
      BY <1>7, <3>1 DEF Inv, ApartInv
  <2> QED
    BY <2>2, <2>3
<1>8. ApartInv'
  BY <1>1, <1>7, SameInv DEF ApartInv
<1> QED
  BY <1>2, <1>4, <1>6, <1>8 DEF Inv

(* The same when nothing is handed on. *)
LEMMA InvKeptOpen ==
    ASSUME Inv, TypeInv', PendingInv(DoneSet)', NEW k, NEW E, Turn(k, E),
           NEW g, \A b \in Apids : Files'[b] = IF b = cur THEN g ELSE Files[b],
           delivered' = delivered, Rest(mem', E, cur),
           g = Nil \/ OpenInv(mem', E, g, cur),
           g = Nil \/ \A f \in delivered : Meta[f.value.file].apid = cur => LastOf(f) < FirstOf(g)
    PROVE  Inv'
<1> DEFINE h == {}
<1>1. delivered' = delivered \cup h
  OBVIOUS
<1>2. \A f \in h : DeliveredInv(mem', E, f) /\ Meta[f.value.file].apid = cur
  OBVIOUS
<1>3. g = Nil \/ h = {}
  OBVIOUS
<1> HIDE DEF h
<1> QED
  BY <1>1, <1>2, <1>3, InvKept

(* SDU k continues the file its APID has open. *)
LEMMA ContinuesNow ==
    ASSUME Inv, NEW k, NEW E, Turn(k, E), CRCGood(mem, k), ~IsFirst(k), Files[cur] # Nil
    PROVE  \E p \in 1..Parts(Files[cur].value.file)-1 :
              /\ Continues([file |-> Files[cur], mem |-> mem], DoneSet, p, k)
              /\ stream[k] = <<Files[cur].value.file, p + 1>>
<1> DEFINE f == Files[cur]
           F == f.value.file
<1>1. /\ k \in 1..Len(stream) /\ cur \in Apids /\ ApidOf(k) = cur
      /\ \A j \in DoneSet : ApidOf(j) = cur => j < k
      /\ \A j \in 1..k-1 : ApidOf(j) = cur => j \in DoneSet
  BY DEF Turn
<1>2. TypeInv /\ Sending /\ SliceOK(f) /\ OpenInv(mem, DoneSet, f, cur)
  BY <1>1 DEF Inv, TypeInv
<1> HIDE DEF f
<1>3. PICK p \in 1..Parts(F)-1 :
         SliceInv(mem, DoneSet, f, p) /\ \A j \in DoneSet : ApidOf(j) = cur => j <= Place(F, p)
  BY <1>2 DEF OpenInv
<1> DEFINE q == Place(F, p)
<1>4. Meta[F].apid = cur
  BY <1>2 DEF OpenInv
<1>5. /\ ValueAt(f.value, p) /\ \A i \in 1..p : Place(F, i) \in DoneSet
  BY <1>3 DEF SliceInv
<1>6. /\ p \in 1..p /\ q \in 1..Len(stream) /\ stream[q] = <<F, p>> /\ ApidOf(q) = Meta[F].apid
  <2>1. /\ p \in 1..p
        /\ \A i \in 1..p : /\ Place(f.value.file, i) \in 1..Len(stream)
                            /\ stream[Place(f.value.file, i)] = <<f.value.file, i>>
                            /\ ApidOf(Place(f.value.file, i)) = Meta[f.value.file].apid
    <3> DEFINE v == f.value
    <3>1. Sending /\ ValueAt(v, p)
      BY <1>2, <1>5
    <3> HIDE DEF v
    <3>2. p \in 1..p
      BY <3>1, PartsOf
    <3>3. \A i \in 1..p : /\ Place(v.file, i) \in 1..Len(stream)
                          /\ stream[Place(v.file, i)] = <<v.file, i>>
      BY <3>1, ValueFacts
    <3>4. \A i \in 1..p : ApidOf(Place(v.file, i)) = Meta[v.file].apid
      BY <3>1, PartsOf
    <3> QED
      BY <3>2, <3>3, <3>4 DEF v
  <2> QED
    BY <2>1
<1>7. q < k
  BY <1>1, <1>4, <1>5, <1>6
<1> HIDE DEF q, F
<1>8. stream[k] = <<F, p + 1>>
  <2>1. \A j \in 1..k-1 : ApidOf(j) = ApidOf(k) => j <= q
    BY <1>1, <1>3 DEF q
  <2>2. ApidOf(q) = ApidOf(k)
    BY <1>1, <1>4, <1>6
  <2> QED
    BY <1>1, <1>2, <1>6, <1>7, <2>1, <2>2, NextPart
<1>9. Continues([file |-> f, mem |-> mem], DoneSet, p, k)
  <2>1. [file |-> f, mem |-> mem] \in States
    BY <1>2, NowFacts
  <2> DEFINE s == [file |-> f, mem |-> mem]
  <2>2. s.file = f /\ s.mem = mem
    OBVIOUS
  <2> HIDE DEF s
  <2>3. Continues(s, DoneSet, p, k)
    BY <1>1, <1>2, <1>3, <1>7, <1>8, <2>1, <2>2 DEF Continues, s, F, q
  <2> QED
    BY <2>3 DEF s
<1> QED
  BY <1>8, <1>9 DEF f, F

(* The file it continues, and the others. *)
LEMMA AppendKeeps ==
    ASSUME Inv, NEW k, NEW E, Turn(k, E), Files[cur] # Nil,
           NEW s, s = [file |-> Files[cur], mem |-> mem], NEW p, Continues(s, DoneSet, p, k),
           NEW t \in Appends(s, k)
    PROVE  LET g == Joined(t.file, k) IN
           /\ SliceInv(t.mem, E, g, p + 1) /\ Rest(t.mem, E, cur)
           /\ g.value.file = Files[cur].value.file /\ Meta[g.value.file].apid = cur
           /\ SliceOK(g) /\ t \in States
           /\ \A f \in delivered : Meta[f.value.file].apid = cur => LastOf(f) < FirstOf(g)
<1> DEFINE g == Joined(t.file, k)
           F == s.file.value.file
           j == FirstOf(s.file)
<1>1. s.file = Files[cur] /\ s.mem = mem
  BY Zenon
<1>2. /\ TypeInv /\ Sending /\ cur \in Apids /\ DoneSet \subseteq E /\ k \in E
      /\ E \in SUBSET (1..Len(stream)) /\ Rest(s.mem, E, cur)
  BY <1>1 DEF Inv, TypeInv, Turn
<1>3. s \in States /\ SliceOK(s.file) /\ SliceInv(s.mem, DoneSet, s.file, p) /\ k \in 1..Len(stream)
  BY DEF Continues
<1>4. Grew(s, t)
  BY <1>2, <1>3, AppendsFacts
<1>5. g.value.file = F /\ g.len = t.file.len /\ SliceOK(g)
  BY <1>2, <1>4, JoinedValue
<1>6. SliceInv(t.mem, E, g, p + 1)
  BY <1>2, SliceJoined
<1>7. Meta[F].apid = cur
  <2>1. OpenInv(mem, DoneSet, Files[cur], cur)
    BY <1>2 DEF Inv
  <2> QED
    BY <1>1, <2>1 DEF OpenInv
<1> HIDE DEF g
<1>8. /\ Writes(s.mem, t.mem, E, j) /\ j \in E /\ IsFirst(j) /\ ApidOf(j) = cur
  BY <1>2, <1>3, <1>4, <1>5, <1>6, <1>7, GrewWrites
<1>9. \A f \in delivered : Meta[f.value.file].apid = cur => LastOf(f) < j
  BY <1>1 DEF Inv, ApartInv
<1> HIDE DEF j
<1>10. Rest(t.mem, E, cur)
  BY <1>2, <1>8, <1>9, RestWritten
<1>11. FirstOf(g) = j
  BY <1>5 DEF FirstOf, j
<1>12. t \in States
  BY <1>4 DEF Grew
<1> QED
  BY <1>1, <1>5, <1>6, <1>7, <1>9, <1>10, <1>11, <1>12 DEF g

(* A file is handed on. *)
LEMMA HandKeeps ==
    ASSUME Inv, TypeInv', PendingInv(DoneSet)', NEW k, NEW E, Turn(k, E),
           NEW s \in States, SliceOK(s.file), SliceInv(s.mem, E, s.file, Parts(s.file.value.file)),
           Meta[s.file.value.file].apid = cur, Rest(s.mem, E, cur),
           \A f \in delivered : Meta[f.value.file].apid = cur => LastOf(f) < FirstOf(s.file),
           Hand(s)
    PROVE  Inv'
<1> DEFINE t == HandOn(s)
           h == IF s.file.ready THEN {t.file} ELSE {}
           j == FirstOf(s.file)
           F == s.file.value.file
<1>1. /\ mem' = t.mem /\ Files' = [Files EXCEPT ![cur] = Nil]
      /\ delivered' = IF s.file.ready THEN delivered \cup {t.file} ELSE delivered
  BY Zenon DEF Hand, HandOn
<1>2. /\ TypeInv /\ Sending /\ cur \in Apids /\ E \in SUBSET (1..Len(stream))
      /\ DOMAIN Files = Apids
  BY DEF Inv, TypeInv, Turn
<1>3. Grew(s, t)
  BY <1>2, HandOnFacts
<1>4. SliceInv(t.mem, E, t.file, Parts(t.file.value.file))
  BY <1>2, SliceClosed
<1>5. t.file.value.file = F
  BY <1>3 DEF Grew
<1> HIDE DEF t
<1>6. Writes(s.mem, t.mem, E, j) /\ j \in E /\ IsFirst(j) /\ ApidOf(j) = cur
  BY <1>2, <1>3, <1>4, <1>5, GrewWrites
<1> HIDE DEF j
<1>7. Rest(t.mem, E, cur)
  <2>1. \A f \in delivered : Meta[f.value.file].apid = cur => LastOf(f) < j
    BY DEF j
  <2> QED
    BY <1>2, <1>6, <2>1, RestWritten
<1>8. delivered' = delivered \cup h
  BY <1>1
<1>9. \A f \in h : DeliveredInv(mem', E, f) /\ Meta[f.value.file].apid = cur
  BY <1>1, <1>4, <1>5 DEF DeliveredInv
<1>10. \A b \in Apids : Files'[b] = IF b = cur THEN Nil ELSE Files[b]
  BY <1>1, <1>2
<1>11. Rest(mem', E, cur)
  BY <1>1, <1>7
<1> HIDE DEF h
<1> QED
  BY <1>8, <1>9, <1>10, <1>11, InvKept

(* An SDU is applied. *)
LEMMA ProcessKeeps ==
    ASSUME Inv, TypeInv', NEW k \in 1..Len(stream), ProcessSDU(k)
    PROVE  Inv'
<1> DEFINE E == DoneSet \cup {k}
<1>1. Applies(k)
  BY DEF ProcessSDU, BadCRC, StartFile, NoFile, ContinueFile, FinishFile, SingleFile
<1>2. Turn(k, E) /\ PendingInv(DoneSet)'
  BY <1>1, TurnOf
<1> HIDE DEF E
<1>3. /\ TypeInv /\ Sending /\ cur \in Apids /\ MemOK(mem) /\ DOMAIN Files = Apids
      /\ ApidOf(k) = cur /\ k \in E /\ Rest(mem, E, cur)
      /\ \A j \in DoneSet : ApidOf(j) = cur => j < k
      /\ E = DoneSet \cup {k}
  BY <1>2 DEF Inv, TypeInv, Turn
<1>4. \A f \in delivered : Meta[f.value.file].apid = cur => LastOf(f) < k
  <2> SUFFICES ASSUME NEW f \in delivered, Meta[f.value.file].apid = cur PROVE LastOf(f) < k
    OBVIOUS
  <2> DEFINE v == f.value
             P == Parts(v.file)
  <2>1. DeliveredInv(mem, DoneSet, f)
    BY DEF Inv
  <2>2. ValueAt(v, P) /\ \A i \in 1..P : Place(v.file, i) \in DoneSet
    BY <2>1 DEF DeliveredInv, SliceInv
  <2> HIDE DEF v, P
  <2>3. P \in 1..P /\ \A i \in 1..P : ApidOf(Place(v.file, i)) = Meta[v.file].apid
    BY <1>3, <2>2, PartsOf
  <2>4. Place(v.file, P) < k
    BY <1>3, <2>2, <2>3 DEF v
  <2> QED
    BY <2>4 DEF LastOf, v, P
<1>5. ASSUME IsFirst(k), CRCGood(mem, k)
      PROVE  LET f == OpenSlice(mem, k) IN
             /\ SliceOK(f) /\ SliceInv(mem, E, f, 1) /\ f.value.file = stream[k][1]
             /\ Meta[f.value.file].apid = cur /\ FirstOf(f) = k
             /\ stream[k][2] = 1 /\ stream[k][1] \in Sent
  <2> DEFINE f == OpenSlice(mem, k)
  <2>1. SliceInv(mem, E, f, 1) /\ f.value.file = stream[k][1] /\ Place(stream[k][1], 1) = k
    BY <1>3, <1>5, SliceOpened
  <2>2. SliceOK(f)
    BY <1>3, <1>5, OpenSliceFacts
  <2> HIDE DEF f
  <2> QED
    BY <1>3, <1>5, <2>1, <2>2, SduFacts DEF ApidOf, FirstOf, IsFirst, f
<1>6. CASE BadCRC(k)
  <2>1. mem' = mem /\ delivered' = delivered /\ Files' = [Files EXCEPT ![cur] = Nil]
    BY <1>6 DEF BadCRC
  <2>2. \A b \in Apids : Files'[b] = IF b = cur THEN Nil ELSE Files[b]
    BY <1>3, <2>1
  <2>3. Rest(mem', E, cur)
    BY <1>3, <2>1
  <2> QED
    BY <1>2, <2>1, <2>2, <2>3, InvKeptOpen
<1>7. CASE NoFile(k)
  <2>1. mem' = mem /\ delivered' = delivered /\ Files' = Files /\ Files[cur] = Nil
    BY <1>7 DEF NoFile
  <2>2. \A b \in Apids : Files'[b] = IF b = cur THEN Nil ELSE Files[b]
    BY <1>3, <2>1
  <2>3. Rest(mem', E, cur)
    BY <1>3, <2>1
  <2> QED
    BY <1>2, <2>1, <2>2, <2>3, InvKeptOpen
<1>8. CASE StartFile(k)
  <2> DEFINE f == OpenSlice(mem, k)
             F == stream[k][1]
  <2>1. /\ mem' = mem /\ delivered' = delivered /\ Files' = [Files EXCEPT ![cur] = f]
        /\ IsFirst(k) /\ CRCGood(mem, k) /\ ~IsLast(k)
    BY <1>8 DEF StartFile
  <2>2. /\ SliceInv(mem, E, f, 1) /\ f.value.file = F /\ Meta[f.value.file].apid = cur
        /\ FirstOf(f) = k /\ stream[k][2] = 1 /\ F \in Sent
    BY <1>5, <2>1
  <2> HIDE DEF f
  <2>3. \A b \in Apids : Files'[b] = IF b = cur THEN f ELSE Files[b]
    BY <1>3, <2>1
  <2>4. Rest(mem', E, cur)
    BY <1>3, <2>1
  <2>5. OpenInv(mem, E, f, cur)
    <3>1. 1 \in 1..Parts(F)-1
      <4>1. Parts(F) # 1
        BY <2>1, <2>2 DEF IsLast
      <4>2. Parts(F) \in Nat /\ Parts(F) >= 1
        BY <2>2, MetaFacts
      <4> QED
        BY <4>1, <4>2
    <3>2. \A x \in E : ApidOf(x) = cur => x <= k
      BY <1>3
    <3>3. Place(f.value.file, 1) = k
      BY <2>2 DEF FirstOf
    <3> QED
      BY <2>2, <3>1, <3>2, <3>3 DEF OpenInv
  <2>6. OpenInv(mem', E, f, cur)
    BY <2>1, <2>5
  <2>7. \A x \in delivered : Meta[x.value.file].apid = cur => LastOf(x) < FirstOf(f)
    BY <1>4, <2>2
  <2> QED
    BY <1>2, <2>1, <2>3, <2>4, <2>6, <2>7, InvKeptOpen
<1>9. CASE SingleFile(k)
  <2> DEFINE f == OpenSlice(mem, k)
             F == stream[k][1]
             s == [file |-> f, mem |-> mem]
  <2>1. /\ IsFirst(k) /\ CRCGood(mem, k) /\ IsLast(k)
        /\ Hand([Now(k) EXCEPT !.file = f])
    BY <1>9 DEF SingleFile
  <2>2. /\ SliceOK(f) /\ SliceInv(mem, E, f, 1) /\ f.value.file = F /\ Meta[f.value.file].apid = cur
        /\ FirstOf(f) = k /\ stream[k][2] = 1
    BY <1>5, <2>1
  <2> HIDE DEF f
  <2>3. Parts(f.value.file) = 1
    BY <2>1, <2>2 DEF IsLast
  <2>4. s \in States /\ [Now(k) EXCEPT !.file = f] = s
    BY <1>3, <2>2, NowFacts
  <2>5. s.file = f /\ s.mem = mem /\ Hand(s)
    BY <2>1, <2>4
  <2> HIDE DEF s
  <2>6. /\ SliceOK(s.file) /\ SliceInv(s.mem, E, s.file, Parts(s.file.value.file))
        /\ Meta[s.file.value.file].apid = cur /\ Rest(s.mem, E, cur)
    BY <1>3, <2>2, <2>3, <2>5
  <2>7. \A x \in delivered : Meta[x.value.file].apid = cur => LastOf(x) < FirstOf(s.file)
    BY <1>4, <2>2, <2>5
  <2> QED
    BY <1>2, <2>4, <2>5, <2>6, <2>7, HandKeeps
<1>10. ASSUME CRCGood(mem, k), ~IsFirst(k), Files[cur] # Nil, NEW t \in Appends(Now(k), k)
       PROVE  \E p \in 1..Parts(Files[cur].value.file)-1 : LET g == Joined(t.file, k) IN
                 /\ stream[k] = <<Files[cur].value.file, p + 1>>
                 /\ SliceInv(t.mem, E, g, p + 1) /\ Rest(t.mem, E, cur)
                 /\ g.value.file = Files[cur].value.file /\ Meta[g.value.file].apid = cur
                 /\ SliceOK(g) /\ t \in States
                 /\ \A f \in delivered : Meta[f.value.file].apid = cur => LastOf(f) < FirstOf(g)
  <2> DEFINE s == [file |-> Files[cur], mem |-> mem]
  <2>1. PICK p \in 1..Parts(Files[cur].value.file)-1 :
           Continues(s, DoneSet, p, k) /\ stream[k] = <<Files[cur].value.file, p + 1>>
    BY <1>2, <1>10, ContinuesNow
  <2>2. t \in Appends(s, k)
    BY <1>10 DEF Now
  <2>3. s = [file |-> Files[cur], mem |-> mem]
    OBVIOUS
  <2> HIDE DEF s
  <2> QED
    BY <1>2, <1>10, <2>1, <2>2, <2>3, AppendKeeps
<1>11. CASE ContinueFile(k)
  <2>1. PICK t \in Appends(Now(k), k) :
           /\ mem' = t.mem /\ Files' = [Files EXCEPT ![cur] = Joined(t.file, k)]
           /\ delivered' = delivered /\ Files[cur] # Nil
           /\ CRCGood(mem, k) /\ ~IsFirst(k) /\ ~IsLast(k)
    BY <1>11 DEF ContinueFile
  <2> DEFINE F == Files[cur].value.file
             g == Joined(t.file, k)
  <2>2. PICK p \in 1..Parts(F)-1 :
           /\ stream[k] = <<F, p + 1>>
           /\ SliceInv(t.mem, E, g, p + 1) /\ Rest(t.mem, E, cur)
           /\ g.value.file = F /\ Meta[g.value.file].apid = cur
           /\ SliceOK(g) /\ t \in States
           /\ \A f \in delivered : Meta[f.value.file].apid = cur => LastOf(f) < FirstOf(g)
    BY <1>10, <2>1
  <2>3. Files' = [Files EXCEPT ![cur] = g]
    BY <2>1
  <2> HIDE DEF g, F
  <2>4. \A b \in Apids : Files'[b] = IF b = cur THEN g ELSE Files[b]
    BY <1>3, <2>3
  <2>5. Rest(mem', E, cur)
    BY <2>1, <2>2
  <2>6. OpenInv(t.mem, E, g, cur)
    <3>1. p + 1 \in 1..Parts(F)-1
      <4>1. stream[k][1] = F /\ stream[k][2] = p + 1
        BY <2>2
      <4>2. F \in Sent /\ p + 1 # Parts(F)
        BY <1>3, <2>1, <4>1, SduFacts DEF IsLast
      <4>3. Parts(F) \in Nat
        BY <4>2, MetaFacts
      <4> QED
        BY <2>2, <4>2, <4>3
    <3>2. \A x \in E : ApidOf(x) = cur => x <= k
      BY <1>3
    <3>3. Place(g.value.file, p + 1) = k
      BY <1>3, <2>2, PlaceIs
    <3> QED
      BY <2>2, <3>1, <3>2, <3>3 DEF OpenInv
  <2>7. OpenInv(mem', E, g, cur)
    BY <2>1, <2>6
  <2> QED
    BY <1>2, <2>1, <2>2, <2>4, <2>5, <2>7, InvKeptOpen
<1>12. CASE FinishFile(k)
  <2>1. PICK t \in Appends(Now(k), k) :
           /\ Hand([t EXCEPT !.file = Joined(@, k)]) /\ Files[cur] # Nil
           /\ CRCGood(mem, k) /\ ~IsFirst(k) /\ IsLast(k)
    BY <1>12 DEF FinishFile
  <2> DEFINE F == Files[cur].value.file
             g == Joined(t.file, k)
             s == [t EXCEPT !.file = Joined(t.file, k)]
  <2>2. PICK p \in 1..Parts(F)-1 :
           /\ stream[k] = <<F, p + 1>>
           /\ SliceInv(t.mem, E, g, p + 1) /\ Rest(t.mem, E, cur)
           /\ g.value.file = F /\ Meta[g.value.file].apid = cur
           /\ SliceOK(g) /\ t \in States
           /\ \A f \in delivered : Meta[f.value.file].apid = cur => LastOf(f) < FirstOf(g)
    BY <1>10, <2>1
  <2>3. Hand(s)
    BY <2>1
  <2>4. s = [t EXCEPT !.file = g]
    OBVIOUS
  <2> HIDE DEF g, s
  <2>5. s \in States /\ s.file = g /\ s.mem = t.mem
    BY <2>2, <2>4, SliceFacts DEF States
  <2>6. Parts(g.value.file) = p + 1
    <3>1. stream[k][1] = F /\ stream[k][2] = p + 1
      BY <2>2
    <3> QED
      BY <2>1, <2>2, <3>1 DEF IsLast
  <2>7. /\ SliceOK(s.file) /\ SliceInv(s.mem, E, s.file, Parts(s.file.value.file))
        /\ Meta[s.file.value.file].apid = cur /\ Rest(s.mem, E, cur)
        /\ \A x \in delivered : Meta[x.value.file].apid = cur => LastOf(x) < FirstOf(s.file)
    BY <2>2, <2>5, <2>6
  <2> QED
    BY <1>2, <2>3, <2>5, <2>7, HandKeeps
<1> QED
  BY <1>6, <1>7, <1>8, <1>9, <1>11, <1>12 DEF ProcessSDU

(* The SDUs of a frame come, of which none was done. *)
LEMMA ParseKeeps ==
    ASSUME Inv, TypeInv', ParseFrame
    PROVE  Inv'
<1>1. /\ Sending /\ frame \in Nat /\ \A a \in Apids : APIDs[a] = {}
      /\ UNCHANGED <<stream, offset, mem, Files, delivered>> /\ frame' = frame + 1
      /\ \A a \in Apids :
            APIDs'[a] = {k \in DOMAIN stream : ApidOf(k) = a /\ ArrivesIn(k) = frame}
  BY DEF ParseFrame, Inv, TypeInv
<1>2. /\ \A x : ApidOf(x)' = ApidOf(x) /\ ArrivesIn(x)' = ArrivesIn(x)
      /\ Len(stream)' = Len(stream)
  BY <1>1, SameStream
<1>3. \A x \in 1..Len(stream) : ApidOf(x) \in Apids /\ ArrivesIn(x) \in Nat /\ x \in DOMAIN stream
  BY <1>1, SduFacts, ArriveInOrder
<1>4. DoneSet = {x \in 1..Len(stream) : ArrivesIn(x) < frame}
  BY <1>1, <1>3 DEF DoneSet
<1>5. DoneSet' = DoneSet
  <2>1. DoneSet' = {x \in 1..Len(stream) : ArrivesIn(x) < frame + 1 /\ x \notin APIDs'[ApidOf(x)]}
    <3>1. DoneSet' = {x \in 1..Len(stream)' : ArrivesIn(x)' < frame' /\ x \notin APIDs'[ApidOf(x)']}
      BY DEF DoneSet
    <3> QED
      BY <1>1, <1>2, <3>1
  <2>2. \A x \in 1..Len(stream) :
           ArrivesIn(x) < frame + 1 /\ x \notin APIDs'[ApidOf(x)] <=> ArrivesIn(x) < frame
    <3> TAKE x \in 1..Len(stream)
    <3>1. x \in APIDs'[ApidOf(x)] <=> ArrivesIn(x) = frame
      BY <1>1, <1>3
    <3> QED
      BY <1>1, <1>3, <3>1
  <2> QED
    BY <1>4, <2>1, <2>2
<1>6. PendingInv(DoneSet)'
  <2>1. ASSUME NEW a \in Apids, NEW x \in APIDs'[a]
        PROVE  /\ ApidOf(x) = a /\ ArrivesIn(x) + 1 = frame'
               /\ \A j \in DoneSet : ApidOf(j) = a => j < x
    <3>1. ApidOf(x) = a /\ ArrivesIn(x) = frame /\ x \in DOMAIN stream
      BY <1>1, <2>1
    <3>2. x \in 1..Len(stream)
      <4>1. stream \in Seq(Nat \X Nat)
        BY <1>1, FrameMemoryAssumption DEF Sending
      <4> QED
        BY <3>1, <4>1
    <3>3. ASSUME NEW j \in DoneSet PROVE j < x
      <4>1. j \in 1..Len(stream) /\ ArrivesIn(j) < frame
        BY <1>4
      <4>2. ~(x <= j)
        BY <1>1, <1>3, <3>1, <3>2, <4>1, ArriveInOrder
      <4> QED
        BY <3>2, <4>1, <4>2
    <3> QED
      BY <1>1, <3>1, <3>3
  <2>2. \A a \in Apids : \A x \in APIDs'[a] :
           /\ ApidOf(x)' = a /\ ArrivesIn(x)' + 1 = frame'
           /\ \A j \in DoneSet' : ApidOf(j)' = a => j < x
    BY <1>2, <1>5, <2>1
  <2> QED
    BY <2>2 DEF PendingInv
<1>7. MemInv(mem, DoneSet)'
  BY <1>1, <1>5, SameInv DEF Inv
<1>8. (\A a \in Apids : Files[a] # Nil => OpenInv(mem, DoneSet, Files[a], a))'
  BY <1>1, <1>5, SameInv DEF Inv
<1>9. (\A f \in delivered : DeliveredInv(mem, DoneSet, f))'
  BY <1>1, <1>5, SameInv DEF Inv
<1>10. ApartInv'
  BY <1>1, SameInv DEF Inv, ApartInv
<1> QED
  BY <1>6, <1>7, <1>8, <1>9, <1>10 DEF Inv

(* An APID is begun or ended, or nothing happens. *)
LEMMA IdleKeeps ==
    ASSUME Inv, TypeInv', UNCHANGED <<stream, offset, frame, mem, APIDs, Files, delivered>>
    PROVE  Inv'
<1>1. /\ \A x : ApidOf(x)' = ApidOf(x) /\ ArrivesIn(x)' = ArrivesIn(x)
      /\ Len(stream)' = Len(stream)
  BY SameStream
<1>2. DoneSet' = DoneSet
  BY <1>1 DEF DoneSet
<1>3. PendingInv(DoneSet)'
  BY <1>1, <1>2 DEF Inv, PendingInv
<1>4. MemInv(mem, DoneSet)'
  BY <1>2, SameInv DEF Inv
<1>5. (\A a \in Apids : Files[a] # Nil => OpenInv(mem, DoneSet, Files[a], a))'
  BY <1>2, SameInv DEF Inv
<1>6. (\A f \in delivered : DeliveredInv(mem, DoneSet, f))'
  BY <1>2, SameInv DEF Inv
<1>7. ApartInv'
  BY SameInv DEF Inv, ApartInv
<1> QED
  BY <1>3, <1>4, <1>5, <1>6, <1>7 DEF Inv

(* Every step keeps the invariant. *)
LEMMA NextKeeps ==
    ASSUME Inv, [Next]_vars
    PROVE  Inv'
<1>1. TypeInv'
  BY NextTypes DEF Inv
<1>2. DOMAIN stream = 1..Len(stream)
  <2>1. stream \in Seq(Nat \X Nat)
    BY FrameMemoryAssumption DEF Inv, TypeInv, Sending
  <2> QED
    BY <2>1
<1>3. CASE ParseFrame
  BY <1>1, <1>3, ParseKeeps
<1>4. ASSUME NEW a \in Apids, PickAPID(a) PROVE Inv'
  BY <1>1, <1>4, IdleKeeps DEF PickAPID
<1>5. CASE EndAPID
  BY <1>1, <1>5, IdleKeeps DEF EndAPID
<1>6. ASSUME NEW k \in DOMAIN stream, ProcessSDU(k) PROVE Inv'
  BY <1>1, <1>2, <1>6, ProcessKeeps
<1>7. CASE UNCHANGED vars
  BY <1>1, <1>7, IdleKeeps DEF vars
<1> QED
  BY <1>3, <1>4, <1>5, <1>6, <1>7 DEF Next

(* Nothing is done or written when the first frame is about to come. *)
LEMMA InitHolds ==
    ASSUME Init
    PROVE  Inv
<1>1. TypeInv /\ Sending
  BY InitTypes DEF TypeInv
<1>2. DoneSet = {}
  <2>1. \A x \in 1..Len(stream) : ArrivesIn(x) \in Nat
    BY <1>1, ArriveInOrder
  <2> QED
    BY <2>1 DEF DoneSet, Init
<1>3. MemInv(mem, DoneSet)
  BY DEF Init, MemInv
<1>4. PendingInv(DoneSet)
  BY DEF Init, PendingInv
<1>5. \A a \in Apids : Files[a] = Nil
  BY DEF Init
<1>6. delivered = {}
  BY DEF Init
<1> QED
  BY <1>1, <1>3, <1>4, <1>5, <1>6 DEF Inv, ApartInv

(* A file that is what it should be is spoilt only as the runs say. *)
LEMMA SliceShown ==
    ASSUME Sending, NEW D, NEW f, NEW p, SliceOK(f), MemOK(mem), SliceInv(mem, D, f, p)
    PROVE  \/ Data(mem, f) = Expected(f.value)
           \/ \E k \in Holds(f), j \in DOMAIN stream :
                 InTheWay(j, k) \/ (InTheWay(k, j) /\ IsFirst(j))
<1> DEFINE v == f.value
           F == v.file
<1>1. ValueAt(v, p) /\ (Calm(F, p) => Intact(mem, f))
  BY DEF SliceInv
<1>2. CASE Calm(F, p)
  <2> DEFINE h == AsSent(RawAt(Place(F, 1)), HeadLen)
  <2>1. RawData(mem, f) = h \o Expected(v)
    BY <1>1, <1>2 DEF Intact
  <2>2. h \in Seq(Octs) /\ Len(h) = HeadLen
    <3>1. 1 \in 1..p /\ Place(F, 1) \in 1..Len(stream)
      <4> HIDE DEF v
      <4> QED
        BY <1>1, PartsOf
    <3>2. RawAt(Place(F, 1)) \in Int /\ HeadLen \in Nat
      BY <3>1, PacketParts, LengthFacts
    <3> QED
      BY <3>2, OctetTypes
  <2>3. Expected(v) \in Seq(Octs)
    <3> HIDE DEF v
    <3> QED
      BY <1>1, ValueFacts
  <2>4. \A x \in Seq(Octs), y \in Seq(Octs) :
           Len(x) = HeadLen /\ RawData(mem, f) = x \o y => Data(mem, f) = y
    BY DataFacts
  <2> HIDE DEF h
  <2> QED
    BY <2>1, <2>2, <2>3, <2>4
<1>3. CASE ~Calm(F, p)
  <2>1. PICK i \in 1..p, j \in 1..Len(stream) :
           InTheWay(j, Place(F, i)) \/ (InTheWay(Place(F, i), j) /\ IsFirst(j))
    BY <1>3 DEF Calm
  <2>2. j \in DOMAIN stream
    BY SduFacts
  <2>3. Place(F, i) \in Holds(f)
    <3>1. CASE i = 1
      <4>1. Sdu([file |-> F, part |-> 1]) = Place(F, 1)
        BY DEF Sdu, Place
      <4> QED
        BY <3>1, <4>1 DEF Holds
    <3>2. CASE i # 1
      <4>1. p \in Nat
        <5> HIDE DEF v
        <5> QED
          BY <1>1, PartsOf
      <4>2. i \in 2..p
        BY <3>2, <4>1
      <4>3. PICK c \in DOMAIN v.data : v.data[c].part = i
        BY <1>1, <4>2 DEF ValueAt
      <4>4. v.data[c].file = F
        BY <1>1 DEF ValueAt
      <4>5. Sdu(v.data[c]) = Place(F, i)
        BY <4>3, <4>4 DEF Sdu, Place
      <4>6. v.data[c] \in ToSet(v.data)
        BY DEF ToSet
      <4> QED
        BY <4>5, <4>6 DEF Holds
    <3> QED
      BY <3>1, <3>2
  <2> QED
    BY <2>1, <2>2, <2>3
<1> QED
  BY <1>2, <1>3

(* The invariant says what SpoiltOnlyInTheWay promises. *)
LEMMA InvShows ==
    ASSUME Inv
    PROVE  SpoiltOnlyInTheWay
<1>1. TypeInv /\ Sending /\ MemOK(mem)
  BY DEF Inv, TypeInv
<1>2. ASSUME NEW k \in Pending
      PROVE  CRCGood(mem, k) \/ \E j \in DOMAIN stream : InTheWay(j, k)
  <2>1. PICK a \in Apids : k \in APIDs[a]
    BY DEF Pending
  <2> QED
    BY <2>1, PendingGood DEF Inv
<1>3. ASSUME NEW f \in Held
      PROVE  \/ Data(mem, f) = Expected(f.value)
             \/ \E k \in Holds(f), j \in DOMAIN stream :
                   InTheWay(j, k) \/ (InTheWay(k, j) /\ IsFirst(j))
  <2>1. f \in delivered \/ \E a \in Apids : Files[a] # Nil /\ f = Files[a]
    BY DEF Held
  <2>2. CASE f \in delivered
    <3>1. DeliveredInv(mem, DoneSet, f) /\ SliceOK(f)
      BY <2>2 DEF Inv, TypeInv
    <3>2. SliceInv(mem, DoneSet, f, Parts(f.value.file))
      BY <3>1 DEF DeliveredInv
    <3> QED
      BY <1>1, <3>1, <3>2, SliceShown
  <2>3. ASSUME NEW a \in Apids, Files[a] # Nil, f = Files[a]
        PROVE  \/ Data(mem, f) = Expected(f.value)
               \/ \E k \in Holds(f), j \in DOMAIN stream :
                     InTheWay(j, k) \/ (InTheWay(k, j) /\ IsFirst(j))
    <3>1. OpenInv(mem, DoneSet, f, a) /\ SliceOK(f)
      BY <2>3 DEF Inv, TypeInv
    <3>2. PICK p \in 1..Parts(f.value.file)-1 : SliceInv(mem, DoneSet, f, p)
      BY <3>1 DEF OpenInv
    <3> QED
      BY <1>1, <3>1, <3>2, SliceShown
  <2> QED
    BY <2>1, <2>2, <2>3
<1> QED
  BY <1>2, <1>3 DEF SpoiltOnlyInTheWay

(***************************************************************************)
(* Sharing a buffer does harm in one constellation only, for every stream  *)
(* of files, however long a frame is and whatever they outlive: append may *)
(* write over octets of another file or of an SDU that is still to be      *)
(* checked only if the one lies in the other's way                         *)
(* (FrameMemory, SpoiltOnlyInTheWay).                                      *)
(***************************************************************************)
THEOREM SpoiltOnlyInTheWayHolds == Spec => []SpoiltOnlyInTheWay
<1>1. Init => Inv
  BY InitHolds
<1>2. Inv /\ [Next]_vars => Inv'
  BY NextKeeps
<1>3. Inv => SpoiltOnlyInTheWay
  BY InvShows
<1> QED
  BY <1>1, <1>2, <1>3, PTL DEF Spec
=============================================================================
