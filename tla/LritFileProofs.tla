--------------------------- MODULE LritFileProofs ---------------------------
(***************************************************************************)
(* Facts about LRIT files and the streams their SDUs are sent in, for all  *)
(* files: the octets of chunks, the types, what the parts of a file amount *)
(* to, and the order of the SDUs.                                          *)
(*                                                                         *)
(* Lengths are folds over sequences of chunks.  What they are for every    *)
(* sequence is shown by a least counterexample instead of an induction.    *)
(***************************************************************************)
EXTENDS LritFile, FiniteSetTheorems, WellFoundedInduction, TLAPS

(* Every nonempty set of naturals has a least element. *)
LEMMA LeastOf ==
    ASSUME NEW S, S \subseteq Nat, S # {}
    PROVE  \E x \in S : \A y \in S : x <= y
<1> DEFINE R == OpToRel(<, Nat)
<1>1. IsWellFoundedOn(R, Nat)
  BY NatLessThanWellFounded, Zenon
<1>2. \A x, y \in Nat : y < x => <<y, x>> \in R
  BY Zenon DEF OpToRel
<1> HIDE DEF R
<1>3. PICK x \in S : \A y \in S : ~(<<y, x>> \in R)
  BY <1>1, WFMin
<1>4. x \in Nat /\ \A y \in S : y \in Nat /\ ~(y < x)
  BY <1>2, <1>3
<1> QED
  BY <1>4

-----------------------------------------------------------------------------
(* The octets of some chunks: a fold, whose recursion is unfolded here.     *)

(* The equation that the sums over the sets s of positions satisfy. *)
SumsTo(data, T, g) ==
    \A s \in SUBSET T :
        g[s] = IF s = {} THEN 0 ELSE g[s \ {Max(s)}] + data[Max(s)].len

(* The greatest element of a set of positions up to m that holds m. *)
LEMMA MaxIs ==
    ASSUME NEW m \in Nat, NEW s \in SUBSET (1..m), m \in s
    PROVE  Max(s) = m
<1>1. \A y \in s : y \in Int /\ m >= y
  OBVIOUS
<1>2. \A x \in s : (\A y \in s : x >= y) => x = m
  BY <1>1
<1> QED
  BY <1>1, <1>2 DEF Max

(* Such sums exist. *)
LEMMA SumsExist ==
    ASSUME NEW data, NEW n \in Nat, \A i \in 1..n : data[i].len \in Nat
    PROVE  \E g : g \in [SUBSET (1..n) -> Nat] /\ SumsTo(data, 1..n, g)
<1> DEFINE Has == [m \in 0..n |-> \E g : g \in [SUBSET (1..m) -> Nat] /\ SumsTo(data, 1..m, g)]
<1> DEFINE Bad == {m \in 0..n : ~Has[m]}
<1> HIDE DEF Has
<1>0. ASSUME Bad = {} PROVE Has[n]
  BY <1>0
<1> SUFFICES ASSUME Bad # {} PROVE FALSE
  <2>1. n \in 0..n /\ Has[n]
    BY <1>0
  <2> QED
    BY <2>1, Zenon DEF Has
<1>1. PICK m \in Bad : \A y \in Bad : m <= y
  <2>1. Bad \subseteq Nat
    OBVIOUS
  <2> QED
    BY <2>1, LeastOf
<1>2. m \in 0..n /\ ~Has[m]
  OBVIOUS
<1>3. m # 0
  <2>1. Has[0]
    <3> DEFINE g == [s \in SUBSET (1..0) |-> 0]
    <3>1. g \in [SUBSET (1..0) -> Nat] /\ \A s \in SUBSET (1..0) : s = {} /\ g[s] = 0
      OBVIOUS
    <3> HIDE DEF g
    <3>2. SumsTo(data, 1..0, g)
      BY <3>1 DEF SumsTo
    <3> QED
      BY <3>1, <3>2 DEF Has
  <2> QED
    BY <1>2, <2>1
<1>4. m - 1 \in 0..n /\ m \in 1..n /\ m - 1 < m
  BY <1>2, <1>3
<1>5. Has[m - 1]
  <2>1. m - 1 \notin Bad
    BY <1>1, <1>2, <1>4
  <2> QED
    BY <1>4, <2>1
<1>6. PICK h : h \in [SUBSET (1..m - 1) -> Nat] /\ SumsTo(data, 1..m - 1, h)
  BY <1>4, <1>5 DEF Has
<1> DEFINE g == [s \in SUBSET (1..m) |->
                    IF m \in s THEN h[s \ {m}] + data[m].len ELSE h[s]]
<1>7. \A s \in SUBSET (1..m) :
         /\ s \ {m} \in SUBSET (1..m - 1)
         /\ s \ {m} \in SUBSET (1..m)
         /\ m \notin s => s \in SUBSET (1..m - 1)
  BY <1>4
<1>8. g \in [SUBSET (1..m) -> Nat]
  BY <1>4, <1>6, <1>7
<1>9. ASSUME NEW s \in SUBSET (1..m)
      PROVE  g[s] = IF s = {} THEN 0 ELSE g[s \ {Max(s)}] + data[Max(s)].len
  <2>1. CASE m \in s
    <3>1. Max(s) = m
      BY <1>4, <2>1, MaxIs
    <3>2. g[s] = h[s \ {m}] + data[m].len /\ g[s \ {m}] = h[s \ {m}]
      BY <1>7, <2>1
    <3> QED
      BY <2>1, <3>1, <3>2
  <2>2. CASE m \notin s
    <3>1. s \in SUBSET (1..m - 1) /\ g[s] = h[s]
      BY <1>7, <2>2
    <3>2. g[s \ {Max(s)}] = h[s \ {Max(s)}]
      BY <2>2, <3>1
    <3> QED
      BY <1>6, <3>1, <3>2 DEF SumsTo
  <2> QED
    BY <2>1, <2>2
<1>10. Has[m]
  <2> HIDE DEF g
  <2>1. SumsTo(data, 1..m, g)
    BY <1>9 DEF SumsTo
  <2> QED
    BY <1>2, <1>8, <2>1 DEF Has
<1> QED
  BY <1>2, <1>10

(* Sums that satisfy the equation are natural. *)
LEMMA SumsAreNat ==
    ASSUME NEW data, NEW n \in Nat, \A i \in 1..n : data[i].len \in Nat,
           NEW g, SumsTo(data, 1..n, g)
    PROVE  \A s \in SUBSET (1..n) : g[s] \in Nat
<1> DEFINE Has == [m \in 0..n |-> \A s \in SUBSET (1..m) : g[s] \in Nat]
<1> DEFINE Bad == {m \in 0..n : ~Has[m]}
<1> HIDE DEF Has
<1>0. ASSUME Bad = {} PROVE Has[n]
  BY <1>0
<1> SUFFICES ASSUME Bad # {} PROVE FALSE
  <2>1. Has[n]
    BY <1>0
  <2> QED
    BY <2>1 DEF Has
<1>1. PICK m \in Bad : \A y \in Bad : m <= y
  <2>1. Bad \subseteq Nat
    OBVIOUS
  <2> QED
    BY <2>1, LeastOf
<1>2. PICK s \in SUBSET (1..m) : g[s] \notin Nat
  BY DEF Has
<1>3. s \in SUBSET (1..n) /\ m \in 0..n
  OBVIOUS
<1>4. s # {}
  BY <1>2, <1>3 DEF SumsTo
<1>5. m - 1 \in 0..n /\ m \in 1..n /\ m - 1 < m
  <2>1. ASSUME m = 0 PROVE FALSE
    <3>1. 1..m = {}
      BY <2>1
    <3> QED
      BY <1>4, <3>1
  <2> QED
    BY <1>3, <2>1
<1>6. \A t \in SUBSET (1..m - 1) : g[t] \in Nat
  <2>1. m - 1 \notin Bad
    BY <1>1, <1>3, <1>5
  <2> QED
    BY <1>5, <2>1 DEF Has
<1>7. m \in s
  <2>1. m \notin s => s \in SUBSET (1..m - 1)
    BY <1>5
  <2> QED
    BY <1>2, <1>6, <2>1
<1>8. Max(s) = m
  BY <1>5, <1>7, MaxIs
<1>9. s \ {m} \in SUBSET (1..m - 1)
  <2>1. \A x \in 1..m : x # m => x \in 1..m - 1
    BY <1>5
  <2> QED
    BY <2>1
<1>10. g[s \ {m}] \in Nat
  BY <1>6, <1>9
<1>11. g[s] = g[s \ {m}] + data[m].len /\ data[m].len \in Nat
  BY <1>3, <1>4, <1>5, <1>8 DEF SumsTo
<1> QED
  BY <1>2, <1>10, <1>11

(* Octets is such a sum, over all positions. *)
LEMMA OctetsAre ==
    ASSUME NEW data \in Seq(Chunk)
    PROVE  \E g : /\ SumsTo(data, 1..Len(data), g)
                  /\ Octets(data) = g[1..Len(data)]
                  /\ \A s \in SUBSET (1..Len(data)) : g[s] \in Nat
<1> DEFINE n == Len(data)
<1> DEFINE F(iter) == [s \in SUBSET (DOMAIN data) |->
              IF s = {} THEN 0
              ELSE iter[s \ {Max(s)}] + data[Max(s)].len]
<1> DEFINE sums == CHOOSE iter : iter = F(iter)
<1>1. Octets(data) = sums[DOMAIN data]
  BY Zenon DEF Octets, FoldLeft, MapThenFoldSet
<1>2. n \in Nat /\ DOMAIN data = 1..n /\ \A i \in 1..n : data[i].len \in Nat
  <2>1. n \in Nat /\ DOMAIN data = 1..n /\ \A i \in 1..n : data[i] \in Chunk
    OBVIOUS
  <2>2. \A c \in Chunk : c.len \in Nat
    BY DEF Chunk
  <2> QED
    BY <2>1, <2>2
<1>3. PICK g : g \in [SUBSET (1..n) -> Nat] /\ SumsTo(data, 1..n, g)
  <2> HIDE DEF n
  <2> QED
    BY <1>2, SumsExist
<1>4. g = F(g)
  BY <1>2, <1>3 DEF SumsTo
<1>5. sums = F(sums)
  <2> HIDE DEF F
  <2> QED
    BY <1>4
<1>6. SumsTo(data, 1..n, sums)
  <2> HIDE DEF sums, n
  <2>1. \A s \in SUBSET (1..n) : sums[s] = F(sums)[s]
    <3> HIDE DEF F
    <3> QED BY <1>5
  <2> QED
    BY <1>2, <2>1 DEF SumsTo
<1> HIDE DEF sums, F
<1>7. \A s \in SUBSET (1..n) : sums[s] \in Nat
  <2> HIDE DEF n
  <2> QED
    BY <1>2, <1>6, SumsAreNat
<1> QED
  BY <1>1, <1>2, <1>6, <1>7

(***************************************************************************)
(* Octets is a number, zero for no chunks, and not less than the octets of *)
(* the last chunk.                                                         *)
(***************************************************************************)
LEMMA OctetsFacts ==
    ASSUME NEW data \in Seq(Chunk)
    PROVE  /\ Octets(data) \in Nat
           /\ data = << >> => Octets(data) = 0
           /\ data # << >> => Octets(data) >= data[Len(data)].len
<1> DEFINE n == Len(data)
<1>1. PICK sums : /\ SumsTo(data, 1..n, sums) /\ Octets(data) = sums[1..n]
                  /\ \A s \in SUBSET (1..n) : sums[s] \in Nat
  BY OctetsAre
<1>2. n \in Nat /\ \A i \in 1..n : data[i].len \in Nat
  <2>1. n \in Nat /\ \A i \in 1..n : data[i] \in Chunk
    OBVIOUS
  <2>2. \A c \in Chunk : c.len \in Nat
    BY DEF Chunk
  <2> QED
    BY <2>1, <2>2
<1>3. data # << >> => n > 0
  OBVIOUS
<1>4. data = << >> => n = 0
  OBVIOUS
<1> HIDE DEF n
<1>5. 1..n \in SUBSET (1..n) /\ (1..n) \ {n} \in SUBSET (1..n)
  OBVIOUS
<1>6. ASSUME data = << >> PROVE Octets(data) = 0
  <2>1. 1..n = {}
    BY <1>4, <1>6
  <2> QED
    BY <1>1, <1>5, <2>1 DEF SumsTo
<1>7. ASSUME data # << >> PROVE Octets(data) >= data[n].len
  <2>1. n > 0 /\ n \in 1..n
    BY <1>2, <1>3, <1>7
  <2>2. Max(1..n) = n
    BY <1>2, <1>5, <2>1, MaxIs
  <2>3. Octets(data) = sums[(1..n) \ {n}] + data[n].len
    BY <1>1, <1>5, <2>1, <2>2 DEF SumsTo
  <2>4. sums[(1..n) \ {n}] \in Nat /\ data[n].len \in Nat
    BY <1>1, <1>2, <1>5, <2>1
  <2> QED
    BY <2>3, <2>4
<1> QED
  BY <1>1, <1>5, <1>6, <1>7 DEF n

(* Sums over the same lengths are the same. *)
LEMMA SumsAgree ==
    ASSUME NEW d, NEW e, NEW g, NEW h, NEW n \in Nat,
           SumsTo(d, 1..n, g), SumsTo(e, 1..n, h), \A i \in 1..n : d[i].len = e[i].len
    PROVE  \A s \in SUBSET (1..n) : g[s] = h[s]
<1> DEFINE Same == [m \in 0..n |-> \A s \in SUBSET (1..m) : g[s] = h[s]]
<1> DEFINE Bad == {m \in 0..n : ~Same[m]}
<1> HIDE DEF Same
<1>0. ASSUME Bad = {} PROVE Same[n]
  BY <1>0
<1> SUFFICES ASSUME Bad # {} PROVE FALSE
  <2>1. Same[n]
    BY <1>0
  <2> QED
    BY <2>1 DEF Same
<1>1. PICK m \in Bad : \A y \in Bad : m <= y
  <2>1. Bad \subseteq Nat
    OBVIOUS
  <2> QED
    BY <2>1, LeastOf
<1>2. PICK s \in SUBSET (1..m) : g[s] # h[s]
  BY DEF Same
<1>3. s \in SUBSET (1..n) /\ m \in 0..n
  OBVIOUS
<1>4. s # {}
  BY <1>2, <1>3 DEF SumsTo
<1>5. m - 1 \in 0..n /\ m \in 1..n /\ m - 1 < m
  <2>1. ASSUME m = 0 PROVE FALSE
    <3>1. 1..m = {}
      BY <2>1
    <3> QED
      BY <1>4, <3>1
  <2> QED
    BY <1>3, <2>1
<1>6. \A t \in SUBSET (1..m - 1) : g[t] = h[t]
  <2>1. m - 1 \notin Bad
    BY <1>1, <1>3, <1>5
  <2> QED
    BY <1>5, <2>1 DEF Same
<1>7. m \in s
  <2>1. m \notin s => s \in SUBSET (1..m - 1)
    BY <1>5
  <2> QED
    BY <1>2, <1>6, <2>1
<1>8. Max(s) = m
  BY <1>5, <1>7, MaxIs
<1>9. g[s \ {m}] = h[s \ {m}]
  <2>1. s \ {m} \in SUBSET (1..m - 1)
    BY <1>5
  <2> QED
    BY <1>6, <2>1
<1>10. g[s] = g[s \ {m}] + d[m].len
  BY <1>3, <1>4, <1>8 DEF SumsTo
<1>11. h[s] = h[s \ {m}] + e[m].len
  BY <1>3, <1>4, <1>8 DEF SumsTo
<1> QED
  BY <1>2, <1>5, <1>9, <1>10, <1>11

(* One more chunk adds its octets. *)
LEMMA OctetsGrow ==
    ASSUME NEW d \in Seq(Chunk), NEW c \in Chunk
    PROVE  Octets(d \o <<c>>) = Octets(d) + c.len
<1> DEFINE e == d \o <<c>>
           n == Len(d)
<1>1. n \in Nat /\ e \in Seq(Chunk) /\ Len(e) = n + 1 /\ e[n + 1] = c
      /\ \A i \in 1..n : e[i] = d[i]
  OBVIOUS
<1> HIDE DEF e
<1>2. PICK g : SumsTo(d, 1..n, g) /\ Octets(d) = g[1..n]
  BY OctetsAre
<1>3. PICK h : SumsTo(e, 1..n+1, h) /\ Octets(e) = h[1..n+1]
  BY <1>1, OctetsAre
<1> HIDE DEF n
<1>4. SumsTo(e, 1..n, h)
  <2>1. SUBSET (1..n) \subseteq SUBSET (1..n+1)
    BY <1>1
  <2> QED
    BY <1>3, <2>1 DEF SumsTo
<1>5. g[1..n] = h[1..n]
  <2>0. n \in Nat /\ \A i \in 1..n : d[i].len = e[i].len
    BY <1>1
  <2>1. \A s \in SUBSET (1..n) : g[s] = h[s]
    <3>1. SumsTo(d, 1..n, g)
      BY <1>2
    <3>2. SumsTo(e, 1..n, h)
      BY <1>4
    <3>3. n \in Nat
      BY <2>0
    <3>4. \A i \in 1..n : d[i].len = e[i].len
      BY <2>0
    <3> HIDE DEF e, n
    <3> QED
      BY ONLY <3>1, <3>2, <3>3, <3>4, SumsAgree
  <2> QED
    BY <2>1
<1>6. Max(1..n+1) = n + 1
  BY <1>1, MaxIs
<1>7. (1..n+1) \ {n + 1} = 1..n /\ 1..n+1 # {} /\ 1..n+1 \in SUBSET (1..n+1)
  <2>1. n + 1 \in 1..n+1
    BY <1>1
  <2>2. \A i \in 1..n+1 : i # n + 1 => i \in 1..n
    BY <1>1
  <2>3. n + 1 \notin 1..n /\ 1..n \subseteq 1..n+1
    BY <1>1
  <2> QED
    BY <2>1, <2>2, <2>3
<1>8. h[1..n+1] = h[1..n] + c.len
  BY <1>1, <1>3, <1>6, <1>7 DEF SumsTo
<1> QED
  BY <1>2, <1>3, <1>5, <1>8 DEF e

-----------------------------------------------------------------------------
(* The constants, and the operations on a file. *)

(* What is assumed of a file's description. *)
LEMMA MetaFacts ==
    ASSUME NEW f \in Sent
    PROVE  /\ f \in Nat /\ f # Nil
           /\ Meta[f].apid \in Apids /\ Meta[f].apid \in Nat /\ Meta[f].apid # Nil
           /\ Meta[f].packed \in BOOLEAN /\ Meta[f].flagged \in BOOLEAN /\ Meta[f].image \in BOOLEAN
           /\ Parts(f) \in Nat /\ Parts(f) >= 1 /\ Meta[f].lens \in Seq(Nat)
           /\ \A i \in 1..Parts(f) : Meta[f].lens[i] \in Nat
           /\ \A i \in 2..Parts(f) : Meta[f].lens[i] > 0
<1>1. Meta[f] \in MetaType /\ \A i \in 2..Len(Meta[f].lens) : Meta[f].lens[i] > 0
  BY LritFileAssumption
<1>2. /\ Meta[f].apid \in Nat /\ Meta[f].lens \in Seq(Nat) \ {<< >>}
      /\ Meta[f].packed \in BOOLEAN /\ Meta[f].flagged \in BOOLEAN /\ Meta[f].image \in BOOLEAN
  BY <1>1 DEF MetaType
<1>3. f \in Nat /\ Nil \notin Nat
  BY LritFileAssumption
<1>4. Meta[f].apid \in Apids
  BY DEF Apids
<1>5. Parts(f) \in Nat /\ Parts(f) >= 1 /\ \A i \in 1..Parts(f) : Meta[f].lens[i] \in Nat
  BY <1>2 DEF Parts
<1> QED
  BY <1>1, <1>2, <1>3, <1>4, <1>5 DEF Parts

(* A sent chunk, and what unpacking makes of a chunk. *)
LEMMA SentChunkType ==
    ASSUME NEW f \in Sent, NEW i \in 1..Parts(f)
    PROVE  SentChunk(f, i) \in Chunk
<1>1. i \in Nat /\ Meta[f].lens[i] \in Nat
  BY MetaFacts
<1> QED
  BY <1>1 DEF SentChunk, Chunk

(* An unpacked chunk is a chunk, empty only if it was. *)
LEMMA UnpackedType ==
    ASSUME NEW c \in Chunk, NEW d
    PROVE  /\ Unpacked(c, d) \in Chunk
           /\ Unpacked(c, d).len > 0 <=> c.len > 0
<1>1. Cols \in Nat /\ Cols > 0
  BY LritFileAssumption
<1>2. c.len \in Nat /\ c.kind \in {"plain", "packed", "fill"} /\ c.file \in Sent /\ c.part \in Nat
  BY DEF Chunk
<1>3. Row(c) \in Chunk /\ Row(c).len = Cols
  BY <1>1 DEF Row, Chunk
<1> QED
  BY <1>1, <1>2, <1>3 DEF Unpacked

(* A chunk, or none. *)
LEMMA NonEmptyType ==
    ASSUME NEW c \in Chunk
    PROVE  NonEmpty(c) \in Seq(Chunk)
BY DEF NonEmpty

(* The content of a file is a sequence of chunks. *)
LEMMA OriginalType ==
    ASSUME NEW f \in Sent
    PROVE  Original[f] \in Seq(Chunk) /\ DataLength[f] \in Nat
<1>1. 1 \in 1..Parts(f) /\ Parts(f) \in Nat /\ Parts(f) - 1 \in Nat
  BY MetaFacts
<1>2. NonEmpty(Unpacked(SentChunk(f, 1), TRUE)) \in Seq(Chunk)
  BY <1>1, SentChunkType, UnpackedType, NonEmptyType
<1>3. \A i \in 1..Parts(f) - 1 : Unpacked(SentChunk(f, i + 1), TRUE) \in Chunk
  <2> TAKE i \in 1..Parts(f) - 1
  <2>1. i + 1 \in 1..Parts(f)
    BY <1>1
  <2> QED
    BY <2>1, SentChunkType, UnpackedType
<1> DEFINE rest == [i \in 1..Parts(f) - 1 |-> Unpacked(SentChunk(f, i + 1), TRUE)]
<1>4. rest \in Seq(Chunk)
  <2>1. rest \in [1..Parts(f) - 1 -> Chunk]
    BY <1>3
  <2> HIDE DEF rest
  <2> QED
    BY <1>1, <2>1
<1>5. Original[f] \in Seq(Chunk)
  <2> DEFINE head == NonEmpty(Unpacked(SentChunk(f, 1), TRUE))
  <2>1. Original[f] = head \o rest
    BY DEF Original
  <2>2. head \in Seq(Chunk)
    BY <1>2
  <2> HIDE DEF head, rest
  <2> QED
    BY <1>4, <2>1, <2>2
<1> QED
  BY <1>5, OctetsFacts DEF DataLength

(* Opening, appending, filling and closing make files of files. *)
LEMMA OpenNewType ==
    ASSUME NEW f \in Sent
    PROVE  OpenNew(f) \in FileType /\ OpenNew(f).file = f
<1>1. 1 \in 1..Parts(f) /\ Meta[f].flagged \in BOOLEAN
  BY MetaFacts
<1>2. NonEmpty(SentChunk(f, 1)) \in Seq(Chunk)
  BY <1>1, SentChunkType, NonEmptyType
<1> QED
  BY <1>1, <1>2 DEF OpenNew, FileType

(* A file to which a chunk is appended. *)
LEMMA AppendType ==
    ASSUME NEW f \in FileType, NEW c \in Chunk, NEW d
    PROVE  AppendSDU(f, c, d) \in FileType /\ AppendSDU(f, c, d).file = f.file
<1> DEFINE ready == f.ready \/ MakeSecondaryHeaders(f.data)
           Joined(e) == IF ready /\ Meta[f.file].packed THEN Unpacked(e, d) ELSE e
           old == IF f.ready THEN f.data ELSE [i \in DOMAIN f.data |-> Joined(f.data[i])]
<1>1. f.file \in Sent /\ f.ready \in BOOLEAN /\ f.data \in Seq(Chunk)
  BY DEF FileType
<1>2. \A e \in Chunk : Joined(e) \in Chunk
  BY UnpackedType
<1>3. \A i \in DOMAIN f.data : f.data[i] \in Chunk
  BY <1>1
<1>4. old \in Seq(Chunk)
  <2> HIDE DEF Joined
  <2>1. [i \in DOMAIN f.data |-> Joined(f.data[i])] \in Seq(Chunk)
    <3>1. DOMAIN f.data = 1..Len(f.data) /\ Len(f.data) \in Nat
      BY <1>1
    <3> QED
      BY <1>2, <1>3, <3>1
  <2> QED
    BY <1>1, <2>1
<1>5. NonEmpty(Joined(c)) \in Seq(Chunk)
  BY <1>2, NonEmptyType
<1>6. AppendSDU(f, c, d) = [f EXCEPT !.ready = ready, !.data = old \o NonEmpty(Joined(c))]
  BY DEF AppendSDU
<1>7. ready \in BOOLEAN
  BY <1>1 DEF MakeSecondaryHeaders
<1>8. old \o NonEmpty(Joined(c)) \in Seq(Chunk)
  <2> HIDE DEF old, Joined
  <2> QED
    BY <1>4, <1>5
<1> HIDE DEF ready, old, Joined
<1> QED
  BY <1>1, <1>6, <1>7, <1>8 DEF FileType

(* A file with rows filled in. *)
LEMMA FillType ==
    ASSUME NEW f \in FileType, NEW n \in Nat
    PROVE  Fill(f, n) \in FileType /\ Fill(f, n).file = f.file
<1>1. f.file \in Sent /\ f.ready \in BOOLEAN /\ f.data \in Seq(Chunk)
  BY DEF FileType
<1>2. FillRow(f) \in Chunk
  BY <1>1, LritFileAssumption DEF FillRow, Chunk
<1>3. [i \in 1..n |-> FillRow(f)] \in Seq(Chunk)
  BY <1>2
<1>4. f.data \o [i \in 1..n |-> FillRow(f)] \in Seq(Chunk)
  BY <1>1, <1>3
<1> QED
  BY <1>1, <1>4 DEF Fill, FileType

(* Unsigned arithmetic. *)
LEMMA WordFacts ==
    ASSUME Sent # {}
    PROVE  Word \in Nat /\ Word > 0 /\ \A x \in Int : x % Word \in Nat
<1>1. PICK f \in Sent : TRUE
  OBVIOUS
<1>2. Word \in Nat /\ DataLength[f] < Word /\ DataLength[f] \in Nat
  BY OriginalType, LritFileAssumption
<1>3. Word > 0
  BY <1>2
<1> QED
  BY <1>2, <1>3

(* The rows missing from a file are a number. *)
LEMMA MissingType ==
    ASSUME NEW f \in FileType
    PROVE  MissingRows(f) \in Nat
<1>1. f.file \in Sent /\ f.data \in Seq(Chunk)
  BY DEF FileType
<1>2. Octets(f.data) \in Nat /\ DataLength[f.file] \in Nat
  BY <1>1, OctetsFacts, OriginalType
<1>3. (DataLength[f.file] - Octets(f.data)) % Word \in Nat
  <2>1. DataLength[f.file] - Octets(f.data) \in Int
    BY <1>2
  <2>2. \A x \in Int : x % Word \in Nat
    BY <1>1, WordFacts
  <2> QED
    BY <2>1, <2>2, Zenon
<1>4. Cols \in Nat /\ Cols > 0
  BY LritFileAssumption
<1>5. \A x \in Nat : x \div Cols \in Nat
  BY <1>4
<1> QED
  BY <1>3, <1>5 DEF MissingRows

(* A file that is closed. *)
LEMMA CloseType ==
    ASSUME NEW f \in FileType
    PROVE  Close(f) \in FileType /\ Close(f).file = f.file
BY MissingType, FillType DEF Close

-----------------------------------------------------------------------------
(* A file whose SDUs all come. *)

(* The chunks of f up to part p, unpacked or not. *)
Pieces(f, p, b) ==
    NonEmpty(Unpacked(SentChunk(f, 1), b)) \o [i \in 1..p-1 |-> Unpacked(SentChunk(f, i + 1), b)]

(* Whether the first SDU has data. *)
Lead(f) == IF Meta[f].lens[1] > 0 THEN 1 ELSE 0

(* The i-th of them is the i-th SDU's, or the next one's. *)
LEMMA PiecesAre ==
    ASSUME NEW f \in Sent, NEW p \in 1..Parts(f), NEW b \in BOOLEAN
    PROVE  /\ Pieces(f, p, b) = [i \in 1..p-1+Lead(f) |-> Unpacked(SentChunk(f, i + 1 - Lead(f)), b)]
           /\ Pieces(f, p, b) \in Seq(Chunk)
           /\ Len(Pieces(f, p, b)) = p - 1 + Lead(f)
<1> DEFINE u == [i \in 1..Parts(f) |-> Unpacked(SentChunk(f, i), b)]
<1>1. /\ p \in Nat /\ p >= 1 /\ Parts(f) \in Nat /\ p <= Parts(f)
      /\ 1 \in 1..Parts(f) /\ Meta[f].lens[1] \in Nat
  BY MetaFacts
<1>2. \A i \in 1..Parts(f) : u[i] \in Chunk /\ u[i] = Unpacked(SentChunk(f, i), b)
  BY SentChunkType, UnpackedType
<1>3. u[1].len > 0 <=> Meta[f].lens[1] > 0
  <2>1. SentChunk(f, 1).len = Meta[f].lens[1] /\ SentChunk(f, 1) \in Chunk
    BY <1>1, SentChunkType DEF SentChunk
  <2> QED
    BY <1>1, <2>1, UnpackedType
<1> DEFINE rest == [i \in 1..p-1 |-> u[i + 1]]
<1>4. Pieces(f, p, b) = NonEmpty(u[1]) \o rest
  <2>1. rest = [i \in 1..p-1 |-> Unpacked(SentChunk(f, i + 1), b)]
    BY <1>1
  <2> QED
    BY <1>1, <2>1 DEF Pieces
<1> HIDE DEF u
<1>5. rest \in Seq(Chunk) /\ Len(rest) = p - 1 /\ DOMAIN rest = 1..p-1
  <2>1. rest \in [1..p-1 -> Chunk] /\ p - 1 \in Nat
    BY <1>1, <1>2
  <2> HIDE DEF rest
  <2> QED
    BY <2>1
<1> DEFINE all == [i \in 1..p-1+Lead(f) |-> u[i + 1 - Lead(f)]]
<1>6. NonEmpty(u[1]) \o rest = all
  <2>1. CASE Meta[f].lens[1] > 0
    <3>1. NonEmpty(u[1]) = <<u[1]>> /\ Lead(f) = 1
      BY <1>3, <2>1 DEF NonEmpty, Lead
    <3>2. <<u[1]>> \o rest = [i \in 1..p |-> u[i]]
      <4> DEFINE whole == [i \in 1..p |-> u[i]]
      <4>1. \A i \in 1..p-1 : rest[i] = u[i + 1]
        OBVIOUS
      <4>2. \A i \in 1..p : whole[i] = u[i]
        OBVIOUS
      <4>3. DOMAIN whole = 1..p /\ whole \in Seq(Chunk) /\ Len(whole) = p
        <5>1. whole \in [1..p -> Chunk]
          BY <1>1, <1>2
        <5> HIDE DEF whole
        <5> QED
          BY <1>1, <5>1
      <4> HIDE DEF rest, whole
      <4>4. <<u[1]>> \in Seq(Chunk) /\ <<u[1]>> \o rest \in Seq(Chunk)
            /\ Len(<<u[1]>> \o rest) = p
        BY <1>1, <1>2, <1>5
      <4>5. \A i \in 1..p : (<<u[1]>> \o rest)[i] = whole[i]
        BY <1>1, <1>2, <1>5, <4>1, <4>2
      <4>6. <<u[1]>> \o rest = whole
        BY <4>3, <4>4, <4>5
      <4> QED
        BY <4>6 DEF whole
    <3>3. [i \in 1..p |-> u[i]] = all
      BY <1>1, <3>1
    <3> QED
      BY <3>1, <3>2, <3>3
  <2>2. CASE ~(Meta[f].lens[1] > 0)
    <3>1. NonEmpty(u[1]) = << >> /\ Lead(f) = 0
      BY <1>3, <2>2 DEF NonEmpty, Lead
    <3>2. << >> \o rest = rest
      <4> HIDE DEF rest
      <4> QED
        BY <1>5
    <3>3. rest = all
      BY <1>1, <3>1
    <3> QED
      BY <3>1, <3>2, <3>3
  <2> QED
    BY <2>1, <2>2
<1>7. Lead(f) \in {0, 1}
  BY DEF Lead
<1>8. \A i \in 1..p-1+Lead(f) : i + 1 - Lead(f) \in 1..Parts(f)
  BY <1>1, <1>7
<1>9. all \in [1..p-1+Lead(f) -> Chunk] /\ p - 1 + Lead(f) \in Nat
  BY <1>1, <1>2, <1>7, <1>8
<1>10. all = [i \in 1..p-1+Lead(f) |-> Unpacked(SentChunk(f, i + 1 - Lead(f)), b)]
  BY <1>2, <1>8
<1>11. all \in Seq(Chunk) /\ Len(all) = p - 1 + Lead(f)
  <2> HIDE DEF all
  <2> QED
    BY <1>9
<1> QED
  BY <1>4, <1>6, <1>10, <1>11

(* One more part. *)
LEMMA PiecesGrow ==
    ASSUME NEW f \in Sent, NEW p \in 1..Parts(f), p + 1 \in 1..Parts(f), NEW b \in BOOLEAN
    PROVE  Pieces(f, p, b) \o NonEmpty(Unpacked(SentChunk(f, p + 1), b)) = Pieces(f, p + 1, b)
<1> DEFINE c == Unpacked(SentChunk(f, p + 1), b)
           before == Pieces(f, p, b)
           after == Pieces(f, p + 1, b)
           n == p - 1 + Lead(f)
<1>1. p \in Nat /\ p >= 1 /\ Parts(f) \in Nat /\ Lead(f) \in {0, 1}
  BY MetaFacts DEF Lead
<1>2. c \in Chunk /\ NonEmpty(c) = <<c>>
  <2>1. SentChunk(f, p + 1) \in Chunk /\ SentChunk(f, p + 1).len > 0
    <3>1. Meta[f].lens[p + 1] > 0
      <4>1. p + 1 \in 2..Parts(f)
        BY <1>1
      <4> QED
        BY <4>1, MetaFacts
    <3> QED
      BY <3>1, SentChunkType DEF SentChunk
  <2> QED
    BY <2>1, UnpackedType DEF NonEmpty
<1>3. /\ before = [i \in 1..n |-> Unpacked(SentChunk(f, i + 1 - Lead(f)), b)]
      /\ before \in Seq(Chunk) /\ Len(before) = n
  BY PiecesAre
<1>4. /\ after = [i \in 1..n+1 |-> Unpacked(SentChunk(f, i + 1 - Lead(f)), b)]
      /\ after \in Seq(Chunk) /\ Len(after) = n + 1
  <2>1. p + 1 - 1 + Lead(f) = n + 1
    BY <1>1
  <2>2. /\ after = [i \in 1..p+1-1+Lead(f) |-> Unpacked(SentChunk(f, i + 1 - Lead(f)), b)]
        /\ after \in Seq(Chunk) /\ Len(after) = p + 1 - 1 + Lead(f)
    BY PiecesAre
  <2> QED
    BY <2>1, <2>2
<1>5. n \in Nat /\ n + 1 + 1 - Lead(f) = p + 1
  BY <1>1
<1>6. \A i \in 1..n : after[i] = before[i]
  BY <1>1, <1>3, <1>4
<1>7. after[n + 1] = c
  BY <1>4, <1>5
<1>8. before \o <<c>> = after
  <2> HIDE DEF c, before, after, n
  <2>1. before \o <<c>> \in Seq(Chunk) /\ Len(before \o <<c>>) = n + 1
    BY <1>2, <1>3, <1>5
  <2>2. \A i \in 1..n+1 : (before \o <<c>>)[i] = after[i]
    BY <1>2, <1>3, <1>5, <1>6, <1>7
  <2> QED
    BY <1>4, <2>1, <2>2
<1> QED
  BY <1>2, <1>8

(* What f holds has octets once there was data. *)
LEMMA PiecesOctets ==
    ASSUME NEW f \in Sent, NEW p \in 1..Parts(f), NEW b \in BOOLEAN
    PROVE  MakeSecondaryHeaders(Pieces(f, p, b)) <=> (p >= 2 \/ Meta[f].lens[1] > 0)
<1> DEFINE d == Pieces(f, p, b)
           n == p - 1 + Lead(f)
<1>1. p \in Nat /\ p >= 1 /\ p <= Parts(f) /\ Parts(f) \in Nat /\ Lead(f) \in {0, 1}
      /\ (Lead(f) = 1 <=> Meta[f].lens[1] > 0)
  BY MetaFacts DEF Lead
<1>2. /\ d = [i \in 1..n |-> Unpacked(SentChunk(f, i + 1 - Lead(f)), b)]
      /\ d \in Seq(Chunk) /\ Len(d) = n
  BY PiecesAre
<1>3. /\ Octets(d) \in Nat
      /\ d = << >> => Octets(d) = 0
      /\ d # << >> => Octets(d) >= d[Len(d)].len
  <2> HIDE DEF d
  <2> QED
    BY <1>2, OctetsFacts
<1>4. CASE n = 0
  <2>1. d = << >>
    <3> HIDE DEF d
    <3> QED
      BY <1>2, <1>4
  <2>2. ~(Octets(d) > 0)
    BY <1>3, <2>1
  <2> QED
    BY <1>1, <1>4, <2>2 DEF MakeSecondaryHeaders
<1>5. CASE n # 0
  <2>1. n \in 1..n /\ n + 1 - Lead(f) = p /\ n \in Nat
    BY <1>1, <1>5
  <2>2. d[n] = Unpacked(SentChunk(f, p), b)
    BY <1>2, <2>1
  <2>3. SentChunk(f, p) \in Chunk /\ SentChunk(f, p).len > 0
    <3>1. Meta[f].lens[p] > 0
      <4>1. CASE p = 1
        BY <1>1, <1>5, <4>1
      <4>2. CASE p # 1
        <5>1. p \in 2..Parts(f)
          BY <1>1, <4>2
        <5> QED
          BY <5>1, MetaFacts
      <4> QED
        BY <4>1, <4>2
    <3> QED
      BY <3>1, SentChunkType DEF SentChunk
  <2>4. d[n].len > 0 /\ d[n].len \in Nat
    <3>1. Unpacked(SentChunk(f, p), b) \in Chunk /\ Unpacked(SentChunk(f, p), b).len > 0
      BY <2>3, UnpackedType
    <3> QED
      BY <2>2, <3>1 DEF Chunk
  <2>5. d # << >> /\ Len(d) = n
    <3> HIDE DEF d
    <3> QED
      BY <1>2, <2>1, <1>5
  <2>6. Octets(d) > 0
    <3> HIDE DEF d, n
    <3> QED
      BY <1>3, <2>4, <2>5
  <2> QED
    BY <1>1, <1>5, <2>6 DEF MakeSecondaryHeaders
<1> QED
  BY <1>4, <1>5

(* Unpacking the pieces that came packed. *)
LEMMA PiecesUnpacked ==
    ASSUME NEW f \in Sent, NEW p \in 1..Parts(f)
    PROVE  [i \in DOMAIN Pieces(f, p, FALSE) |-> Unpacked(Pieces(f, p, FALSE)[i], TRUE)]
              = Pieces(f, p, TRUE)
<1>1. \A c : Unpacked(Unpacked(c, FALSE), TRUE) = Unpacked(c, TRUE)
  BY DEF Unpacked
<1> DEFINE n == p - 1 + Lead(f)
<1>2. /\ Pieces(f, p, FALSE) = [i \in 1..n |-> Unpacked(SentChunk(f, i + 1 - Lead(f)), FALSE)]
      /\ Pieces(f, p, TRUE) = [i \in 1..n |-> Unpacked(SentChunk(f, i + 1 - Lead(f)), TRUE)]
  BY PiecesAre
<1> HIDE DEF n
<1>3. DOMAIN Pieces(f, p, FALSE) = 1..n
  BY <1>2
<1>4. \A i \in 1..n : Unpacked(Pieces(f, p, FALSE)[i], TRUE)
                       = Unpacked(SentChunk(f, i + 1 - Lead(f)), TRUE)
  BY <1>1, <1>2
<1> QED
  BY <1>2, <1>3, <1>4

(* What is not packed stays as it is. *)
LEMMA PlainPieces ==
    ASSUME NEW f \in Sent, ~Meta[f].packed, NEW p \in 1..Parts(f)
    PROVE  /\ \A i, b : Unpacked(SentChunk(f, i), b) = SentChunk(f, i)
           /\ Pieces(f, p, TRUE) = Pieces(f, p, FALSE)
<1>1. \A i, b : Unpacked(SentChunk(f, i), b) = SentChunk(f, i)
  BY DEF Unpacked, SentChunk
<1> QED
  BY <1>1 DEF Pieces

-----------------------------------------------------------------------------
(* A stream. *)

(* The places of a stream: what IsStream says of each. *)
LEMMA PlacesOf ==
    ASSUME NEW S, S \in Seq(Nat \X Nat), IsStream(S), NEW k \in 1..Len(S)
    PROVE  /\ Len(S) \in Nat /\ DOMAIN S = 1..Len(S) /\ k \in DOMAIN S
           /\ S[k][1] \in Sent /\ S[k][2] \in 1..Parts(S[k][1]) /\ S[k] = <<S[k][1], S[k][2]>>
           /\ S[k][1] \in Nat /\ S[k][2] \in Nat
           /\ \/ \E j \in 1..k-1 :
                    /\ Meta[S[j][1]].apid = Meta[S[k][1]].apid
                    /\ \A i \in 1..k-1 : Meta[S[i][1]].apid = Meta[S[k][1]].apid => i <= j
                    /\ S[k] = <<S[j][1], S[j][2] + 1>>
                    /\ S[k][1] = S[j][1] /\ S[k][2] = S[j][2] + 1
              \/ /\ S[k][2] = 1
                 /\ \A j \in 1..k-1 :
                       Meta[S[j][1]].apid = Meta[S[k][1]].apid => S[j][1] < S[k][1]
<1>1. Len(S) \in Nat /\ DOMAIN S = 1..Len(S) /\ k \in DOMAIN S /\ S[k] \in Nat \X Nat
  OBVIOUS
<1>2. S[k][1] \in Sent /\ S[k][2] \in 1..Parts(S[k][1])
  BY <1>1 DEF IsStream
<1>3. S[k] = <<S[k][1], S[k][2]>> /\ S[k][1] \in Nat /\ S[k][2] \in Nat
  BY <1>1
<1>4. Earlier(S, k) = {j \in 1..k-1 : Meta[S[j][1]].apid = Meta[S[k][1]].apid}
  BY DEF Earlier
<1>5. CASE \E j \in Earlier(S, k) : Latest(S, k, j) /\ S[k] = <<S[j][1], S[j][2] + 1>>
  <2>1. PICK j \in Earlier(S, k) : Latest(S, k, j) /\ S[k] = <<S[j][1], S[j][2] + 1>>
    BY <1>5
  <2>2. S[k][1] = S[j][1] /\ S[k][2] = S[j][2] + 1
    BY <2>1
  <2> QED
    BY <1>1, <1>2, <1>3, <1>4, <2>1, <2>2 DEF Latest
<1>6. CASE S[k][2] = 1 /\ \A j \in Earlier(S, k) : S[j][1] < S[k][1]
  BY <1>1, <1>2, <1>3, <1>4, <1>6
<1> QED
  BY <1>1, <1>5, <1>6 DEF IsStream

(* Of two SDUs of an APID, the later one is a later part or file. *)
LEMMA Ascends ==
    ASSUME NEW S, S \in Seq(Nat \X Nat), IsStream(S), NEW k \in 1..Len(S)
    PROVE  \A i \in 1..k-1 : Meta[S[i][1]].apid = Meta[S[k][1]].apid =>
              \/ S[i][1] < S[k][1]
              \/ S[i][1] = S[k][1] /\ S[i][2] < S[k][2]
<1> DEFINE file(n) == S[n][1]
           part(n) == S[n][2]
           Apid(n) == Meta[S[n][1]].apid
           N == Len(S)
<1>1. ASSUME NEW n \in 1..N
      PROVE  /\ N \in Nat /\ file(n) \in Nat /\ part(n) \in Nat
             /\ \/ \E j \in 1..n-1 :
                      /\ Apid(j) = Apid(n)
                      /\ \A i \in 1..n-1 : Apid(i) = Apid(n) => i <= j
                      /\ file(n) = file(j) /\ part(n) = part(j) + 1
                \/ \A j \in 1..n-1 : Apid(j) = Apid(n) => file(j) < file(n)
  BY PlacesOf
<1>2. N \in Nat /\ k \in 1..N
  OBVIOUS
<1> SUFFICES \A n \in 1..N : \A i \in 1..n-1 : Apid(i) = Apid(n) =>
                \/ file(i) < file(n)
                \/ file(i) = file(n) /\ part(i) < part(n)
  BY <1>2
<1> HIDE DEF file, part, Apid, N
<1> DEFINE Less(i, n) == \/ file(i) < file(n)
                         \/ file(i) = file(n) /\ part(i) < part(n)
<1> DEFINE Wrong == {n \in 1..N : \E i \in 1..n-1 : Apid(i) = Apid(n) /\ ~Less(i, n)}
<1> SUFFICES ASSUME Wrong # {} PROVE FALSE
  OBVIOUS
<1>3. PICK n \in Wrong : \A m \in Wrong : n <= m
  <2>1. Wrong \subseteq Nat
    OBVIOUS
  <2> HIDE DEF Wrong
  <2> QED
    BY <2>1, LeastOf
<1>4. n \in 1..N /\ n \in Nat
  BY <1>2
<1>5. PICK i \in 1..n-1 : Apid(i) = Apid(n) /\ ~Less(i, n)
  BY <1>3
<1>6. PICK j \in 1..n-1 :
         /\ Apid(j) = Apid(n)
         /\ \A m \in 1..n-1 : Apid(m) = Apid(n) => m <= j
         /\ file(n) = file(j) /\ part(n) = part(j) + 1
  BY <1>1, <1>4, <1>5
<1>7. i \in 1..N /\ j \in 1..N /\ j < n /\ i <= j
  BY <1>2, <1>4, <1>5, <1>6
<1>8. file(i) \in Nat /\ part(i) \in Nat /\ file(j) \in Nat /\ part(j) \in Nat
  BY <1>1, <1>7
<1>9. i # j
  BY <1>5, <1>6, <1>8
<1>10. i \in 1..j-1
  BY <1>4, <1>5, <1>7, <1>9
<1>11. Less(i, j)
  <2>1. j \notin Wrong
    <3> HIDE DEF Wrong
    <3> QED
      BY <1>3, <1>4, <1>7
  <2> QED
    BY <1>5, <1>6, <1>7, <1>10, <2>1
<1> QED
  BY <1>5, <1>6, <1>8, <1>11

(* An SDU is sent once. *)
LEMMA SentOnce ==
    ASSUME NEW S, S \in Seq(Nat \X Nat), IsStream(S),
           NEW j \in 1..Len(S), NEW k \in 1..Len(S), S[j] = S[k]
    PROVE  j = k
<1> DEFINE N == Len(S)
           file(n) == S[n][1]
           part(n) == S[n][2]
<1>1. /\ N \in Nat /\ j \in 1..N /\ k \in 1..N
      /\ file(j) = file(k) /\ part(j) = part(k) /\ file(k) \in Nat /\ part(k) \in Nat
  BY PlacesOf
<1>2. \A m \in 1..N, n \in 1..N :
         file(m) = file(n) /\ m \in 1..n-1 => file(m) < file(n) \/ part(m) < part(n)
  BY Ascends
<1> HIDE DEF N, file, part
<1>3. j \in 1..k-1 \/ k \in 1..j-1 \/ j = k
  BY <1>1
<1>4. ~(file(k) < file(k)) /\ ~(part(k) < part(k))
  BY <1>1
<1>5. j \notin 1..k-1
  BY <1>1, <1>2, <1>4
<1>6. k \notin 1..j-1
  BY <1>1, <1>2, <1>4
<1> QED
  BY <1>3, <1>5, <1>6
=============================================================================
