------------------------- MODULE FileDeliveryProofs -------------------------
(***************************************************************************)
(* FilePath implements FileDelivery: what the application gets was sent,   *)
(* each file at most once and an APID's files in order; and unless it      *)
(* shares its buffer with others, a text is whole and an image of its      *)
(* size, its rows in order and filler only for rows that are missing.      *)
(***************************************************************************)
EXTENDS FilePathProofs

-----------------------------------------------------------------------------
(* The octets of growing data.                                              *)

(* More parts of a file have more octets. *)
LEMMA OctetsAscend ==
    ASSUME NEW f \in Sent, NEW p \in 1..Parts(f), NEW q \in 1..Parts(f), p < q, NEW b \in BOOLEAN
    PROVE  Octets(Pieces(f, p, b)) < Octets(Pieces(f, q, b))
<1> DEFINE o == [r \in 1..Parts(f) |-> Octets(Pieces(f, r, b))]
<1>1. Parts(f) \in Nat /\ \A r \in 1..Parts(f) : o[r] \in Nat
  BY MetaFacts, PiecesAre, OctetsFacts
<1>2. ASSUME NEW r \in 1..Parts(f), r + 1 \in 1..Parts(f)
      PROVE  o[r] < o[r + 1]
  <2> DEFINE c == Unpacked(SentChunk(f, r + 1), b)
  <2>1. c \in Chunk /\ c.len > 0 /\ c.len \in Nat /\ NonEmpty(c) = <<c>>
    <3>1. r + 1 \in 2..Parts(f)
      BY <1>1, <1>2
    <3>2. SentChunk(f, r + 1) \in Chunk /\ SentChunk(f, r + 1).len > 0
      BY <1>2, <3>1, MetaFacts, SentChunkType DEF SentChunk
    <3>3. c \in Chunk /\ c.len > 0
      BY <3>2, UnpackedType
    <3> QED
      BY <3>3 DEF NonEmpty, Chunk
  <2> HIDE DEF c
  <2>2. Pieces(f, r, b) \in Seq(Chunk)
    BY PiecesAre
  <2>3. Octets(Pieces(f, r, b) \o <<c>>) = Octets(Pieces(f, r, b)) + c.len
    BY <2>1, <2>2, OctetsGrow
  <2>4. Pieces(f, r + 1, b) = Pieces(f, r, b) \o <<c>>
    BY <1>2, <2>1, PiecesGrow DEF c
  <2>5. o[r + 1] = o[r] + c.len
    BY <1>2, <2>3, <2>4
  <2> HIDE DEF o
  <2> QED
    BY <1>1, <2>1, <2>5
<1>3. o[p] < o[q] <=> Octets(Pieces(f, p, b)) < Octets(Pieces(f, q, b))
  OBVIOUS
<1> HIDE DEF o
<1> SUFFICES ASSUME ~(o[p] < o[q]) PROVE FALSE
  BY <1>3
<1> DEFINE Bad == {r \in 1..Parts(f) : p < r /\ ~(o[p] < o[r])}
<1>4. Bad \subseteq Nat /\ Bad # {}
  OBVIOUS
<1>5. PICK r \in Bad : \A y \in Bad : r <= y
  BY <1>4, LeastOf
<1>6. r \in 1..Parts(f) /\ p < r /\ ~(o[p] < o[r]) /\ r \in Nat /\ p \in Nat /\ p >= 1
  OBVIOUS
<1>7. r - 1 \in 1..Parts(f) /\ (r - 1) + 1 = r /\ ~(r <= r - 1)
  <2> HIDE DEF Bad
  <2> QED
    BY <1>1, <1>6
<1>8. o[r - 1] < o[r]
  BY <1>2, <1>7
<1>9. CASE r - 1 = p
  BY <1>6, <1>8, <1>9
<1>10. CASE r - 1 # p
  <2>1. p < r - 1 /\ r - 1 \notin Bad
    BY <1>5, <1>6, <1>7, <1>10
  <2>2. o[p] < o[r - 1]
    BY <1>7, <2>1
  <2> QED
    BY <1>1, <1>6, <1>7, <1>8, <2>2
<1> QED
  BY <1>9, <1>10
-----------------------------------------------------------------------------
(***************************************************************************)
(* The promise holds if first SDUs get through, nothing is damaged, no row *)
(* is left packed,                                                         *)
(***************************************************************************)
Benign ==
    /\ \A e \in Losable : e[2] > 1
    /\ MaxBad = 0 /\ DecodeFails = FALSE
    /\ \A f \in Sent : Meta[f].packed /\ Meta[f].flagged => Meta[f].lens[1] = 0

(* and no batch straddles a wrap of the counter. *)
Unwrapped ==
    \A j, k \in Waiting : ApidAt[j] = ApidAt[k] /\ j < k => CtrAt[j] < CtrAt[k]

(* The SDUs to come, in this frame or later. *)
Undone == Places \ Done

NothingBad == bads = 0 /\ \A a \in Apids : \A s \in APIDs[a] : s.file # Nil

(* First SDUs come up in order. *)
FirstInOrder ==
    \A m \in Done, w \in Waiting : stream[m][2] = 1 /\ ApidAt[m] = ApidAt[w] => m < w

(* While parts of a file are to come, its APID has it open, or nothing. *)
OpenIs ==
    \A k \in Undone, m \in Done : stream[m] = <<stream[k][1], 1>> =>
        Files[ApidAt[k]] = Nil \/ Files[ApidAt[k]].file = stream[k][1]

(* f consists of some of its first p parts, in order, with filler only for  *)
(* others of them; a text that lacks one of them lacks its octets.          *)
PartOf(c, f, p) ==
    \E q \in 1..p : c = Unpacked(SentChunk(f.file, q), f.ready) /\ Meta[f.file].lens[q] > 0
Rows(d) == {i \in DOMAIN d : d[i].kind # "fill"}
GrownTo(f, p) ==
    /\ \A i \in Rows(f.data) :
          PartOf(f.data[i], f, p) /\ Len(f.data) - i <= p - f.data[i].part
    /\ \A i, j \in Rows(f.data) : i < j => j - i <= f.data[j].part - f.data[i].part
    /\ ~Meta[f.file].image =>
          \/ f.data = Pieces(f.file, p, TRUE)
          \/ Octets(f.data) < Octets(Pieces(f.file, p, TRUE))

(* So does every file that is open, up to a part ahead of those to come,    *)
(* unless it is exposed.                                                    *)
Grown ==
    \A a \in Apids : Files[a] # Nil =>
        /\ Meta[Files[a].file].apid = a
        /\ Files[a].file \notin exposed =>
              \E p \in 1..Parts(Files[a].file) :
                  /\ GrownTo(Files[a], p)
                  /\ \A w \in Undone : stream[w][1] = Files[a].file => p < stream[w][2]

(* A file that has grown by the SDU at place k. *)
With(g, k) ==
    /\ g \in FileType /\ g.file = stream[k][1]
    /\ g.file \notin exposed => GrownTo(g, stream[k][2])

(* The counter that is remembered is that of an SDU of the batch at hand,   *)
(* ahead of those that wait; what is open has grown by that SDU.            *)
Remembered ==
    /\ \A a \in Apids : cur # a => lastAppliedSDU[a] = Nil
    /\ \A a \in Apids : lastAppliedSDU[a] # Nil =>
          \E k \in Done :
              /\ ApidAt[k] = a /\ lastAppliedSDU[a] = CtrAt[k]
              /\ \A w \in Waiting : ApidAt[w] = a => k < w /\ CtrAt[k] < CtrAt[w]
              /\ Files[a] # Nil => With(Files[a], k)

(* What is on its way lies ahead of what is to come, *)
AheadOfRest ==
    \A g \in OnTheWay, w \in Undone : ApidAt[w] = Meta[g.file].apid => g.file < stream[w][1]

(* is in order, *)
InOrder(q) == \A i, j \in DOMAIN q : i < j => Promise!Follows(q[i], q[j])
Ahead(G, H) == \A g \in G, h \in H : Promise!Follows(g, h)
LineInv ==
    /\ InOrder(LRITOutput) /\ InOrder(TransportOutput)
    /\ Ahead(ToSet(received), ToSet(LRITOutput) \cup ({lf} \ {Nil}) \cup ToSet(TransportOutput))
    /\ Ahead(ToSet(LRITOutput), ({lf} \ {Nil}) \cup ToSet(TransportOutput))
    /\ Ahead({lf} \ {Nil}, ToSet(TransportOutput))

(* and is acceptable, or exposed, or will be found not to be valid. *)
Fine(g) == g.file \in exposed \/ Promise!Acceptable(g)
GoodInv ==
    /\ \A g \in ToSet(TransportOutput) : Layer!IsValid(g) => Fine(g)
    /\ \A g \in ({lf} \ {Nil}) \cup ToSet(LRITOutput) : Fine(g)

ArrivalInv == NothingBad /\ FirstInOrder /\ Remembered
PromiseInv == ArrivalInv /\ OpenIs /\ Grown /\ AheadOfRest /\ LineInv /\ GoodInv
-----------------------------------------------------------------------------
(* What the session layer and the promise say of a file is what FilePath    *)
(* says.                                                                    *)
LEMMA SameOperators ==
    /\ \A d : Layer!Octets(d) = Octets(d) /\ Promise!Octets(d) = Octets(d)
    /\ \A f \in Sent : /\ Promise!Original[f] = Original[f]
                       /\ Layer!DataLength[f] = DataLength[f]
                       /\ Promise!DataLength[f] = DataLength[f]
<1>1. \A f \in Sent : Layer!Original[f] = Original[f] /\ Promise!Original[f] = Original[f]
  BY LayerSame
<1>2. ASSUME NEW d PROVE Layer!Octets(d) = Octets(d)
  BY Zenon DEF Layer!Octets, Octets, FoldLeft, MapThenFoldSet, Layer!FoldLeft, Layer!MapThenFoldSet,
     Max, Layer!Max
<1>3. ASSUME NEW d PROVE Promise!Octets(d) = Octets(d)
  BY Zenon DEF Promise!Octets, Octets, FoldLeft, MapThenFoldSet, Promise!FoldLeft, Promise!MapThenFoldSet,
     Max, Promise!Max
<1>4. Layer!DataLength = [f \in Layer!Sent |-> Layer!Octets(Layer!Original[f])]
  BY Zenon DEF Layer!DataLength
<1>5. Promise!DataLength = [f \in Promise!Sent |-> Promise!Octets(Promise!Original[f])]
  BY Zenon DEF Promise!DataLength
<1>6. Layer!Sent = Sent /\ Promise!Sent = Sent
  BY DEF Layer!Sent, Promise!Sent, Sent
<1>7. \A f \in Sent : /\ Layer!DataLength[f] = Octets(Original[f])
                      /\ Promise!DataLength[f] = Octets(Original[f])
  BY <1>1, <1>2, <1>3, <1>4, <1>5, <1>6, Zenon
<1> QED
  BY <1>1, <1>2, <1>3, <1>7 DEF DataLength

-----------------------------------------------------------------------------
(* A file as it grows.                                                      *)

(* The chunk that a part leaves in a file. *)
LEMMA ChunkOf ==
    ASSUME NEW f \in Sent, NEW q \in 1..Parts(f), NEW b
    PROVE  /\ Unpacked(SentChunk(f, q), b) \in Chunk
           /\ Unpacked(SentChunk(f, q), b).part = q
           /\ Unpacked(SentChunk(f, q), b).kind # "fill"
           /\ Unpacked(SentChunk(f, q), b).len > 0 <=> Meta[f].lens[q] > 0
<1>1. SentChunk(f, q) \in Chunk
  BY SentChunkType
<1>2. SentChunk(f, q).part = q /\ SentChunk(f, q).len = Meta[f].lens[q]
      /\ SentChunk(f, q).kind \in {"plain", "packed"}
  BY DEF SentChunk
<1>3. Unpacked(SentChunk(f, q), b) \in Chunk
      /\ (Unpacked(SentChunk(f, q), b).len > 0 <=> Meta[f].lens[q] > 0)
  BY <1>1, <1>2, UnpackedType
<1>4. Row(SentChunk(f, q)).part = q /\ Row(SentChunk(f, q)).kind = "plain"
  BY DEF Row, SentChunk
<1> HIDE DEF Row, SentChunk
<1> QED
  BY <1>2, <1>3, <1>4 DEF Unpacked

(* A file that is opened consists of its first part. *)
LEMMA GrownOpen ==
    ASSUME NEW f \in Sent, Meta[f].packed /\ Meta[f].flagged => Meta[f].lens[1] = 0
    PROVE  GrownTo(OpenNew(f), 1) /\ OpenNew(f).file = f /\ OpenNew(f) \in FileType
<1> DEFINE g == OpenNew(f)
           c == SentChunk(f, 1)
<1>1. /\ 1 \in 1..Parts(f) /\ Meta[f].lens[1] \in Nat /\ Meta[f].flagged \in BOOLEAN
      /\ c \in Chunk /\ c.len = Meta[f].lens[1]
  BY MetaFacts, SentChunkType DEF SentChunk
<1>2. g.file = f /\ g \in FileType
  BY OpenNewType
<1>3. g.data = NonEmpty(c) /\ (g.ready => Meta[f].flagged)
  BY <1>1 DEF OpenNew
<1>4. Unpacked(c, g.ready) = c \/ Meta[f].lens[1] = 0
  BY <1>1, <1>3 DEF Unpacked, SentChunk
<1> HIDE DEF g, c
<1>5. \A i \in DOMAIN g.data : i = 1 /\ g.data[i] = c /\ Meta[f].lens[1] > 0
  BY <1>1, <1>3 DEF NonEmpty
<1>6. \A i \in Rows(g.data) : PartOf(g.data[i], g, 1) /\ Len(g.data) - i <= 1 - g.data[i].part
  <2> SUFFICES ASSUME NEW i \in DOMAIN g.data
               PROVE  PartOf(g.data[i], g, 1) /\ Len(g.data) - i <= 1 - g.data[i].part
    BY DEF Rows
  <2>1. 1 \in 1..1
    OBVIOUS
  <2>2. i = 1 /\ g.data[i] = c /\ Meta[f].lens[1] > 0 /\ Unpacked(c, g.ready) = c
    BY <1>1, <1>4, <1>5
  <2>3. PartOf(g.data[i], g, 1)
    BY <1>2, <2>1, <2>2 DEF PartOf, c
  <2>4. Len(g.data) = 1 /\ c.part = 1
    BY <1>1, <1>3, <2>2 DEF NonEmpty, c, SentChunk
  <2> QED
    BY <2>2, <2>3, <2>4
<1>7. ASSUME ~Meta[f].image PROVE g.data = Pieces(f, 1, TRUE)
  <2>1. ~Meta[f].packed
    BY <1>7, LritFileAssumption
  <2>2. Unpacked(c, TRUE) = c
    BY <2>1, PlainPieces, <1>1 DEF c
  <2>3. NonEmpty(c) \in Seq(Chunk)
    BY <1>1, NonEmptyType
  <2>4. [i \in 1..1-1 |-> Unpacked(SentChunk(f, i + 1), TRUE)] = << >>
    OBVIOUS
  <2>5. Pieces(f, 1, TRUE) = NonEmpty(c) \o << >>
    BY <2>2, <2>4 DEF Pieces, c
  <2>6. ASSUME NEW d \in Seq(Chunk) PROVE d \o << >> = d
    OBVIOUS
  <2> QED
    BY <1>3, <2>3, <2>5, <2>6
<1>8. \A i, j \in Rows(g.data) : ~(i < j)
  BY <1>5 DEF Rows
<1> QED
  BY <1>2, <1>6, <1>7, <1>8 DEF GrownTo, g

(* A file grows by the next part that comes, whatever is lost in between. *)
LEMMA GrownAppend ==
    ASSUME NEW f \in FileType, NEW p \in 1..Parts(f.file), NEW q \in 1..Parts(f.file), p < q,
           GrownTo(f, p)
    PROVE  GrownTo(AppendSDU(f, SentChunk(f.file, q), TRUE), q)
<1> DEFINE h == f.file
           c == SentChunk(h, q)
           ready == f.ready \/ MakeSecondaryHeaders(f.data)
           Joined(e) == IF ready /\ Meta[h].packed THEN Unpacked(e, TRUE) ELSE e
           old == IF f.ready THEN f.data ELSE [i \in DOMAIN f.data |-> Joined(f.data[i])]
           g == AppendSDU(f, c, TRUE)
           n == Len(f.data)
<1>1. h \in Sent /\ f.ready \in BOOLEAN /\ f.data \in Seq(Chunk) /\ n \in Nat /\ DOMAIN f.data = 1..n
  BY DEF FileType
<1>2. /\ p \in Nat /\ q \in Nat /\ p >= 1 /\ Parts(h) \in Nat /\ 1..p \subseteq 1..Parts(h)
      /\ 1..p \subseteq 1..q /\ q \in 1..q /\ Meta[h].lens[q] > 0
  <2>1. p \in Nat /\ q \in Nat /\ p >= 1 /\ Parts(h) \in Nat
    BY <1>1, MetaFacts
  <2>2. q \in 2..Parts(h)
    BY <2>1
  <2> QED
    BY <1>1, <2>1, <2>2, MetaFacts
<1>3. g = [f EXCEPT !.ready = ready, !.data = old \o NonEmpty(Joined(c))]
  BY DEF AppendSDU
<1>4. ready \in BOOLEAN /\ (f.ready => ready)
  BY <1>1 DEF MakeSecondaryHeaders
<1>5. \A e : Unpacked(Unpacked(e, FALSE), TRUE) = Unpacked(e, TRUE) /\ Unpacked(e, FALSE) = e
  BY DEF Unpacked
<1>6. ~Meta[h].packed => \A i, b : Unpacked(SentChunk(h, i), b) = SentChunk(h, i)
  BY DEF Unpacked, SentChunk
<1>7. ASSUME NEW r \in 1..Parts(h)
      PROVE  Joined(SentChunk(h, r)) = Unpacked(SentChunk(h, r), ready)
  BY <1>4, <1>5, <1>6
<1>8. ASSUME NEW r \in 1..Parts(h), ~f.ready
      PROVE  Joined(Unpacked(SentChunk(h, r), f.ready)) = Unpacked(SentChunk(h, r), ready)
  <2>1. Unpacked(SentChunk(h, r), f.ready) = SentChunk(h, r)
    BY <1>1, <1>5, <1>8
  <2> QED
    BY <1>7, <2>1
<1> HIDE DEF ready, Joined
<1>9. /\ old \in Seq(Chunk) /\ Len(old) = n
      /\ \A i \in 1..n : old[i] = IF f.ready THEN f.data[i] ELSE Joined(f.data[i])
  <2>1. \A i \in 1..n : f.data[i] \in Chunk /\ Joined(f.data[i]) \in Chunk
    <3>1. \A e \in Chunk : Joined(e) \in Chunk
      BY UnpackedType DEF Joined
    <3> QED
      BY <1>1, <3>1
  <2>2. CASE f.ready
    BY <1>1, <2>2
  <2>3. CASE ~f.ready
    <3>1. old = [i \in 1..n |-> Joined(f.data[i])]
      BY <1>1, <2>3
    <3>2. old \in [1..n -> Chunk]
      BY <2>1, <3>1
    <3> HIDE DEF old
    <3> QED
      BY <1>1, <2>3, <3>1, <3>2
  <2> QED
    BY <2>2, <2>3
<1>10. NonEmpty(Joined(c)) = <<Joined(c)>> /\ Joined(c) = Unpacked(c, ready) /\ Joined(c) \in Chunk
       /\ Joined(c).part = q
  <2>1. Joined(c) = Unpacked(c, ready)
    BY <1>7
  <2>2. Unpacked(c, ready).len > 0 /\ Unpacked(c, ready) \in Chunk /\ Unpacked(c, ready).part = q
    BY <1>1, <1>2, ChunkOf
  <2> QED
    BY <2>1, <2>2 DEF NonEmpty
<1> HIDE DEF old
<1>11. g.file = h /\ g.ready = ready /\ g.data = old \o <<Joined(c)>>
  BY <1>3, <1>10, <1>1 DEF FileType
<1> HIDE DEF g, c, n
<1>12. /\ DOMAIN g.data = 1..n+1 /\ g.data[n + 1] = Joined(c)
       /\ \A i \in 1..n : g.data[i] = old[i]
  BY <1>1, <1>9, <1>10, <1>11
<1>13. ASSUME NEW i \in 1..n, i \in Rows(g.data)
       PROVE  /\ i \in Rows(f.data) /\ g.data[i].part = f.data[i].part /\ f.data[i].part \in 1..p
              /\ \E r \in 1..p : g.data[i] = Unpacked(SentChunk(h, r), ready) /\ Meta[h].lens[r] > 0
  <2>1. i \in Rows(f.data)
    <3> SUFFICES ASSUME f.data[i].kind = "fill" PROVE FALSE
      BY <1>1 DEF Rows
    <3>1. Joined(f.data[i]) = f.data[i]
      BY DEF Joined, Unpacked
    <3>2. g.data[i] = f.data[i]
      BY <1>9, <1>12, <3>1
    <3> QED
      BY <1>13, <3>2 DEF Rows
  <2>2. PICK r \in 1..p : f.data[i] = Unpacked(SentChunk(h, r), f.ready) /\ Meta[h].lens[r] > 0
    BY <2>1 DEF GrownTo, PartOf
  <2>3. r \in 1..Parts(h)
    BY <1>2
  <2>4. g.data[i] = Unpacked(SentChunk(h, r), ready)
    <3>1. CASE f.ready
      BY <1>1, <1>4, <1>9, <1>12, <2>2, <3>1
    <3>2. CASE ~f.ready
      BY <1>8, <1>9, <1>12, <2>2, <2>3, <3>2
    <3> QED
      BY <3>1, <3>2
  <2>5. g.data[i].part = r /\ f.data[i].part = r
    BY <1>1, <2>2, <2>3, <2>4, ChunkOf
  <2> QED
    BY <2>1, <2>2, <2>4, <2>5
<1>14. \A i \in 1..n+1 : i \in 1..n \/ i = n + 1
  BY <1>1
<1>15. ASSUME NEW i \in Rows(g.data)
       PROVE  PartOf(g.data[i], g, q) /\ Len(g.data) - i <= q - g.data[i].part
  <2>1. i \in 1..n+1 /\ Len(g.data) = n + 1
    BY <1>1, <1>9, <1>10, <1>11, <1>12 DEF Rows
  <2>2. CASE i \in 1..n
    <3>1. PICK r \in 1..p : g.data[i] = Unpacked(SentChunk(h, r), ready) /\ Meta[h].lens[r] > 0
      BY <1>13, <2>2
    <3>2. r \in 1..q
      BY <1>2
    <3>3. PartOf(g.data[i], g, q)
      BY <1>11, <3>1, <3>2 DEF PartOf
    <3>4. /\ i \in Rows(f.data) /\ g.data[i].part = f.data[i].part /\ f.data[i].part \in 1..p
          /\ n - i <= p - f.data[i].part
      BY <1>13, <2>2 DEF GrownTo, n
    <3> QED
      BY <1>1, <1>2, <2>1, <2>2, <3>3, <3>4
  <2>3. CASE i = n + 1
    <3>1. PartOf(g.data[i], g, q)
      BY <1>2, <1>10, <1>11, <1>12, <2>3 DEF PartOf, c
    <3>2. g.data[i].part = q
      BY <1>10, <1>12, <2>3
    <3> QED
      BY <1>1, <1>2, <2>1, <2>3, <3>1, <3>2
  <2> QED
    BY <1>14, <2>1, <2>2, <2>3
<1>16. ASSUME NEW i \in Rows(g.data), NEW j \in Rows(g.data), i < j
       PROVE  j - i <= g.data[j].part - g.data[i].part
  <2>1. i \in 1..n+1 /\ j \in 1..n+1
    BY <1>12 DEF Rows
  <2>2. i \in 1..n
    BY <1>1, <1>16, <2>1
  <2>3. i \in Rows(f.data) /\ g.data[i].part = f.data[i].part /\ f.data[i].part \in 1..p
    BY <1>13, <2>2
  <2>4. CASE j \in 1..n
    <3>1. j \in Rows(f.data) /\ g.data[j].part = f.data[j].part
      BY <1>13, <2>4
    <3> QED
      BY <1>16, <2>3, <3>1 DEF GrownTo
  <2>5. CASE j = n + 1
    <3>1. n - i <= p - f.data[i].part
      BY <2>3 DEF GrownTo, n
    <3>2. g.data[j].part = q
      BY <1>10, <1>12, <2>5
    <3> QED
      BY <1>1, <1>2, <2>2, <2>3, <2>5, <3>1, <3>2
  <2> QED
    BY <1>14, <2>1, <2>4, <2>5
<1>17. ASSUME ~Meta[h].image
       PROVE  \/ g.data = Pieces(h, q, TRUE)
              \/ Octets(g.data) < Octets(Pieces(h, q, TRUE))
  <2>1. ~Meta[h].packed
    BY <1>1, <1>17, LritFileAssumption
  <2>2. Joined(c) = Unpacked(c, TRUE)
    BY <1>6, <1>10, <2>1 DEF c
  <2>3. old = f.data
    <3>1. \A i \in 1..n : old[i] = f.data[i]
      BY <1>9, <2>1 DEF Joined
    <3> QED
      BY <1>1, <1>9, <3>1 DEF n
  <2> DEFINE before == Pieces(h, q - 1, TRUE)
  <2>4. q - 1 \in 1..Parts(h) /\ (q - 1) + 1 = q
    BY <1>1, <1>2
  <2>5. Pieces(h, q, TRUE) = before \o <<Joined(c)>>
    <3> DEFINE r == q - 1
    <3>1. r \in 1..Parts(h) /\ r + 1 \in 1..Parts(h) /\ TRUE \in BOOLEAN /\ r + 1 = q
      BY <2>4
    <3> HIDE DEF r
    <3>2. Pieces(h, r, TRUE) \o NonEmpty(Unpacked(SentChunk(h, r + 1), TRUE)) = Pieces(h, r + 1, TRUE)
      BY <1>1, <3>1, PiecesGrow
    <3>3. Unpacked(SentChunk(h, r + 1), TRUE) = Joined(c)
      BY <2>2, <3>1 DEF c
    <3> QED
      BY <1>10, <3>1, <3>2, <3>3 DEF r
  <2>6. before \in Seq(Chunk) /\ Pieces(h, p, TRUE) \in Seq(Chunk)
    BY <1>1, <2>4, PiecesAre
  <2>7. Joined(c).len \in Nat
    BY <1>10 DEF Chunk
  <2>8. Octets(before) \in Nat /\ Octets(f.data) \in Nat /\ Octets(Pieces(h, p, TRUE)) \in Nat
    BY <1>1, <2>6, OctetsFacts
  <2>9. f.data = Pieces(h, p, TRUE) \/ Octets(f.data) < Octets(Pieces(h, p, TRUE))
    BY <1>17 DEF GrownTo
  <2>10. p = q - 1 \/ Octets(Pieces(h, p, TRUE)) < Octets(before)
    <3>1. p = q - 1 \/ p < q - 1
      BY <1>2
    <3> QED
      BY <1>1, <2>4, <3>1, OctetsAscend
  <2>11. f.data = before \/ Octets(f.data) < Octets(before)
    <3> HIDE DEF before
    <3>1. p = q - 1 => before = Pieces(h, p, TRUE)
      BY DEF before
    <3>2. CASE p = q - 1
      BY <2>9, <3>1, <3>2
    <3>3. CASE Octets(Pieces(h, p, TRUE)) < Octets(before)
      <4>1. CASE f.data = Pieces(h, p, TRUE)
        BY <3>3, <4>1
      <4>2. CASE Octets(f.data) < Octets(Pieces(h, p, TRUE))
        <5>1. \A x, y, z \in Nat : x < y /\ y < z => x < z
          OBVIOUS
        <5> QED
          BY <2>8, <3>3, <4>2, <5>1
      <4> QED
        BY <2>9, <4>1, <4>2
    <3> QED
      BY <2>10, <3>2, <3>3
  <2>12. /\ Octets(Pieces(h, q, TRUE)) = Octets(before) + Joined(c).len
         /\ Octets(g.data) = Octets(f.data) + Joined(c).len
    <3> HIDE DEF before
    <3>1. Octets(before \o <<Joined(c)>>) = Octets(before) + Joined(c).len
      BY <1>10, <2>6, OctetsGrow
    <3>2. Octets(f.data \o <<Joined(c)>>) = Octets(f.data) + Joined(c).len
      BY <1>1, <1>10, OctetsGrow
    <3> QED
      BY <1>11, <2>3, <2>5, <3>1, <3>2
  <2> HIDE DEF before
  <2>13. CASE f.data = before
    BY <1>11, <2>3, <2>5, <2>13
  <2>14. CASE Octets(f.data) < Octets(before)
    <3>1. \A x, y, z \in Nat : x < y => x + z < y + z
      OBVIOUS
    <3> QED
      BY <2>7, <2>8, <2>12, <2>14, <3>1
  <2> QED
    BY <2>11, <2>13, <2>14
<1> QED
  BY <1>11, <1>12, <1>15, <1>16, <1>17 DEF GrownTo, g, c

(* Filler for parts that did not come lets an image grow as far as those.  *)
LEMMA GrownFill ==
    ASSUME NEW f \in FileType, NEW p \in 1..Parts(f.file), NEW q \in 1..Parts(f.file),
           NEW m \in Nat, p + m <= q, GrownTo(f, p), Meta[f.file].image
    PROVE  GrownTo(Fill(f, m), q)
<1> DEFINE g == Fill(f, m)
           filler == [i \in 1..m |-> FillRow(f)]
           n == Len(f.data)
<1>1. /\ f.file \in Sent /\ f.data \in Seq(Chunk) /\ n \in Nat /\ DOMAIN f.data = 1..n
      /\ Parts(f.file) \in Nat
  BY MetaFacts DEF FileType
<1>2. p \in Nat /\ q \in Nat /\ 1..p \subseteq 1..q
  BY <1>1
<1>3. FillRow(f) \in Chunk /\ FillRow(f).kind = "fill"
  BY <1>1, LritFileAssumption DEF FillRow, Chunk
<1>4. filler \in Seq(Chunk) /\ Len(filler) = m /\ \A i \in 1..m : filler[i].kind = "fill"
  <2>1. filler \in [1..m -> Chunk] /\ \A i \in 1..m : filler[i].kind = "fill"
    BY <1>3
  <2> HIDE DEF filler
  <2> QED
    BY <2>1
<1>5. g.file = f.file /\ g.ready = f.ready /\ g.data = f.data \o filler
  BY DEF Fill, FileType
<1> HIDE DEF g, filler, n
<1>6. /\ Len(g.data) = n + m /\ DOMAIN g.data = 1..n+m
      /\ \A i \in 1..n : g.data[i] = f.data[i]
      /\ \A i \in n+1..n+m : i - n \in 1..m /\ g.data[i] = filler[i - n]
  <2>1. \A a, b \in Seq(Chunk) :
           /\ Len(a \o b) = Len(a) + Len(b) /\ DOMAIN (a \o b) = 1..Len(a)+Len(b)
           /\ \A i \in 1..Len(a) : (a \o b)[i] = a[i]
           /\ \A i \in Len(a)+1..Len(a)+Len(b) :
                 i - Len(a) \in 1..Len(b) /\ (a \o b)[i] = b[i - Len(a)]
    OBVIOUS
  <2>2. Len(f.data) = n /\ f.data \in Seq(Chunk)
    BY <1>1 DEF n
  <2> DEFINE d == f.data
  <2>3. d \in Seq(Chunk) /\ Len(d) = n /\ g.data = d \o filler
    BY <1>5, <2>2
  <2> HIDE DEF d
  <2>4. /\ Len(d \o filler) = Len(d) + Len(filler) /\ DOMAIN (d \o filler) = 1..Len(d)+Len(filler)
        /\ \A i \in 1..Len(d) : (d \o filler)[i] = d[i]
        /\ \A i \in Len(d)+1..Len(d)+Len(filler) :
              i - Len(d) \in 1..Len(filler) /\ (d \o filler)[i] = filler[i - Len(d)]
    BY <1>4, <2>1, <2>3, Zenon
  <2> QED
    BY <1>4, <2>3, <2>4 DEF d
<1>7. ASSUME NEW i \in Rows(g.data)
      PROVE  /\ i \in Rows(f.data) /\ i \in 1..n /\ g.data[i] = f.data[i]
             /\ \E r \in 1..p : f.data[i] = Unpacked(SentChunk(f.file, r), f.ready)
                               /\ Meta[f.file].lens[r] > 0 /\ f.data[i].part = r
  <2>1. i \in 1..n+m /\ g.data[i].kind # "fill"
    BY <1>6 DEF Rows
  <2>2. i \in 1..n
    <3>1. i \notin n+1..n+m
      BY <1>4, <1>6, <2>1
    <3> QED
      BY <1>1, <2>1, <3>1
  <2>3. i \in Rows(f.data) /\ g.data[i] = f.data[i]
    BY <1>1, <1>6, <2>1, <2>2 DEF Rows
  <2>4. PICK r \in 1..p : f.data[i] = Unpacked(SentChunk(f.file, r), f.ready)
                         /\ Meta[f.file].lens[r] > 0
    BY <2>3 DEF GrownTo, PartOf
  <2>5. r \in 1..Parts(f.file)
    BY <1>1, <1>2
  <2> QED
    BY <1>1, <2>2, <2>3, <2>4, <2>5, ChunkOf
<1>8. ASSUME NEW i \in Rows(g.data)
      PROVE  PartOf(g.data[i], g, q) /\ Len(g.data) - i <= q - g.data[i].part
  <2>1. PICK r \in 1..p : /\ f.data[i] = Unpacked(SentChunk(f.file, r), f.ready)
                          /\ Meta[f.file].lens[r] > 0 /\ f.data[i].part = r
    BY <1>7
  <2>2. PartOf(g.data[i], g, q)
    <3>1. r \in 1..q
      BY <1>2
    <3>2. g.data[i] = f.data[i]
      BY <1>7
    <3>3. g.data[i] = Unpacked(SentChunk(g.file, r), g.ready) /\ Meta[g.file].lens[r] > 0
      BY <1>5, <2>1, <3>2
    <3> QED
      BY <3>1, <3>3 DEF PartOf
  <2>3. n - i <= p - f.data[i].part
    BY <1>7 DEF GrownTo, n
  <2>4. i \in 1..n /\ g.data[i] = f.data[i]
    BY <1>7
  <2>5. f.data[i].part \in Nat
    BY <1>2, <2>1
  <2>6. Len(g.data) - i <= q - f.data[i].part
    BY <1>1, <1>2, <1>6, <2>3, <2>4, <2>5
  <2> QED
    BY <2>2, <2>4, <2>6
<1>9. \A i, j \in Rows(g.data) : i < j => j - i <= g.data[j].part - g.data[i].part
  BY <1>7 DEF GrownTo
<1> QED
  BY <1>5, <1>8, <1>9 DEF GrownTo, g

(* What parts of a file there are, the original holds. *)
LEMMA InOriginal ==
    ASSUME NEW f \in Sent, NEW q \in 1..Parts(f), Meta[f].lens[q] > 0
    PROVE  \E i \in DOMAIN Original[f] : Original[f][i] = Unpacked(SentChunk(f, q), TRUE)
<1> DEFINE P == Parts(f)
           i == q - 1 + Lead(f)
<1>1. P \in Nat /\ P >= 1 /\ P \in 1..P /\ q \in Nat /\ q >= 1 /\ q <= P /\ Lead(f) \in {0, 1}
  BY MetaFacts DEF Lead
<1>2. q = 1 => Lead(f) = 1
  BY DEF Lead
<1>3. Original[f] = Pieces(f, P, TRUE)
  BY DEF Original, Pieces
<1>4. Pieces(f, P, TRUE) = [j \in 1..P-1+Lead(f) |-> Unpacked(SentChunk(f, j + 1 - Lead(f)), TRUE)]
  BY <1>1, PiecesAre
<1>5. i \in 1..P-1+Lead(f) /\ i + 1 - Lead(f) = q
  <2>1. CASE q = 1
    BY <1>1, <1>2, <2>1
  <2>2. CASE q > 1
    BY <1>1, <2>2
  <2> QED
    BY <1>1, <2>1, <2>2
<1> QED
  BY <1>3, <1>4, <1>5

(* A file that is closed behind its last part is acceptable if it has its  *)
(* length.                                                                 *)
LEMMA GrownClose ==
    ASSUME NEW f \in FileType, f.ready, GrownTo(f, Parts(f.file)), Layer!IsValid(Close(f))
    PROVE  Promise!Acceptable(Close(f))
<1> DEFINE h == f.file
           g == Close(f)
           n == Len(f.data)
<1>1. h \in Sent /\ f.data \in Seq(Chunk) /\ n \in Nat /\ DOMAIN f.data = 1..n /\ Meta[h].image \in BOOLEAN
  BY MetaFacts DEF FileType
<1>2. g.file = h /\ g \in FileType
  BY CloseType
<1>3. Octets(g.data) = DataLength[h] /\ Promise!Octets(g.data) = Promise!DataLength[h]
  BY <1>1, <1>2, SameOperators DEF Layer!IsValid
<1>4. CASE Meta[h].image
  <2>1. PICK m \in Nat : /\ Len(g.data) = n + m
                         /\ \A i \in 1..n : g.data[i] = f.data[i]
                         /\ \A i \in n+1..n+m : g.data[i].kind = "fill"
    <3>1. CASE g = f
      <4>1. 0 \in Nat /\ n + 0 = n /\ n+1..n+0 = {}
        BY <1>1
      <4> HIDE DEF g
      <4> QED
        BY <1>1, <3>1, <4>1
    <3>2. CASE g # f
      <4> DEFINE m == MissingRows(f)
                 filler == [i \in 1..m |-> FillRow(f)]
      <4>1. m \in Nat /\ g = Fill(f, m)
        BY <3>2, MissingType DEF Close
      <4> HIDE DEF m, g
      <4>2. g.data = f.data \o filler
        BY <4>1, <1>1 DEF Fill, FileType
      <4>3. FillRow(f) \in Chunk /\ FillRow(f).kind = "fill"
        BY <1>1, LritFileAssumption DEF FillRow, Chunk
      <4>4. filler \in Seq(Chunk) /\ Len(filler) = m /\ \A i \in 1..m : filler[i].kind = "fill"
        <5>1. filler \in [1..m -> Chunk] /\ \A i \in 1..m : filler[i].kind = "fill"
          BY <4>3
        <5> HIDE DEF filler
        <5> QED
          BY <4>1, <5>1
      <4> HIDE DEF filler
      <4>5. /\ Len(g.data) = n + m
            /\ \A i \in 1..n : g.data[i] = f.data[i]
            /\ \A i \in n+1..n+m : i - n \in 1..m /\ g.data[i] = filler[i - n]
        <5>1. \A a, b \in Seq(Chunk) :
                 /\ Len(a \o b) = Len(a) + Len(b)
                 /\ \A i \in 1..Len(a) : (a \o b)[i] = a[i]
                 /\ \A i \in Len(a)+1..Len(a)+Len(b) :
                       i - Len(a) \in 1..Len(b) /\ (a \o b)[i] = b[i - Len(a)]
          OBVIOUS
        <5> HIDE DEF n
        <5>2. Len(f.data) = n /\ n \in Nat /\ f.data \in Seq(Chunk)
          BY <1>1 DEF n
        <5>3. /\ Len(f.data \o filler) = n + m
              /\ \A i \in 1..n : (f.data \o filler)[i] = f.data[i]
              /\ \A i \in n+1..n+m : i - n \in 1..m /\ (f.data \o filler)[i] = filler[i - n]
          BY <4>4, <5>1, <5>2
        <5> QED
          BY <4>2, <5>3
      <4>6. \A i \in n+1..n+m : g.data[i].kind = "fill"
        BY <4>4, <4>5
      <4> HIDE DEF n
      <4> QED
        BY <4>1, <4>5, <4>6
    <3> QED
      BY <3>1, <3>2
  <2> HIDE DEF g
  <2>2. ASSUME NEW i \in 1..n, i \in Rows(f.data)
        PROVE  g.data[i] \in ToSet(Promise!Original[h])
    <3>1. PICK q \in 1..Parts(h) : f.data[i] = Unpacked(SentChunk(h, q), f.ready) /\ Meta[h].lens[q] > 0
      BY <1>1, <2>2 DEF GrownTo, PartOf
    <3>2. g.data[i] = Unpacked(SentChunk(h, q), TRUE)
      <4>1. \A c : Unpacked(c, f.ready) = Unpacked(c, TRUE)
        BY DEF Unpacked
      <4> QED
        BY <2>1, <3>1, <4>1
    <3>3. \E j \in DOMAIN Original[h] : Original[h][j] = g.data[i]
      BY <1>1, <3>1, <3>2, InOriginal
    <3>4. Promise!Original[h] = Original[h]
      BY <1>1, SameOperators
    <3> QED
      BY <3>3, <3>4 DEF ToSet
  <2>3. \A i \in Rows(g.data) : i \in 1..n /\ i \in Rows(f.data) /\ g.data[i] = f.data[i]
    <3>1. DOMAIN g.data = 1..n+m
      BY <1>1, <1>2, <2>1 DEF FileType
    <3> SUFFICES ASSUME NEW i \in 1..n+m, g.data[i].kind # "fill"
                 PROVE  i \in 1..n /\ i \in Rows(f.data) /\ g.data[i] = f.data[i]
      BY <3>1 DEF Rows
    <3>2. i \in 1..n
      <4>1. i \notin n+1..n+m
        BY <2>1
      <4> QED
        BY <1>1, <4>1
    <3> QED
      BY <1>1, <2>1, <3>2 DEF Rows
  <2>4. \A i, j \in Rows(g.data) : i < j => j - i <= g.data[j].part - g.data[i].part
    BY <2>3 DEF GrownTo
  <2>5. Promise!RowsInOrder(g)
    <3>1. \A i \in Rows(g.data) : g.data[i] \in ToSet(Promise!Original[g.file])
      BY <1>2, <2>2, <2>3
    <3> HIDE DEF n
    <3> QED
      BY <2>4, <3>1, Zenon DEF Promise!RowsInOrder, Promise!ToSet, ToSet, Rows
  <2> QED
    BY <1>2, <1>3, <1>4, <2>5 DEF Promise!Acceptable, g
<1>5. CASE ~Meta[h].image
  <2>1. g = f
    BY <1>5 DEF Close, IsImageFile
  <2>2. Original[h] = Pieces(h, Parts(h), TRUE)
    BY <1>1 DEF Original, Pieces
  <2>3. f.data = Original[h] \/ Octets(f.data) < DataLength[h]
    BY <1>1, <1>5, <2>2 DEF GrownTo, DataLength
  <2>4. Octets(f.data) \in Nat /\ DataLength[h] \in Nat
    BY <1>1, OctetsFacts, OriginalType
  <2> HIDE DEF g
  <2>5. Octets(f.data) = DataLength[h]
    BY <1>3, <2>1
  <2>6. f.data = Original[h]
    BY <2>3, <2>4, <2>5
  <2>7. Promise!Whole(g)
    BY <1>1, <2>1, <2>6, SameOperators DEF Promise!Whole
  <2> QED
    BY <1>2, <1>5, <2>7 DEF Promise!Acceptable, g
<1> QED
  BY <1>1, <1>4, <1>5

-----------------------------------------------------------------------------
(* The SDU that comes up.                                                   *)

(* Every SDU has the first part of its file ahead of it. *)
LEMMA FirstPlace ==
    ASSUME stream \in Streams, NEW k \in Places
    PROVE  \E m \in Places : m <= k /\ ApidAt[m] = ApidAt[k] /\ stream[m] = <<stream[k][1], 1>>
<1>1. Places = 1..Len(stream) /\ Len(stream) \in Nat
  BY PlaceAt
<1> DEFINE Ones == {i \in Places : i <= k /\ ApidAt[i] = ApidAt[k] /\ stream[i][1] = stream[k][1]}
<1>2. Ones \subseteq Nat /\ k \in Ones
  BY <1>1
<1>3. PICK m \in Ones : \A y \in Ones : m <= y
  BY <1>2, LeastOf
<1>4. m \in Places /\ m <= k /\ ApidAt[m] = ApidAt[k] /\ stream[m][1] = stream[k][1] /\ m \in Nat /\ k \in Nat
  BY <1>1
<1>5. stream[m][2] = 1
  <2> SUFFICES ASSUME stream[m][2] # 1 PROVE FALSE
    OBVIOUS
  <2>1. PICK i \in Places : i < m /\ ApidAt[i] = ApidAt[m] /\ stream[i][1] = stream[m][1]
    BY <1>4, PartsAt
  <2>2. i \in Nat /\ i <= k
    BY <1>1, <1>4, <2>1
  <2>3. i \in Ones
    BY <1>4, <2>1, <2>2
  <2>4. m <= i
    BY <1>3, <2>3
  <2> QED
    BY <1>4, <2>1, <2>2, <2>4
<1>6. stream[m] = <<stream[m][1], stream[m][2]>>
  BY <1>1, <1>4, PlaceFacts
<1> QED
  BY <1>4, <1>5, <1>6

(* From part to part of a file the counter rises by one, or wraps. *)
LEMMA CountersRise ==
    ASSUME stream \in Streams, NEW i \in Places, NEW j \in Places, i < j, stream[i][1] = stream[j][1]
    PROVE  CtrAt[j] - CtrAt[i] <= stream[j][2] - stream[i][2]
<1>1. /\ Places = 1..Len(stream) /\ Len(stream) \in Nat /\ CtrMod \in Nat
      /\ \A r \in Places : stream[r][2] \in Nat /\ stream[r][2] >= 1
                         /\ CtrAt[r] \in Nat /\ CtrAt[r] < CtrMod
                         /\ ApidAt[r] = Meta[stream[r][1]].apid /\ ApidAt[r] = ApidOf(r)
  <2>1. /\ Places = 1..Len(stream) /\ Len(stream) \in Nat /\ CtrMod \in Nat /\ CtrMod > 0
        /\ \A r \in Places : ApidAt[r] = Meta[stream[r][1]].apid /\ ApidAt[r] = ApidOf(r)
    BY PlaceAt, AssemblerAssumption DEF ApidAt, ApidOf
  <2>2. \A r \in Places : stream[r][1] \in Sent /\ stream[r][2] \in 1..Parts(stream[r][1])
    BY PlaceAt
  <2>3. \A r \in Places : stream[r][2] \in Nat /\ stream[r][2] >= 1
    BY <2>2, MetaFacts
  <2>4. \A r \in Places : CtrAt[r] \in Nat /\ CtrAt[r] < CtrMod
    <3> SUFFICES ASSUME NEW r \in Places PROVE CtrAt[r] \in 0..CtrMod-1
      BY <2>1
    <3>1. GoodSDU(r) \in MSDU /\ GoodSDU(r).ctr = CtrAt[r]
      BY <2>1, PlaceFacts DEF GoodSDU, CtrAt
    <3> QED
      BY <3>1 DEF MSDU
  <2> QED
    BY <2>1, <2>3, <2>4
<1> DEFINE Rises(r) == CtrAt[r] - CtrAt[i] <= stream[r][2] - stream[i][2]
           Bad == {r \in Places : i < r /\ stream[r][1] = stream[i][1] /\ ~Rises(r)}
<1> SUFFICES ASSUME j \in Bad PROVE FALSE
  OBVIOUS
<1>2. Bad \subseteq Nat /\ Bad # {}
  <2>1. Bad \subseteq Places /\ Bad # {}
    OBVIOUS
  <2>2. Places \subseteq Nat
    BY <1>1
  <2> QED
    BY <2>1, <2>2
<1>3. PICK r \in Bad : \A y \in Bad : r <= y
  BY <1>2, LeastOf
<1>4. r \in Places /\ i < r /\ stream[r][1] = stream[i][1] /\ ~Rises(r) /\ ApidAt[i] = ApidAt[r]
  BY <1>1
<1>5. stream[r][2] # 1
  <2>1. r \in 1..Len(stream) /\ i \in 1..r-1 /\ ApidOf(i) = ApidOf(r)
    BY <1>1, <1>4
  <2>2. stream[i][1] < stream[r][1] \/ stream[i][2] < stream[r][2]
    BY <2>1, StreamAscends
  <2>3. stream[i][1] \in Nat
    BY PlaceAt, MetaFacts
  <2> QED
    BY <1>1, <1>4, <2>2, <2>3
<1>6. PICK h \in Places :
         /\ h < r /\ ApidAt[h] = ApidAt[r]
         /\ stream[h][1] = stream[r][1] /\ stream[r][2] = stream[h][2] + 1
         /\ stream[r] = <<stream[h][1], stream[h][2] + 1>>
         /\ CounterDiff(CtrMod, CtrAt[h], CtrAt[r]) = 1
  BY <1>4, <1>5, PartsAt
<1>7. i <= h
  <2>1. i <= h \/ r <= i
    BY <1>4, <1>6, PartsAt
  <2> QED
    BY <1>1, <1>4, <2>1
<1>8. CtrAt[r] <= CtrAt[h] + 1
  BY <1>1, <1>4, <1>6 DEF CounterDiff
<1>9. CtrAt[h] - CtrAt[i] <= stream[h][2] - stream[i][2]
  <2>1. CASE h = i
    BY <1>1, <2>1
  <2>2. CASE h # i
    <3>1. i < h
      BY <1>1, <1>7, <2>2
    <3>2. ~(r <= h)
      BY <1>1, <1>4, <1>6
    <3>3. h \notin Bad
      BY <1>3, <3>2
    <3> QED
      BY <1>4, <1>6, <3>1, <3>3
  <2> QED
    BY <2>1, <2>2
<1>10. CtrAt[r] - CtrAt[i] <= stream[r][2] - stream[i][2]
  <2>1. /\ CtrAt[i] \in Nat /\ CtrAt[h] \in Nat /\ CtrAt[r] \in Nat
        /\ stream[i][2] \in Nat /\ stream[h][2] \in Nat /\ stream[r][2] \in Nat
    BY <1>1, <1>4
  <2>2. \A a, b, c, x, y \in Nat : c <= b + 1 /\ b - a <= y - x => c - a <= (y + 1) - x
    OBVIOUS
  <2> QED
    BY <1>6, <1>8, <1>9, <2>1, <2>2
<1> QED
  BY <1>4, <1>10

(* What waits is to come. *)
LEMMA WaitingUndone ==
    ASSUME TypeOK
    PROVE  /\ Waiting \subseteq Undone /\ Undone \subseteq Places
           /\ Waiting \subseteq 1..pos /\ Done \subseteq Places
<1>1. stream \in Streams /\ pos \in 0..Len(stream)
  BY DEF TypeOK, AssemblerTypeOK
<1>2. 1..pos \subseteq Places
  BY <1>1, PlaceAt
<1> QED
  BY <1>2 DEF Undone, Done, Waiting

(* SDU k of the APID at hand comes up, ahead of all that are to come. *)
Due(s, k) ==
    /\ s = SduAt[k] /\ k \in Waiting /\ k \in Places /\ k \in Undone /\ ApidAt[k] = cur
    /\ \A w \in Undone : ApidAt[w] = cur => k <= w
    /\ Waiting' = Waiting \ {k} /\ Done' = Done \cup {k} /\ Undone' = Undone \ {k}
    /\ Places' = Places

(* The SDU that is applied is the first one that is due. *)
LEMMA IsDue ==
    ASSUME TypeOK, WaitingInv, NothingBad, Unwrapped, NEW s, Applies(s)
    PROVE  \E k \in Waiting : Due(s, k)
<1>1. /\ cur \in Apids /\ s \in APIDs[cur] /\ stream' = stream /\ pos' = pos
      /\ \A t \in APIDs[cur] : s.ctr <= t.ctr
  BY AppliesFacts DEF Applies
<1>2. stream \in Streams /\ pos \in 0..Len(stream)
  BY DEF TypeOK, AssemblerTypeOK
<1>3. Places = 1..Len(stream) /\ Len(stream) \in Nat /\ Waiting \subseteq 1..pos /\ 1..pos \subseteq Places
  BY <1>2, PlaceAt DEF Waiting
<1>4. PICK k \in Waiting : ApidAt[k] = cur /\ s = SduAt[k]
  BY <1>1 DEF WaitingInv, NothingBad
<1>5. k \in Places /\ k \in Undone /\ k <= pos
  BY <1>3 DEF Undone, Done
<1>6. ASSUME NEW w \in Waiting, ApidAt[w] = cur
      PROVE  k <= w
  <2> SUFFICES ASSUME w < k PROVE FALSE
    BY <1>3
  <2>1. CtrAt[w] < CtrAt[k]
    BY <1>4, <1>6 DEF Unwrapped
  <2>2. SduAt[w] \in APIDs[cur]
    BY <1>6 DEF Waiting
  <2>3. s.ctr <= SduAt[w].ctr
    BY <1>1, <2>2
  <2>4. s.ctr = CtrAt[k] /\ SduAt[w].ctr = CtrAt[w] /\ CtrAt[k] \in Nat /\ CtrAt[w] \in Nat
    BY <1>2, <1>3, <1>4, PlaceAt
  <2> QED
    BY <2>1, <2>3, <2>4
<1>7. ASSUME NEW w \in Undone, ApidAt[w] = cur
      PROVE  k <= w
  <2>1. w \in Places /\ (w \in Waiting \/ w \notin 1..pos)
    BY DEF Undone, Done
  <2>2. CASE w \in Waiting
    BY <1>6, <1>7, <2>2
  <2>3. CASE w \notin 1..pos
    BY <1>2, <1>3, <1>5, <2>1, <2>3
  <2> QED
    BY <2>1, <2>2, <2>3
<1>8. Waiting' = Waiting \ {k} /\ {j \in Waiting : SduAt[j] = s} = {k}
  <2>1. Waiting' = {j \in Waiting : SduAt[j] # s}
    BY StillWaiting
  <2>2. \A j \in Waiting : SduAt[j] = s => j = k
    BY <1>2, <1>3, <1>4, PlaceAt
  <2> QED
    BY <1>4, <2>1, <2>2
<1>9. Done' = Done \cup {k}
  BY <1>8, StillDone
<1>10. Places' = Places
  BY <1>1, StreamStays
<1>11. Undone' = Undone \ {k}
  BY <1>9, <1>10 DEF Undone
<1> QED
  BY <1>4, <1>5, <1>7, <1>8, <1>9, <1>10, <1>11 DEF Due

(* Behind it come later parts of its file, and later files. *)
LEMMA BehindDue ==
    ASSUME TypeOK, NEW s, NEW k, Due(s, k), NEW w \in Undone', ApidAt[w] = cur
    PROVE  /\ k < w
           /\ \/ stream[k][1] < stream[w][1]
              \/ stream[k][1] = stream[w][1] /\ stream[k][2] < stream[w][2]
<1>1. stream \in Streams
  BY DEF TypeOK, AssemblerTypeOK
<1>2. Places = 1..Len(stream) /\ Len(stream) \in Nat /\ k \in Places
  BY <1>1, PlaceAt DEF Due
<1>3. w \in Undone /\ w # k /\ w \in Places /\ k <= w /\ ApidAt[k] = cur
  BY DEF Due, Undone
<1>4. k < w /\ k \in 1..w-1 /\ w \in 1..Len(stream)
  BY <1>2, <1>3
<1>5. ApidOf(k) = ApidOf(w)
  BY <1>2, <1>3 DEF ApidAt
<1> QED
  BY <1>1, <1>4, <1>5, StreamAscends

(* What is open when a later part of a file is due is that file. *)
LEMMA OpenIsOwn ==
    ASSUME TypeOK, FirstInOrder, OpenIs, Grown, NEW s, NEW k, Due(s, k),
           stream[k][2] # 1, Files[cur] # Nil, cur \in Apids
    PROVE  /\ Files[cur] \in FileType /\ Files[cur].file = stream[k][1]
           /\ stream[k][1] \notin exposed =>
                 \E p \in 1..Parts(stream[k][1]) : p < stream[k][2] /\ GrownTo(Files[cur], p)
<1>1. stream \in Streams /\ pos \in 0..Len(stream) /\ Files \in [Apids -> FileType \cup {Nil}]
  BY DEF TypeOK, AssemblerTypeOK
<1>2. /\ Places = 1..Len(stream) /\ Len(stream) \in Nat /\ k \in Places /\ k \in Undone
      /\ k \in Waiting /\ Waiting \subseteq 1..pos /\ ApidAt[k] = cur
  BY <1>1, PlaceAt DEF Due, Waiting
<1>3. PICK m \in Places : m <= k /\ ApidAt[m] = ApidAt[k] /\ stream[m] = <<stream[k][1], 1>>
  BY <1>1, <1>2, FirstPlace
<1>4. m # k /\ m < k /\ m \in 1..pos
  BY <1>1, <1>2, <1>3
<1>5. m \in Done
  <2>1. m \notin Undone
    BY <1>2, <1>3, <1>4 DEF Due
  <2> QED
    BY <1>3, <2>1 DEF Undone
<1>6. Files[cur].file = stream[k][1]
  BY <1>2, <1>3, <1>5 DEF OpenIs
<1> QED
  BY <1>1, <1>2, <1>6 DEF Grown

(* So is what is left of it once the gap ahead of that part is dealt with.  *)
LEMMA FilledIsOwn ==
    ASSUME TypeOK, ArrivalInv, OpenIs, Grown, NEW s, NEW k, Due(s, k),
           stream[k][2] # 1, cur \in Apids, NEW g, g = processAnySkippedSDU(s), g # Nil
    PROVE  /\ g \in FileType /\ g.file = stream[k][1]
           /\ stream[k][1] \notin exposed =>
                 \E p \in 1..Parts(stream[k][1]) : p < stream[k][2] /\ GrownTo(g, p)
<1> DEFINE open == Files[cur]
           last == lastAppliedSDU[cur]
           m == Skipped(s)
           q == stream[k][2]
<1>1. stream \in Streams
  BY DEF TypeOK, AssemblerTypeOK
<1>2. k \in Places /\ k \in Waiting /\ ApidAt[k] = cur /\ s = SduAt[k]
  BY DEF Due
<1>3. /\ s.ctr = CtrAt[k] /\ stream[k][1] \in Sent /\ q \in 1..Parts(stream[k][1])
      /\ Parts(stream[k][1]) \in Nat /\ q \in Nat /\ Places = 1..Len(stream)
  BY <1>1, <1>2, PlaceAt, MetaFacts
<1>4. open # Nil
  BY DEF processAnySkippedSDU
<1>5. /\ open \in FileType /\ open.file = stream[k][1]
      /\ stream[k][1] \notin exposed =>
            \E p \in 1..Parts(stream[k][1]) : p < q /\ GrownTo(open, p)
  BY <1>4, OpenIsOwn DEF ArrivalInv
<1>6. CASE g = open
  BY <1>5, <1>6
<1>7. CASE g # open
  <2>1. last # Nil /\ g = Fill(open, m) /\ IsImageFile(open)
    BY <1>4, <1>7 DEF processAnySkippedSDU
  <2>2. PICK i \in Done :
           /\ ApidAt[i] = cur /\ last = CtrAt[i]
           /\ \A w \in Waiting : ApidAt[w] = cur => i < w /\ CtrAt[i] < CtrAt[w]
           /\ open # Nil => With(open, i)
    BY <2>1 DEF ArrivalInv, Remembered
  <2>3. i \in Places /\ i < k /\ CtrAt[i] < CtrAt[k] /\ stream[i][1] = stream[k][1]
    BY <1>2, <1>4, <1>5, <2>2, WaitingUndone DEF With
  <2>4. CtrAt[k] - CtrAt[i] <= q - stream[i][2]
    BY <1>1, <1>2, <2>3, CountersRise
  <2>5. /\ CtrAt[i] \in Nat /\ CtrAt[k] \in Nat /\ stream[i][2] \in 1..Parts(stream[k][1])
        /\ stream[i][2] \in Nat
    BY <1>1, <1>2, <1>3, <2>3, PlaceAt, MetaFacts
  <2>6. m \in Nat /\ m <= CtrAt[k] - CtrAt[i] - 1
    <3> DEFINE d == CounterDiff(CtrMod, last, s.ctr) - 1
    <3>2. CtrAt[i] < CtrMod /\ CtrAt[k] < CtrMod /\ CtrMod \in Nat
      <4>1. \A r \in Places : GoodSDU(r) \in MSDU /\ GoodSDU(r).ctr = CtrAt[r]
        BY <1>1, <1>3, PlaceFacts DEF GoodSDU, CtrAt
      <4>2. \A r \in Places : CtrAt[r] \in 0..CtrMod-1
        BY <4>1 DEF MSDU
      <4> QED
        BY <1>2, <2>3, <4>2, AssemblerAssumption
    <3>3. d = CtrAt[k] - CtrAt[i] - 1 /\ d \in Nat
      BY <1>3, <2>2, <2>3, <2>5, <3>2 DEF CounterDiff
    <3> HIDE DEF d
    <3>4. Word \in Nat /\ Word > 0
      BY <1>3, WordFacts
    <3>5. d % Word \in Nat /\ d % Word <= d
      BY <3>3, <3>4
    <3>6. m = d % Word
      BY DEF Skipped, d
    <3> QED
      BY <3>3, <3>5, <3>6
  <2> HIDE DEF m
  <2>7. g \in FileType /\ g.file = stream[k][1]
    BY <1>5, <2>1, <2>6, FillType
  <2>8. ASSUME stream[k][1] \notin exposed
        PROVE  q - 1 \in 1..Parts(stream[k][1]) /\ q - 1 < q /\ GrownTo(g, q - 1)
    <3>1. q - 1 \in 1..Parts(stream[k][1]) /\ q - 1 < q
      BY <1>3
    <3>2. GrownTo(open, stream[i][2])
      BY <1>4, <1>5, <2>2, <2>8 DEF With
    <3>3. stream[i][2] + m <= q - 1
      <4>1. \A a, b, x, y, z \in Nat : b - a <= y - x /\ z <= b - a - 1 => x + z <= y - 1
        OBVIOUS
      <4> HIDE DEF q
      <4> QED
        BY <1>3, <2>4, <2>5, <2>6, <4>1
    <3>4. Meta[open.file].image
      BY <2>1 DEF IsImageFile
    <3> HIDE DEF open, q
    <3>5. GrownTo(Fill(open, m), q - 1)
      BY <1>5, <2>5, <2>6, <3>1, <3>2, <3>3, <3>4, GrownFill
    <3> QED
      BY <2>1, <3>1, <3>5
  <2> QED
    BY <2>7, <2>8
<1> QED
  BY <1>6, <1>7

(***************************************************************************)
(* Applying an SDU: its APID has nothing open then, or its file as far as  *)
(* it came; nothing is sent, or its file is, closed behind the last part.  *)
(***************************************************************************)
LEMMA StepIs ==
    ASSUME TypeOK, ArrivalInv, OpenIs, Grown, Benign, NEW s, ApplyStep(s), NEW k, Due(s, k)
    PROVE  /\ lastAppliedSDU'[cur] \in {Nil, CtrAt[k]}
           /\ Files'[cur] = Nil \/ With(Files'[cur], k)
           /\ \/ TransportOutput' = TransportOutput
              \/ /\ stream[k][2] = Parts(stream[k][1])
                 /\ \E g : /\ With(g, k) /\ g.ready
                           /\ TransportOutput' = Append(TransportOutput, Close(g))
<1> DEFINE f == stream[k][1]
           p == stream[k][2]
<1>1. cur \in Apids
  BY StepFacts
<1>2. stream \in Streams /\ k \in Places /\ s = SduAt[k]
      /\ Files \in [Apids -> FileType \cup {Nil}] /\ lastAppliedSDU \in [Apids -> (0..CtrMod-1) \cup {Nil}]
  BY DEF TypeOK, AssemblerTypeOK, Due
<1>3. /\ s.file = f /\ s.part = p /\ s.ctr = CtrAt[k] /\ s.file # Nil
      /\ f \in Sent /\ p \in 1..Parts(f)
  BY <1>2, PlaceAt
<1>4. SentChunk(f, p) \in Chunk
  BY <1>3, SentChunkType
<1>5. ASSUME p = 1 PROVE With(OpenNew(f), k)
  BY <1>3, <1>5, GrownOpen DEF With, Benign
<1>6. ASSUME p # 1, NEW g, g = processAnySkippedSDU(s), g # Nil,
             NEW parses \in BOOLEAN, NEW decodes \in BOOLEAN, Appending(s, g, parses, decodes)
      PROVE  With(Appended(g, s, parses, decodes), k)
  <2>1. g \in FileType /\ g.file = f
    BY <1>1, <1>6, FilledIsOwn
  <2>2. s \in MSDU
    BY <1>2, <1>3, PlaceFacts, PlaceAt DEF SduAt
  <2>3. Appended(g, s, parses, decodes) \in FileType /\ Appended(g, s, parses, decodes).file = f
    BY <1>3, <2>1, <2>2, AppendedType
  <2>4. ASSUME f \notin exposed
        PROVE  GrownTo(Appended(g, s, parses, decodes), p)
    <3>1. PICK r \in 1..Parts(f) : r < p /\ GrownTo(g, r)
      BY <1>1, <1>6, <2>4, FilledIsOwn
    <3>2. GrownTo(AppendSDU(g, SentChunk(g.file, p), TRUE), p)
      BY <1>3, <2>1, <3>1, GrownAppend
    <3>3. parses = TRUE /\ decodes = TRUE
      BY <1>6, <2>1, <2>4 DEF Appending, Benign
    <3>4. Appended(g, s, TRUE, TRUE) = AppendSDU(g, SentChunk(f, p), TRUE)
      BY <1>3 DEF Appended
    <3> QED
      BY <2>1, <3>2, <3>3, <3>4
  <2> QED
    BY <2>3, <2>4 DEF With
<1>7. ASSUME NEW g, DropThen(g)
      PROVE  Files'[cur] = g /\ lastAppliedSDU'[cur] = Nil
  BY <1>1, <1>2, <1>7 DEF DropThen
<1>8. ASSUME NEW g, Applied(s, g)
      PROVE  Files'[cur] = g /\ lastAppliedSDU'[cur] = CtrAt[k]
  BY <1>1, <1>2, <1>3, <1>8 DEF Applied
<1>9. CASE BadCRC(s)
  <2>1. DropThen(Nil) /\ TransportOutput' = TransportOutput
    BY <1>9 DEF BadCRC
  <2> QED
    BY <1>7, <2>1
<1>10. CASE StartFile(s)
  <2>1. p = 1 /\ DropThen(OpenNew(f)) /\ TransportOutput' = TransportOutput
    BY <1>3, <1>10 DEF StartFile, FirstPart
  <2> QED
    BY <1>5, <1>7, <2>1
<1>11. CASE SingleFile(s)
  <2>1. /\ p = 1 /\ p = Parts(f) /\ DropThen(Nil)
        /\ IF HeadersPopulated(OpenNew(f)) THEN Send(OpenNew(f)) ELSE UNCHANGED TransportOutput
    BY <1>3, <1>11 DEF SingleFile, FirstPart, LastPart
  <2>2. With(OpenNew(f), k)
    BY <1>5, <2>1
  <2>3. \/ TransportOutput' = TransportOutput
        \/ OpenNew(f).ready /\ TransportOutput' = Append(TransportOutput, Close(OpenNew(f)))
    BY <2>1 DEF HeadersPopulated, Send
  <2> QED
    BY <1>7, <2>1, <2>2, <2>3
<1>12. CASE ContinueFile(s)
  <2> DEFINE g == processAnySkippedSDU(s)
  <2>1. p # 1 /\ TransportOutput' = TransportOutput
    BY <1>3, <1>12 DEF ContinueFile, FirstPart
  <2>2. CASE g = Nil
    <3>1. Applied(s, Nil)
      BY <1>12, <2>2 DEF ContinueFile
    <3> QED
      BY <1>8, <2>1, <3>1
  <2>3. CASE g # Nil
    <3>1. PICK parses \in BOOLEAN, decodes \in BOOLEAN :
             Appending(s, g, parses, decodes) /\ Applied(s, Appended(g, s, parses, decodes))
      BY <1>12, <2>3 DEF ContinueFile
    <3> HIDE DEF g
    <3>2. With(Appended(g, s, parses, decodes), k)
      BY <1>6, <2>1, <2>3, <3>1 DEF g
    <3> QED
      BY <1>8, <2>1, <3>1, <3>2
  <2> QED
    BY <2>2, <2>3
<1>13. CASE FinishFile(s)
  <2> DEFINE g == processAnySkippedSDU(s)
  <2>1. p # 1 /\ p = Parts(f)
    BY <1>3, <1>13 DEF FinishFile, FirstPart, LastPart
  <2>2. CASE g = Nil
    <3>1. Applied(s, Nil) /\ TransportOutput' = TransportOutput
      BY <1>13, <2>2 DEF FinishFile
    <3> QED
      BY <1>8, <3>1
  <2>3. CASE g # Nil
    <3>1. PICK parses \in BOOLEAN, decodes \in BOOLEAN : \E h \in {Appended(g, s, parses, decodes)} :
             /\ Appending(s, g, parses, decodes)
             /\ IF HeadersPopulated(h) THEN Send(h) ELSE UNCHANGED TransportOutput
      BY <1>13, <2>3 DEF FinishFile
    <3>4. DropThen(Nil)
      BY <1>13, <2>3 DEF FinishFile
    <3> DEFINE h == Appended(g, s, parses, decodes)
    <3> HIDE DEF g
    <3>2. With(h, k)
      BY <1>6, <2>1, <2>3, <3>1 DEF g
    <3>3. \/ TransportOutput' = TransportOutput
          \/ h.ready /\ TransportOutput' = Append(TransportOutput, Close(h))
      BY <3>1 DEF HeadersPopulated, Send
    <3> HIDE DEF h
    <3> QED
      BY <1>7, <2>1, <3>2, <3>3, <3>4
  <2> QED
    BY <2>2, <2>3
<1> QED
  BY <1>3, <1>9, <1>10, <1>11, <1>12, <1>13 DEF ApplyStep, SkipShort

-----------------------------------------------------------------------------
(* Applying an SDU keeps the invariant.                                     *)

(* What waits stays in order, with the right counter remembered. *)
LEMMA ArrivalKept ==
    ASSUME TypeOK, ArrivalInv, OpenIs, Grown, Benign, Unwrapped,
           NEW s, ApplyStep(s), NEW k, Due(s, k), UNCHANGED bads
    PROVE  ArrivalInv'
<1>1. /\ Applies(s) /\ cur \in Apids /\ stream' = stream /\ cur' = cur /\ exposed' = exposed
      /\ \A a \in Apids \ {cur} : lastAppliedSDU'[a] = lastAppliedSDU[a]
      /\ APIDs' = [APIDs EXCEPT ![cur] = @ \ {s}]
  BY StepFacts, AppliesFacts
<1>2. stream \in Streams /\ APIDs \in [Apids -> SUBSET MSDU]
  BY DEF TypeOK, AssemblerTypeOK
<1>3. ApidAt' = ApidAt /\ CtrAt' = CtrAt
  BY <1>1, StreamStays
<1>4. Waiting' = Waiting \ {k} /\ Done' = Done \cup {k} /\ ApidAt[k] = cur /\ k \in Waiting
  BY DEF Due
<1>5. Waiting' \subseteq Undone'
  BY <1>4, WaitingUndone DEF Due
<1>6. \A w \in Waiting' : ApidAt[w] = cur => k < w
  BY <1>5, BehindDue
<1>7. NothingBad'
  <2>1. \A a \in Apids : APIDs'[a] \subseteq APIDs[a]
    BY <1>1, <1>2
  <2> QED
    BY <2>1 DEF ArrivalInv, NothingBad
<1>8. FirstInOrder'
  <2> SUFFICES ASSUME NEW m \in Done', NEW w \in Waiting', stream[m][2] = 1, ApidAt[m] = ApidAt[w]
               PROVE  m < w
    BY <1>1, <1>3 DEF FirstInOrder
  <2> QED
    BY <1>4, <1>6 DEF ArrivalInv, FirstInOrder
<1>9. \A a \in Apids : cur # a => lastAppliedSDU'[a] = Nil
  BY <1>1 DEF ArrivalInv, Remembered
<1>10. ASSUME NEW a \in Apids, lastAppliedSDU'[a] # Nil
       PROVE  \E i \in Done' :
                 /\ ApidAt[i] = a /\ lastAppliedSDU'[a] = CtrAt[i]
                 /\ \A w \in Waiting' : ApidAt[w] = a => i < w /\ CtrAt[i] < CtrAt[w]
                 /\ Files'[a] # Nil => With(Files'[a], i)
  <2>1. a = cur
    BY <1>9, <1>10
  <2>2. lastAppliedSDU'[cur] = CtrAt[k] /\ (Files'[cur] # Nil => With(Files'[cur], k))
    BY <1>10, <2>1, StepIs
  <2>3. \A w \in Waiting' : ApidAt[w] = cur => k < w /\ CtrAt[k] < CtrAt[w]
    BY <1>4, <1>6 DEF Unwrapped
  <2> QED
    BY <1>4, <2>1, <2>2, <2>3
<1>11. Remembered'
  BY <1>1, <1>3, <1>9, <1>10 DEF Remembered, With
<1> QED
  BY <1>7, <1>8, <1>11 DEF ArrivalInv

(* What is open stays the file whose parts come next. *)
LEMMA OpenIsKept ==
    ASSUME TypeOK, ArrivalInv, OpenIs, Grown, Benign, NEW s, ApplyStep(s), NEW k, Due(s, k)
    PROVE  OpenIs'
<1>1. /\ stream' = stream /\ cur \in Apids
      /\ \A a \in Apids \ {cur} : Files'[a] = Files[a]
  BY StepFacts, AppliesFacts
<1>2. stream \in Streams
  BY DEF TypeOK, AssemblerTypeOK
<1>3. ApidAt' = ApidAt
  BY <1>1, StreamStays
<1>4. /\ Undone' = Undone \ {k} /\ Done' = Done \cup {k} /\ ApidAt[k] = cur /\ k \in Waiting
      /\ k \in Places /\ Undone \subseteq Places /\ Done \subseteq Places
      /\ Places = 1..Len(stream) /\ Len(stream) \in Nat
  BY <1>2, WaitingUndone, PlaceAt DEF Due
<1> SUFFICES ASSUME NEW w \in Undone', NEW m \in Done', stream[m] = <<stream[w][1], 1>>
             PROVE  Files'[ApidAt[w]] = Nil \/ Files'[ApidAt[w]].file = stream[w][1]
  BY <1>1, <1>3 DEF OpenIs
<1>5. /\ w \in Undone /\ w \in Places /\ m \in Places
      /\ stream[m][1] = stream[w][1] /\ stream[m][2] = 1
  BY <1>4
<1>6. ApidAt[m] = ApidAt[w] /\ ApidAt[w] \in Apids
  BY <1>2, <1>5, PlaceAt
<1>7. CASE ApidAt[w] # cur
  <2>1. m \in Done
    BY <1>4, <1>6, <1>7
  <2> QED
    BY <1>1, <1>5, <1>6, <1>7, <2>1 DEF OpenIs
<1>8. CASE ApidAt[w] = cur
  <2>1. Files'[cur] = Nil \/ Files'[cur].file = stream[k][1]
    BY StepIs DEF With
  <2>2. stream[k][1] = stream[w][1]
    <3>1. CASE m = k
      BY <1>5, <3>1
    <3>2. CASE m # k
      <4>1. m \in Done /\ m < k
        BY <1>4, <1>6, <1>8, <3>2 DEF ArrivalInv, FirstInOrder
      <4>2. ApidOf(m) = ApidOf(k) /\ m \in 1..k-1 /\ k \in 1..Len(stream)
        BY <1>4, <1>5, <1>6, <1>8, <4>1 DEF ApidAt
      <4>3. stream[m][1] <= stream[k][1]
        <5>1. \/ stream[m][1] < stream[k][1]
              \/ stream[m][1] = stream[k][1] /\ stream[m][2] < stream[k][2]
          BY <1>2, <4>2, StreamAscends
        <5>2. stream[m][1] \in Nat /\ stream[k][1] \in Nat
          BY <1>2, <1>4, <1>5, PlaceAt, MetaFacts
        <5> QED
          BY <5>1, <5>2
      <4>4. stream[k][1] <= stream[w][1]
        <5>1. \/ stream[k][1] < stream[w][1]
              \/ stream[k][1] = stream[w][1] /\ stream[k][2] < stream[w][2]
          BY <1>8, BehindDue
        <5>2. stream[w][1] \in Nat /\ stream[k][1] \in Nat
          BY <1>2, <1>4, <1>5, PlaceAt, MetaFacts
        <5> QED
          BY <5>1, <5>2
      <4>5. stream[w][1] \in Nat /\ stream[k][1] \in Nat
        BY <1>2, <1>4, <1>5, PlaceAt, MetaFacts
      <4> QED
        BY <1>5, <4>3, <4>4, <4>5
    <3> QED
      BY <3>1, <3>2
  <2> QED
    BY <1>8, <2>1, <2>2
<1> QED
  BY <1>7, <1>8

(* What is open grows. *)
LEMMA GrownKept ==
    ASSUME TypeOK, ArrivalInv, OpenIs, Grown, Benign, NEW s, ApplyStep(s), NEW k, Due(s, k)
    PROVE  Grown'
<1>1. /\ stream' = stream /\ cur \in Apids /\ exposed' = exposed
      /\ \A a \in Apids \ {cur} : Files'[a] = Files[a]
  BY StepFacts, AppliesFacts
<1>2. stream \in Streams
  BY DEF TypeOK, AssemblerTypeOK
<1>3. Undone' = Undone \ {k} /\ ApidAt[k] = cur /\ k \in Places
  BY DEF Due
<1> SUFFICES ASSUME NEW a \in Apids, Files'[a] # Nil
             PROVE  /\ Meta[Files'[a].file].apid = a
                    /\ Files'[a].file \notin exposed =>
                          \E p \in 1..Parts(Files'[a].file) :
                             /\ GrownTo(Files'[a], p)
                             /\ \A w \in Undone' : stream[w][1] = Files'[a].file => p < stream[w][2]
  BY <1>1 DEF Grown
<1>4. CASE a # cur
  BY <1>1, <1>3, <1>4 DEF Grown
<1>5. CASE a = cur
  <2>1. With(Files'[cur], k)
    BY <1>5, StepIs
  <2>2. Meta[stream[k][1]].apid = cur /\ stream[k][2] \in 1..Parts(stream[k][1])
    BY <1>2, <1>3, PlaceAt
  <2>3. ASSUME NEW w \in Undone', stream[w][1] = stream[k][1]
        PROVE  stream[k][2] < stream[w][2]
    <3>1. w \in Places /\ ApidAt[w] = cur
      BY <1>2, <1>3, <2>2, <2>3, PlaceAt DEF Undone
    <3>2. \/ stream[k][1] < stream[w][1]
          \/ stream[k][1] = stream[w][1] /\ stream[k][2] < stream[w][2]
      BY <3>1, BehindDue
    <3>3. stream[k][1] \in Nat
      BY <1>2, <1>3, PlaceAt, MetaFacts
    <3> QED
      BY <2>3, <3>2, <3>3
  <2> QED
    BY <1>5, <2>1, <2>2, <2>3 DEF With
<1> QED
  BY <1>4, <1>5

(* What is sent lies behind what was sent before and ahead of the rest. *)
LEMMA SentOn ==
    ASSUME TypeOK, ArrivalInv, OpenIs, Grown, AheadOfRest, LineInv, GoodInv, Benign,
           UNCHANGED <<lf, LRITOutput, received>>, NEW s, ApplyStep(s), NEW k, Due(s, k)
    PROVE  AheadOfRest' /\ LineInv' /\ GoodInv'
<1>1. stream' = stream /\ cur \in Apids /\ exposed' = exposed
  BY StepFacts, AppliesFacts
<1>2. stream \in Streams /\ TransportOutput \in Seq(FileType)
  BY DEF TypeOK, AssemblerTypeOK
<1>3. ApidAt' = ApidAt
  BY <1>1, StreamStays
<1>4. Undone' = Undone \ {k} /\ ApidAt[k] = cur /\ k \in Places /\ k \in Undone
  BY DEF Due
<1>5. /\ stream[k][1] \in Sent /\ stream[k][1] \in Nat /\ Meta[stream[k][1]].apid = cur
      /\ Parts(stream[k][1]) \in Nat
  BY <1>2, <1>4, PlaceAt, MetaFacts
<1>6. CASE TransportOutput' = TransportOutput
  <2>1. OnTheWay' = OnTheWay
    BY <1>6 DEF OnTheWay
  <2>2. AheadOfRest'
    BY <1>1, <1>3, <1>4, <2>1 DEF AheadOfRest
  <2>3. LineInv'
    BY <1>6 DEF LineInv, InOrder
  <2>4. GoodInv'
    BY <1>1, <1>6 DEF GoodInv, Fine
  <2> QED
    BY <2>2, <2>3, <2>4
<1>7. ASSUME stream[k][2] = Parts(stream[k][1]),
             NEW g, With(g, k), g.ready, TransportOutput' = Append(TransportOutput, Close(g))
      PROVE  AheadOfRest' /\ LineInv' /\ GoodInv'
  <2> DEFINE c == Close(g)
  <2>1. c \in FileType /\ c.file = stream[k][1]
    BY <1>7, CloseType DEF With
  <2>2. Layer!IsValid(c) => Fine(c)
    <3>1. CASE g.file \in exposed
      BY <1>7, <2>1, <3>1 DEF With, Fine
    <3>2. CASE g.file \notin exposed
      <4>1. g \in FileType /\ GrownTo(g, Parts(g.file))
        BY <1>7, <3>2 DEF With
      <4> QED
        BY <1>7, <4>1, GrownClose DEF Fine
    <3> QED
      BY <3>1, <3>2
  <2> HIDE DEF c
  <2>3. ToSet(TransportOutput') = ToSet(TransportOutput) \cup {c}
    BY <1>2, <1>7, AppendedTo DEF c
  <2>4. OnTheWay' = OnTheWay \cup {c}
    BY <2>3 DEF OnTheWay
  <2>5. \A h \in OnTheWay : Promise!Follows(h, c)
    BY <1>4, <1>5, <2>1 DEF AheadOfRest, Promise!Follows
  <2>6. ASSUME NEW w \in Undone', ApidAt[w] = Meta[c.file].apid
        PROVE  c.file < stream[w][1]
    <3>1. w \in Places /\ ApidAt[w] = cur
      BY <1>4, <1>5, <2>1, <2>6 DEF Undone
    <3>2. \/ stream[k][1] < stream[w][1]
          \/ stream[k][1] = stream[w][1] /\ stream[k][2] < stream[w][2]
      BY <3>1, BehindDue
    <3>3. stream[w][2] \in 1..Parts(stream[w][1])
      BY <1>2, <3>1, PlaceAt
    <3> QED
      BY <1>5, <1>7, <2>1, <3>2, <3>3
  <2>7. AheadOfRest'
    BY <1>1, <1>3, <1>4, <2>4, <2>6 DEF AheadOfRest
  <2>8. InOrder(TransportOutput')
    <3>1. /\ Len(TransportOutput) \in Nat /\ DOMAIN TransportOutput = 1..Len(TransportOutput)
          /\ DOMAIN TransportOutput' = 1..Len(TransportOutput)+1
          /\ \A i \in 1..Len(TransportOutput) : TransportOutput'[i] = TransportOutput[i]
          /\ TransportOutput'[Len(TransportOutput) + 1] = c
      BY <1>2, <1>7, <2>1 DEF c
    <3>2. \A i \in DOMAIN TransportOutput : TransportOutput[i] \in OnTheWay
      BY DEF OnTheWay, ToSet
    <3> SUFFICES ASSUME NEW i \in DOMAIN TransportOutput', NEW j \in DOMAIN TransportOutput', i < j
                 PROVE  Promise!Follows(TransportOutput'[i], TransportOutput'[j])
      BY DEF InOrder
    <3>3. i \in 1..Len(TransportOutput)
      BY <3>1
    <3>4. CASE j \in 1..Len(TransportOutput)
      BY <3>1, <3>3, <3>4 DEF LineInv, InOrder
    <3>5. CASE j = Len(TransportOutput) + 1
      BY <2>5, <3>1, <3>2, <3>3, <3>5
    <3> QED
      BY <3>1, <3>4, <3>5
  <2>9. LineInv'
    <3>1. \A h \in ToSet(received) \cup ToSet(LRITOutput) \cup ({lf} \ {Nil}) : Promise!Follows(h, c)
      BY <2>5 DEF OnTheWay
    <3> QED
      BY <2>3, <2>8, <3>1 DEF LineInv, Ahead
  <2>10. GoodInv'
    BY <1>1, <2>2, <2>3 DEF GoodInv, Fine
  <2> QED
    BY <2>7, <2>9, <2>10
<1>8. \/ TransportOutput' = TransportOutput
      \/ /\ stream[k][2] = Parts(stream[k][1])
         /\ \E g : With(g, k) /\ g.ready /\ TransportOutput' = Append(TransportOutput, Close(g))
  BY StepIs
<1> QED
  BY <1>6, <1>7, <1>8

(* Applying an SDU keeps all of the invariant. *)
LEMMA PromiseApply ==
    ASSUME TypeOK, WaitingInv, PromiseInv, Benign, Unwrapped,
           UNCHANGED <<lf, LRITOutput, received>>, NEW s, ApplyStep(s)
    PROVE  PromiseInv'
<1>1. Applies(s) /\ UNCHANGED bads
  BY StepFacts DEF Applies, link
<1>2. PICK k \in Waiting : Due(s, k)
  BY <1>1, IsDue DEF PromiseInv, ArrivalInv
<1>3. ArrivalInv'
  BY <1>1, <1>2, ArrivalKept DEF PromiseInv
<1>4. OpenIs'
  BY <1>2, OpenIsKept DEF PromiseInv
<1>5. Grown'
  BY <1>2, GrownKept DEF PromiseInv
<1>6. AheadOfRest' /\ LineInv' /\ GoodInv'
  BY <1>2, SentOn DEF PromiseInv
<1> QED
  BY <1>3, <1>4, <1>5, <1>6 DEF PromiseInv

-----------------------------------------------------------------------------
(* The other steps keep it.                                                 *)

(* A frame brings some SDUs, none of them bad; what is lost with it are no *)
(* first SDUs.                                                             *)
LEMMA PromiseDeliver ==
    ASSUME TypeOK, PromiseInv, Benign, UNCHANGED <<lf, LRITOutput, received>>,
           NEW now \in pos+1 .. Len(stream), NEW come \in SUBSET (pos+1..now), NEW carried,
           NEW bad \in BadHeaders, Deliver(come, carried, now, bad)
    PROVE  PromiseInv'
<1>1. /\ stream' = stream /\ pos' = now /\ cur' = cur /\ cur = Nil /\ Files' = Files
      /\ TransportOutput' = TransportOutput /\ lastAppliedSDU' = lastAppliedSDU
      /\ bads' = bads + Cardinality(bad) /\ exposed \subseteq exposed'
      /\ \A k \in (pos+1..now) \ come : stream[k] \in Losable
      /\ APIDs' = [a \in Apids |-> {GoodSDU(k) : k \in {k \in come : ApidOf(k) = a}}
                                     \cup {BadSDU(b[2]) : b \in {b \in bad : b[1] = a}}]
  BY DEF Deliver, Idle
<1>2. /\ stream \in Streams /\ pos \in 0..Len(stream) /\ Len(stream) \in Nat /\ Places = 1..Len(stream)
  BY PlaceAt DEF TypeOK, AssemblerTypeOK
<1>3. Places' = Places /\ SduAt' = SduAt /\ ApidAt' = ApidAt /\ CtrAt' = CtrAt
  BY <1>1, StreamStays
<1>4. /\ now \in Nat /\ pos < now /\ now <= Len(stream)
      /\ come \subseteq Places /\ 1..now \subseteq Places /\ 1..pos \subseteq Places
      /\ \A w \in come : pos < w
  BY <1>2
<1>5. Waiting = {} /\ Waiting' = come /\ Done \subseteq Done'
  BY DeliverOrder
<1>6. Done = 1..pos /\ Done' = (1..now) \ come
  BY <1>1, <1>5 DEF Done
<1>7. Undone' \subseteq Undone
  BY <1>3, <1>5 DEF Undone
<1>8. ASSUME NEW m \in Done', m \notin Done
      PROVE  stream[m][2] # 1
  <2>1. m \in (pos+1..now) \ come
    BY <1>2, <1>4, <1>6, <1>8
  <2>2. stream[m] \in Losable /\ stream[m][2] > 1
    BY <1>1, <2>1 DEF Benign
  <2> QED
    BY <2>2
<1>9. bad = {}
  <2>1. MaxBad = 0 /\ bads = 0
    BY DEF Benign, PromiseInv, ArrivalInv, NothingBad
  <2>2. PICK n \in 0..MaxBad - bads : bad \in {ToSet(b) : b \in [1..n -> Apids \X (0..CtrMod-1)]}
    BY DEF BadHeaders
  <2>3. n = 0
    BY <2>1, <2>2
  <2>4. PICK b \in [1..0 -> Apids \X (0..CtrMod-1)] : bad = ToSet(b)
    BY <2>2, <2>3
  <2> QED
    BY <2>4 DEF ToSet
<1>10. NothingBad'
  <2>1. bads' = 0
    BY <1>1, <1>9, FS_EmptySet DEF PromiseInv, ArrivalInv, NothingBad
  <2>2. ASSUME NEW a \in Apids, NEW t \in APIDs'[a] PROVE t.file # Nil
    <3>1. PICK k \in come : t = GoodSDU(k)
      BY <1>1, <1>9, <2>2
    <3> QED
      BY <1>2, <1>4, <3>1, PlaceFacts
  <2> QED
    BY <2>1, <2>2 DEF NothingBad
<1>11. FirstInOrder'
  <2> SUFFICES ASSUME NEW m \in Done', NEW w \in Waiting', stream[m][2] = 1 PROVE m < w
    BY <1>1 DEF FirstInOrder
  <2> QED
    BY <1>2, <1>4, <1>5, <1>6, <1>8
<1>12. Remembered'
  <2>1. \A a \in Apids : lastAppliedSDU[a] = Nil
    <3>1. Nil \notin Apids
      BY MetaFacts DEF Apids
    <3> QED
      BY <1>1, <3>1 DEF PromiseInv, ArrivalInv, Remembered
  <2> QED
    BY <1>1, <2>1 DEF Remembered
<1>13. OpenIs'
  <2> SUFFICES ASSUME NEW k \in Undone', NEW m \in Done', stream[m] = <<stream[k][1], 1>>
               PROVE  Files[ApidAt[k]] = Nil \/ Files[ApidAt[k]].file = stream[k][1]
    BY <1>1, <1>3 DEF OpenIs
  <2>1. m \in Done
    BY <1>8
  <2> QED
    BY <1>7, <2>1 DEF PromiseInv, OpenIs
<1>14. Grown'
  <2> SUFFICES ASSUME NEW a \in Apids, Files[a] # Nil
               PROVE  /\ Meta[Files[a].file].apid = a
                      /\ Files[a].file \notin exposed' =>
                            \E p \in 1..Parts(Files[a].file) :
                               /\ GrownTo(Files[a], p)
                               /\ \A w \in Undone' : stream[w][1] = Files[a].file => p < stream[w][2]
    BY <1>1 DEF Grown
  <2> QED
    BY <1>1, <1>7 DEF PromiseInv, Grown
<1>15. OnTheWay' = OnTheWay
  BY <1>1 DEF OnTheWay
<1>16. AheadOfRest'
  BY <1>1, <1>3, <1>7, <1>15 DEF PromiseInv, AheadOfRest
<1>17. LineInv' /\ GoodInv'
  BY <1>1 DEF PromiseInv, LineInv, InOrder, GoodInv, Fine
<1> QED
  BY <1>10, <1>11, <1>12, <1>13, <1>14, <1>16, <1>17 DEF PromiseInv, ArrivalInv

(* Steps that leave the SDUs and the open files alone. *)
LEMMA PromiseRest ==
    ASSUME TypeOK, PromiseInv, UNCHANGED <<stream, pos, bads, exposed, APIDs, Files>>,
           \A a \in Apids : lastAppliedSDU'[a] \in {Nil, lastAppliedSDU[a]},
           \A a \in Apids : cur' # a => lastAppliedSDU'[a] = Nil,
           OnTheWay' \subseteq OnTheWay, LineInv', GoodInv'
    PROVE  PromiseInv'
<1>1. Places' = Places /\ SduAt' = SduAt /\ ApidAt' = ApidAt /\ CtrAt' = CtrAt
  BY StreamStays
<1>2. Waiting' = Waiting
  BY <1>1 DEF Waiting
<1>3. Done' = Done
  BY <1>2 DEF Done
<1>4. Undone' = Undone
  BY <1>1, <1>3 DEF Undone
<1>5. NothingBad' /\ FirstInOrder'
  BY <1>1, <1>2, <1>3 DEF PromiseInv, ArrivalInv, NothingBad, FirstInOrder
<1>6. Remembered'
  <2>1. ASSUME NEW a \in Apids, lastAppliedSDU'[a] # Nil
        PROVE  \E k \in Done :
                  /\ ApidAt[k] = a /\ lastAppliedSDU'[a] = CtrAt[k]
                  /\ \A w \in Waiting : ApidAt[w] = a => k < w /\ CtrAt[k] < CtrAt[w]
                  /\ Files[a] # Nil => With(Files[a], k)
    <3>1. lastAppliedSDU'[a] = lastAppliedSDU[a] /\ lastAppliedSDU[a] # Nil
      BY <2>1
    <3> QED
      BY <3>1 DEF PromiseInv, ArrivalInv, Remembered
  <2> QED
    BY <1>1, <1>2, <1>3, <2>1 DEF Remembered, With
<1>7. OpenIs' /\ Grown' /\ AheadOfRest'
  BY <1>1, <1>3, <1>4 DEF PromiseInv, OpenIs, Grown, AheadOfRest
<1> QED
  BY <1>5, <1>6, <1>7 DEF PromiseInv, ArrivalInv

(* A sequence in order: its head lies ahead of its tail, and that is in *)
(* order; so is one with an element behind it that follows all of it.   *)
LEMMA OrderedLine ==
    ASSUME NEW T, NEW q \in Seq(T), InOrder(q)
    PROVE  /\ q # << >> => /\ Head(q) \in ToSet(q) /\ ToSet(Tail(q)) \subseteq ToSet(q)
                           /\ InOrder(Tail(q)) /\ Ahead({Head(q)}, ToSet(Tail(q)))
           /\ \A e \in T : Ahead(ToSet(q), {e}) => InOrder(Append(q, e))
<1>1. ASSUME q # << >>
      PROVE  /\ Head(q) \in ToSet(q) /\ ToSet(Tail(q)) \subseteq ToSet(q)
             /\ InOrder(Tail(q)) /\ Ahead({Head(q)}, ToSet(Tail(q)))
  <2>1. /\ Len(q) \in Nat /\ Head(q) = q[1] /\ DOMAIN q = 1..Len(q) /\ 1 \in DOMAIN q
        /\ \A i \in DOMAIN Tail(q) : i + 1 \in DOMAIN q /\ Tail(q)[i] = q[i + 1] /\ i \in Nat /\ i >= 1
    BY <1>1
  <2>2. Head(q) \in ToSet(q)
    BY <2>1 DEF ToSet
  <2>3. ToSet(Tail(q)) \subseteq ToSet(q)
    BY <2>1 DEF ToSet
  <2>4. InOrder(Tail(q))
    <3> SUFFICES ASSUME NEW i \in DOMAIN Tail(q), NEW j \in DOMAIN Tail(q), i < j
                 PROVE  Promise!Follows(Tail(q)[i], Tail(q)[j])
      BY DEF InOrder
    <3>1. i + 1 \in DOMAIN q /\ j + 1 \in DOMAIN q /\ i + 1 < j + 1
      BY <2>1
    <3> QED
      BY <2>1, <3>1 DEF InOrder
  <2>5. Ahead({Head(q)}, ToSet(Tail(q)))
    <3> SUFFICES ASSUME NEW i \in DOMAIN Tail(q) PROVE Promise!Follows(Head(q), Tail(q)[i])
      BY DEF Ahead, ToSet
    <3>1. i + 1 \in DOMAIN q /\ 1 < i + 1
      BY <2>1
    <3> QED
      BY <2>1, <3>1 DEF InOrder
  <2> QED
    BY <2>2, <2>3, <2>4, <2>5
<1>2. ASSUME NEW e \in T, Ahead(ToSet(q), {e})
      PROVE  InOrder(Append(q, e))
  <2>1. /\ Len(q) \in Nat /\ DOMAIN q = 1..Len(q) /\ DOMAIN Append(q, e) = 1..Len(q)+1
        /\ \A i \in 1..Len(q) : Append(q, e)[i] = q[i]
        /\ Append(q, e)[Len(q) + 1] = e
    OBVIOUS
  <2> SUFFICES ASSUME NEW i \in DOMAIN Append(q, e), NEW j \in DOMAIN Append(q, e), i < j
               PROVE  Promise!Follows(Append(q, e)[i], Append(q, e)[j])
    BY DEF InOrder
  <2>2. i \in 1..Len(q)
    BY <2>1
  <2>3. CASE j \in 1..Len(q)
    BY <2>1, <2>2, <2>3 DEF InOrder
  <2>4. CASE j = Len(q) + 1
    <3>1. Promise!Follows(q[i], e)
      BY <1>2, <2>1, <2>2 DEF Ahead, ToSet
    <3> QED
      BY <2>1, <2>2, <2>4, <3>1
  <2> QED
    BY <2>1, <2>3, <2>4
<1> QED
  BY <1>1, <1>2

(* Taking a file from the transport layer keeps the line, *)
LEMMA LineTaken ==
    ASSUME TypeOK, LineInv, GoodInv, SessionStep, Layer!ProcessTransportFile
    PROVE  OnTheWay' \subseteq OnTheWay /\ LineInv' /\ GoodInv'
<1> DEFINE h == Head(TransportOutput)
<1>1. /\ lf = Nil /\ TransportOutput # << >> /\ TransportOutput' = Tail(TransportOutput)
      /\ lf' \in {h, Nil} /\ (lf' # Nil => Layer!IsValid(h))
      /\ LRITOutput' = LRITOutput /\ received' = received /\ exposed' = exposed
  BY DEF SessionStep, Layer!ProcessTransportFile
<1>2. TransportOutput \in Seq(FileType)
  BY DEF TypeOK, AssemblerTypeOK
<1>3. /\ h \in ToSet(TransportOutput) /\ ToSet(Tail(TransportOutput)) \subseteq ToSet(TransportOutput)
      /\ InOrder(Tail(TransportOutput)) /\ Ahead({h}, ToSet(Tail(TransportOutput)))
  BY <1>1, <1>2, OrderedLine DEF LineInv
<1> HIDE DEF h
<1>4. {lf'} \ {Nil} \subseteq {h} /\ (lf' # Nil => Layer!IsValid(h))
  BY <1>1
<1>5. OnTheWay' \subseteq OnTheWay
  BY <1>1, <1>3, <1>4 DEF OnTheWay
<1>6. LineInv'
  BY <1>1, <1>3, <1>4 DEF LineInv, Ahead, InOrder
<1>7. GoodInv'
  BY <1>1, <1>3, <1>4 DEF GoodInv, Fine
<1> QED
  BY <1>5, <1>6, <1>7

(* so does sending it on, *)
LEMMA LineSent ==
    ASSUME TypeOK, LineInv, GoodInv, SessionStep, Layer!SendFile
    PROVE  OnTheWay' \subseteq OnTheWay /\ LineInv' /\ GoodInv'
<1>1. /\ lf # Nil /\ LRITOutput' = Append(LRITOutput, lf) /\ lf' = Nil
      /\ TransportOutput' = TransportOutput /\ received' = received /\ exposed' = exposed
  BY DEF SessionStep, Layer!SendFile
<1>2. LRITOutput \in Seq(FileType) /\ lf \in FileType
  BY <1>1 DEF TypeOK
<1>3. ToSet(LRITOutput') = ToSet(LRITOutput) \cup {lf}
  BY <1>1, <1>2, AppendedTo
<1>4. InOrder(LRITOutput')
  <2>1. Ahead(ToSet(LRITOutput), {lf})
    BY <1>1 DEF LineInv, Ahead
  <2>2. InOrder(Append(LRITOutput, lf))
    BY <1>2, <2>1, OrderedLine DEF LineInv
  <2> QED
    BY <1>1, <2>2
<1>5. OnTheWay' \subseteq OnTheWay
  BY <1>1, <1>3 DEF OnTheWay
<1>6. LineInv'
  BY <1>1, <1>3, <1>4 DEF LineInv, Ahead, InOrder
<1>7. GoodInv'
  BY <1>1, <1>3 DEF GoodInv, Fine
<1> QED
  BY <1>5, <1>6, <1>7

(* and so does reading it. *)
LEMMA LineRead ==
    ASSUME TypeOK, LineInv, GoodInv, Consume
    PROVE  OnTheWay' \subseteq OnTheWay /\ LineInv' /\ GoodInv'
<1> DEFINE h == Head(LRITOutput)
<1>1. /\ LRITOutput # << >> /\ received' = Append(received, h) /\ LRITOutput' = Tail(LRITOutput)
      /\ TransportOutput' = TransportOutput /\ lf' = lf /\ exposed' = exposed
  BY DEF Consume, assemblerVars, shared
<1>2. LRITOutput \in Seq(FileType) /\ received \in Seq(FileType)
  BY DEF TypeOK
<1>3. /\ h \in ToSet(LRITOutput) /\ ToSet(Tail(LRITOutput)) \subseteq ToSet(LRITOutput)
      /\ InOrder(Tail(LRITOutput)) /\ Ahead({h}, ToSet(Tail(LRITOutput)))
  BY <1>1, <1>2, OrderedLine DEF LineInv
<1>4. ToSet(received') = ToSet(received) \cup {h}
  BY <1>1, <1>2, AppendedTo
<1> HIDE DEF h
<1>5. OnTheWay' \subseteq OnTheWay
  BY <1>1, <1>3, <1>4 DEF OnTheWay
<1>6. LineInv'
  BY <1>1, <1>3, <1>4 DEF LineInv, Ahead, InOrder
<1>7. GoodInv'
  BY <1>1, <1>3 DEF GoodInv, Fine
<1> QED
  BY <1>5, <1>6, <1>7

(* The invariant holds at the start, *)
LEMMA PromiseInit == Init => PromiseInv
<1> SUFFICES ASSUME Init PROVE PromiseInv
  OBVIOUS
<1>1. /\ pos = 0 /\ bads = 0 /\ APIDs = [a \in Apids |-> {}] /\ Files = [a \in Apids |-> Nil]
      /\ lastAppliedSDU = [a \in Apids |-> Nil] /\ TransportOutput = << >>
      /\ lf = Nil /\ LRITOutput = << >> /\ received = << >>
  BY DEF Init, AssemblerInit, Layer!SessionInit
<1>2. Waiting = {} /\ Done = {}
  <2>1. Waiting = {}
    BY <1>1 DEF Waiting
  <2> QED
    BY <1>1, <2>1 DEF Done
<1>3. /\ ToSet(TransportOutput) = {} /\ ToSet(LRITOutput) = {} /\ ToSet(received) = {}
      /\ {lf} \ {Nil} = {} /\ OnTheWay = {}
  BY <1>1 DEF ToSet, OnTheWay
<1>4. ArrivalInv
  BY <1>1, <1>2 DEF ArrivalInv, NothingBad, FirstInOrder, Remembered
<1>5. OpenIs /\ Grown /\ AheadOfRest
  BY <1>1, <1>2, <1>3 DEF OpenIs, Grown, AheadOfRest
<1>6. LineInv
  BY <1>1, <1>3 DEF LineInv, InOrder, Ahead
<1>7. GoodInv
  BY <1>3 DEF GoodInv
<1> QED
  BY <1>4, <1>5, <1>6, <1>7 DEF PromiseInv

(* and every step keeps it. *)
LEMMA PromiseNext ==
    ASSUME Benign, TypeOK, WaitingInv, PromiseInv, Unwrapped, [Next]_vars
    PROVE  PromiseInv'
<1>1. CASE Frames /\ UNCHANGED <<lf, LRITOutput, received>>
  BY <1>1, PromiseDeliver DEF Frames
<1>2. ASSUME UNCHANGED <<stream, pos, bads, exposed, APIDs, Files, TransportOutput, lf, LRITOutput, received>>,
             \A a \in Apids : lastAppliedSDU'[a] \in {Nil, lastAppliedSDU[a]},
             \A a \in Apids : cur' # a => lastAppliedSDU'[a] = Nil
      PROVE  PromiseInv'
  <2>1. OnTheWay' = OnTheWay
    BY <1>2 DEF OnTheWay
  <2>2. LineInv' /\ GoodInv'
    BY <1>2 DEF PromiseInv, LineInv, InOrder, GoodInv, Fine
  <2> QED
    BY <1>2, <2>1, <2>2, PromiseRest
<1>3. CASE ProcessAllAPIDs /\ UNCHANGED <<lf, LRITOutput, received>>
  <2>1. ASSUME NEW a \in Apids, PickAPID(a)
        PROVE  PromiseInv'
    <3>1. \A b \in Apids : lastAppliedSDU[b] = Nil
      <4>1. cur = Nil /\ Nil \notin Apids
        BY <2>1, MetaFacts DEF PickAPID, Apids
      <4> QED
        BY <4>1 DEF PromiseInv, ArrivalInv, Remembered
    <3>2. lastAppliedSDU' = lastAppliedSDU
      BY <2>1 DEF PickAPID
    <3> QED
      BY <1>2, <1>3, <2>1, <3>1, <3>2 DEF PickAPID, link, shared
  <2>2. CASE EndAPID
    <3>1. /\ lastAppliedSDU \in [Apids -> (0..CtrMod-1) \cup {Nil}]
          /\ lastAppliedSDU' = [lastAppliedSDU EXCEPT ![cur] = Nil]
      BY <2>2 DEF TypeOK, AssemblerTypeOK, EndAPID
    <3>2. \A a \in Apids : cur # a => lastAppliedSDU[a] = Nil
      BY DEF PromiseInv, ArrivalInv, Remembered
    <3>3. \A a \in Apids : lastAppliedSDU'[a] = Nil
      BY <3>1, <3>2
    <3> QED
      BY <1>2, <1>3, <2>2, <3>3 DEF EndAPID, link, shared
  <2>3. ASSUME NEW s, ApplyStep(s)
        PROVE  PromiseInv'
    BY <1>3, <2>3, PromiseApply
  <2> QED
    BY <1>3, <2>1, <2>2, <2>3 DEF ProcessAllAPIDs, ApplyStep
<1>4. CASE SessionStep \/ Consume
  <2>1. UNCHANGED <<stream, pos, bads, exposed, APIDs, Files, lastAppliedSDU, cur>>
    BY <1>4 DEF SessionStep, Consume, link, shared, assembly, assemblerVars,
       Layer!ProcessTransportFile, Layer!SendFile
  <2>2. OnTheWay' \subseteq OnTheWay /\ LineInv' /\ GoodInv'
    BY <1>4, LineTaken, LineSent, LineRead DEF PromiseInv, SessionStep
  <2>3. \A a \in Apids : cur' # a => lastAppliedSDU'[a] = Nil
    BY <2>1 DEF PromiseInv, ArrivalInv, Remembered
  <2> QED
    BY <2>1, <2>2, <2>3, PromiseRest
<1>5. CASE UNCHANGED vars
  <2>1. \A a \in Apids : cur # a => lastAppliedSDU[a] = Nil
    BY DEF PromiseInv, ArrivalInv, Remembered
  <2> QED
    BY <1>2, <1>5, <2>1 DEF vars, assemblerVars, link, shared, assembly
<1> QED
  BY <1>1, <1>3, <1>4, <1>5 DEF Next, TransportStep

-----------------------------------------------------------------------------
(* A step of FilePath is one of FileDelivery, or stutters. *)
LEMMA StepDelivers ==
    ASSUME TypeOK, PromiseInv, [Next]_vars
    PROVE  [Promise!DeliverFile \/ Promise!Expose]_<<received, exposed>>
<1>1. CASE Consume
  <2> DEFINE h == Head(LRITOutput)
             n == Len(received)
  <2>1. LRITOutput # << >> /\ received' = Append(received, h) /\ exposed' = exposed
    BY <1>1 DEF Consume, assemblerVars, shared
  <2>2. received \in Seq(FileType) /\ LRITOutput \in Seq(FileType)
    BY DEF TypeOK
  <2>3. h \in FileType /\ h \in ToSet(LRITOutput)
    <3>1. h \in ToSet(LRITOutput)
      BY <2>1, <2>2, OrderedLine DEF PromiseInv, LineInv
    <3>2. h \in FileType
      BY <2>1, <2>2
    <3> QED
      BY <3>1, <3>2
  <2>4. h.file \in exposed \/ Promise!Acceptable(h)
    BY <2>3 DEF PromiseInv, GoodInv, Fine
  <2>5. \A i \in DOMAIN received : Promise!Follows(received[i], h)
    <3>1. \A i \in DOMAIN received : received[i] \in ToSet(received)
      BY DEF ToSet
    <3> QED
      BY <2>3, <3>1 DEF PromiseInv, LineInv, Ahead
  <2> HIDE DEF h
  <2>6. /\ Len(received') = n + 1 /\ received'[n + 1] = h /\ n \in Nat
        /\ SubSeq(received', 1, n) = received /\ SubSeq(received, 1, n) = received
    BY <2>1, <2>2, <2>3
  <2>7. Promise!Last(received') = h
    BY <2>6, Zenon DEF Promise!Last
  <2>8. Promise!IsPrefix(received, received')
    BY <2>6 DEF Promise!IsPrefix
  <2> QED
    BY <2>1, <2>4, <2>5, <2>6, <2>7, <2>8 DEF Promise!DeliverFile
<1>2. CASE Frames /\ received' = received
  <2>1. PICK now \in pos+1 .. Len(stream) : \E come \in SUBSET (pos+1..now) :
           \E carried : \E bad \in BadHeaders : Deliver(come, carried, now, bad)
    BY <1>2 DEF Frames
  <2> PICK come \in SUBSET (pos+1..now) : \E carried : \E bad \in BadHeaders :
           Deliver(come, carried, now, bad)
    BY <2>1
  <2> PICK carried : \E bad \in BadHeaders : Deliver(come, carried, now, bad)
    OBVIOUS
  <2>2. exposed' = exposed \cup Exposed(come \ carried)
    BY DEF Deliver
  <2>3. ASSUME NEW i \in DOMAIN received, received[i].file \in Exposed(come \ carried)
        PROVE  FALSE
    <3>1. /\ stream \in Streams /\ pos \in 0..Len(stream) /\ Len(stream) \in Nat
          /\ Places = 1..Len(stream)
      BY PlaceAt DEF TypeOK, AssemblerTypeOK
    <3>2. PICK w \in come : stream[w][1] = received[i].file
      BY <2>3 DEF Exposed, InTheWay
    <3>3. w \in Undone
      BY <3>1, <3>2 DEF Undone, Done
    <3>4. ApidAt[w] = Meta[received[i].file].apid /\ stream[w][1] \in Nat
      BY <3>1, <3>2, <3>3, PlaceAt, MetaFacts DEF Undone
    <3>5. received[i] \in OnTheWay
      BY DEF OnTheWay, ToSet
    <3>6. received[i].file < stream[w][1]
      BY <3>3, <3>4, <3>5 DEF PromiseInv, AheadOfRest
    <3> QED
      BY <3>2, <3>4, <3>6
  <2> QED
    BY <1>2, <2>2, <2>3 DEF Promise!Expose
<1>3. CASE ~Consume /\ ~(Frames /\ received' = received)
  <2>1. ASSUME NEW s, ApplyStep(s) PROVE exposed' = exposed
    BY <2>1, StepFacts, AppliesFacts
  <2>2. ProcessAllAPIDs => exposed' = exposed
    BY <2>1 DEF ProcessAllAPIDs, ApplyStep, PickAPID, EndAPID, shared
  <2>3. exposed' = exposed /\ received' = received
    BY <1>3, <2>2 DEF Next, TransportStep, SessionStep, Layer!ProcessTransportFile, Layer!SendFile,
       vars, assemblerVars, shared
  <2> QED
    BY <2>3
<1> QED
  BY <1>1, <1>2, <1>3

(***************************************************************************)
(* FilePath implements FileDelivery: if first SDUs get through, nothing is *)
(* damaged and no row is left packed, and as long as no batch straddles a  *)
(* wrap of the counter, the application gets what the abstract             *)
(* specification promises, however many SDUs are lost.                     *)
(***************************************************************************)
THEOREM ImplementsFileDelivery ==
    ASSUME Benign
    PROVE  Spec /\ []Unwrapped => DeliverySpec
<1>1. Init => Promise!DeliveryInit
  BY DEF Init, AssemblerInit, Promise!DeliveryInit
<1>2. TypeOK /\ DeliveryInv /\ PromiseInv /\ Unwrapped /\ [Next]_vars => PromiseInv'
  BY PromiseNext DEF DeliveryInv
<1>3. TypeOK /\ PromiseInv /\ [Next]_vars
         => [Promise!DeliverFile \/ Promise!Expose]_<<received, exposed>>
  BY StepDelivers
<1> QED
  BY <1>1, <1>2, <1>3, TypeInit, TypeNext, DeliveryInit, DeliveryNext, PromiseInit, PTL
     DEF Spec, DeliverySpec, Promise!DeliverySpec

(* No stream has more SDUs of an APID than the counter counts. *)
FewSDUs ==
    \A S \in Streams : \A a \in Apids :
        Cardinality({i \in DOMAIN S : Meta[S[i][1]].apid = a}) <= CtrMod

(* Then no batch straddles a wrap. *)
LEMMA FewNeverWrap ==
    ASSUME FewSDUs, TypeOK
    PROVE  Unwrapped
<1> SUFFICES ASSUME NEW j \in Waiting, NEW k \in Waiting, ApidAt[j] = ApidAt[k], j < k
             PROVE  CtrAt[j] < CtrAt[k]
  BY DEF Unwrapped
<1> DEFINE early == {i \in 1..j-1 : ApidOf(i) = ApidOf(j)}
           late == {i \in 1..k-1 : ApidOf(i) = ApidOf(k)}
           all == {i \in DOMAIN stream : Meta[stream[i][1]].apid = ApidOf(k)}
<1>1. stream \in Streams
  BY DEF TypeOK, AssemblerTypeOK
<1>2. /\ Places = 1..Len(stream) /\ DOMAIN stream = Places /\ Len(stream) \in Nat
      /\ j \in Places /\ k \in Places
  BY <1>1, WaitingUndone, PlaceAt DEF Places
<1>3. /\ ApidOf(j) = ApidOf(k) /\ ApidOf(k) \in Apids
      /\ CtrAt[j] = Cardinality(early) % CtrMod /\ CtrAt[k] = Cardinality(late) % CtrMod
  BY <1>1, <1>2, PlaceFacts DEF ApidAt, CtrAt, Ctr
<1>4. early \cup {j} \subseteq late /\ j \notin early
  BY <1>2, <1>3
<1>5. late \cup {k} \subseteq all /\ k \notin late /\ all \subseteq 1..Len(stream)
  BY <1>2 DEF ApidOf
<1>6. Cardinality(all) <= CtrMod
  BY <1>1, <1>3 DEF FewSDUs
<1> HIDE DEF early, late, all
<1>7. IsFiniteSet(all)
  <2>1. IsFiniteSet(1..Len(stream))
    BY <1>2, FS_Interval
  <2> QED
    BY <1>5, <2>1, FS_Subset
<1>8. IsFiniteSet(late) /\ Cardinality(late) + 1 <= Cardinality(all)
  <2>1. IsFiniteSet(late) /\ IsFiniteSet(late \cup {k})
    BY <1>5, <1>7, FS_Subset
  <2> QED
    BY <1>5, <1>7, <2>1, FS_Subset, FS_AddElement
<1>9. IsFiniteSet(early) /\ Cardinality(early) + 1 <= Cardinality(late)
  <2>1. IsFiniteSet(early) /\ IsFiniteSet(early \cup {j})
    BY <1>4, <1>8, FS_Subset
  <2> QED
    BY <1>4, <1>8, <2>1, FS_Subset, FS_AddElement
<1>10. Cardinality(early) \in Nat /\ Cardinality(late) \in Nat /\ Cardinality(all) \in Nat
  BY <1>7, <1>8, <1>9, FS_CardinalityType
<1>11. CtrMod \in Nat /\ CtrMod > 1
  BY AssemblerAssumption
<1>12. \A n \in Nat : n < CtrMod => n % CtrMod = n
  BY <1>11
<1> QED
  BY <1>3, <1>6, <1>8, <1>9, <1>10, <1>11, <1>12

(***************************************************************************)
(* So nothing need be assumed of a behaviour if the counter is never to    *)
(* wrap.                                                                   *)
(***************************************************************************)
THEOREM FewImplementFileDelivery ==
    ASSUME Benign, FewSDUs
    PROVE  Spec => DeliverySpec
<1>1. TypeOK => Unwrapped
  BY FewNeverWrap
<1>2. Spec => []Unwrapped
  BY <1>1, TypeInit, TypeNext, PTL DEF Spec
<1> QED
  BY <1>2, ImplementsFileDelivery, PTL
=============================================================================
