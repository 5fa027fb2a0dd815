--------------------------- MODULE SegmentsProofs ---------------------------
(***************************************************************************)
(* Theorems about Segments for any nodes, any number and size of messages, *)
(* and any limits of the segmentation: type correctness, what is delivered *)
(* was sent, in order and once, and only what cannot be delivered makes a  *)
(* handler fail.                                                           *)
(***************************************************************************)
EXTENDS Segments, SumLemmas

----------------------------------------------------------------------------
(* Sizes.                                                                  *)

\* A start and a chunk carry data.
LEMMA Limits ==
    /\ MAX_START_DATA_SIZE \in Nat /\ MAX_START_DATA_SIZE > 9
    /\ MAX_CHUNK_SIZE \in Nat /\ MAX_CHUNK_SIZE > 11
    /\ MAX_BUF_SIZE \in Nat /\ MAX_BUF_SIZE + 2 > MAX_START_DATA_SIZE
    /\ MAX_DATA_SIZE \in Nat /\ MAX_SEGMENTS \in Nat /\ MAX_SEGMENTS >= 2
BY SizesAssumption DEF MAX_START_DATA_SIZE, MAX_CHUNK_SIZE, MAX_BUF_SIZE

\* As many chunks as are needed for len bytes: all but the last are full.
LEMMA Chunks ==
    ASSUME NEW len \in Nat, len > 0, NEW c \in Nat, c > 0, NEW n,
           n = len \div c + (IF len % c # 0 THEN 1 ELSE 0)
    PROVE  n \in Nat /\ n > 0 /\ n * c >= len /\ (n - 1) * c < len
<1>1. PICK q, r : q = len \div c /\ r = len % c
  OBVIOUS
<1>2. q \in Nat /\ r \in 0 .. (c - 1) /\ len = c * q + r
  BY <1>1
<1>3. CASE r = 0
  <2>1. n = q /\ c * q = len
    BY <1>1, <1>2, <1>3
  <2>2. q * c = c * q /\ (q - 1) * c = c * q - c
    BY <1>2
  <2>3. q # 0
    BY <2>1
  <2> QED
    BY <1>2, <2>1, <2>2, <2>3
<1>4. CASE r # 0
  <2>1. n = q + 1
    BY <1>1, <1>4
  <2>2. (q + 1) * c = c * q + c /\ (q + 1 - 1) * c = c * q
    BY <1>2
  <2> QED
    BY <1>2, <1>4, <2>1, <2>2
<1> QED
  BY <1>3, <1>4

\* A product grows with its factor.
LEMMA ProductGrows ==
    ASSUME NEW a \in Nat, NEW b \in Nat, a <= b, NEW c \in Nat
    PROVE  a * c \in Nat /\ a * c <= b * c
<1>1. PICK d \in Nat : b = a + d
  <2>1. b - a \in Nat /\ b = a + (b - a)
    OBVIOUS
  <2> QED
    BY <2>1
<1>2. b * c = a * c + d * c /\ d * c \in Nat /\ a * c \in Nat
  BY <1>1
<1> QED
  BY <1>2

\* Different factors make different products.
LEMMA ProductsDiffer ==
    ASSUME NEW a \in Nat, NEW b \in Nat, NEW c \in Nat, c > 0, a * c = b * c
    PROVE  a = b
<1>1. ASSUME NEW x \in Nat, NEW y \in Nat, x < y PROVE x * c # y * c
  <2>1. (x + 1) * c <= y * c /\ (x + 1) * c = x * c + c /\ x * c \in Nat /\ y * c \in Nat
    BY <1>1, ProductGrows
  <2> QED
    BY <2>1
<1>2. a < b \/ b < a \/ a = b
  OBVIOUS
<1> QED
  BY <1>1, <1>2

\* The number of segments of a long message.
LEMMA Segmentation ==
    ASSUME NEW size \in Nat, size > MAX_BUF_SIZE, NEW nb, nb = nb_segments(size)
    PROVE  /\ nb \in Nat /\ nb >= 2
           /\ MAX_START_DATA_SIZE + (nb - 1) * MAX_CHUNK_SIZE >= size + 2
           /\ MAX_START_DATA_SIZE + (nb - 2) * MAX_CHUNK_SIZE < size + 2
<1>1. PICK c : c = MAX_CHUNK_SIZE
  OBVIOUS
<1>2. PICK len : len = size - MAX_START_DATA_SIZE + 2
  OBVIOUS
<1>3. c \in Nat /\ c > 0 /\ len \in Nat /\ len > 0
  BY <1>1, <1>2, Limits
<1>4. PICK n : n = len \div c + (IF len % c # 0 THEN 1 ELSE 0)
  OBVIOUS
<1>5. n \in Nat /\ n > 0 /\ n * c >= len /\ (n - 1) * c < len
  BY <1>3, <1>4, Chunks
<1>6. nb = n + 1
  <2>1. nb = len \div c + 1 + (IF len % c # 0 THEN 1 ELSE 0)
    BY <1>1, <1>2 DEF nb_segments
  <2>2. len \div c \in Nat
    BY <1>3
  <2> QED
    BY <1>4, <2>1, <2>2
<1>7. nb - 1 = n /\ nb - 2 = n - 1
  BY <1>5, <1>6
<1>8. n * c \in Int /\ (n - 1) * c \in Int
  BY <1>3, <1>5
<1>9. (nb - 1) * c >= len /\ (nb - 2) * c < len
  BY <1>5, <1>7
<1>10. (nb - 1) * c \in Int /\ (nb - 2) * c \in Int
  BY <1>7, <1>8
<1>11. MAX_START_DATA_SIZE + (nb - 1) * c >= size + 2 /\ MAX_START_DATA_SIZE + (nb - 2) * c < size + 2
  BY <1>2, <1>9, <1>10, Limits
<1> QED
  BY <1>1, <1>5, <1>6, <1>11
----------------------------------------------------------------------------
(* Sequences.                                                              *)

\* c is what a holds and then what b holds.
Joined(c, a, b, X) ==
    /\ c \in Seq(X) /\ Len(c) = Len(a) + Len(b) /\ Len(a) \in Nat /\ Len(b) \in Nat
    /\ \A k \in 1 .. Len(a) : c[k] = a[k]
    /\ \A k \in 1 .. Len(b) : c[Len(a) + k] = b[k]

\* A concatenation is that.
LEMMA Concatenated ==
    ASSUME NEW X, NEW a \in Seq(X), NEW b \in Seq(X)
    PROVE  Joined(a \o b, a, b, X)
BY DEF Joined

----------------------------------------------------------------------------
(* The entries of a queue for one peer.                                    *)

\* place enumerates the positions in mine in their order.
InOrder(place, m, mine) ==
    /\ place \in [1 .. m -> mine]
    /\ \A k \in 1 .. m, l \in 1 .. m : k < l => place[k] < place[l]
    /\ \A j \in mine : \E k \in 1 .. m : place[k] = j

\* How many members of mine there are up to each.
Ranks(rank, m, mine) ==
    /\ rank \in [mine -> 1 .. m]
    /\ \A i \in mine, j \in mine : i < j => rank[i] < rank[j]
    /\ \A k \in 1 .. m : \E j \in mine : rank[j] = k

\* Every number up to the size of a finite set of positions is the rank of one of them.
LEMMA RanksExist ==
    ASSUME NEW mine, NEW n \in Nat, mine \subseteq 1 .. n, NEW rank,
           rank = [j \in mine |-> Cardinality({i \in mine : i <= j})]
    PROVE  Cardinality(mine) \in Nat /\ Ranks(rank, Cardinality(mine), mine)
<1> DEFINE Upto(j) == {i \in mine : i <= j}
           m == Cardinality(mine)
<1>1. IsFiniteSet(mine)
  <2>1. IsFiniteSet(1 .. n)
    BY FS_Interval
  <2> QED
    BY <2>1, FS_Subset
<1>2. m \in Nat
  BY <1>1, FS_CardinalityType
<1>3. ASSUME NEW j \in mine
      PROVE  IsFiniteSet(Upto(j)) /\ Cardinality(Upto(j)) \in 1 .. m
  <2>1. Upto(j) \in SUBSET mine /\ Upto(j) # {}
    <3>1. j \in Upto(j)
      OBVIOUS
    <3> QED
      BY <3>1
  <2>2. IsFiniteSet(Upto(j)) /\ Cardinality(Upto(j)) <= m
    BY <1>1, <2>1, FS_Subset
  <2>3. Cardinality(Upto(j)) \in Nat /\ Cardinality(Upto(j)) # 0
    BY <2>1, <2>2, FS_CardinalityType, FS_EmptySet
  <2> HIDE DEF Upto, m
  <2> QED
    BY <1>2, <2>2, <2>3
<1>4. rank \in [mine -> 1 .. m] /\ \A j \in mine : rank[j] = Cardinality(Upto(j))
  <2> HIDE DEF m
  <2> QED
    BY <1>3
<1>5. ASSUME NEW i \in mine, NEW j \in mine, i < j
      PROVE  rank[i] < rank[j]
  <2>1. Upto(i) \in SUBSET Upto(j) /\ Upto(i) # Upto(j)
    <3>1. j \in Upto(j) /\ j \notin Upto(i)
      BY <1>5
    <3>2. \A k \in Upto(i) : k \in Upto(j)
      BY <1>5
    <3> HIDE DEF Upto
    <3> QED
      BY <3>1, <3>2
  <2>2. Cardinality(Upto(i)) <= Cardinality(Upto(j)) /\ Cardinality(Upto(i)) # Cardinality(Upto(j))
    <3>1. IsFiniteSet(Upto(j))
      BY <1>3
    <3> HIDE DEF Upto
    <3> QED
      BY <2>1, <3>1, FS_Subset
  <2>3. rank[i] \in Int /\ rank[j] \in Int /\ rank[i] <= rank[j] /\ rank[i] # rank[j]
    <3> HIDE DEF Upto, m
    <3> QED
      BY <1>2, <1>4, <2>2
  <2> QED
    BY <2>3
<1>6. rank \in Injection(mine, 1 .. m)
  <2>1. \A i, j \in mine : rank[i] = rank[j] => i = j
    <3> SUFFICES ASSUME NEW i \in mine, NEW j \in mine, rank[i] = rank[j], i # j PROVE FALSE
      OBVIOUS
    <3>1. i < j \/ j < i
      OBVIOUS
    <3>2. rank[i] < rank[j] \/ rank[j] < rank[i]
      BY <1>5, <3>1
    <3>3. rank[i] \in Int /\ rank[j] \in Int
      BY <1>2, <1>4
    <3> QED
      BY <3>2, <3>3
  <2> HIDE DEF m
  <2> QED
    BY <1>4, <2>1 DEF Injection, IsInjective
<1>7. rank \in Surjection(mine, 1 .. m)
  <2>1. IsFiniteSet(1 .. m) /\ Cardinality(1 .. m) = m
    BY <1>2, FS_Interval
  <2> QED
    BY <1>6, <2>1, FS_Injection
<1>8. \A k \in 1 .. m : \E j \in mine : rank[j] = k
  BY <1>7 DEF Surjection
<1> HIDE DEF m
<1>9. Ranks(rank, m, mine)
  BY <1>4, <1>5, <1>8 DEF Ranks
<1> QED
  BY <1>2, <1>9 DEF m

\* The inverse of the ranks enumerates the positions.
LEMMA Enumeration ==
    ASSUME NEW mine, NEW n \in Nat, mine \subseteq 1 .. n, NEW m \in Nat, NEW rank, Ranks(rank, m, mine),
           NEW place, DOMAIN place = 1 .. m, place = [k \in 1 .. m |-> place[k]],
           \A k \in 1 .. m : place[k] \in mine /\ rank[place[k]] = k
    PROVE  InOrder(place, m, mine)
<1>1. place \in [1 .. m -> mine]
  OBVIOUS
<1>2. \A i \in mine, j \in mine : rank[i] = rank[j] => i = j
  <2> SUFFICES ASSUME NEW i \in mine, NEW j \in mine, rank[i] = rank[j], i # j PROVE FALSE
    OBVIOUS
  <2>1. i < j \/ j < i
    OBVIOUS
  <2>2. rank[i] \in Int /\ rank[j] \in Int
    BY DEF Ranks
  <2> QED
    BY <2>1, <2>2 DEF Ranks
<1>3. ASSUME NEW k \in 1 .. m, NEW l \in 1 .. m, k < l PROVE place[k] < place[l]
  <2>1. /\ place[k] \in mine /\ place[l] \in mine
        /\ rank[place[k]] = k /\ rank[place[l]] = l /\ k # l
    BY <1>3
  <2>2. place[k] \in Int /\ place[l] \in Int /\ place[k] # place[l]
    BY <2>1
  <2>3. ~(place[l] < place[k])
    BY <1>3, <2>1 DEF Ranks
  <2> QED
    BY <2>2, <2>3
<1>4. ASSUME NEW j \in mine PROVE \E k \in 1 .. m : place[k] = j
  <2>1. rank[j] \in 1 .. m
    BY DEF Ranks
  <2> QED
    BY <1>2, <2>1
<1> QED
  BY <1>1, <1>3, <1>4 DEF InOrder

\* f consists of the entries of the queue for p, in the queue's order.
Selection(f, queue, p) ==
    \E m \in Nat : \E place :
        /\ InOrder(place, m, {j \in DOMAIN queue : queue[j][1] = p})
        /\ f = [k \in 1 .. m |-> queue[place[k]][2]]

\* What For takes out of a queue.
LEMMA ForIsInOrder ==
    ASSUME NEW X, NEW queue \in Seq(X), NEW p
    PROVE  Selection(For(queue, p), queue, p)
<1> DEFINE mine == {j \in DOMAIN queue : queue[j][1] = p}
           m == Cardinality(mine)
           Upto(j) == {i \in mine : i <= j}
           Place(k) == CHOOSE j \in mine : Cardinality(Upto(j)) = k
           rank == [j \in mine |-> Cardinality(Upto(j))]
           place == [k \in 1 .. m |-> Place(k)]
<1>1. mine \subseteq 1 .. Len(queue) /\ Len(queue) \in Nat
  OBVIOUS
<1>2. m \in Nat /\ Ranks(rank, m, mine)
  BY <1>1, RanksExist
<1>3. For(queue, p) = [k \in 1 .. m |-> queue[Place(k)][2]]
  BY Zenon DEF For
<1> HIDE DEF mine
<1>4. \A j \in mine : rank[j] = Cardinality(Upto(j))
  OBVIOUS
<1> HIDE DEF m, Upto, rank
<1>5. ASSUME NEW k \in 1 .. m PROVE Place(k) \in mine /\ rank[Place(k)] = k
  <2>1. \E j \in mine : Cardinality(Upto(j)) = k
    BY <1>2, <1>4 DEF Ranks
  <2>2. Place(k) \in mine /\ Cardinality(Upto(Place(k))) = k
    BY <2>1
  <2> QED
    BY <1>4, <2>2
<1> HIDE DEF Place
<1>6. DOMAIN place = 1 .. m /\ place = [k \in 1 .. m |-> place[k]] /\ \A k \in 1 .. m : place[k] = Place(k)
  OBVIOUS
<1>7. For(queue, p) = [k \in 1 .. m |-> queue[place[k]][2]]
  BY <1>3, <1>6
<1> HIDE DEF place
<1>8. InOrder(place, m, mine)
  BY <1>1, <1>2, <1>5, <1>6, Enumeration
<1>9. \E pl : InOrder(pl, m, mine) /\ For(queue, p) = [k \in 1 .. m |-> queue[pl[k]][2]]
  BY <1>7, <1>8
<1> QED
  BY <1>2, <1>9, Zenon DEF mine, Selection
----------------------------------------------------------------------------
(* The parts of a message.                                                 *)

Types == {"Message", "SegmentStart", "SegmentChunk"}
PiecesOf(i) == [type : Types, msg : {i}, lo : Nat, hi : Nat, nb : Nat]

\* They cover the message from its first byte to its last, all chunks but the last are full, and
\* none is too long for the transport if it is a segment.
AreParts(parts, i, size) ==
    /\ parts \in Seq(PiecesOf(i)) /\ Len(parts) >= 1
    /\ parts[1].lo = 1 /\ parts[Len(parts)].hi = size + 2
    /\ size <= MAX_BUF_SIZE => Len(parts) = 1 /\ parts[1].type = "Message"
    /\ size > MAX_BUF_SIZE =>
          /\ Len(parts) = nb_segments(size) /\ Len(parts) >= 2
          /\ parts[1].type = "SegmentStart" /\ parts[1].nb = Len(parts)
          /\ Size(parts[1]) = MAX_START_DATA_SIZE
    /\ \A k \in 2 .. Len(parts) :
          /\ parts[k].type = "SegmentChunk" /\ parts[k].lo = parts[k - 1].hi + 1
          /\ Size(parts[k]) <= MAX_CHUNK_SIZE
          /\ k < Len(parts) => Size(parts[k]) = MAX_CHUNK_SIZE
    /\ \A k, l \in 1 .. Len(parts) : parts[k] = parts[l] => k = l

\* get_segments splits a long message like that, and a short one is one part.
LEMMA PartsCover ==
    ASSUME NEW i, NEW size \in Nat
    PROVE  AreParts(Parts(i, size), i, size)
<1>0. PICK parts : parts = Parts(i, size)
  OBVIOUS
<1>1. CASE size <= MAX_BUF_SIZE
  <2>1. ~(size > MAX_BUF_SIZE)
    BY <1>1, Limits
  <2>2. PICK w : w = WireMessage(i, size)
    OBVIOUS
  <2>3. parts = << w >>
    BY <1>0, <2>1, <2>2 DEF Parts
  <2>4. w \in PiecesOf(i) /\ w.lo = 1 /\ w.hi = size + 2 /\ w.type = "Message"
    BY <2>2 DEF WireMessage, PiecesOf, Types
  <2>5. parts \in Seq(PiecesOf(i)) /\ Len(parts) = 1 /\ parts[1] = w
    BY <2>3, <2>4
  <2>6. (\A k \in 2 .. Len(parts) : FALSE) /\ (\A k, l \in 1 .. Len(parts) : k = l)
    BY <2>5
  <2> QED
    BY <1>0, <2>1, <2>4, <2>5, <2>6 DEF AreParts
<1>2. CASE size > MAX_BUF_SIZE
  <2>1. PICK nb : nb = nb_segments(size)
    OBVIOUS
  <2>2. /\ nb \in Nat /\ nb >= 2
        /\ MAX_START_DATA_SIZE + (nb - 1) * MAX_CHUNK_SIZE >= size + 2
        /\ MAX_START_DATA_SIZE + (nb - 2) * MAX_CHUNK_SIZE < size + 2
    BY <1>2, <2>1, Segmentation
  <2> DEFINE Lo(k) == MAX_START_DATA_SIZE + (k - 1) * MAX_CHUNK_SIZE + 1
             End(k) == Lo(k) + MAX_CHUNK_SIZE - 1
             Hi(k) == IF End(k) > size + 2 THEN size + 2 ELSE End(k)
             Chunk(k) == [type |-> "SegmentChunk", msg |-> i, lo |-> Lo(k), hi |-> Hi(k), nb |-> 0]
             start == [type |-> "SegmentStart", msg |-> i, lo |-> 1, hi |-> MAX_START_DATA_SIZE, nb |-> nb]
             chunks == [k \in 1 .. (nb - 1) |-> Chunk(k)]
  <2>3. parts = << start >> \o chunks
    BY <1>0, <1>2, <2>1, Zenon DEF Parts, get_segments
  <2>4. ASSUME NEW k \in 1 .. (nb - 1)
        PROVE  /\ Lo(k) \in Nat /\ Hi(k) \in Nat /\ Hi(k) - Lo(k) + 1 <= MAX_CHUNK_SIZE
               /\ k < nb - 1 => Hi(k) = End(k) /\ Hi(k) + 1 = Lo(k + 1)
               /\ k = nb - 1 => Hi(k) = size + 2
    <3>1. PICK c \in Nat, s \in Nat : c = MAX_CHUNK_SIZE /\ s = MAX_START_DATA_SIZE /\ c > 11 /\ s > 9
      BY Limits
    <3>2. PICK before \in Nat : before = (k - 1) * c
      <4>1. k - 1 \in Nat
        OBVIOUS
      <4> QED
        BY <4>1
    <3>3. k * c = before + c
      BY <3>2
    <3>4. Lo(k) = s + before + 1 /\ End(k) = s + before + c /\ Lo(k + 1) = s + before + c + 1
      <4>1. (k + 1 - 1) * c = k * c
        OBVIOUS
      <4> QED
        BY <3>1, <3>2, <3>3, <4>1
    <3>5. CASE k < nb - 1
      <4>1. k * c <= (nb - 2) * c /\ (nb - 2) * c \in Nat
        BY <2>2, <3>5, ProductGrows
      <4>2. s + (nb - 2) * c < size + 2
        BY <2>2, <3>1
      <4>3. End(k) <= size + 2
        BY <3>3, <3>4, <4>1, <4>2
      <4> QED
        BY <3>1, <3>4, <3>5, <4>3
    <3>6. CASE k = nb - 1
      <4>1. s + k * c >= size + 2
        BY <2>2, <3>1, <3>6
      <4>2. End(k) >= size + 2
        BY <3>3, <3>4, <4>1
      <4>3. Hi(k) = size + 2
        BY <3>4, <4>2
      <4> QED
        BY <3>1, <3>4, <3>6, <4>2, <4>3
    <3>7. k < nb - 1 \/ k = nb - 1
      BY <2>2
    <3> HIDE DEF Lo, End, Hi
    <3> QED
      BY <3>5, <3>6, <3>7
  <2>5. \A k \in 1 .. (nb - 1) : Chunk(k) \in PiecesOf(i)
    <3> HIDE DEF Lo, Hi
    <3> QED
      BY <2>4 DEF PiecesOf, Types
  <2>6. start \in PiecesOf(i)
    BY <2>2, Limits DEF PiecesOf, Types
  <2>7. chunks \in Seq(PiecesOf(i)) /\ Len(chunks) = nb - 1
    <3> HIDE DEF Chunk
    <3> QED
      BY <2>2, <2>5
  <2>8. /\ parts \in Seq(PiecesOf(i)) /\ Len(parts) = nb /\ parts[1] = start
        /\ \A k \in 2 .. nb : parts[k] = Chunk(k - 1)
    <3>1. << start >> \in Seq(PiecesOf(i)) /\ Len(<< start >>) = 1 /\ << start >>[1] = start
      BY <2>6
    <3>2. \A k \in 1 .. (nb - 1) : chunks[k] = Chunk(k)
      OBVIOUS
    <3> HIDE DEF start, chunks, Chunk
    <3>3. parts \in Seq(PiecesOf(i)) /\ Len(parts) = nb /\ parts[1] = start
      BY <2>2, <2>3, <2>7, <3>1
    <3>4. \A k \in 2 .. nb : parts[k] = chunks[k - 1]
      BY <2>2, <2>3, <2>7, <3>1
    <3> QED
      BY <2>2, <3>2, <3>3, <3>4
  <2>9. /\ start.lo = 1 /\ start.hi = MAX_START_DATA_SIZE /\ start.type = "SegmentStart" /\ start.nb = nb
        /\ \A k : Chunk(k).lo = Lo(k) /\ Chunk(k).hi = Hi(k) /\ Chunk(k).type = "SegmentChunk"
    OBVIOUS
  <2>10. Lo(1) = MAX_START_DATA_SIZE + 1
    <3>1. (1 - 1) * MAX_CHUNK_SIZE = 0
      BY Limits
    <3> QED
      BY <3>1, Limits
  <2>11. \A k \in 1 .. (nb - 1) : k < nb - 1 => Hi(k) - Lo(k) + 1 = MAX_CHUNK_SIZE
    <3> SUFFICES ASSUME NEW k \in 1 .. (nb - 1), k < nb - 1 PROVE Hi(k) - Lo(k) + 1 = MAX_CHUNK_SIZE
      OBVIOUS
    <3>1. Hi(k) = Lo(k) + MAX_CHUNK_SIZE - 1 /\ Lo(k) \in Nat
      BY <2>4
    <3> HIDE DEF Lo, Hi
    <3> QED
      BY <3>1, Limits
  <2>12. \A k \in 1 .. (nb - 1) : Lo(k) > 1 /\ \A l \in 1 .. (nb - 1) : Lo(k) = Lo(l) => k = l
    <3> SUFFICES ASSUME NEW k \in 1 .. (nb - 1), NEW l \in 1 .. (nb - 1)
                 PROVE  Lo(k) > 1 /\ (Lo(k) = Lo(l) => k = l)
      BY <2>2
    <3>1. k - 1 \in Nat /\ l - 1 \in Nat
      OBVIOUS
    <3>2. (k - 1) * MAX_CHUNK_SIZE \in Nat /\ (l - 1) * MAX_CHUNK_SIZE \in Nat
      BY <3>1, Limits
    <3>3. Lo(k) > 1
      BY <3>2, Limits
    <3>4. ASSUME Lo(k) = Lo(l) PROVE k = l
      <4>1. (k - 1) * MAX_CHUNK_SIZE = (l - 1) * MAX_CHUNK_SIZE
        BY <3>2, <3>4, Limits
      <4>2. k - 1 = l - 1
        BY <3>1, <4>1, Limits, ProductsDiffer
      <4> QED
        BY <4>2
    <3> HIDE DEF Lo
    <3> QED
      BY <3>3, <3>4
  <2> HIDE DEF start, Chunk, Lo, Hi
  <2>13. ASSUME NEW k \in 1 .. Len(parts), NEW l \in 1 .. Len(parts), parts[k] = parts[l]
         PROVE  k = l
    <3>1. ASSUME NEW j \in 2 .. nb PROVE j - 1 \in 1 .. (nb - 1) /\ parts[j].lo = Lo(j - 1)
      BY <2>8, <2>9, <2>2
    <3>2. parts[1].lo = 1
      BY <2>8, <2>9
    <3>3. k = 1 \/ k \in 2 .. nb
      BY <2>8
    <3>4. l = 1 \/ l \in 2 .. nb
      BY <2>8
    <3>5. CASE k = 1
      BY <3>1, <3>2, <3>4, <3>5, <2>12, <2>13
    <3>6. CASE l = 1
      BY <3>1, <3>2, <3>3, <3>6, <2>12, <2>13
    <3>7. CASE k \in 2 .. nb /\ l \in 2 .. nb
      <4>1. k - 1 = l - 1
        BY <2>12, <2>13, <3>1, <3>7
      <4> QED
        BY <3>7, <4>1
    <3> QED
      BY <3>3, <3>4, <3>5, <3>6, <3>7
  <2>14. ASSUME NEW k \in 2 .. Len(parts)
         PROVE  /\ parts[k].type = "SegmentChunk" /\ parts[k].lo = parts[k - 1].hi + 1
                /\ Size(parts[k]) <= MAX_CHUNK_SIZE
                /\ k < Len(parts) => Size(parts[k]) = MAX_CHUNK_SIZE
    <3>1. PICK j \in 1 .. (nb - 1) : j = k - 1
      BY <2>2, <2>8
    <3>2. parts[k].type = "SegmentChunk" /\ parts[k].lo = Lo(j) /\ parts[k].hi = Hi(j)
      BY <2>8, <2>9, <3>1
    <3>3. Size(parts[k]) = Hi(j) - Lo(j) + 1
      BY <3>2 DEF Size
    <3>4. k < Len(parts) => j < nb - 1
      BY <2>2, <2>8, <3>1
    <3>5. parts[k - 1].hi + 1 = Lo(j)
      <4>1. CASE j = 1
        BY <2>8, <2>9, <2>10, <3>1, <4>1
      <4>2. CASE j # 1
        <5>1. PICK l \in 1 .. (nb - 1) : l = j - 1 /\ l < nb - 1 /\ l + 1 = j
          BY <4>2, <2>2
        <5>2. parts[k - 1] = Chunk(l)
          <6>1. k - 1 \in 2 .. nb /\ k - 1 - 1 = l
            BY <2>2, <2>8, <3>1, <5>1
          <6> QED
            BY <2>8, <6>1
        <5>3. parts[k - 1].hi = Hi(l) /\ Hi(l) + 1 = Lo(l + 1)
          BY <2>4, <2>9, <5>1, <5>2
        <5> QED
          BY <5>1, <5>3
      <4> QED
        BY <4>1, <4>2
    <3> QED
      BY <2>4, <2>11, <3>2, <3>3, <3>4, <3>5
  <2>15. parts[Len(parts)].hi = size + 2
    <3>1. nb - 1 \in 1 .. (nb - 1) /\ nb \in 2 .. nb
      BY <2>2
    <3>2. parts[nb] = Chunk(nb - 1) /\ Hi(nb - 1) = size + 2
      BY <2>4, <2>8, <3>1
    <3> QED
      BY <2>8, <2>9, <3>2
  <2>16. ~(size <= MAX_BUF_SIZE)
    BY <1>2, Limits
  <2>17. Size(parts[1]) = MAX_START_DATA_SIZE
    BY <2>8, <2>9, Limits DEF Size
  <2> QED
    BY <1>0, <2>1, <2>2, <2>8, <2>9, <2>14, <2>15, <2>16, <2>17, <2>13 DEF AreParts
<1> QED
  BY <1>1, <1>2, Limits
----------------------------------------------------------------------------
(* The invariant.  s stands for sent, q for a queue, u, v and w for        *)
(* pieces, r for a reader and d for what a handler has delivered.          *)

Sent == Seq([from : Nodes, to : Nodes, kind : STRING, size : Nat])
Readers == [cur_data : Seq(Pieces), remaining_segments : Nat]

PartsIn(s, i) == Parts(i, s[i].size)

\* w is the part number k of its message.
Part(s, w, k) ==
    w.msg \in DOMAIN s /\ k \in DOMAIN PartsIn(s, w.msg) /\ w = PartsIn(s, w.msg)[k]

IsPart(s, w) == w.msg \in DOMAIN s /\ \E k \in DOMAIN PartsIn(s, w.msg) : Part(s, w, k)
First(s, w) == Part(s, w, 1)
Last(s, w) == Part(s, w, Len(PartsIn(s, w.msg)))

\* Directly after u comes v: the next part of the same message, or the start of a later one.
Follows(s, u, v) ==
    \/ u.msg = v.msg /\ \E k \in DOMAIN PartsIn(s, u.msg) : Part(s, u, k) /\ Part(s, v, k + 1)
    \/ u.msg < v.msg /\ Last(s, u) /\ First(s, v)

\* Messages one after the other, in the order in which they were sent; the first one may be cut.
Stream(s, q) ==
    /\ q \in Seq(Pieces)
    /\ \A k \in 1 .. Len(q) : IsPart(s, q[k])
    /\ \A k \in 1 .. (Len(q) - 1) : Follows(s, q[k], q[k + 1])
    /\ \A j, k \in 1 .. Len(q) : j <= k => q[j].msg <= q[k].msg
    /\ q # <<>> => Last(s, q[Len(q)])

\* The pieces in a queue.
Line(q) == [k \in 1 .. Len(q) |-> q[k][2]]

\* The queue of n holds whole messages of n, each part with the peer it is for.
QueueOK(s, q, n) ==
    /\ q \in Seq(Nodes \X Pieces)
    /\ Stream(s, Line(q))
    /\ q # <<>> => First(s, q[1][2])
    /\ \A k \in 1 .. Len(q) : s[q[k][2].msg].from = n /\ s[q[k][2].msg].to = q[k][1]

\* What a reader keeps are the first parts of a message of several, and it counts the others.
Collects(s, r, i) ==
    /\ i \in DOMAIN s /\ s[i].size > MAX_BUF_SIZE
    /\ Len(r.cur_data) \in 1 .. (Len(PartsIn(s, i)) - 1) /\ Len(PartsIn(s, i)) <= MAX_SEGMENTS
    /\ r.remaining_segments = Len(PartsIn(s, i)) - Len(r.cur_data)
    /\ \A k \in 1 .. Len(r.cur_data) : r.cur_data[k] = PartsIn(s, i)[k]

ReaderOK(s, r) ==
    /\ r \in Readers
    /\ r # NewReader => r.cur_data # <<>> /\ Collects(s, r, r.cur_data[1].msg)

\* w is the part that r waits for.
Continues(s, r, w) ==
    /\ r.cur_data # <<>> /\ w.msg = r.cur_data[1].msg
    /\ Part(s, w, Len(r.cur_data) + 1)

\* What travels from p to n starts with a message, or with the part that the reader waits for.
WireOK(s, w, r, p, n) ==
    /\ Stream(s, w)
    /\ \A k \in 1 .. Len(w) : s[w[k].msg].from = p /\ s[w[k].msg].to = n
    /\ w # <<>> => First(s, w[1]) \/ Continues(s, r, w[1])

DeliveredOK(s, d, n) ==
    /\ d \in Seq(Nodes \X Nat)
    /\ \A k \in 1 .. Len(d) : d[k][2] \in DOMAIN s /\ s[d[k][2]].from = d[k][1] /\ s[d[k][2]].to = n
    /\ \A j, k \in 1 .. Len(d) : j < k /\ d[j][1] = d[k][1] => d[j][2] < d[k][2]

\* What was sent later is behind: of p's messages n has delivered the oldest, and the queue holds
\* the newest.
Behind(d, w, q, p, n) ==
    /\ \A k \in 1 .. Len(d), j \in 1 .. Len(w) : d[k][1] = p => d[k][2] < w[j].msg
    /\ \A k \in 1 .. Len(d), j \in 1 .. Len(q) : d[k][1] = p /\ q[j][1] = n => d[k][2] < q[j][2].msg
    /\ \A k \in 1 .. Len(w), j \in 1 .. Len(q) : q[j][1] = n => w[k].msg < q[j][2].msg

Pairs == {{l[1], l[2]} : l \in {l \in Nodes \X Nodes : l[1] # l[2]}}

\* The state is well formed, and what is not sent over a connection is not in flight.
Shape ==
    /\ sent \in Sent /\ Len(sent) <= MaxSends
    /\ \A i \in 1 .. Len(sent) : << sent[i].from, sent[i].to >> \in Routes
    /\ msg_events \in [Nodes -> Seq(Nodes \X Pieces)]
    /\ msg_received \in [Nodes -> Seq(Nodes \X Nat)]
    /\ taken \in [Nodes -> Seq(Nodes \X Nat)]
    /\ segment_readers \in [Nodes -> [Nodes -> Readers]]
    /\ wire \in [Nodes -> [Nodes -> Seq(Pieces)]]
    /\ links \subseteq Pairs
    /\ panicked \subseteq Nodes
    /\ \A n, p \in Nodes : wire[n][p] # <<>> => {n, p} \in links

Blame(s, b) == b \subseteq DOMAIN s /\ \A i \in b : Undeliverable(s[i])

NodeOK(s, q, d, n) == QueueOK(s, q, n) /\ DeliveredOK(s, d, n)
PairOK(s, q, w, r, d, p, n) == ReaderOK(s, r) /\ WireOK(s, w, r, p, n) /\ Behind(d, w, q, p, n)

SegmentsInv ==
    /\ Shape
    /\ Blame(sent, blamed)
    /\ \A n \in Nodes : NodeOK(sent, msg_events[n], Delivered(n), n)
    /\ \A p, n \in Nodes :
          PairOK(sent, msg_events[p], wire[p][n], segment_readers[n][p], Delivered(n), p, n)
----------------------------------------------------------------------------
(* Parts and streams.                                                      *)

\* What the parts of a message that was sent are.
LEMMA PartsOfSent ==
    ASSUME NEW s \in Sent, Len(s) <= MaxSends, NEW i \in DOMAIN s
    PROVE  /\ i \in 1 .. MaxSends /\ s[i].size \in Nat
           /\ AreParts(PartsIn(s, i), i, s[i].size)
           /\ PartsIn(s, i) \in Seq(Pieces) /\ Len(PartsIn(s, i)) >= 1
           /\ DOMAIN PartsIn(s, i) = 1 .. Len(PartsIn(s, i))
           /\ \A k \in 1 .. Len(PartsIn(s, i)) : PartsIn(s, i)[k].msg = i
<1>1. i \in 1 .. MaxSends /\ s[i].size \in Nat
  <2>1. PICK M : M = [from : Nodes, to : Nodes, kind : STRING, size : Nat]
    OBVIOUS
  <2>2. s \in Seq(M)
    BY <2>1, Zenon DEF Sent
  <2>3. i \in 1 .. Len(s) /\ Len(s) \in Nat /\ s[i] \in M
    BY <2>2
  <2>4. \A m \in M : m.size \in Nat
    BY <2>1
  <2> QED
    BY <2>3, <2>4, SizesAssumption
<1>2. PICK parts : parts = PartsIn(s, i)
  OBVIOUS
<1>3. AreParts(parts, i, s[i].size)
  BY <1>1, <1>2, PartsCover DEF PartsIn
<1>4. parts \in Seq(PiecesOf(i)) /\ Len(parts) >= 1
  BY <1>3 DEF AreParts
<1>5. \A w \in PiecesOf(i) : w \in Pieces /\ w.msg = i
  BY <1>1 DEF PiecesOf, Types, Pieces
<1>6. DOMAIN parts = 1 .. Len(parts) /\ \A k \in 1 .. Len(parts) : parts[k] \in PiecesOf(i)
  BY <1>4
<1>7. parts \in Seq(Pieces)
  BY <1>4, <1>5
<1> QED
  BY <1>1, <1>2, <1>3, <1>4, <1>5, <1>6, <1>7

\* A part is a piece of a message that was sent.
LEMMA PartIsPiece ==
    ASSUME NEW s \in Sent, Len(s) <= MaxSends, NEW w, IsPart(s, w)
    PROVE  w \in Pieces /\ w.msg \in 1 .. Len(s)
<1>1. PICK k \in DOMAIN PartsIn(s, w.msg) : w.msg \in DOMAIN s /\ w = PartsIn(s, w.msg)[k]
  BY DEF IsPart, Part
<1>2. PartsIn(s, w.msg) \in Seq(Pieces)
  BY <1>1, PartsOfSent
<1>3. PartsIn(s, w.msg)[k] \in Pieces
  BY <1>1, <1>2
<1>4. DOMAIN s = 1 .. Len(s)
  BY DEF Sent
<1> QED
  BY <1>1, <1>3, <1>4

\* The number of a part is unique.
LEMMA PartNumber ==
    ASSUME NEW s \in Sent, Len(s) <= MaxSends, NEW w, NEW k, NEW l, Part(s, w, k), Part(s, w, l)
    PROVE  k = l /\ k \in 1 .. Len(PartsIn(s, w.msg)) /\ IsPart(s, w)
<1>1. PICK parts : parts = PartsIn(s, w.msg)
  OBVIOUS
<1>2. /\ w.msg \in DOMAIN s /\ k \in DOMAIN parts /\ l \in DOMAIN parts
      /\ w = parts[k] /\ w = parts[l] /\ IsPart(s, w)
  BY <1>1 DEF Part, IsPart
<1>3. DOMAIN parts = 1 .. Len(parts) /\ AreParts(parts, w.msg, s[w.msg].size)
  BY <1>1, <1>2, PartsOfSent
<1>4. \A x, y \in 1 .. Len(parts) : parts[x] = parts[y] => x = y
  BY <1>3 DEF AreParts
<1> QED
  BY <1>1, <1>2, <1>3, <1>4

\* The parts of one message are a stream that starts with the first.
LEMMA PartsAreStream ==
    ASSUME NEW s \in Sent, Len(s) <= MaxSends, NEW i \in DOMAIN s
    PROVE  Stream(s, PartsIn(s, i)) /\ First(s, PartsIn(s, i)[1])
<1>1. PICK parts : parts = PartsIn(s, i)
  OBVIOUS
<1>2. /\ i \in Nat /\ parts \in Seq(Pieces) /\ Len(parts) \in Nat /\ Len(parts) >= 1
      /\ DOMAIN parts = 1 .. Len(parts)
      /\ \A k \in 1 .. Len(parts) : parts[k].msg = i
  BY <1>1, PartsOfSent
<1>3. \A k \in 1 .. Len(parts) : Part(s, parts[k], k)
  BY <1>1, <1>2 DEF Part
<1>4. \A k \in 1 .. Len(parts) : IsPart(s, parts[k])
  BY <1>1, <1>2, <1>3 DEF IsPart
<1>5. \A k \in 1 .. (Len(parts) - 1) : Follows(s, parts[k], parts[k + 1])
  <2> SUFFICES ASSUME NEW k \in 1 .. (Len(parts) - 1) PROVE Follows(s, parts[k], parts[k + 1])
    OBVIOUS
  <2>1. k \in 1 .. Len(parts) /\ k + 1 \in 1 .. Len(parts)
    BY <1>2
  <2>2. parts[k].msg = i /\ parts[k + 1].msg = i /\ Part(s, parts[k], k) /\ Part(s, parts[k + 1], k + 1)
    BY <1>2, <1>3, <2>1
  <2> QED
    BY <1>1, <1>2, <2>1, <2>2 DEF Follows
<1>6. Last(s, parts[Len(parts)]) /\ First(s, parts[1])
  BY <1>1, <1>2, <1>3 DEF Last, First
<1>7. \A j, k \in 1 .. Len(parts) : j <= k => parts[j].msg <= parts[k].msg
  BY <1>2
<1> QED
  BY <1>1, <1>2, <1>4, <1>5, <1>6, <1>7 DEF Stream

\* A stream after another, of later messages, is a stream.
LEMMA StreamsJoin ==
    ASSUME NEW s \in Sent, Len(s) <= MaxSends, NEW a, NEW b, Stream(s, a), Stream(s, b),
           b # <<>> => First(s, b[1]),
           \A j \in 1 .. Len(a), k \in 1 .. Len(b) : a[j].msg < b[k].msg
    PROVE  Stream(s, a \o b)
<1>1. a \in Seq(Pieces) /\ b \in Seq(Pieces) /\ Len(a) \in Nat /\ Len(b) \in Nat
  BY DEF Stream
<1>2. PICK c : c = a \o b
  OBVIOUS
<1>3. /\ c \in Seq(Pieces) /\ Len(c) = Len(a) + Len(b)
      /\ \A k \in 1 .. Len(a) : c[k] = a[k]
      /\ \A k \in 1 .. Len(b) : c[Len(a) + k] = b[k]
  BY <1>1, <1>2
<1>4. ASSUME NEW k \in 1 .. Len(c)
      PROVE  \/ k \in 1 .. Len(a)
             \/ k - Len(a) \in 1 .. Len(b) /\ c[k] = b[k - Len(a)]
  <2>1. CASE k <= Len(a)
    BY <1>1, <2>1
  <2>2. CASE k > Len(a)
    <3>1. k - Len(a) \in 1 .. Len(b) /\ k = Len(a) + (k - Len(a))
      BY <1>1, <1>3, <2>2
    <3> QED
      BY <1>3, <3>1
  <2> QED
    BY <1>1, <2>1, <2>2
<1>5. \A k \in 1 .. Len(c) : IsPart(s, c[k])
  BY <1>3, <1>4 DEF Stream
<1>6. \A w \in Pieces : w.msg \in Nat
  BY DEF Pieces
<1>7. ASSUME NEW j \in 1 .. Len(c), NEW k \in 1 .. Len(c), j <= k PROVE c[j].msg <= c[k].msg
  <2>1. CASE k \in 1 .. Len(a)
    <3>1. j \in 1 .. Len(a)
      BY <1>7, <2>1
    <3> QED
      BY <1>3, <1>7, <2>1, <3>1 DEF Stream
  <2>2. CASE k - Len(a) \in 1 .. Len(b) /\ c[k] = b[k - Len(a)]
    <3>1. CASE j \in 1 .. Len(a)
      <4>1. c[j].msg < c[k].msg /\ c[j] \in Pieces /\ c[k] \in Pieces
        BY <1>3, <2>2, <3>1
      <4> QED
        BY <1>6, <4>1
    <3>2. CASE j - Len(a) \in 1 .. Len(b) /\ c[j] = b[j - Len(a)]
      <4>1. j - Len(a) <= k - Len(a)
        BY <1>1, <1>7
      <4> QED
        BY <2>2, <3>2, <4>1 DEF Stream
    <3> QED
      BY <1>4, <3>1, <3>2
  <2> QED
    BY <1>4, <2>1, <2>2
<1>8. ASSUME NEW k \in 1 .. (Len(c) - 1) PROVE Follows(s, c[k], c[k + 1])
  <2>1. CASE k < Len(a)
    <3>1. k \in 1 .. (Len(a) - 1) /\ k \in 1 .. Len(a) /\ k + 1 \in 1 .. Len(a)
      BY <1>1, <2>1
    <3> QED
      BY <1>3, <3>1 DEF Stream
  <2>2. CASE k = Len(a)
    <3>1. Len(a) \in 1 .. Len(a) /\ 1 \in 1 .. Len(b) /\ a # <<>> /\ b # <<>>
      BY <1>1, <1>3, <2>2
    <3>2. c[k] = a[Len(a)] /\ c[k + 1] = b[1]
      BY <1>3, <2>2, <3>1
    <3>3. Last(s, a[Len(a)]) /\ First(s, b[1]) /\ a[Len(a)].msg < b[1].msg
      BY <3>1 DEF Stream
    <3> QED
      BY <3>2, <3>3 DEF Follows
  <2>3. CASE k > Len(a)
    <3>1. PICK j \in 1 .. (Len(b) - 1) : j = k - Len(a)
      <4>1. k - Len(a) \in 1 .. (Len(b) - 1)
        BY <1>1, <1>3, <2>3
      <4> QED
        BY <4>1
    <3>2. j \in 1 .. Len(b) /\ j + 1 \in 1 .. Len(b) /\ k = Len(a) + j /\ k + 1 = Len(a) + (j + 1)
      BY <1>1, <3>1
    <3>3. c[k] = b[j] /\ c[k + 1] = b[j + 1]
      BY <1>3, <3>2
    <3> QED
      BY <3>3 DEF Stream
  <2> QED
    BY <1>1, <2>1, <2>2, <2>3
<1>9. ASSUME c # <<>> PROVE Last(s, c[Len(c)])
  <2>1. CASE b = <<>>
    <3>1. Len(b) = 0 /\ c = a
      BY <1>1, <1>2, <2>1
    <3> QED
      BY <1>9, <3>1 DEF Stream
  <2>2. CASE b # <<>>
    <3>1. Len(b) \in 1 .. Len(b)
      BY <1>1, <2>2
    <3>2. c[Len(c)] = b[Len(b)]
      BY <1>3, <3>1
    <3> QED
      BY <2>2, <3>2 DEF Stream
  <2> QED
    BY <2>1, <2>2
<1> QED
  BY <1>2, <1>3, <1>5, <1>7, <1>8, <1>9 DEF Stream

\* What is left of a stream is a stream, and follows its head.
LEMMA RestOfStream ==
    ASSUME NEW s \in Sent, Len(s) <= MaxSends, NEW a, Stream(s, a), a # <<>>
    PROVE  /\ Stream(s, Tail(a)) /\ Len(Tail(a)) = Len(a) - 1 /\ Len(a) \in Nat /\ Len(a) >= 1
           /\ \A k \in 1 .. Len(Tail(a)) : Tail(a)[k] = a[k + 1] /\ k + 1 \in 1 .. Len(a)
           /\ Tail(a) # <<>> => Follows(s, a[1], Tail(a)[1])
<1>1. PICK b : b = Tail(a)
  OBVIOUS
<1>2. /\ a \in Seq(Pieces) /\ b \in Seq(Pieces) /\ Len(b) = Len(a) - 1 /\ Len(a) \in Nat /\ Len(a) >= 1
      /\ \A k \in 1 .. Len(b) : b[k] = a[k + 1] /\ k + 1 \in 1 .. Len(a)
  BY <1>1 DEF Stream
<1>3. \A k \in 1 .. Len(b) : IsPart(s, b[k])
  BY <1>2 DEF Stream
<1>4. ASSUME NEW k \in 1 .. (Len(b) - 1) PROVE Follows(s, b[k], b[k + 1])
  <2>1. k \in 1 .. Len(b) /\ k + 1 \in 1 .. Len(b) /\ k + 1 \in 1 .. (Len(a) - 1)
    BY <1>2
  <2>2. b[k] = a[k + 1] /\ b[k + 1] = a[k + 1 + 1]
    BY <1>2, <2>1
  <2>3. Follows(s, a[k + 1], a[k + 1 + 1])
    BY <2>1 DEF Stream
  <2> QED
    BY <2>2, <2>3
<1>5. ASSUME NEW j \in 1 .. Len(b), NEW k \in 1 .. Len(b), j <= k PROVE b[j].msg <= b[k].msg
  <2>1. j + 1 <= k + 1 /\ b[j] = a[j + 1] /\ b[k] = a[k + 1] /\ j + 1 \in 1 .. Len(a) /\ k + 1 \in 1 .. Len(a)
    BY <1>2, <1>5
  <2>2. a[j + 1].msg <= a[k + 1].msg
    BY <2>1 DEF Stream
  <2> QED
    BY <2>1, <2>2
<1>6. b # <<>> => Last(s, b[Len(b)]) /\ Follows(s, a[1], b[1])
  <2> SUFFICES ASSUME b # <<>> PROVE Last(s, b[Len(b)]) /\ Follows(s, a[1], b[1])
    OBVIOUS
  <2>1. Len(b) \in 1 .. Len(b) /\ 1 \in 1 .. Len(b) /\ 1 \in 1 .. (Len(a) - 1) /\ Len(b) + 1 = Len(a)
    BY <1>2
  <2>2. b[Len(b)] = a[Len(a)] /\ b[1] = a[1 + 1]
    BY <1>2, <2>1
  <2>3. Follows(s, a[1], a[1 + 1]) /\ Last(s, a[Len(a)])
    BY <2>1 DEF Stream
  <2> QED
    BY <2>2, <2>3
<1> QED
  BY <1>1, <1>2, <1>3, <1>4, <1>5, <1>6 DEF Stream
\* More messages that are sent change nothing about the parts of those that were.
Grown(s, t) ==
    /\ s \in Sent /\ t \in Sent /\ Len(t) <= MaxSends
    /\ DOMAIN s \subseteq DOMAIN t /\ \A i \in DOMAIN s : t[i] = s[i]

\* What is a part, a first or a last one, or follows another, stays so.
LEMMA GrownParts ==
    ASSUME NEW s, NEW t, Grown(s, t)
    PROVE  /\ \A i \in DOMAIN s : PartsIn(t, i) = PartsIn(s, i)
           /\ \A w, k : Part(s, w, k) => Part(t, w, k)
           /\ \A w : IsPart(s, w) => IsPart(t, w)
           /\ \A w : First(s, w) => First(t, w)
           /\ \A w : Last(s, w) => Last(t, w)
           /\ \A u, v : Follows(s, u, v) => Follows(t, u, v)
<1>1. \A i \in DOMAIN s : PartsIn(t, i) = PartsIn(s, i)
  BY DEF Grown, PartsIn
<1>2. \A w, k : Part(s, w, k) => Part(t, w, k)
  BY <1>1 DEF Part, Grown
<1>3. \A w : IsPart(s, w) => IsPart(t, w)
  <2> SUFFICES ASSUME NEW w, IsPart(s, w) PROVE IsPart(t, w)
    OBVIOUS
  <2>1. PICK k : w.msg \in DOMAIN s /\ Part(s, w, k)
    BY DEF IsPart
  <2>2. Part(t, w, k)
    BY <1>2, <2>1
  <2> QED
    BY <2>2 DEF IsPart, Part
<1>4. \A w : First(s, w) => First(t, w)
  BY <1>2 DEF First
<1>5. \A w : Last(s, w) => Last(t, w)
  <2> SUFFICES ASSUME NEW w, Last(s, w) PROVE Last(t, w)
    OBVIOUS
  <2>1. w.msg \in DOMAIN s
    BY DEF Last, Part
  <2>2. PartsIn(t, w.msg) = PartsIn(s, w.msg)
    BY <1>1, <2>1
  <2> QED
    BY <1>2, <2>2 DEF Last
<1>6. \A u, v : Follows(s, u, v) => Follows(t, u, v)
  <2> SUFFICES ASSUME NEW u, NEW v, Follows(s, u, v) PROVE Follows(t, u, v)
    OBVIOUS
  <2>1. CASE u.msg < v.msg /\ Last(s, u) /\ First(s, v)
    BY <1>4, <1>5, <2>1 DEF Follows
  <2>2. CASE u.msg = v.msg /\ \E k \in DOMAIN PartsIn(s, u.msg) : Part(s, u, k) /\ Part(s, v, k + 1)
    <3>1. PICK k : Part(s, u, k) /\ Part(s, v, k + 1)
      BY <2>2
    <3>2. Part(t, u, k) /\ Part(t, v, k + 1)
      BY <1>2, <3>1
    <3>3. k \in DOMAIN PartsIn(t, u.msg)
      BY <3>2 DEF Part
    <3> QED
      BY <2>2, <3>2, <3>3 DEF Follows
  <2> QED
    BY <2>1, <2>2 DEF Follows
<1> QED
  BY <1>1, <1>2, <1>3, <1>4, <1>5, <1>6

\* A stream stays one when more is sent.
LEMMA GrownStream ==
    ASSUME NEW s, NEW t, Grown(s, t), NEW q, Stream(s, q)
    PROVE  Stream(t, q)
BY GrownParts DEF Stream

\* There is no member of mine between two that come one after the other, and none outside.
LEMMA NoneBetween ==
    ASSUME NEW mine, NEW n \in Nat, mine \subseteq 1 .. n, NEW m \in Nat, NEW place,
           InOrder(place, m, mine), NEW x \in mine
    PROVE  /\ m > 0 => place[1] <= x /\ x <= place[m]
           /\ \A k \in 1 .. (m - 1) : ~(place[k] < x /\ x < place[k + 1])
<1>1. PICK y \in 1 .. m : place[y] = x
  BY DEF InOrder
<1>2. \A k \in 1 .. m : place[k] \in Int
  <2>1. \A k \in 1 .. m : place[k] \in mine
    BY DEF InOrder
  <2>2. \A j \in mine : j \in Int
    OBVIOUS
  <2> QED
    BY <2>1, <2>2
<1>3. ASSUME NEW k \in 1 .. m, NEW l \in 1 .. m, k <= l PROVE place[k] <= place[l]
  <2>1. CASE k = l
    BY <1>2, <2>1
  <2>2. CASE k < l
    <3>1. place[k] < place[l]
      BY <2>2 DEF InOrder
    <3> QED
      BY <1>2, <3>1
  <2> QED
    BY <1>3, <2>1, <2>2
<1>4. m > 0 => place[1] <= x /\ x <= place[m]
  BY <1>1, <1>3
<1>5. ASSUME NEW k \in 1 .. (m - 1) PROVE ~(place[k] < x /\ x < place[k + 1])
  <2>1. k \in 1 .. m /\ k + 1 \in 1 .. m
    OBVIOUS
  <2>2. CASE y <= k
    <3>1. x <= place[k]
      BY <1>1, <1>3, <2>1, <2>2
    <3> QED
      BY <1>2, <1>1, <2>1, <3>1
  <2>3. CASE k + 1 <= y
    <3>1. place[k + 1] <= x
      BY <1>1, <1>3, <2>1, <2>3
    <3> QED
      BY <1>2, <1>1, <2>1, <3>1
  <2> QED
    BY <2>2, <2>3
<1> QED
  BY <1>4, <1>5

\* What a queue holds for one peer is a stream that starts with the start of a message.
LEMMA ForIsStream ==
    ASSUME NEW s \in Sent, Len(s) <= MaxSends, NEW q, NEW n, QueueOK(s, q, n), NEW p
    PROVE  /\ Stream(s, For(q, p))
           /\ For(q, p) # <<>> => First(s, For(q, p)[1])
           /\ \A k \in 1 .. Len(For(q, p)) :
                 \E j \in 1 .. Len(q) : q[j][1] = p /\ For(q, p)[k] = q[j][2]
<1> DEFINE mine == {j \in DOMAIN q : q[j][1] = p}
<1>1. /\ q \in Seq(Nodes \X Pieces) /\ Len(q) \in Nat /\ DOMAIN q = 1 .. Len(q)
      /\ \A j \in 1 .. Len(q) : q[j][2] \in Pieces
  BY DEF QueueOK
<1>2. PICK m \in Nat : \E place :
         InOrder(place, m, mine) /\ For(q, p) = [k \in 1 .. m |-> q[place[k]][2]]
  <2>1. PICK X : q \in Seq(X)
    BY <1>1
  <2>2. Selection(For(q, p), q, p)
    BY <2>1, ForIsInOrder
  <2> QED
    BY <2>2, Zenon DEF Selection
<1>3. PICK place : InOrder(place, m, mine) /\ For(q, p) = [k \in 1 .. m |-> q[place[k]][2]]
  BY <1>2
<1>4. PICK f : f = For(q, p)
  OBVIOUS
<1>5. PICK line : line = Line(q)
  OBVIOUS
<1>6. /\ line \in Seq(Pieces) /\ Len(line) = Len(q) /\ \A j \in 1 .. Len(q) : line[j] = q[j][2]
      /\ Stream(s, line)
  <2>1. Stream(s, line)
    BY <1>5 DEF QueueOK
  <2>2. line = [j \in 1 .. Len(q) |-> q[j][2]]
    BY <1>5 DEF Line
  <2>3. line \in [1 .. Len(q) -> Pieces]
    BY <1>1, <2>2
  <2> QED
    BY <1>1, <2>1, <2>2, <2>3
<1>7. \A j \in 1 .. Len(q) : s[line[j].msg].to = q[j][1] /\ line[j].msg \in Int
  <2> SUFFICES ASSUME NEW j \in 1 .. Len(q) PROVE s[line[j].msg].to = q[j][1] /\ line[j].msg \in Int
    OBVIOUS
  <2>1. line[j] = q[j][2] /\ line[j] \in Pieces
    BY <1>1, <1>6
  <2>2. s[q[j][2].msg].to = q[j][1]
    BY DEF QueueOK
  <2>3. line[j].msg \in Int
    BY <2>1 DEF Pieces
  <2> QED
    BY <2>1, <2>2, <2>3
<1>8. ASSUME NEW j \in 1 .. Len(q), j + 1 \in 1 .. Len(q), q[j][1] # q[j + 1][1]
      PROVE  line[j].msg < line[j + 1].msg /\ Last(s, line[j]) /\ First(s, line[j + 1])
  <2>1. Follows(s, line[j], line[j + 1])
    <3>1. j \in 1 .. (Len(line) - 1)
      BY <1>6, <1>8
    <3> QED
      BY <1>6, <3>1 DEF Stream
  <2>2. line[j].msg # line[j + 1].msg
    BY <1>7, <1>8
  <2> QED
    BY <2>1, <2>2 DEF Follows
<1>9. \A x \in 1 .. Len(q) : x \in mine <=> q[x][1] = p
  BY <1>1
<1>10. mine \subseteq 1 .. Len(q)
  BY <1>1
<1> HIDE DEF mine
<1>11. \A k \in 1 .. m : place[k] \in mine /\ place[k] \in 1 .. Len(q) /\ q[place[k]][1] = p
  BY <1>3, <1>9, <1>10 DEF InOrder
<1>12. \A k \in 1 .. m, l \in 1 .. m : k < l => place[k] < place[l]
  BY <1>3 DEF InOrder
<1>13. f = [k \in 1 .. m |-> line[place[k]]]
  BY <1>3, <1>4, <1>6, <1>11
<1>14. f \in Seq(Pieces) /\ Len(f) = m /\ \A k \in 1 .. m : f[k] = line[place[k]]
  <2>1. \A k \in 1 .. m : line[place[k]] \in Pieces
    BY <1>6, <1>11
  <2> QED
    BY <1>13, <2>1
<1>15. \A x \in mine : /\ m > 0 => place[1] <= x /\ x <= place[m]
                       /\ \A k \in 1 .. (m - 1) : ~(place[k] < x /\ x < place[k + 1])
  BY <1>1, <1>3, <1>10, NoneBetween
<1>16. \A k \in 1 .. Len(f) : IsPart(s, f[k])
  BY <1>6, <1>11, <1>14 DEF Stream
<1>17. ASSUME NEW j \in 1 .. Len(f), NEW k \in 1 .. Len(f), j <= k PROVE f[j].msg <= f[k].msg
  <2>1. place[j] <= place[k]
    BY <1>11, <1>12, <1>14, <1>17
  <2>2. place[j] \in 1 .. Len(line) /\ place[k] \in 1 .. Len(line)
    BY <1>6, <1>11, <1>14
  <2>3. line[place[j]].msg <= line[place[k]].msg
    BY <1>6, <2>1, <2>2 DEF Stream
  <2> QED
    BY <1>14, <2>3
<1>18. ASSUME m > 0 PROVE Last(s, f[m]) /\ First(s, f[1])
  <2>1. m \in 1 .. m /\ 1 \in 1 .. m
    BY <1>18
  <2>2. Last(s, line[place[m]])
    <3>1. PICK j \in 1 .. Len(q) : j = place[m] /\ q[j][1] = p
      BY <1>11, <2>1
    <3>2. CASE j = Len(q)
      <4>1. line # <<>>
        BY <1>6, <3>1
      <4> QED
        BY <1>6, <3>1, <3>2, <4>1 DEF Stream
    <3>3. CASE j < Len(q)
      <4>1. j + 1 \in 1 .. Len(q) /\ ~(j + 1 <= place[m])
        BY <1>1, <3>1, <3>3
      <4>2. q[j + 1][1] # p
        BY <1>9, <1>15, <1>18, <4>1
      <4> QED
        BY <1>8, <3>1, <4>1, <4>2
    <3>4. j = Len(q) \/ j < Len(q)
      <4>1. Len(q) \in Nat
        BY <1>1
      <4> QED
        BY <4>1
    <3> QED
      BY <3>2, <3>3, <3>4
  <2>3. First(s, line[place[1]])
    <3>1. PICK j \in 1 .. Len(q) : j = place[1] /\ q[j][1] = p
      BY <1>11, <2>1
    <3>2. CASE j = 1
      <4>1. q # <<>> /\ line[1] = q[1][2]
        BY <1>1, <1>6, <3>1
      <4> QED
        BY <3>1, <3>2, <4>1 DEF QueueOK
    <3>3. CASE j > 1
      <4>1. PICK x \in 1 .. Len(q) : x + 1 = j
        <5>1. j - 1 \in 1 .. Len(q) /\ j - 1 + 1 = j
          BY <1>1, <3>1, <3>3
        <5> QED
          BY <5>1
      <4>2. ~(place[1] <= x)
        BY <3>1, <4>1
      <4>3. q[x][1] # p
        BY <1>9, <1>15, <1>18, <4>2
      <4> QED
        BY <1>8, <3>1, <4>1, <4>3
    <3> QED
      BY <1>1, <3>2, <3>3
  <2> QED
    BY <1>14, <2>1, <2>2, <2>3
<1>19. ASSUME NEW k \in 1 .. (Len(f) - 1) PROVE Follows(s, f[k], f[k + 1])
  <2>1. k \in 1 .. m /\ k + 1 \in 1 .. m /\ k < k + 1 /\ k \in 1 .. (m - 1)
    BY <1>14
  <2>2. PICK j \in 1 .. Len(q), l \in 1 .. Len(q) :
           j = place[k] /\ l = place[k + 1] /\ q[j][1] = p /\ q[l][1] = p /\ j < l
    BY <1>11, <1>12, <2>1
  <2>3. f[k] = line[j] /\ f[k + 1] = line[l]
    BY <1>14, <2>1, <2>2
  <2>4. \A x \in 1 .. Len(q) : j < x /\ x < l => q[x][1] # p
    BY <1>9, <1>15, <2>1, <2>2
  <2>5. CASE l = j + 1
    <3>1. j \in 1 .. (Len(line) - 1)
      BY <1>6, <2>2, <2>5
    <3>2. Follows(s, line[j], line[j + 1])
      BY <1>6, <3>1 DEF Stream
    <3> QED
      BY <2>3, <2>5, <3>2
  <2>6. CASE l # j + 1
    <3>1. PICK x \in 1 .. Len(q) : x + 1 = l
      <4>1. l - 1 \in 1 .. Len(q) /\ l - 1 + 1 = l
        BY <1>1, <2>2
      <4> QED
        BY <4>1
    <3>2. j + 1 \in 1 .. Len(q) /\ j < j + 1 /\ j + 1 < l /\ j < x /\ x < l
      BY <1>1, <2>2, <2>6, <3>1
    <3>3. q[j + 1][1] # p /\ q[x][1] # p
      BY <2>4, <3>2
    <3>4. line[j].msg < line[j + 1].msg /\ Last(s, line[j])
      BY <1>8, <2>2, <3>2, <3>3
    <3>5. First(s, line[l])
      BY <1>8, <2>2, <3>1, <3>3
    <3>6. line[j + 1].msg <= line[l].msg
      <4>1. j + 1 \in 1 .. Len(line) /\ l \in 1 .. Len(line) /\ j + 1 <= l
        BY <1>6, <2>2, <3>2
      <4> QED
        BY <1>6, <4>1 DEF Stream
    <3>7. line[j].msg < line[l].msg
      BY <1>7, <2>2, <3>2, <3>4, <3>6
    <3> QED
      BY <2>3, <3>4, <3>5, <3>7 DEF Follows
  <2> QED
    BY <2>5, <2>6
<1>20. f # <<>> => Len(f) = m /\ m > 0
  BY <1>14
<1>21. Stream(s, f) /\ (f # <<>> => First(s, f[1]))
  BY <1>14, <1>16, <1>17, <1>18, <1>19, <1>20 DEF Stream
<1>22. \A k \in 1 .. Len(f) : \E j \in 1 .. Len(q) : q[j][1] = p /\ f[k] = q[j][2]
  <2> SUFFICES ASSUME NEW k \in 1 .. Len(f) PROVE \E j \in 1 .. Len(q) : q[j][1] = p /\ f[k] = q[j][2]
    OBVIOUS
  <2>1. k \in 1 .. m /\ place[k] \in 1 .. Len(q) /\ q[place[k]][1] = p
    BY <1>11, <1>14
  <2>2. f[k] = q[place[k]][2]
    BY <1>6, <1>14, <2>1
  <2> QED
    BY <2>1, <2>2
<1> QED
  BY <1>4, <1>21, <1>22
----------------------------------------------------------------------------
(* Reading.                                                                *)

\* What handling w may do: deliver its message, of which it is the last part; keep it as the part
\* that was expected; or fail, over a message that cannot be delivered.
Outcome(s, w, reader, msgs, result) ==
    \/ reader = NewReader /\ msgs = << w.msg >> /\ result = "Ok" /\ Last(s, w)
    \/ /\ msgs = <<>> /\ result = "Ok" /\ ReaderOK(s, reader)
       /\ reader.cur_data # <<>> /\ reader.cur_data[1].msg = w.msg /\ Part(s, w, Len(reader.cur_data))
    \/ /\ msgs = <<>> /\ result \in {"Err", "Panic"} /\ ReaderOK(s, reader)
       /\ Undeliverable(s[w.msg])

\* The fields of a new reader and of a result.
LEMMA ReaderFields ==
    /\ NewReader \in Readers /\ NewReader.cur_data = <<>> /\ NewReader.remaining_segments = 0
    /\ \A r, m, x : /\ Handled(r, m, x).reader = r
                    /\ Handled(r, m, x).msgs = m
                    /\ Handled(r, m, x).result = x
<1>1. NewReader \in Readers /\ NewReader.cur_data = <<>> /\ NewReader.remaining_segments = 0
  BY DEF NewReader, Readers
<1>2. \A r, m, x : /\ Handled(r, m, x).reader = r
                   /\ Handled(r, m, x).msgs = m
                   /\ Handled(r, m, x).result = x
  BY DEF Handled
<1> QED
  BY <1>1, <1>2

\* A message has too many segments only if it is too long.
LEMMA TooManySegments ==
    ASSUME NEW m, m.size \in Nat, m.size > MAX_BUF_SIZE, nb_segments(m.size) > MAX_SEGMENTS
    PROVE  Undeliverable(m)
<1>1. PICK nb : nb = nb_segments(m.size)
  OBVIOUS
<1>2. nb \in Nat /\ nb >= 2 /\ MAX_START_DATA_SIZE + (nb - 2) * MAX_CHUNK_SIZE < m.size + 2
  BY <1>1, Segmentation
<1>3. MAX_SEGMENTS - 1 \in Nat /\ nb - 2 \in Nat /\ MAX_SEGMENTS - 1 <= nb - 2
  BY <1>1, <1>2, Limits
<1>4. /\ (MAX_SEGMENTS - 1) * MAX_CHUNK_SIZE \in Nat /\ (nb - 2) * MAX_CHUNK_SIZE \in Nat
      /\ (MAX_SEGMENTS - 1) * MAX_CHUNK_SIZE <= (nb - 2) * MAX_CHUNK_SIZE
  BY <1>3, Limits, ProductGrows
<1>5. m.size + 2 > MAX_START_DATA_SIZE + (MAX_SEGMENTS - 1) * MAX_CHUNK_SIZE
  BY <1>2, <1>4, Limits
<1> QED
  BY <1>5 DEF Undeliverable

\* The first part of a message, when nothing is expected.
LEMMA StartsAnew ==
    ASSUME sent \in Sent, Len(sent) <= MaxSends, NEW w, First(sent, w), NEW h,
           h = HandleUnsegmented(NewReader, w)
    PROVE  Outcome(sent, w, h.reader, h.msgs, h.result)
<1>1. PICK s : s = sent
  OBVIOUS
<1>2. PICK parts : parts = PartsIn(s, w.msg)
  OBVIOUS
<1>3. w.msg \in DOMAIN s /\ w = parts[1] /\ 1 \in DOMAIN parts
  BY <1>1, <1>2 DEF First, Part
<1>4. /\ s \in Sent /\ Len(s) <= MaxSends /\ s[w.msg].size \in Nat
      /\ AreParts(parts, w.msg, s[w.msg].size) /\ Len(parts) \in Nat /\ w \in Pieces
  <2>1. s \in Sent /\ Len(s) <= MaxSends
    BY <1>1
  <2>2. s[w.msg].size \in Nat /\ AreParts(parts, w.msg, s[w.msg].size) /\ parts \in Seq(Pieces)
    BY <1>2, <1>3, <2>1, PartsOfSent
  <2> QED
    BY <1>3, <2>1, <2>2
<1>5. CASE s[w.msg].size <= MAX_BUF_SIZE
  <2>1. Len(parts) = 1 /\ w.type = "Message"
    BY <1>3, <1>4, <1>5 DEF AreParts
  <2>2. h = Handled(NewReader, << w.msg >>, "Ok")
    BY <2>1 DEF HandleUnsegmented
  <2>3. h.reader = NewReader /\ h.msgs = << w.msg >> /\ h.result = "Ok"
    BY <2>2, ReaderFields
  <2>4. Last(s, w)
    BY <1>2, <1>3, <2>1 DEF Last, Part
  <2> QED
    BY <1>1, <2>3, <2>4 DEF Outcome
<1>6. CASE s[w.msg].size > MAX_BUF_SIZE
  <2>1. /\ Len(parts) = nb_segments(s[w.msg].size) /\ Len(parts) >= 2
        /\ w.type = "SegmentStart" /\ w.nb = Len(parts) /\ Size(w) = MAX_START_DATA_SIZE
    BY <1>3, <1>4, <1>6 DEF AreParts
  <2>2. h = process_segment_start(NewReader, w)
    BY <2>1 DEF HandleUnsegmented
  <2>3. CASE Len(parts) > MAX_SEGMENTS
    <3>1. h = Handled(NewReader, <<>>, "Err")
      BY <2>1, <2>2, <2>3 DEF process_segment_start
    <3>2. h.reader = NewReader /\ h.msgs = <<>> /\ h.result = "Err"
      BY <3>1, ReaderFields
    <3>3. Undeliverable(s[w.msg])
      BY <1>4, <1>6, <2>1, <2>3, TooManySegments
    <3>4. ReaderOK(s, NewReader)
      BY ReaderFields DEF ReaderOK
    <3> QED
      BY <1>1, <3>2, <3>3, <3>4 DEF Outcome
  <2>4. CASE Len(parts) <= MAX_SEGMENTS
    <3>1. PICK r : r = [cur_data |-> << w >>, remaining_segments |-> Len(parts) - 1]
      OBVIOUS
    <3>2. h = Handled(r, <<>>, "Ok")
      <4>1. ~(Len(parts) < 2) /\ ~(Len(parts) > MAX_SEGMENTS) /\ ~(MAX_START_DATA_SIZE < MAX_START_DATA_SIZE)
        BY <1>4, <2>1, <2>4, Limits
      <4>2. ~(NewReader.cur_data # <<>> \/ w.nb < 2 \/ w.nb > MAX_SEGMENTS \/ Size(w) < MAX_START_DATA_SIZE)
        BY <2>1, <4>1, ReaderFields
      <4> QED
        BY <2>1, <2>2, <3>1, <4>2 DEF process_segment_start
    <3>3. h.reader = r /\ h.msgs = <<>> /\ h.result = "Ok"
      BY <3>2, ReaderFields
    <3>4. r.cur_data = << w >> /\ r.remaining_segments = Len(parts) - 1
      BY <3>1
    <3>5. << w >> \in Seq(Pieces) /\ Len(<< w >>) = 1 /\ << w >>[1] = w /\ << w >> # <<>>
      BY <1>4
    <3>6. r \in Readers
      <4>1. Len(parts) - 1 \in Nat
        BY <1>4, <2>1
      <4> QED
        BY <3>1, <3>5, <4>1 DEF Readers
    <3>7. Collects(s, r, w.msg)
      <4>1. 1 \in 1 .. (Len(parts) - 1) /\ \A k \in 1 .. 1 : k = 1
        BY <1>4, <2>1
      <4> QED
        BY <1>2, <1>3, <1>6, <2>4, <3>4, <3>5, <4>1 DEF Collects
    <3>8. ReaderOK(s, r)
      BY <3>4, <3>5, <3>6, <3>7 DEF ReaderOK
    <3>9. Part(s, w, Len(r.cur_data)) /\ r.cur_data # <<>> /\ r.cur_data[1].msg = w.msg
      BY <1>1, <3>4, <3>5 DEF First
    <3> QED
      BY <1>1, <3>3, <3>8, <3>9 DEF Outcome
  <2> QED
    BY <1>4, <2>3, <2>4, Limits
<1> QED
  BY <1>4, <1>5, <1>6, Limits

\* The parts that a reader has collected make up the message, once they are all there.
LEMMA Complete ==
    ASSUME sent \in Sent, Len(sent) <= MaxSends, NEW i \in DOMAIN sent, NEW data \in Seq(Pieces),
           Len(data) = Len(PartsIn(sent, i)),
           \A k \in 1 .. Len(data) : data[k] = PartsIn(sent, i)[k]
    PROVE  Reconstructed(data) = i /\ i # 0
<1>1. PICK s : s = sent
  OBVIOUS
<1>2. PICK parts : parts = PartsIn(s, i)
  OBVIOUS
<1>3. /\ i \in 1 .. MaxSends /\ AreParts(parts, i, s[i].size) /\ parts \in Seq(Pieces)
      /\ Len(parts) \in Nat /\ Len(parts) >= 1
      /\ \A k \in 1 .. Len(parts) : parts[k].msg = i
  <2>1. s \in Sent /\ Len(s) <= MaxSends /\ i \in DOMAIN s
    BY <1>1
  <2>2. /\ i \in 1 .. MaxSends /\ AreParts(parts, i, s[i].size) /\ parts \in Seq(Pieces)
        /\ Len(parts) >= 1 /\ \A k \in 1 .. Len(parts) : parts[k].msg = i
    BY <1>2, <2>1, PartsOfSent
  <2> QED
    BY <2>2
<1>4. Len(data) = Len(parts) /\ \A k \in 1 .. Len(parts) : data[k] = parts[k]
  BY <1>1, <1>2
<1>5. 1 \in 1 .. Len(parts) /\ Len(parts) \in 1 .. Len(parts)
  BY <1>3
<1>6. data[1].msg = i /\ data[1].lo = 1 /\ data[Len(data)].hi = s[i].size + 2
  BY <1>3, <1>4, <1>5 DEF AreParts
<1>7. ASSUME NEW k \in 2 .. Len(data) PROVE data[k].msg = i /\ data[k].lo = data[k - 1].hi + 1
  <2>1. k \in 2 .. Len(parts) /\ k \in 1 .. Len(parts) /\ k - 1 \in 1 .. Len(parts)
    BY <1>3, <1>4
  <2>2. parts[k].lo = parts[k - 1].hi + 1
    BY <1>3, <2>1 DEF AreParts
  <2> QED
    BY <1>3, <1>4, <2>1, <2>2
<1>8. i # 0
  BY <1>3
<1> QED
  BY <1>1, <1>6, <1>7, <1>8 DEF Reconstructed

\* The part that is expected.
LEMMA GoesOn ==
    ASSUME sent \in Sent, Len(sent) <= MaxSends, NEW r, ReaderOK(sent, r), NEW w, Continues(sent, r, w),
           NEW h, h = process_segment_chunk(r, w)
    PROVE  w.type = "SegmentChunk" /\ expecting_chunk(r) /\ Outcome(sent, w, h.reader, h.msgs, h.result)
<1>1. PICK s : s = sent
  OBVIOUS
<1>2. PICK i : i = r.cur_data[1].msg
  OBVIOUS
<1>3. PICK parts : parts = PartsIn(s, i)
  OBVIOUS
<1>4. r \in Readers /\ r.cur_data # <<>> /\ r # NewReader
  BY ReaderFields DEF Continues, ReaderOK
<1>5. r.cur_data \in Seq(Pieces) /\ r.remaining_segments \in Nat
  BY <1>4 DEF Readers
<1>6. PICK cur \in Seq(Pieces), rest \in Nat : cur = r.cur_data /\ rest = r.remaining_segments
  BY <1>5
<1>7. PICK l \in Nat : l = Len(cur)
  BY <1>6
<1>8. /\ i \in DOMAIN s /\ s[i].size > MAX_BUF_SIZE
      /\ l \in 1 .. (Len(parts) - 1) /\ Len(parts) <= MAX_SEGMENTS
      /\ rest = Len(parts) - l
      /\ \A k \in 1 .. l : cur[k] = parts[k]
  BY <1>1, <1>2, <1>3, <1>4, <1>6, <1>7 DEF ReaderOK, Collects
<1>9. w.msg = i /\ w = parts[l + 1] /\ l + 1 \in DOMAIN parts /\ Part(s, w, l + 1)
  BY <1>1, <1>2, <1>3, <1>6, <1>7 DEF Continues, Part
<1>10. /\ s \in Sent /\ Len(s) <= MaxSends /\ s[i].size \in Nat
       /\ AreParts(parts, i, s[i].size) /\ parts \in Seq(Pieces) /\ Len(parts) \in Nat /\ w \in Pieces
  <2>1. s \in Sent /\ Len(s) <= MaxSends
    BY <1>1
  <2>2. s[i].size \in Nat /\ AreParts(parts, i, s[i].size) /\ parts \in Seq(Pieces)
    BY <1>3, <1>8, <2>1, PartsOfSent
  <2> QED
    BY <1>9, <2>1, <2>2
<1>11. l + 1 \in 2 .. Len(parts)
  BY <1>8, <1>10
<1>12. w.type = "SegmentChunk" /\ (l + 1 < Len(parts) => Size(w) = MAX_CHUNK_SIZE)
  BY <1>9, <1>10, <1>11 DEF AreParts
<1>13. expecting_chunk(r)
  <2>1. rest # 0
    BY <1>8, <1>10
  <2> QED
    BY <1>6, <2>1 DEF expecting_chunk
<1>14. PICK data : data = Append(cur, w)
  OBVIOUS
<1>15. /\ data \in Seq(Pieces) /\ Len(data) = l + 1 /\ data # <<>> /\ data[1] = cur[1]
       /\ \A k \in 1 .. (l + 1) : data[k] = parts[k]
  <2>1. data \in Seq(Pieces) /\ Len(data) = l + 1 /\ data[l + 1] = w /\ \A k \in 1 .. l : data[k] = cur[k]
    BY <1>7, <1>10, <1>14
  <2>2. data # <<>> /\ 1 \in 1 .. l
    BY <1>8, <2>1
  <2>3. \A k \in 1 .. (l + 1) : k \in 1 .. l \/ k = l + 1
    OBVIOUS
  <2> QED
    BY <1>8, <1>9, <2>1, <2>2, <2>3
<1>16. CASE rest > 1
  <2>1. l + 1 < Len(parts)
    BY <1>8, <1>10, <1>16
  <2>2. PICK t : t = [cur_data |-> data, remaining_segments |-> rest - 1]
    OBVIOUS
  <2>3. h = Handled(t, <<>>, "Ok")
    BY <1>4, <1>6, <1>12, <1>14, <1>16, <2>1, <2>2 DEF process_segment_chunk
  <2>4. h.reader = t /\ h.msgs = <<>> /\ h.result = "Ok"
    BY <2>3, ReaderFields
  <2>5. t.cur_data = data /\ t.remaining_segments = rest - 1
    BY <2>2
  <2>6. t \in Readers
    <3>1. rest - 1 \in Nat
      BY <1>16
    <3> QED
      BY <1>15, <2>2, <3>1 DEF Readers
  <2>7. Collects(s, t, i)
    <3>1. l + 1 \in 1 .. (Len(parts) - 1) /\ rest - 1 = Len(parts) - (l + 1)
      BY <1>8, <1>10, <2>1
    <3> QED
      BY <1>3, <1>8, <1>15, <2>5, <3>1 DEF Collects
  <2>8. t.cur_data # <<>> /\ t.cur_data[1].msg = i /\ Len(t.cur_data) = l + 1
    BY <1>2, <1>6, <1>15, <2>5
  <2>9. ReaderOK(s, t)
    BY <2>6, <2>7, <2>8 DEF ReaderOK
  <2> QED
    BY <1>1, <1>9, <1>12, <1>13, <2>4, <2>8, <2>9 DEF Outcome
<1>17. CASE ~(rest > 1)
  <2>1. l + 1 = Len(parts)
    BY <1>8, <1>10, <1>17
  <2>2. Reconstructed(data) = i /\ i # 0
    BY <1>1, <1>3, <1>8, <1>15, <2>1, Complete
  <2>3. h = IF ~IsRead(s[i].kind) THEN Handled(NewReader, <<>>, "Panic") ELSE Handled(NewReader, << i >>, "Ok")
    BY <1>1, <1>4, <1>6, <1>14, <1>17, <2>2 DEF process_segment_chunk
  <2>4. CASE ~IsRead(s[i].kind)
    <3>1. h.reader = NewReader /\ h.msgs = <<>> /\ h.result = "Panic"
      BY <2>3, <2>4, ReaderFields
    <3>2. Undeliverable(s[w.msg])
      BY <1>9, <2>4 DEF Undeliverable
    <3>3. ReaderOK(s, NewReader)
      BY ReaderFields DEF ReaderOK
    <3> QED
      BY <1>1, <1>12, <1>13, <3>1, <3>2, <3>3 DEF Outcome
  <2>5. CASE IsRead(s[i].kind)
    <3>1. h.reader = NewReader /\ h.msgs = << w.msg >> /\ h.result = "Ok"
      BY <1>9, <2>3, <2>5, ReaderFields
    <3>2. Last(s, w)
      BY <1>3, <1>9, <2>1 DEF Last
    <3> QED
      BY <1>1, <1>12, <1>13, <3>1, <3>2 DEF Outcome
  <2> QED
    BY <2>4, <2>5
<1> QED
  BY <1>16, <1>17
\* What the handler of n makes of w: the peer manager cannot read a message of an unknown type.
Reading(r, w) ==
    IF w.type = "Message" /\ ~IsRead(sent[w.msg].kind)
    THEN Handled(r, <<>>, "Err")
    ELSE handle_custom_message(r, w)

\* Whatever the reader has kept, the next piece of a stream has one of the three outcomes.
LEMMA Reads ==
    ASSUME sent \in Sent, Len(sent) <= MaxSends, NEW r, ReaderOK(sent, r), NEW w,
           First(sent, w) \/ Continues(sent, r, w), NEW h, h = Reading(r, w)
    PROVE  Outcome(sent, w, h.reader, h.msgs, h.result)
<1>1. CASE w.type = "Message" /\ ~IsRead(sent[w.msg].kind)
  <2>1. h.reader = r /\ h.msgs = <<>> /\ h.result = "Err"
    BY <1>1, ReaderFields DEF Reading
  <2>2. Undeliverable(sent[w.msg])
    BY <1>1 DEF Undeliverable
  <2> QED
    BY <2>1, <2>2 DEF Outcome
<1>2. CASE ~(w.type = "Message" /\ ~IsRead(sent[w.msg].kind))
  <2>1. h = handle_custom_message(r, w)
    BY <1>2 DEF Reading
  <2>2. CASE First(sent, w)
    <3>1. w.type # "SegmentChunk"
      <4>1. PICK parts : parts = PartsIn(sent, w.msg)
        OBVIOUS
      <4>2. w.msg \in DOMAIN sent /\ w = parts[1]
        BY <2>2, <4>1 DEF First, Part
      <4>3. AreParts(parts, w.msg, sent[w.msg].size) /\ sent[w.msg].size \in Nat
        BY <4>1, <4>2, PartsOfSent
      <4>4. w.type = "Message" \/ w.type = "SegmentStart"
        BY <4>2, <4>3, Limits DEF AreParts
      <4> QED
        BY <4>4
    <3>2. h = HandleUnsegmented(NewReader, w)
      <4>1. CASE expecting_chunk(r)
        BY <2>1, <3>1, <4>1 DEF handle_custom_message
      <4>2. CASE ~expecting_chunk(r)
        <5>1. r = NewReader
          <6> SUFFICES ASSUME r # NewReader PROVE FALSE
            OBVIOUS
          <6>1. PICK n : n = Len(PartsIn(sent, r.cur_data[1].msg))
            OBVIOUS
          <6>2. r.remaining_segments = n - Len(r.cur_data) /\ Len(r.cur_data) \in 1 .. (n - 1) /\ r \in Readers
            BY <6>1 DEF ReaderOK, Collects
          <6>3. r.cur_data[1].msg \in DOMAIN sent
            BY DEF ReaderOK, Collects
          <6>4. n \in Nat
            BY <6>1, <6>3, PartsOfSent
          <6>5. r.remaining_segments = 0
            BY <4>2 DEF expecting_chunk
          <6> QED
            BY <6>2, <6>4, <6>5
        <5> QED
          BY <2>1, <4>2, <5>1 DEF handle_custom_message
      <4> QED
        BY <4>1, <4>2
    <3> QED
      BY <2>2, <3>2, StartsAnew
  <2>3. CASE Continues(sent, r, w)
    <3>1. PICK g : g = process_segment_chunk(r, w)
      OBVIOUS
    <3>2. w.type = "SegmentChunk" /\ expecting_chunk(r) /\ Outcome(sent, w, g.reader, g.msgs, g.result)
      BY <2>3, <3>1, GoesOn
    <3>3. h = g
      BY <2>1, <3>1, <3>2 DEF handle_custom_message
    <3> QED
      BY <3>2, <3>3
  <2> QED
    BY <2>2, <2>3
<1> QED
  BY <1>1, <1>2

\* What follows the last part of a message is the first one of another.
LEMMA AfterLast ==
    ASSUME NEW s \in Sent, Len(s) <= MaxSends, NEW u, NEW v, Last(s, u), Follows(s, u, v)
    PROVE  u.msg < v.msg /\ First(s, v)
<1> SUFFICES ASSUME NEW k, u.msg = v.msg, Part(s, u, k), Part(s, v, k + 1) PROVE FALSE
  BY DEF Follows
<1>1. k = Len(PartsIn(s, u.msg)) /\ k \in 1 .. Len(PartsIn(s, u.msg))
  BY PartNumber DEF Last
<1>2. k + 1 \in 1 .. Len(PartsIn(s, u.msg))
  BY PartNumber
<1> QED
  BY <1>1, <1>2

----------------------------------------------------------------------------
(* What becomes of a node and of a pair of nodes.                          *)

\* A stream of nothing.
LEMMA EmptyStream ==
    ASSUME NEW s
    PROVE  /\ Stream(s, <<>>) /\ \A n : QueueOK(s, <<>>, n)
           /\ \A r, p, n : WireOK(s, <<>>, r, p, n)
<1>1. <<>> \in Seq(Pieces) /\ Len(<<>>) = 0 /\ <<>> \in Seq(Nodes \X Pieces)
  OBVIOUS
<1>2. Stream(s, <<>>)
  BY <1>1 DEF Stream
<1>3. Line(<<>>) = <<>>
  BY <1>1 DEF Line
<1> QED
  BY <1>1, <1>2, <1>3 DEF QueueOK, WireOK

\* A connection has ended, or the reader was replaced while nothing travels.
LEMMA PairCut ==
    ASSUME NEW s, NEW q, NEW w, NEW r, NEW d, NEW p, NEW n, PairOK(s, q, w, r, d, p, n),
           NEW t, ReaderOK(s, t)
    PROVE  PairOK(s, q, <<>>, t, d, p, n)
<1>1. Len(<<>>) = 0
  OBVIOUS
<1>2. Behind(d, <<>>, q, p, n)
  BY <1>1 DEF PairOK, Behind
<1> QED
  BY <1>2, EmptyStream DEF PairOK

\* The queue was emptied.
LEMMA PairDropped ==
    ASSUME NEW s, NEW q, NEW w, NEW r, NEW d, NEW p, NEW n, PairOK(s, q, w, r, d, p, n)
    PROVE  PairOK(s, <<>>, w, r, d, p, n)
<1>1. Len(<<>>) = 0
  OBVIOUS
<1>2. Behind(d, w, <<>>, p, n)
  BY <1>1 DEF PairOK, Behind
<1> QED
  BY <1>2 DEF PairOK

\* What is received was lost.
LEMMA NodeForgets ==
    ASSUME NEW s, NEW q, NEW a \in Seq(Nodes \X Nat), NEW b \in Seq(Nodes \X Nat), NEW n,
           NodeOK(s, q, a \o b, n)
    PROVE  NodeOK(s, q, a, n)
<1>1. PICK d : d = a \o b
  OBVIOUS
<1>2. \A k \in 1 .. Len(a) : k \in 1 .. Len(d) /\ d[k] = a[k]
  BY <1>1
<1>3. DeliveredOK(s, d, n)
  BY <1>1 DEF NodeOK
<1>4. DeliveredOK(s, a, n)
  BY <1>2, <1>3 DEF DeliveredOK
<1> QED
  BY <1>4 DEF NodeOK

\* The same for a pair: fewer messages were delivered.
LEMMA PairForgets ==
    ASSUME NEW s, NEW q, NEW w, NEW r, NEW a \in Seq(Nodes \X Nat), NEW b \in Seq(Nodes \X Nat), NEW p, NEW n,
           PairOK(s, q, w, r, a \o b, p, n)
    PROVE  PairOK(s, q, w, r, a, p, n)
<1>1. PICK d : d = a \o b
  OBVIOUS
<1>2. \A k \in 1 .. Len(a) : k \in 1 .. Len(d) /\ d[k] = a[k]
  BY <1>1
<1>3. Behind(d, w, q, p, n)
  BY <1>1 DEF PairOK
<1>4. Behind(a, w, q, p, n)
  BY <1>2, <1>3 DEF Behind
<1> QED
  BY <1>4 DEF PairOK

\* The queue went out: what it held for n now follows what was travelling.
LEMMA PairSent ==
    ASSUME NEW s \in Sent, Len(s) <= MaxSends, NEW q, NEW w, NEW r, NEW d, NEW p, NEW n,
           PairOK(s, q, w, r, d, p, n), QueueOK(s, q, p)
    PROVE  PairOK(s, <<>>, w \o For(q, n), r, d, p, n) /\ w \o For(q, n) \in Seq(Pieces)
<1>1. PICK f : f = For(q, n)
  OBVIOUS
<1>2. /\ Stream(s, f) /\ (f # <<>> => First(s, f[1]))
      /\ \A k \in 1 .. Len(f) : \E j \in 1 .. Len(q) : q[j][1] = n /\ f[k] = q[j][2]
  BY <1>1, ForIsStream
<1>3. Stream(s, w) /\ w \in Seq(Pieces) /\ f \in Seq(Pieces) /\ Len(w) \in Nat /\ Len(f) \in Nat
  BY <1>2 DEF PairOK, WireOK, Stream
<1>4. \A j \in 1 .. Len(w), k \in 1 .. Len(f) : w[j].msg < f[k].msg
  BY <1>2 DEF PairOK, Behind
<1>5. Stream(s, w \o f)
  BY <1>2, <1>3, <1>4, StreamsJoin
<1>6. PICK v : v = w \o f
  OBVIOUS
<1>7. /\ v \in Seq(Pieces) /\ Len(v) = Len(w) + Len(f)
      /\ \A k \in 1 .. Len(w) : v[k] = w[k]
      /\ \A k \in 1 .. Len(f) : v[Len(w) + k] = f[k]
  BY <1>3, <1>6
<1>8. ASSUME NEW k \in 1 .. Len(v)
      PROVE  \/ k \in 1 .. Len(w) /\ v[k] = w[k]
             \/ \E j \in 1 .. Len(q) : q[j][1] = n /\ v[k] = q[j][2]
  <2>1. CASE k <= Len(w)
    BY <1>3, <1>7, <2>1
  <2>2. CASE k > Len(w)
    <3>1. k - Len(w) \in 1 .. Len(f) /\ k = Len(w) + (k - Len(w))
      BY <1>3, <1>7, <2>2
    <3>2. v[k] = f[k - Len(w)]
      BY <1>7, <3>1
    <3> QED
      BY <1>2, <3>1, <3>2
  <2> QED
    BY <1>3, <2>1, <2>2
<1>9. \A k \in 1 .. Len(v) : s[v[k].msg].from = p /\ s[v[k].msg].to = n
  <2>1. \A k \in 1 .. Len(w) : s[w[k].msg].from = p /\ s[w[k].msg].to = n
    BY DEF PairOK, WireOK
  <2>2. \A k \in 1 .. Len(q) : s[q[k][2].msg].from = p /\ s[q[k][2].msg].to = q[k][1]
    BY DEF QueueOK
  <2> QED
    BY <1>8, <2>1, <2>2
<1>10. ASSUME v # <<>> PROVE First(s, v[1]) \/ Continues(s, r, v[1])
  <2>1. CASE w = <<>>
    <3>1. v = f
      BY <1>3, <1>6, <2>1
    <3> QED
      BY <1>2, <1>10, <3>1
  <2>2. CASE w # <<>>
    <3>1. v[1] = w[1]
      BY <1>3, <1>7, <2>2
    <3>2. First(s, w[1]) \/ Continues(s, r, w[1])
      BY <2>2 DEF PairOK, WireOK
    <3> QED
      BY <3>1, <3>2
  <2> QED
    BY <2>1, <2>2
<1>11. WireOK(s, v, r, p, n)
  BY <1>5, <1>6, <1>9, <1>10 DEF WireOK
<1>12. Behind(d, v, <<>>, p, n)
  <2>1. /\ \A k \in 1 .. Len(d), j \in 1 .. Len(w) : d[k][1] = p => d[k][2] < w[j].msg
        /\ \A k \in 1 .. Len(d), j \in 1 .. Len(q) : d[k][1] = p /\ q[j][1] = n => d[k][2] < q[j][2].msg
    BY DEF PairOK, Behind
  <2>2. \A k \in 1 .. Len(d), j \in 1 .. Len(v) : d[k][1] = p => d[k][2] < v[j].msg
    BY <1>8, <2>1
  <2>3. Len(<<>>) = 0
    OBVIOUS
  <2> QED
    BY <2>2, <2>3 DEF Behind
<1> QED
  BY <1>1, <1>6, <1>7, <1>11, <1>12 DEF PairOK

\* The head of the stream was read and the connection goes on.
LEMMA PairRead ==
    ASSUME NEW s \in Sent, Len(s) <= MaxSends, NEW q, NEW w, NEW r, NEW d, NEW p, NEW n,
           PairOK(s, q, w, r, d, p, n), w # <<>>,
           NEW reader, NEW msgs, Outcome(s, w[1], reader, msgs, "Ok")
    PROVE  PairOK(s, q, Tail(w), reader, d, p, n) /\ Tail(w) \in Seq(Pieces)
<1>1. PICK v : v = Tail(w)
  OBVIOUS
<1>2. Stream(s, w)
  BY DEF PairOK, WireOK
<1>3. /\ Stream(s, v) /\ Len(v) \in Nat /\ Len(w) \in Nat /\ Len(w) >= 1
      /\ \A k \in 1 .. Len(v) : v[k] = w[k + 1] /\ k + 1 \in 1 .. Len(w)
      /\ v # <<>> => Follows(s, w[1], v[1])
  <2>1. /\ Stream(s, v) /\ Len(v) = Len(w) - 1 /\ Len(w) \in Nat /\ Len(w) >= 1
        /\ \A k \in 1 .. Len(v) : v[k] = w[k + 1] /\ k + 1 \in 1 .. Len(w)
        /\ v # <<>> => Follows(s, w[1], v[1])
    BY <1>1, <1>2, RestOfStream
  <2> QED
    BY <2>1
<1>4. ReaderOK(s, reader)
  <2>1. ReaderOK(s, NewReader)
    BY ReaderFields DEF ReaderOK
  <2> QED
    BY <2>1 DEF Outcome
<1>5. ASSUME v # <<>> PROVE First(s, v[1]) \/ Continues(s, reader, v[1])
  <2>1. CASE Last(s, w[1])
    BY <1>3, <1>5, <2>1, AfterLast
  <2>2. CASE /\ reader.cur_data # <<>> /\ reader.cur_data[1].msg = w[1].msg
             /\ Part(s, w[1], Len(reader.cur_data))
    <3>1. CASE First(s, v[1])
      BY <3>1
    <3>2. CASE ~First(s, v[1])
      <4>1. PICK k : w[1].msg = v[1].msg /\ Part(s, w[1], k) /\ Part(s, v[1], k + 1)
        BY <1>3, <1>5, <3>2 DEF Follows
      <4>2. k = Len(reader.cur_data)
        BY <2>2, <4>1, PartNumber
      <4> QED
        BY <2>2, <4>1, <4>2 DEF Continues
    <3> QED
      BY <3>1, <3>2
  <2> QED
    BY <2>1, <2>2 DEF Outcome
<1>6. \A k \in 1 .. Len(v) : s[v[k].msg].from = p /\ s[v[k].msg].to = n
  BY <1>3 DEF PairOK, WireOK
<1>7. WireOK(s, v, reader, p, n)
  BY <1>3, <1>5, <1>6 DEF WireOK
<1>8. Behind(d, v, q, p, n)
  BY <1>3 DEF PairOK, Behind
<1> QED
  BY <1>1, <1>3, <1>4, <1>7, <1>8 DEF PairOK, Stream
\* The last part of a message was read: what is behind it was sent later.
LEMMA PairDelivers ==
    ASSUME NEW s \in Sent, Len(s) <= MaxSends, NEW q \in Seq(Nodes \X Pieces), NEW w, NEW r,
           NEW d \in Seq(Nodes \X Nat), NEW p \in Nodes, NEW n,
           PairOK(s, q, w, r, d, p, n), w # <<>>, Last(s, w[1]),
           NEW reader, PairOK(s, q, Tail(w), reader, d, p, n)
    PROVE  PairOK(s, q, Tail(w), reader, Append(d, << p, w[1].msg >>), p, n)
<1>1. PICK v : v = Tail(w)
  OBVIOUS
<1>2. Stream(s, w) /\ w \in Seq(Pieces)
  BY DEF PairOK, WireOK, Stream
<1>3. /\ v \in Seq(Pieces) /\ Len(v) \in Nat /\ Len(w) \in Nat /\ Len(w) >= 1
      /\ \A k \in 1 .. Len(v) : v[k] = w[k + 1] /\ k + 1 \in 1 .. Len(w)
      /\ v # <<>> => Follows(s, w[1], v[1])
  <2>1. /\ Stream(s, v) /\ Len(w) \in Nat /\ Len(w) >= 1
        /\ \A k \in 1 .. Len(v) : v[k] = w[k + 1] /\ k + 1 \in 1 .. Len(w)
        /\ v # <<>> => Follows(s, w[1], v[1])
    BY <1>1, <1>2, RestOfStream
  <2>2. v \in Seq(Pieces)
    BY <2>1 DEF Stream
  <2> QED
    BY <2>1, <2>2
<1>4. PICK i \in Nat : i = w[1].msg
  <2>1. w[1] \in Pieces
    BY <1>2, <1>3
  <2> QED
    BY <2>1 DEF Pieces
<1>5. \A x \in Pieces : x.msg \in Nat
  BY DEF Pieces
<1>6. ASSUME NEW k \in 1 .. Len(v) PROVE i < v[k].msg
  <2>1. v # <<>> /\ 1 \in 1 .. Len(v)
    BY <1>3
  <2>2. i < v[1].msg
    BY <1>3, <1>4, <2>1, AfterLast
  <2>3. v[1] = w[1 + 1] /\ v[k] = w[k + 1] /\ 1 + 1 \in 1 .. Len(w) /\ k + 1 \in 1 .. Len(w) /\ 1 + 1 <= k + 1
    BY <1>3, <2>1
  <2>4. w[1 + 1].msg <= w[k + 1].msg
    BY <1>2, <2>3 DEF Stream
  <2>5. v[1].msg \in Nat /\ v[k].msg \in Nat
    BY <1>3, <1>5, <2>1
  <2>6. v[1].msg <= v[k].msg
    BY <2>3, <2>4
  <2> QED
    BY <2>2, <2>5, <2>6
<1>7. PICK e : e = Append(d, << p, i >>)
  OBVIOUS
<1>8. /\ Len(e) = Len(d) + 1 /\ e[Len(d) + 1] = << p, i >> /\ Len(d) \in Nat
      /\ \A k \in 1 .. Len(d) : e[k] = d[k]
  BY <1>7
<1>9. \A k \in 1 .. Len(e) : (k \in 1 .. Len(d) /\ e[k] = d[k]) \/ e[k] = << p, i >>
  BY <1>8
<1>10. \A j \in 1 .. Len(q) : q[j][1] = n => i < q[j][2].msg
  <2>1. 1 \in 1 .. Len(w)
    BY <1>3
  <2> QED
    BY <1>4, <2>1 DEF PairOK, Behind
<1>11. Behind(d, v, q, p, n)
  BY <1>1 DEF PairOK
<1>12. \A k \in 1 .. Len(e), j \in 1 .. Len(v) : e[k][1] = p => e[k][2] < v[j].msg
  <2> SUFFICES ASSUME NEW k \in 1 .. Len(e), NEW j \in 1 .. Len(v), e[k][1] = p PROVE e[k][2] < v[j].msg
    OBVIOUS
  <2>1. CASE e[k] = << p, i >>
    <3>1. e[k][2] = i
      BY <2>1
    <3> QED
      BY <1>6, <3>1
  <2>2. CASE k \in 1 .. Len(d) /\ e[k] = d[k]
    BY <1>11, <2>2 DEF Behind
  <2> QED
    BY <1>9, <2>1, <2>2
<1>13. \A k \in 1 .. Len(e), j \in 1 .. Len(q) : e[k][1] = p /\ q[j][1] = n => e[k][2] < q[j][2].msg
  <2> SUFFICES ASSUME NEW k \in 1 .. Len(e), NEW j \in 1 .. Len(q), e[k][1] = p, q[j][1] = n
               PROVE  e[k][2] < q[j][2].msg
    OBVIOUS
  <2>1. CASE e[k] = << p, i >>
    <3>1. e[k][2] = i
      BY <2>1
    <3> QED
      BY <1>10, <3>1
  <2>2. CASE k \in 1 .. Len(d) /\ e[k] = d[k]
    BY <1>11, <2>2 DEF Behind
  <2> QED
    BY <1>9, <2>1, <2>2
<1>14. Behind(e, v, q, p, n)
  BY <1>11, <1>12, <1>13 DEF Behind
<1> QED
  BY <1>1, <1>4, <1>7, <1>14 DEF PairOK

\* What another peer sent is delivered.
LEMMA PairOfAnother ==
    ASSUME NEW s, NEW q, NEW w, NEW r, NEW d \in Seq(Nodes \X Nat), NEW p \in Nodes, NEW n, NEW o \in Nodes, o # p,
           NEW i \in Nat, PairOK(s, q, w, r, d, p, n)
    PROVE  PairOK(s, q, w, r, Append(d, << o, i >>), p, n)
<1>1. PICK e : e = Append(d, << o, i >>)
  OBVIOUS
<1>2. /\ Len(e) = Len(d) + 1 /\ e[Len(d) + 1] = << o, i >> /\ Len(d) \in Nat
      /\ \A k \in 1 .. Len(d) : e[k] = d[k]
  BY <1>1
<1>3. \A k \in 1 .. Len(e) : (k \in 1 .. Len(d) /\ e[k] = d[k]) \/ e[k][1] # p
  BY <1>2
<1>4. Behind(d, w, q, p, n)
  BY DEF PairOK
<1>5. Behind(e, w, q, p, n)
  BY <1>3, <1>4 DEF Behind
<1> QED
  BY <1>1, <1>5 DEF PairOK

\* The message i of p, later than all that were delivered, is delivered to n.
LEMMA NodeDelivers ==
    ASSUME NEW s \in Sent, NEW q, NEW d, NEW n, NodeOK(s, q, d, n), NEW p \in Nodes, NEW i \in DOMAIN s,
           s[i].from = p, s[i].to = n, \A k \in 1 .. Len(d) : d[k][1] = p => d[k][2] < i
    PROVE  NodeOK(s, q, Append(d, << p, i >>), n)
<1>1. PICK e : e = Append(d, << p, i >>)
  OBVIOUS
<1>2. DeliveredOK(s, d, n) /\ d \in Seq(Nodes \X Nat) /\ Len(d) \in Nat
  BY DEF NodeOK, DeliveredOK
<1>3. i \in Nat
  BY DEF Sent
<1>4. << p, i >> \in Nodes \X Nat
  BY <1>3
<1>5. /\ e \in Seq(Nodes \X Nat) /\ Len(e) = Len(d) + 1 /\ e[Len(d) + 1] = << p, i >>
      /\ \A k \in 1 .. Len(d) : e[k] = d[k]
  BY <1>1, <1>2, <1>4
<1>6. \A k \in 1 .. Len(e) : (k \in 1 .. Len(d) /\ e[k] = d[k]) \/ (k = Len(d) + 1 /\ e[k] = << p, i >>)
  BY <1>2, <1>5
<1>7. \A k \in 1 .. Len(e) : e[k][2] \in DOMAIN s /\ s[e[k][2]].from = e[k][1] /\ s[e[k][2]].to = n
  BY <1>2, <1>6 DEF DeliveredOK
<1>8. ASSUME NEW j \in 1 .. Len(e), NEW k \in 1 .. Len(e), j < k, e[j][1] = e[k][1]
      PROVE  e[j][2] < e[k][2]
  <2>1. j \in 1 .. Len(d) /\ e[j] = d[j]
    BY <1>2, <1>5, <1>8
  <2>2. CASE k \in 1 .. Len(d) /\ e[k] = d[k]
    BY <1>2, <1>8, <2>1, <2>2 DEF DeliveredOK
  <2>3. CASE e[k] = << p, i >>
    <3>1. e[k][1] = p /\ e[k][2] = i
      BY <2>3
    <3> QED
      BY <1>8, <2>1, <3>1
  <2> QED
    BY <1>6, <2>2, <2>3
<1>9. DeliveredOK(s, e, n)
  BY <1>5, <1>7, <1>8 DEF DeliveredOK
<1> QED
  BY <1>1, <1>9 DEF NodeOK

----------------------------------------------------------------------------
(* A message is sent.                                                      *)

\* What holds of a node goes on to hold when a message is sent.
LEMMA GrownNode ==
    ASSUME NEW s, NEW t, Grown(s, t), NEW q, NEW d, NEW n, NodeOK(s, q, d, n)
    PROVE  NodeOK(t, q, d, n)
<1>1. /\ q \in Seq(Nodes \X Pieces) /\ Stream(s, Line(q)) /\ (q # <<>> => First(s, q[1][2]))
      /\ \A k \in 1 .. Len(q) : s[q[k][2].msg].from = n /\ s[q[k][2].msg].to = q[k][1]
  BY DEF NodeOK, QueueOK
<1>2. Stream(t, Line(q))
  BY <1>1, GrownStream
<1>3. \A k \in 1 .. Len(q) : q[k][2].msg \in DOMAIN s
  <2> SUFFICES ASSUME NEW k \in 1 .. Len(q) PROVE q[k][2].msg \in DOMAIN s
    OBVIOUS
  <2>1. Len(Line(q)) = Len(q) /\ Line(q)[k] = q[k][2]
    BY <1>1 DEF Line
  <2>2. IsPart(s, Line(q)[k])
    BY <1>1, <2>1 DEF Stream
  <2> QED
    BY <2>1, <2>2 DEF IsPart
<1>4. \A k \in 1 .. Len(q) : t[q[k][2].msg].from = n /\ t[q[k][2].msg].to = q[k][1]
  BY <1>1, <1>3 DEF Grown
<1>5. q # <<>> => First(t, q[1][2])
  BY <1>1, GrownParts
<1>6. QueueOK(t, q, n)
  BY <1>1, <1>2, <1>4, <1>5 DEF QueueOK
<1>7. DeliveredOK(t, d, n)
  BY DEF NodeOK, DeliveredOK, Grown
<1> QED
  BY <1>6, <1>7 DEF NodeOK

\* The same for a pair.
LEMMA GrownPair ==
    ASSUME NEW s, NEW t, Grown(s, t), NEW q, NEW w, NEW r, NEW d, NEW p, NEW n, PairOK(s, q, w, r, d, p, n)
    PROVE  PairOK(t, q, w, r, d, p, n)
<1>1. ReaderOK(t, r)
  <2>1. r \in Readers
    BY DEF PairOK, ReaderOK
  <2>2. ASSUME r # NewReader PROVE r.cur_data # <<>> /\ Collects(t, r, r.cur_data[1].msg)
    <3>1. PICK i : i = r.cur_data[1].msg
      OBVIOUS
    <3>2. r.cur_data # <<>> /\ Collects(s, r, i)
      BY <2>2, <3>1 DEF PairOK, ReaderOK
    <3>3. i \in DOMAIN s
      BY <3>2 DEF Collects
    <3>4. i \in DOMAIN t /\ t[i] = s[i] /\ PartsIn(t, i) = PartsIn(s, i)
      BY <3>3, GrownParts DEF Grown
    <3> QED
      BY <3>1, <3>2, <3>4 DEF Collects
  <2> QED
    BY <2>1, <2>2 DEF ReaderOK
<1>2. /\ Stream(s, w) /\ \A k \in 1 .. Len(w) : s[w[k].msg].from = p /\ s[w[k].msg].to = n
      /\ w # <<>> => First(s, w[1]) \/ Continues(s, r, w[1])
  BY DEF PairOK, WireOK
<1>3. \A k \in 1 .. Len(w) : w[k].msg \in DOMAIN s
  BY <1>2 DEF Stream, IsPart
<1>4. \A k \in 1 .. Len(w) : t[w[k].msg].from = p /\ t[w[k].msg].to = n
  BY <1>2, <1>3 DEF Grown
<1>5. w # <<>> => First(t, w[1]) \/ Continues(t, r, w[1])
  BY <1>2, GrownParts DEF Continues
<1>6. WireOK(t, w, r, p, n)
  BY <1>2, <1>4, <1>5, GrownStream DEF WireOK
<1> QED
  BY <1>1, <1>6 DEF PairOK

\* The same for the messages that are blamed.
LEMMA GrownBlame ==
    ASSUME NEW s, NEW t, Grown(s, t), NEW b, Blame(s, b)
    PROVE  Blame(t, b)
BY DEF Blame, Grown

\* The entries that a message makes in a queue.
Entered(z, q, o, parts) ==
    /\ z \in Seq(Nodes \X Pieces) /\ Len(z) = Len(q) + Len(parts)
    /\ \A k \in 1 .. Len(q) : z[k] = q[k]
    /\ \A k \in 1 .. Len(parts) : z[Len(q) + k] = << o, parts[k] >>

\* Enqueued enters the parts of the message i, all for o, behind the rest.
LEMMA EnqueuedEntries ==
    ASSUME NEW t \in Sent, Len(t) <= MaxSends, NEW i \in DOMAIN t, NEW q \in Seq(Nodes \X Pieces), NEW o \in Nodes,
           NEW z, z = Enqueued(q, o, i, t[i].size)
    PROVE  Entered(z, q, o, PartsIn(t, i))
<1>1. PICK parts : parts = Parts(i, t[i].size)
  OBVIOUS
<1>2. parts = PartsIn(t, i) /\ parts \in Seq(Pieces) /\ Len(parts) \in Nat
  <2>1. parts = PartsIn(t, i)
    BY <1>1 DEF PartsIn
  <2>2. parts \in Seq(Pieces)
    BY <2>1, PartsOfSent
  <2> QED
    BY <2>1, <2>2
<1>3. PICK entries : entries = [k \in 1 .. Len(parts) |-> << o, parts[k] >>]
  OBVIOUS
<1>4. entries \in Seq(Nodes \X Pieces) /\ Len(entries) = Len(parts)
  <2>1. \A k \in 1 .. Len(parts) : << o, parts[k] >> \in Nodes \X Pieces
    BY <1>2
  <2> QED
    BY <1>2, <1>3, <2>1
<1>5. \A k \in 1 .. Len(parts) : entries[k] = << o, parts[k] >>
  BY <1>3
<1>6. z = q \o entries
  BY <1>1, <1>3 DEF Enqueued
<1>7. /\ z \in Seq(Nodes \X Pieces) /\ Len(z) = Len(q) + Len(entries)
      /\ \A k \in 1 .. Len(q) : z[k] = q[k]
      /\ \A k \in 1 .. Len(entries) : z[Len(q) + k] = entries[k]
  <2>1. Joined(z, q, entries, Nodes \X Pieces)
    BY <1>4, <1>6, Concatenated
  <2> QED
    BY <2>1 DEF Joined
<1>8. Entered(z, q, o, parts)
  BY <1>4, <1>5, <1>7 DEF Entered
<1> QED
  BY <1>2, <1>8

\* A new message is last in the queue of its sender.
LEMMA NodeSends ==
    ASSUME NEW t \in Sent, Len(t) <= MaxSends, NEW i \in DOMAIN t, NEW q, NEW d, NEW n, NodeOK(t, q, d, n),
           \A k \in 1 .. Len(q) : q[k][2].msg < i, NEW o \in Nodes, t[i].from = n, t[i].to = o,
           NEW z, z = Enqueued(q, o, i, t[i].size)
    PROVE  NodeOK(t, z, d, n) /\ z \in Seq(Nodes \X Pieces)
<1>1. /\ q \in Seq(Nodes \X Pieces) /\ Stream(t, Line(q)) /\ (q # <<>> => First(t, q[1][2]))
      /\ \A k \in 1 .. Len(q) : t[q[k][2].msg].from = n /\ t[q[k][2].msg].to = q[k][1]
  BY DEF NodeOK, QueueOK
<1>2. PICK parts : parts = PartsIn(t, i)
  OBVIOUS
<1>3. /\ parts \in Seq(Pieces) /\ Len(parts) \in Nat /\ Len(parts) >= 1
      /\ \A k \in 1 .. Len(parts) : parts[k].msg = i
  <2>1. parts \in Seq(Pieces) /\ Len(parts) >= 1 /\ \A k \in 1 .. Len(parts) : parts[k].msg = i
    BY <1>2, PartsOfSent
  <2> QED
    BY <2>1
<1>4. /\ z \in Seq(Nodes \X Pieces) /\ Len(z) = Len(q) + Len(parts) /\ Len(q) \in Nat
      /\ \A k \in 1 .. Len(q) : z[k] = q[k]
      /\ \A k \in 1 .. Len(parts) : z[Len(q) + k] = << o, parts[k] >>
  <2>1. Len(q) \in Nat
    BY <1>1
  <2>2. /\ z \in Seq(Nodes \X Pieces) /\ Len(z) = Len(q) + Len(parts)
        /\ \A k \in 1 .. Len(q) : z[k] = q[k]
        /\ \A k \in 1 .. Len(parts) : z[Len(q) + k] = << o, parts[k] >>
    <3>1. Entered(z, q, o, parts)
      BY <1>1, <1>2, EnqueuedEntries
    <3> QED
      BY <3>1 DEF Entered
  <2> QED
    BY <2>1, <2>2
<1>5. ASSUME NEW k \in 1 .. Len(z)
      PROVE  \/ k \in 1 .. Len(q) /\ z[k] = q[k]
             \/ k - Len(q) \in 1 .. Len(parts) /\ z[k] = << o, parts[k - Len(q)] >>
  <2>1. CASE k <= Len(q)
    BY <1>4, <2>1
  <2>2. CASE k > Len(q)
    <3>1. k - Len(q) \in 1 .. Len(parts) /\ k = Len(q) + (k - Len(q))
      BY <1>3, <1>4, <2>2
    <3> QED
      BY <1>4, <3>1
  <2> QED
    BY <1>4, <2>1, <2>2
<1>6. PICK line : line = Line(q)
  OBVIOUS
<1>7. line \in Seq(Pieces) /\ Len(line) = Len(q) /\ \A k \in 1 .. Len(q) : line[k] = q[k][2]
  <2>1. line = [k \in 1 .. Len(q) |-> q[k][2]]
    BY <1>6 DEF Line
  <2>2. line \in Seq(Pieces)
    BY <1>1, <1>6 DEF Stream
  <2> QED
    BY <1>4, <2>1, <2>2
<1>8. Line(z) = line \o parts
  <2>1. PICK both : both = line \o parts
    OBVIOUS
  <2>2. /\ both \in Seq(Pieces) /\ Len(both) = Len(q) + Len(parts)
        /\ \A k \in 1 .. Len(q) : both[k] = line[k]
        /\ \A k \in 1 .. Len(parts) : both[Len(q) + k] = parts[k]
    <3>1. /\ both \in Seq(Pieces) /\ Len(both) = Len(line) + Len(parts)
          /\ \A k \in 1 .. Len(line) : both[k] = line[k]
          /\ \A k \in 1 .. Len(parts) : both[Len(line) + k] = parts[k]
      <4>1. Joined(both, line, parts, Pieces)
        BY <1>3, <1>7, <2>1, Concatenated
      <4> QED
        BY <4>1 DEF Joined
    <3> QED
      BY <1>7, <3>1
  <2>3. PICK all : all = Line(z)
    OBVIOUS
  <2>4. all = [k \in 1 .. Len(z) |-> z[k][2]]
    BY <2>3 DEF Line
  <2>5. ASSUME NEW k \in 1 .. Len(z) PROVE all[k] = both[k]
    <3>1. all[k] = z[k][2]
      BY <2>4
    <3>2. CASE k \in 1 .. Len(q) /\ z[k] = q[k]
      BY <1>7, <2>2, <3>1, <3>2
    <3>3. CASE k - Len(q) \in 1 .. Len(parts) /\ z[k] = << o, parts[k - Len(q)] >>
      <4>1. k = Len(q) + (k - Len(q))
        BY <1>4
      <4>2. both[k] = parts[k - Len(q)]
        BY <2>2, <3>3, <4>1
      <4> QED
        BY <3>1, <3>3, <4>2
    <3> QED
      BY <1>5, <3>2, <3>3
  <2>6. DOMAIN all = 1 .. Len(z) /\ DOMAIN both = 1 .. Len(z)
    BY <1>4, <2>2, <2>4
  <2>7. both = [k \in DOMAIN both |-> both[k]] /\ all = [k \in DOMAIN all |-> all[k]]
    BY <2>2, <2>4
  <2>8. all = both
    BY <2>5, <2>6, <2>7
  <2> QED
    BY <2>1, <2>3, <2>8
<1>9. Stream(t, parts) /\ First(t, parts[1])
  BY <1>2, PartsAreStream
<1>10. Stream(t, line \o parts)
  BY <1>1, <1>3, <1>6, <1>7, <1>9, StreamsJoin
<1>11. First(t, z[1][2])
  <2>1. CASE q = <<>>
    <3>1. Len(q) = 0 /\ 1 \in 1 .. Len(parts) /\ Len(q) + 1 = 1
      BY <1>3, <2>1
    <3>2. z[1] = << o, parts[1] >>
      BY <1>4, <3>1
    <3> QED
      BY <1>9, <3>2
  <2>2. CASE q # <<>>
    <3>1. z[1] = q[1]
      BY <1>1, <1>4, <2>2
    <3> QED
      BY <1>1, <2>2, <3>1
  <2> QED
    BY <2>1, <2>2
<1>12. \A k \in 1 .. Len(z) : t[z[k][2].msg].from = n /\ t[z[k][2].msg].to = z[k][1]
  <2> SUFFICES ASSUME NEW k \in 1 .. Len(z)
               PROVE  t[z[k][2].msg].from = n /\ t[z[k][2].msg].to = z[k][1]
    OBVIOUS
  <2>1. CASE k \in 1 .. Len(q) /\ z[k] = q[k]
    BY <1>1, <2>1
  <2>2. CASE k - Len(q) \in 1 .. Len(parts) /\ z[k] = << o, parts[k - Len(q)] >>
    <3>1. z[k][1] = o /\ z[k][2] = parts[k - Len(q)] /\ parts[k - Len(q)].msg = i
      BY <1>3, <2>2
    <3> QED
      BY <3>1
  <2> QED
    BY <1>5, <2>1, <2>2
<1>13. QueueOK(t, z, n)
  BY <1>4, <1>8, <1>10, <1>11, <1>12 DEF QueueOK
<1> QED
  BY <1>4, <1>13 DEF NodeOK

\* For its receiver it is behind all that travels and all that was delivered.
LEMMA PairSends ==
    ASSUME NEW t \in Sent, Len(t) <= MaxSends, NEW i \in DOMAIN t, NEW q \in Seq(Nodes \X Pieces),
           NEW w, NEW r, NEW d, NEW p, NEW n, PairOK(t, q, w, r, d, p, n), NEW o \in Nodes,
           \A k \in 1 .. Len(w) : w[k].msg < i, \A k \in 1 .. Len(d) : d[k][2] < i,
           NEW z, z = Enqueued(q, o, i, t[i].size)
    PROVE  PairOK(t, z, w, r, d, p, n)
<1>1. PICK parts : parts = PartsIn(t, i)
  OBVIOUS
<1>2. Len(parts) \in Nat /\ \A k \in 1 .. Len(parts) : parts[k].msg = i
  <2>1. parts \in Seq(Pieces) /\ \A k \in 1 .. Len(parts) : parts[k].msg = i
    BY <1>1, PartsOfSent
  <2> QED
    BY <2>1
<1>3. /\ Len(z) = Len(q) + Len(parts) /\ Len(q) \in Nat
      /\ \A k \in 1 .. Len(q) : z[k] = q[k]
      /\ \A k \in 1 .. Len(parts) : z[Len(q) + k] = << o, parts[k] >>
  <2>1. Entered(z, q, o, parts)
    BY <1>1, EnqueuedEntries
  <2> QED
    BY <2>1 DEF Entered
<1>4. ASSUME NEW k \in 1 .. Len(z)
      PROVE  (k \in 1 .. Len(q) /\ z[k] = q[k]) \/ z[k][2].msg = i
  <2>1. CASE k <= Len(q)
    BY <1>3, <2>1
  <2>2. CASE k > Len(q)
    <3>1. k - Len(q) \in 1 .. Len(parts) /\ k = Len(q) + (k - Len(q))
      BY <1>2, <1>3, <2>2
    <3>2. z[k] = << o, parts[k - Len(q)] >>
      BY <1>3, <3>1
    <3> QED
      BY <1>2, <3>1, <3>2
  <2> QED
    BY <1>3, <2>1, <2>2
<1>5. Behind(d, w, q, p, n)
  BY DEF PairOK
<1>6. Behind(d, w, z, p, n)
  BY <1>4, <1>5 DEF Behind
<1> QED
  BY <1>6 DEF PairOK
----------------------------------------------------------------------------
(* The steps.                                                              *)

\* The nodes and the pairs of nodes, after a step.
Kept ==
    /\ \A n \in Nodes : NodeOK(sent, msg_events[n], Delivered(n), n)
    /\ \A p, n \in Nodes :
          PairOK(sent, msg_events[p], wire[p][n], segment_readers[n][p], Delivered(n), p, n)

\* A step that only loses something: a queue, what travels, a reader, what was received.
LEMMA StepLoses ==
    ASSUME SegmentsInv, sent' = sent,
           \A n \in Nodes : msg_events'[n] = msg_events[n] \/ msg_events'[n] = <<>>,
           \A n \in Nodes : Delivered(n)' = Delivered(n) \/ Delivered(n)' = taken[n],
           \A p, n \in Nodes :
              \/ wire'[p][n] = wire[p][n] /\ segment_readers'[n][p] = segment_readers[n][p]
              \/ wire'[p][n] = <<>> /\ ReaderOK(sent, segment_readers'[n][p])
    PROVE  Kept'
<1>1. /\ \A n \in Nodes : NodeOK(sent, msg_events[n], Delivered(n), n)
      /\ \A p, n \in Nodes :
            PairOK(sent, msg_events[p], wire[p][n], segment_readers[n][p], Delivered(n), p, n)
      /\ \A n \in Nodes : taken[n] \in Seq(Nodes \X Nat) /\ msg_received[n] \in Seq(Nodes \X Nat)
  BY DEF SegmentsInv, Shape
<1>2. ASSUME NEW n \in Nodes PROVE NodeOK(sent, msg_events'[n], Delivered(n)', n)
  <2>1. NodeOK(sent, msg_events'[n], Delivered(n), n)
    <3>1. CASE msg_events'[n] = msg_events[n]
      BY <1>1, <3>1
    <3>2. CASE msg_events'[n] = <<>>
      BY <1>1, <3>2, EmptyStream DEF NodeOK
    <3> QED
      BY <3>1, <3>2
  <2>2. Delivered(n)' = taken[n] => NodeOK(sent, msg_events'[n], taken[n], n)
    BY <1>1, <2>1, NodeForgets DEF Delivered
  <2> QED
    BY <2>1, <2>2
<1>3. ASSUME NEW p \in Nodes, NEW n \in Nodes
      PROVE  PairOK(sent, msg_events'[p], wire'[p][n], segment_readers'[n][p], Delivered(n)', p, n)
  <2>1. PairOK(sent, msg_events[p], wire[p][n], segment_readers[n][p], Delivered(n), p, n)
    BY <1>1
  <2>2. PICK q, w, r, d : /\ q = msg_events'[p] /\ w = wire'[p][n]
                          /\ r = segment_readers'[n][p] /\ d = Delivered(n)'
    OBVIOUS
  <2>3. PairOK(sent, msg_events[p], w, r, Delivered(n), p, n)
    <3>1. CASE w = wire[p][n] /\ r = segment_readers[n][p]
      BY <2>1, <3>1
    <3>2. CASE w = <<>> /\ ReaderOK(sent, r)
      BY <2>1, <3>2, PairCut
    <3> QED
      BY <2>2, <3>1, <3>2
  <2>4. PairOK(sent, q, w, r, Delivered(n), p, n)
    <3>1. CASE q = msg_events[p]
      BY <2>3, <3>1
    <3>2. CASE q = <<>>
      BY <2>3, <3>2, PairDropped
    <3> QED
      BY <2>2, <3>1, <3>2
  <2>5. PairOK(sent, q, w, r, d, p, n)
    <3>1. CASE d = Delivered(n)
      BY <2>4, <3>1
    <3>2. CASE d = taken[n]
      BY <1>1, <2>4, <3>2, PairForgets DEF Delivered
    <3> QED
      BY <2>2, <3>1, <3>2
  <2> QED
    BY <2>2, <2>5
<1> QED
  BY <1>2, <1>3 DEF Kept

\* Connections end.
LEMMA Cut ==
    ASSUME Shape, NEW cut, wire' = CutOff(cut), links' = links \ cut
    PROVE  /\ wire' \in [Nodes -> [Nodes -> Seq(Pieces)]]
           /\ links' \subseteq Pairs
           /\ \A n, p \in Nodes : wire'[n][p] # <<>> => {n, p} \in links'
           /\ \A n, p \in Nodes : wire'[n][p] = wire[n][p] \/ wire'[n][p] = <<>>
           /\ \A n, p \in Nodes : {n, p} \in cut => wire'[n][p] = <<>>
<1>1. \A n, p \in Nodes : wire'[n][p] = IF {n, p} \in cut THEN <<>> ELSE wire[n][p]
  BY DEF CutOff
<1>2. wire \in [Nodes -> [Nodes -> Seq(Pieces)]] /\ <<>> \in Seq(Pieces)
  BY DEF Shape
<1>3. wire' \in [Nodes -> [Nodes -> Seq(Pieces)]]
  BY <1>2 DEF CutOff
<1>4. \A n, p \in Nodes : wire'[n][p] # <<>> => {n, p} \in links'
  <2> SUFFICES ASSUME NEW n \in Nodes, NEW p \in Nodes, wire'[n][p] # <<>> PROVE {n, p} \in links'
    OBVIOUS
  <2>1. PICK l : l = {n, p}
    OBVIOUS
  <2>2. l \notin cut /\ wire[n][p] # <<>>
    BY <1>1, <2>1
  <2>3. l \in links
    BY <2>1, <2>2 DEF Shape
  <2> QED
    BY <2>1, <2>2, <2>3
<1>5. links' \subseteq Pairs
  BY DEF Shape
<1> QED
  BY <1>1, <1>3, <1>4, <1>5

\* The invariant holds in the beginning.
LEMMA StepInit == Init => SegmentsInv
<1> SUFFICES ASSUME Init PROVE SegmentsInv
  OBVIOUS
<1> USE DEF Init
<1>1. \A X : <<>> \in Seq(X)
  OBVIOUS
<1>2. Len(<<>>) = 0 /\ DOMAIN <<>> = {}
  OBVIOUS
<1>3. Shape
  <2>1. sent \in Sent /\ Len(sent) <= MaxSends
    BY <1>1, <1>2, SizesAssumption DEF Sent
  <2>2. \A i \in 1 .. Len(sent) : << sent[i].from, sent[i].to >> \in Routes
    BY <1>2
  <2>3. /\ msg_events \in [Nodes -> Seq(Nodes \X Pieces)]
        /\ msg_received \in [Nodes -> Seq(Nodes \X Nat)]
        /\ taken \in [Nodes -> Seq(Nodes \X Nat)]
    BY <1>1
  <2>4. segment_readers \in [Nodes -> [Nodes -> Readers]]
    BY ReaderFields
  <2>5. wire \in [Nodes -> [Nodes -> Seq(Pieces)]]
    BY <1>1
  <2> QED
    BY <2>1, <2>2, <2>3, <2>4, <2>5 DEF Shape
<1>4. Blame(sent, blamed)
  BY DEF Blame
<1>5. \A n \in Nodes : Delivered(n) = <<>>
  BY DEF Delivered
<1>6. \A n : DeliveredOK(sent, <<>>, n)
  BY <1>1, <1>2 DEF DeliveredOK
<1>7. \A n \in Nodes : NodeOK(sent, msg_events[n], Delivered(n), n)
  BY <1>5, <1>6, EmptyStream DEF NodeOK
<1>8. ReaderOK(sent, NewReader)
  BY ReaderFields DEF ReaderOK
<1>9. \A p, n \in Nodes : Behind(<<>>, <<>>, <<>>, p, n)
  BY <1>2 DEF Behind
<1>10. \A p, n \in Nodes :
          PairOK(sent, msg_events[p], wire[p][n], segment_readers[n][p], Delivered(n), p, n)
  BY <1>5, <1>8, <1>9, EmptyStream DEF PairOK
<1> QED
  BY <1>3, <1>4, <1>7, <1>10 DEF SegmentsInv

\* peer_disconnected keeps the invariant: the reader waits for a part that may never come.
LEMMA StepDisconnected ==
    ASSUME SegmentsInv, NEW n \in Nodes, NEW p \in Nodes, peer_disconnected(n, p)
    PROVE  SegmentsInv'
<1>1. /\ sent' = sent /\ msg_events' = msg_events /\ msg_received' = msg_received
      /\ segment_readers' = segment_readers /\ taken' = taken /\ panicked' = panicked /\ blamed' = blamed
      /\ wire' = CutOff({{n, p}}) /\ links' = links \ {{n, p}}
  BY DEF peer_disconnected
<1>2. Shape /\ Blame(sent, blamed) /\ \A a, b \in Nodes : ReaderOK(sent, segment_readers[b][a])
  BY DEF SegmentsInv, PairOK
<1>3. /\ wire' \in [Nodes -> [Nodes -> Seq(Pieces)]]
      /\ links' \subseteq Pairs
      /\ \A a, b \in Nodes : wire'[a][b] # <<>> => {a, b} \in links'
      /\ \A a, b \in Nodes : wire'[a][b] = wire[a][b] \/ wire'[a][b] = <<>>
  BY <1>1, <1>2, Cut
<1>4. Shape'
  BY <1>1, <1>2, <1>3 DEF Shape
<1>5. Kept'
  <2>1. \A b \in Nodes : Delivered(b)' = Delivered(b)
    BY <1>1 DEF Delivered
  <2> QED
    BY <1>1, <1>2, <1>3, <2>1, StepLoses
<1> QED
  BY <1>1, <1>2, <1>4, <1>5 DEF SegmentsInv, Kept

\* peer_connected keeps the invariant: what comes first is a first part, whatever the reader kept.
LEMMA StepConnected ==
    ASSUME SegmentsInv, NEW n \in Nodes, NEW p \in Nodes, peer_connected(n, p)
    PROVE  SegmentsInv'
<1>1. /\ sent' = sent /\ msg_events' = msg_events /\ msg_received' = msg_received /\ wire' = wire
      /\ segment_readers' = segment_readers /\ taken' = taken /\ panicked' = panicked /\ blamed' = blamed
      /\ links' = links \cup {{n, p}} /\ n # p
  BY DEF peer_connected
<1>2. Shape /\ Blame(sent, blamed)
  BY DEF SegmentsInv
<1>3. {n, p} \in Pairs
  <2>1. << n, p >> \in {l \in Nodes \X Nodes : l[1] # l[2]} /\ << n, p >>[1] = n /\ << n, p >>[2] = p
    BY <1>1
  <2>2. \E l \in {l \in Nodes \X Nodes : l[1] # l[2]} : {l[1], l[2]} = {n, p}
    BY <2>1
  <2> QED
    BY <2>2, Zenon DEF Pairs
<1>4. links' \subseteq Pairs /\ \A a, b \in Nodes : wire'[a][b] # <<>> => {a, b} \in links'
  <2>1. \A a, b \in Nodes : wire'[a][b] # <<>> => {a, b} \in links
    BY <1>1, <1>2 DEF Shape
  <2> QED
    BY <1>1, <1>2, <1>3, <2>1 DEF Shape
<1>5. Shape'
  BY <1>1, <1>2, <1>4 DEF Shape
<1>6. Kept'
  <2>1. \A b \in Nodes : Delivered(b)' = Delivered(b)
    BY <1>1 DEF Delivered
  <2> QED
    BY <1>1, <2>1, StepLoses
<1> QED
  BY <1>1, <1>2, <1>5, <1>6 DEF SegmentsInv, Kept

\* get_and_clear_received_messages keeps the invariant: nothing is delivered twice.
LEMMA StepTaken ==
    ASSUME SegmentsInv, NEW n \in Nodes, get_and_clear_received_messages(n)
    PROVE  SegmentsInv'
<1>1. /\ sent' = sent /\ msg_events' = msg_events /\ wire' = wire /\ links' = links
      /\ segment_readers' = segment_readers /\ panicked' = panicked /\ blamed' = blamed
      /\ taken' = [taken EXCEPT ![n] = taken[n] \o msg_received[n]]
      /\ msg_received' = [msg_received EXCEPT ![n] = <<>>]
  BY DEF get_and_clear_received_messages
<1>2. Shape /\ Blame(sent, blamed)
  BY DEF SegmentsInv
<1>3. PICK X : X = Nodes \X Nat
  OBVIOUS
<1>4. taken \in [Nodes -> Seq(X)] /\ msg_received \in [Nodes -> Seq(X)]
  BY <1>2, <1>3 DEF Shape
<1>5. taken' \in [Nodes -> Seq(X)] /\ msg_received' \in [Nodes -> Seq(X)]
  BY <1>1, <1>4
<1>6. \A b \in Nodes : Delivered(b)' = Delivered(b)
  <2> SUFFICES ASSUME NEW b \in Nodes PROVE taken'[b] \o msg_received'[b] = taken[b] \o msg_received[b]
    BY DEF Delivered
  <2>1. CASE b = n
    <3>1. PICK t \in Seq(X), r \in Seq(X) : t = taken[b] /\ r = msg_received[b]
      BY <1>4
    <3>2. taken'[b] = t \o r /\ msg_received'[b] = <<>>
      BY <1>1, <1>4, <2>1, <3>1
    <3>3. (t \o r) \o <<>> = t \o r
      <4>1. \A z \in Seq(X) : z \o <<>> = z
        OBVIOUS
      <4> QED
        BY <4>1
    <3> QED
      BY <3>1, <3>2, <3>3
  <2>2. CASE b # n
    BY <1>1, <1>4, <2>2
  <2> QED
    BY <2>1, <2>2
<1>7. Shape'
  BY <1>1, <1>2, <1>3, <1>5 DEF Shape
<1>8. Kept'
  BY <1>1, <1>6, StepLoses
<1> QED
  BY <1>1, <1>2, <1>7, <1>8 DEF SegmentsInv, Kept

\* Restart keeps the invariant: the queue, the readers and what was not taken are lost.
LEMMA StepRestart ==
    ASSUME SegmentsInv, NEW n \in Nodes, Restart(n)
    PROVE  SegmentsInv'
<1>1. /\ sent' = sent /\ taken' = taken /\ blamed' = blamed /\ panicked' = panicked \ {n}
      /\ msg_events' = [msg_events EXCEPT ![n] = <<>>]
      /\ msg_received' = [msg_received EXCEPT ![n] = <<>>]
      /\ segment_readers' = [segment_readers EXCEPT ![n] = [p \in Nodes |-> NewReader]]
      /\ wire' = CutOff(LinksOf(n)) /\ links' = links \ LinksOf(n)
  BY DEF Restart
<1>2. Shape /\ Blame(sent, blamed)
  BY DEF SegmentsInv
<1>3. /\ wire' \in [Nodes -> [Nodes -> Seq(Pieces)]]
      /\ links' \subseteq Pairs
      /\ \A a, b \in Nodes : wire'[a][b] # <<>> => {a, b} \in links'
      /\ \A a, b \in Nodes : wire'[a][b] = wire[a][b] \/ wire'[a][b] = <<>>
      /\ \A a, b \in Nodes : {a, b} \in LinksOf(n) => wire'[a][b] = <<>>
  BY <1>1, <1>2, Cut
<1>4. \A a \in Nodes : wire'[a][n] = <<>>
  <2> SUFFICES ASSUME NEW a \in Nodes, wire'[a][n] # <<>> PROVE FALSE
    OBVIOUS
  <2>1. PICK l : l = {a, n}
    OBVIOUS
  <2>2. l \in links /\ l \notin LinksOf(n) /\ n \in l
    BY <1>1, <1>3, <2>1
  <2> QED
    BY <2>2 DEF LinksOf
<1>5. ReaderOK(sent, NewReader)
  BY ReaderFields DEF ReaderOK
<1>6. PICK X, Y : X = Nodes \X Nat /\ Y = Nodes \X Pieces
  OBVIOUS
<1>7. /\ msg_events \in [Nodes -> Seq(Y)] /\ msg_received \in [Nodes -> Seq(X)] /\ taken \in [Nodes -> Seq(X)]
      /\ segment_readers \in [Nodes -> [Nodes -> Readers]]
  BY <1>2, <1>6 DEF Shape
<1>8. segment_readers' \in [Nodes -> [Nodes -> Readers]]
  BY <1>1, <1>7, ReaderFields
<1>9. msg_events' \in [Nodes -> Seq(Y)] /\ msg_received' \in [Nodes -> Seq(X)]
  BY <1>1, <1>7
<1>10. Shape'
  BY <1>1, <1>2, <1>3, <1>6, <1>8, <1>9 DEF Shape
<1>11. \A b \in Nodes : Delivered(b)' = Delivered(b) \/ Delivered(b)' = taken[b]
  BY <1>1, <1>7 DEF Delivered
<1>12. \A b \in Nodes : msg_events'[b] = msg_events[b] \/ msg_events'[b] = <<>>
  BY <1>1, <1>7
<1>13. ASSUME NEW a \in Nodes, NEW b \in Nodes
       PROVE  \/ wire'[a][b] = wire[a][b] /\ segment_readers'[b][a] = segment_readers[b][a]
              \/ wire'[a][b] = <<>> /\ ReaderOK(sent, segment_readers'[b][a])
  <2>1. CASE b = n
    <3>1. segment_readers'[b][a] = NewReader
      BY <1>1, <1>7, <2>1
    <3> QED
      BY <1>4, <1>5, <2>1, <3>1
  <2>2. CASE b # n
    <3>1. segment_readers'[b][a] = segment_readers[b][a]
      BY <1>1, <1>7, <2>2
    <3>2. ReaderOK(sent, segment_readers[b][a])
      BY DEF SegmentsInv, PairOK
    <3> QED
      BY <1>3, <3>1, <3>2
  <2> QED
    BY <2>1, <2>2
<1>14. Kept'
  BY <1>1, <1>11, <1>12, <1>13, StepLoses
<1> QED
  BY <1>1, <1>2, <1>10, <1>14 DEF SegmentsInv, Kept
\* send_message keeps the invariant: all parts of a message go to the end of the queue.
LEMMA StepSend ==
    ASSUME SegmentsInv, NEW n, NEW p, << n, p >> \in Routes, NEW m \in Messages, send_message(n, p, m)
    PROVE  SegmentsInv'
<1>1. PICK new : new = [from |-> n, to |-> p, kind |-> m.kind, size |-> m.size]
  OBVIOUS
<1>2. PICK s, i, z : s = sent /\ i = Len(s) + 1 /\ z = Enqueued(msg_events[n], p, i, m.size)
  OBVIOUS
<1>3. /\ Len(s) < MaxSends /\ sent' = Append(s, new)
      /\ msg_events' = [msg_events EXCEPT ![n] = z]
      /\ msg_received' = msg_received /\ segment_readers' = segment_readers /\ links' = links
      /\ wire' = wire /\ taken' = taken /\ panicked' = panicked /\ blamed' = blamed
  BY <1>1, <1>2 DEF send_message
<1>4. PICK t : t = Append(s, new)
  OBVIOUS
<1>5. n \in Nodes /\ p \in Nodes /\ m \in [kind : STRING, size : Nat] /\ MaxSends \in Nat
  BY SizesAssumption
<1>6. PICK M : M = [from : Nodes, to : Nodes, kind : STRING, size : Nat]
  OBVIOUS
<1>7. new \in M /\ new.from = n /\ new.to = p /\ new.size = m.size
  BY <1>1, <1>5, <1>6
<1>8. Shape /\ Blame(s, blamed) /\ s \in Seq(M)
  BY <1>2, <1>6 DEF SegmentsInv, Shape, Sent
<1>9. /\ t \in Seq(M) /\ Len(t) = i /\ t[i] = new /\ i \in Nat /\ Len(s) \in Nat
      /\ DOMAIN s = 1 .. Len(s) /\ DOMAIN t = 1 .. i
      /\ \A j \in 1 .. Len(s) : t[j] = s[j]
  BY <1>2, <1>4, <1>7, <1>8
<1>10. t \in Sent /\ s \in Sent
  BY <1>6, <1>8, <1>9, Zenon DEF Sent
<1>11. i \in DOMAIN t /\ Len(t) <= MaxSends /\ DOMAIN s \subseteq DOMAIN t /\ Len(s) <= MaxSends
  BY <1>2, <1>3, <1>5, <1>9
<1>12. Grown(s, t)
  BY <1>9, <1>10, <1>11 DEF Grown
<1>13. t[i].from = n /\ t[i].to = p /\ t[i].size = m.size /\ z = Enqueued(msg_events[n], p, i, t[i].size)
  BY <1>2, <1>7, <1>9
<1>14. ASSUME NEW a \in Nodes
       PROVE  /\ NodeOK(s, msg_events[a], Delivered(a), a) /\ NodeOK(t, msg_events[a], Delivered(a), a)
              /\ msg_events[a] \in Seq(Nodes \X Pieces)
              /\ \A k \in 1 .. Len(msg_events[a]) : msg_events[a][k][2].msg < i
              /\ \A k \in 1 .. Len(Delivered(a)) : Delivered(a)[k][2] < i
  <2>1. PICK q, d : q = msg_events[a] /\ d = Delivered(a)
    OBVIOUS
  <2>2. NodeOK(s, q, d, a)
    BY <1>2, <2>1 DEF SegmentsInv
  <2>3. NodeOK(t, q, d, a)
    BY <1>12, <2>2, GrownNode
  <2>4. q \in Seq(Nodes \X Pieces) /\ Stream(s, Line(q))
    BY <2>2 DEF NodeOK, QueueOK
  <2>5. \A k \in 1 .. Len(q) : q[k][2].msg < i
    <3> SUFFICES ASSUME NEW k \in 1 .. Len(q) PROVE q[k][2].msg < i
      OBVIOUS
    <3>1. Len(Line(q)) = Len(q) /\ Line(q)[k] = q[k][2]
      BY <2>4 DEF Line
    <3>2. IsPart(s, Line(q)[k])
      BY <2>4, <3>1 DEF Stream
    <3>3. q[k][2].msg \in 1 .. Len(s)
      BY <1>10, <1>11, <3>1, <3>2, PartIsPiece
    <3> QED
      BY <1>2, <1>9, <3>3
  <2>6. \A k \in 1 .. Len(d) : d[k][2] < i
    <3>1. \A k \in 1 .. Len(d) : d[k][2] \in 1 .. Len(s)
      BY <1>9, <2>2 DEF NodeOK, DeliveredOK
    <3> QED
      BY <1>2, <1>9, <3>1
  <2> QED
    BY <2>1, <2>2, <2>3, <2>4, <2>5, <2>6
<1>15. ASSUME NEW a \in Nodes, NEW b \in Nodes
       PROVE  /\ PairOK(t, msg_events[a], wire[a][b], segment_readers[b][a], Delivered(b), a, b)
              /\ \A k \in 1 .. Len(wire[a][b]) : wire[a][b][k].msg < i
  <2>1. PairOK(s, msg_events[a], wire[a][b], segment_readers[b][a], Delivered(b), a, b)
    BY <1>2 DEF SegmentsInv
  <2>2. PICK w : w = wire[a][b]
    OBVIOUS
  <2>3. Stream(s, w)
    BY <2>1, <2>2 DEF PairOK, WireOK
  <2>4. ASSUME NEW k \in 1 .. Len(w) PROVE w[k].msg < i
    <3>1. IsPart(s, w[k])
      BY <2>3 DEF Stream
    <3>2. w[k].msg \in 1 .. Len(s)
      BY <1>10, <1>11, <3>1, PartIsPiece
    <3> QED
      BY <1>2, <1>9, <3>2
  <2> QED
    BY <1>12, <2>1, <2>2, <2>4, GrownPair
<1>16. NodeOK(t, z, Delivered(n), n) /\ z \in Seq(Nodes \X Pieces)
  <2>1. PICK q, d : q = msg_events[n] /\ d = Delivered(n)
    OBVIOUS
  <2>2. NodeOK(t, q, d, n) /\ \A k \in 1 .. Len(q) : q[k][2].msg < i
    BY <1>5, <1>14, <2>1
  <2>3. z = Enqueued(q, p, i, t[i].size)
    BY <1>13, <2>1
  <2>4. NodeOK(t, z, d, n) /\ z \in Seq(Nodes \X Pieces)
    BY <1>5, <1>10, <1>11, <1>13, <2>2, <2>3, NodeSends
  <2> QED
    BY <2>1, <2>4
<1>17. ASSUME NEW b \in Nodes PROVE PairOK(t, z, wire[n][b], segment_readers[b][n], Delivered(b), n, b)
  <2>1. PICK q, w, r, d : /\ q = msg_events[n] /\ w = wire[n][b] /\ r = segment_readers[b][n]
                          /\ d = Delivered(b)
    OBVIOUS
  <2>2. /\ PairOK(t, q, w, r, d, n, b) /\ q \in Seq(Nodes \X Pieces)
        /\ \A k \in 1 .. Len(w) : w[k].msg < i
        /\ \A k \in 1 .. Len(d) : d[k][2] < i
    BY <1>5, <1>14, <1>15, <2>1
  <2>3. z = Enqueued(q, p, i, t[i].size)
    BY <1>13, <2>1
  <2>4. PairOK(t, z, w, r, d, n, b)
    BY <1>5, <1>10, <1>11, <2>2, <2>3, PairSends
  <2> QED
    BY <2>1, <2>4
<1>18. PICK Y : Y = Nodes \X Pieces
  OBVIOUS
<1>19. msg_events \in [Nodes -> Seq(Y)] /\ z \in Seq(Y)
  BY <1>8, <1>16, <1>18 DEF Shape
<1>20. /\ msg_events' \in [Nodes -> Seq(Y)] /\ msg_events'[n] = z
       /\ \A a \in Nodes : a # n => msg_events'[a] = msg_events[a]
  BY <1>3, <1>5, <1>19
<1>21. sent' = t /\ \A a \in Nodes : Delivered(a)' = Delivered(a)
  BY <1>3, <1>4 DEF Delivered
<1>22. \A j \in 1 .. Len(t) : << t[j].from, t[j].to >> \in Routes
  <2>1. \A j \in 1 .. Len(s) : << s[j].from, s[j].to >> \in Routes
    BY <1>2, <1>8 DEF Shape
  <2>2. \A j \in 1 .. Len(t) : j \in 1 .. Len(s) \/ j = i
    BY <1>2, <1>9
  <2> QED
    BY <1>9, <1>13, <2>1, <2>2
<1>23. Shape'
  BY <1>3, <1>8, <1>10, <1>11, <1>18, <1>20, <1>21, <1>22 DEF Shape
<1>24. Blame(sent', blamed')
  BY <1>3, <1>8, <1>12, <1>21, GrownBlame
<1>25. \A a \in Nodes : NodeOK(t, msg_events'[a], Delivered(a), a)
  BY <1>14, <1>16, <1>20
<1>26. \A a, b \in Nodes : PairOK(t, msg_events'[a], wire[a][b], segment_readers[b][a], Delivered(b), a, b)
  BY <1>15, <1>17, <1>20
<1>27. Kept'
  BY <1>3, <1>21, <1>25, <1>26 DEF Kept
<1> QED
  BY <1>23, <1>24, <1>27 DEF SegmentsInv, Kept

\* The transport cannot carry a part only if it is a message that was not segmented.
LEMMA OnlyLongMessages ==
    ASSUME NEW s \in Sent, Len(s) <= MaxSends, NEW w, IsPart(s, w), WireSize(w) > MAX_DATA_SIZE
    PROVE  Undeliverable(s[w.msg])
<1>1. PICK parts : parts = PartsIn(s, w.msg)
  OBVIOUS
<1>2. PICK k \in DOMAIN parts : w.msg \in DOMAIN s /\ w = parts[k]
  BY <1>1 DEF IsPart, Part
<1>3. /\ AreParts(parts, w.msg, s[w.msg].size) /\ s[w.msg].size \in Nat
      /\ parts \in Seq(Pieces) /\ Len(parts) \in Nat /\ k \in 1 .. Len(parts)
  <2>1. AreParts(parts, w.msg, s[w.msg].size) /\ s[w.msg].size \in Nat /\ parts \in Seq(Pieces)
    BY <1>1, <1>2, PartsOfSent
  <2> QED
    BY <1>2, <2>1
<1>4. w \in Pieces
  BY <1>2, <1>3
<1>5. PICK size \in Int : size = Size(w)
  BY <1>4 DEF Size, Pieces
<1>6. CASE s[w.msg].size <= MAX_BUF_SIZE
  <2>1. Len(parts) = 1 /\ k = 1
    BY <1>3, <1>6 DEF AreParts
  <2>2. w.type = "Message" /\ w.lo = 1 /\ w.hi = s[w.msg].size + 2
    BY <1>2, <1>3, <1>6, <2>1 DEF AreParts
  <2>3. WireSize(w) = Size(w) /\ Size(w) = s[w.msg].size + 2
    BY <1>3, <2>2 DEF WireSize, Size
  <2> QED
    BY <1>6, <2>3 DEF Undeliverable
<1>7. CASE s[w.msg].size > MAX_BUF_SIZE
  <2>1. CASE k = 1
    <3>1. w.type = "SegmentStart" /\ Size(w) = MAX_START_DATA_SIZE
      BY <1>2, <1>3, <1>7, <2>1 DEF AreParts
    <3>2. WireSize(w) = MAX_START_DATA_SIZE + 9
      BY <3>1, Limits DEF WireSize
    <3> QED
      BY <3>2, Limits DEF MAX_START_DATA_SIZE
  <2>2. CASE k # 1
    <3>1. k \in 2 .. Len(parts)
      BY <1>3, <2>2
    <3>2. w.type = "SegmentChunk" /\ Size(w) <= MAX_CHUNK_SIZE
      BY <1>2, <1>3, <3>1 DEF AreParts
    <3>3. WireSize(w) = size + 7
      BY <1>5, <3>2 DEF WireSize
    <3> QED
      BY <1>5, <3>2, <3>3, Limits DEF MAX_CHUNK_SIZE
  <2> QED
    BY <2>1, <2>2
<1>8. s[w.msg].size <= MAX_BUF_SIZE \/ s[w.msg].size > MAX_BUF_SIZE
  BY <1>3, Limits
<1> QED
  BY <1>6, <1>7, <1>8

\* A program panics over a message that cannot be delivered.
LEMMA StepPanics ==
    ASSUME SegmentsInv, NEW n \in Nodes, NEW i \in DOMAIN sent, Undeliverable(sent[i]), Panic(n, i)
    PROVE  /\ wire' \in [Nodes -> [Nodes -> Seq(Pieces)]]
           /\ links' \subseteq Pairs /\ panicked' \subseteq Nodes
           /\ \A a, b \in Nodes : wire'[a][b] # <<>> => {a, b} \in links'
           /\ \A a, b \in Nodes : wire'[a][b] = wire[a][b] \/ wire'[a][b] = <<>>
           /\ \A a \in Nodes : wire'[a][n] = <<>>
           /\ Blame(sent, blamed')
<1>1. /\ panicked' = panicked \cup {n} /\ blamed' = blamed \cup {i}
      /\ links' = links \ LinksOf(n) /\ wire' = CutOff(LinksOf(n))
  BY DEF Panic
<1>2. Shape /\ Blame(sent, blamed)
  BY DEF SegmentsInv
<1>3. /\ wire' \in [Nodes -> [Nodes -> Seq(Pieces)]]
      /\ links' \subseteq Pairs
      /\ \A a, b \in Nodes : wire'[a][b] # <<>> => {a, b} \in links'
      /\ \A a, b \in Nodes : wire'[a][b] = wire[a][b] \/ wire'[a][b] = <<>>
  BY <1>1, <1>2, Cut
<1>4. \A a \in Nodes : wire'[a][n] = <<>>
  <2> SUFFICES ASSUME NEW a \in Nodes, wire'[a][n] # <<>> PROVE FALSE
    OBVIOUS
  <2>1. PICK l : l = {a, n}
    OBVIOUS
  <2>2. l \in links /\ l \notin LinksOf(n) /\ n \in l
    BY <1>1, <1>3, <2>1
  <2> QED
    BY <2>2 DEF LinksOf
<1>5. Blame(sent, blamed') /\ panicked' \subseteq Nodes
  BY <1>1, <1>2 DEF Blame, Shape
<1> QED
  BY <1>3, <1>4, <1>5

\* process_events keeps the invariant: each connected peer gets its part of the queue, in order.
LEMMA StepProcess ==
    ASSUME SegmentsInv, NEW n \in Nodes, process_events(n)
    PROVE  SegmentsInv'
<1>1. /\ sent' = sent /\ msg_received' = msg_received /\ segment_readers' = segment_readers /\ taken' = taken
      /\ msg_events' = [msg_events EXCEPT ![n] = <<>>]
  BY DEF process_events
<1>2. Shape /\ Blame(sent, blamed) /\ sent \in Sent /\ Len(sent) <= MaxSends
  BY DEF SegmentsInv, Shape
<1>3. PICK Y : Y = Nodes \X Pieces
  OBVIOUS
<1>4. msg_events \in [Nodes -> Seq(Y)]
  BY <1>2, <1>3 DEF Shape
<1>5. /\ msg_events' \in [Nodes -> Seq(Y)] /\ msg_events'[n] = <<>>
      /\ \A a \in Nodes : a # n => msg_events'[a] = msg_events[a]
  BY <1>1, <1>4
<1>6. \A a \in Nodes : Delivered(a)' = Delivered(a)
  BY <1>1 DEF Delivered
<1>7. \A a, b \in Nodes : ReaderOK(sent, segment_readers[b][a])
  BY DEF SegmentsInv, PairOK
<1>8. PICK q : q = msg_events[n]
  OBVIOUS
<1>9. QueueOK(sent, q, n)
  BY <1>8 DEF SegmentsInv, NodeOK
<1>10. CASE \E k \in TooLong(n) : Panic(n, msg_events[n][k][2].msg)
  <2>1. PICK k \in TooLong(n) : Panic(n, q[k][2].msg)
    BY <1>8, <1>10
  <2>2. k \in DOMAIN q /\ WireSize(q[k][2]) > MAX_DATA_SIZE
    BY <1>8 DEF TooLong
  <2>3. PICK w : w = q[k][2]
    OBVIOUS
  <2>4. IsPart(sent, w)
    <3>1. q \in Seq(Nodes \X Pieces) /\ Stream(sent, Line(q))
      BY <1>9 DEF QueueOK
    <3>2. k \in 1 .. Len(q)
      BY <2>2, <3>1
    <3>3. Len(Line(q)) = Len(q) /\ Line(q)[k] = w
      BY <2>3, <3>1, <3>2 DEF Line
    <3> QED
      BY <3>1, <3>2, <3>3 DEF Stream
  <2>5. w.msg \in DOMAIN sent /\ Undeliverable(sent[w.msg])
    BY <1>2, <2>2, <2>3, <2>4, OnlyLongMessages DEF IsPart
  <2>6. /\ wire' \in [Nodes -> [Nodes -> Seq(Pieces)]]
        /\ links' \subseteq Pairs /\ panicked' \subseteq Nodes
        /\ \A a, b \in Nodes : wire'[a][b] # <<>> => {a, b} \in links'
        /\ \A a, b \in Nodes : wire'[a][b] = wire[a][b] \/ wire'[a][b] = <<>>
        /\ Blame(sent, blamed')
    BY <2>1, <2>3, <2>5, StepPanics
  <2>7. Shape'
    BY <1>1, <1>2, <1>3, <1>5, <2>6 DEF Shape
  <2>8. Kept'
    BY <1>1, <1>5, <1>6, <1>7, <2>6, StepLoses
  <2> QED
    BY <1>1, <2>6, <2>7, <2>8 DEF SegmentsInv, Kept
<1>11. CASE /\ wire' = [wire EXCEPT ![n] = [p \in Nodes |->
                 IF {n, p} \in links THEN wire[n][p] \o For(msg_events[n], p) ELSE wire[n][p]]]
            /\ UNCHANGED << links, panicked, blamed >>
  <2>1. links' = links /\ panicked' = panicked /\ blamed' = blamed
    BY <1>11
  <2>2. wire \in [Nodes -> [Nodes -> Seq(Pieces)]]
    BY <1>2 DEF Shape
  <2>3. ASSUME NEW b \in Nodes
        PROVE  /\ wire'[n][b] \in Seq(Pieces)
               /\ PairOK(sent, <<>>, wire'[n][b], segment_readers[b][n], Delivered(b), n, b)
               /\ wire'[n][b] # <<>> => {n, b} \in links
    <3>1. PICK w, r, d, l : /\ w = wire[n][b] /\ r = segment_readers[b][n] /\ d = Delivered(b)
                            /\ l = {n, b}
      OBVIOUS
    <3>2. PairOK(sent, q, w, r, d, n, b) /\ w \in Seq(Pieces) /\ (w # <<>> => l \in links)
      BY <1>2, <1>8, <2>2, <3>1 DEF SegmentsInv, Shape
    <3>3. wire'[n][b] = IF l \in links THEN w \o For(q, b) ELSE w
      BY <1>8, <1>11, <2>2, <3>1
    <3>4. PairOK(sent, <<>>, w \o For(q, b), r, d, n, b) /\ w \o For(q, b) \in Seq(Pieces)
      BY <1>2, <1>9, <3>2, PairSent
    <3>5. PairOK(sent, <<>>, w, r, d, n, b)
      BY <3>2, PairDropped
    <3>6. PICK v : v = wire'[n][b]
      OBVIOUS
    <3>7. v \in Seq(Pieces) /\ PairOK(sent, <<>>, v, r, d, n, b) /\ (v # <<>> => l \in links)
      BY <3>2, <3>3, <3>4, <3>5, <3>6
    <3> QED
      BY <3>1, <3>6, <3>7
  <2>4. \A a \in Nodes : a # n => wire'[a] = wire[a]
    BY <1>11, <2>2
  <2>5. DOMAIN wire' = Nodes /\ wire'[n] \in [Nodes -> Seq(Pieces)]
    <3>1. DOMAIN wire' = Nodes
      BY <1>11, <2>2
    <3>2. \E f : wire'[n] = [p \in Nodes |-> f[p]]
      <4>1. wire'[n] = [p \in Nodes |-> IF {n, p} \in links THEN wire[n][p] \o For(msg_events[n], p) ELSE wire[n][p]]
        BY <1>11, <2>2
      <4>2. wire'[n] = [p \in Nodes |-> wire'[n][p]]
        BY <4>1
      <4> QED
        BY <4>2
    <3> QED
      BY <2>3, <3>1, <3>2
  <2>6. wire' \in [Nodes -> [Nodes -> Seq(Pieces)]]
    <3>1. wire' = [a \in Nodes |-> wire'[a]]
      BY <1>11, <2>2
    <3>2. \A a \in Nodes : wire'[a] \in [Nodes -> Seq(Pieces)]
      BY <2>2, <2>4, <2>5
    <3> QED
      BY <3>1, <3>2
  <2>7. \A a, b \in Nodes : wire'[a][b] # <<>> => {a, b} \in links'
    <3>1. \A a, b \in Nodes : a # n => (wire'[a][b] # <<>> => {a, b} \in links)
      BY <1>2, <2>4 DEF Shape
    <3> QED
      BY <2>1, <2>3, <3>1
  <2>8. Shape'
    BY <1>1, <1>2, <1>3, <1>5, <2>1, <2>6, <2>7 DEF Shape
  <2>9. \A a \in Nodes : NodeOK(sent, msg_events'[a], Delivered(a), a)
    <3>1. \A a \in Nodes : NodeOK(sent, msg_events[a], Delivered(a), a)
      BY DEF SegmentsInv
    <3>2. NodeOK(sent, <<>>, Delivered(n), n)
      BY <3>1, EmptyStream DEF NodeOK
    <3> QED
      BY <1>5, <3>1, <3>2
  <2>10. \A a, b \in Nodes : PairOK(sent, msg_events'[a], wire'[a][b], segment_readers[b][a], Delivered(b), a, b)
    <3>1. \A a, b \in Nodes : PairOK(sent, msg_events[a], wire[a][b], segment_readers[b][a], Delivered(b), a, b)
      BY DEF SegmentsInv
    <3> QED
      BY <1>5, <2>3, <2>4, <3>1
  <2>11. Kept'
    BY <1>1, <1>6, <2>9, <2>10 DEF Kept
  <2> QED
    BY <1>1, <1>2, <2>1, <2>8, <2>11 DEF SegmentsInv, Kept
<1> QED
  BY <1>10, <1>11, Zenon DEF process_events
\* Receive keeps the invariant, whether the part is kept, completes a message or makes n fail.
LEMMA StepReceive ==
    ASSUME SegmentsInv, NEW n \in Nodes, NEW p \in Nodes, Receive(n, p)
    PROVE  SegmentsInv'
<1> DEFINE News(h) == [k \in 1 .. Len(h.msgs) |-> << p, h.msgs[k] >>]
           Then(h, x) ==
              /\ segment_readers' = [segment_readers EXCEPT ![n][p] = h.reader]
              /\ msg_received' = [msg_received EXCEPT ![n] = @ \o News(h)]
              /\ CASE h.result = "Ok" ->
                        /\ wire' = [wire EXCEPT ![p][n] = Tail(@)]
                        /\ UNCHANGED << links, panicked, blamed >>
                   [] h.result = "Err" ->
                        /\ links' = links \ {{n, p}}
                        /\ wire' = CutOff({{n, p}})
                        /\ blamed' = blamed \cup {x.msg}
                        /\ UNCHANGED panicked
                   [] h.result = "Panic" -> Panic(n, x.msg)
<1>1. sent' = sent /\ msg_events' = msg_events /\ taken' = taken /\ wire[p][n] # <<>>
  BY DEF Receive
<1>2. Then(Reading(segment_readers[n][p], Head(wire[p][n])), Head(wire[p][n]))
  BY Zenon DEF Receive, Reading
<1>3. PICK q, w, r, d : /\ q = msg_events[p] /\ w = wire[p][n] /\ r = segment_readers[n][p]
                        /\ d = Delivered(n)
  OBVIOUS
<1>4. PICK x, h : x = Head(w) /\ h = Reading(r, x)
  OBVIOUS
<1>5. Then(h, x)
  BY <1>2, <1>3, <1>4
<1>6. Shape /\ Blame(sent, blamed) /\ sent \in Sent /\ Len(sent) <= MaxSends
  BY DEF SegmentsInv, Shape
<1>7. PairOK(sent, q, w, r, d, p, n) /\ NodeOK(sent, msg_events[n], d, n)
  BY <1>3 DEF SegmentsInv
<1>8. /\ ReaderOK(sent, r) /\ Stream(sent, w) /\ w # <<>> /\ w \in Seq(Pieces)
      /\ First(sent, w[1]) \/ Continues(sent, r, w[1])
  BY <1>1, <1>3, <1>7 DEF PairOK, WireOK, Stream
<1>9. x = w[1] /\ 1 \in 1 .. Len(w)
  BY <1>4, <1>8
<1>10. Outcome(sent, x, h.reader, h.msgs, h.result)
  BY <1>4, <1>6, <1>8, <1>9, Reads
<1>11. IsPart(sent, x) /\ sent[x.msg].from = p /\ sent[x.msg].to = n
  BY <1>7, <1>8, <1>9 DEF Stream, PairOK, WireOK
<1>12. x \in Pieces /\ x.msg \in DOMAIN sent /\ x.msg \in Nat
  <2>1. x \in Pieces
    BY <1>6, <1>11, PartIsPiece
  <2> QED
    BY <1>11, <2>1 DEF IsPart, Pieces
<1>13. ReaderOK(sent, h.reader) /\ h.reader \in Readers
  <2>1. ReaderOK(sent, NewReader)
    BY ReaderFields DEF ReaderOK
  <2>2. ReaderOK(sent, h.reader)
    BY <1>10, <2>1 DEF Outcome
  <2> QED
    BY <2>2 DEF ReaderOK
<1>14. PICK X : X = Nodes \X Nat
  OBVIOUS
<1>15. msg_received \in [Nodes -> Seq(X)] /\ taken \in [Nodes -> Seq(X)] /\ << p, x.msg >> \in X
  BY <1>6, <1>12, <1>14 DEF Shape
<1>16. segment_readers \in [Nodes -> [Nodes -> Readers]] /\ wire \in [Nodes -> [Nodes -> Seq(Pieces)]]
  BY <1>6 DEF Shape
<1>17. /\ segment_readers' \in [Nodes -> [Nodes -> Readers]] /\ segment_readers'[n][p] = h.reader
       /\ \A a, b \in Nodes : (a # p \/ b # n) => segment_readers'[b][a] = segment_readers[b][a]
  <2>1. segment_readers' = [segment_readers EXCEPT ![n][p] = h.reader]
    BY <1>5
  <2> QED
    BY <1>13, <1>16, <2>1
<1>18. PICK news : news = News(h)
  OBVIOUS
<1>19. msg_received' = [msg_received EXCEPT ![n] = msg_received[n] \o news]
  BY <1>5, <1>18
<1>20. (h.msgs = <<>> => news = <<>>) /\ (h.msgs = << x.msg >> => news = << << p, x.msg >> >>)
  BY <1>18
<1>21. news \in Seq(X)
  <2>1. h.msgs = <<>> \/ h.msgs = << x.msg >>
    BY <1>10 DEF Outcome
  <2>2. <<>> \in Seq(X) /\ \A y \in X : << y >> \in Seq(X)
    OBVIOUS
  <2>3. << << p, x.msg >> >> \in Seq(X)
    BY <1>15, <2>2
  <2> HIDE DEF News, Then
  <2> QED
    BY <1>20, <2>1, <2>2, <2>3
<1>22. msg_received' \in [Nodes -> Seq(X)]
  BY <1>15, <1>19, <1>21
<1>23. \A b \in Nodes : b # n => Delivered(b)' = Delivered(b)
  BY <1>1, <1>15, <1>19 DEF Delivered
<1>24. d \in Seq(X) /\ Delivered(n)' = d \o news
  <2>1. PICK t \in Seq(X), m \in Seq(X) : t = taken[n] /\ m = msg_received[n]
    BY <1>15
  <2>2. d = t \o m
    BY <1>3, <2>1 DEF Delivered
  <2>3. msg_received'[n] = m \o news /\ taken'[n] = t
    BY <1>1, <1>15, <1>19, <2>1
  <2>4. Delivered(n)' = t \o (m \o news)
    BY <2>3 DEF Delivered
  <2>5. \A a, b, c \in Seq(X) : a \o (b \o c) = (a \o b) \o c
    OBVIOUS
  <2>6. t \o m \in Seq(X)
    OBVIOUS
  <2> QED
    BY <1>21, <2>2, <2>4, <2>5, <2>6
<1>25. h.msgs = <<>> => Delivered(n)' = d
  BY <1>20, <1>24
<1>26. {n, p} \in links /\ {p, n} \in links /\ {n, p} = {p, n}
  <2>1. {p, n} \in links
    BY <1>1, <1>6 DEF Shape
  <2>2. {n, p} = {p, n}
    OBVIOUS
  <2> QED
    BY <2>1, <2>2
<1> HIDE DEF News
<1>27. CASE h.result \in {"Err", "Panic"}
  <2>1. h.msgs = <<>> /\ Undeliverable(sent[x.msg])
    BY <1>10, <1>27 DEF Outcome
  <2>2. \A b \in Nodes : Delivered(b)' = Delivered(b)
    BY <1>3, <1>23, <1>25, <2>1
  <2>3. /\ wire' \in [Nodes -> [Nodes -> Seq(Pieces)]]
        /\ links' \subseteq Pairs /\ panicked' \subseteq Nodes
        /\ \A a, b \in Nodes : wire'[a][b] # <<>> => {a, b} \in links'
        /\ \A a, b \in Nodes : wire'[a][b] = wire[a][b] \/ wire'[a][b] = <<>>
        /\ wire'[p][n] = <<>>
        /\ Blame(sent, blamed')
    <3>1. CASE h.result = "Panic"
      <4>1. Panic(n, x.msg)
        BY <1>5, <3>1
      <4> HIDE DEF Then
      <4> QED
        BY <1>12, <2>1, <4>1, StepPanics
    <3>2. CASE h.result = "Err"
      <4>1. /\ links' = links \ {{n, p}} /\ wire' = CutOff({{n, p}})
            /\ blamed' = blamed \cup {x.msg} /\ panicked' = panicked
        BY <1>5, <3>2
      <4> HIDE DEF Then
      <4>2. /\ wire' \in [Nodes -> [Nodes -> Seq(Pieces)]]
            /\ links' \subseteq Pairs
            /\ \A a, b \in Nodes : wire'[a][b] # <<>> => {a, b} \in links'
            /\ \A a, b \in Nodes : wire'[a][b] = wire[a][b] \/ wire'[a][b] = <<>>
            /\ \A a, b \in Nodes : {a, b} \in {{n, p}} => wire'[a][b] = <<>>
        BY <1>6, <4>1, Cut
      <4>3. wire'[p][n] = <<>>
        BY <1>26, <4>2
      <4>4. Blame(sent, blamed') /\ panicked' \subseteq Nodes
        BY <1>6, <1>12, <2>1, <4>1 DEF Blame, Shape
      <4> QED
        BY <4>2, <4>3, <4>4
    <3> QED
      BY <1>27, <3>1, <3>2
  <2> HIDE DEF Then
  <2>4. Shape'
    BY <1>1, <1>6, <1>14, <1>17, <1>22, <2>3 DEF Shape
  <2>5. ASSUME NEW a \in Nodes, NEW b \in Nodes
        PROVE  \/ wire'[a][b] = wire[a][b] /\ segment_readers'[b][a] = segment_readers[b][a]
               \/ wire'[a][b] = <<>> /\ ReaderOK(sent, segment_readers'[b][a])
    <3>1. CASE a = p /\ b = n
      BY <1>13, <1>17, <2>3, <3>1
    <3>2. CASE a # p \/ b # n
      <4>1. segment_readers'[b][a] = segment_readers[b][a] /\ ReaderOK(sent, segment_readers[b][a])
        BY <1>17, <3>2 DEF SegmentsInv, PairOK
      <4> QED
        BY <2>3, <4>1
    <3> QED
      BY <3>1, <3>2
  <2>6. Kept'
    BY <1>1, <2>2, <2>5, StepLoses
  <2> QED
    BY <1>1, <2>3, <2>4, <2>6 DEF SegmentsInv, Kept
<1>28. CASE h.result = "Ok"
  <2>1. /\ wire' = [wire EXCEPT ![p][n] = Tail(w)]
        /\ links' = links /\ panicked' = panicked /\ blamed' = blamed
    BY <1>3, <1>5, <1>28
  <2> HIDE DEF Then
  <2>2. PairOK(sent, q, Tail(w), h.reader, d, p, n) /\ Tail(w) \in Seq(Pieces)
    BY <1>6, <1>7, <1>8, <1>9, <1>10, <1>28, PairRead
  <2>3. /\ wire' \in [Nodes -> [Nodes -> Seq(Pieces)]] /\ wire'[p][n] = Tail(w)
        /\ \A a, b \in Nodes : (a # p \/ b # n) => wire'[a][b] = wire[a][b]
    BY <1>16, <2>1, <2>2
  <2>4. \A a, b \in Nodes : wire'[a][b] # <<>> => {a, b} \in links'
    <3> SUFFICES ASSUME NEW a \in Nodes, NEW b \in Nodes, wire'[a][b] # <<>> PROVE {a, b} \in links
      BY <2>1
    <3>1. CASE a = p /\ b = n
      BY <1>26, <3>1
    <3>2. CASE a # p \/ b # n
      <4>1. wire[a][b] # <<>>
        BY <2>3, <3>2
      <4> QED
        BY <1>6, <4>1 DEF Shape
    <3> QED
      BY <3>1, <3>2
  <2>5. Shape'
    BY <1>1, <1>6, <1>14, <1>17, <1>22, <2>1, <2>3, <2>4 DEF Shape
  <2>6. PICK e : e = Delivered(n)'
    OBVIOUS
  <2>7. /\ NodeOK(sent, msg_events[n], e, n)
        /\ PairOK(sent, q, Tail(w), h.reader, e, p, n)
        /\ \A a \in Nodes : a # p => PairOK(sent, msg_events[a], wire[a][n], segment_readers[n][a], e, a, n)
    <3>1. \A a \in Nodes : PairOK(sent, msg_events[a], wire[a][n], segment_readers[n][a], d, a, n)
      BY <1>3 DEF SegmentsInv
    <3>2. CASE h.msgs = <<>>
      BY <1>7, <1>25, <2>2, <2>6, <3>1, <3>2
    <3>3. CASE h.msgs = << x.msg >> /\ Last(sent, x)
      <4>1. e = Append(d, << p, x.msg >>)
        <5>1. \A a \in Seq(X), y \in X : a \o << y >> = Append(a, y)
          OBVIOUS
        <5> QED
          BY <1>15, <1>20, <1>24, <2>6, <3>3, <5>1
      <4>2. d \in Seq(Nodes \X Nat) /\ q \in Seq(Nodes \X Pieces)
        BY <1>3, <1>6, <1>14, <1>24 DEF Shape
      <4>3. \A k \in 1 .. Len(d) : d[k][1] = p => d[k][2] < x.msg
        BY <1>7, <1>9 DEF PairOK, Behind
      <4>4. NodeOK(sent, msg_events[n], e, n)
        BY <1>6, <1>7, <1>11, <1>12, <4>1, <4>3, NodeDelivers
      <4>5. PairOK(sent, q, Tail(w), h.reader, e, p, n)
        BY <1>6, <1>7, <1>8, <1>9, <2>2, <3>3, <4>1, <4>2, PairDelivers
      <4>6. \A a \in Nodes : a # p => PairOK(sent, msg_events[a], wire[a][n], segment_readers[n][a], e, a, n)
        BY <1>12, <3>1, <4>1, <4>2, PairOfAnother
      <4> QED
        BY <4>4, <4>5, <4>6
    <3> QED
      BY <1>10, <1>28, <3>2, <3>3 DEF Outcome
  <2>8. \A b \in Nodes : NodeOK(sent, msg_events[b], Delivered(b)', b)
    <3>1. \A b \in Nodes : NodeOK(sent, msg_events[b], Delivered(b), b)
      BY DEF SegmentsInv
    <3> QED
      BY <1>23, <2>6, <2>7, <3>1
  <2>9. ASSUME NEW a \in Nodes, NEW b \in Nodes
        PROVE  PairOK(sent, msg_events[a], wire'[a][b], segment_readers'[b][a], Delivered(b)', a, b)
    <3>1. CASE a = p /\ b = n
      BY <1>3, <1>17, <2>3, <2>6, <2>7, <3>1
    <3>2. CASE a # p \/ b # n
      <4>1. wire'[a][b] = wire[a][b] /\ segment_readers'[b][a] = segment_readers[b][a]
        BY <1>17, <2>3, <3>2
      <4>2. CASE b = n
        BY <2>6, <2>7, <3>2, <4>1, <4>2
      <4>3. CASE b # n
        <5>1. PairOK(sent, msg_events[a], wire[a][b], segment_readers[b][a], Delivered(b), a, b)
          BY DEF SegmentsInv
        <5> QED
          BY <1>23, <4>1, <4>3, <5>1
      <4> QED
        BY <4>2, <4>3
    <3> QED
      BY <3>1, <3>2
  <2>10. Kept'
    BY <1>1, <2>8, <2>9 DEF Kept
  <2> QED
    BY <1>1, <1>6, <2>1, <2>5, <2>10 DEF SegmentsInv, Kept
<1> HIDE DEF Then
<1> QED
  BY <1>10, <1>27, <1>28 DEF Outcome

----------------------------------------------------------------------------
(* The theorems.                                                           *)

\* Every step keeps the invariant.
LEMMA SegmentsStep == SegmentsInv /\ [Next]_vars => SegmentsInv'
<1> SUFFICES ASSUME SegmentsInv, [Next]_vars PROVE SegmentsInv'
  OBVIOUS
<1>1. CASE \E r \in Routes, m \in Messages : send_message(r[1], r[2], m)
  <2>1. PICK r \in Routes, m \in Messages : send_message(r[1], r[2], m)
    BY <1>1
  <2>2. << r[1], r[2] >> \in Routes
    <3>1. r \in Nodes \X Nodes
      BY SizesAssumption
    <3>2. r = << r[1], r[2] >>
      BY <3>1
    <3> QED
      BY <3>2
  <2> QED
    BY <2>1, <2>2, StepSend
<1>2. CASE \E n \in Nodes : get_and_clear_received_messages(n)
  BY <1>2, StepTaken
<1>3. CASE \E n \in Nodes : process_events(n)
  BY <1>3, StepProcess
<1>4. CASE \E n, p \in Nodes : Receive(n, p)
  BY <1>4, StepReceive
<1>5. CASE \E n, p \in Nodes : peer_connected(n, p)
  BY <1>5, StepConnected
<1>6. CASE \E n, p \in Nodes : peer_disconnected(n, p)
  BY <1>6, StepDisconnected
<1>7. CASE \E n \in Nodes : Restart(n)
  BY <1>7, StepRestart
<1>8. CASE UNCHANGED vars
  <2>1. /\ sent' = sent /\ msg_events' = msg_events /\ msg_received' = msg_received /\ wire' = wire
        /\ segment_readers' = segment_readers /\ links' = links /\ taken' = taken
        /\ panicked' = panicked /\ blamed' = blamed
    BY <1>8 DEF vars
  <2> QED
    BY <2>1 DEF SegmentsInv, Shape, Delivered
<1> QED
  BY <1>1, <1>2, <1>3, <1>4, <1>5, <1>6, <1>7, <1>8 DEF Next

\* The invariant holds in every reachable state.
LEMMA SegmentsInvariant == Spec => []SegmentsInv
<1>1. Init => SegmentsInv
  BY StepInit
<1> QED
  BY <1>1, SegmentsStep, PTL DEF Spec

\* What a handler has delivered, taken or not.
LEMMA DeliveredEntries ==
    ASSUME SegmentsInv, NEW n \in Nodes
    PROVE  /\ DeliveredOK(sent, Delivered(n), n)
           /\ \A k \in DOMAIN taken[n] : taken[n][k] \in Nodes \X DOMAIN sent
           /\ \A k \in DOMAIN msg_received[n] : msg_received[n][k] \in Nodes \X DOMAIN sent
<1>1. PICK X : X = Nodes \X Nat
  OBVIOUS
<1>2. PICK t \in Seq(X), m \in Seq(X) : t = taken[n] /\ m = msg_received[n]
  BY <1>1 DEF SegmentsInv, Shape
<1>3. PICK d : d = t \o m
  OBVIOUS
<1>4. d = Delivered(n) /\ DeliveredOK(sent, d, n)
  BY <1>2, <1>3 DEF Delivered, SegmentsInv, NodeOK
<1>5. Joined(d, t, m, X)
  BY <1>3, Concatenated
<1>6. \A k \in 1 .. Len(d) : d[k] \in Nodes \X DOMAIN sent
  <2> SUFFICES ASSUME NEW k \in 1 .. Len(d) PROVE d[k] \in Nodes \X DOMAIN sent
    OBVIOUS
  <2>1. d[k] \in Nodes \X Nat /\ d[k][2] \in DOMAIN sent
    BY <1>4 DEF DeliveredOK
  <2> QED
    BY <2>1
<1>7. \A k \in 1 .. Len(t) : k \in 1 .. Len(d) /\ d[k] = t[k]
  BY <1>5 DEF Joined
<1>8. \A k \in 1 .. Len(m) : Len(t) + k \in 1 .. Len(d) /\ d[Len(t) + k] = m[k]
  BY <1>5 DEF Joined
<1>9. DOMAIN t = 1 .. Len(t) /\ DOMAIN m = 1 .. Len(m)
  OBVIOUS
<1>10. \A k \in DOMAIN t : t[k] \in Nodes \X DOMAIN sent
  BY <1>6, <1>7, <1>9
<1>11. \A k \in DOMAIN m : m[k] \in Nodes \X DOMAIN sent
  BY <1>6, <1>8, <1>9
<1> QED
  BY <1>2, <1>4, <1>10, <1>11

\* The count and the data of a reader are in their bounds.
LEMMA ReaderCounts ==
    ASSUME sent \in Sent, Len(sent) <= MaxSends, NEW r, ReaderOK(sent, r)
    PROVE  /\ r.remaining_segments \in 0 .. (MAX_SEGMENTS - 1)
           /\ \A k \in DOMAIN r.cur_data : r.cur_data[k] \in Pieces
<1>1. r \in Readers
  BY DEF ReaderOK
<1>2. r.cur_data \in Seq(Pieces)
  BY <1>1 DEF Readers
<1>3. CASE r = NewReader
  <2>1. 0 \in 0 .. (MAX_SEGMENTS - 1)
    BY Limits
  <2> QED
    BY <1>2, <1>3, <2>1, ReaderFields
<1>4. CASE r # NewReader
  <2>1. PICK i : i = r.cur_data[1].msg
    OBVIOUS
  <2>2. PICK l : l = Len(PartsIn(sent, i))
    OBVIOUS
  <2>3. /\ i \in DOMAIN sent /\ Len(r.cur_data) \in 1 .. (l - 1) /\ l <= MAX_SEGMENTS
        /\ r.remaining_segments = l - Len(r.cur_data)
    BY <1>4, <2>1, <2>2 DEF ReaderOK, Collects
  <2>4. l \in Nat
    BY <2>2, <2>3, PartsOfSent
  <2>5. r.remaining_segments \in 0 .. (MAX_SEGMENTS - 1)
    BY <2>3, <2>4, Limits
  <2> QED
    BY <1>2, <2>5
<1> QED
  BY <1>3, <1>4

\* The state of the message handlers is what TypeOK says, for every number of nodes and messages
\* and every limit of the segmentation: a reader never waits for MAX_SEGMENTS segments or more, and
\* nothing travels between peers that are not connected (message_handler.rs, segment_reader.rs).
THEOREM TypeCorrect == Spec => []TypeOK
<1>1. SegmentsInv => TypeOK
  <2> SUFFICES ASSUME SegmentsInv PROVE TypeOK
    OBVIOUS
  <2>1. Shape /\ sent \in Sent /\ Len(sent) <= MaxSends
    BY DEF SegmentsInv, Shape
  <2>2. DOMAIN sent = 1 .. Len(sent)
    BY <2>1 DEF Sent
  <2>3. \A i \in DOMAIN sent : << sent[i].from, sent[i].to >> \in Routes
    BY <2>1, <2>2 DEF Shape
  <2>4. \A n \in Nodes : \A k \in DOMAIN msg_events[n] : msg_events[n][k] \in Nodes \X Pieces
    <3>1. PICK Y : Y = Nodes \X Pieces
      OBVIOUS
    <3>2. msg_events \in [Nodes -> Seq(Y)]
      BY <2>1, <3>1 DEF Shape
    <3>3. \A q \in Seq(Y) : \A k \in DOMAIN q : q[k] \in Y
      OBVIOUS
    <3> QED
      BY <3>1, <3>2, <3>3
  <2>5. \A n, p \in Nodes : \A k \in DOMAIN wire[n][p] : wire[n][p][k] \in Pieces
    <3>1. wire \in [Nodes -> [Nodes -> Seq(Pieces)]]
      BY <2>1 DEF Shape
    <3>2. \A q \in Seq(Pieces) : \A k \in DOMAIN q : q[k] \in Pieces
      OBVIOUS
    <3> QED
      BY <3>1, <3>2
  <2>6. \A n, p \in Nodes : /\ segment_readers[n][p].remaining_segments \in 0 .. (MAX_SEGMENTS - 1)
                            /\ \A k \in DOMAIN segment_readers[n][p].cur_data :
                                  segment_readers[n][p].cur_data[k] \in Pieces
    <3>1. \A n, p \in Nodes : ReaderOK(sent, segment_readers[n][p])
      BY DEF SegmentsInv, PairOK
    <3> QED
      BY <2>1, <3>1, ReaderCounts
  <2>7. \A n \in Nodes : /\ \A k \in DOMAIN taken[n] : taken[n][k] \in Nodes \X DOMAIN sent
                         /\ \A k \in DOMAIN msg_received[n] : msg_received[n][k] \in Nodes \X DOMAIN sent
    BY DeliveredEntries
  <2>8. blamed \subseteq DOMAIN sent
    BY DEF SegmentsInv, Blame
  <2>9. /\ \A n, p \in Nodes : wire[n][p] # <<>> => {n, p} \in links
        /\ links \subseteq Pairs /\ panicked \subseteq Nodes
    BY <2>1 DEF Shape
  <2>10. links \subseteq {{l[1], l[2]} : l \in {l \in Nodes \X Nodes : l[1] # l[2]}}
    BY <2>9, Zenon DEF Pairs
  <2> QED
    BY <2>3, <2>4, <2>5, <2>6, <2>7, <2>8, <2>9, <2>10, Zenon DEF TypeOK
<1> QED
  BY <1>1, SegmentsInvariant, PTL

\* A handler delivers as a message of a peer only what that peer sent to this node, in the order in
\* which it was given to send_message and never twice: whatever the sizes of the messages, however
\* the queue is shared, wherever a connection ends and whatever it leaves in a reader
\* (handle_custom_message, process_segment_start, process_segment_chunk, get_segments).
THEOREM WhatWasSentIsReceived == Spec => []ReceivedAsSent
<1>1. SegmentsInv => ReceivedAsSent
  <2> SUFFICES ASSUME SegmentsInv, NEW n \in Nodes
               PROVE  /\ \A e \in {Delivered(n)[k] : k \in DOMAIN Delivered(n)} :
                            sent[e[2]].from = e[1] /\ sent[e[2]].to = n
                      /\ \A j, k \in DOMAIN Delivered(n) :
                            j < k /\ Delivered(n)[j][1] = Delivered(n)[k][1]
                                => Delivered(n)[j][2] < Delivered(n)[k][2]
    BY DEF ReceivedAsSent
  <2>1. PICK d : d = Delivered(n)
    OBVIOUS
  <2>2. DeliveredOK(sent, d, n)
    BY <2>1, DeliveredEntries
  <2>3. DOMAIN d = 1 .. Len(d)
    BY <2>2 DEF DeliveredOK
  <2>4. \A e \in {d[k] : k \in DOMAIN d} : sent[e[2]].from = e[1] /\ sent[e[2]].to = n
    BY <2>2, <2>3 DEF DeliveredOK
  <2>5. \A j, k \in DOMAIN d : j < k /\ d[j][1] = d[k][1] => d[j][2] < d[k][2]
    BY <2>2, <2>3 DEF DeliveredOK
  <2> QED
    BY <2>1, <2>4, <2>5
<1> QED
  BY <1>1, SegmentsInvariant, PTL

\* A handler fails, and a program panics, only over a message that cannot be delivered: never over
\* what an ended connection left in a reader, nor over the number or the sizes of the segments that
\* get_segments makes (process_segment_start, process_segment_chunk, handle_custom_message).
THEOREM FailuresAreDeserved == Spec => []OnlyUndeliverableFails
<1>1. SegmentsInv => OnlyUndeliverableFails
  BY DEF SegmentsInv, Blame, OnlyUndeliverableFails
<1> QED
  BY <1>1, SegmentsInvariant, PTL

=============================================================================
