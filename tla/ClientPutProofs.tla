--------------------------- MODULE ClientPutProofs ---------------------------
(***************************************************************************)
(* How a client that puts a file cuts it into commands, and why its        *)
(* counters agree with the commands that are pending: for files of any     *)
(* length, any hash, any window and any limit of the length of a command.  *)
(***************************************************************************)
EXTENDS ClientPut, FiniteSetTheorems, TLAPS

(* A set of natural numbers that is not empty has a least element.         *)
LEMMA Least ==
  ASSUME NEW S \in SUBSET Nat, S # {}
  PROVE  \E m \in S : \A k \in S : m <= k
<1> DEFINE R == OpToRel(<, Nat)
<1>1. IsWellFoundedOn(R, Nat)
  BY NatLessThanWellFounded
<1>2. ASSUME NEW a \in Nat, NEW b \in Nat, a < b
      PROVE  <<a, b>> \in R
  BY <1>2 DEF OpToRel
<1> HIDE DEF R
<1>3. PICK m \in S : \A k \in S : <<k, m>> \notin R
  BY <1>1, WFMin
<1>4. ASSUME NEW k \in S
      PROVE  ~(k < m)
  BY <1>2, <1>3
<1> QED
  BY <1>4

(* A set of numbers from p on that has no gaps is an interval.             *)
LEMMA NoGaps ==
  ASSUME NEW p \in Nat, NEW n \in Nat, NEW S \in SUBSET (p .. n),
         \A x \in S : \A y \in p .. x : y \in S
  PROVE  /\ IsFiniteSet(S) /\ Cardinality(S) \in Nat
         /\ S = p .. p + Cardinality(S) - 1
<1> DEFINE Beyond == {m \in Nat : p <= m /\ m \notin S}
<1>1. p + n + 1 \in Beyond
  OBVIOUS
<1>2. PICK m \in Beyond : \A k \in Beyond : m <= k
  BY <1>1, Least
<1>3. S = p .. m - 1
  <2>1. ASSUME NEW x \in p .. m - 1
        PROVE  x \in S
    BY <1>2
  <2>2. ASSUME NEW x \in S
        PROVE  x \in p .. m - 1
    <3>1. x \in Int /\ p <= x
      OBVIOUS
    <3>2. m \notin p .. x
      BY <1>2
    <3> QED
      BY <1>2, <3>1, <3>2
  <2> QED
    BY <2>1, <2>2
<1>4. IsFiniteSet(S) /\ Cardinality(S) = m - p
  <2>1. p \in Int /\ m - 1 \in Int
    BY <1>2
  <2>2. IsFiniteSet(p .. m - 1) /\ Cardinality(p .. m - 1) = IF p > m - 1 THEN 0 ELSE m - 1 - p + 1
    BY <2>1, FS_Interval
  <2> QED
    BY <1>2, <1>3, <2>2
<1> QED
  BY <1>2, <1>3, <1>4

(* Sets of segments are finite.                                            *)
LEMMA SegmentsFinite ==
  ASSUME NEW S \in SUBSET Segments
  PROVE  IsFiniteSet(S) /\ Cardinality(S) \in Nat
<1>1. IsFiniteSet(Segments)
  BY HashAssumption, FS_Interval DEF Segments
<1> QED
  BY <1>1, FS_Subset, FS_CardinalityType

-----------------------------------------------------------------------------
(* The segments of a range have names that hash alike.                     *)
OneBucket(r) == \A s \in SegmentsOf(r) : IdFromName(s) = BucketOf(r)

(* sendINSERT() finds a run that starts where it should, within a bucket   *)
(* and within the limit.                                                   *)
LEMMA PackProperties ==
  ASSUME NEW p \in Segments
  PROVE  /\ Pack(p) \in SegmentRange
         /\ Pack(p).startSeg = p
         /\ p <= Pack(p).endSeg
         /\ Size(Pack(p)) <= MaxPack
         /\ OneBucket(Pack(p))
<1> USE HashAssumption, WindowAssumption DEF Segments
<1> DEFINE Fits(e) == /\ e - p + 1 <= MaxPack
                      /\ \A s \in p .. e : IdFromName(s) = IdFromName(p)
           Ends == {e \in p .. StoreSize - 1 : Fits(e)}
           Last == {e \in p .. StoreSize - 1 : e + 1 \notin Ends}
           Good(r) == /\ r.startSeg = p
                      /\ Size(r) <= MaxPack
                      /\ \A s \in SegmentsOf(r) : IdFromName(s) = IdFromName(p)
                      /\ r.endSeg + 1 \in Segments =>
                           Size(r) = MaxPack \/ IdFromName(r.endSeg + 1) # IdFromName(p)
<1>1. p \in Ends
  <2>1. \A s \in p .. p : IdFromName(s) = IdFromName(p)
    <3>1. \A s \in p .. p : s = p
      OBVIOUS
    <3> QED
      BY <3>1
  <2> QED
    BY <2>1
<1>2. PICK e \in Last : \A k \in Last : e <= k
  <2>1. StoreSize - 1 \in Last
    OBVIOUS
  <2>2. Last \in SUBSET Nat /\ Last # {}
    <3> HIDE DEF Ends
    <3>1. \A k \in Last : k \in Nat
      OBVIOUS
    <3> HIDE DEF Last
    <3> QED
      BY <2>1, <3>1
  <2> HIDE DEF Last
  <2> QED
    BY <2>2, Least
<1>3. e \in Ends
  <2>1. CASE e = p
    BY <1>1, <2>1
  <2>2. CASE e # p
    <3>1. e \in Int /\ e - 1 \in p .. StoreSize - 1 /\ e - 1 + 1 = e
      BY <1>2, <2>2
    <3>2. e - 1 \notin Last
      <4> HIDE DEF Last
      <4>1. ~(e <= e - 1)
        BY <3>1
      <4> QED
        BY <1>2, <4>1
    <3> HIDE DEF Ends
    <3> QED
      BY <3>1, <3>2
  <2> QED
    BY <2>1, <2>2
<1> DEFINE r == [startSeg |-> p, endSeg |-> e]
<1>4. r \in SegmentRange
  BY <1>2 DEF SegmentRange
<1>5. Good(r)
  <2>1. Size(r) = e - p + 1 /\ SegmentsOf(r) = p .. e
    BY DEF Size, SegmentsOf
  <2>2. ASSUME e + 1 \in Segments
        PROVE  Size(r) = MaxPack \/ IdFromName(e + 1) # IdFromName(p)
    <3>1. ~Fits(e + 1)
      <4>1. e + 1 \notin Ends /\ e + 1 \in p .. StoreSize - 1
        BY <1>2, <2>2
      <4> QED
        BY <4>1
    <3>2. CASE ~(e + 1 - p + 1 <= MaxPack)
      BY <1>2, <1>3, <2>1, <3>2
    <3>3. CASE ~(\A s \in p .. e + 1 : IdFromName(s) = IdFromName(p))
      <4>1. PICK s \in p .. e + 1 : IdFromName(s) # IdFromName(p)
        BY <3>3
      <4>2. s \notin p .. e
        BY <1>3, <4>1
      <4>3. s = e + 1
        BY <1>2, <4>2
      <4> QED
        BY <4>1, <4>3
    <3> QED
      BY <3>1, <3>2, <3>3
  <2> QED
    BY <1>3, <2>1, <2>2
<1>6. Pack(p) = CHOOSE q \in SegmentRange : Good(q)
  BY DEF Pack
<1> HIDE DEF Good, r
<1>7. Pack(p) \in SegmentRange /\ Good(Pack(p))
  BY <1>4, <1>5, <1>6
<1>8. p <= Pack(p).endSeg
  BY <1>7 DEF Good, SegmentRange
<1> QED
  BY <1>7, <1>8 DEF Good, OneBucket, BucketOf

-----------------------------------------------------------------------------
(* A set that the loop of insertStore() does not leave, and that it starts *)
(* in, contains all segments at which it starts a run.                     *)
Closed(S) == \A s \in S : Pack(s).endSeg + 1 \in Segments => Pack(s).endSeg + 1 \in S

(* These segments are the smallest such set.                               *)
LEMMA StartsSmallest ==
  ASSUME NEW p, NEW S \in SUBSET Segments, Closed(S), p \in Segments => p \in S
  PROVE  PackStarts(p) \subseteq S
BY DEF PackStarts, Closed

(* The set of these segments is such a set.                                *)
LEMMA StartsClosed ==
  ASSUME NEW p
  PROVE  /\ PackStarts(p) \subseteq Segments
         /\ p \in Segments => p \in PackStarts(p)
         /\ Closed(PackStarts(p))
BY DEF PackStarts, Closed

(* Each start but the first is where the run before it ends.               *)
LEMMA StartBefore ==
  ASSUME NEW p, NEW q \in PackStarts(p), q # p
  PROVE  \E t \in PackStarts(p) : Pack(t).endSeg + 1 = q
<1> SUFFICES ASSUME \A t \in PackStarts(p) : Pack(t).endSeg + 1 # q
             PROVE  FALSE
  OBVIOUS
<1>1. Closed(PackStarts(p) \ {q}) /\ (p \in Segments => p \in PackStarts(p) \ {q})
  BY StartsClosed DEF Closed
<1>2. PackStarts(p) \subseteq PackStarts(p) \ {q}
  BY <1>1, StartsClosed, StartsSmallest
<1> QED
  BY <1>2

(* A run of segments, in numbers.                                          *)
LEMMA RunOf ==
  ASSUME NEW p, NEW q \in PackStarts(p)
  PROVE  /\ q \in Nat /\ q \in Segments /\ Pack(q) \in SegmentRange
         /\ Pack(q).endSeg \in Nat /\ q <= Pack(q).endSeg /\ Pack(q).endSeg < StoreSize
         /\ Pack(q).endSeg - q + 1 <= MaxPack
         /\ SegmentsOf(Pack(q)) = q .. Pack(q).endSeg
         /\ OneBucket(Pack(q))
<1>1. q \in Segments
  BY StartsClosed
<1>2. Pack(q) \in SegmentRange /\ Pack(q).startSeg = q /\ q <= Pack(q).endSeg
      /\ Size(Pack(q)) <= MaxPack /\ OneBucket(Pack(q))
  BY <1>1, PackProperties
<1>3. Pack(q).endSeg \in Segments
  BY <1>2 DEF SegmentRange
<1> QED
  BY <1>1, <1>2, <1>3, HashAssumption DEF Size, SegmentsOf, Segments

(* All segments before a start, from the first one on, are in runs that    *)
(* begin before it.                                                        *)
LEMMA StartsCover ==
  ASSUME NEW p \in Nat, NEW q \in PackStarts(p)
  PROVE  /\ p <= q
         /\ \A x \in p .. q - 1 : \E t \in PackStarts(p) : t < q /\ x \in SegmentsOf(Pack(t))
<1> DEFINE Covered(s) ==
             /\ p <= s
             /\ \A x \in p .. s - 1 : \E t \in PackStarts(p) : t < s /\ x \in SegmentsOf(Pack(t))
           Bad == {s \in PackStarts(p) : ~Covered(s)}
<1>1. SUFFICES ASSUME Bad # {} PROVE FALSE
  OBVIOUS
<1>2. PICK b \in Bad : \A k \in Bad : b <= k
  <2>1. Bad \subseteq Nat
    BY RunOf
  <2> HIDE DEF Bad
  <2> QED
    BY <1>1, <2>1, Least
<1>3. b \in Nat /\ b \in PackStarts(p) /\ ~Covered(b)
  BY RunOf
<1>4. b # p
  <2>1. Covered(p)
    OBVIOUS
  <2> QED
    BY <1>3, <2>1
<1>5. PICK t \in PackStarts(p) : Pack(t).endSeg + 1 = b
  BY <1>3, <1>4, StartBefore
<1>6. t \in Nat /\ t < b /\ SegmentsOf(Pack(t)) = t .. b - 1
  BY <1>3, <1>5, RunOf
<1>7. Covered(t)
  <2>1. t \notin Bad
    <3> HIDE DEF Bad
    <3> QED
      BY <1>2, <1>3, <1>6
  <2> QED
    BY <2>1
<1>8. Covered(b)
  <2>1. p <= b
    BY <1>3, <1>6, <1>7
  <2>2. ASSUME NEW x \in p .. b - 1
        PROVE  \E u \in PackStarts(p) : u < b /\ x \in SegmentsOf(Pack(u))
    <3>1. CASE x \in p .. t - 1
      <4>1. PICK u \in PackStarts(p) : u < t /\ x \in SegmentsOf(Pack(u))
        BY <1>7, <3>1
      <4>2. u < b
        BY <1>3, <1>6, <4>1, RunOf
      <4> QED
        BY <4>1, <4>2
    <3>2. CASE x \in t .. b - 1
      BY <1>6, <3>2
    <3> QED
      BY <1>3, <1>6, <3>1, <3>2
  <2> QED
    BY <2>1, <2>2
<1> QED
  BY <1>3, <1>8

(* A run ends before the next one starts.                                  *)
LEMMA RunsApart ==
  ASSUME NEW p \in Nat, NEW q \in PackStarts(p), NEW t \in PackStarts(p), t < q
  PROVE  Pack(t).endSeg < q
<1> DEFINE Apart(s) == \A u \in PackStarts(p) : u < s => Pack(u).endSeg < s
           Bad == {s \in PackStarts(p) : ~Apart(s)}
<1>1. SUFFICES ASSUME Bad # {} PROVE FALSE
  OBVIOUS
<1>2. PICK b \in Bad : \A k \in Bad : b <= k
  <2>1. Bad \subseteq Nat
    BY RunOf
  <2> HIDE DEF Bad
  <2> QED
    BY <1>1, <2>1, Least
<1>3. b \in Nat /\ b \in PackStarts(p) /\ ~Apart(b)
  BY RunOf
<1>4. PICK u \in PackStarts(p) : u < b /\ ~(Pack(u).endSeg < b)
  BY <1>3
<1>5. u \in Nat /\ Pack(u).endSeg \in Nat
  BY RunOf
<1>6. b # p
  BY <1>3, <1>4, <1>5, StartsCover
<1>7. PICK v \in PackStarts(p) : Pack(v).endSeg + 1 = b
  BY <1>3, <1>6, StartBefore
<1>8. v \in Nat /\ v < b /\ Pack(v).endSeg \in Nat
  BY <1>3, <1>7, RunOf
<1>9. Apart(u) /\ Apart(v)
  <2>1. u \notin Bad /\ v \notin Bad
    <3> HIDE DEF Bad
    <3> QED
      BY <1>2, <1>3, <1>4, <1>5, <1>8
  <2> QED
    BY <2>1
<1>10. u # v
  BY <1>3, <1>4, <1>7, <1>8
<1>11. CASE u < v
  BY <1>3, <1>4, <1>5, <1>8, <1>9, <1>11
<1>12. CASE v < u
  BY <1>3, <1>4, <1>5, <1>7, <1>8, <1>9, <1>12
<1> QED
  BY <1>5, <1>8, <1>10, <1>11, <1>12

-----------------------------------------------------------------------------
(* The segments of a set of ranges, and of a set of commands.              *)
RangeSegments(R) == UNION {SegmentsOf(r) : r \in R}
CommandSegments(C) == UNION {SegmentsOf(c.range) : c \in C}

(* One call of insertStore() makes commands of the next segments without a *)
(* gap, each segment in one command, and passes the window by less than a  *)
(* command.                                                                *)
LEMMA PacksProperties ==
  ASSUME NEW p \in 0 .. StoreSize, NEW pend \in Nat
  PROVE  LET packs == Packs(p, pend)
             size  == Cardinality(RangeSegments(packs))
         IN /\ \A r \in packs : r \in SegmentRange /\ OneBucket(r)
            /\ IsFiniteSet(RangeSegments(packs)) /\ size \in Nat
            /\ RangeSegments(packs) = p .. p + size - 1
            /\ p + size <= StoreSize
            /\ \A r1, r2 \in packs : r1 # r2 => SegmentsOf(r1) \cap SegmentsOf(r2) = {}
            /\ size = 0 \/ pend + size < WindowSize + MaxPack
<1> DEFINE starts == {s \in PackStarts(p) : pend + (s - p) < WindowSize}
           packs == Packs(p, pend)
           U == RangeSegments(packs)
           size == Cardinality(U)
<1> USE HashAssumption, WindowAssumption
<1>1. p \in Nat
  OBVIOUS
<1>2. packs = {Pack(q) : q \in starts}
  BY DEF Packs
<1>3. ASSUME NEW x
      PROVE  x \in U <=> \E q \in starts : x \in q .. Pack(q).endSeg
  <2>1. x \in U <=> \E q \in starts : x \in SegmentsOf(Pack(q))
    BY <1>2 DEF RangeSegments
  <2> QED
    BY <2>1, RunOf
<1>4. ASSUME NEW r \in packs
      PROVE  r \in SegmentRange /\ OneBucket(r)
  BY <1>2, RunOf
<1>5. U \subseteq p .. StoreSize - 1
  <2>1. ASSUME NEW x \in U
        PROVE  x \in p .. StoreSize - 1
    <3>1. PICK q \in starts : x \in q .. Pack(q).endSeg
      BY <1>3
    <3>2. q \in Nat /\ Pack(q).endSeg \in Nat /\ Pack(q).endSeg < StoreSize /\ p <= q
      BY <1>1, RunOf, StartsCover
    <3> QED
      BY <3>1, <3>2
  <2> QED
    BY <2>1
<1>6. ASSUME NEW x \in U, NEW y \in p .. x
      PROVE  y \in U
  <2>1. PICK q \in starts : x \in q .. Pack(q).endSeg
    BY <1>3
  <2>2. q \in Nat /\ Pack(q).endSeg \in Nat /\ x \in Nat /\ y \in Nat
    BY <1>5, <2>1, RunOf
  <2>3. CASE y \in q .. x
    BY <1>3, <2>1, <2>2, <2>3
  <2>4. CASE y \in p .. q - 1
    <3>1. PICK t \in PackStarts(p) : t < q /\ y \in SegmentsOf(Pack(t))
      BY <1>1, <2>4, StartsCover
    <3>2. t \in starts
      BY <2>1, <2>2, <3>1, RunOf
    <3> QED
      BY <1>2, <3>1, <3>2 DEF RangeSegments
  <2> QED
    BY <2>2, <2>3, <2>4
<1> HIDE DEF packs, U
<1>7. /\ IsFiniteSet(U) /\ size \in Nat
      /\ U = p .. p + size - 1
  <2>1. StoreSize - 1 \in Nat
    OBVIOUS
  <2> QED
    BY <1>1, <1>5, <1>6, <2>1, NoGaps
<1> HIDE DEF size
<1>8. p + size <= StoreSize
  <2>1. CASE size = 0
    BY <2>1
  <2>2. CASE size # 0
    <3>1. p + size - 1 \in U
      BY <1>7, <2>2
    <3> QED
      BY <1>5, <1>7, <3>1
  <2> QED
    BY <2>1, <2>2
<1>9. ASSUME NEW r1 \in packs, NEW r2 \in packs, r1 # r2
      PROVE  SegmentsOf(r1) \cap SegmentsOf(r2) = {}
  <2>1. PICK q \in starts, t \in starts : r1 = Pack(q) /\ r2 = Pack(t)
    BY <1>2
  <2>2. /\ q \in Nat /\ t \in Nat /\ q # t
        /\ Pack(q).endSeg \in Nat /\ Pack(t).endSeg \in Nat
        /\ SegmentsOf(r1) = q .. Pack(q).endSeg /\ SegmentsOf(r2) = t .. Pack(t).endSeg
    BY <1>9, <2>1, RunOf
  <2>3. (q < t => Pack(q).endSeg < t) /\ (t < q => Pack(t).endSeg < q)
    BY <1>1, RunsApart
  <2> QED
    BY <2>2, <2>3
<1>10. size = 0 \/ pend + size < WindowSize + MaxPack
  <2>1. SUFFICES ASSUME size # 0 PROVE pend + size < WindowSize + MaxPack
    OBVIOUS
  <2>2. p + size - 1 \in U
    BY <1>7, <2>1
  <2>3. PICK q \in starts : p + size - 1 \in q .. Pack(q).endSeg
    BY <1>3, <2>2
  <2>4. /\ q \in Nat /\ Pack(q).endSeg \in Nat
        /\ Pack(q).endSeg - q + 1 <= MaxPack
        /\ pend + (q - p) < WindowSize
    BY RunOf
  <2> HIDE DEF starts
  <2> QED
    BY <1>7, <2>3, <2>4
<1> QED
  BY <1>4, <1>7, <1>8, <1>9, <1>10 DEF packs, U, size

-----------------------------------------------------------------------------
(* The books of the client, for given values of its counters (ptr, pend,   *)
(* dn), of what it awaits (aw), and of the commands and replies that are   *)
(* under way (cmds, reps): the two counts are those of segments in pending *)
(* commands, and of segments that were reported and are awaited no more.   *)
Books(ptr, pend, dn, aw, cmds, reps) ==
  /\ ptr \in 0 .. StoreSize /\ pend \in Nat /\ dn \in Nat
  /\ aw \subseteq cmds
  /\ cmds \subseteq [range : SegmentRange, attempt : Nat]
  /\ \A c \in cmds : OneBucket(c.range) /\ c.range.endSeg < ptr
  /\ \A r \in reps : \E c \in cmds : c.range = r
  /\ pend = Cardinality(CommandSegments(aw))
  /\ \A c, d \in aw : c # d => SegmentsOf(c.range) \cap SegmentsOf(d.range) = {}
  /\ pend < WindowSize + MaxPack
  /\ dn + pend <= ptr
  /\ dn <= Cardinality(RangeSegments(reps) \ CommandSegments(aw))

ClientInv == Books(pointer, pending, done, awaiting, commands, replies)

(* The segments of a range are as many as its size says.                   *)
LEMMA RangeSize ==
  ASSUME NEW r \in SegmentRange
  PROVE  /\ SegmentsOf(r) \subseteq Segments
         /\ r.startSeg \in Segments /\ r.endSeg \in Segments /\ r.startSeg <= r.endSeg
         /\ Size(r) \in Nat \ {0}
         /\ Cardinality(SegmentsOf(r)) = Size(r)
         /\ r.startSeg \in SegmentsOf(r)
<1>1. r.startSeg \in Segments /\ r.endSeg \in Segments /\ r.startSeg <= r.endSeg
  BY DEF SegmentRange
<1>2. r.startSeg \in Int /\ r.endSeg \in Int
  BY <1>1, HashAssumption DEF Segments
<1>3. Cardinality(r.startSeg .. r.endSeg) =
        IF r.startSeg > r.endSeg THEN 0 ELSE r.endSeg - r.startSeg + 1
  BY <1>2, FS_Interval
<1> QED
  BY <1>1, <1>2, <1>3, HashAssumption DEF SegmentsOf, Size, Segments

(* All segments of commands are segments that commands were made for.      *)
LEMMA SegmentsBelow ==
  ASSUME NEW ptr \in 0 .. StoreSize, NEW C,
         \A c \in C : c.range \in SegmentRange /\ c.range.endSeg < ptr
  PROVE  /\ CommandSegments(C) \subseteq 0 .. ptr - 1
         /\ CommandSegments(C) \subseteq Segments
         /\ IsFiniteSet(CommandSegments(C)) /\ Cardinality(CommandSegments(C)) \in Nat
<1>1. ASSUME NEW s \in CommandSegments(C)
      PROVE  s \in 0 .. ptr - 1 /\ s \in Segments
  <2>1. PICK c \in C : s \in SegmentsOf(c.range)
    BY DEF CommandSegments
  <2>2. /\ s \in Segments /\ s <= c.range.endSeg
        /\ c.range.endSeg \in Segments /\ c.range.endSeg < ptr
    BY <2>1, RangeSize, HashAssumption DEF SegmentsOf, Segments
  <2> QED
    BY <2>2, HashAssumption DEF Segments
<1> QED
  BY <1>1, SegmentsFinite

(* insertStore() keeps the books.                                          *)
LEMMA InsertStoreBooks ==
  ASSUME NEW pend, NEW dn, NEW still,
         Books(pointer, pend, dn, still, commands, replies),
         InsertStore(pend, still)
  PROVE  Books(pointer', pending', dn, awaiting', commands', replies)
<1> DEFINE packs == Packs(pointer, pend)
           U     == RangeSegments(packs)
           size  == Cardinality(U)
           new   == [range : packs, attempt : {1}]
           old   == CommandSegments(still)
<1>1. /\ pointer' = pointer + size
      /\ pending' = pend + size
      /\ awaiting' = still \cup new
      /\ commands' = commands \cup new
  BY DEF InsertStore, RangeSegments
<1>2. /\ pointer \in 0 .. StoreSize /\ pend \in Nat /\ dn \in Nat
      /\ still \subseteq commands
      /\ commands \subseteq [range : SegmentRange, attempt : Nat]
      /\ \A c \in commands : OneBucket(c.range) /\ c.range.endSeg < pointer
      /\ \A r \in replies : \E c \in commands : c.range = r
      /\ pend = Cardinality(old)
      /\ \A c, d \in still : c # d => SegmentsOf(c.range) \cap SegmentsOf(d.range) = {}
      /\ pend < WindowSize + MaxPack
      /\ dn + pend <= pointer
      /\ dn <= Cardinality(RangeSegments(replies) \ old)
  BY DEF Books
<1>3. /\ \A r \in packs : r \in SegmentRange /\ OneBucket(r)
      /\ IsFiniteSet(U) /\ size \in Nat
      /\ U = pointer .. pointer + size - 1
      /\ pointer + size <= StoreSize
      /\ \A r1, r2 \in packs : r1 # r2 => SegmentsOf(r1) \cap SegmentsOf(r2) = {}
      /\ size = 0 \/ pend + size < WindowSize + MaxPack
  BY <1>2, PacksProperties
<1> HIDE DEF packs, U, size
<1>4. /\ old \subseteq 0 .. pointer - 1
      /\ IsFiniteSet(old)
  BY <1>2, SegmentsBelow
<1>5. CommandSegments(awaiting') = old \cup U
  <2>1. CommandSegments(new) = U
    <3>1. ASSUME NEW s \in U
          PROVE  s \in CommandSegments(new)
      <4>1. PICK r \in packs : s \in SegmentsOf(r)
        BY DEF U, RangeSegments
      <4> DEFINE c == [range |-> r, attempt |-> 1]
      <4>2. c \in new /\ c.range = r
        OBVIOUS
      <4> HIDE DEF c, new
      <4> QED
        BY <4>1, <4>2 DEF CommandSegments
    <3>2. ASSUME NEW s \in CommandSegments(new)
          PROVE  s \in U
      <4>1. PICK c \in new : s \in SegmentsOf(c.range)
        BY DEF CommandSegments
      <4>2. c.range \in packs
        OBVIOUS
      <4> QED
        BY <4>1, <4>2 DEF U, RangeSegments
    <3> QED
      BY <3>1, <3>2
  <2> HIDE DEF new
  <2> QED
    BY <1>1, <2>1 DEF CommandSegments
<1>6. Cardinality(old \cup U) = pend + size
  <2>1. old \cap U = {}
    BY <1>2, <1>3, <1>4
  <2>2. Cardinality(old \cap U) = 0
    BY <2>1, FS_EmptySet
  <2>3. Cardinality(old \cup U) = Cardinality(old) + Cardinality(U) - Cardinality(old \cap U)
    BY <1>3, <1>4, FS_Union
  <2> QED
    BY <1>2, <1>3, <2>2, <2>3 DEF size
<1>7. ASSUME NEW c \in new
      PROVE  /\ c \in [range : SegmentRange, attempt : Nat]
             /\ OneBucket(c.range)
             /\ SegmentsOf(c.range) \subseteq U
             /\ c.range.endSeg < pointer + size
  <2>1. c.range \in packs
    OBVIOUS
  <2>2. SegmentsOf(c.range) \subseteq U
    BY <2>1 DEF U, RangeSegments
  <2>3. c.range.endSeg \in SegmentsOf(c.range)
    BY <1>3, <2>1, RangeSize, HashAssumption DEF SegmentsOf, Segments
  <2>4. c.range.endSeg < pointer + size
    BY <1>2, <1>3, <2>2, <2>3
  <2> QED
    BY <1>3, <2>1, <2>2, <2>4
<1>8. ASSUME NEW c \in awaiting', NEW d \in awaiting', c # d
      PROVE  SegmentsOf(c.range) \cap SegmentsOf(d.range) = {}
  <2>1. CASE c \in still /\ d \in still
    BY <1>2, <1>8, <2>1
  <2>2. CASE c \in new /\ d \in new
    <3>1. c.range # d.range /\ c.range \in packs /\ d.range \in packs
      BY <1>8, <2>2
    <3> QED
      BY <1>3, <3>1
  <2>3. ASSUME NEW e \in still, NEW f \in new
        PROVE  SegmentsOf(e.range) \cap SegmentsOf(f.range) = {}
    <3>1. SegmentsOf(e.range) \subseteq old /\ SegmentsOf(f.range) \subseteq U
      BY <1>7 DEF CommandSegments
    <3> QED
      BY <1>2, <1>3, <1>4, <3>1
  <2> HIDE DEF new
  <2>4. (c \in still \/ c \in new) /\ (d \in still \/ d \in new)
    BY <1>1
  <2>5. CASE c \in still /\ d \in new
    BY <2>3, <2>5
  <2>6. CASE c \in new /\ d \in still
    <3>1. SegmentsOf(d.range) \cap SegmentsOf(c.range) = {}
      BY <2>3, <2>6
    <3> QED
      BY <3>1
  <2> QED
    BY <2>1, <2>2, <2>4, <2>5, <2>6
<1>9. RangeSegments(replies) \ CommandSegments(awaiting') = RangeSegments(replies) \ old
  <2>1. ASSUME NEW s \in RangeSegments(replies)
        PROVE  s \in 0 .. pointer - 1
    <3>1. PICK r \in replies : s \in SegmentsOf(r)
      BY DEF RangeSegments
    <3>2. PICK c \in commands : c.range = r
      BY <1>2
    <3>3. s \in CommandSegments(commands)
      BY <3>1, <3>2 DEF CommandSegments
    <3> QED
      BY <1>2, <3>3, SegmentsBelow
  <2> QED
    BY <1>2, <1>3, <1>5, <2>1
<1> HIDE DEF new
<1>10. /\ commands' \subseteq [range : SegmentRange, attempt : Nat]
       /\ awaiting' \subseteq commands'
       /\ \A c \in commands' : OneBucket(c.range) /\ c.range.endSeg < pointer'
  <2>1. ASSUME NEW c \in commands
        PROVE  c.range.endSeg < pointer'
    <3>1. c.range.endSeg \in Int /\ c.range.endSeg < pointer
      BY <1>2, RangeSize, HashAssumption DEF Segments
    <3> QED
      BY <1>1, <1>2, <1>3, <3>1
  <2> QED
    BY <1>1, <1>2, <1>7, <2>1
<1>11. /\ pointer' \in 0 .. StoreSize /\ pending' \in Nat
       /\ pending' < WindowSize + MaxPack
       /\ dn + pending' <= pointer'
  BY <1>1, <1>2, <1>3, HashAssumption, WindowAssumption
<1>12. \A r \in replies : \E c \in commands' : c.range = r
  BY <1>1, <1>2
<1> QED
  BY <1>1, <1>2, <1>5, <1>6, <1>8, <1>9, <1>10, <1>11, <1>12 DEF Books

-----------------------------------------------------------------------------
(* The books, once a command is awaited no more: its segments are not      *)
(* pending, and count as done if it was answered.                          *)
LEMMA RemovedBooks ==
  ASSUME NEW ptr, NEW pend, NEW dn, NEW aw, NEW cmds, NEW reps,
         Books(ptr, pend, dn, aw, cmds, reps),
         NEW c \in aw
  PROVE  /\ Books(ptr, pend - Size(c.range), dn, aw \ {c}, cmds, reps)
         /\ c.range \in reps =>
              Books(ptr, pend - Size(c.range), dn + Size(c.range), aw \ {c}, cmds, reps)
<1> DEFINE S == SegmentsOf(c.range)
           old == CommandSegments(aw)
           new == CommandSegments(aw \ {c})
           rep == RangeSegments(reps)
<1>1. /\ ptr \in 0 .. StoreSize /\ pend \in Nat /\ dn \in Nat
      /\ aw \subseteq cmds
      /\ cmds \subseteq [range : SegmentRange, attempt : Nat]
      /\ \A e \in cmds : OneBucket(e.range) /\ e.range.endSeg < ptr
      /\ \A r \in reps : \E e \in cmds : e.range = r
      /\ pend = Cardinality(old)
      /\ \A e, d \in aw : e # d => SegmentsOf(e.range) \cap SegmentsOf(d.range) = {}
      /\ pend < WindowSize + MaxPack
      /\ dn + pend <= ptr
      /\ dn <= Cardinality(rep \ old)
  BY DEF Books
<1>2. c.range \in SegmentRange
  BY <1>1
<1>3. /\ S \subseteq Segments /\ IsFiniteSet(S)
      /\ Size(c.range) \in Nat /\ Cardinality(S) = Size(c.range)
  BY <1>2, RangeSize, SegmentsFinite
<1>4. old = new \cup S /\ new \cap S = {}
  <2>1. ASSUME NEW s \in old
        PROVE  s \in new \cup S
    <3>1. PICK e \in aw : s \in SegmentsOf(e.range)
      BY DEF CommandSegments
    <3> QED
      BY <3>1 DEF CommandSegments
  <2>2. ASSUME NEW s \in new
        PROVE  s \in old /\ s \notin S
    <3>1. PICK e \in aw \ {c} : s \in SegmentsOf(e.range)
      BY DEF CommandSegments
    <3> QED
      BY <1>1, <3>1 DEF CommandSegments
  <2>3. S \subseteq old
    BY DEF CommandSegments
  <2> QED
    BY <2>1, <2>2, <2>3
<1> HIDE DEF S, old, new, rep
<1>5. IsFiniteSet(new) /\ Cardinality(new) = pend - Size(c.range) /\ Cardinality(new) \in Nat
  <2>1. IsFiniteSet(old)
    BY <1>1, SegmentsBelow DEF old
  <2>2. IsFiniteSet(new)
    BY <1>4, <2>1, FS_Subset
  <2>3. Cardinality(new \cap S) = 0
    BY <1>4, FS_EmptySet
  <2>4. Cardinality(old) = Cardinality(new) + Cardinality(S) - Cardinality(new \cap S)
    BY <1>3, <1>4, <2>2, FS_Union
  <2>5. Cardinality(new) \in Nat
    BY <2>2, FS_CardinalityType
  <2> QED
    BY <1>1, <1>3, <2>2, <2>3, <2>4, <2>5
<1>6. rep \subseteq Segments /\ IsFiniteSet(rep)
  <2>1. ASSUME NEW s \in rep
        PROVE  s \in Segments
    <3>1. PICK r \in reps : s \in SegmentsOf(r)
      BY DEF rep, RangeSegments
    <3>2. r \in SegmentRange
      BY <1>1
    <3> QED
      BY <3>1, <3>2, RangeSize
  <2> QED
    BY <2>1, SegmentsFinite
<1>7. dn <= Cardinality(rep \ new)
  <2>1. rep \ old \subseteq rep \ new
    BY <1>4
  <2>2. Cardinality(rep \ old) <= Cardinality(rep \ new)
    BY <1>6, <2>1, FS_Subset
  <2>3. Cardinality(rep \ old) \in Nat /\ Cardinality(rep \ new) \in Nat
    BY <1>6, FS_Subset, FS_CardinalityType
  <2> QED
    BY <1>1, <2>2, <2>3
<1>8. ASSUME c.range \in reps
      PROVE  dn + Size(c.range) <= Cardinality(rep \ new)
  <2>1. S \subseteq rep
    BY <1>8 DEF S, rep, RangeSegments
  <2>2. rep \ new = (rep \ old) \cup S /\ (rep \ old) \cap S = {}
    BY <1>4, <2>1
  <2>3. IsFiniteSet(rep \ old) /\ Cardinality(rep \ old) \in Nat
    BY <1>6, FS_Subset, FS_CardinalityType
  <2>4. Cardinality((rep \ old) \cap S) = 0
    BY <2>2, FS_EmptySet
  <2>5. Cardinality(rep \ new) = Cardinality(rep \ old) + Cardinality(S) - Cardinality((rep \ old) \cap S)
    BY <1>3, <2>2, <2>3, FS_Union
  <2> QED
    BY <1>1, <1>3, <2>3, <2>4, <2>5
<1>9. ASSUME NEW n \in Nat, n <= dn + Size(c.range), n <= Cardinality(rep \ new)
      PROVE  Books(ptr, pend - Size(c.range), n, aw \ {c}, cmds, reps)
  <2>1. /\ pend - Size(c.range) \in Nat
        /\ pend - Size(c.range) < WindowSize + MaxPack
        /\ n + (pend - Size(c.range)) <= ptr
    BY <1>1, <1>3, <1>5, <1>9, HashAssumption, WindowAssumption
  <2>2. /\ pend - Size(c.range) = Cardinality(CommandSegments(aw \ {c}))
        /\ n <= Cardinality(RangeSegments(reps) \ CommandSegments(aw \ {c}))
    BY <1>5, <1>9 DEF new, rep
  <2> QED
    BY <1>1, <2>1, <2>2 DEF Books
<1>10. Books(ptr, pend - Size(c.range), dn, aw \ {c}, cmds, reps)
  <2>1. dn \in Nat /\ dn <= dn + Size(c.range)
    BY <1>1, <1>3
  <2> QED
    BY <1>7, <1>9, <2>1
<1>11. ASSUME c.range \in reps
       PROVE  Books(ptr, pend - Size(c.range), dn + Size(c.range), aw \ {c}, cmds, reps)
  <2>1. dn + Size(c.range) \in Nat
    BY <1>1, <1>3
  <2> QED
    BY <1>3, <1>8, <1>9, <1>11, <2>1
<1> QED
  BY <1>10, <1>11

(* The books of a client that is done: it awaits nothing that is pending.  *)
LEMMA FinishedBooks ==
  ASSUME NEW ptr, NEW pend, NEW aw, NEW cmds, NEW reps,
         Books(ptr, pend, StoreSize, aw, cmds, reps)
  PROVE  Books(ptr, pend, StoreSize, {}, cmds, reps)
<1>1. pend = 0
  BY HashAssumption DEF Books
<1>2. CommandSegments(aw) = {}
  <2>1. IsFiniteSet(CommandSegments(aw))
    BY SegmentsBelow DEF Books
  <2>2. Cardinality(CommandSegments(aw)) = 0
    BY <1>1 DEF Books
  <2> QED
    BY <2>1, <2>2, FS_EmptySet
<1>3. CommandSegments({}) = {}
  BY DEF CommandSegments
<1> QED
  BY <1>2, <1>3 DEF Books

(* A reply to a command does not disturb the books.                        *)
LEMMA RepliedBooks ==
  ASSUME NEW ptr, NEW pend, NEW dn, NEW aw, NEW cmds, NEW reps,
         Books(ptr, pend, dn, aw, cmds, reps),
         NEW c \in cmds
  PROVE  Books(ptr, pend, dn, aw, cmds, reps \cup {c.range})
<1> DEFINE before == RangeSegments(reps) \ CommandSegments(aw)
           after  == RangeSegments(reps \cup {c.range}) \ CommandSegments(aw)
<1>1. \A r \in reps \cup {c.range} : \E d \in cmds : d.range = r
  BY DEF Books
<1>2. after \subseteq Segments
  <2>1. ASSUME NEW s \in after
        PROVE  s \in Segments
    <3>1. PICK r \in reps \cup {c.range} : s \in SegmentsOf(r)
      BY DEF RangeSegments
    <3>2. r \in SegmentRange
      BY <1>1 DEF Books
    <3> QED
      BY <3>1, <3>2, RangeSize
  <2> QED
    BY <2>1
<1>3. before \subseteq after
  BY DEF RangeSegments
<1> HIDE DEF before, after
<1>4. IsFiniteSet(after)
  BY <1>2, SegmentsFinite
<1>5. /\ Cardinality(before) <= Cardinality(after)
      /\ Cardinality(before) \in Nat /\ Cardinality(after) \in Nat
  BY <1>3, <1>4, FS_Subset, FS_CardinalityType
<1>6. dn <= Cardinality(after)
  <2>1. dn \in Nat /\ dn <= Cardinality(before)
    BY DEF Books, before
  <2> QED
    BY <1>5, <2>1
<1> QED
  BY <1>1, <1>6 DEF Books, after

-----------------------------------------------------------------------------
(* The books are in order when put() has not begun.                        *)
LEMMA ClientInitBooks ==
  ASSUME ClientInit, CommandsInit
  PROVE  ClientInv
<1>1. CommandSegments({}) = {} /\ RangeSegments({}) = {}
  BY DEF CommandSegments, RangeSegments
<1>2. /\ 0 = Cardinality(CommandSegments({}))
      /\ 0 = Cardinality(RangeSegments({}) \ CommandSegments({}))
  <2>1. RangeSegments({}) \ CommandSegments({}) = {}
    BY <1>1
  <2> QED
    BY <1>1, <2>1, FS_EmptySet
<1>3. 0 \in 0 .. StoreSize /\ 0 < WindowSize + MaxPack /\ 0 + 0 <= 0 /\ 0 <= 0
  BY HashAssumption, WindowAssumption
<1>4. Books(0, 0, 0, {}, {}, {})
  BY <1>2, <1>3 DEF Books
<1> QED
  BY <1>4 DEF ClientInv, ClientInit, CommandsInit

(* A command that is expressed again is a new Interest for the same range. *)
LEMMA RetriedBooks ==
  ASSUME ClientInv, NEW c \in awaiting, InsertTimeout(c)
  PROVE  ClientInv'
<1> DEFINE again == [c EXCEPT !.attempt = @ + 1]
           left  == awaiting \ {c}
<1>1. /\ awaiting' = left \cup {again}
      /\ commands' = commands \cup {again}
      /\ pending' = pending /\ pointer' = pointer /\ done' = done /\ replies' = replies
  BY DEF InsertTimeout, PendingAfterRetry
<1>2. /\ c \in commands /\ c \in [range : SegmentRange, attempt : Nat]
      /\ awaiting \subseteq commands
      /\ commands \subseteq [range : SegmentRange, attempt : Nat]
      /\ \A e \in commands : OneBucket(e.range) /\ e.range.endSeg < pointer
      /\ \A r \in replies : \E e \in commands : e.range = r
      /\ \A e, d \in awaiting : e # d => SegmentsOf(e.range) \cap SegmentsOf(d.range) = {}
  BY DEF ClientInv, Books
<1>3. again \in [range : SegmentRange, attempt : Nat] /\ again.range = c.range
  BY <1>2
<1> HIDE DEF again, left
<1>4. CommandSegments(awaiting') = CommandSegments(awaiting)
  <2>1. ASSUME NEW s
        PROVE  (\E e \in left \cup {again} : s \in SegmentsOf(e.range))
               <=> (\E e \in awaiting : s \in SegmentsOf(e.range))
    BY <1>3 DEF left
  <2> QED
    BY <1>1, <2>1 DEF CommandSegments
<1>5. ASSUME NEW e \in awaiting', NEW d \in awaiting', e # d
      PROVE  SegmentsOf(e.range) \cap SegmentsOf(d.range) = {}
  <2>1. CASE e = again /\ d \in left
    BY <1>2, <1>3, <2>1 DEF left
  <2>2. CASE d = again /\ e \in left
    BY <1>2, <1>3, <2>2 DEF left
  <2>3. CASE e \in left /\ d \in left
    BY <1>2, <1>5, <2>3 DEF left
  <2> QED
    BY <1>1, <1>5, <2>1, <2>2, <2>3
<1>6. /\ awaiting' \subseteq commands'
      /\ commands' \subseteq [range : SegmentRange, attempt : Nat]
      /\ \A e \in commands' : OneBucket(e.range) /\ e.range.endSeg < pointer'
      /\ \A r \in replies' : \E e \in commands' : e.range = r
  BY <1>1, <1>2, <1>3 DEF left
<1> QED
  BY <1>1, <1>4, <1>5, <1>6 DEF ClientInv, Books

(* Every step of the client keeps its books in order.                      *)
LEMMA ClientBooks ==
  ASSUME ClientInv, ClientNext
  PROVE  ClientInv'
<1>1. CASE Registered
  <2>1. Books(pointer, pending, done, awaiting, commands, replies)
    BY DEF ClientInv
  <2>2. InsertStore(pending, awaiting) /\ done' = done /\ replies' = replies
    BY <1>1 DEF Registered
  <2>3. Books(pointer', pending', done, awaiting', commands', replies)
    BY <2>1, <2>2, InsertStoreBooks
  <2> QED
    BY <2>2, <2>3 DEF ClientInv
<1>2. ASSUME NEW c \in awaiting, InsertSuccess(c)
      PROVE  ClientInv'
  <2> DEFINE pend == pending - Size(c.range)
             dn   == done + Size(c.range)
             left == awaiting \ {c}
  <2>1. Books(pointer, pend, dn, left, commands, replies)
    BY <1>2, RemovedBooks DEF ClientInv, InsertSuccess
  <2>2. done' = dn /\ replies' = replies
    BY <1>2 DEF InsertSuccess
  <2>3. CASE done' = StoreSize
    <3>1. pending' = pend /\ awaiting' = {} /\ pointer' = pointer /\ commands' = commands
      BY <1>2, <2>3 DEF InsertSuccess, NoLongerPending
    <3>2. Books(pointer, pend, StoreSize, {}, commands, replies)
      <4> HIDE DEF pend, dn, left
      <4> QED
        BY <2>1, <2>2, <2>3, FinishedBooks
    <3> QED
      BY <2>2, <2>3, <3>1, <3>2 DEF ClientInv
  <2>4. CASE done' # StoreSize
    <3>1. InsertStore(pend, left)
      BY <1>2, <2>4 DEF InsertSuccess, NoLongerPending
    <3>2. Books(pointer', pending', dn, awaiting', commands', replies)
      <4> HIDE DEF pend, dn, left
      <4> QED
        BY <2>1, <3>1, InsertStoreBooks
    <3> QED
      BY <2>2, <3>2 DEF ClientInv
  <2> QED
    BY <2>3, <2>4
<1>3. ASSUME NEW c \in awaiting, InsertNack(c)
      PROVE  ClientInv'
  <2>1. Books(pointer, pending - Size(c.range), done, awaiting \ {c}, commands, replies)
    BY RemovedBooks DEF ClientInv
  <2> QED
    BY <1>3, <2>1 DEF ClientInv, InsertNack, NoLongerPending, commandVars
<1>4. ASSUME NEW c \in awaiting, InsertTimeout(c)
      PROVE  ClientInv'
  BY <1>4, RetriedBooks
<1> QED
  BY <1>1, <1>2, <1>3, <1>4 DEF ClientNext

(* What the workers do leaves the books of the client in order.            *)
LEMMA ClientUnchanged ==
  ASSUME ClientInv, UNCHANGED <<clientVars, commandVars>>
  PROVE  ClientInv'
BY DEF ClientInv, clientVars, commandVars

(* Nor does a reply that a worker sends to one of its commands.            *)
LEMMA ClientReplied ==
  ASSUME ClientInv, NEW c \in commands, replies' = replies \cup {c.range},
         UNCHANGED <<clientVars, commands>>
  PROVE  ClientInv'
<1>1. Books(pointer, pending, done, awaiting, commands, replies \cup {c.range})
  BY RepliedBooks DEF ClientInv
<1> QED
  BY <1>1 DEF ClientInv, clientVars

=============================================================================
