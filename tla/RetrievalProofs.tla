--------------------------- MODULE RetrievalProofs ---------------------------
(***************************************************************************)
(* The safety of a client that gets a file, for files of any length, any   *)
(* window, any hash and any number of workers, with answers lost, late,    *)
(* repeated or refused.                                                    *)
(***************************************************************************)
EXTENDS Retrieval, FiniteSetTheorems, SequenceTheorems, TLAPS

(* The packets of the files that are put.                                  *)
Sent == {p \in Packet : p.version \in puts /\ p.segment < FileSize[p.version]}

(* Workers hold and send nothing but those.                                *)
NetInv ==
  /\ puts \subseteq Versions
  /\ asked \subseteq Segments
  /\ answers \subseteq Sent
  /\ store \in [Nodes -> [Buckets -> SUBSET Sent]]

CountInv ==
  /\ awaiting \subseteq Segments
  /\ pointer \in Nat /\ pending \in Nat /\ done \in Nat
  /\ PendingIsAwaited

(* The segments that the client has.                                       *)
Filled == {s \in Segments : s + 1 \in DOMAIN slots /\ slots[s + 1] # NoData}

(* What m_store holds agrees with the count of answers.                    *)
StoreInv ==
  /\ \/ slots = << >>
     \/ \A v \in puts : slots \in [1 .. FileSize[v] -> Packet \cup {NoData}]
  /\ done = Cardinality(Filled)
  /\ \A s \in Filled : /\ s \notin awaiting /\ s < pointer
                       /\ slots[s + 1] \in Sent /\ slots[s + 1].segment = s
  /\ \A v \in puts : pointer <= FileSize[v]

WrittenInv ==
  /\ crashed = FALSE
  /\ \/ written = << >>
     \/ /\ puts # {}
        /\ WholeFile(written)
        /\ \A v \in puts : done = FileSize[v]

FileInv == OneSize => StoreInv /\ WrittenInv

(* The inductive invariant: that the file is whole when done has reached   *)
(* its size depends on what was counted and where it was put, and this on  *)
(* each segment being awaited at most once and not any more when it is in. *)
IInv == NetInv /\ CountInv /\ FileInv

-----------------------------------------------------------------------------
(* Sets of segments are finite.                                            *)
LEMMA SegmentsFinite ==
  ASSUME NEW S \in SUBSET Segments
  PROVE  IsFiniteSet(S) /\ Cardinality(S) \in Nat
<1>1. IsFiniteSet(Segments)
  BY HashAssumption, FS_Interval DEF Segments
<1> QED
  BY <1>1, FS_Subset, FS_CardinalityType

(* A segment hashes to a bucket.                                           *)
LEMMA SegmentHash ==
  ASSUME NEW s \in Segments
  PROVE  IdFromName(s) \in Buckets
<1>1. s \div SegmentsPerHash \in 0 .. (StoreSize - 1) \div SegmentsPerHash
  BY HashAssumption DEF Segments
<1> QED
  BY <1>1, HashAssumption DEF IdFromName

(* The length of a file is a positive number, not beyond StoreSize.        *)
LEMMA SentSize ==
  ASSUME NEW p \in Sent
  PROVE  /\ p \in Packet /\ p.version \in puts /\ p.version \in Versions
         /\ FileSize[p.version] \in 1 .. StoreSize
         /\ p.segment \in 0 .. FileSize[p.version] - 1
         /\ p.segment \in Segments
<1>1. p \in Packet /\ p.version \in puts /\ p.segment < FileSize[p.version]
  BY DEF Sent
<1>2. p.version \in Versions /\ p.segment \in Segments
  BY <1>1 DEF Packet
<1>3. FileSize[p.version] \in 1 .. StoreSize
  BY <1>2, VersionsAssumption
<1> QED
  BY <1>1, <1>2, <1>3, HashAssumption DEF Segments

(* What the loop of sendFETCH() sends is an interval, as long as the rest  *)
(* of the file or the room in the window.                                  *)
LEMMA NextSegmentsInterval ==
  ASSUME pointer \in Nat, NEW size \in Nat, NEW pend \in Nat, pend < WindowSize
  PROVE  \E k \in Nat :
           /\ NextSegments(size, pend) = pointer .. pointer + k - 1
           /\ IsFiniteSet(NextSegments(size, pend))
           /\ Cardinality(NextSegments(size, pend)) = k
           /\ pend + k <= WindowSize
           /\ pointer <= size => pointer + k <= size
           /\ k > 0 => pointer + k <= size
<1> DEFINE room == WindowSize - pend
           rest == size - pointer
           k == IF rest <= 0 THEN 0 ELSE IF rest <= room THEN rest ELSE room
<1> USE ClientAssumption
<1>1. k \in Nat
  OBVIOUS
<1>2. NextSegments(size, pend) = pointer .. pointer + k - 1
  BY DEF NextSegments
<1>3. /\ IsFiniteSet(pointer .. pointer + k - 1)
      /\ Cardinality(pointer .. pointer + k - 1) = k
  <2>1. pointer \in Int /\ pointer + k - 1 \in Int
    BY <1>1
  <2>2. /\ IsFiniteSet(pointer .. pointer + k - 1)
        /\ Cardinality(pointer .. pointer + k - 1) =
             IF pointer > pointer + k - 1 THEN 0 ELSE pointer + k - 1 - pointer + 1
    BY <2>1, FS_Interval
  <2> QED
    BY <1>1, <2>2
<1>4. /\ pend + k <= WindowSize
      /\ pointer <= size => pointer + k <= size
      /\ k > 0 => pointer + k <= size
  OBVIOUS
<1> QED
  BY <1>1, <1>2, <1>3, <1>4

-----------------------------------------------------------------------------
(* Nothing is pending or answered before the first Interest.               *)
LEMMA InitInvariant == Init => IInv
<1> SUFFICES ASSUME Init PROVE IInv
  OBVIOUS
<1> USE DEF Init, InterestsInit, ClientInit, StoreInit
<1>1. NetInv
  BY HashAssumption, PutsAssumption DEF NetInv, Segments
<1>2. CountInv
  <2>1. Cardinality({0}) = 1
    BY FS_Singleton
  <2> QED
    BY <2>1, HashAssumption, ClientAssumption DEF CountInv, PendingIsAwaited, Segments
<1>3. FileInv
  <2>1. Filled = {}
    BY DEF Filled
  <2>2. \A v \in puts : pointer <= FileSize[v]
    BY PutsAssumption, VersionsAssumption
  <2>3. StoreInv
    BY <2>1, <2>2, FS_EmptySet DEF StoreInv
  <2> QED
    BY <2>3 DEF FileInv, WrittenInv
<1> QED
  BY <1>1, <1>2, <1>3 DEF IInv

(* A step that leaves the client alone, but may give it answers.           *)
LEMMA ClientUnchanged ==
  ASSUME IInv, UNCHANGED <<clientVars, puts>>
  PROVE  CountInv' /\ FileInv'
<1> USE DEF clientVars
<1>1. CountInv'
  BY DEF IInv, CountInv, PendingIsAwaited
<1>2. OneSize' = OneSize
  BY DEF OneSize
<1>3. StoreInv' = StoreInv
  BY DEF StoreInv, Filled, Sent
<1>4. WrittenInv' = WrittenInv
  BY DEF WrittenInv, WholeFile
<1> QED
  BY <1>1, <1>2, <1>3, <1>4 DEF IInv, FileInv

(* The workers: packets get into the stores, and from there to the client. *)
LEMMA WorkerInvariant ==
  ASSUME IInv, WorkerNext, UNCHANGED clientVars
  PROVE  IInv'
<1>1. ASSUME NEW n \in Nodes, NEW p \in Packet, Inserted(n, p)
      PROVE  IInv'
  <2>1. UNCHANGED <<puts, asked, answers>>
    BY <1>1 DEF Inserted, interestVars
  <2>2. Sent' = Sent
    BY <2>1 DEF Sent
  <2>3. p \in Sent
    <3>1. p.version \in Versions /\ p.version \in puts /\ p \in PacketsOf(p.version)
      BY <1>1 DEF Inserted, Packet
    <3>2. FileSize[p.version] \in Nat /\ p.segment \in 0 .. FileSize[p.version] - 1
      BY <3>1, VersionsAssumption DEF PacketsOf
    <3> QED
      BY <3>1, <3>2 DEF Sent
  <2>4. store' = [store EXCEPT ![n][IdFromName(p.segment)] =
                    StorePut(store[n][IdFromName(p.segment)], p)]
    BY <1>1 DEF Inserted
  <2>5. NetInv'
    BY <2>1, <2>2, <2>3, <2>4 DEF IInv, NetInv, StorePut
  <2> QED
    BY <2>1, <2>5, ClientUnchanged DEF IInv
<1>2. ASSUME NEW n \in Nodes, NEW s \in Segments, Fetch(n, s)
      PROVE  IInv'
  <2>1. UNCHANGED <<puts, store>>
    BY <1>2 DEF Fetch, storeVars
  <2>2. Sent' = Sent
    BY <2>1 DEF Sent
  <2>3. HintedBucket(s) \in Buckets
    BY HashAssumption, SegmentHash DEF HintedBucket
  <2>4. StoreGet(store[n][HintedBucket(s)], s) \subseteq Sent
    BY <2>3 DEF StoreGet, IInv, NetInv
  <2>5. NetInv'
    BY <1>2, <2>1, <2>2, <2>4 DEF Fetch, IInv, NetInv
  <2> QED
    BY <2>1, <2>5, ClientUnchanged DEF IInv
<1> QED
  BY <1>1, <1>2 DEF WorkerNext

(* One pending Interest less.                                              *)
LEMMA OneLessAwaited ==
  ASSUME CountInv, NEW s \in awaiting
  PROVE  /\ s \in Segments /\ s < pointer
         /\ IsFiniteSet(awaiting \ {s})
         /\ Cardinality(awaiting \ {s}) = pending - 1
         /\ pending - 1 \in Nat
<1>1. IsFiniteSet(awaiting) /\ Cardinality(awaiting) = pending
  BY SegmentsFinite DEF CountInv, PendingIsAwaited
<1>2. IsFiniteSet(awaiting \ {s}) /\ Cardinality(awaiting \ {s}) = pending - 1
  BY <1>1, FS_RemoveElement
<1>3. Cardinality(awaiting \ {s}) \in Nat
  BY <1>2, FS_CardinalityType
<1> QED
  BY <1>2, <1>3 DEF CountInv, PendingIsAwaited

(* An Interest that gets a Nack, or a Data without a final block.          *)
LEMMA GivenUpInvariant ==
  ASSUME IInv, NEW s \in awaiting,
         UNCHANGED <<slots, pointer, written, crashed, interestVars, storeVars>>,
         pending' = pending - 1,
         awaiting' = awaiting \ {s},
         done' = done \/ (done' = done + 1 /\ ~OneSize)
  PROVE  IInv'
<1> USE DEF interestVars, storeVars
<1>1. NetInv'
  BY DEF IInv, NetInv, Sent
<1>2. CountInv'
  <2>1. CountInv
    BY DEF IInv
  <2>2. Cardinality(awaiting \ {s}) = pending - 1 /\ pending - 1 \in Nat
    BY <2>1, OneLessAwaited
  <2>3. done' \in Nat /\ done' <= done + 1
    BY <2>1 DEF CountInv
  <2>4. done' + pending' <= pointer
    BY <2>1, <2>3 DEF CountInv, PendingIsAwaited
  <2> QED
    BY <2>1, <2>2, <2>3, <2>4, ClientAssumption DEF CountInv, PendingIsAwaited
<1>3. FileInv'
  <2>1. OneSize' = OneSize
    BY DEF OneSize
  <2>2. CASE OneSize
    <3>1. done' = done
      BY <2>2
    <3>2. Filled' = Filled /\ Sent' = Sent
      BY DEF Filled, Sent
    <3>3. StoreInv'
      BY <2>2, <3>1, <3>2 DEF IInv, FileInv, StoreInv
    <3>4. WrittenInv'
      BY <2>2, <3>1 DEF IInv, FileInv, WrittenInv, WholeFile
    <3> QED
      BY <3>3, <3>4 DEF FileInv
  <2> QED
    BY <2>1, <2>2 DEF FileInv
<1> QED
  BY <1>1, <1>2, <1>3 DEF IInv

(* A timeout: the Interest is expressed again.                             *)
LEMMA TimeoutInvariant ==
  ASSUME IInv, NEW s \in awaiting, FetchTimeout(s), UNCHANGED storeVars
  PROVE  IInv'
<1> USE DEF storeVars, FetchTimeout
<1>1. s \in Segments
  BY DEF IInv, CountInv
<1>2. NetInv'
  BY <1>1 DEF IInv, NetInv, Sent, Retried
<1>3. pending' = pending
  BY DEF IInv, CountInv, PendingAfterRetry
<1>4. UNCHANGED <<clientVars, puts>>
  BY <1>3 DEF clientVars
<1> QED
  BY <1>2, <1>4, ClientUnchanged DEF IInv

(* A Data arrives: the window is filled up again.                          *)
LEMMA SuccessCounts ==
  ASSUME IInv, NEW p \in Sent, FetchSuccess(p)
  PROVE  /\ CountInv'
         /\ asked' \subseteq Segments
         /\ pointer <= FileSize[p.version] => pointer' <= FileSize[p.version]
         /\ \A s \in awaiting' : s \notin awaiting => s >= pointer
         /\ p.segment \notin awaiting'
         /\ p.segment < pointer
         /\ pointer <= pointer'
<1> DEFINE size == FileSize[p.version]
           more == NextSegments(size, pending - 1)
           rest == awaiting \ {p.segment}
<1>1. /\ p.segment \in awaiting
      /\ done' = done + 1
      /\ pointer' = pointer + Cardinality(more)
      /\ pending' = pending - 1 + Cardinality(more)
      /\ awaiting' = rest \cup more
      /\ asked' = asked \cup more
  BY DEF FetchSuccess
<1>2. CountInv /\ NetInv
  BY DEF IInv
<1>3. /\ p.segment < pointer
      /\ IsFiniteSet(rest)
      /\ Cardinality(rest) = pending - 1
      /\ pending - 1 \in Nat
  BY <1>1, <1>2, OneLessAwaited
<1>4. size \in 1 .. StoreSize
  BY SentSize
<1>5. PICK k \in Nat :
        /\ more = pointer .. pointer + k - 1
        /\ IsFiniteSet(more)
        /\ Cardinality(more) = k
        /\ pending - 1 + k <= WindowSize
        /\ pointer <= size => pointer + k <= size
        /\ k > 0 => pointer + k <= size
  <2>1. pointer \in Nat /\ pending \in Nat /\ pending <= WindowSize
    BY <1>2 DEF CountInv, PendingIsAwaited
  <2>2. pending - 1 < WindowSize /\ size \in Nat
    BY <1>3, <1>4, <2>1, ClientAssumption, HashAssumption
  <2> HIDE DEF size
  <2> QED
    BY <1>3, <2>1, <2>2, NextSegmentsInterval
<1> HIDE DEF size, more
<1>6. /\ pointer \in Nat /\ pending \in Nat /\ done \in Nat
      /\ \A s \in rest : s \in Segments /\ s < pointer
      /\ done + pending <= pointer
  BY <1>2, HashAssumption DEF CountInv, PendingIsAwaited
<1>7. more \subseteq Segments
  BY <1>4, <1>5, <1>6, HashAssumption DEF Segments
<1>8. rest \cap more = {}
  BY <1>5, <1>6, HashAssumption DEF Segments
<1>9. Cardinality(awaiting') = pending'
  <2>1. Cardinality(rest \cap more) = 0
    BY <1>8, FS_EmptySet
  <2>2. Cardinality(rest \cup more) =
          Cardinality(rest) + Cardinality(more) - Cardinality(rest \cap more)
    BY <1>3, <1>5, FS_Union
  <2> QED
    BY <1>1, <1>3, <1>5, <2>1, <2>2
<1>10. CountInv'
  <2>1. pending' \in Nat /\ pending' <= WindowSize
    BY <1>1, <1>3, <1>5
  <2>2. \A s \in awaiting' : s \in Segments /\ s < pointer'
    <3>1. \A s \in rest : s \in Segments /\ s < pointer + k
      BY <1>5, <1>6, HashAssumption DEF Segments
    <3>2. \A s \in more : s \in Segments /\ s < pointer + k
      BY <1>5, <1>6, <1>7
    <3> QED
      BY <1>1, <1>5, <3>1, <3>2
  <2>3. done' + pending' <= pointer' /\ pointer' \in Nat /\ done' \in Nat
    BY <1>1, <1>3, <1>5, <1>6
  <2> QED
    BY <1>9, <2>1, <2>2, <2>3 DEF CountInv, PendingIsAwaited
<1>11. asked' \subseteq Segments
  BY <1>1, <1>2, <1>7 DEF NetInv
<1>12. /\ pointer <= size => pointer' <= size
       /\ pointer <= pointer'
  BY <1>1, <1>5, <1>6
<1>13. \A s \in more : s >= pointer
  BY <1>5, <1>6
<1>14. p.segment \notin awaiting'
  <2>1. p.segment \notin more
    <3>1. p.segment \in Int
      BY SentSize, HashAssumption DEF Segments
    <3> QED
      BY <1>3, <1>6, <1>13, <3>1
  <2> QED
    BY <1>1, <2>1
<1> QED
  BY <1>1, <1>3, <1>10, <1>11, <1>12, <1>13, <1>14 DEF size

(* The packet takes its place in m_store, which was empty before.          *)
LEMMA SuccessStore ==
  ASSUME IInv, OneSize, NEW p \in Sent, FetchSuccess(p), UNCHANGED puts
  PROVE  /\ slots' \in [1 .. FileSize[p.version] -> Packet \cup {NoData}]
         /\ Filled' = Filled \cup {p.segment}
         /\ StoreInv'
<1> DEFINE size == FileSize[p.version]
           Cell == Packet \cup {NoData}
<1>1. /\ p \in Packet /\ p.version \in puts
      /\ size \in Nat /\ size \in 1 .. StoreSize
      /\ p.segment \in 0 .. size - 1 /\ p.segment \in Segments
      /\ p # NoData
  BY SentSize, ClientAssumption, HashAssumption
<1>2. StoreInv
  BY DEF IInv, FileInv
<1>3. \A v \in puts : FileSize[v] = size
  BY <1>1 DEF OneSize
<1> HIDE DEF size
<1>4. slots' = [Resized(size) EXCEPT ![p.segment + 1] = p]
  BY DEF FetchSuccess, Stored, size
<1>5. Resized(size) = IF slots = << >> THEN [i \in 1 .. size |-> NoData] ELSE slots
  <2>1. CASE slots = << >>
    BY <2>1 DEF Resized
  <2>2. CASE slots # << >>
    <3>1. slots \in [1 .. size -> Cell]
      BY <1>1, <1>2, <1>3, <2>2 DEF StoreInv
    <3>2. Len(slots) = size
      BY <1>1, <3>1, LenProperties DEF size
    <3>3. \A i \in 1 .. size : i <= Len(slots)
      BY <1>1, <3>2
    <3> QED
      BY <2>2, <3>1, <3>3 DEF Resized
  <2> QED
    BY <2>1, <2>2
<1>6. Resized(size) \in [1 .. size -> Cell]
  BY <1>1, <1>2, <1>3, <1>5 DEF StoreInv
<1>7. /\ slots' \in [1 .. size -> Cell]
      /\ slots'[p.segment + 1] = p
      /\ \A i \in 1 .. size : i # p.segment + 1 => slots'[i] = Resized(size)[i]
  BY <1>1, <1>4, <1>6
<1>8. p.segment \notin Filled
  BY <1>2 DEF StoreInv, FetchSuccess
<1>9. ASSUME NEW s \in Filled
      PROVE  s \in 0 .. size - 1 /\ slots'[s + 1] = slots[s + 1]
  <2>1. s \in Segments /\ s + 1 \in DOMAIN slots /\ s # p.segment
    BY <1>8, <1>9 DEF Filled
  <2>2. slots # << >>
    BY <2>1
  <2>3. s + 1 \in 1 .. size
    BY <1>5, <1>6, <2>1, <2>2
  <2> QED
    BY <1>1, <1>5, <1>7, <2>1, <2>2, <2>3, HashAssumption DEF Segments
<1>10. Filled' = Filled \cup {p.segment}
  <2>1. ASSUME NEW s \in Filled', s # p.segment
        PROVE  s \in Filled
    <3>1. s \in Segments /\ s + 1 \in 1 .. size /\ slots'[s + 1] # NoData
      BY <1>7, <2>1 DEF Filled
    <3>2. slots'[s + 1] = Resized(size)[s + 1]
      BY <1>1, <1>7, <2>1, <3>1, HashAssumption DEF Segments
    <3>3. slots # << >> /\ Resized(size) = slots
      BY <1>5, <3>1, <3>2
    <3> QED
      BY <1>6, <3>1, <3>2, <3>3 DEF Filled
  <2>2. ASSUME NEW s \in Filled
        PROVE  s \in Filled'
    <3>1. s \in Segments /\ slots[s + 1] # NoData
      BY <2>2 DEF Filled
    <3> QED
      BY <1>1, <1>7, <1>9, <3>1, HashAssumption DEF Filled, Segments
  <2>3. p.segment \in Filled'
    BY <1>1, <1>7, HashAssumption DEF Filled, Segments
  <2> QED
    BY <2>1, <2>2, <2>3
<1>11. done' = Cardinality(Filled')
  <2>1. IsFiniteSet(Filled) /\ done = Cardinality(Filled)
    BY <1>2, SegmentsFinite DEF StoreInv, Filled
  <2> QED
    BY <1>8, <1>10, <2>1, FS_AddElement DEF FetchSuccess
<1>12. ASSUME NEW s \in Filled'
       PROVE  /\ s \notin awaiting' /\ s < pointer'
              /\ slots'[s + 1] \in Sent' /\ slots'[s + 1].segment = s
  <2>1. Sent' = Sent
    BY DEF Sent
  <2>2. pointer \in Nat /\ pointer' \in Nat /\ pointer <= pointer' /\ s \in Int
    <3>1. s \in Segments
      BY DEF Filled
    <3> QED
      BY <3>1, SuccessCounts, HashAssumption DEF IInv, CountInv, Segments
  <2>3. CASE s = p.segment
    BY <1>7, <2>1, <2>2, <2>3, SuccessCounts
  <2>4. CASE s \in Filled
    <3>1. /\ s \notin awaiting /\ s < pointer
          /\ slots[s + 1] \in Sent /\ slots[s + 1].segment = s
      BY <1>2, <2>4 DEF StoreInv
    <3>2. s \notin awaiting' /\ s < pointer'
      BY <2>2, <3>1, SuccessCounts
    <3> QED
      BY <1>9, <2>1, <2>4, <3>1, <3>2
  <2> QED
    BY <1>10, <2>3, <2>4
<1> QED
  BY <1>2, <1>3, <1>7, <1>10, <1>11, <1>12, SuccessCounts DEF StoreInv, size

(* When all answers are counted there is no hole in m_store.               *)
LEMMA SuccessWritten ==
  ASSUME IInv, OneSize, NEW p \in Sent, FetchSuccess(p), UNCHANGED puts
  PROVE  WrittenInv'
<1> DEFINE size == FileSize[p.version]
<1>1. /\ p.version \in puts /\ size \in Nat /\ size \in 1 .. StoreSize
      /\ \A v \in puts : FileSize[v] = size
  BY SentSize, HashAssumption DEF OneSize
<1>2. StoreInv /\ WrittenInv /\ CountInv
  BY DEF IInv, FileInv
<1>3. /\ slots' \in [1 .. size -> Packet \cup {NoData}]
      /\ StoreInv'
  BY SuccessStore
<1>4. /\ p.segment \in awaiting
      /\ done' = done + 1
      /\ IF AllDone(size) THEN WriteAll ELSE UNCHANGED <<written, crashed>>
  BY DEF FetchSuccess
<1> HIDE DEF size
<1>5. written = << >>
  <2>1. pending # 0
    <3>1. pending - 1 \in Nat
      BY <1>2, <1>4, OneLessAwaited
    <3> QED
      BY <3>1
  <2>2. pointer <= size /\ done + pending <= pointer
    BY <1>1, <1>2 DEF StoreInv, CountInv, PendingIsAwaited
  <2>3. done # size
    BY <1>1, <1>2, <2>1, <2>2 DEF CountInv
  <2> QED
    BY <1>1, <1>2, <2>3 DEF WrittenInv
<1>6. CASE AllDone(size)
  <2>1. done' = size /\ WriteAll
    BY <1>4, <1>6 DEF AllDone
  <2>2. Filled' \subseteq 0 .. size - 1 /\ Cardinality(Filled') = size
    <3>1. ASSUME NEW s \in Filled'
          PROVE  s \in 0 .. size - 1
      <4>1. s \in Segments /\ s + 1 \in DOMAIN slots'
        BY DEF Filled
      <4> QED
        BY <1>1, <1>3, <4>1, HashAssumption DEF Segments
    <3> QED
      BY <1>3, <2>1, <3>1 DEF StoreInv
  <2>3. Filled' = 0 .. size - 1
    <3>1. IsFiniteSet(0 .. size - 1) /\ Cardinality(0 .. size - 1) = size
      BY <1>1, FS_Interval
    <3> QED
      BY <2>2, <3>1, FS_Subset
  <2>4. ASSUME NEW i \in 1 .. size
        PROVE  /\ slots'[i] \in Sent' /\ slots'[i].segment = i - 1
               /\ slots'[i] # NoData
    <3>1. i - 1 \in Filled' /\ (i - 1) + 1 = i
      BY <1>1, <2>3
    <3> QED
      BY <1>3, <3>1 DEF StoreInv, Filled
  <2>5. slots' \in Seq(Packet) /\ Len(slots') = size
    <3>1. \A i \in 1 .. size : slots'[i] \in Packet
      BY <2>4 DEF Sent
    <3>2. slots' \in [1 .. size -> Packet]
      BY <1>3, <3>1
    <3> QED
      BY <1>1, <3>2, LenProperties
  <2>6. {i \in DOMAIN slots' : \A j \in 1 .. i : slots'[j] # NoData} = 1 .. size
    <3>1. DOMAIN slots' = 1 .. size
      BY <1>3
    <3>2. \A i \in 1 .. size : \A j \in 1 .. i : slots'[j] # NoData
      BY <1>1, <2>4
    <3> QED
      BY <3>1, <3>2
  <2>7. Cardinality(1 .. size) = size
    BY <1>1, FS_Interval
  <2>8. /\ written' = written \o SubSeq(slots', 1, size)
        /\ crashed' = (size < size)
    BY <2>1, <2>5, <2>6, <2>7 DEF WriteAll
  <2>9. written' = slots'
    <3>1. SubSeq(slots', 1, size) = slots'
      BY <2>5, SubSeqFull
    <3>2. << >> \o slots' = slots'
      BY <2>5, ConcatEmptySeq
    <3> QED
      BY <1>5, <2>8, <3>1, <3>2
  <2>10. WholeFile(written)'
    <3>1. DOMAIN written' = 1 .. size
      BY <1>3, <2>9
    <3>2. \A i \in 1 .. size : written'[i].segment = i - 1 /\ written'[i].version \in puts'
      BY <2>4, <2>9 DEF Sent
    <3>3. \A v \in puts' : Len(written') = FileSize[v]
      BY <1>1, <2>5, <2>9
    <3> QED
      BY <3>1, <3>2, <3>3 DEF WholeFile
  <2>11. crashed' = FALSE
    <3>1. (size < size) = FALSE
      BY <1>1
    <3> QED
      BY <2>8, <3>1, Zenon
  <2>12. \A v \in puts' : done' = FileSize[v]
    BY <1>1, <2>1
  <2> QED
    BY <1>1, <2>10, <2>11, <2>12 DEF WrittenInv
<1>7. CASE ~AllDone(size)
  BY <1>2, <1>4, <1>5, <1>7 DEF WrittenInv
<1> QED
  BY <1>6, <1>7

(* A segment that arrives keeps the invariant.                             *)
LEMMA SuccessInvariant ==
  ASSUME IInv, NEW p \in answers, FetchSuccess(p), UNCHANGED storeVars
  PROVE  IInv'
<1>1. p \in Sent /\ UNCHANGED <<puts, store, answers>>
  BY DEF IInv, NetInv, storeVars, FetchSuccess
<1>2. NetInv'
  <2>1. Sent' = Sent
    BY <1>1 DEF Sent
  <2> QED
    BY <1>1, <2>1, SuccessCounts DEF IInv, NetInv
<1>3. OneSize' = OneSize
  BY <1>1 DEF OneSize
<1> QED
  BY <1>1, <1>2, <1>3, SuccessCounts, SuccessStore, SuccessWritten DEF IInv, FileInv

(* So does every step.                                                     *)
LEMMA NextInvariant == IInv /\ [Next]_vars => IInv'
<1> SUFFICES ASSUME IInv, [Next]_vars PROVE IInv'
  OBVIOUS
<1>1. CASE ClientNext /\ UNCHANGED storeVars
  <2>1. ASSUME NEW p \in answers, FetchUnmarked(p)
        PROVE  IInv'
    <3>1. ~OneSize
      BY <2>1 DEF OneSize, FetchUnmarked, IInv, NetInv, Sent
    <3> QED
      BY <1>1, <2>1, <3>1, GivenUpInvariant DEF FetchUnmarked
  <2>2. ASSUME NEW s \in awaiting, FetchNack(s)
        PROVE  IInv'
    BY <1>1, <2>2, GivenUpInvariant DEF FetchNack
  <2> QED
    BY <1>1, <2>1, <2>2, SuccessInvariant, TimeoutInvariant DEF ClientNext, DataArrives
<1>2. CASE WorkerNext /\ UNCHANGED clientVars
  BY <1>2, WorkerInvariant
<1>3. CASE UNCHANGED vars
  <2>1. UNCHANGED <<asked, answers, puts, store, clientVars>>
    BY <1>3 DEF vars, interestVars, storeVars
  <2>2. NetInv'
    BY <2>1 DEF IInv, NetInv, Sent
  <2> QED
    BY <2>1, <2>2, ClientUnchanged DEF IInv
<1> QED
  BY <1>1, <1>2, <1>3 DEF Next

-----------------------------------------------------------------------------
(* The inductive invariant holds of every behaviour of client and workers. *)
THEOREM Invariance == Spec => []IInv
BY InitInvariant, NextInvariant, PTL DEF Spec

(* The counters of the client always agree with the Interests it waits for.*)
THEOREM PendingIsAwaitedHolds == Spec => []PendingIsAwaited
<1>1. IInv => PendingIsAwaited
  BY DEF IInv, CountInv
<1> QED
  BY <1>1, Invariance, PTL

(* What is written is a whole file, in order and once, whatever the order  *)
(* of answers, retries and Nacks: of files that are all of the same length.*)
THEOREM WrittenOnceWholeHolds == Spec => []WrittenOnceWhole
<1>1. ASSUME IInv
      PROVE  WrittenOnceWhole
  <2>1. CASE OneSize /\ written # << >>
    <3>1. PICK v \in puts : done = FileSize[v] /\ pointer <= FileSize[v]
      BY <1>1, <2>1 DEF IInv, FileInv, WrittenInv, StoreInv
    <3>2. pending = 0
      BY <1>1, <3>1 DEF IInv, CountInv, PendingIsAwaited
    <3>3. awaiting = {}
      BY <1>1, <3>2, SegmentsFinite, FS_EmptySet DEF IInv, CountInv, PendingIsAwaited
    <3> QED
      BY <1>1, <2>1, <3>3 DEF WrittenOnceWhole, IInv, FileInv, WrittenInv
  <2>2. CASE ~(OneSize /\ written # << >>)
    BY <1>1, <2>2 DEF WrittenOnceWhole, IInv, FileInv, WrittenInv
  <2> QED
    BY <2>1, <2>2
<1> QED
  BY <1>1, Invariance, PTL

-----------------------------------------------------------------------------
(* The types of all variables, and the bounds of the counters: they hold   *)
(* also of files of different lengths, where the invariant says nothing of *)
(* m_store.                                                                *)

(* What the invariant leaves open.                                         *)
StoreTypes ==
  /\ slots \in Seq(Packet \cup {NoData}) /\ Len(slots) <= StoreSize
  /\ pointer \in 1 .. StoreSize
  /\ written \in Seq(Packet)
  /\ crashed \in BOOLEAN
  /\ puts \in PossiblePuts

(* The loop that writes m_store stops at the first null pointer: all that  *)
(* it writes are packets.                                                  *)
LEMMA WriteAllTypes ==
  ASSUME NEW size \in Nat, slots' \in [1 .. size -> Packet \cup {NoData}],
         written \in Seq(Packet), WriteAll
  PROVE  written' \in Seq(Packet) /\ crashed' \in BOOLEAN
<1> DEFINE filled == {i \in DOMAIN slots' : \A j \in 1 .. i : slots'[j] # NoData}
           k == Cardinality(filled)
<1>1. written' = written \o SubSeq(slots', 1, k) /\ crashed' = (k < Len(slots'))
  BY DEF WriteAll
<1>2. \A i \in filled : i \in 1 .. size /\ \A j \in 1 .. i : slots'[j] # NoData
  OBVIOUS
<1> HIDE DEF filled
<1>3. ASSUME NEW n \in Nat, filled \subseteq 1 .. n
      PROVE  k \in Nat /\ k <= n
  <2>1. IsFiniteSet(1 .. n) /\ Cardinality(1 .. n) = n
    BY FS_Interval
  <2>2. IsFiniteSet(filled) /\ Cardinality(filled) <= Cardinality(1 .. n)
    BY <1>3, <2>1, FS_Subset
  <2> QED
    BY <2>1, <2>2, FS_CardinalityType
<1>4. k \in Nat /\ k <= size
  <2>1. filled \subseteq 1 .. size
    BY <1>2
  <2> QED
    BY <1>3, <2>1
<1>5. ASSUME NEW i \in 1 .. k
      PROVE  slots'[i] \in Packet
  <2>1. i \in 1 .. size /\ i - 1 \in Nat
    BY <1>4
  <2>2. ASSUME slots'[i] = NoData
        PROVE  FALSE
    <3>1. filled \subseteq 1 .. i - 1
      BY <1>2, <2>1, <2>2
    <3>2. k <= i - 1
      BY <1>3, <2>1, <3>1
    <3> QED
      BY <1>4, <3>2
  <2> QED
    BY <2>1, <2>2
<1> HIDE DEF k
<1>6. SubSeq(slots', 1, k) \in Seq(Packet)
  BY <1>4, <1>5, SubSeqProperties
<1> QED
  BY <1>1, <1>6, ConcatProperties

(* A segment arrives: m_store gets the length that its file has.           *)
LEMMA SuccessTypes ==
  ASSUME IInv, StoreTypes, NEW p \in Sent, FetchSuccess(p), UNCHANGED puts
  PROVE  StoreTypes'
<1> DEFINE size == FileSize[p.version]
<1>1. p \in Packet /\ size \in 1 .. StoreSize /\ size \in Nat
  BY SentSize, HashAssumption
<1>2. pointer' \in Nat /\ pointer <= pointer'
  BY SuccessCounts DEF IInv, CountInv
<1>3. pointer' \in 1 .. StoreSize
  <2>1. pending - 1 \in Nat /\ pending - 1 < WindowSize
    <3>1. p.segment \in awaiting
      BY DEF FetchSuccess
    <3>2. CountInv
      BY DEF IInv
    <3>3. pending - 1 \in Nat
      BY <3>1, <3>2, OneLessAwaited
    <3>4. pending \in Nat /\ pending <= WindowSize
      BY <3>2 DEF CountInv, PendingIsAwaited
    <3> QED
      BY <3>3, <3>4, ClientAssumption
  <2>2. pointer \in 1 .. StoreSize /\ pointer \in Nat /\ StoreSize \in Nat
    BY HashAssumption DEF StoreTypes, IInv, CountInv
  <2> HIDE DEF size
  <2>3. PICK k \in Nat :
          /\ Cardinality(NextSegments(size, pending - 1)) = k
          /\ k > 0 => pointer + k <= size
    BY <1>1, <2>1, <2>2, NextSegmentsInterval
  <2>4. pointer' = pointer + k
    BY <2>3 DEF FetchSuccess, size
  <2> QED
    BY <1>1, <2>2, <2>3, <2>4
<1>4. slots' \in [1 .. size -> Packet \cup {NoData}]
  <2>1. Resized(size) \in [1 .. size -> Packet \cup {NoData}]
    <3>1. \A i \in 1 .. Len(slots) : slots[i] \in Packet \cup {NoData}
      BY ElementOfSeq DEF StoreTypes
    <3>2. Len(slots) \in Nat
      BY LenProperties DEF StoreTypes
    <3> QED
      BY <1>1, <3>1, <3>2 DEF Resized
  <2> HIDE DEF size
  <2>2. slots' = [Resized(size) EXCEPT ![p.segment + 1] = p]
    BY DEF FetchSuccess, Stored, size
  <2> QED
    BY <1>1, <2>1, <2>2
<1>5. slots' \in Seq(Packet \cup {NoData}) /\ Len(slots') = size
  <2> HIDE DEF size
  <2> QED
    BY <1>1, <1>4, LenProperties
<1>6. written' \in Seq(Packet) /\ crashed' \in BOOLEAN
  <2>1. IF AllDone(size) THEN WriteAll ELSE UNCHANGED <<written, crashed>>
    BY DEF FetchSuccess
  <2> HIDE DEF size
  <2> QED
    BY <1>1, <1>4, <2>1, WriteAllTypes DEF StoreTypes
<1> QED
  BY <1>1, <1>3, <1>5, <1>6 DEF StoreTypes

(* All that is left alone by the other handlers.                           *)
LEMMA StoreTypesStep == IInv /\ StoreTypes /\ [Next]_vars => StoreTypes'
<1> SUFFICES ASSUME IInv, StoreTypes, [Next]_vars PROVE StoreTypes'
  OBVIOUS
<1>1. CASE UNCHANGED <<slots, pointer, written, crashed, puts>>
  BY <1>1 DEF StoreTypes
<1>2. ASSUME NEW p \in answers, DataArrives(p), UNCHANGED storeVars
      PROVE  StoreTypes'
  <2>1. p \in Sent /\ UNCHANGED puts
    BY <1>2 DEF IInv, NetInv, storeVars
  <2>2. CASE FetchSuccess(p)
    BY <2>1, <2>2, SuccessTypes
  <2>3. CASE FetchUnmarked(p)
    BY <1>1, <2>1, <2>3 DEF FetchUnmarked
  <2> QED
    BY <1>2, <2>2, <2>3 DEF DataArrives
<1>3. ASSUME NEW s \in awaiting, FetchNack(s) \/ FetchTimeout(s), UNCHANGED storeVars
      PROVE  StoreTypes'
  BY <1>1, <1>3 DEF FetchNack, FetchTimeout, storeVars
<1>4. CASE WorkerNext /\ UNCHANGED clientVars
  BY <1>1, <1>4 DEF WorkerNext, Inserted, Fetch, clientVars, storeVars
<1>5. CASE UNCHANGED vars
  BY <1>1, <1>5 DEF vars, clientVars, storeVars
<1> QED
  BY <1>2, <1>3, <1>4, <1>5 DEF Next, ClientNext

(* The counters of get() stay within the length of the longest file, and   *)
(* only packets are written, even when m_store was resized under way.      *)
THEOREM TypeCorrect == Spec => []TypeOK
<1>1. Init => StoreTypes
  <2> SUFFICES ASSUME Init PROVE StoreTypes
    OBVIOUS
  <2>1. slots = << >> /\ written = << >> /\ pointer = 1 /\ crashed = FALSE /\ puts \in PossiblePuts
    BY DEF Init, ClientInit, StoreInit
  <2> QED
    BY <2>1, HashAssumption, EmptySeq DEF StoreTypes
<1>2. ASSUME IInv, StoreTypes
      PROVE  TypeOK
  <2>1. InterestsTypeOK
    BY <1>2 DEF InterestsTypeOK, IInv, NetInv, Sent
  <2>2. ClientTypeOK
    <3>1. pending \in 0 .. StoreSize /\ done \in 0 .. StoreSize
      BY <1>2, HashAssumption DEF StoreTypes, IInv, CountInv, PendingIsAwaited
    <3>2. Len(slots) \in 0 .. StoreSize
      BY <1>2, HashAssumption, LenProperties DEF StoreTypes
    <3> QED
      BY <1>2, <3>1, <3>2 DEF ClientTypeOK, StoreTypes, IInv, CountInv
  <2>3. StoreTypeOK
    BY <1>2 DEF StoreTypeOK, StoreTypes, IInv, NetInv, Sent
  <2> QED
    BY <2>1, <2>2, <2>3 DEF TypeOK
<1> QED
  BY <1>1, <1>2, InitInvariant, NextInvariant, StoreTypesStep, PTL DEF Spec

=============================================================================
