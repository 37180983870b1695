---------------------------- MODULE InsertionProofs ----------------------------
(***************************************************************************)
(* The workers store and replicate what a client puts, and say so only     *)
(* when it is so: for any number of nodes, buckets and replicas, files and *)
(* windows of any length, and any interleaving with retries and restarts.  *)
(***************************************************************************)
EXTENDS Insertion, ClientPutProofs

-----------------------------------------------------------------------------
(* What the workers know of a segment, a command and a NO_REPLICATE        *)
(* command.                                                                *)

(* The NO_REPLICATE commands that were sent. *)
Forwarded == UNION {HostCommands(c) : c \in DOMAIN replicaCount}

(* The segments that the host of a NO_REPLICATE command waits for. *)
Todo(i) == {s \in SegmentsOf(i.command.range) : [insert |-> i, segment |-> s] \in fetching}

(* The hosts whose answers the worker of command c has counted. *)
Answered(c) ==
  {n \in ConfirmedHosts[BucketOf(c.range)] :
     /\ [range |-> c.range, host |-> n] \in inserted
     /\ [command |-> c, host |-> n] \notin replicating}

(* What is under way has been sent for a command of the client.            *)
SentInv ==
  /\ DOMAIN replicaCount \subseteq commands
  /\ replicating \subseteq Forwarded
  /\ DOMAIN fetchedCount \subseteq Forwarded
  /\ fetching \subseteq [insert : DOMAIN fetchedCount, segment : Segments]
  /\ \A f \in fetching : f.segment \in SegmentsOf(f.insert.command.range)

StoreInv ==
  /\ store \in [Nodes -> [Buckets -> SUBSET Segments]]
  /\ lostCopies \in [Nodes -> [Buckets -> SUBSET Segments]]
  /\ restarted \subseteq Nodes
  /\ StoredWhereItHashes

(* No segment that was fetched or is waited for is missing.                *)
NoneMissing(i) == fetchedCount[i] + Cardinality(Todo(i)) = Size(i.command.range)

(* The count of fetched segments is never ahead of them.  When segments are*)
(* missing, which the host waited for when it restarted, the count never   *)
(* comes to the size of the range; when none is, each is stored or waited  *)
(* for.                                                                    *)
FetchInv ==
  \A i \in DOMAIN fetchedCount :
    /\ fetchedCount[i] \in Nat
    /\ fetchedCount[i] + Cardinality(Todo(i)) <= Size(i.command.range)
    /\ NoneMissing(i) =>
         \A s \in SegmentsOf(i.command.range) :
           s \in Todo(i) \/ Had(i.host, BucketOf(i.command.range), s)

(* A host answers when it has stored the range.                            *)
InsertedInv ==
  /\ inserted \subseteq [range : SegmentRange, host : Nodes]
  /\ \A d \in inserted : \A s \in SegmentsOf(d.range) : Had(d.host, BucketOf(d.range), s)

(* The count of replicas is never ahead of the hosts that answered.        *)
CountInv ==
  \A c \in DOMAIN replicaCount :
    /\ replicaCount[c] \in Nat
    /\ replicaCount[c] <= Cardinality(Answered(c))

WorkersInv == SentInv /\ StoreInv /\ FetchInv /\ InsertedInv /\ CountInv

IInv == ClientInv /\ WorkersInv /\ ReplyMeansReplicated

-----------------------------------------------------------------------------
(* Division keeps the order of numbers.                                    *)
LEMMA DivMonotonic ==
  ASSUME NEW x \in Nat, NEW y \in Nat, NEW k \in Nat \ {0}, x <= y
  PROVE  x \div k \in 0 .. y \div k
<1> DEFINE a == x \div k
           b == y \div k
<1>1. a \in Nat /\ b \in Nat /\ k * a <= x /\ y < k * b + k
  <2>1. \A z \in Nat : z \div k \in Nat /\ k * (z \div k) <= z /\ z < k * (z \div k) + k
    OBVIOUS
  <2> QED
    BY <2>1
<1> HIDE DEF a, b
<1>2. k * a < k * (b + 1)
  BY <1>1
<1>3. a < b + 1
  BY <1>1, <1>2
<1> QED
  BY <1>1, <1>3 DEF a, b

(* The name of each segment hashes to a bucket.                            *)
LEMMA HashesToBucket ==
  ASSUME NEW s \in Segments
  PROVE  IdFromName(s) \in Buckets
<1>1. s \in Nat /\ StoreSize - 1 \in Nat /\ s <= StoreSize - 1
  BY HashAssumption DEF Segments
<1>2. s \div SegmentsPerHash \in 0 .. (StoreSize - 1) \div SegmentsPerHash
  BY <1>1, HashAssumption, DivMonotonic
<1> QED
  BY <1>2, HashAssumption DEF IdFromName

(* The bucket of a range, and its hosts.                                   *)
LEMMA BucketOfRange ==
  ASSUME NEW r \in SegmentRange
  PROVE  /\ BucketOf(r) \in Buckets
         /\ ConfirmedHosts[BucketOf(r)] \subseteq Nodes
         /\ IsFiniteSet(ConfirmedHosts[BucketOf(r)])
<1>1. r.startSeg \in Segments
  BY RangeSize
<1>2. BucketOf(r) \in Buckets
  BY <1>1, HashesToBucket DEF BucketOf
<1>3. ConfirmedHosts[BucketOf(r)] \subseteq Nodes
  BY <1>2, HostsAssumption
<1> QED
  BY <1>2, <1>3, HostsAssumption, FS_Subset

(* The commands of the client are for ranges of a bucket.                  *)
LEMMA CommandIs ==
  ASSUME ClientInv, NEW c \in commands
  PROVE  c.range \in SegmentRange /\ OneBucket(c.range)
BY DEF ClientInv, Books

(* What is known of a NO_REPLICATE command.                                *)
LEMMA ForwardedIs ==
  ASSUME ClientInv, SentInv, NEW i \in Forwarded
  PROVE  /\ i.command \in DOMAIN replicaCount /\ i.command \in commands
         /\ i.command.range \in SegmentRange /\ OneBucket(i.command.range)
         /\ BucketOf(i.command.range) \in Buckets
         /\ i.host \in ConfirmedHosts[BucketOf(i.command.range)] /\ i.host \in Nodes
         /\ i = [command |-> i.command, host |-> i.host]
<1>1. PICK c \in DOMAIN replicaCount : i \in HostCommands(c)
  BY DEF Forwarded
<1>2. /\ i.command = c /\ i.host \in ConfirmedHosts[BucketOf(c.range)]
      /\ i = [command |-> i.command, host |-> i.host]
  BY <1>1 DEF HostCommands
<1>3. c \in commands /\ c.range \in SegmentRange /\ OneBucket(c.range)
  BY CommandIs DEF SentInv
<1> QED
  BY <1>1, <1>2, <1>3, BucketOfRange

(* The hosts that were counted are a finite set.                           *)
LEMMA AnsweredFinite ==
  ASSUME NEW c, c.range \in SegmentRange
  PROVE  /\ IsFiniteSet(Answered(c)) /\ Cardinality(Answered(c)) \in Nat
         /\ IsFiniteSet(Answered(c)') /\ Cardinality(Answered(c)') \in Nat
<1>1. Answered(c) \subseteq ConfirmedHosts[BucketOf(c.range)]
  BY DEF Answered
<1>2. Answered(c)' \subseteq ConfirmedHosts[BucketOf(c.range)]
  BY DEF Answered
<1> QED
  BY <1>1, <1>2, BucketOfRange, FS_Subset, FS_CardinalityType

(* A segment is replicated when NumReplica of its hosts had it.            *)
LEMMA ReplicatedIs ==
  ASSUME NEW s
  PROVE  Replicated(s) <=>
           Cardinality({n \in ConfirmedHosts[IdFromName(s)] : Had(n, IdFromName(s), s)})
             >= NumReplica
BY DEF Replicated

-----------------------------------------------------------------------------
(* What a host had, it had.                                                *)
HadStays == \A n \in Nodes, b \in Buckets : \A s : Had(n, b, s) => Had(n, b, s)'

(* So a segment that is replicated stays so.                               *)
LEMMA ReplicatedStays ==
  ASSUME HadStays, NEW s \in Segments, Replicated(s)
  PROVE  Replicated(s)'
<1> DEFINE b   == IdFromName(s)
           Old == {n \in ConfirmedHosts[b] : Had(n, b, s)}
           New == {n \in ConfirmedHosts[b] : Had(n, b, s)'}
<1>1. b \in Buckets /\ ConfirmedHosts[b] \subseteq Nodes /\ IsFiniteSet(ConfirmedHosts[b])
  BY HashesToBucket, HostsAssumption, FS_Subset
<1>2. Old \subseteq New
  BY <1>1 DEF HadStays
<1>3. IsFiniteSet(New)
  BY <1>1, FS_Subset
<1>4. /\ Cardinality(Old) <= Cardinality(New)
      /\ Cardinality(Old) \in Nat /\ Cardinality(New) \in Nat
  BY <1>2, <1>3, FS_Subset, FS_CardinalityType
<1>5. Cardinality(Old) >= NumReplica
  BY ReplicatedIs
<1>6. Cardinality(New) >= NumReplica
  <2> HIDE DEF Old, New
  <2> QED
    BY <1>4, <1>5, HostsAssumption
<1>7. Replicated(s)' <=> Cardinality(New) >= NumReplica
  BY DEF Replicated, Had
<1> QED
  BY <1>6, <1>7

(* What is said of replies, and of the Data of hosts, stays true of them.  *)
LEMMA RepliesStay ==
  ASSUME ClientInv, HadStays, ReplyMeansReplicated, NEW r \in replies
  PROVE  \A s \in SegmentsOf(r) : Replicated(s)'
<1>1. PICK c \in commands : c.range = r
  BY DEF ClientInv, Books
<1>2. SegmentsOf(r) \subseteq Segments
  BY <1>1, CommandIs, RangeSize
<1> QED
  BY <1>2, ReplicatedStays DEF ReplyMeansReplicated

(* What a host answered for, it had stored.                                *)
LEMMA InsertedStays ==
  ASSUME HadStays, InsertedInv, NEW d \in inserted
  PROVE  \A s \in SegmentsOf(d.range) : Had(d.host, BucketOf(d.range), s)'
<1>1. d.range \in SegmentRange /\ d.host \in Nodes
  BY DEF InsertedInv
<1>2. BucketOf(d.range) \in Buckets
  BY <1>1, BucketOfRange
<1> QED
  BY <1>1, <1>2 DEF HadStays, InsertedInv

(* With the stores and the restarted nodes as they were, so is that.       *)
LEMMA UnchangedHad ==
  ASSUME UNCHANGED <<store, lostCopies, restarted>>
  PROVE  /\ HadStays
         /\ StoreInv => StoreInv'
         /\ \A s : Replicated(s)' <=> Replicated(s)
         /\ UNCHANGED inserted /\ InsertedInv => InsertedInv'
<1>1. StoreInv => StoreInv'
  BY DEF StoreInv, StoredWhereItHashes
<1>2. \A s : Replicated(s)' <=> Replicated(s)
  BY DEF Replicated, Had
<1>3. UNCHANGED inserted /\ InsertedInv => InsertedInv'
  BY DEF InsertedInv, Had
<1> QED
  BY <1>1, <1>2, <1>3 DEF HadStays, Had

(* With the fetches as they were, what their counts say is true of them.   *)
LEMMA UnchangedFetches ==
  ASSUME UNCHANGED <<fetchedCount, fetching, store, lostCopies, restarted>>, FetchInv
  PROVE  FetchInv'
BY DEF FetchInv, NoneMissing, Todo, Had

(* With the counts of replicas, and what was answered, as they were.       *)
LEMMA UnchangedCounts ==
  ASSUME UNCHANGED <<replicaCount, replicating, inserted>>
  PROVE  Forwarded' = Forwarded /\ (CountInv => CountInv')
BY DEF Forwarded, CountInv, Answered

-----------------------------------------------------------------------------
(* The client takes no command back, and sends no replies.                 *)
LEMMA ClientCommands ==
  ASSUME ClientNext
  PROVE  commands \subseteq commands' /\ replies' = replies
<1>1. ASSUME NEW pend, NEW still, InsertStore(pend, still)
      PROVE  commands \subseteq commands'
  BY <1>1 DEF InsertStore
<1>2. CASE Registered
  BY <1>1, <1>2 DEF Registered
<1>3. ASSUME NEW c \in awaiting, InsertSuccess(c)
      PROVE  commands \subseteq commands' /\ replies' = replies
  BY <1>1, <1>3 DEF InsertSuccess
<1>4. ASSUME NEW c \in awaiting, InsertNack(c)
      PROVE  commands \subseteq commands' /\ replies' = replies
  BY <1>4 DEF InsertNack, commandVars
<1>5. ASSUME NEW c \in awaiting, InsertTimeout(c)
      PROVE  commands \subseteq commands' /\ replies' = replies
  BY <1>5 DEF InsertTimeout
<1> QED
  BY <1>2, <1>3, <1>4, <1>5 DEF ClientNext

(* A step of the client disturbs nothing that the workers hold.            *)
LEMMA ClientKeepsWorkers ==
  ASSUME WorkersInv, commands \subseteq commands', UNCHANGED workerVars
  PROVE  WorkersInv'
<1> USE DEF workerVars
<1>1. SentInv'
  BY UnchangedCounts DEF WorkersInv, SentInv
<1>2. StoreInv' /\ InsertedInv'
  BY UnchangedHad DEF WorkersInv
<1>3. FetchInv'
  BY UnchangedFetches DEF WorkersInv
<1>4. CountInv'
  BY UnchangedCounts DEF WorkersInv
<1> QED
  BY <1>1, <1>2, <1>3, <1>4 DEF WorkersInv

(* The worker that a command reaches starts to count at zero.              *)
LEMMA InsertKeepsWorkers ==
  ASSUME ClientInv, WorkersInv, NEW c \in commands, Insert(c)
  PROVE  WorkersInv'
<1> USE DEF WorkersInv
<1>1. /\ c \notin DOMAIN replicaCount
      /\ replicaCount' = CountFromZero(replicaCount, c)
      /\ replicating' = replicating \cup HostCommands(c)
      /\ UNCHANGED <<commandVars, fetchedCount, fetching, inserted, store, lostCopies, restarted>>
  BY DEF Insert
<1>2. /\ DOMAIN replicaCount' = DOMAIN replicaCount \cup {c}
      /\ replicaCount'[c] = 0
      /\ \A d \in DOMAIN replicaCount : replicaCount'[d] = replicaCount[d]
  BY <1>1 DEF CountFromZero
<1>3. Forwarded' = Forwarded \cup HostCommands(c)
  BY <1>2 DEF Forwarded
<1>4. SentInv'
  BY <1>1, <1>2, <1>3 DEF SentInv, commandVars
<1>5. StoreInv' /\ InsertedInv'
  BY <1>1, UnchangedHad
<1>6. FetchInv'
  BY <1>1, UnchangedFetches
<1>7. CountInv'
  <2>1. ASSUME NEW d \in DOMAIN replicaCount
        PROVE  replicaCount'[d] \in Nat /\ replicaCount'[d] <= Cardinality(Answered(d)')
    <3>1. \A n : [command |-> d, host |-> n] \notin HostCommands(c)
      BY <1>1 DEF HostCommands
    <3>2. Answered(d)' = Answered(d)
      BY <1>1, <3>1 DEF Answered
    <3> QED
      BY <1>2, <3>2 DEF CountInv
  <2>2. 0 <= Cardinality(Answered(c)')
    BY CommandIs, AnsweredFinite
  <2> QED
    BY <1>2, <2>1, <2>2 DEF CountInv
<1> QED
  BY <1>4, <1>5, <1>6, <1>7

(* The host that a NO_REPLICATE command reaches asks for all its segments. *)
LEMMA InsertNoReplicateKeepsWorkers ==
  ASSUME ClientInv, WorkersInv, NEW i \in Forwarded, InsertNoReplicateRange(i)
  PROVE  WorkersInv'
<1> USE DEF WorkersInv
<1> DEFINE range == i.command.range
           asked == [insert : {i}, segment : SegmentsOf(range)]
<1>1. /\ i \notin DOMAIN fetchedCount
      /\ fetchedCount' = CountFromZero(fetchedCount, i)
      /\ fetching' = fetching \cup asked
      /\ UNCHANGED <<commandVars, replicaCount, replicating, inserted, store, lostCopies, restarted>>
  BY DEF InsertNoReplicateRange
<1>2. /\ DOMAIN fetchedCount' = DOMAIN fetchedCount \cup {i}
      /\ fetchedCount'[i] = 0
      /\ \A j \in DOMAIN fetchedCount : fetchedCount'[j] = fetchedCount[j]
  BY <1>1 DEF CountFromZero
<1>3. range \in SegmentRange
  BY ForwardedIs
<1>4. SegmentsOf(range) \subseteq Segments /\ Size(range) \in Nat
      /\ Cardinality(SegmentsOf(range)) = Size(range)
  BY <1>3, RangeSize
<1>5. StoreInv' /\ InsertedInv'
  BY <1>1, UnchangedHad
<1>6. CountInv' /\ Forwarded' = Forwarded
  BY <1>1, UnchangedCounts
<1>7. SentInv'
  <2>1. asked \subseteq [insert : DOMAIN fetchedCount', segment : Segments]
    BY <1>2, <1>4
  <2>2. fetching \subseteq [insert : DOMAIN fetchedCount', segment : Segments]
    BY <1>2 DEF SentInv
  <2>3. \A f \in asked : f.segment \in SegmentsOf(f.insert.command.range)
    OBVIOUS
  <2> HIDE DEF asked
  <2> QED
    BY <1>1, <1>2, <1>6, <2>1, <2>2, <2>3 DEF SentInv, commandVars
<1>8. FetchInv'
  <2>1. Todo(i)' = SegmentsOf(range)
    BY <1>1 DEF Todo
  <2>2. ASSUME NEW j \in DOMAIN fetchedCount
        PROVE  Todo(j)' = Todo(j)
    <3>1. \A s : [insert |-> j, segment |-> s] \notin asked
      BY <1>1
    <3> HIDE DEF asked
    <3> QED
      BY <1>1, <3>1 DEF Todo
  <2>3. \A n, b, s : Had(n, b, s)' <=> Had(n, b, s)
    BY <1>1 DEF Had
  <2>4. ASSUME NEW j \in DOMAIN fetchedCount
        PROVE  /\ fetchedCount'[j] \in Nat
               /\ fetchedCount'[j] + Cardinality(Todo(j)') <= Size(j.command.range)
               /\ NoneMissing(j)' =>
                    \A s \in SegmentsOf(j.command.range) :
                      s \in Todo(j)' \/ Had(j.host, BucketOf(j.command.range), s)'
    BY <1>2, <2>2, <2>3 DEF FetchInv, NoneMissing
  <2>5. /\ fetchedCount'[i] \in Nat
        /\ fetchedCount'[i] + Cardinality(Todo(i)') <= Size(range)
        /\ \A s \in SegmentsOf(range) : s \in Todo(i)'
    BY <1>2, <1>4, <2>1
  <2> QED
    BY <1>2, <2>4, <2>5 DEF FetchInv
<1> QED
  BY <1>5, <1>6, <1>7, <1>8

(* What is known of a fetch that is pending.                               *)
LEMMA FetchIs ==
  ASSUME SentInv, NEW f \in fetching
  PROVE  /\ f = [insert |-> f.insert, segment |-> f.segment]
         /\ f.insert \in DOMAIN fetchedCount /\ f.insert \in Forwarded
         /\ f.segment \in Segments /\ f.segment \in SegmentsOf(f.insert.command.range)
BY DEF SentInv

(* All segments that a host waits for are of the range of the command.     *)
LEMMA TodoFinite ==
  ASSUME NEW i, i.command.range \in SegmentRange
  PROVE  IsFiniteSet(Todo(i)) /\ Cardinality(Todo(i)) \in Nat
<1>1. Todo(i) \subseteq Segments
  BY RangeSize DEF Todo
<1> QED
  BY <1>1, SegmentsFinite

(* A segment arrives: it is stored before it is counted, and the answer    *)
(* comes when none is left.                                                *)
LEMMA FetchSuccessKeepsWorkers ==
  ASSUME ClientInv, WorkersInv, NEW f \in fetching, FetchSuccess(f.insert, f.segment)
  PROVE  WorkersInv' /\ HadStays
<1> USE DEF WorkersInv
<1> DEFINE i == f.insert
           s == f.segment
           range == i.command.range
           b == BucketOf(range)
           data == [range |-> range, host |-> i.host]
<1>1. /\ f = [insert |-> i, segment |-> s]
      /\ i \in DOMAIN fetchedCount /\ i \in Forwarded
      /\ s \in Segments /\ s \in SegmentsOf(range)
  BY FetchIs
<1>2. /\ range \in SegmentRange /\ OneBucket(range) /\ b \in Buckets /\ i.host \in Nodes
  BY <1>1, ForwardedIs
<1>3. /\ fetching' = fetching \ {f}
      /\ store' = [store EXCEPT ![i.host][b] = @ \cup {s}]
      /\ fetchedCount' = [fetchedCount EXCEPT ![i] = @ + 1]
      /\ inserted' = IF FetchedAll(i) THEN inserted \cup {data} ELSE inserted
      /\ UNCHANGED <<commandVars, replicaCount, replicating, lostCopies, restarted>>
  BY <1>1 DEF FetchSuccess, Put
<1> HIDE DEF i, s, b, data
<1>4. fetchedCount'[i] = fetchedCount[i] + 1 /\ DOMAIN fetchedCount' = DOMAIN fetchedCount
      /\ \A j \in DOMAIN fetchedCount \ {i} : fetchedCount'[j] = fetchedCount[j]
  BY <1>1, <1>3
<1>5. /\ store' \in [Nodes -> [Buckets -> SUBSET Segments]]
      /\ \A n \in Nodes, k \in Buckets :
           store'[n][k] = IF n = i.host /\ k = b THEN store[n][k] \cup {s} ELSE store[n][k]
  BY <1>1, <1>2, <1>3 DEF StoreInv
<1>6. HadStays /\ Had(i.host, b, s)'
  BY <1>2, <1>3, <1>5 DEF HadStays, Had
<1>7. StoreInv'
  <2>1. IdFromName(s) = b
    BY <1>1, <1>2 DEF OneBucket, b
  <2>2. ASSUME NEW n \in Nodes, NEW k \in Buckets, NEW t \in store'[n][k]
        PROVE  IdFromName(t) = k
    <3>1. t \in store[n][k] \/ (k = b /\ t = s)
      BY <1>5
    <3>2. ASSUME t \in store[n][k]
          PROVE  IdFromName(t) = k
      BY <3>2 DEF StoreInv, StoredWhereItHashes
    <3> QED
      BY <2>1, <3>1, <3>2
  <2> QED
    BY <1>3, <1>5, <2>2 DEF StoreInv, StoredWhereItHashes
<1>8. Forwarded' = Forwarded
  BY <1>3 DEF Forwarded
<1>9. SentInv'
  BY <1>3, <1>4, <1>8 DEF SentInv, commandVars
<1>10. Todo(i)' = Todo(i) \ {s} /\ s \in Todo(i)
  BY <1>1, <1>3 DEF Todo, i, s
<1>11. FetchInv'
  <2>1. ASSUME NEW j \in DOMAIN fetchedCount, j # i
        PROVE  Todo(j)' = Todo(j)
    BY <1>1, <1>3, <2>1 DEF Todo
  <2>2. ASSUME NEW j \in DOMAIN fetchedCount
        PROVE  j.host \in Nodes /\ BucketOf(j.command.range) \in Buckets
    BY ForwardedIs DEF SentInv
  <2>3. ASSUME NEW j \in DOMAIN fetchedCount, j # i
        PROVE  /\ fetchedCount'[j] \in Nat
               /\ fetchedCount'[j] + Cardinality(Todo(j)') <= Size(j.command.range)
               /\ NoneMissing(j)' =>
                    \A t \in SegmentsOf(j.command.range) :
                      t \in Todo(j)' \/ Had(j.host, BucketOf(j.command.range), t)'
    BY <1>4, <1>6, <2>1, <2>2, <2>3 DEF FetchInv, NoneMissing, HadStays
  <2>4. /\ fetchedCount'[i] \in Nat
        /\ fetchedCount'[i] + Cardinality(Todo(i)') <= Size(range)
        /\ fetchedCount'[i] + Cardinality(Todo(i)') = fetchedCount[i] + Cardinality(Todo(i))
    <3>1. Cardinality(Todo(i)') = Cardinality(Todo(i)) - 1 /\ Cardinality(Todo(i)) \in Nat
      BY <1>2, <1>10, TodoFinite, FS_RemoveElement DEF i
    <3>2. fetchedCount[i] \in Nat /\ fetchedCount[i] + Cardinality(Todo(i)) <= Size(range)
      BY <1>1 DEF FetchInv, i
    <3>3. Size(range) \in Nat
      BY <1>2, RangeSize
    <3> HIDE DEF range
    <3> QED
      BY <1>4, <3>1, <3>2, <3>3
  <2>5. ASSUME NoneMissing(i)', NEW t \in SegmentsOf(range)
        PROVE  t \in Todo(i)' \/ Had(i.host, b, t)'
    <3>1. NoneMissing(i)
      BY <2>4, <2>5 DEF NoneMissing, i
    <3>2. t \in Todo(i) \/ Had(i.host, b, t)
      BY <1>1, <3>1 DEF FetchInv, i, b
    <3> QED
      BY <1>2, <1>6, <1>10, <3>2 DEF HadStays
  <2> QED
    BY <1>4, <2>3, <2>4, <2>5 DEF FetchInv, i, b
<1>12. InsertedInv'
  <2>1. ASSUME FetchedAll(i)
        PROVE  \A t \in SegmentsOf(range) : Had(i.host, b, t)'
    <3>1. fetchedCount'[i] = Size(range) /\ Size(range) \in Nat
      BY <1>2, <2>1, RangeSize DEF FetchedAll, i
    <3>2. IsFiniteSet(Todo(i)') /\ Cardinality(Todo(i)') \in Nat
      BY <1>2, <1>10, TodoFinite, FS_Subset, FS_CardinalityType DEF i
    <3>3. /\ fetchedCount'[i] + Cardinality(Todo(i)') <= Size(range)
          /\ NoneMissing(i)' =>
               \A t \in SegmentsOf(range) : t \in Todo(i)' \/ Had(i.host, b, t)'
      BY <1>1, <1>4, <1>11 DEF FetchInv, i, b
    <3>4. Cardinality(Todo(i)') = 0
      <4> HIDE DEF range
      <4> QED
        BY <3>1, <3>2, <3>3
    <3>5. Todo(i)' = {}
      BY <3>2, <3>4, FS_EmptySet
    <3>6. NoneMissing(i)'
      BY <3>1, <3>4 DEF NoneMissing, i
    <3> QED
      BY <3>3, <3>5, <3>6
  <2>2. \A d \in inserted : \A t \in SegmentsOf(d.range) : Had(d.host, BucketOf(d.range), t)'
    BY <1>6, InsertedStays
  <2>3. data \in [range : SegmentRange, host : Nodes] /\ data.range = range /\ data.host = i.host
    BY <1>2 DEF data
  <2> QED
    BY <1>3, <2>1, <2>2, <2>3 DEF InsertedInv, b
<1>13. CountInv'
  <2>1. ASSUME NEW c \in DOMAIN replicaCount
        PROVE  replicaCount[c] \in Nat /\ replicaCount[c] <= Cardinality(Answered(c)')
    <3>1. c.range \in SegmentRange
      BY CommandIs DEF SentInv
    <3>2. inserted \subseteq inserted'
      BY <1>3
    <3>3. Answered(c) \subseteq Answered(c)'
      BY <1>3, <3>2 DEF Answered
    <3>4. /\ Cardinality(Answered(c)) <= Cardinality(Answered(c)')
          /\ Cardinality(Answered(c)) \in Nat /\ Cardinality(Answered(c)') \in Nat
      BY <3>1, <3>3, AnsweredFinite, FS_Subset
    <3> QED
      BY <3>4 DEF CountInv
  <2> QED
    BY <1>3, <2>1 DEF CountInv
<1> QED
  BY <1>6, <1>7, <1>9, <1>11, <1>12, <1>13

(* The Data of a host arrives: the host is counted, and was not before,    *)
(* since each host is waited for until its first answer only.              *)
LEMMA ReplicaInsertedKeepsWorkers ==
  ASSUME ClientInv, WorkersInv, NEW i \in replicating, ReplicaInserted(i)
  PROVE  WorkersInv'
<1> USE DEF WorkersInv
<1> DEFINE c == i.command
           data == [range |-> c.range, host |-> i.host]
<1>1. /\ i \in Forwarded /\ i = [command |-> c, host |-> i.host]
      /\ c \in DOMAIN replicaCount /\ c.range \in SegmentRange
      /\ i.host \in ConfirmedHosts[BucketOf(c.range)]
  BY ForwardedIs DEF SentInv
<1>2. /\ data \in inserted
      /\ replicating' = replicating \ {i}
      /\ replicaCount' = [replicaCount EXCEPT ![c] = @ + 1]
      /\ UNCHANGED <<commands, fetchedCount, fetching, inserted, store, lostCopies, restarted>>
  BY DEF ReplicaInserted
<1> HIDE DEF c, data
<1>3. /\ DOMAIN replicaCount' = DOMAIN replicaCount /\ replicaCount'[c] = replicaCount[c] + 1
      /\ \A d \in DOMAIN replicaCount \ {c} : replicaCount'[d] = replicaCount[d]
  BY <1>1, <1>2
<1>4. SentInv'
  BY <1>2, <1>3 DEF SentInv, Forwarded
<1>5. StoreInv' /\ InsertedInv' /\ FetchInv'
  BY <1>2, UnchangedHad, UnchangedFetches
<1>6. CountInv'
  <2>1. ASSUME NEW d \in DOMAIN replicaCount, d # c
        PROVE  Answered(d)' = Answered(d)
    <3>1. \A n : [command |-> d, host |-> n] # i
      BY <1>1, <2>1
    <3> QED
      BY <1>2, <3>1 DEF Answered
  <2>2. Answered(c)' = Answered(c) \cup {i.host} /\ i.host \notin Answered(c)
    <3>1. \A n : [command |-> c, host |-> n] = i <=> n = i.host
      BY <1>1
    <3> QED
      BY <1>1, <1>2, <3>1 DEF Answered, data
  <2>3. IsFiniteSet(Answered(c)) /\ Cardinality(Answered(c)) \in Nat
    BY <1>1, AnsweredFinite
  <2>4. Cardinality(Answered(c)') = Cardinality(Answered(c)) + 1
    BY <2>2, <2>3, FS_AddElement
  <2>5. replicaCount'[c] \in Nat /\ replicaCount'[c] <= Cardinality(Answered(c)')
    BY <1>1, <1>3, <2>3, <2>4 DEF CountInv
  <2> QED
    BY <1>3, <2>1, <2>5 DEF CountInv
<1> QED
  BY <1>4, <1>5, <1>6

(* When enough hosts have been counted, the range is replicated.           *)
LEMMA CountedIsReplicated ==
  ASSUME ClientInv, WorkersInv, NEW i \in replicating, ReplicaInserted(i),
         AllReplicas(i.command),
         NEW s \in SegmentsOf(i.command.range)
  PROVE  Replicated(s)
<1> USE DEF WorkersInv
<1> DEFINE c   == i.command
           b   == IdFromName(s)
           Old == {n \in ConfirmedHosts[b] : Had(n, b, s)}
<1>1. c \in DOMAIN replicaCount /\ c.range \in SegmentRange /\ OneBucket(c.range)
  BY ForwardedIs DEF SentInv
<1>2. BucketOf(c.range) = b
  BY <1>1 DEF OneBucket
<1>3. DOMAIN replicaCount' = DOMAIN replicaCount /\ inserted' = inserted
  BY DEF ReplicaInserted
<1>4. Answered(c)' \subseteq Old
  <2>1. ASSUME NEW n \in Answered(c)'
        PROVE  n \in ConfirmedHosts[b] /\ Had(n, b, s)
    <3> DEFINE d == [range |-> c.range, host |-> n]
    <3>1. d \in inserted /\ n \in ConfirmedHosts[b]
      BY <1>2, <1>3 DEF Answered
    <3>2. Had(d.host, BucketOf(d.range), s)
      BY <3>1 DEF InsertedInv
    <3> QED
      BY <1>2, <3>1, <3>2
  <2> QED
    BY <2>1
<1>5. IsFiniteSet(Old)
  BY <1>1, <1>2, BucketOfRange, FS_Subset
<1>6. replicaCount'[c] >= NumReplica
  BY DEF AllReplicas
<1>7. replicaCount'[c] \in Nat /\ replicaCount'[c] <= Cardinality(Answered(c)')
  <2>1. CountInv'
    BY ReplicaInsertedKeepsWorkers
  <2> QED
    BY <1>1, <1>3, <2>1 DEF CountInv
<1> HIDE DEF Old, c
<1>8. /\ Cardinality(Answered(c)') <= Cardinality(Old)
      /\ Cardinality(Answered(c)') \in Nat /\ Cardinality(Old) \in Nat
  BY <1>1, <1>4, <1>5, AnsweredFinite, FS_Subset, FS_CardinalityType
<1>9. Cardinality(Old) >= NumReplica
  BY <1>6, <1>7, <1>8, HostsAssumption
<1> QED
  BY <1>9, ReplicatedIs DEF Old

(* A node restarts with empty stores and waits for no segment.             *)
LEMMA NodeRestartKeepsWorkers ==
  ASSUME ClientInv, WorkersInv, NEW n \in Nodes, NodeRestart(n)
  PROVE  WorkersInv' /\ HadStays
<1> USE DEF WorkersInv
<1>1. /\ restarted' = restarted \cup {n}
      /\ store' = [store EXCEPT ![n] = NewStores]
      /\ lostCopies' = [lostCopies EXCEPT ![n] =
                          [b \in Buckets |-> lostCopies[n][b] \cup store[n][b]]]
      /\ fetching' = {f \in fetching : f.insert.host # n}
      /\ UNCHANGED <<commandVars, replicaCount, replicating, fetchedCount, inserted>>
  BY DEF NodeRestart
<1>2. /\ store' \in [Nodes -> [Buckets -> SUBSET Segments]]
      /\ \A m \in Nodes \ {n} : store'[m] = store[m]
      /\ \A b \in Buckets : store'[n][b] = {}
      /\ lostCopies' \in [Nodes -> [Buckets -> SUBSET Segments]]
      /\ \A m \in Nodes \ {n} : lostCopies'[m] = lostCopies[m]
      /\ \A b \in Buckets : lostCopies'[n][b] = lostCopies[n][b] \cup store[n][b]
  BY <1>1 DEF StoreInv, NewStores
<1>3. HadStays
  BY <1>2 DEF HadStays, Had
<1>4. StoreInv'
  BY <1>1, <1>2 DEF StoreInv, StoredWhereItHashes
<1>5. SentInv'
  BY <1>1 DEF SentInv, Forwarded, commandVars
<1>6. FetchInv'
  <2>1. ASSUME NEW i \in DOMAIN fetchedCount
        PROVE  /\ fetchedCount[i] \in Nat
               /\ fetchedCount[i] + Cardinality(Todo(i)') <= Size(i.command.range)
               /\ NoneMissing(i)' =>
                    \A s \in SegmentsOf(i.command.range) :
                      s \in Todo(i)' \/ Had(i.host, BucketOf(i.command.range), s)'
    <3>1. /\ i.host \in Nodes /\ BucketOf(i.command.range) \in Buckets
          /\ i.command.range \in SegmentRange
      BY ForwardedIs DEF SentInv
    <3>2. CASE i.host # n
      <4>1. Todo(i)' = Todo(i)
        BY <1>1, <3>2 DEF Todo
      <4> QED
        BY <1>1, <1>3, <3>1, <4>1 DEF FetchInv, NoneMissing, HadStays
    <3>3. CASE i.host = n
      <4>1. Todo(i)' = {}
        BY <1>1, <3>3 DEF Todo
      <4>2. Cardinality(Todo(i)') = 0
        BY <4>1, FS_EmptySet
      <4>3. Cardinality(Todo(i)) \in Nat /\ Size(i.command.range) \in Nat
        BY <3>1, TodoFinite, RangeSize
      <4>4. /\ fetchedCount[i] \in Nat
            /\ fetchedCount[i] + Cardinality(Todo(i)) <= Size(i.command.range)
        BY DEF FetchInv
      <4>5. ASSUME NoneMissing(i)', NEW s \in SegmentsOf(i.command.range)
            PROVE  Had(i.host, BucketOf(i.command.range), s)'
        <5>1. fetchedCount[i] = Size(i.command.range)
          BY <1>1, <4>2, <4>4, <4>5 DEF NoneMissing
        <5>2. Cardinality(Todo(i)) = 0 /\ NoneMissing(i)
          BY <4>3, <4>4, <5>1 DEF NoneMissing
        <5>3. s \notin Todo(i)
          BY <3>1, <5>2, TodoFinite, FS_EmptySet
        <5> QED
          BY <1>3, <3>1, <5>2, <5>3 DEF FetchInv, HadStays
      <4> QED
        BY <4>2, <4>3, <4>4, <4>5
    <3> QED
      BY <3>2, <3>3
  <2> QED
    BY <1>1, <2>1 DEF FetchInv
<1>7. InsertedInv'
  BY <1>1, <1>3, InsertedStays DEF InsertedInv
<1>8. CountInv'
  BY <1>1, UnchangedCounts
<1> QED
  BY <1>3, <1>4, <1>5, <1>6, <1>7, <1>8

-----------------------------------------------------------------------------
(* Nothing is stored or under way at first.                                *)
LEMMA InitIInv == Init => IInv
<1> SUFFICES ASSUME Init PROVE IInv
  OBVIOUS
<1> USE DEF Init
<1>1. ClientInv
  BY ClientInitBooks
<1>2. /\ replicaCount = << >> /\ DOMAIN replicaCount = {} /\ replicating = {}
      /\ fetchedCount = << >> /\ DOMAIN fetchedCount = {} /\ fetching = {}
      /\ inserted = {} /\ restarted = {} /\ replies = {}
  BY DEF WorkerInit, CommandsInit
<1>3. StoreInv
  BY <1>2 DEF WorkerInit, NewStores, StoreInv, StoredWhereItHashes
<1>4. SentInv /\ FetchInv /\ InsertedInv /\ CountInv /\ ReplyMeansReplicated
  BY <1>2 DEF SentInv, FetchInv, InsertedInv, CountInv, ReplyMeansReplicated
<1> QED
  BY <1>1, <1>3, <1>4 DEF IInv, WorkersInv

(* What a worker's step does to the client's books and to the replies: it  *)
(* leaves them alone, or replies to a command whose range is replicated.   *)
LEMMA WorkerSteps ==
  ASSUME IInv, WorkerNext, UNCHANGED clientVars
  PROVE  /\ WorkersInv' /\ HadStays /\ commands' = commands
         /\ \/ replies' = replies
            \/ \E c \in commands : /\ replies' = replies \cup {c.range}
                                   /\ \A s \in SegmentsOf(c.range) : Replicated(s)
                                   /\ UNCHANGED <<store, lostCopies, restarted>>
<1> USE DEF IInv
<1>1. ASSUME NEW c \in commands, Insert(c)
      PROVE  /\ WorkersInv' /\ HadStays /\ commands' = commands /\ replies' = replies
  BY <1>1, InsertKeepsWorkers, UnchangedHad DEF Insert, commandVars
<1>2. ASSUME NEW i \in Forwarded, InsertNoReplicateRange(i)
      PROVE  /\ WorkersInv' /\ HadStays /\ commands' = commands /\ replies' = replies
  BY <1>2, InsertNoReplicateKeepsWorkers, UnchangedHad DEF InsertNoReplicateRange, commandVars
<1>3. ASSUME NEW f \in fetching, FetchSuccess(f.insert, f.segment)
      PROVE  /\ WorkersInv' /\ HadStays /\ commands' = commands /\ replies' = replies
  BY <1>3, FetchSuccessKeepsWorkers DEF FetchSuccess, commandVars
<1>4. ASSUME NEW n \in Nodes, NodeRestart(n)
      PROVE  /\ WorkersInv' /\ HadStays /\ commands' = commands /\ replies' = replies
  BY <1>4, NodeRestartKeepsWorkers DEF NodeRestart, commandVars
<1>5. ASSUME NEW i \in replicating, ReplicaInserted(i)
      PROVE  /\ WorkersInv' /\ HadStays /\ commands' = commands
             /\ \/ replies' = replies
                \/ \E c \in commands : /\ replies' = replies \cup {c.range}
                                       /\ \A s \in SegmentsOf(c.range) : Replicated(s)
                                       /\ UNCHANGED <<store, lostCopies, restarted>>
  <2> DEFINE c == i.command
  <2>1. WorkersInv'
    BY <1>5, ReplicaInsertedKeepsWorkers
  <2>2. UNCHANGED <<commands, store, lostCopies, restarted>>
    BY <1>5 DEF ReplicaInserted
  <2>3. HadStays
    BY <2>2, UnchangedHad
  <2>4. c \in DOMAIN replicaCount /\ c \in commands
    BY ForwardedIs DEF WorkersInv, SentInv
  <2>5. CASE AllReplicas(c)
    <3>1. replies' = replies \cup {c.range}
      BY <1>5, <2>5 DEF ReplicaInserted
    <3>2. \A s \in SegmentsOf(c.range) : Replicated(s)
      BY <1>5, <2>5, CountedIsReplicated
    <3> QED
      BY <2>1, <2>2, <2>3, <2>4, <3>1, <3>2
  <2>6. CASE ~AllReplicas(c)
    BY <1>5, <2>1, <2>2, <2>3, <2>6 DEF ReplicaInserted
  <2> QED
    BY <2>5, <2>6
<1> QED
  BY <1>1, <1>2, <1>3, <1>4, <1>5 DEF WorkerNext, WorkerProgress, Forwarded

(* The inductive invariant.                                                *)
LEMMA NextIInv == IInv /\ [Next]_vars => IInv'
<1> SUFFICES ASSUME IInv, [Next]_vars PROVE IInv'
  OBVIOUS
<1> USE DEF IInv
<1>1. CASE ClientNext /\ UNCHANGED workerVars
  <2>1. ClientInv'
    BY <1>1, ClientBooks
  <2>2. commands \subseteq commands' /\ replies' = replies
    BY <1>1, ClientCommands
  <2>3. WorkersInv'
    BY <1>1, <2>2, ClientKeepsWorkers
  <2>4. ReplyMeansReplicated'
    BY <1>1, <2>2, UnchangedHad DEF workerVars, ReplyMeansReplicated
  <2> QED
    BY <2>1, <2>3, <2>4
<1>2. CASE WorkerNext /\ UNCHANGED clientVars
  <2>1. WorkersInv' /\ HadStays /\ commands' = commands
    BY <1>2, WorkerSteps
  <2>2. \A r \in replies : \A s \in SegmentsOf(r) : Replicated(s)'
    BY <2>1, RepliesStay
  <2>3. CASE replies' = replies
    <3>1. ClientInv'
      BY <1>2, <2>1, <2>3, ClientUnchanged DEF commandVars
    <3>2. ReplyMeansReplicated'
      BY <2>2, <2>3 DEF ReplyMeansReplicated
    <3> QED
      BY <2>1, <3>1, <3>2
  <2>4. ASSUME NEW c \in commands, replies' = replies \cup {c.range},
               \A s \in SegmentsOf(c.range) : Replicated(s),
               UNCHANGED <<store, lostCopies, restarted>>
        PROVE  IInv'
    <3>1. ClientInv'
      BY <1>2, <2>1, <2>4, ClientReplied
    <3>2. \A s \in SegmentsOf(c.range) : Replicated(s)'
      BY <2>4, UnchangedHad
    <3>3. ReplyMeansReplicated'
      BY <2>2, <2>4, <3>2 DEF ReplyMeansReplicated
    <3> QED
      BY <2>1, <3>1, <3>3
  <2> QED
    BY <1>2, <2>3, <2>4, WorkerSteps
<1>3. CASE UNCHANGED vars
  <2>1. ClientInv'
    BY <1>3, ClientUnchanged DEF vars
  <2>2. WorkersInv'
    BY <1>3, ClientKeepsWorkers DEF vars, commandVars
  <2>3. ReplyMeansReplicated'
    BY <1>3, UnchangedHad DEF vars, commandVars, workerVars, ReplyMeansReplicated
  <2> QED
    BY <2>1, <2>2, <2>3
<1> QED
  BY <1>1, <1>2, <1>3 DEF Next

(* The inductive invariant holds of client and workers, for all values of  *)
(* the constants: the counts of worker.cpp and client.cpp never run ahead  *)
(* of what they count.                                                     *)
THEOREM Invariance == Spec => []IInv
BY InitIInv, NextIInv, PTL DEF Spec

(* insert() answers the client only when NUM_REPLICA hosts have stored all *)
(* segments of the range, through retries, late answers and restarts.      *)
THEOREM ReplyMeansReplicatedHolds == Spec => []ReplyMeansReplicated
<1>1. IInv => ReplyMeansReplicated
  BY DEF IInv
<1> QED
  BY <1>1, Invariance, PTL

(* The counters of insertStore() and its callbacks agree with the commands *)
(* that are pending, and stay within the window and one command.           *)
THEOREM PendingIsAwaitedHolds == Spec => []PendingIsAwaited
<1>1. IInv => PendingIsAwaited
  BY DEF IInv, ClientInv, Books, PendingIsAwaited, CommandSegments
<1> QED
  BY <1>1, Invariance, PTL

(* A segment is only stored in the bucket that its own name hashes to,     *)
(* although its command names the bucket of the first of the range.        *)
THEOREM StoredWhereItHashesHolds == Spec => []StoredWhereItHashes
<1>1. IInv => StoredWhereItHashes
  BY DEF IInv, WorkersInv, StoreInv
<1> QED
  BY <1>1, Invariance, PTL

(* The client shuts its face down only when all segments are replicated:   *)
(* what it has counted are that many different segments, which are all.    *)
LEMMA FinishedIsReplicated == IInv => FinishedMeansReplicated
<1> SUFFICES ASSUME IInv, Finished, NEW s \in Segments PROVE Replicated(s)
  BY DEF FinishedMeansReplicated
<1> DEFINE rep == RangeSegments(replies)
           new == rep \ CommandSegments(awaiting)
<1>1. rep \subseteq Segments
  <2>1. ASSUME NEW t \in rep
        PROVE  t \in Segments
    <3>1. PICK r \in replies : t \in SegmentsOf(r)
      BY DEF RangeSegments
    <3>2. PICK c \in commands : c.range = r
      BY DEF IInv, ClientInv, Books
    <3>3. r \in SegmentRange
      BY <3>2, CommandIs DEF IInv
    <3> QED
      BY <3>1, <3>3, RangeSize
  <2> QED
    BY <2>1
<1>2. IsFiniteSet(Segments) /\ Cardinality(Segments) = StoreSize
  <2>1. 0 \in Int /\ StoreSize - 1 \in Int
    BY HashAssumption
  <2>2. /\ IsFiniteSet(0 .. StoreSize - 1)
        /\ Cardinality(0 .. StoreSize - 1) =
             IF 0 > StoreSize - 1 THEN 0 ELSE StoreSize - 1 - 0 + 1
    BY <2>1, FS_Interval
  <2> QED
    BY <2>2, HashAssumption DEF Segments
<1>3. StoreSize <= Cardinality(new)
  BY DEF IInv, ClientInv, Books, Finished
<1>4. Cardinality(new) <= Cardinality(Segments) /\ Cardinality(new) \in Nat
      /\ (Cardinality(Segments) = Cardinality(new) => Segments = new)
  <2>1. new \in SUBSET Segments
    BY <1>1
  <2> HIDE DEF new
  <2> QED
    BY <1>2, <2>1, FS_Subset, FS_CardinalityType
<1>5. Segments = new
  <2> HIDE DEF new
  <2> QED
    BY <1>2, <1>3, <1>4, HashAssumption
<1>6. PICK r \in replies : s \in SegmentsOf(r)
  BY <1>5 DEF RangeSegments
<1> QED
  BY <1>6 DEF IInv, ReplyMeansReplicated

(* A client whose done count has reached the size of the file, and that    *)
(* serves it no more, leaves every segment replicated.                     *)
THEOREM FinishedMeansReplicatedHolds == Spec => []FinishedMeansReplicated
BY FinishedIsReplicated, Invariance, PTL

-----------------------------------------------------------------------------
(* The refinement of ReplicatedStore: what the substitutions stand for.    *)
Copies == [s \in Segments |-> {n \in Nodes : s \in store[n][IdFromName(s)]}]

Lost == [s \in Segments |-> {n \in Nodes : s \in lostCopies[n][IdFromName(s)]}]

HostsOfSegments == [s \in Segments |-> ConfirmedHosts[IdFromName(s)]]

(* ReplicatedStore counts as this module does.                             *)
LEMMA SameCardinality ==
  ASSUME NEW S
  PROVE  ReplicatedStore!Cardinality(S) = Cardinality(S)
BY DEF ReplicatedStore!Cardinality, Cardinality

(* No segment has a copy at first, and none is reported.                   *)
LEMMA InitRefines == Init => ReplicatedStore!Init
<1> SUFFICES ASSUME Init PROVE ReplicatedStore!Init
  OBVIOUS
<1>1. /\ replies = {} /\ store = [n \in Nodes |-> NewStores]
      /\ lostCopies = [n \in Nodes |-> NewStores]
  BY DEF Init, CommandsInit, WorkerInit
<1>2. Copies = [s \in Segments |-> {}] /\ Lost = [s \in Segments |-> {}]
  BY <1>1, HashesToBucket DEF Copies, Lost, NewStores
<1> QED
  BY <1>1, <1>2 DEF ReplicatedStore!Init, Copies, Lost

(* A segment that arrives becomes a copy at a host of its bucket.          *)
LEMMA FetchIsCopy ==
  ASSUME IInv, NEW f \in fetching, FetchSuccess(f.insert, f.segment)
  PROVE  /\ f.insert.host \in HostsOfSegments[f.segment]
         /\ ReplicatedStore!Copy(f.segment, f.insert.host)
<1> DEFINE i == f.insert
           s == f.segment
           b == BucketOf(i.command.range)
<1> USE DEF IInv, WorkersInv
<1>1. /\ i \in Forwarded /\ s \in Segments /\ s \in SegmentsOf(i.command.range)
  BY FetchIs
<1>2. /\ OneBucket(i.command.range) /\ b \in Buckets
      /\ i.host \in ConfirmedHosts[b] /\ i.host \in Nodes
  BY <1>1, ForwardedIs
<1>3. IdFromName(s) = b
  BY <1>1, <1>2 DEF OneBucket
<1>4. /\ store' = [store EXCEPT ![i.host][b] = @ \cup {s}]
      /\ UNCHANGED <<replies, lostCopies, restarted>>
  BY DEF FetchSuccess, Put, commandVars
<1> HIDE DEF i, s, b
<1>5. \A n \in Nodes, k \in Buckets :
        store'[n][k] = IF n = i.host /\ k = b THEN store[n][k] \cup {s} ELSE store[n][k]
  BY <1>2, <1>4 DEF StoreInv
<1>6. Copies' = [Copies EXCEPT ![s] = @ \cup {i.host}]
  <2> DEFINE Old(t) == {n \in Nodes : t \in store[n][IdFromName(t)]}
             New(t) == {n \in Nodes : t \in store'[n][IdFromName(t)]}
  <2>1. ASSUME NEW t \in Segments, t # s
        PROVE  New(t) = Old(t)
    <3>1. \A n \in Nodes : t \in store'[n][IdFromName(t)] <=> t \in store[n][IdFromName(t)]
      BY <1>5, <2>1, HashesToBucket
    <3> QED
      BY <3>1
  <2>2. New(s) = Old(s) \cup {i.host}
    <3>1. \A n \in Nodes : s \in store'[n][IdFromName(s)]
                             <=> s \in store[n][IdFromName(s)] \/ n = i.host
      BY <1>2, <1>3, <1>5
    <3> QED
      BY <1>2, <3>1
  <2>3. Copies = [t \in Segments |-> Old(t)] /\ Copies' = [t \in Segments |-> New(t)]
    BY DEF Copies
  <2> HIDE DEF Old, New
  <2> QED
    BY <1>1, <2>1, <2>2, <2>3
<1>7. Lost' = Lost
  BY <1>4 DEF Lost
<1>8. i.host \in HostsOfSegments[s]
  BY <1>1, <1>2, <1>3 DEF HostsOfSegments, i
<1>9. ReplicatedStore!Copy(s, i.host)
  BY <1>4, <1>6, <1>7 DEF ReplicatedStore!Copy, Copies, Lost, s
<1> QED
  BY <1>8, <1>9 DEF i, s

(* A reply reports all segments of a range, which are replicated.          *)
LEMMA ReplyIsReport ==
  ASSUME IInv, NEW c \in commands, replies' = replies \cup {c.range},
         \A s \in SegmentsOf(c.range) : Replicated(s),
         UNCHANGED <<store, lostCopies, restarted>>
  PROVE  ReplicatedStore!Report(SegmentsOf(c.range))
<1>1. SegmentsOf(c.range) \subseteq Segments
  BY CommandIs, RangeSize DEF IInv
<1>2. Copies' = Copies /\ Lost' = Lost
  BY DEF Copies, Lost
<1>3. UNION {SegmentsOf(r) : r \in replies'}
        = (UNION {SegmentsOf(r) : r \in replies}) \cup SegmentsOf(c.range)
  OBVIOUS
<1>4. ASSUME NEW s \in SegmentsOf(c.range)
      PROVE  Cardinality(Copies[s] \cup Lost[s]) >= NumReplica
  <2> DEFINE b   == IdFromName(s)
             Old == {n \in ConfirmedHosts[b] : Had(n, b, s)}
             All == Copies[s] \cup Lost[s]
  <2>1. b \in Buckets /\ ConfirmedHosts[b] \subseteq Nodes /\ s \in Segments
    BY <1>1, HashesToBucket, HostsAssumption
  <2>2. Old \subseteq All /\ All \subseteq Nodes
    BY <2>1 DEF Copies, Lost, Had
  <2>3. Cardinality(Old) >= NumReplica
    BY DEF Replicated
  <2> HIDE DEF Old, All
  <2>4. IsFiniteSet(All)
    BY <2>2, HostsAssumption, FS_Subset
  <2>5. /\ Cardinality(Old) <= Cardinality(All)
        /\ Cardinality(Old) \in Nat /\ Cardinality(All) \in Nat
    BY <2>2, <2>4, FS_Subset, FS_CardinalityType
  <2>6. Cardinality(All) >= NumReplica
    BY <2>3, <2>5, HostsAssumption
  <2> QED
    BY <2>6 DEF All
<1> QED
  BY <1>2, <1>3, <1>4, SameCardinality, Zenon DEF ReplicatedStore!Report, Copies, Lost

(* A node that restarts loses its copies and no other does.                *)
LEMMA RestartIsRestart ==
  ASSUME IInv, NEW n \in Nodes, NodeRestart(n)
  PROVE  ReplicatedStore!Restart(n)
<1>1. /\ store' = [store EXCEPT ![n] = NewStores]
      /\ lostCopies' = [lostCopies EXCEPT ![n] =
                          [b \in Buckets |-> lostCopies[n][b] \cup store[n][b]]]
      /\ replies' = replies
  BY DEF NodeRestart, commandVars
<1>2. \A m \in Nodes, b \in Buckets :
        /\ store'[m][b] = IF m = n THEN {} ELSE store[m][b]
        /\ lostCopies'[m][b] = IF m = n THEN lostCopies[n][b] \cup store[n][b]
                                        ELSE lostCopies[m][b]
  BY <1>1 DEF IInv, WorkersInv, StoreInv, NewStores
<1>3. ASSUME NEW s \in Segments
      PROVE  {m \in Nodes : s \in store'[m][IdFromName(s)]}
               = {m \in Nodes : s \in store[m][IdFromName(s)]} \ {n}
  BY <1>2, HashesToBucket
<1>4. Copies' = [s \in Segments |-> Copies[s] \ {n}]
  BY <1>3 DEF Copies
<1>5. ASSUME NEW s \in Segments
      PROVE  Lost'[s] = IF n \in Copies[s] THEN Lost[s] \cup {n} ELSE Lost[s]
  <2>1. \A m \in Nodes :
          s \in lostCopies'[m][IdFromName(s)]
            <=> \/ s \in lostCopies[m][IdFromName(s)]
                \/ m = n /\ s \in store[n][IdFromName(s)]
    BY <1>2, HashesToBucket
  <2>2. n \in Copies[s] <=> s \in store[n][IdFromName(s)]
    BY DEF Copies
  <2>3. /\ Lost'[s] = {m \in Nodes : s \in lostCopies'[m][IdFromName(s)]}
        /\ Lost[s] = {m \in Nodes : s \in lostCopies[m][IdFromName(s)]}
    BY DEF Lost
  <2> QED
    BY <2>1, <2>2, <2>3
<1>6. Lost' = [s \in Segments |-> IF n \in Copies[s] THEN Lost[s] \cup {n} ELSE Lost[s]]
  BY <1>5 DEF Lost
<1> QED
  BY <1>1, <1>4, <1>6 DEF ReplicatedStore!Restart, Copies, Lost

(* Every other step leaves the replicated store as it is.                  *)
LEMMA NextRefines ==
  IInv /\ [Next]_vars => [ReplicatedStore!Next]_(ReplicatedStore!vars)
<1> SUFFICES ASSUME IInv, [Next]_vars PROVE [ReplicatedStore!Next]_(ReplicatedStore!vars)
  OBVIOUS
<1>1. ASSUME UNCHANGED <<store, lostCopies, restarted, replies>>
      PROVE  UNCHANGED ReplicatedStore!vars
  BY <1>1 DEF ReplicatedStore!vars
<1>2. CASE ClientNext /\ UNCHANGED workerVars
  BY <1>1, <1>2, ClientCommands DEF workerVars
<1>3. CASE WorkerNext /\ UNCHANGED clientVars
  <2>1. ASSUME NEW c \in commands, Insert(c)
        PROVE  UNCHANGED ReplicatedStore!vars
    BY <1>1, <2>1 DEF Insert, commandVars
  <2>2. ASSUME NEW i, InsertNoReplicateRange(i)
        PROVE  UNCHANGED ReplicatedStore!vars
    BY <1>1, <2>2 DEF InsertNoReplicateRange, commandVars
  <2>3. ASSUME NEW f \in fetching, FetchSuccess(f.insert, f.segment)
        PROVE  ReplicatedStore!Next
    <3>1. f.segment \in Segments
      BY FetchIs DEF IInv, WorkersInv
    <3> QED
      BY <2>3, <3>1, FetchIsCopy, Zenon DEF ReplicatedStore!Next, HostsOfSegments
  <2>4. ASSUME NEW i \in replicating, ReplicaInserted(i)
        PROVE  ReplicatedStore!Next \/ UNCHANGED ReplicatedStore!vars
    <3>1. UNCHANGED <<store, lostCopies, restarted>>
      BY <2>4 DEF ReplicaInserted
    <3>2. CASE replies' = replies
      BY <1>1, <3>1, <3>2
    <3>3. ASSUME NEW c \in commands, replies' = replies \cup {c.range},
                 \A s \in SegmentsOf(c.range) : Replicated(s)
          PROVE  ReplicatedStore!Next
      <4>1. SegmentsOf(c.range) \in SUBSET Segments
        BY CommandIs, RangeSize DEF IInv
      <4> QED
        BY <3>1, <3>3, <4>1, ReplyIsReport DEF ReplicatedStore!Next
    <3> QED
      BY <1>3, <3>2, <3>3, WorkerSteps
  <2>5. ASSUME NEW n \in Nodes, NodeRestart(n)
        PROVE  ReplicatedStore!Next
    BY <2>5, RestartIsRestart DEF ReplicatedStore!Next
  <2> QED
    BY <1>3, <2>1, <2>2, <2>3, <2>4, <2>5 DEF WorkerNext, WorkerProgress
<1>4. CASE UNCHANGED vars
  BY <1>1, <1>4 DEF vars, workerVars, commandVars
<1> QED
  BY <1>2, <1>3, <1>4 DEF Next

(* Client and workers implement the store that reports a segment only when *)
(* it is replicated, and loses copies by restarts only.                    *)
THEOREM ImplementsStoreHolds == Spec => ImplementsStore
BY InitRefines, NextRefines, Invariance, PTL
DEF Spec, ImplementsStore, ReplicatedStore!Spec, ReplicatedStore!vars

-----------------------------------------------------------------------------
(* The types of all variables: what the invariant leaves open is how often *)
(* a command was expressed.                                                *)

(* All earlier attempts of a command were expressed, too.                  *)
AttemptsInv ==
  /\ IsFiniteSet(commands)
  /\ \A c \in commands :
       /\ c.attempt \in 1 .. MaxRetries + 1
       /\ \A a \in 1 .. c.attempt : [range |-> c.range, attempt |-> a] \in commands

(* The loop of insertStore() makes finitely many commands, all of them     *)
(* first attempts.                                                         *)
LEMMA NewAttempts ==
  ASSUME NEW pend, NEW still, AttemptsInv, InsertStore(pend, still)
  PROVE  AttemptsInv'
<1> DEFINE Q   == {q \in PackStarts(pointer) : pend + (q - pointer) < WindowSize}
           new == [range : Packs(pointer, pend), attempt : {1}]
           f   == [q \in Q |-> [range |-> Pack(q), attempt |-> 1]]
<1>1. commands' = commands \cup new
  BY DEF InsertStore
<1>2. IsFiniteSet(Q)
  <2>1. Q \subseteq Segments
    BY DEF PackStarts
  <2> HIDE DEF Q
  <2> QED
    BY <2>1, SegmentsFinite
<1>3. new = {[range |-> Pack(q), attempt |-> 1] : q \in Q}
  <2>1. Packs(pointer, pend) = {Pack(q) : q \in Q}
    BY DEF Packs
  <2> HIDE DEF Q
  <2>2. ASSUME NEW c \in new
        PROVE  \E q \in Q : c = [range |-> Pack(q), attempt |-> 1]
    <3>1. PICK q \in Q : c.range = Pack(q)
      BY <2>1
    <3> QED
      BY <3>1
  <2>3. ASSUME NEW q \in Q
        PROVE  [range |-> Pack(q), attempt |-> 1] \in new
    BY <2>1
  <2> HIDE DEF new
  <2> QED
    BY <2>2, <2>3
<1>4. f \in Surjection(Q, new)
  BY <1>3 DEF Surjection
<1>5. IsFiniteSet(new)
  BY <1>2, <1>4, FS_Surjection
<1>6. IsFiniteSet(commands')
  BY <1>1, <1>5, FS_Union DEF AttemptsInv
<1>7. ASSUME NEW c \in new
      PROVE  /\ c.attempt \in 1 .. MaxRetries + 1
             /\ \A a \in 1 .. c.attempt : [range |-> c.range, attempt |-> a] \in new
  <2>1. c.attempt = 1 /\ c.range \in Packs(pointer, pend)
    OBVIOUS
  <2>2. \A a \in 1 .. 1 : a = 1
    OBVIOUS
  <2> QED
    BY <2>1, <2>2, FaultsAssumption
<1> HIDE DEF new
<1> QED
  BY <1>1, <1>6, <1>7 DEF AttemptsInv

(* An attempt that is repeated is one of fewer than MaxRetries.            *)
LEMMA AttemptsFew ==
  ASSUME AttemptsInv, NEW c \in commands,
         Cardinality({d \in commands : d.attempt > 1}) < MaxRetries
  PROVE  c.attempt \in 1 .. MaxRetries
<1> DEFINE Late == {d \in commands : d.attempt > 1}
           f    == [a \in 2 .. c.attempt |-> [range |-> c.range, attempt |-> a]]
<1>1. c.attempt \in 1 .. MaxRetries + 1 /\ MaxRetries \in Nat
  BY FaultsAssumption DEF AttemptsInv
<1>2. IsFiniteSet(Late) /\ Cardinality(Late) \in Nat
  <2>1. Late \subseteq commands /\ IsFiniteSet(commands)
    BY DEF AttemptsInv
  <2> HIDE DEF Late
  <2> QED
    BY <2>1, FS_Subset, FS_CardinalityType
<1>3. ASSUME NEW a \in 2 .. c.attempt
      PROVE  [range |-> c.range, attempt |-> a] \in Late
  <2>1. a \in 1 .. c.attempt /\ a > 1
    BY <1>1
  <2>2. [range |-> c.range, attempt |-> a] \in commands
    BY <2>1 DEF AttemptsInv
  <2> QED
    BY <2>1, <2>2
<1> HIDE DEF Late
<1>4. f \in Injection(2 .. c.attempt, Late)
  <2>1. f \in [2 .. c.attempt -> Late]
    BY <1>3
  <2>2. \A a, b \in 2 .. c.attempt : f[a] = f[b] => a = b
    OBVIOUS
  <2> QED
    BY <2>1, <2>2 DEF Injection, IsInjective
<1>5. Cardinality(2 .. c.attempt) <= Cardinality(Late)
  <2> HIDE DEF f
  <2> QED
    BY <1>2, <1>4, FS_Injection
<1>6. Cardinality(2 .. c.attempt) = IF 2 > c.attempt THEN 0 ELSE c.attempt - 2 + 1
  <2>1. 2 \in Int /\ c.attempt \in Int
    BY <1>1
  <2> QED
    BY <2>1, FS_Interval
<1>7. Cardinality(Late) < MaxRetries
  BY DEF Late
<1> QED
  BY <1>1, <1>2, <1>5, <1>6, <1>7

(* A command is expressed once more.                                       *)
LEMMA RetriedAttempts ==
  ASSUME ClientInv, AttemptsInv, NEW c \in awaiting, InsertTimeout(c)
  PROVE  AttemptsInv'
<1> DEFINE again == [c EXCEPT !.attempt = @ + 1]
<1>1. /\ c \in commands /\ c \in [range : SegmentRange, attempt : Nat]
      /\ commands' = commands \cup {again}
  BY DEF ClientInv, Books, InsertTimeout
<1>2. c.attempt \in 1 .. MaxRetries
  BY <1>1, AttemptsFew DEF InsertTimeout
<1>3. /\ again.range = c.range /\ again.attempt = c.attempt + 1
      /\ again = [range |-> c.range, attempt |-> c.attempt + 1]
  BY <1>1
<1> HIDE DEF again
<1>4. again.attempt \in 1 .. MaxRetries + 1
  BY <1>2, <1>3, FaultsAssumption
<1>5. ASSUME NEW a \in 1 .. again.attempt
      PROVE  [range |-> again.range, attempt |-> a] \in commands'
  <2>1. a \in 1 .. c.attempt \/ a = c.attempt + 1
    BY <1>2, <1>3
  <2> QED
    BY <1>1, <1>3, <2>1 DEF AttemptsInv
<1>6. IsFiniteSet(commands')
  BY <1>1, FS_AddElement DEF AttemptsInv
<1> QED
  BY <1>1, <1>4, <1>5, <1>6 DEF AttemptsInv

(* No other step expresses a command.                                      *)
LEMMA AttemptsStep == IInv /\ AttemptsInv /\ [Next]_vars => AttemptsInv'
<1> SUFFICES ASSUME IInv, AttemptsInv, [Next]_vars PROVE AttemptsInv'
  OBVIOUS
<1>1. CASE commands' = commands
  BY <1>1 DEF AttemptsInv
<1>2. CASE ClientNext
  <2>1. CASE Registered
    BY <2>1, NewAttempts DEF Registered
  <2>2. ASSUME NEW c \in awaiting, InsertSuccess(c)
        PROVE  AttemptsInv'
    BY <1>1, <2>2, NewAttempts DEF InsertSuccess
  <2>3. ASSUME NEW c \in awaiting, InsertNack(c)
        PROVE  AttemptsInv'
    BY <1>1, <2>3 DEF InsertNack, commandVars
  <2>4. ASSUME NEW c \in awaiting, InsertTimeout(c)
        PROVE  AttemptsInv'
    BY <2>4, RetriedAttempts DEF IInv
  <2> QED
    BY <1>2, <2>1, <2>2, <2>3, <2>4 DEF ClientNext
<1>3. CASE WorkerNext /\ UNCHANGED clientVars
  BY <1>1, <1>3, WorkerSteps
<1>4. CASE UNCHANGED vars
  BY <1>1, <1>4 DEF vars, commandVars
<1> QED
  BY <1>2, <1>3, <1>4 DEF Next

(* What the commands and the answers under way are.                        *)
LEMMA TypesOfCommands ==
  ASSUME IInv, AttemptsInv
  PROVE  /\ commands \subseteq Command /\ replies \subseteq SegmentRange
         /\ Forwarded \subseteq HostCommand
<1>1. ASSUME NEW c \in commands
      PROVE  c \in Command
  <2>1. c \in [range : SegmentRange, attempt : Nat] /\ c.attempt \in 1 .. MaxRetries + 1
    BY DEF IInv, ClientInv, Books, AttemptsInv
  <2> QED
    BY <2>1 DEF Command
<1>2. replies \subseteq SegmentRange
  <2>1. ASSUME NEW r \in replies
        PROVE  r \in SegmentRange
    <3>1. PICK c \in commands : c.range = r
      BY DEF IInv, ClientInv, Books
    <3> QED
      BY <3>1, CommandIs DEF IInv
  <2> QED
    BY <2>1
<1>3. ASSUME NEW i \in Forwarded
      PROVE  i \in HostCommand
  <2>1. /\ i.command \in commands /\ i.host \in Nodes
        /\ i = [command |-> i.command, host |-> i.host]
    BY ForwardedIs DEF IInv, WorkersInv
  <2> QED
    BY <1>1, <2>1 DEF HostCommand
<1> QED
  BY <1>1, <1>2, <1>3

(* The counts of client and workers stay within what there is to count, for*)
(* any number of nodes and segments, and a command is expressed no more    *)
(* often than the bound on retries allows.                                 *)
THEOREM TypeCorrect == Spec => []TypeOK
<1>1. Init => AttemptsInv
  BY FS_EmptySet DEF Init, CommandsInit, AttemptsInv
<1>2. ASSUME IInv, AttemptsInv
      PROVE  TypeOK
  <2>1. CommandsTypeOK
    BY <1>2, TypesOfCommands DEF CommandsTypeOK
  <2>2. ClientTypeOK
    BY <1>2 DEF IInv, ClientInv, Books, ClientTypeOK
  <2>3. ASSUME NEW c \in DOMAIN replicaCount
        PROVE  replicaCount[c] \in 0 .. Cardinality(Nodes)
    <3>1. c.range \in SegmentRange
      BY <1>2, CommandIs DEF IInv, WorkersInv, SentInv
    <3>2. Answered(c) \subseteq Nodes
      BY <3>1, BucketOfRange DEF Answered
    <3>3. /\ Cardinality(Answered(c)) \in Nat /\ Cardinality(Nodes) \in Nat
          /\ Cardinality(Answered(c)) <= Cardinality(Nodes)
      BY <3>2, HostsAssumption, FS_Subset, FS_CardinalityType
    <3>4. replicaCount[c] \in Nat /\ replicaCount[c] <= Cardinality(Answered(c))
      BY <1>2 DEF IInv, WorkersInv, CountInv
    <3> QED
      BY <3>3, <3>4
  <2>4. ASSUME NEW i \in DOMAIN fetchedCount
        PROVE  fetchedCount[i] \in 0 .. Size(i.command.range)
    <3>1. i.command.range \in SegmentRange
      BY <1>2, ForwardedIs DEF IInv, WorkersInv, SentInv
    <3>2. Size(i.command.range) \in Nat
      BY <3>1, RangeSize
    <3>3. Cardinality(Todo(i)) \in Nat
      <4>1. Todo(i) \subseteq Segments
        BY <3>1, RangeSize DEF Todo
      <4> QED
        BY <4>1, SegmentsFinite
    <3>4. /\ fetchedCount[i] \in Nat
          /\ fetchedCount[i] + Cardinality(Todo(i)) <= Size(i.command.range)
      BY <1>2 DEF IInv, WorkersInv, FetchInv
    <3> QED
      BY <3>2, <3>3, <3>4
  <2>5. /\ DOMAIN replicaCount \subseteq commands
        /\ replicating \subseteq HostCommand
        /\ DOMAIN fetchedCount \subseteq HostCommand
        /\ fetching \subseteq [insert : HostCommand, segment : Segments]
    BY <1>2, TypesOfCommands DEF IInv, WorkersInv, SentInv
  <2>6. WorkerTypeOK
    BY <1>2, <2>3, <2>4, <2>5 DEF IInv, WorkersInv, StoreInv, InsertedInv, WorkerTypeOK
  <2> QED
    BY <2>1, <2>2, <2>6 DEF TypeOK
<1> QED
  BY <1>1, <1>2, InitIInv, NextIInv, AttemptsStep, PTL DEF Spec

=============================================================================
