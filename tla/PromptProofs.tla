------------------------------ MODULE PromptProofs ------------------------------
(***************************************************************************)
(* What the auctions do in a prompt network, for every number of nodes,    *)
(* buckets and replicas.                                                   *)
(***************************************************************************)
EXTENDS AuctionProofs, FunctionTheorems

-----------------------------------------------------------------------------
(* Loads.                                                                  *)

(* The hosts of bucket b in the books of the master, and the buckets of    *)
(* node n there.                                                           *)
HostsOf(b) == pendingHosts[b] \cup confirmedHosts[b]
HostedBy(n) == {b \in Buckets : n \in HostsOf(b)}

(* The loads are natural numbers.                                          *)
LEMMA HostLoadType ==
  ASSUME NEW n \in Nodes
  PROVE  /\ HostLoad(n) = Cardinality(HostedBy(n))
         /\ HostedBy(n) \subseteq Buckets
         /\ IsFiniteSet(HostedBy(n))
         /\ HostLoad(n) \in Nat
<1>1. HostLoad(n) = Cardinality(HostedBy(n)) /\ HostedBy(n) \subseteq Buckets
  BY DEF HostLoad, HostedBy, HostsOf
<1> QED
  BY <1>1, BucketsAssumption, FS_Subset, FS_CardinalityType

(* The elements of a finite set can be numbered, and numbered within any   *)
(* bound on their count.                                                   *)
LEMMA Numbering ==
  ASSUME NEW S, IsFiniteSet(S), NEW k \in Nat, Cardinality(S) <= k
  PROVE  \E f : f \in Injection(S, 1 .. k)
<1>1. Cardinality(S) \in Nat /\ ExistsBijection(1 .. Cardinality(S), S)
  BY FS_CardinalityType
<1>2. ExistsBijection(S, 1 .. Cardinality(S))
  BY <1>1, Fun_ExistsBijSymmetric
<1>3. PICK f \in Bijection(S, 1 .. Cardinality(S)) : TRUE
  BY <1>2, Fun_ExistsBij
<1>4. /\ f \in [S -> 1 .. Cardinality(S)]
      /\ \A x, y \in S : f[x] = f[y] => x = y
  <2>1. ASSUME NEW T, NEW g \in Bijection(S, T)
        PROVE  g \in [S -> T] /\ \A x, y \in S : g[x] = g[y] => x = y
    BY <2>1, Fun_BijectionProperties
  <2> QED
    BY <1>3, <2>1
<1>5. 1 .. Cardinality(S) \subseteq 1 .. k
  BY <1>1
<1>6. f \in [S -> 1 .. k]
  BY <1>4, <1>5
<1> QED
  BY <1>4, <1>6, Fun_IsInj

(* A set can be listed, up to any number that its count reaches.           *)
LEMMA Listing ==
  ASSUME NEW S, IsFiniteSet(S)
  PROVE  \E f : f \in Injection(1 .. Cardinality(S), S)
<1>1. ExistsBijection(1 .. Cardinality(S), S)
  BY FS_CardinalityType
<1>2. PICK f \in Bijection(1 .. Cardinality(S), S) : TRUE
  BY <1>1, Fun_ExistsBij
<1> QED
  BY <1>2, Fun_BijectionProperties

(* Every replica counts for one node and takes one of the NUM_REPLICA      *)
(* places of one bucket.  So when all nodes have nine buckets and one has  *)
(* ten, while bucket b has no host yet, there are more places in the other *)
(* buckets than nine for each node.                                        *)
LEMMA LoadsTakePlaces ==
  ASSUME pendingHosts \in [Buckets -> SUBSET Nodes],
         confirmedHosts \in [Buckets -> SUBSET Nodes],
         FewHosts(confirmedHosts, pendingHosts),
         NEW b \in Buckets, HostsOf(b) = {},
         NEW most \in Nodes,
         \A n \in Nodes : HostLoad(n) >= 9, HostLoad(most) >= 10
  PROVE  (Cardinality(Buckets) - 1) * NumReplica > 9 * Cardinality(Nodes)
<1> DEFINE rank   == [c \in Buckets |-> CHOOSE f : f \in Injection(HostsOf(c), 1 .. NumReplica)]
           list   == [n \in Nodes |-> CHOOSE f : f \in Injection(1 .. HostLoad(n), HostedBy(n))]
           Loads  == (Nodes \X (1 .. 9)) \cup {<<most, 10>>}
           Places == (Buckets \ {b}) \X (1 .. NumReplica)
           place  == [p \in Loads |-> <<list[p[1]][p[2]], rank[list[p[1]][p[2]]][p[1]]>>]
<1>1. ASSUME NEW c \in Buckets
      PROVE  /\ rank[c] \in [HostsOf(c) -> 1 .. NumReplica]
             /\ \A x, y \in HostsOf(c) : rank[c][x] = rank[c][y] => x = y
  <2>1. HostsOf(c) \in SUBSET Nodes /\ Cardinality(HostsOf(c)) <= NumReplica
    BY DEF HostsOf, FewHosts
  <2>2. \E f : f \in Injection(HostsOf(c), 1 .. NumReplica)
    BY <2>1, NodeSetsFinite, NumReplicaAssumption, Numbering
  <2>3. rank[c] \in Injection(HostsOf(c), 1 .. NumReplica)
    BY <2>2
  <2> QED
    BY <2>3, Fun_InjectionProperties
<1>2. ASSUME NEW n \in Nodes
      PROVE  /\ list[n] \in [1 .. HostLoad(n) -> HostedBy(n)]
             /\ \A i, j \in 1 .. HostLoad(n) : list[n][i] = list[n][j] => i = j
  <2>1. \E f : f \in Injection(1 .. HostLoad(n), HostedBy(n))
    BY HostLoadType, Listing
  <2>2. list[n] \in Injection(1 .. HostLoad(n), HostedBy(n))
    BY <2>1
  <2> HIDE DEF rank, list, Loads, Places, place
  <2>3. list[n] \in [1 .. HostLoad(n) -> HostedBy(n)]
    BY <2>2, Zenon, Fun_InjectionProperties
  <2>4. \A i, j \in 1 .. HostLoad(n) : list[n][i] = list[n][j] => i = j
    BY <2>2, Zenon, Fun_InjectionProperties
  <2> QED
    BY <2>3, <2>4
<1>3. ASSUME NEW p \in Loads
      PROVE  /\ p[1] \in Nodes /\ p[2] \in 1 .. HostLoad(p[1]) /\ p = <<p[1], p[2]>>
             /\ list[p[1]][p[2]] \in Buckets \ {b}
             /\ p[1] \in HostsOf(list[p[1]][p[2]])
  <2>1. p[1] \in Nodes /\ p[2] \in 1 .. HostLoad(p[1]) /\ p = <<p[1], p[2]>>
    <3>1. CASE p \in Nodes \X (1 .. 9)
      BY <3>1, HostLoadType
    <3>2. CASE p = <<most, 10>>
      BY <3>2, HostLoadType
    <3> QED
      BY <3>1, <3>2
  <2>2. list[p[1]][p[2]] \in HostedBy(p[1])
    BY <1>2, <2>1
  <2> QED
    BY <2>1, <2>2 DEF HostedBy
<1> HIDE DEF rank, list
<1>4. place \in Injection(Loads, Places)
  <2>1. place \in [Loads -> Places]
    <3> SUFFICES ASSUME NEW p \in Loads
                 PROVE  <<list[p[1]][p[2]], rank[list[p[1]][p[2]]][p[1]]>> \in Places
      OBVIOUS
    <3> HIDE DEF Loads
    <3>1. /\ list[p[1]][p[2]] \in Buckets \ {b}
          /\ p[1] \in HostsOf(list[p[1]][p[2]])
      BY <1>3
    <3>2. rank[list[p[1]][p[2]]][p[1]] \in 1 .. NumReplica
      BY <1>1, <3>1
    <3> QED
      BY <3>1, <3>2
  <2>2. ASSUME NEW p \in Loads, NEW q \in Loads, place[p] = place[q]
        PROVE  p = q
    <3>1. /\ list[p[1]][p[2]] = list[q[1]][q[2]]
          /\ rank[list[p[1]][p[2]]][p[1]] = rank[list[p[1]][p[2]]][q[1]]
      BY <2>2
    <3>2. p[1] = q[1]
      BY <1>1, <1>3, <3>1
    <3>3. p[2] = q[2]
      BY <1>2, <1>3, <3>1, <3>2
    <3> QED
      BY <1>3, <3>2, <3>3
  <2> HIDE DEF place, Loads, Places
  <2> QED
    BY <2>1, <2>2, Fun_IsInj
<1>5. IsFiniteSet(Places) /\ Cardinality(Places) = (Cardinality(Buckets) - 1) * NumReplica
  <2>1. IsFiniteSet(Buckets \ {b}) /\ Cardinality(Buckets \ {b}) = Cardinality(Buckets) - 1
    BY BucketsAssumption, FS_RemoveElement
  <2>2. IsFiniteSet(1 .. NumReplica) /\ Cardinality(1 .. NumReplica) = NumReplica
    <3>1. 1 \in Int /\ NumReplica \in Int /\ ~(1 > NumReplica) /\ NumReplica - 1 + 1 = NumReplica
      BY NumReplicaAssumption
    <3> QED
      BY <3>1, FS_Interval
  <2>3. /\ IsFiniteSet(Places)
        /\ Cardinality(Places) = Cardinality(Buckets \ {b}) * Cardinality(1 .. NumReplica)
    BY <2>1, <2>2, FS_Product
  <2> QED
    BY <2>1, <2>2, <2>3
<1>6. Cardinality(Loads) = 9 * Cardinality(Nodes) + 1
  <2>1. IsFiniteSet(1 .. 9) /\ Cardinality(1 .. 9) = 9
    <3>1. 1 \in Int /\ 9 \in Int /\ ~(1 > 9) /\ 9 - 1 + 1 = 9
      OBVIOUS
    <3> QED
      BY <3>1, FS_Interval
  <2>2. /\ IsFiniteSet(Nodes \X (1 .. 9))
        /\ Cardinality(Nodes \X (1 .. 9)) = Cardinality(Nodes) * 9
    BY <2>1, NodesAssumption, FS_Product
  <2>3. <<most, 10>> \notin Nodes \X (1 .. 9)
    OBVIOUS
  <2>4. Cardinality(Loads) = Cardinality(Nodes) * 9 + 1
    BY <2>2, <2>3, FS_AddElement
  <2>5. Cardinality(Nodes) \in Nat
    BY NodesAssumption, FS_CardinalityType
  <2> QED
    BY <2>4, <2>5
<1> HIDE DEF place, Loads, Places
<1>7. Cardinality(Loads) <= Cardinality(Places)
  BY <1>4, <1>5, FS_Injection
<1>8. Cardinality(Nodes) \in Nat /\ Cardinality(Buckets) \in Nat
  BY NodesAssumption, BucketsAssumption, FS_CardinalityType
<1>9. (Cardinality(Buckets) - 1) * NumReplica \in Int
  BY <1>8, NumReplicaAssumption
<1> QED
  BY <1>5, <1>6, <1>7, <1>8, <1>9

-----------------------------------------------------------------------------
(* The invariant of a prompt network.                                      *)

(* Every message is fetched before the next tick of the master's timer,    *)
(* the watcher lists every node, and no node restarts.                     *)
PromptNetwork == Prompt /\ NodeLists = {Nodes} /\ MaxRestarts = 0

(* The auction that runs, if one does.                                     *)
Running      == currentAuctionId # NoAuction
Pending      == pendingHosts[currentAuctionBucketId]
Announcement == AuctionMsg(currentAuctionId, currentAuctionBucketId)
Won(n)       == WinMsg(currentAuctionId, currentAuctionBucketId, n)
Told(n)      == n \in Pending /\ Won(n) \in fetched[n]
BidUnderWay(n) == \E d \in toMaster : d.sender = n /\ d.msg.type = "Bid"
AckUnderWay(n) == \E d \in toMaster : d.sender = n /\ d.msg.type = "WinAck"

(* A bid that was made of the load the master knows of.                    *)
Honest(n, amount) == \E rnd \in RndBids : amount = BidAmount(rnd, HostLoad(n))

(* Nothing of an earlier auction has yet to be fetched.                    *)
NewsInv ==
  \A n \in Nodes : \A m \in masterLog \ fetched[n] :
    /\ m.type = "Auction" => Running /\ m = Announcement
    /\ m.type = "Win" /\ m.winner = n => Running /\ m = Won(n) /\ n \in Pending

(* Whoever knows of the auction has bid once, and winners are declared     *)
(* when all have.                                                          *)
CountInv ==
  Running =>
    /\ initialized
    /\ numBidsExpected = Cardinality(Nodes)
    /\ Cardinality(currentAuctionBids) = Cardinality(BidderNames(currentAuctionBids))
    /\ Pending # {} <=> BidderNames(currentAuctionBids) = Nodes
    /\ \A n \in Nodes :
         Announcement \in fetched[n] <=> n \in BidderNames(currentAuctionBids) \/ BidUnderWay(n)
    /\ Pending = {} => \A bid \in currentAuctionBids : Honest(bid.bidder, bid.amount)

(* What is on its way to the master is for the auction that runs, and no   *)
(* bid is made twice.                                                      *)
FlightInv ==
  /\ \A d \in toMaster : Running /\ IsCurrent(d.msg)
  /\ \A d \in toMaster :
       d.msg.type = "Bid" => /\ d.sender \notin BidderNames(currentAuctionBids)
                             /\ Honest(d.sender, d.msg.bidAmount)
  /\ \A d, e \in toMaster :
       d.sender = e.sender /\ d.msg.type = "Bid" /\ e.msg.type = "Bid" => d = e

(* The pending hosts that were told have an acknowledgement on its way.    *)
AnswersInv == Running => \A n \in Nodes : Told(n) <=> AckUnderWay(n)

(* A node has noted the buckets it is a confirmed host of, and the one it  *)
(* has been told of.                                                       *)
NotedInv ==
  \A n \in Nodes, b \in Buckets :
    b \in wonBuckets[n] <=> \/ n \in confirmedHosts[b]
                            \/ Running /\ b = currentAuctionBucketId /\ Told(n)

(* No auction leaves pending hosts behind.                                 *)
PendingInv == \A b \in Buckets : pendingHosts[b] # {} => Running /\ b = currentAuctionBucketId

(* A bucket has all its hosts or none.                                     *)
FullInv == \A b \in Buckets : HostsOf(b) # {} => Cardinality(HostsOf(b)) = NumReplica

EnoughNodes == initialized => Cardinality(Nodes) >= NumReplica

PromptInv ==
  /\ NewsInv
  /\ CountInv
  /\ FlightInv
  /\ AnswersInv
  /\ NotedInv
  /\ PendingInv
  /\ FullInv
  /\ EnoughNodes

(* The hosts of all buckets stay, if perhaps confirmed.                    *)
HostsStay == \A b \in Buckets : HostsOf(b)' = HostsOf(b)

(* Then the loads stay, and the number of hosts.                           *)
LEMMA LoadsStay ==
  ASSUME HostsStay
  PROVE  /\ \A n \in Nodes : HostLoad(n)' = HostLoad(n)
         /\ FullInv => FullInv'
         /\ LoadBalanced => LoadBalanced'
<1>1. ASSUME NEW n \in Nodes
      PROVE  HostLoad(n)' = HostLoad(n)
  <2>1. HostedBy(n)' = HostedBy(n)
    BY DEF HostedBy, HostsStay
  <2>2. HostLoad(n) = Cardinality(HostedBy(n)) /\ HostLoad(n)' = Cardinality(HostedBy(n)')
    BY DEF HostLoad, HostedBy, HostsOf
  <2> QED
    BY <2>1, <2>2
<1>2. FullInv => FullInv'
  BY DEF FullInv, HostsStay
<1>3. LoadBalanced => LoadBalanced'
  BY <1>1 DEF LoadBalanced
<1> QED
  BY <1>1, <1>2, <1>3

(* What is known of the auction that runs.                                 *)
LEMMA RunningFacts ==
  ASSUME IInv, Running
  PROVE  /\ currentAuctionId \in AuctionIds
         /\ currentAuctionBucketId \in Buckets
         /\ Announcement \in masterLog
         /\ Winners(masterLog, currentAuctionId) = HostsOf(currentAuctionBucketId)
         /\ Pending = {} => HostsOf(currentAuctionBucketId) = {}
         /\ \A m \in masterLog : m.auctionId = currentAuctionId =>
                                   m.bucketId = currentAuctionBucketId
<1>1. Announcement \in masterLog
  BY DEF IInv, MasterInv, RunningAuction, Running, Announcement
<1>2. Announcement \in MasterMessage
  BY <1>1 DEF IInv, TypeOK, SyncTypeOK
<1>3. currentAuctionId \in AuctionIds /\ currentAuctionBucketId \in Buckets
  BY <1>2 DEF Announcement, AuctionMsg, MasterMessage
<1>4. /\ Winners(masterLog, currentAuctionId) = HostsOf(currentAuctionBucketId)
      /\ Pending = {} => HostsOf(currentAuctionBucketId) = {}
  BY DEF IInv, MasterInv, RunningAuction, Running, Pending, HostsOf
<1>5. \A m \in masterLog : m.auctionId = currentAuctionId =>
                             m.bucketId = currentAuctionBucketId
  BY <1>1 DEF IInv, MasterInv, Books, OneBucketPerAuction, Announcement, AuctionMsg
<1> QED
  BY <1>1, <1>3, <1>4, <1>5

(* Between two auctions everything that was published is fetched, and the  *)
(* next one starts with a clean sheet.                                     *)
LEMMA NextAuctionPrompt ==
  ASSUME PromptNetwork, TypeOK,
         NEW confirmed \in [Buckets -> SUBSET Nodes],
         NEW pending \in [Buckets -> SUBSET Nodes],
         NEW out, \A m \in out : m.type = "AuctionEnd",
         NextAuction(confirmed, pending, out),
         confirmedHosts' = confirmed,
         \A b \in Buckets : pending[b] = {} /\ confirmed[b] = HostsOf(b),
         \A n \in Nodes, b \in Buckets : b \in wonBuckets[n] <=> n \in confirmed[b],
         \A n \in Nodes : \A m \in masterLog \ fetched[n] :
           m.type # "Auction" /\ (m.type = "Win" => m.winner # n),
         FullInv,
         initialized', Cardinality(Nodes) >= NumReplica,
         toMaster' = {}, UNCHANGED <<fetched, wonBuckets>>
  PROVE  PromptInv' /\ HostsStay
<1>1. \A b \in Buckets : pendingHosts'[b] = {}
  BY DEF NextAuction, StartAuction, ClearPending
<1>2. HostsStay
  BY <1>1 DEF HostsStay, HostsOf
<1>3. FullInv'
  BY <1>2, LoadsStay
<1>4. /\ EnoughNodes'
      /\ PendingInv'
      /\ FlightInv'
  BY <1>1 DEF EnoughNodes, PendingInv, FlightInv
<1>5. CASE \E b \in Buckets : FirstOpenBucket(b, confirmed) /\ StartAuction(b, pending, out)
  <2>1. PICK b \in Buckets, id \in Draws, list \in NodeLists :
          /\ currentAuctionId' = id
          /\ currentAuctionBucketId' = b
          /\ currentAuctionBids' = {}
          /\ numBidsExpected' = Cardinality(list)
          /\ MasterPublish(out \cup {AuctionMsg(id, b)})
    BY <1>5 DEF StartAuction
  <2>2. Pending' = {} /\ Announcement' = AuctionMsg(id, b) /\ Running'
    BY <1>1, <2>1, NoAuctionAssumption DEF Pending, Announcement, Running, Draws
  <2>3. \A n \in Nodes : Announcement' \notin fetched'[n] /\ ~Told(n)' /\ ~AckUnderWay(n)'
    <3>1. AuctionMsg(id, b) \notin masterLog
      BY DEF Draws, AuctionMsg
    <3> QED
      BY <2>2, <3>1 DEF Told, AckUnderWay, TypeOK, SyncTypeOK
  <2>4. BidderNames(currentAuctionBids)' = {}
    BY <2>1 DEF BidderNames
  <2>5. Nodes # {}
    BY FS_EmptySet, NumReplicaAssumption
  <2>6. numBidsExpected' = Cardinality(Nodes)
    BY <2>1 DEF PromptNetwork
  <2>7. masterLog' = masterLog \cup out \cup {AuctionMsg(id, b)}
    BY <2>1 DEF MasterPublish
  <2>8. NewsInv'
    BY <2>2, <2>7 DEF NewsInv, AuctionMsg
  <2>9. CountInv'
    BY <2>1, <2>2, <2>3, <2>4, <2>5, <2>6 DEF CountInv, BidUnderWay
  <2>10. AnswersInv' /\ NotedInv'
    BY <2>3 DEF AnswersInv, NotedInv
  <2> QED
    BY <1>2, <1>3, <1>4, <2>8, <2>9, <2>10 DEF PromptInv
<1>6. CASE currentAuctionId' = NoAuction /\ MasterPublish(out)
  <2>1. ~Running' /\ masterLog' = masterLog \cup out
    BY <1>6 DEF Running, MasterPublish
  <2>2. NewsInv'
    BY <2>1 DEF NewsInv
  <2>3. CountInv' /\ AnswersInv' /\ NotedInv'
    BY <2>1 DEF CountInv, AnswersInv, NotedInv
  <2> QED
    BY <1>2, <1>3, <1>4, <2>2, <2>3 DEF PromptInv
<1> QED
  BY <1>5, <1>6 DEF NextAuction

(* The timer of the master finds no auction running: when all is fetched,  *)
(* all have bid, and all winners have answered.                            *)
LEMMA TimerFindsNone ==
  ASSUME IInv, PromptInv, Quiescent
  PROVE  ~Running
<1> SUFFICES ASSUME Running PROVE FALSE
  OBVIOUS
<1>1. toMaster = {} /\ \A n \in Nodes : \A m \in masterLog :
        (m.type = "Win" => m.winner = n) => m \in fetched[n]
  BY DEF Quiescent, Awaited
<1>2. \A n \in Nodes : Announcement \in fetched[n]
  BY <1>1, RunningFacts DEF Announcement, AuctionMsg
<1>3. \A n \in Nodes : n \in BidderNames(currentAuctionBids)
  BY <1>1, <1>2 DEF PromptInv, CountInv, BidUnderWay
<1>4. BidderNames(currentAuctionBids) \subseteq Nodes
  BY DEF BidderNames, IInv, TypeOK, MasterTypeOK, Bid
<1>5. Pending # {}
  BY <1>3, <1>4 DEF PromptInv, CountInv
<1>6. PICK n \in Pending : TRUE
  BY <1>5
<1>7. n \in Nodes /\ n \in Winners(masterLog, currentAuctionId)
  BY <1>6, RunningFacts DEF Pending, HostsOf, IInv, TypeOK, MasterTypeOK
<1>8. PICK w \in masterLog : w.type = "Win" /\ w.auctionId = currentAuctionId /\ w.winner = n
  BY <1>7 DEF Winners
<1>9. w = Won(n)
  <2>1. w.bucketId = currentAuctionBucketId /\ w \in MasterMessage
    BY <1>8, RunningFacts DEF IInv, TypeOK, SyncTypeOK
  <2> QED
    BY <1>8, <2>1 DEF Won, WinMsg, MasterMessage
<1>10. Told(n)
  BY <1>1, <1>6, <1>7, <1>8, <1>9 DEF Told
<1> QED
  BY <1>1, <1>7, <1>10 DEF PromptInv, AnswersInv, AckUnderWay

(* A step that changes nothing that the invariant is about.                *)
LEMMA NothingHappens ==
  ASSUME PromptInv, UNCHANGED <<masterVars, masterLog, fetched, toMaster, wonBuckets>>
  PROVE  PromptInv' /\ HostsStay
<1>1. HostsStay
  BY DEF masterVars, HostsStay, HostsOf
<1>2. /\ UNCHANGED <<Running, Pending, Announcement>>
      /\ \A n \in Nodes : UNCHANGED <<Won(n), Told(n), BidUnderWay(n), AckUnderWay(n)>>
  BY DEF masterVars, auctionVars, Running, Pending, Announcement, Won, Told, BidUnderWay,
         AckUnderWay
<1>3. \A n, amount : Honest(n, amount) => Honest(n, amount)'
  BY DEF masterVars, Honest, HostLoad
<1>4. NewsInv' /\ AnswersInv' /\ NotedInv' /\ PendingInv' /\ EnoughNodes'
  BY <1>2 DEF masterVars, auctionVars, PromptInv, NewsInv, AnswersInv, NotedInv, PendingInv,
              EnoughNodes
<1>5. CountInv'
  BY <1>2, <1>3 DEF masterVars, auctionVars, PromptInv, CountInv
<1>6. FlightInv'
  BY <1>2, <1>3 DEF masterVars, auctionVars, PromptInv, FlightInv, IsCurrent
<1> QED
  BY <1>1, <1>4, <1>5, <1>6, LoadsStay DEF PromptInv

(* The timer of the master: it starts the first auction, or nothing.       *)
LEMMA TimerPrompt ==
  ASSUME PromptNetwork, IInv, PromptInv, MasterTimer
  PROVE  PromptInv' /\ HostsStay
<1>1. ~Running /\ Quiescent
  BY TimerFindsNone DEF MasterTimer, PromptNetwork
<1>2. UNCHANGED <<confirmedHosts, fetched, toMaster, wonBuckets>> /\ toMaster = {}
  BY <1>1 DEF MasterTimer, Initialize, Recheck, bidderVars, Quiescent
<1>3. CASE UNCHANGED <<initialized, pendingHosts, auctionVars, masterLog>>
  BY <1>2, <1>3, NothingHappens DEF masterVars
<1>4. CASE /\ NextAuction(confirmedHosts, pendingHosts, {})
           /\ initialized'
           /\ Cardinality(Nodes) >= NumReplica
  <2>1. \A b \in Buckets : pendingHosts[b] = {} /\ confirmedHosts[b] = HostsOf(b)
    BY <1>1 DEF PromptInv, PendingInv, HostsOf
  <2>2. \A n \in Nodes, b \in Buckets : b \in wonBuckets[n] <=> n \in confirmedHosts[b]
    BY <1>1 DEF PromptInv, NotedInv
  <2>3. \A n \in Nodes : \A m \in masterLog \ fetched[n] :
          m.type # "Auction" /\ (m.type = "Win" => m.winner # n)
    BY <1>1 DEF PromptInv, NewsInv
  <2>4. /\ TypeOK /\ FullInv
        /\ confirmedHosts \in [Buckets -> SUBSET Nodes]
        /\ pendingHosts \in [Buckets -> SUBSET Nodes]
    BY DEF IInv, PromptInv, TypeOK, MasterTypeOK
  <2> QED
    BY <1>2, <1>4, <2>1, <2>2, <2>3, <2>4, NextAuctionPrompt
<1>5. CASE Initialize
  BY <1>3, <1>4, <1>5 DEF Initialize, PromptNetwork
<1>6. CASE Recheck
  BY <1>1, <1>3, <1>4, <1>6 DEF Recheck, Running, PromptInv, EnoughNodes
<1> QED
  BY <1>5, <1>6 DEF MasterTimer

-----------------------------------------------------------------------------
(* Bids and winners.                                                       *)

(* The winners that are declared when enough nodes have bid are exactly    *)
(* NUM_REPLICA.                                                            *)
LEMMA DeclaredAreFull ==
  ASSUME NEW theBids, BidderNames(theBids) = Nodes, Cardinality(Nodes) >= NumReplica,
         NEW winners \in SUBSET Nodes, DeclaredWinners(winners, theBids, {})
  PROVE  winners # {} /\ Cardinality(winners) = NumReplica
<1>1. winners # {} /\ Cardinality(winners) <= NumReplica
  BY DeclaredCount
<1>2. {} \cup winners = winners
  OBVIOUS
<1>3. Cardinality(winners) >= NumReplica
  BY <1>2 DEF DeclaredWinners, EnoughHosts
<1>4. Cardinality(winners) \in Nat
  BY NodeSetsFinite
<1> QED
  BY <1>1, <1>3, <1>4, NumReplicaAssumption

(* Nobody who wins had more buckets than somebody who does not, as long as *)
(* the buckets are too few for all nodes to have nine and one to have ten. *)
LEMMA WinnersHaveLess ==
  ASSUME IInv, LoadBalanced, Running, Pending = {},
         (Cardinality(Buckets) - 1) * NumReplica <= 9 * Cardinality(Nodes),
         NEW theBids, \A bid \in theBids : Honest(bid.bidder, bid.amount),
         BidderNames(theBids) = Nodes,
         NEW winners \in SUBSET Nodes, HighestBids(winners, theBids),
         NEW w \in winners, NEW l \in Nodes \ winners
  PROVE  HostLoad(w) <= HostLoad(l)
<1> SUFFICES ASSUME HostLoad(l) < HostLoad(w) PROVE FALSE
  BY HostLoadType
<1>1. PICK high \in theBids : high.bidder = w
  BY DEF BidderNames
<1>2. PICK low \in theBids : low.bidder = l
  BY DEF BidderNames
<1>3. high.amount >= low.amount
  BY <1>1, <1>2 DEF HighestBids
<1>4. PICK r, s \in RndBids : /\ high.amount = BidAmount(r, HostLoad(w))
                             /\ low.amount = BidAmount(s, HostLoad(l))
  BY <1>1, <1>2 DEF Honest
<1>5. HostLoad(l) \in Nat /\ HostLoad(w) \in Nat
  BY HostLoadType
<1>6. CASE HostLoad(l) <= 8
  <2>1. HostLoad(l) \in 0 .. 8
    BY <1>5, <1>6
  <2>2. BidAmount(s, HostLoad(l)) > BidAmount(r, HostLoad(w))
    BY <1>5, <2>1, LoadOutweighsChance
  <2>3. BidAmount(s, HostLoad(l)) \in Nat /\ BidAmount(r, HostLoad(w)) \in Nat
    BY <1>5, BidAmountType
  <2> QED
    BY <1>3, <1>4, <2>2, <2>3
<1>7. CASE HostLoad(l) >= 9
  <2>1. HostLoad(w) >= 10
    BY <1>5, <1>7
  <2>2. \A n \in Nodes : HostLoad(n) >= 9
    <3> SUFFICES ASSUME NEW n \in Nodes PROVE HostLoad(n) >= 9
      OBVIOUS
    <3>1. HostLoad(w) <= HostLoad(n) + 1 /\ HostLoad(n) \in Nat
      BY HostLoadType DEF LoadBalanced
    <3> QED
      BY <1>5, <2>1, <3>1
  <2>3. /\ pendingHosts \in [Buckets -> SUBSET Nodes]
        /\ confirmedHosts \in [Buckets -> SUBSET Nodes]
        /\ FewHosts(confirmedHosts, pendingHosts)
    BY DEF IInv, TypeOK, MasterTypeOK, MasterInv, Books
  <2>4. currentAuctionBucketId \in Buckets /\ HostsOf(currentAuctionBucketId) = {}
    BY RunningFacts
  <2> DEFINE places == (Cardinality(Buckets) - 1) * NumReplica
             nines  == 9 * Cardinality(Nodes)
  <2>5. places > nines
    BY <2>1, <2>2, <2>3, <2>4, LoadsTakePlaces
  <2>6. places \in Int /\ nines \in Int
    <3>1. Cardinality(Nodes) \in Nat /\ Cardinality(Buckets) \in Nat
      BY NodesAssumption, BucketsAssumption, FS_CardinalityType
    <3> QED
      BY <3>1, NumReplicaAssumption
  <2>7. places <= nines
    OBVIOUS
  <2> HIDE DEF places, nines
  <2> QED
    BY <2>5, <2>6, <2>7
<1> QED
  BY <1>5, <1>6, <1>7

(* A declaration gives one bucket more to each winner.                     *)
LEMMA WinnersGetOne ==
  ASSUME NEW b \in Buckets, HostsOf(b) = {},
         NEW winners \in SUBSET Nodes, HostsOf(b)' = winners,
         \A c \in Buckets \ {b} : HostsOf(c)' = HostsOf(c),
         NEW n \in Nodes
  PROVE  HostLoad(n)' = IF n \in winners THEN HostLoad(n) + 1 ELSE HostLoad(n)
<1>1. HostLoad(n) = Cardinality(HostedBy(n)) /\ HostLoad(n)' = Cardinality(HostedBy(n)')
  BY DEF HostLoad, HostedBy, HostsOf
<1>2. b \notin HostedBy(n)
  BY DEF HostedBy
<1>3. \A c \in Buckets : n \in HostsOf(c)' <=> n \in HostsOf(c) \/ (c = b /\ n \in winners)
  BY DEF HostsOf
<1>4. \A c : c \in HostedBy(n)' <=> c \in HostedBy(n) \/ (c = b /\ n \in winners)
  BY <1>3 DEF HostedBy
<1>5. IsFiniteSet(HostedBy(n))
  BY HostLoadType
<1>6. CASE n \in winners
  <2>1. HostedBy(n)' = HostedBy(n) \cup {b}
    BY <1>4, <1>6
  <2>2. Cardinality(HostedBy(n) \cup {b}) = Cardinality(HostedBy(n)) + 1
    BY <1>2, <1>5, FS_AddElement
  <2> QED
    BY <1>1, <1>6, <2>1, <2>2
<1>7. CASE n \notin winners
  <2>1. HostedBy(n)' = HostedBy(n)
    BY <1>4, <1>7
  <2> QED
    BY <1>1, <1>7, <2>1
<1> QED
  BY <1>6, <1>7

(* So a declaration keeps the loads in balance.                            *)
LEMMA DeclarationBalances ==
  ASSUME IInv, LoadBalanced, Running, Pending = {},
         (Cardinality(Buckets) - 1) * NumReplica <= 9 * Cardinality(Nodes),
         NEW theBids, \A bid \in theBids : Honest(bid.bidder, bid.amount),
         BidderNames(theBids) = Nodes,
         NEW winners \in SUBSET Nodes, HighestBids(winners, theBids),
         NEW b \in Buckets, b = currentAuctionBucketId, HostsOf(b)' = winners,
         \A c \in Buckets \ {b} : HostsOf(c)' = HostsOf(c)
  PROVE  LoadBalanced'
<1> SUFFICES ASSUME NEW m \in Nodes, NEW n \in Nodes
             PROVE  HostLoad(m)' <= HostLoad(n)' + 1
  BY DEF LoadBalanced
<1>1. /\ HostLoad(m)' = IF m \in winners THEN HostLoad(m) + 1 ELSE HostLoad(m)
      /\ HostLoad(n)' = IF n \in winners THEN HostLoad(n) + 1 ELSE HostLoad(n)
  <2>1. HostsOf(b) = {}
    BY RunningFacts
  <2> QED
    BY <2>1, WinnersGetOne
<1>2. HostLoad(m) \in Nat /\ HostLoad(n) \in Nat /\ HostLoad(m) <= HostLoad(n) + 1
  BY HostLoadType DEF LoadBalanced
<1>3. m \in winners /\ n \notin winners => HostLoad(m) <= HostLoad(n)
  BY WinnersHaveLess
<1> QED
  BY <1>1, <1>2, <1>3

-----------------------------------------------------------------------------
(* The handlers.                                                           *)

(* The bids that are counted have a bidder each.                           *)
LEMMA OneMoreBidder ==
  ASSUME IInv, NEW d \in toMaster, d.sender \notin BidderNames(currentAuctionBids),
         Cardinality(currentAuctionBids) = Cardinality(BidderNames(currentAuctionBids)),
         NEW theBids,
         theBids = currentAuctionBids \cup {[bidder |-> d.sender, amount |-> d.msg.bidAmount]}
  PROVE  /\ BidderNames(theBids) = BidderNames(currentAuctionBids) \cup {d.sender}
         /\ BidderNames(theBids) \subseteq Nodes
         /\ Cardinality(theBids) = Cardinality(BidderNames(theBids))
         /\ Cardinality(theBids) = Cardinality(Nodes) <=> BidderNames(theBids) = Nodes
<1>1. BidderNames(theBids) = BidderNames(currentAuctionBids) \cup {d.sender}
  <2> DEFINE bid == [bidder |-> d.sender, amount |-> d.msg.bidAmount]
  <2>1. bid.bidder = d.sender
    OBVIOUS
  <2> HIDE DEF bid
  <2>2. theBids = currentAuctionBids \cup {bid}
    BY DEF bid
  <2> QED
    BY <2>1, <2>2 DEF BidderNames
<1>2. d.sender \in Nodes /\ BidderNames(currentAuctionBids) \subseteq Nodes
  BY DEF IInv, TypeOK, SyncTypeOK, MasterTypeOK, Bid, BidderNames
<1>3. IsFiniteSet(currentAuctionBids) /\ IsFiniteSet(BidderNames(currentAuctionBids))
  BY <1>2, NodeSetsFinite DEF IInv, MasterInv
<1>4. [bidder |-> d.sender, amount |-> d.msg.bidAmount] \notin currentAuctionBids
  BY DEF BidderNames
<1>5. /\ Cardinality(theBids) = Cardinality(currentAuctionBids) + 1
      /\ Cardinality(BidderNames(theBids)) = Cardinality(BidderNames(currentAuctionBids)) + 1
  <2>1. ASSUME NEW S, IsFiniteSet(S), NEW x, x \notin S
        PROVE  Cardinality(S \cup {x}) = Cardinality(S) + 1
    BY <2>1, FS_AddElement
  <2> QED
    BY <1>1, <1>3, <1>4, <2>1
<1>6. BidderNames(theBids) \subseteq Nodes
  BY <1>1, <1>2
<1>7. Cardinality(BidderNames(theBids)) = Cardinality(Nodes) => BidderNames(theBids) = Nodes
  BY <1>6, NodesAssumption, FS_Subset
<1> QED
  BY <1>1, <1>5, <1>6, <1>7

(* A bid that is not the last is counted.                                  *)
LEMMA BidPrompt ==
  ASSUME PromptNetwork, IInv, PromptInv, NEW d \in toMaster, MasterFetch(d),
         UNCHANGED <<fetched, wonBuckets>>,
         ProcessBid(d.sender, d.msg),
         ~AllBidsIn(currentAuctionBids \cup {[bidder |-> d.sender, amount |-> d.msg.bidAmount]})
  PROVE  PromptInv' /\ HostsStay
<1> DEFINE theBids == currentAuctionBids \cup {[bidder |-> d.sender, amount |-> d.msg.bidAmount]}
<1>1. /\ Running
      /\ d.msg.type = "Bid"
      /\ d.sender \notin BidderNames(currentAuctionBids)
      /\ Honest(d.sender, d.msg.bidAmount)
  BY DEF PromptInv, FlightInv, ProcessBid
<1>2. /\ currentAuctionBids' = theBids
      /\ UNCHANGED <<pendingHosts, masterLog, initialized, confirmedHosts, currentAuctionId,
                     currentAuctionBucketId, numBidsExpected>>
      /\ toMaster' = toMaster \ {d}
  BY <1>1 DEF ProcessBid, MasterFetch
<1>3. /\ BidderNames(theBids) = BidderNames(currentAuctionBids) \cup {d.sender}
      /\ Cardinality(theBids) = Cardinality(BidderNames(theBids))
      /\ Cardinality(theBids) = Cardinality(Nodes) <=> BidderNames(theBids) = Nodes
  BY <1>1, OneMoreBidder DEF PromptInv, CountInv
<1>4. BidderNames(theBids) # Nodes
  BY <1>1, <1>3 DEF AllBidsIn, PromptInv, CountInv
<1>5. d.sender \in Nodes
  BY DEF IInv, TypeOK, SyncTypeOK
<1>6. Pending = {}
  BY <1>1, <1>5 DEF PromptInv, CountInv
<1> HIDE DEF theBids
<1>7. /\ UNCHANGED <<Running, Pending, Announcement>>
      /\ \A n \in Nodes : UNCHANGED <<Won(n), Told(n)>>
  BY <1>2 DEF Running, Pending, Announcement, Won, Told
<1>8. HostsStay
  BY <1>2 DEF HostsStay, HostsOf
<1>9. \A n \in Nodes : \A amount : Honest(n, amount)' <=> Honest(n, amount)
  BY <1>8, LoadsStay DEF Honest
<1>10. \A n \in Nodes : AckUnderWay(n)' <=> AckUnderWay(n)
  BY <1>1, <1>2 DEF AckUnderWay
<1>11. \A n \in Nodes : BidUnderWay(n) <=> BidUnderWay(n)' \/ n = d.sender
  BY <1>1, <1>2 DEF BidUnderWay
<1>12. CountInv'
  <2>1. \A n \in Nodes : Announcement' \in fetched'[n]
                           <=> n \in BidderNames(theBids) \/ BidUnderWay(n)'
    BY <1>1, <1>3, <1>7, <1>11 DEF PromptInv, CountInv
  <2>2. \A bid \in theBids : Honest(bid.bidder, bid.amount)'
    <3> SUFFICES ASSUME NEW bid \in theBids PROVE Honest(bid.bidder, bid.amount)'
      OBVIOUS
    <3>1. CASE bid \in currentAuctionBids
      <4>1. bid.bidder \in Nodes /\ Honest(bid.bidder, bid.amount)
        BY <1>1, <1>6, <3>1 DEF PromptInv, CountInv, IInv, TypeOK, MasterTypeOK, Bid
      <4> QED
        BY <1>9, <4>1
    <3>2. CASE bid = [bidder |-> d.sender, amount |-> d.msg.bidAmount]
      BY <1>1, <1>5, <1>9, <3>2
    <3> QED
      BY <3>1, <3>2 DEF theBids
  <2> QED
    BY <1>1, <1>2, <1>3, <1>4, <1>6, <1>7, <2>1, <2>2 DEF PromptInv, CountInv
<1>13. FlightInv'
  <2>1. \A e \in toMaster' : e \in toMaster /\ e # d /\ e.sender \in Nodes
    BY <1>2 DEF IInv, TypeOK, SyncTypeOK
  <2>2. \A e \in toMaster' :
          e.msg.type = "Bid" => e.sender \notin BidderNames(theBids)
    BY <1>1, <1>3, <2>1 DEF PromptInv, FlightInv
  <2> QED
    BY <1>2, <1>7, <1>9, <2>1, <2>2 DEF PromptInv, FlightInv, IsCurrent
<1>14. NewsInv' /\ AnswersInv' /\ NotedInv' /\ PendingInv' /\ EnoughNodes'
  BY <1>2, <1>7, <1>10 DEF PromptInv, NewsInv, AnswersInv, NotedInv, PendingInv, EnoughNodes
<1> QED
  BY <1>8, <1>12, <1>13, <1>14, LoadsStay DEF PromptInv

(* The last bid declares the winners, all of whom become pending at once.  *)
LEMMA DeclarationPrompt ==
  ASSUME PromptNetwork, IInv, PromptInv, NEW d \in toMaster, MasterFetch(d),
         UNCHANGED <<fetched, wonBuckets>>,
         ProcessBid(d.sender, d.msg),
         AllBidsIn(currentAuctionBids \cup {[bidder |-> d.sender, amount |-> d.msg.bidAmount]})
  PROVE  /\ PromptInv'
         /\ \E theBids : \E winners \in SUBSET Nodes :
              /\ \A bid \in theBids : Honest(bid.bidder, bid.amount)
              /\ BidderNames(theBids) = Nodes
              /\ HighestBids(winners, theBids)
              /\ Running /\ Pending = {}
              /\ \A b \in Buckets : HostsOf(b)' = IF b = currentAuctionBucketId THEN winners
                                                  ELSE HostsOf(b)
<1> DEFINE theBids == currentAuctionBids \cup {[bidder |-> d.sender, amount |-> d.msg.bidAmount]}
<1>1. /\ Running
      /\ d.msg.type = "Bid"
      /\ d.sender \in Nodes
      /\ d.sender \notin BidderNames(currentAuctionBids)
      /\ Honest(d.sender, d.msg.bidAmount)
  BY DEF PromptInv, FlightInv, ProcessBid, IInv, TypeOK, SyncTypeOK
<1>2. Pending = {}
  BY <1>1 DEF PromptInv, CountInv
<1>3. /\ BidderNames(theBids) = BidderNames(currentAuctionBids) \cup {d.sender}
      /\ Cardinality(theBids) = Cardinality(BidderNames(theBids))
      /\ BidderNames(theBids) = Nodes
  BY <1>1, OneMoreBidder DEF PromptInv, CountInv, AllBidsIn
<1>4. /\ currentAuctionId \in AuctionIds
      /\ currentAuctionBucketId \in Buckets
      /\ HostsOf(currentAuctionBucketId) = {}
      /\ Winners(masterLog, currentAuctionId) = {}
  BY <1>1, <1>2, RunningFacts
<1>5. PICK winners \in SUBSET Nodes :
        /\ DeclaredWinners(winners, theBids, {})
        /\ pendingHosts' = [pendingHosts EXCEPT ![currentAuctionBucketId] = @ \cup winners]
        /\ MasterPublish({WinMsg(currentAuctionId, currentAuctionBucketId, n) : n \in winners})
  BY <1>1, <1>2 DEF ProcessBid, DeclareAuctionWinners, Pending
<1>6. /\ currentAuctionBids' = theBids
      /\ UNCHANGED <<initialized, confirmedHosts, currentAuctionId, currentAuctionBucketId,
                     numBidsExpected>>
      /\ toMaster' = toMaster \ {d}
  BY <1>1 DEF ProcessBid, MasterFetch
<1>7. winners # {} /\ Cardinality(winners) = NumReplica
  BY <1>1, <1>3, <1>5, DeclaredAreFull DEF PromptInv, CountInv, EnoughNodes
<1>8. \A bid \in theBids : Honest(bid.bidder, bid.amount)
  BY <1>1, <1>2 DEF PromptInv, CountInv
<1>9. masterLog' = masterLog \cup {Won(n) : n \in winners}
  BY <1>5 DEF MasterPublish, Won
<1> HIDE DEF theBids
<1>10. /\ Running' /\ UNCHANGED Announcement
       /\ \A n \in Nodes : UNCHANGED Won(n)
  BY <1>1, <1>6 DEF Running, Announcement, Won
<1>11. /\ Pending' = winners
       /\ \A b \in Buckets : pendingHosts'[b] = IF b = currentAuctionBucketId THEN winners
                                                ELSE pendingHosts[b]
  BY <1>2, <1>4, <1>5, <1>6 DEF Pending, IInv, TypeOK, MasterTypeOK
<1>12. \A b \in Buckets : HostsOf(b)' = IF b = currentAuctionBucketId THEN winners
                                        ELSE HostsOf(b)
  BY <1>4, <1>6, <1>11 DEF HostsOf
<1>13. \A n \in Nodes : ~Told(n) /\ ~Told(n)'
  <2>1. \A n \in Nodes : Won(n) \notin masterLog
    BY <1>4 DEF Winners, Won, WinMsg
  <2> QED
    BY <1>2, <1>10, <2>1 DEF Told, IInv, TypeOK, SyncTypeOK
<1>14. toMaster' = {}
  <2> SUFFICES ASSUME NEW e \in toMaster, e # d PROVE FALSE
    BY <1>6
  <2>1. e.sender \in Nodes /\ e.msg \in BidderMessage
    BY DEF IInv, TypeOK, SyncTypeOK
  <2>2. CASE e.msg.type = "Bid"
    BY <1>1, <1>3, <2>1, <2>2 DEF PromptInv, FlightInv
  <2>3. CASE e.msg.type = "WinAck"
    BY <1>1, <1>13, <2>1, <2>3 DEF PromptInv, AnswersInv, AckUnderWay
  <2> QED
    BY <2>1, <2>2, <2>3 DEF BidderMessage
<1>15. NewsInv'
  <2> SUFFICES ASSUME NEW n \in Nodes, NEW m \in masterLog', m \notin fetched[n]
               PROVE  /\ m.type = "Auction" => m = Announcement
                      /\ m.type = "Win" /\ m.winner = n => m = Won(n) /\ n \in winners
    BY <1>10, <1>11 DEF NewsInv
  <2>1. CASE m \in masterLog
    BY <1>2, <2>1 DEF PromptInv, NewsInv
  <2>2. CASE m \in {Won(k) : k \in winners}
    BY <2>2 DEF Won, WinMsg
  <2> QED
    BY <1>9, <2>1, <2>2
<1>16. CountInv'
  <2>1. \A n \in Nodes : Announcement' \in fetched'[n]
    BY <1>1, <1>3, <1>10 DEF PromptInv, CountInv, BidUnderWay
  <2> QED
    BY <1>1, <1>3, <1>6, <1>7, <1>10, <1>11, <2>1 DEF PromptInv, CountInv
<1>17. FlightInv' /\ AnswersInv'
  BY <1>13, <1>14 DEF FlightInv, AnswersInv, AckUnderWay
<1>18. NotedInv'
  BY <1>6, <1>13 DEF PromptInv, NotedInv
<1>19. PendingInv' /\ EnoughNodes'
  BY <1>6, <1>10, <1>11 DEF PromptInv, PendingInv, EnoughNodes
<1>20. FullInv'
  BY <1>7, <1>12 DEF PromptInv, FullInv
<1>21. HighestBids(winners, theBids)
  BY <1>5 DEF DeclaredWinners
<1> QED
  BY <1>1, <1>2, <1>3, <1>8, <1>12, <1>15, <1>16, <1>17, <1>18, <1>19, <1>20, <1>21 DEF PromptInv

(* An acknowledgement is of a pending host that was told, and it is the    *)
(* only one on its way from there.  The last one finds nothing else on its *)
(* way and nothing that a node has yet to fetch.                           *)
LEMMA AckPrompt ==
  ASSUME PromptNetwork, IInv, PromptInv, NEW d \in toMaster, MasterFetch(d),
         UNCHANGED <<fetched, wonBuckets>>,
         ProcessWinAck(d.sender, d.msg)
  PROVE  PromptInv' /\ HostsStay
<1> DEFINE b         == currentAuctionBucketId
           s         == d.sender
           pending   == [pendingHosts EXCEPT ![b] = @ \ {s}]
           confirmed == [confirmedHosts EXCEPT ![b] =
                           IF s \in pendingHosts[b] THEN @ \cup {s} ELSE @]
<1>1. Running /\ d.msg.type = "WinAck" /\ s \in Nodes /\ b \in Buckets
  BY RunningFacts DEF PromptInv, FlightInv, ProcessWinAck, IInv, TypeOK, SyncTypeOK
<1>2. Told(s)
  BY <1>1 DEF PromptInv, AnswersInv, AckUnderWay
<1>3. s \in pendingHosts[b] /\ Won(s) \in fetched[s] /\ Pending = pendingHosts[b]
  BY <1>2 DEF Told, Pending
<1>4. \A e \in toMaster : e.msg.type = "WinAck" /\ e.sender = s => e = d
  <2>1. \A e \in toMaster : /\ e = [sender |-> e.sender, msg |-> e.msg]
                            /\ e.msg \in BidderMessage
                            /\ IsCurrent(e.msg)
    BY DEF IInv, TypeOK, SyncTypeOK, PromptInv, FlightInv
  <2>2. \A e \in toMaster : e.msg.type = "WinAck" =>
          e.msg = WinAckMsg(currentAuctionId, currentAuctionBucketId)
    BY <2>1 DEF BidderMessage, IsCurrent, WinAckMsg
  <2> QED
    BY <1>1, <2>1, <2>2
<1>5. BidderNames(currentAuctionBids) = Nodes
  BY <1>1, <1>3 DEF PromptInv, CountInv
<1>6. \A e \in toMaster : e.sender \in Nodes /\ e.msg.type = "WinAck"
  BY <1>5 DEF PromptInv, FlightInv, IInv, TypeOK, SyncTypeOK, BidderMessage
<1>7. /\ pending \in [Buckets -> SUBSET Nodes]
      /\ confirmed \in [Buckets -> SUBSET Nodes]
      /\ pending[b] = pendingHosts[b] \ {s} /\ confirmed[b] = confirmedHosts[b] \cup {s}
      /\ \A c \in Buckets \ {b} : pending[c] = pendingHosts[c] /\ confirmed[c] = confirmedHosts[c]
  BY <1>1, <1>3 DEF IInv, TypeOK, MasterTypeOK
<1>8. /\ confirmedHosts' = confirmed
      /\ initialized' = initialized
      /\ toMaster' = toMaster \ {d}
  BY DEF ProcessWinAck, MasterFetch
<1>9. CASE AllConfirmed(pending[b], confirmed[b])
  <2>1. NextAuction(confirmed, pending, {AuctionEndMsg(currentAuctionId, b, confirmed[b])})
    BY <1>9 DEF ProcessWinAck
  <2> DEFINE end == AuctionEndMsg(currentAuctionId, b, confirmed[b])
  <2>2. \A m \in {end} : m.type = "AuctionEnd"
    BY DEF AuctionEndMsg
  <2> HIDE DEF end
  <2> HIDE DEF pending, confirmed
  <2>3. pendingHosts[b] = {s}
    BY <1>3, <1>7, <1>9 DEF AllConfirmed
  <2>4. \A c \in Buckets : pending[c] = {} /\ confirmed[c] = HostsOf(c)
    <3> SUFFICES ASSUME NEW c \in Buckets PROVE pending[c] = {} /\ confirmed[c] = HostsOf(c)
      OBVIOUS
    <3>1. CASE c = b
      BY <1>7, <2>3, <3>1 DEF HostsOf
    <3>2. CASE c # b
      <4>1. pendingHosts[c] = {}
        BY <3>2 DEF PromptInv, PendingInv
      <4> QED
        BY <1>7, <3>2, <4>1 DEF HostsOf
    <3> QED
      BY <3>1, <3>2
  <2>5. \A n \in Nodes, c \in Buckets : c \in wonBuckets[n] <=> n \in confirmed[c]
    <3> SUFFICES ASSUME NEW n \in Nodes, NEW c \in Buckets
                 PROVE  c \in wonBuckets[n] <=> n \in confirmed[c]
      OBVIOUS
    <3>1. CASE c = b
      <4>1. Told(n) <=> n = s
        BY <1>2, <1>3, <2>3 DEF Told
      <4> QED
        BY <1>1, <1>7, <3>1, <4>1 DEF PromptInv, NotedInv
    <3>2. CASE c # b
      BY <1>7, <3>2 DEF PromptInv, NotedInv
    <3> QED
      BY <3>1, <3>2
  <2>6. \A n \in Nodes : \A m \in masterLog \ fetched[n] :
          m.type # "Auction" /\ (m.type = "Win" => m.winner # n)
    <3> SUFFICES ASSUME NEW n \in Nodes, NEW m \in masterLog \ fetched[n]
                 PROVE  m.type # "Auction" /\ (m.type = "Win" => m.winner # n)
      OBVIOUS
    <3>1. Announcement \in fetched[n]
      BY <1>1, <1>5 DEF PromptInv, CountInv
    <3>2. m.type # "Auction"
      BY <3>1 DEF PromptInv, NewsInv
    <3>3. ASSUME m.type = "Win", m.winner = n
          PROVE  FALSE
      <4>1. m = Won(n) /\ n \in Pending
        BY <3>3 DEF PromptInv, NewsInv
      <4> QED
        BY <1>3, <2>3, <4>1
    <3> QED
      BY <3>2, <3>3
  <2>7. toMaster' = {}
    <3> SUFFICES ASSUME NEW e \in toMaster, e # d PROVE FALSE
      BY <1>8
    <3>1. Told(e.sender)
      BY <1>1, <1>6 DEF PromptInv, AnswersInv, AckUnderWay
    <3>2. e.sender = s
      BY <1>3, <2>3, <3>1 DEF Told
    <3> QED
      BY <1>4, <1>6, <3>2
  <2>8. TypeOK /\ FullInv /\ initialized' /\ Cardinality(Nodes) >= NumReplica
    BY <1>1, <1>8 DEF IInv, PromptInv, CountInv, EnoughNodes
  <2>9. NextAuction(confirmed, pending, {end})
    BY <2>1 DEF end
  <2> QED
    BY <1>7, <1>8, <2>2, <2>4, <2>5, <2>6, <2>7, <2>8, <2>9, NextAuctionPrompt
<1>10. CASE ~AllConfirmed(pending[b], confirmed[b])
  <2>1. pendingHosts' = pending /\ UNCHANGED <<auctionVars, masterLog>>
    BY <1>10 DEF ProcessWinAck
  <2>2. pendingHosts[b] \ {s} # {}
    BY <1>7, <1>10 DEF AllConfirmed
  <2> HIDE DEF pending, confirmed
  <2>3. /\ Running' /\ Pending' = pendingHosts[b] \ {s}
        /\ Announcement' = Announcement
        /\ \A n \in Nodes : Won(n)' = Won(n)
    BY <1>1, <1>7, <2>1 DEF auctionVars, Running, Pending, Announcement, Won
  <2>4. HostsStay
    BY <1>3, <1>7, <1>8, <2>1 DEF HostsStay, HostsOf
  <2>5. \A n \in Nodes : Told(n)' <=> Told(n) /\ n # s
    BY <1>3, <2>3 DEF Told
  <2>6. \A n \in Nodes : AckUnderWay(n)' <=> AckUnderWay(n) /\ n # s
    BY <1>1, <1>4, <1>8 DEF AckUnderWay
  <2>7. \A n \in Nodes : ~BidUnderWay(n) /\ ~BidUnderWay(n)'
    BY <1>6, <1>8 DEF BidUnderWay
  <2>8. NewsInv'
    <3> SUFFICES ASSUME NEW n \in Nodes, NEW m \in masterLog, m \notin fetched[n]
                 PROVE  /\ m.type = "Auction" => m = Announcement
                        /\ m.type = "Win" /\ m.winner = n => m = Won(n) /\ n \in Pending'
      BY <2>1, <2>3 DEF NewsInv
    <3> QED
      BY <1>3, <2>3 DEF PromptInv, NewsInv
  <2>9. CountInv'
    BY <1>1, <1>5, <1>8, <2>1, <2>2, <2>3, <2>7 DEF PromptInv, CountInv, auctionVars
  <2>10. FlightInv'
    BY <1>6, <1>8, <2>1, <2>3 DEF PromptInv, FlightInv, auctionVars, IsCurrent
  <2>11. AnswersInv'
    BY <1>1, <2>5, <2>6 DEF PromptInv, AnswersInv
  <2>12. NotedInv'
    <3> SUFFICES ASSUME NEW n \in Nodes, NEW c \in Buckets
                 PROVE  c \in wonBuckets[n] <=> n \in confirmed[c] \/ (c = b /\ Told(n)')
      BY <1>8, <2>1, <2>3 DEF NotedInv, auctionVars
    <3>1. CASE c = b
      BY <1>1, <1>2, <1>7, <2>5, <3>1 DEF PromptInv, NotedInv
    <3>2. CASE c # b
      BY <1>7, <3>2 DEF PromptInv, NotedInv
    <3> QED
      BY <3>1, <3>2
  <2>13. PendingInv' /\ EnoughNodes'
    BY <1>1, <1>7, <1>8, <2>1, <2>3 DEF PromptInv, PendingInv, EnoughNodes, auctionVars
  <2> QED
    BY <2>4, <2>8, <2>9, <2>10, <2>11, <2>12, <2>13, LoadsStay DEF PromptInv
<1> QED
  BY <1>9, <1>10

(* Until the winners are declared, what a node knows of its load is what   *)
(* the master knows of it.                                                 *)
LEMMA LoadIsKnown ==
  ASSUME IInv, PromptInv, Running, Pending = {}, NEW n \in Nodes
  PROVE  Load(n) = HostLoad(n)
<1>1. \A b \in Buckets : pendingHosts[b] = {}
  BY DEF Pending, PromptInv, PendingInv
<1>2. \A b \in Buckets : b \in wonBuckets[n] <=> n \in pendingHosts[b] \cup confirmedHosts[b]
  BY <1>1 DEF Told, PromptInv, NotedInv
<1>3. wonBuckets[n] \subseteq Buckets
  BY DEF IInv, TypeOK, BidderTypeOK
<1>4. wonBuckets[n] = {b \in Buckets : n \in pendingHosts[b] \cup confirmedHosts[b]}
  BY <1>2, <1>3
<1> QED
  BY <1>4 DEF Load, HostLoad

(* A node learns of the auction and bids.                                  *)
LEMMA PlaceBidPrompt ==
  ASSUME IInv, PromptInv, NEW n \in Nodes, NEW m \in masterLog,
         NodeFetch(n, m), PlaceBid(n, m), UNCHANGED <<masterVars, masterLog>>
  PROVE  PromptInv' /\ HostsStay
<1>1. m.type = "Auction" /\ m \notin fetched[n] /\ Running /\ m = Announcement
  BY DEF PlaceBid, NodeFetch, PromptInv, NewsInv
<1>2. n \notin BidderNames(currentAuctionBids) /\ ~BidUnderWay(n) /\ Pending = {}
  BY <1>1 DEF PromptInv, CountInv
<1>3. PICK rnd \in RndBids :
        toMaster' = toMaster \cup
          {[sender |-> n, msg |-> BidMsg(m.auctionId, m.bucketId, BidAmount(rnd, Load(n)))]}
  BY DEF PlaceBid, NodePublish
<1> DEFINE bid == [sender |-> n, msg |-> BidMsg(m.auctionId, m.bucketId, BidAmount(rnd, Load(n)))]
<1>4. /\ bid.sender = n
      /\ bid.msg.type = "Bid"
      /\ IsCurrent(bid.msg)
      /\ Honest(n, bid.msg.bidAmount)
  <2>1. bid.msg.bidAmount = BidAmount(rnd, HostLoad(n))
    BY <1>1, <1>2, LoadIsKnown DEF BidMsg
  <2> QED
    BY <1>1, <2>1 DEF BidMsg, Announcement, AuctionMsg, IsCurrent, Honest
<1> HIDE DEF bid
<1>5. toMaster' = toMaster \cup {bid}
  BY <1>3 DEF bid
<1>6. /\ fetched' \in [Nodes -> SUBSET masterLog]
      /\ fetched'[n] = fetched[n] \cup {m}
      /\ \A k \in Nodes \ {n} : fetched'[k] = fetched[k]
      /\ wonBuckets' = wonBuckets
  BY DEF PlaceBid, NodeFetch, bidderVars, IInv, TypeOK, SyncTypeOK
<1>7. HostsStay
  BY DEF masterVars, HostsStay, HostsOf
<1>8. \A k \in Nodes : \A amount : Honest(k, amount)' <=> Honest(k, amount)
  BY <1>7, LoadsStay DEF Honest
<1>9. /\ Running' /\ UNCHANGED <<Pending, Announcement>>
      /\ \A k \in Nodes : UNCHANGED Won(k)
  BY <1>1 DEF masterVars, auctionVars, Running, Pending, Announcement, Won
<1>10. \A k \in Nodes : Told(k)' <=> Told(k)
  <2>1. \A k \in Nodes : Won(k) # m
    BY <1>1 DEF Won, WinMsg, Announcement, AuctionMsg
  <2> QED
    BY <1>6, <1>9, <2>1 DEF Told
<1>11. \A k \in Nodes : /\ AckUnderWay(k)' <=> AckUnderWay(k)
                        /\ BidUnderWay(k)' <=> BidUnderWay(k) \/ k = n
  BY <1>4, <1>5 DEF AckUnderWay, BidUnderWay
<1>12. NewsInv'
  BY <1>6, <1>9 DEF masterVars, PromptInv, NewsInv
<1>13. CountInv'
  <2>1. \A k \in Nodes : Announcement' \in fetched'[k]
                           <=> k \in BidderNames(currentAuctionBids) \/ BidUnderWay(k)'
    BY <1>1, <1>6, <1>9, <1>11 DEF PromptInv, CountInv
  <2>2. \A b \in currentAuctionBids : Honest(b.bidder, b.amount)'
    <3>1. \A b \in currentAuctionBids : b.bidder \in Nodes /\ Honest(b.bidder, b.amount)
      BY <1>1, <1>2 DEF PromptInv, CountInv, IInv, TypeOK, MasterTypeOK, Bid
    <3> QED
      BY <1>8, <3>1
  <2> QED
    BY <1>1, <1>9, <2>1, <2>2 DEF masterVars, auctionVars, PromptInv, CountInv
<1>14. FlightInv'
  <2>1. \A d \in toMaster : d.sender \in Nodes
    BY DEF IInv, TypeOK, SyncTypeOK
  <2>2. \A d \in toMaster : ~(d.sender = n /\ d.msg.type = "Bid")
    BY <1>2 DEF BidUnderWay
  <2>3. \A d \in toMaster' : Running' /\ IsCurrent(d.msg)'
    BY <1>1, <1>4, <1>5, <1>9 DEF masterVars, auctionVars, PromptInv, FlightInv, IsCurrent
  <2>4. \A d \in toMaster' :
          d.msg.type = "Bid" => /\ d.sender \notin BidderNames(currentAuctionBids)
                                /\ Honest(d.sender, d.msg.bidAmount)'
    BY <1>2, <1>4, <1>5, <1>8, <2>1 DEF PromptInv, FlightInv
  <2>5. \A d, e \in toMaster' :
          d.sender = e.sender /\ d.msg.type = "Bid" /\ e.msg.type = "Bid" => d = e
    BY <1>4, <1>5, <2>2 DEF PromptInv, FlightInv
  <2> QED
    BY <2>3, <2>4, <2>5 DEF masterVars, auctionVars, FlightInv
<1>15. AnswersInv'
  BY <1>1, <1>10, <1>11 DEF PromptInv, AnswersInv
<1>16. NotedInv' /\ PendingInv' /\ EnoughNodes'
  BY <1>1, <1>6, <1>9, <1>10
  DEF masterVars, auctionVars, PromptInv, NotedInv, PendingInv, EnoughNodes
<1> QED
  BY <1>7, <1>12, <1>13, <1>14, <1>15, <1>16, LoadsStay DEF PromptInv

(* A pending host learns that it won, notes the bucket and answers.        *)
LEMMA AcceptWinPrompt ==
  ASSUME IInv, PromptInv, NEW n \in Nodes, NEW m \in masterLog,
         NodeFetch(n, m), AcceptWin(n, m), UNCHANGED <<masterVars, masterLog>>
  PROVE  PromptInv' /\ HostsStay
<1>1. m.type = "Win" /\ m \notin fetched[n] /\ Running /\ m = Won(n) /\ n \in Pending
  BY DEF AcceptWin, NodeFetch, PromptInv, NewsInv
<1> DEFINE ack == [sender |-> n, msg |-> WinAckMsg(m.auctionId, m.bucketId)]
<1>2. toMaster' = toMaster \cup {ack}
  BY DEF AcceptWin, NodePublish
<1>3. ack.sender = n /\ ack.msg.type = "WinAck" /\ IsCurrent(ack.msg)
  BY <1>1 DEF WinAckMsg, Won, WinMsg, IsCurrent
<1> HIDE DEF ack
<1>4. /\ fetched'[n] = fetched[n] \cup {m}
      /\ \A k \in Nodes \ {n} : fetched'[k] = fetched[k]
  BY DEF NodeFetch, IInv, TypeOK, SyncTypeOK
<1>5. /\ wonBuckets'[n] = wonBuckets[n] \cup {currentAuctionBucketId}
      /\ \A k \in Nodes \ {n} : wonBuckets'[k] = wonBuckets[k]
  BY <1>1 DEF AcceptWin, AddBucket, Won, WinMsg, IInv, TypeOK, BidderTypeOK
<1>6. HostsStay
  BY DEF masterVars, HostsStay, HostsOf
<1>7. \A k \in Nodes : \A amount : Honest(k, amount)' <=> Honest(k, amount)
  BY <1>6, LoadsStay DEF Honest
<1>8. /\ Running' /\ UNCHANGED <<Pending, Announcement>>
      /\ \A k \in Nodes : UNCHANGED Won(k)
  BY <1>1 DEF masterVars, auctionVars, Running, Pending, Announcement, Won
<1>9. \A k \in Nodes : Told(k)' <=> Told(k) \/ k = n
  BY <1>1, <1>4, <1>8 DEF Told
<1>10. \A k \in Nodes : /\ AckUnderWay(k)' <=> AckUnderWay(k) \/ k = n
                        /\ BidUnderWay(k)' <=> BidUnderWay(k)
  BY <1>2, <1>3 DEF AckUnderWay, BidUnderWay
<1>11. NewsInv'
  BY <1>4, <1>8 DEF masterVars, PromptInv, NewsInv
<1>12. CountInv'
  <2>1. Announcement # m
    BY <1>1 DEF Won, WinMsg, Announcement, AuctionMsg
  <2>2. \A k \in Nodes : Announcement' \in fetched'[k] <=> Announcement \in fetched[k]
    BY <1>4, <1>8, <2>1
  <2>3. Pending' # {}
    BY <1>1, <1>8
  <2> QED
    BY <1>1, <1>8, <1>10, <2>2, <2>3 DEF masterVars, auctionVars, PromptInv, CountInv
<1>13. FlightInv'
  <2>1. \A d \in toMaster : d.sender \in Nodes
    BY DEF IInv, TypeOK, SyncTypeOK
  <2>2. \A d \in toMaster' : Running' /\ IsCurrent(d.msg)'
    BY <1>1, <1>2, <1>3, <1>8 DEF masterVars, auctionVars, PromptInv, FlightInv, IsCurrent
  <2>3. \A d \in toMaster' : d.msg.type = "Bid" => d \in toMaster
    BY <1>2, <1>3
  <2> QED
    BY <1>7, <2>1, <2>2, <2>3 DEF masterVars, auctionVars, PromptInv, FlightInv
<1>14. AnswersInv'
  <2>1. \A k \in Nodes : Told(k) <=> AckUnderWay(k)
    BY <1>1 DEF PromptInv, AnswersInv
  <2>2. \A k \in Nodes : Told(k)' <=> AckUnderWay(k)'
    BY <1>9, <1>10, <2>1
  <2> QED
    BY <2>2 DEF AnswersInv
<1>15. NotedInv'
  BY <1>1, <1>5, <1>8, <1>9 DEF masterVars, auctionVars, PromptInv, NotedInv
<1>16. PendingInv' /\ EnoughNodes'
  BY <1>8 DEF masterVars, auctionVars, PromptInv, PendingInv, EnoughNodes
<1> QED
  BY <1>6, <1>11, <1>12, <1>13, <1>14, <1>15, <1>16, LoadsStay DEF PromptInv

(* A node learns the end of an auction.                                    *)
LEMMA StartWorkerPrompt ==
  ASSUME IInv, PromptInv, NEW n \in Nodes, NEW m \in masterLog,
         NodeFetch(n, m), StartWorker(n, m), UNCHANGED <<masterVars, masterLog>>
  PROVE  PromptInv' /\ HostsStay
<1>1. m.type = "AuctionEnd" /\ UNCHANGED <<wonBuckets, toMaster>>
  BY DEF StartWorker
<1>2. \A k \in Nodes : \A l : l \in fetched'[k] <=> l \in fetched[k] \/ (k = n /\ l = m)
  BY DEF NodeFetch, IInv, TypeOK, SyncTypeOK
<1>3. HostsStay
  BY DEF masterVars, HostsStay, HostsOf
<1>4. \A k \in Nodes : \A amount : Honest(k, amount)' <=> Honest(k, amount)
  BY <1>3, LoadsStay DEF Honest
<1>5. /\ Running' <=> Running
      /\ UNCHANGED <<Pending, Announcement>>
      /\ \A k \in Nodes : /\ UNCHANGED Won(k)
                          /\ BidUnderWay(k)' <=> BidUnderWay(k)
                          /\ AckUnderWay(k)' <=> AckUnderWay(k)
  BY <1>1 DEF masterVars, auctionVars, Running, Pending, Announcement, Won, BidUnderWay, AckUnderWay
<1>6. \A k \in Nodes : /\ Announcement \in fetched'[k] <=> Announcement \in fetched[k]
                       /\ Told(k)' <=> Told(k)
  <2>1. Announcement # m /\ \A k \in Nodes : Won(k) # m
    BY <1>1 DEF Announcement, AuctionMsg, Won, WinMsg
  <2> QED
    BY <1>2, <1>5, <2>1 DEF Told
<1>7. NewsInv'
  BY <1>2, <1>5 DEF masterVars, PromptInv, NewsInv
<1>8. CountInv'
  <2>1. \A b \in currentAuctionBids : b.bidder \in Nodes
    BY DEF IInv, TypeOK, MasterTypeOK, Bid
  <2> QED
    BY <1>4, <1>5, <1>6, <2>1 DEF masterVars, auctionVars, PromptInv, CountInv
<1>9. FlightInv'
  <2>1. \A d \in toMaster : d.sender \in Nodes
    BY DEF IInv, TypeOK, SyncTypeOK
  <2> QED
    BY <1>1, <1>4, <1>5, <2>1 DEF masterVars, auctionVars, PromptInv, FlightInv, IsCurrent
<1>10. AnswersInv' /\ NotedInv' /\ PendingInv' /\ EnoughNodes'
  BY <1>1, <1>5, <1>6
  DEF masterVars, auctionVars, PromptInv, AnswersInv, NotedInv, PendingInv, EnoughNodes
<1> QED
  BY <1>3, <1>7, <1>8, <1>9, <1>10, LoadsStay DEF PromptInv

-----------------------------------------------------------------------------
(* The invariant of a prompt network is inductive.                         *)

(* Declaring winners is the one step that gives a bucket hosts.            *)
Declaration ==
  \E theBids : \E winners \in SUBSET Nodes :
    /\ \A bid \in theBids : Honest(bid.bidder, bid.amount)
    /\ BidderNames(theBids) = Nodes
    /\ HighestBids(winners, theBids)
    /\ Running /\ Pending = {}
    /\ \A b \in Buckets : HostsOf(b)' = IF b = currentAuctionBucketId THEN winners
                                        ELSE HostsOf(b)

(* At first nothing is published, and no node has a bucket.                *)
LEMMA InitPrompt == Init => PromptInv /\ LoadBalanced
<1> SUFFICES ASSUME Init PROVE PromptInv /\ LoadBalanced
  OBVIOUS
<1>1. /\ ~Running /\ ~initialized /\ toMaster = {} /\ masterLog = {}
      /\ \A b \in Buckets : pendingHosts[b] = {} /\ confirmedHosts[b] = {}
      /\ \A n \in Nodes : wonBuckets[n] = {}
  BY DEF Init, SyncInit, MasterInit, BidderInit, Running
<1>2. \A n \in Nodes : HostLoad(n) = 0
  <2>1. \A n \in Nodes : HostedBy(n) = {}
    BY <1>1 DEF HostedBy, HostsOf
  <2> QED
    BY <2>1, HostLoadType, FS_EmptySet
<1>3. PromptInv
  BY <1>1 DEF PromptInv, NewsInv, CountInv, FlightInv, AnswersInv, NotedInv, PendingInv, FullInv,
              HostsOf, EnoughNodes
<1> QED
  BY <1>2, <1>3 DEF LoadBalanced

(* Every step keeps it, and either leaves the hosts of all buckets as they *)
(* are or declares winners.                                                *)
LEMMA NextPrompt ==
  ASSUME PromptNetwork, IInv, PromptInv, [Next]_vars
  PROVE  PromptInv' /\ (HostsStay \/ Declaration)
<1>1. CASE MasterTimer
  BY <1>1, TimerPrompt
<1>2. ASSUME NEW d \in toMaster, MasterMessageArrives(d)
      PROVE  PromptInv' /\ (HostsStay \/ Declaration)
  <2>1. MasterFetch(d) /\ UNCHANGED <<fetched, wonBuckets>>
    BY <1>2 DEF MasterMessageArrives, MasterReceive, bidderVars
  <2>2. initialized /\ IsCurrent(d.msg)
    BY DEF PromptInv, FlightInv, CountInv
  <2>3. CASE ProcessBid(d.sender, d.msg)
    <3>1. CASE AllBidsIn(currentAuctionBids
                           \cup {[bidder |-> d.sender, amount |-> d.msg.bidAmount]})
      BY <2>1, <2>3, <3>1, DeclarationPrompt DEF Declaration
    <3>2. CASE ~AllBidsIn(currentAuctionBids
                            \cup {[bidder |-> d.sender, amount |-> d.msg.bidAmount]})
      BY <2>1, <2>3, <3>2, BidPrompt
    <3> QED
      BY <3>1, <3>2
  <2>4. CASE ProcessWinAck(d.sender, d.msg)
    BY <2>1, <2>4, AckPrompt
  <2> QED
    BY <1>2, <2>2, <2>3, <2>4 DEF MasterMessageArrives, MasterReceive
<1>3. ASSUME NEW n \in Nodes, NEW m \in masterLog, NodeMessageArrives(n, m)
      PROVE  PromptInv' /\ HostsStay
  <2>1. NodeFetch(n, m) /\ UNCHANGED <<masterVars, masterLog>>
    BY <1>3 DEF NodeMessageArrives, BidderReceive
  <2>2. PlaceBid(n, m) \/ AcceptWin(n, m) \/ StartWorker(n, m)
    BY <1>3 DEF NodeMessageArrives, BidderReceive
  <2> QED
    BY <2>1, <2>2, PlaceBidPrompt, AcceptWinPrompt, StartWorkerPrompt
<1>4. ASSUME NEW n \in Nodes, NodeRestart(n)
      PROVE  FALSE
  BY <1>4 DEF NodeRestart, PromptNetwork, IInv, TypeOK
<1>5. CASE UNCHANGED vars
  BY <1>5, NothingHappens DEF vars, syncVars, bidderVars
<1> QED
  BY <1>1, <1>2, <1>3, <1>4, <1>5 DEF Next

(* The invariant holds in every prompt network.                            *)
THEOREM PromptInvariance ==
  ASSUME PromptNetwork
  PROVE  Spec => [](IInv /\ PromptInv)
<1>1. IInv /\ PromptInv /\ [Next]_vars => PromptInv'
  BY NextPrompt
<1> QED
  BY <1>1, InitPrompt, Invariance, PTL DEF Spec

-----------------------------------------------------------------------------
(* What follows.                                                           *)

(* When all messages arrive between two ticks of the master's timer, every *)
(* AuctionEnd names NUM_REPLICA hosts: declareAuctionWinners() waits for   *)
(* the bids of all nodes, and endAuction() for all of the winners.         *)
THEOREM FullReplicationHolds ==
  ASSUME PromptNetwork
  PROVE  Spec => []FullReplication
<1>1. IInv /\ PromptInv => FullReplication
  <2> SUFFICES ASSUME IInv, PromptInv, NEW e \in EndsPublished
               PROVE  Cardinality(e.winnerList) = NumReplica
    BY DEF FullReplication
  <2>1. e \in Ends(masterLog) /\ e.bucketId \in Buckets
    BY DEF EndsPublished, Ends, IInv, TypeOK, SyncTypeOK, MasterMessage
  <2>2. /\ e.winnerList # {}
        /\ e.winnerList = confirmedHosts[e.bucketId]
        /\ pendingHosts[e.bucketId] = {}
    BY <2>1 DEF IInv, MasterInv, Books, EndedBooks
  <2>3. HostsOf(e.bucketId) = e.winnerList
    BY <2>2 DEF HostsOf
  <2> QED
    BY <2>1, <2>2, <2>3 DEF PromptInv, FullInv
<1> QED
  BY <1>1, PromptInvariance, PTL

(* The timer never finds an auction running, whatever its time limit, so   *)
(* that each auction is concluded by the AuctionEnd that endAuction()      *)
(* publishes.                                                              *)
THEOREM AuctionsConcludeHolds ==
  ASSUME PromptNetwork
  PROVE  Spec => AuctionsConclude
<1>1. ASSUME IInv, PromptInv, [Next]_vars,
             currentAuctionId # NoAuction, currentAuctionId' # currentAuctionId
      PROVE  \E e \in masterLog' : e.type = "AuctionEnd" /\ e.auctionId = currentAuctionId
  <2>1. CASE MasterTimer
    BY <1>1, <2>1, TimerFindsNone DEF MasterTimer, PromptNetwork, Running
  <2>2. ASSUME NEW d \in toMaster, MasterMessageArrives(d)
        PROVE  \E e \in masterLog' : e.type = "AuctionEnd" /\ e.auctionId = currentAuctionId
    <3>1. PICK confirmed, pending :
            NextAuction(confirmed, pending,
                        {AuctionEndMsg(currentAuctionId, currentAuctionBucketId,
                                       confirmed[currentAuctionBucketId])})
      BY <1>1, <2>2 DEF MasterMessageArrives, MasterReceive, ProcessBid, ProcessWinAck, masterVars,
                        auctionVars
    <3>2. AuctionEndMsg(currentAuctionId, currentAuctionBucketId,
                        confirmed[currentAuctionBucketId]) \in masterLog'
      BY <3>1 DEF NextAuction, StartAuction, MasterPublish
    <3> QED
      BY <3>2 DEF AuctionEndMsg
  <2>3. CASE \E n \in Nodes : \E m \in masterLog : NodeMessageArrives(n, m)
    BY <1>1, <2>3 DEF NodeMessageArrives, masterVars, auctionVars
  <2>4. CASE \E n \in Nodes : NodeRestart(n)
    BY <1>1, <2>4 DEF NodeRestart, masterVars, auctionVars
  <2>5. CASE UNCHANGED vars
    BY <1>1, <2>5 DEF vars, masterVars, auctionVars
  <2> QED
    BY <1>1, <2>1, <2>2, <2>3, <2>4, <2>5 DEF Next
<1> QED
  BY <1>1, PromptInvariance, PTL DEF Spec, AuctionsConclude

(* When all messages arrive between two ticks of the master's timer, the   *)
(* bids of placeBid() spread the buckets evenly, whatever is drawn, as     *)
(* long as there are too few buckets for every node to have nine and one   *)
(* to have ten before the last is auctioned.                               *)
THEOREM LoadBalancedHolds ==
  ASSUME PromptNetwork,
         (Cardinality(Buckets) - 1) * NumReplica <= 9 * Cardinality(Nodes)
  PROVE  Spec => []LoadBalanced
<1>1. ASSUME IInv, PromptInv, LoadBalanced, [Next]_vars
      PROVE  LoadBalanced'
  <2>1. CASE HostsStay
    BY <1>1, <2>1, LoadsStay
  <2>2. CASE Declaration
    <3>1. ASSUME NEW theBids, NEW winners \in SUBSET Nodes,
                 \A bid \in theBids : Honest(bid.bidder, bid.amount),
                 BidderNames(theBids) = Nodes,
                 HighestBids(winners, theBids),
                 Running, Pending = {},
                 \A b \in Buckets : HostsOf(b)' = IF b = currentAuctionBucketId THEN winners
                                                  ELSE HostsOf(b)
          PROVE  LoadBalanced'
      <4>1. PICK b \in Buckets : b = currentAuctionBucketId
        BY <1>1, <3>1, RunningFacts
      <4>2. HostsOf(b)' = winners /\ \A c \in Buckets \ {b} : HostsOf(c)' = HostsOf(c)
        BY <3>1, <4>1
      <4> QED
        BY <1>1, <3>1, <4>1, <4>2, DeclarationBalances
    <3> QED
      BY <2>2, <3>1 DEF Declaration
  <2> QED
    BY <1>1, <2>1, <2>2, NextPrompt
<1>2. IInv /\ PromptInv /\ LoadBalanced /\ [Next]_vars => LoadBalanced'
  BY <1>1
<1> QED
  BY <1>2, InitPrompt, PromptInvariance, PTL DEF Spec

=============================================================================
