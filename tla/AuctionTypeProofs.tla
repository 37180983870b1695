--------------------------- MODULE AuctionTypeProofs ---------------------------
(***************************************************************************)
(* Type correctness of the auctions, for every number of nodes, buckets,   *)
(* replicas and auctions, every restart bound and any loss, delay or       *)
(* reordering; and that the encoding of the messages loses nothing of what *)
(* the members of the auctions put into it.                                *)
(***************************************************************************)
EXTENDS AuctionProperties, FiniteSetTheorems, TLAPS

(* A list of nodes has a natural number of entries.                        *)
LEMMA NodeSetsFinite ==
  ASSUME NEW S \in SUBSET Nodes
  PROVE  IsFiniteSet(S) /\ Cardinality(S) \in Nat
BY NodesAssumption, FS_Subset, FS_CardinalityType

(* Every bid is a natural number.                                          *)
LEMMA BidAmountType ==
  ASSUME NEW rnd \in RndBids, NEW load \in Nat
  PROVE  BidAmount(rnd, load) \in Nat
BY RndBidsAssumption, SMT DEF BidAmount

(* The load of a node is a natural number.                                 *)
LEMMA LoadType ==
  ASSUME BidderTypeOK, NEW n \in Nodes
  PROVE  Load(n) \in Nat
BY BucketsAssumption, FS_Subset, FS_CardinalityType DEF BidderTypeOK, Load

(* What the master does between auctions keeps the types.                  *)
LEMMA NextAuctionType ==
  ASSUME TypeOK,
         NEW confirmed \in [Buckets -> SUBSET Nodes],
         NEW pending \in [Buckets -> SUBSET Nodes],
         NEW out \in SUBSET MasterMessage,
         NextAuction(confirmed, pending, out)
  PROVE  /\ currentAuctionId' \in AuctionIds \cup {NoAuction}
         /\ currentAuctionBucketId' \in Buckets \cup {0}
         /\ numBidsExpected' \in Nat
         /\ currentAuctionTime' \in Nat
         /\ currentAuctionBids' \subseteq Bid
         /\ pendingHosts' \in [Buckets -> SUBSET Nodes]
         /\ masterLog \subseteq masterLog'
         /\ masterLog' \subseteq MasterMessage
<1>1. CASE \E b \in Buckets : FirstOpenBucket(b, confirmed) /\ StartAuction(b, pending, out)
  <2>1. PICK b \in Buckets, id \in Draws, list \in NodeLists :
          /\ currentAuctionTime' = 0
          /\ currentAuctionId' = id
          /\ currentAuctionBucketId' = b
          /\ currentAuctionBids' = {}
          /\ numBidsExpected' = Cardinality(list)
          /\ pendingHosts' = ClearPending(b, pending)
          /\ MasterPublish(out \cup {AuctionMsg(id, b)})
    BY <1>1 DEF StartAuction
  <2>2. id \in AuctionIds /\ AuctionMsg(id, b) \in MasterMessage
    BY DEF Draws, AuctionMsg, MasterMessage
  <2>3. Cardinality(list) \in Nat
    BY NodeListsAssumption, NodeSetsFinite
  <2>4. pendingHosts' \in [Buckets -> SUBSET Nodes]
    BY <2>1 DEF ClearPending
  <2> QED
    BY <2>1, <2>2, <2>3, <2>4 DEF MasterPublish, TypeOK, SyncTypeOK
<1>2. CASE /\ currentAuctionId' = NoAuction
           /\ pendingHosts' = pending
           /\ MasterPublish(out)
           /\ UNCHANGED <<currentAuctionBucketId, numBidsExpected, currentAuctionTime,
                          currentAuctionBids>>
  BY <1>2 DEF MasterPublish, TypeOK, SyncTypeOK, MasterTypeOK
<1> QED
  BY <1>1, <1>2 DEF NextAuction

(* The timer of the master keeps the types.                                *)
LEMMA TimerType ==
  ASSUME TypeOK, MasterTimer
  PROVE  TypeOK'
<1>1. CASE Initialize
  <2>1. CASE UNCHANGED <<initialized, pendingHosts, auctionVars, masterLog>>
    BY <1>1, <2>1 DEF MasterTimer, Initialize, auctionVars, bidderVars, TypeOK, SyncTypeOK,
                      MasterTypeOK, BidderTypeOK
  <2>2. CASE initialized' = TRUE /\ NextAuction(confirmedHosts, pendingHosts, {})
    BY <1>1, <2>2, NextAuctionType
    DEF MasterTimer, Initialize, bidderVars, TypeOK, SyncTypeOK, MasterTypeOK, BidderTypeOK
  <2> QED
    BY <1>1, <2>1, <2>2 DEF Initialize
<1>2. CASE Recheck
  <2>1. CASE NextAuction(confirmedHosts, pendingHosts, {})
    BY <1>2, <2>1, NextAuctionType
    DEF MasterTimer, Recheck, bidderVars, TypeOK, SyncTypeOK, MasterTypeOK, BidderTypeOK
  <2>2. CASE /\ currentAuctionId' = IF AuctionTimedOut THEN NoAuction ELSE currentAuctionId
             /\ currentAuctionTime' = TimeAfterRecheck
             /\ UNCHANGED <<currentAuctionBucketId, numBidsExpected, currentAuctionBids,
                            pendingHosts, masterLog>>
    BY <1>2, <2>2
    DEF MasterTimer, Recheck, TimeAfterRecheck, bidderVars, TypeOK, SyncTypeOK, MasterTypeOK,
        BidderTypeOK
  <2> QED
    BY <1>2, <2>1, <2>2 DEF Recheck
<1> QED
  BY <1>1, <1>2 DEF MasterTimer

(* The master's handler of a publication keeps the types.                  *)
LEMMA MasterMessageType ==
  ASSUME TypeOK, NEW d \in toMaster, MasterMessageArrives(d)
  PROVE  TypeOK'
<1> DEFINE b == currentAuctionBucketId
<1>1. /\ d.sender \in Nodes
      /\ d.msg \in BidderMessage
      /\ toMaster' \subseteq [sender : Nodes, msg : BidderMessage]
      /\ fetched' = fetched
      /\ UNCHANGED <<bidderVars, restarts>>
  BY DEF MasterMessageArrives, MasterReceive, MasterFetch, TypeOK, SyncTypeOK
<1>2. CASE UNCHANGED <<masterVars, masterLog>>
  BY <1>1, <1>2
  DEF masterVars, auctionVars, bidderVars, TypeOK, SyncTypeOK, MasterTypeOK, BidderTypeOK
<1>3. ASSUME IsCurrent(d.msg)
      PROVE  currentAuctionId \in AuctionIds /\ b \in Buckets
  BY <1>1, <1>3 DEF IsCurrent, BidderMessage
<1>4. CASE IsCurrent(d.msg) /\ ProcessBid(d.sender, d.msg)
  <2> DEFINE theBids == currentAuctionBids \cup {[bidder |-> d.sender, amount |-> d.msg.bidAmount]}
  <2>1. CASE d.sender \in BidderNames(currentAuctionBids)
    BY <1>4, <2>1, <1>2 DEF ProcessBid
  <2>2. CASE d.sender \notin BidderNames(currentAuctionBids)
    <3>1. /\ currentAuctionBids' = theBids
          /\ \/ DeclareAuctionWinners(theBids)
             \/ UNCHANGED <<pendingHosts, masterLog>>
          /\ UNCHANGED <<initialized, confirmedHosts, currentAuctionId,
                         currentAuctionBucketId, numBidsExpected, currentAuctionTime>>
      BY <1>4, <2>2 DEF ProcessBid
    <3>2. d.msg.bidAmount \in Nat
      BY <1>1, <1>4 DEF ProcessBid, BidderMessage
    <3>3. currentAuctionBids' \subseteq Bid
      BY <1>1, <3>1, <3>2 DEF Bid, TypeOK, MasterTypeOK
    <3>4. CASE UNCHANGED <<pendingHosts, masterLog>>
      BY <1>1, <3>1, <3>3, <3>4
      DEF bidderVars, TypeOK, SyncTypeOK, MasterTypeOK, BidderTypeOK
    <3>5. CASE DeclareAuctionWinners(theBids)
      <4>1. PICK winners \in SUBSET Nodes :
              /\ pendingHosts' = [pendingHosts EXCEPT ![b] = @ \cup winners]
              /\ MasterPublish({WinMsg(currentAuctionId, b, n) : n \in winners})
        BY <3>5 DEF DeclareAuctionWinners
      <4>2. {WinMsg(currentAuctionId, b, n) : n \in winners} \subseteq MasterMessage
        BY <1>3, <1>4 DEF WinMsg, MasterMessage
      <4>3. pendingHosts' \in [Buckets -> SUBSET Nodes]
        BY <4>1, <1>3, <1>4 DEF TypeOK, MasterTypeOK
      <4> QED
        BY <1>1, <3>1, <3>3, <4>1, <4>2, <4>3
        DEF MasterPublish, bidderVars, TypeOK, SyncTypeOK, MasterTypeOK, BidderTypeOK
    <3> QED
      BY <3>1, <3>4, <3>5
  <2> QED
    BY <2>1, <2>2
<1>5. CASE IsCurrent(d.msg) /\ ProcessWinAck(d.sender, d.msg)
  <2> DEFINE pending   == [pendingHosts EXCEPT ![b] = @ \ {d.sender}]
             confirmed == [confirmedHosts EXCEPT ![b] =
                             IF d.sender \in pendingHosts[b] THEN @ \cup {d.sender} ELSE @]
  <2>1. /\ pending \in [Buckets -> SUBSET Nodes]
        /\ confirmed \in [Buckets -> SUBSET Nodes]
    BY <1>1, <1>3, <1>5 DEF TypeOK, MasterTypeOK
  <2>2. confirmedHosts' = confirmed /\ UNCHANGED initialized
    BY <1>5 DEF ProcessWinAck
  <2>3. CASE pendingHosts' = pending /\ UNCHANGED <<auctionVars, masterLog>>
    BY <1>1, <2>1, <2>2, <2>3
    DEF auctionVars, bidderVars, TypeOK, SyncTypeOK, MasterTypeOK, BidderTypeOK
  <2>4. CASE NextAuction(confirmed, pending, {AuctionEndMsg(currentAuctionId, b, confirmed[b])})
    <3>1. {AuctionEndMsg(currentAuctionId, b, confirmed[b])} \in SUBSET MasterMessage
      BY <1>3, <1>5, <2>1 DEF AuctionEndMsg, MasterMessage
    <3> HIDE DEF pending, confirmed
    <3> QED
      BY <1>1, <2>1, <2>2, <2>4, <3>1, NextAuctionType
      DEF bidderVars, TypeOK, SyncTypeOK, MasterTypeOK, BidderTypeOK
  <2> QED
    BY <1>5, <2>3, <2>4 DEF ProcessWinAck
<1> QED
  BY <1>2, <1>4, <1>5 DEF MasterMessageArrives, MasterReceive

(* A bidder's handler of a publication keeps the types.                    *)
LEMMA NodeMessageType ==
  ASSUME TypeOK, NEW n \in Nodes, NEW m \in masterLog, NodeMessageArrives(n, m)
  PROVE  TypeOK'
<1>1. m \in MasterMessage
  BY DEF TypeOK, SyncTypeOK
<1>2. /\ masterLog' = masterLog
      /\ fetched' \in [Nodes -> SUBSET masterLog']
      /\ UNCHANGED <<masterVars, restarts>>
  BY DEF NodeMessageArrives, BidderReceive, NodeFetch, TypeOK, SyncTypeOK
<1>3. CASE PlaceBid(n, m)
  <2>1. PICK rnd \in RndBids :
          NodePublish(n, BidMsg(m.auctionId, m.bucketId, BidAmount(rnd, Load(n))))
    BY <1>3 DEF PlaceBid
  <2>2. m.auctionId \in AuctionIds /\ m.bucketId \in Buckets
    BY <1>1 DEF MasterMessage
  <2>3. BidAmount(rnd, Load(n)) \in Nat
    BY BidAmountType, LoadType DEF TypeOK
  <2>4. BidMsg(m.auctionId, m.bucketId, BidAmount(rnd, Load(n))) \in BidderMessage
    BY <2>2, <2>3 DEF BidMsg, BidderMessage
  <2> QED
    BY <1>2, <1>3, <2>1, <2>4
    DEF PlaceBid, NodePublish, masterVars, auctionVars, bidderVars, TypeOK, SyncTypeOK,
        MasterTypeOK, BidderTypeOK
<1>4. CASE AcceptWin(n, m)
  <2>1. m.auctionId \in AuctionIds /\ m.bucketId \in Buckets
    BY <1>1 DEF MasterMessage
  <2>2. WinAckMsg(m.auctionId, m.bucketId) \in BidderMessage
    BY <2>1 DEF WinAckMsg, BidderMessage
  <2> QED
    BY <1>2, <1>4, <2>1, <2>2
    DEF AcceptWin, AddBucket, NodePublish, masterVars, auctionVars, TypeOK, SyncTypeOK,
        MasterTypeOK, BidderTypeOK
<1>5. CASE StartWorker(n, m)
  <2>1. m.bucketId \in Buckets /\ m.winnerList \in SUBSET Nodes
    BY <1>1, <1>5 DEF StartWorker, MasterMessage
  <2>2. hosts' \in [Nodes -> [Buckets -> SUBSET Nodes]]
    <3>1. CASE Concerns(n, m.bucketId)
      <4>1. hosts' = [hosts EXCEPT ![n] = [hosts[n] EXCEPT ![m.bucketId] = m.winnerList]]
        BY <1>5, <3>1 DEF StartWorker
      <4>2. hosts[n] \in [Buckets -> SUBSET Nodes]
        BY DEF TypeOK, BidderTypeOK
      <4>3. [hosts[n] EXCEPT ![m.bucketId] = m.winnerList] \in [Buckets -> SUBSET Nodes]
        BY <2>1, <4>2
      <4> QED
        BY <4>1, <4>3 DEF TypeOK, BidderTypeOK
    <3>2. CASE ~Concerns(n, m.bucketId)
      BY <1>5, <3>2 DEF StartWorker, TypeOK, BidderTypeOK
    <3> QED
      BY <3>1, <3>2
  <2>3. serving' \in [Nodes -> SUBSET Buckets]
    <3>1. serving \in [Nodes -> SUBSET Buckets]
      BY DEF TypeOK, BidderTypeOK
    <3>2. serving[n] \cup {m.bucketId} \in SUBSET Buckets
      BY <2>1, <3>1
    <3>3. \/ serving' = [serving EXCEPT ![n] = serving[n] \cup {m.bucketId}]
          \/ serving' = serving
      BY <1>5 DEF StartWorker
    <3> QED
      BY <3>1, <3>2, <3>3
  <2> QED
    BY <1>2, <1>5, <2>2, <2>3
    DEF StartWorker, masterVars, auctionVars, TypeOK, SyncTypeOK, MasterTypeOK, BidderTypeOK
<1> QED
  BY <1>3, <1>4, <1>5 DEF NodeMessageArrives, BidderReceive

(* A restart keeps the types.                                              *)
LEMMA RestartType ==
  ASSUME TypeOK, NEW n \in Nodes, NodeRestart(n)
  PROVE  TypeOK'
BY MaxRestartsAssumption
DEF NodeRestart, masterVars, auctionVars, TypeOK, SyncTypeOK, MasterTypeOK, BidderTypeOK

(* Every step keeps the types.                                             *)
LEMMA NextType == TypeOK /\ [Next]_vars => TypeOK'
<1> SUFFICES ASSUME TypeOK, [Next]_vars PROVE TypeOK'
  OBVIOUS
<1>1. CASE MasterTimer
  BY <1>1, TimerType
<1>2. ASSUME NEW d \in toMaster, MasterMessageArrives(d) PROVE TypeOK'
  BY <1>2, MasterMessageType
<1>3. ASSUME NEW n \in Nodes, NEW m \in masterLog, NodeMessageArrives(n, m) PROVE TypeOK'
  BY <1>3, NodeMessageType
<1>4. ASSUME NEW n \in Nodes, NodeRestart(n) PROVE TypeOK'
  BY <1>4, RestartType
<1>5. CASE UNCHANGED vars
  BY <1>5
  DEF vars, syncVars, masterVars, auctionVars, bidderVars, TypeOK, SyncTypeOK, MasterTypeOK,
      BidderTypeOK
<1> QED
  BY <1>1, <1>2, <1>3, <1>4, <1>5 DEF Next

(* The initial state has the types.                                        *)
LEMMA InitType == Init => TypeOK
<1> SUFFICES ASSUME Init PROVE TypeOK
  OBVIOUS
<1>1. SyncTypeOK
  BY DEF Init, SyncInit, SyncTypeOK
<1>2. MasterTypeOK
  BY DEF Init, MasterInit, MasterTypeOK
<1>3. BidderTypeOK
  BY DEF Init, BidderInit, BidderTypeOK
<1>4. restarts \in 0 .. MaxRestarts
  BY MaxRestartsAssumption DEF Init
<1> QED
  BY <1>1, <1>2, <1>3, <1>4 DEF TypeOK

(* Type correctness: no counter underflows, and no message names a node, a *)
(* bucket or an auction there is not.                                      *)
THEOREM TypeCorrect == Spec => []TypeOK
BY InitType, NextType, PTL DEF Spec

-----------------------------------------------------------------------------
(* The encoding of the messages.                                           *)

(* What wireEncode() leaves out is what the constructor leaves unset: an   *)
(* object that carries a message is the same after encoding and decoding.  *)
LEMMA RoundTrip ==
  ASSUME NEW m \in MasterMessage \cup BidderMessage
  PROVE  WireDecode(WireEncode(Object(m))) = Object(m)
<1> DEFINE o == Object(m)
           Fields == {"messageType", "auctionId", "bucketId", "bidAmount", "winner", "winnerList"}
<1>1. /\ o.bidAmount = {} \/ o.messageType = "Bid"
      /\ DOMAIN o = Fields
      /\ o = [f \in Fields |-> o[f]]
  BY DEF Object, Optional
<1>2. ASSUME NEW f \in Fields, f \notin Elements(o)
      PROVE  o[f] = {}
  BY <1>1, <1>2 DEF Elements
<1>3. ASSUME NEW f \in Elements(o)
      PROVE  WireEncode(o)[f] = o[f]
  BY DEF WireEncode
<1>4. WireDecode(WireEncode(o)) = [f \in Fields |-> o[f]]
  <2>1. DOMAIN WireEncode(o) = Elements(o)
    BY DEF WireEncode
  <2>2. ASSUME NEW f \in Fields
        PROVE  (IF f \in DOMAIN WireEncode(o) THEN WireEncode(o)[f] ELSE {}) = o[f]
    BY <1>2, <1>3, <2>1
  <2> QED
    BY <2>2 DEF WireDecode
<1> QED
  BY <1>1, <1>4

(* Every message that is published, by the master or by a bidder, arrives  *)
(* as it was meant.                                                        *)
THEOREM WireKeepsMessagesHolds == Spec => []WireKeepsMessages
<1>1. ASSUME TypeOK
      PROVE  WireKeepsMessages
  <2>1. masterLog \subseteq MasterMessage /\ \A d \in toMaster : d.msg \in BidderMessage
    BY <1>1 DEF TypeOK, SyncTypeOK
  <2> QED
    BY <2>1, RoundTrip DEF WireKeepsMessages
<1> QED
  BY <1>1, TypeCorrect, PTL

=============================================================================
