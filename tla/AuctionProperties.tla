-------------------------- MODULE AuctionProperties --------------------------
(***************************************************************************)
(* What the auctions promise to the workers and clients that rely on the   *)
(* placement of buckets, for a master that is not restarted.               *)
(***************************************************************************)
EXTENDS Auctions, AuctionWire

(* m_rng() does not return the 0 that stands for "no auction".  (The run   *)
(* zero_auction_id drops this assumption.)                                 *)
ASSUME NoAuctionAssumption == NoAuction \notin AuctionIds

(* Publications of the master by type.                                     *)
AuctionsPublished == {m \in masterLog : m.type = "Auction"}
WinsPublished     == {m \in masterLog : m.type = "Win"}
EndsPublished     == {m \in masterLog : m.type = "AuctionEnd"}

(* The winners declared in the auction with identifier id.                 *)
WinnersOf(id) == {w.winner : w \in {m \in WinsPublished : m.auctionId = id}}

-----------------------------------------------------------------------------
(* Safety, however many messages are lost, late or reordered.              *)

(* A bucket is given away once: whatever is late or lost, the master ends  *)
(* at most one auction of each bucket.  (Master::auction() only skips a    *)
(* bucket by its confirmedHosts, which is filled an ack at a time.)        *)
OneEndPerBucket ==
  \A e1, e2 \in EndsPublished : e1.bucketId = e2.bucketId => e1 = e2

(* Everybody who runs a worker for a bucket forwards inserts to the same   *)
(* hosts, and they are the hosts the master has on record, even for a node *)
(* whose m_buckets entry is the relic of an earlier, failed auction.       *)
WorkersAgree ==
  \A n \in Nodes : \A b \in serving[n] : hosts[n][b] = confirmedHosts[b]

(* The winner list of AuctionEnd is complete: it names every node that was *)
(* told it won this auction, so no acknowledged winner is left out of the  *)
(* replication and none of another auction slips in.                       *)
EndNamesAllWinners ==
  \A e \in EndsPublished : e.winnerList = WinnersOf(e.auctionId) /\ e.winnerList # {}

(* Winners are declared once in an auction: bids that arrive after the     *)
(* expected number was reached never start a second round of Win messages. *)
SingleDeclaration ==
  \A a \in AuctionsPublished : Cardinality(WinnersOf(a.auctionId)) <= NumReplica

(* What an interrupted auction leaves in pendingHosts is never mixed with  *)
(* the winners of the next one: a bucket has at most NUM_REPLICA hosts,    *)
(* pending and confirmed together.                                         *)
HostsBounded ==
  \A b \in Buckets : Cardinality(pendingHosts[b] \cup confirmedHosts[b]) <= NumReplica

(* A host the master counts on knows of it: as long as no node restarts,   *)
(* every confirmed host has the bucket in its m_buckets, so that it will   *)
(* start a worker when AuctionEnd reaches it.                              *)
ConfirmedHostsKnow ==
  restarts = 0 => \A b \in Buckets : \A n \in confirmedHosts[b] : b \in wonBuckets[n]

(* Whatever is published arrives as it was meant: an object that a member  *)
(* encodes and another one decodes has the same in all its fields, also in *)
(* those that the encoding leaves out.                                     *)
WireKeepsMessages ==
  \A m \in masterLog \cup {d.msg : d \in toMaster} :
    WireDecode(WireEncode(Object(m))) = Object(m)

(* The host list of a bucket is never written while a worker for it runs:  *)
(* the worker walks confirmedHosts on its own thread (worker.cpp:122) with *)
(* no lock, and bidder.cpp:97-101 clears and fills the map, one host after *)
(* the other, on the bidder's thread.  So an AuctionEnd that a node fetches*)
(* must not be for a bucket that it serves, also when it has restarted.    *)
NoRewriteUnderWorker ==
  [][\A n \in Nodes : \A m \in fetched'[n] \ fetched[n] :
       m.type = "AuctionEnd" => m.bucketId \notin serving[n]]_vars

(* The auctions implement ReplicaAssignment: a bucket is assigned when its *)
(* AuctionEnd is published, and a node's view is the Bucket its worker     *)
(* holds.                                                                  *)
Assignment ==
  [b \in Buckets |-> UNION {e.winnerList : e \in {m \in EndsPublished : m.bucketId = b}}]
View ==
  [n \in Nodes |-> [b \in Buckets |-> IF b \in serving[n] THEN hosts[n][b] ELSE {}]]

Placements == {S \in SUBSET Nodes : S # {} /\ Cardinality(S) <= NumReplica}

Abstract == INSTANCE ReplicaAssignment WITH assignment <- Assignment, view <- View

(* Every step of the master, of a bidder or of a restart is a step of the  *)
(* abstract assignment or leaves it as it is.                              *)
ImplementsAssignment == Abstract!Spec

-----------------------------------------------------------------------------
(* When the network is prompt, and liveness.                               *)

(* The hosts of a bucket in the books of the master.                       *)
HostLoad(n) == Cardinality({b \in Buckets : n \in pendingHosts[b] \cup confirmedHosts[b]})

(* Bids put the replicas where the load is least: in a prompt network no   *)
(* node is ever given two buckets more than another.                       *)
LoadBalanced == \A m, n \in Nodes : HostLoad(m) <= HostLoad(n) + 1

(* No bucket is given away to fewer hosts than it should have: in a prompt *)
(* network each AuctionEnd names NUM_REPLICA of them.  (endAuction() itself*)
(* publishes whatever hosts are confirmed.)                                *)
FullReplication == \A e \in EndsPublished : Cardinality(e.winnerList) = NumReplica

(* In a prompt network no auction is given up: the identifier of one that  *)
(* runs is replaced only in the step that publishes its AuctionEnd, even   *)
(* with a time limit that the first recheck after the start would exceed.  *)
AuctionsConclude ==
  [][currentAuctionId # NoAuction /\ currentAuctionId' # currentAuctionId =>
       \E e \in masterLog' : e.type = "AuctionEnd" /\ e.auctionId = currentAuctionId]_vars

(* When the network is prompt and the watcher lists every node, each       *)
(* bucket comes to be served on NUM_REPLICA nodes, for good.               *)
EveryBucketServed ==
  \A b \in Buckets : <>[](Cardinality({n \in Nodes : b \in serving[n]}) >= NumReplica)

(* No auction outlives its time limit: even when every message is lost the *)
(* master gives it up and becomes free to start another.                   *)
NoAuctionHangs ==
  \A id \in AuctionIds : currentAuctionId = id ~> currentAuctionId # id

=============================================================================
