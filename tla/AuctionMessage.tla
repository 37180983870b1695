--------------------------- MODULE AuctionMessage ---------------------------
(***************************************************************************)
(* The configuration of a Kua deployment (config-bundle.hpp) and the five  *)
(* messages of its bucket auctions (auction.hpp).  A name is a node, a     *)
(* winner list is a set: the code keeps host lists in a std::map keyed by  *)
(* name and carries them in an SVS version vector, which is a map again.   *)
(***************************************************************************)
EXTENDS Integers, FiniteSets

CONSTANTS
  Nodes,       (* The storage nodes, by their node prefix.                 *)
  Buckets,     (* The bucket ids, 0 .. NUM_BUCKETS - 1 in the code.        *)
  NumReplica,  (* NUM_REPLICA.                                             *)
  AuctionIds   (* What m_rng() may return: it bounds how many auctions.    *)

ASSUME NodesAssumption == IsFiniteSet(Nodes)
ASSUME BucketsAssumption == Buckets \subseteq Nat /\ IsFiniteSet(Buckets)
ASSUME NumReplicaAssumption == NumReplica \in Nat \ {0}

(* The value of m_currentAuctionId while no auction is running. *)
NoAuction == 0

AuctionMsg(id, b)     == [type |-> "Auction", auctionId |-> id, bucketId |-> b]
WinMsg(id, b, n)      == [type |-> "Win", auctionId |-> id, bucketId |-> b, winner |-> n]
AuctionEndMsg(id, b, hosts) ==
  [type |-> "AuctionEnd", auctionId |-> id, bucketId |-> b, winnerList |-> hosts]
BidMsg(id, b, amount) ==
  [type |-> "Bid", auctionId |-> id, bucketId |-> b, bidAmount |-> amount]
WinAckMsg(id, b)      == [type |-> "WinAck", auctionId |-> id, bucketId |-> b]

(* What the master publishes, and what a bidder publishes. *)
MasterMessage ==
  [type : {"Auction"}, auctionId : AuctionIds, bucketId : Buckets]
    \cup [type : {"Win"}, auctionId : AuctionIds, bucketId : Buckets, winner : Nodes]
    \cup [type : {"AuctionEnd"}, auctionId : AuctionIds, bucketId : Buckets,
          winnerList : SUBSET Nodes]
BidderMessage ==
  [type : {"Bid"}, auctionId : AuctionIds, bucketId : Buckets, bidAmount : Nat]
    \cup [type : {"WinAck"}, auctionId : AuctionIds, bucketId : Buckets]

=============================================================================
