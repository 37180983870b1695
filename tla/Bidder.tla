------------------------------- MODULE Bidder -------------------------------
(***************************************************************************)
(* The bidder of each storage node (bidder.hpp, bidder.cpp).  It bids for  *)
(* every bucket that is auctioned, acknowledges the auctions it wins, and  *)
(* starts a worker for a bucket of its own when AuctionEnd names the       *)
(* bucket's hosts.  m_buckets is split into its key set, the hosts each    *)
(* Bucket holds and whether its worker has been made.                      *)
(***************************************************************************)
EXTENDS AuctionSync

CONSTANT RndBids  (* What m_rndBid may draw. *)

ASSUME RndBidsAssumption == RndBids \subseteq 1 .. 100

VARIABLES
  wonBuckets,  (* wonBuckets[n]: the keys of m_buckets                     *)
  hosts,       (* hosts[n][b]: m_buckets[b]->confirmedHosts                *)
  serving      (* serving[n]: the buckets whose worker runs                *)

bidderVars == <<wonBuckets, hosts, serving>>

BidderTypeOK ==
  /\ wonBuckets \in [Nodes -> SUBSET Buckets]
  /\ hosts \in [Nodes -> [Buckets -> SUBSET Nodes]]
  /\ serving \in [Nodes -> SUBSET Buckets]

BidderInit ==
  /\ wonBuckets = [n \in Nodes |-> {}]
  /\ hosts = [n \in Nodes |-> [b \in Buckets |-> {}]]
  /\ serving = [n \in Nodes |-> {}]

(* Mutant: the load does not lower the bid. *)
FlatBid(rnd, load) == rnd + 10000

(* Mutant: the load is taken off the bid. *)
PenalisedBid(rnd, load) == rnd - 10000 * load

(* The double is truncated when it is added to an int, and the random part *)
(* is whole: the sum is truncated exactly when the quotient is.            *)
BidAmount(rnd, load) == rnd + 10000 \div (load + 1)

(* The bidders's own measure of its load.                                  *)
Load(n) == Cardinality(wonBuckets[n])

(* case Auction, with placeBid().                                          *)
PlaceBid(n, m) ==
  /\ m.type = "Auction"
  /\ \E rnd \in RndBids :
       NodePublish(n, BidMsg(m.auctionId, m.bucketId, BidAmount(rnd, Load(n))))
  /\ UNCHANGED bidderVars

(* Mutant: a win is acknowledged but not noted. *)
NoteNothing(n, b) == wonBuckets

(* m_buckets gets the bucket unless it holds it already.                   *)
AddBucket(n, b) == [wonBuckets EXCEPT ![n] = @ \cup {b}]

(* case Win.  A Win for another node changes nothing.                      *)
AcceptWin(n, m) ==
  /\ m.type = "Win"
  /\ m.winner = n
  /\ NodePublish(n, WinAckMsg(m.auctionId, m.bucketId))
  /\ wonBuckets' = AddBucket(n, m.bucketId)
  /\ UNCHANGED <<hosts, serving>>

(* Only a bucket of this node's m_buckets is looked at.                    *)
Concerns(n, b) == b \in wonBuckets[n]

(* case AuctionEnd.                                                        *)
StartWorker(n, m) ==
  /\ m.type = "AuctionEnd"
  /\ UNCHANGED <<wonBuckets, toMaster>>
  /\ IF Concerns(n, m.bucketId)
       THEN /\ hosts' = [hosts EXCEPT ![n][m.bucketId] = m.winnerList]
            /\ serving' = [serving EXCEPT ![n] = @ \cup {m.bucketId}]
       ELSE UNCHANGED <<hosts, serving>>

(* What node n has yet to fetch, leaving out what it would do nothing about. *)
Awaited(n) == {m \in masterLog \ fetched[n] : m.type = "Win" => m.winner = n}

(* Bidder::processMasterMessage() on a publication node n has fetched.     *)
BidderReceive(n, m) ==
  /\ NodeFetch(n, m)
  /\ UNCHANGED masterLog
  /\ PlaceBid(n, m) \/ AcceptWin(n, m) \/ StartWorker(n, m)

=============================================================================
