---------------------------- MODULE AuctionClaims ----------------------------
(***************************************************************************)
(* What comments of the source say of the auctions and the code does not   *)
(* keep.  Each is refuted by a run of its own.                             *)
(***************************************************************************)
EXTENDS Auctions

EndedBuckets == {m.bucketId : m \in {e \in masterLog : e.type = "AuctionEnd"}}

(* bidder.hpp:46, of m_buckets: "Buckets won by this node".  A node that   *)
(* makes a worker for one of them is one of the bucket's hosts.            *)
ServesOnlyWonBuckets ==
  \A n \in Nodes : \A b \in serving[n] : n \in hosts[n][b]

(* master.hpp:56: "End the auction with the final message".  A bucket that *)
(* a node has been confirmed for gets its final message in the end.        *)
ConfirmedBucketsEnd ==
  \A b \in Buckets : confirmedHosts[b] # {} ~> b \in EndedBuckets

(* master.hpp:86, of m_currentAuctionId: "Identifier for current auction.  *)
(* 0 if no auction."  So an auction that is running is neither forgotten   *)
(* nor followed by the next before it ended or ran out of time.            *)
RunningAuctionNotSuperseded ==
  [][\A m \in masterLog' \ masterLog :
       m.type = "Auction" /\ masterLog # {} =>
         \/ currentAuctionTime > AuctionTimeLimit
         \/ \E e \in masterLog' : e.type = "AuctionEnd" /\ e.bucketId = currentAuctionBucketId
    ]_vars

=============================================================================
