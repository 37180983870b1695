------------------------------- MODULE Master -------------------------------
(***************************************************************************)
(* The auction master (master.hpp, master.cpp).  It auctions the buckets   *)
(* one at a time, lowest unassigned bucket first: it publishes Auction,    *)
(* collects one bid per node, publishes Win for the best NUM_REPLICA bids, *)
(* collects their acknowledgements and publishes AuctionEnd with the hosts *)
(* of the bucket.  Its handlers all run on one io_service thread, so each  *)
(* is one action, the handlers it calls included.                          *)
(***************************************************************************)
EXTENDS AuctionSync

CONSTANTS
  AuctionTimeLimit,  (* AUCTION_TIME_LIMIT, in rechecks of one second.     *)
  NodeLists          (* What NodeWatcher::getNodeList may return: any set  *)
                     (* of nodes recently heard of, alive or not.          *)

ASSUME AuctionTimeLimitAssumption == AuctionTimeLimit \in Nat
ASSUME NodeListsAssumption == NodeLists \subseteq SUBSET Nodes

VARIABLES
  initialized,             (* m_initialized                                *)
  confirmedHosts,          (* m_buckets[b].confirmedHosts                  *)
  pendingHosts,            (* m_buckets[b].pendingHosts                    *)
  currentAuctionId,        (* m_currentAuctionId                           *)
  currentAuctionBucketId,  (* m_currentAuctionBucketId                     *)
  numBidsExpected,         (* m_currentAuctionNumBidsExpected              *)
  currentAuctionTime,      (* m_currentAuctionTime                         *)
  currentAuctionBids       (* m_currentAuctionBids, one entry per bidder   *)

auctionVars == <<currentAuctionId, currentAuctionBucketId, numBidsExpected,
                 currentAuctionTime, currentAuctionBids>>
masterVars == <<initialized, confirmedHosts, pendingHosts, auctionVars>>

Bid == [bidder : Nodes, amount : Nat]

MasterTypeOK ==
  /\ initialized \in BOOLEAN
  /\ confirmedHosts \in [Buckets -> SUBSET Nodes]
  /\ pendingHosts \in [Buckets -> SUBSET Nodes]
  /\ currentAuctionId \in AuctionIds \cup {NoAuction}
  /\ currentAuctionBucketId \in Buckets \cup {0}
  /\ numBidsExpected \in Nat
  /\ currentAuctionTime \in Nat
  /\ currentAuctionBids \subseteq Bid

MasterInit ==
  /\ initialized = FALSE
  /\ confirmedHosts = [b \in Buckets |-> {}]
  /\ pendingHosts = [b \in Buckets |-> {}]
  /\ currentAuctionId = NoAuction
  /\ currentAuctionBucketId = 0
  /\ numBidsExpected = 0
  /\ currentAuctionTime = 0
  /\ currentAuctionBids = {}

-----------------------------------------------------------------------------
(* Starting an auction.                                                    *)

(* m_rng() draws 32 bits: an id that was drawn before (probability 2^-32   *)
(* at each draw) is left out.                                              *)
Draws == AuctionIds \ {m.auctionId : m \in masterLog}

(* Mutant: a bucket with too few hosts is auctioned again. *)
NeedsMoreHosts(b, confirmed) == Cardinality(confirmed[b]) < NumReplica

NeedsHosts(b, confirmed) == confirmed[b] = {}

(* The loop of Master::auction() stops at the first bucket with no host.   *)
FirstOpenBucket(b, confirmed) ==
  /\ NeedsHosts(b, confirmed)
  /\ \A c \in Buckets : NeedsHosts(c, confirmed) => b <= c

(* Mutant: the pending hosts of an interrupted auction are kept. *)
KeepPending(b, pending) == pending

ClearPending(b, pending) == [pending EXCEPT ![b] = {}]

(* Master::auction(unsigned int id).  `out` is what the same handler has   *)
(* published before this call.                                             *)
StartAuction(b, pending, out) ==
  \E id \in Draws, list \in NodeLists :
    /\ currentAuctionTime' = 0
    /\ currentAuctionId' = id
    /\ currentAuctionBucketId' = b
    /\ currentAuctionBids' = {}
    /\ numBidsExpected' = Cardinality(list)
    /\ pendingHosts' = ClearPending(b, pending)
    /\ MasterPublish(out \cup {AuctionMsg(id, b)})

(* Master::auction() while no auction runs, with the host maps as the      *)
(* calling handler leaves them.                                            *)
NextAuction(confirmed, pending, out) ==
  \/ \E b \in Buckets : /\ FirstOpenBucket(b, confirmed)
                        /\ StartAuction(b, pending, out)
  \/ /\ \A b \in Buckets : ~NeedsHosts(b, confirmed)
     /\ currentAuctionId' = NoAuction
     /\ pendingHosts' = pending
     /\ MasterPublish(out)
     /\ UNCHANGED <<currentAuctionBucketId, numBidsExpected, currentAuctionTime,
                    currentAuctionBids>>

(* Master::initialize(), which tries again every second.                   *)
Initialize ==
  /\ ~initialized
  /\ UNCHANGED <<confirmedHosts, fetched, toMaster>>
  /\ \/ /\ \E list \in NodeLists : Cardinality(list) < NumReplica
        /\ UNCHANGED <<initialized, pendingHosts, auctionVars, masterLog>>
     \/ /\ \E list \in NodeLists : Cardinality(list) >= NumReplica
        /\ initialized' = TRUE
        /\ NextAuction(confirmedHosts, pendingHosts, {})

AuctionTimedOut == currentAuctionTime > AuctionTimeLimit

(* Mutant: the time starts again with every recheck. *)
ResetTime == 0

TimeAfterRecheck == currentAuctionTime + 1

(* Master::auction() from its own one second timer.                        *)
Recheck ==
  /\ initialized
  /\ UNCHANGED <<initialized, confirmedHosts, fetched, toMaster>>
  /\ \/ /\ currentAuctionId = NoAuction
        /\ NextAuction(confirmedHosts, pendingHosts, {})
     \/ /\ currentAuctionId # NoAuction
        /\ currentAuctionId' = IF AuctionTimedOut THEN NoAuction ELSE currentAuctionId
        /\ currentAuctionTime' = TimeAfterRecheck
        /\ UNCHANGED <<currentAuctionBucketId, numBidsExpected, currentAuctionBids,
                       pendingHosts, masterLog>>

-----------------------------------------------------------------------------
(* Counting bids and acknowledgements.                                     *)

BidderNames(theBids) == {bid.bidder : bid \in theBids}

(* Mutant: any bid from the expected number on is the last. *)
AtLeastAllBidsIn(theBids) == Cardinality(theBids) >= numBidsExpected

(* Mutant: one more bid than expected is waited for. *)
MoreThanAllBidsIn(theBids) == Cardinality(theBids) > numBidsExpected

AllBidsIn(theBids) == Cardinality(theBids) = numBidsExpected

EnoughHosts(hosts) == Cardinality(hosts) >= NumReplica

(* Nobody outside `names` bid more than somebody inside: the last bids of  *)
(* the sorted vector.  std::sort orders equal amounts as it likes.         *)
HighestBids(names, theBids) ==
  \A high, low \in theBids :
    high.bidder \in names /\ low.bidder \notin names => high.amount >= low.amount

(* The bidders the loop of declareAuctionWinners() adds to `pending`: from *)
(* the highest bid down, up to and including the one that makes pending    *)
(* large enough, or all of them.                                           *)
DeclaredWinners(names, theBids, pending) ==
  /\ names # {}
  /\ names \subseteq BidderNames(theBids)
  /\ HighestBids(names, theBids)
  /\ EnoughHosts(pending \cup names) \/ names = BidderNames(theBids)
  /\ \E last \in names :
       \/ names = {last}
       \/ /\ HighestBids(names \ {last}, theBids)
          /\ ~EnoughHosts(pending \cup (names \ {last}))

(* Master::declareAuctionWinners().  It is called with at least one bid,   *)
(* so pendingHosts ends non-empty and its call of endAuction() is dead.    *)
DeclareAuctionWinners(theBids) ==
  LET b == currentAuctionBucketId
  IN \E winners \in SUBSET Nodes :
       /\ DeclaredWinners(winners, theBids, pendingHosts[b])
       /\ pendingHosts' = [pendingHosts EXCEPT ![b] = @ \cup winners]
       /\ MasterPublish({WinMsg(currentAuctionId, b, n) : n \in winners})

(* processMessage(), case Bid.                                             *)
ProcessBid(sender, msg) ==
  LET theBids == currentAuctionBids \cup {[bidder |-> sender, amount |-> msg.bidAmount]}
  IN /\ msg.type = "Bid"
     /\ IF sender \in BidderNames(currentAuctionBids)
          THEN UNCHANGED <<masterVars, masterLog>>
          ELSE /\ currentAuctionBids' = theBids
               /\ IF AllBidsIn(theBids)
                    THEN DeclareAuctionWinners(theBids)
                    ELSE UNCHANGED <<pendingHosts, masterLog>>
               /\ UNCHANGED <<initialized, confirmedHosts, currentAuctionId,
                              currentAuctionBucketId, numBidsExpected, currentAuctionTime>>

(* Mutant: the first acknowledgement ends the auction. *)
SomeConfirmed(pending, confirmed) == confirmed # {}

(* Every pending host of the bucket has acknowledged.                      *)
AllConfirmed(pending, confirmed) == pending = {}

(* processMessage(), case WinAck, with endAuction(), which goes on to the  *)
(* next auction.                                                           *)
ProcessWinAck(sender, msg) ==
  LET b         == currentAuctionBucketId
      pending   == [pendingHosts EXCEPT ![b] = @ \ {sender}]
      confirmed == [confirmedHosts EXCEPT ![b] =
                      IF sender \in pendingHosts[b] THEN @ \cup {sender} ELSE @]
  IN /\ msg.type = "WinAck"
     /\ confirmedHosts' = confirmed
     /\ UNCHANGED initialized
     /\ IF AllConfirmed(pending[b], confirmed[b])
          THEN NextAuction(confirmed, pending,
                           {AuctionEndMsg(currentAuctionId, b, confirmed[b])})
          ELSE /\ pendingHosts' = pending
               /\ UNCHANGED <<auctionVars, masterLog>>

IsCurrent(msg) ==
  /\ msg.auctionId = currentAuctionId
  /\ msg.bucketId = currentAuctionBucketId

(* Master::processMessage() on a publication the master has fetched.  A    *)
(* master that is not initialized fetches nothing.                         *)
MasterReceive(d) ==
  /\ MasterFetch(d)
  /\ UNCHANGED fetched
  /\ \/ /\ ~(initialized /\ IsCurrent(d.msg))
        /\ UNCHANGED <<masterVars, masterLog>>
     \/ /\ initialized /\ IsCurrent(d.msg)
        /\ ProcessBid(d.sender, d.msg)
     \/ /\ initialized /\ IsCurrent(d.msg)
        /\ ProcessWinAck(d.sender, d.msg)

=============================================================================
