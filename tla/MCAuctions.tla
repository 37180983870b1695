------------------------------ MODULE MCAuctions ------------------------------
(***************************************************************************)
(* Definitions for the model-checking runs of AuctionProperties.           *)
(***************************************************************************)
EXTENDS AuctionProperties, TLC

(* Nothing distinguishes one node, or one identifier, from another.        *)
MCSymmetry == Permutations(Nodes) \cup Permutations(AuctionIds)

(* Bound: three auctions, or two of them and a restart.                    *)
TwoAuctionsWithRestart == restarts > 0 => Cardinality(AuctionsPublished) <= 2

=============================================================================
