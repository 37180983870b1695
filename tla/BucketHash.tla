------------------------------- MODULE BucketHash -------------------------------
(***************************************************************************)
(* How the names of segments hash to buckets (bucket.hpp).  Client and     *)
(* workers need to agree on it: a segment is stored by the workers of one  *)
(* bucket, and asked of them.                                              *)
(***************************************************************************)
EXTENDS Integers, FiniteSets

CONSTANTS
  Buckets,          (* 0 .. NUM_BUCKETS - 1                                *)
  StoreSize,        (* How many segments a file has, or the longest one.   *)
  SegmentsPerHash,  (* How many segments in a row hash alike: 100.         *)
  HashFunc          (* std::hash of a group of segments, modulo NUM_BUCKETS*)

ASSUME HashAssumption ==
  /\ StoreSize \in Nat \ {0}
  /\ SegmentsPerHash \in Nat \ {0}
  /\ HashFunc \in [0 .. (StoreSize - 1) \div SegmentsPerHash -> Buckets]

Segments == 0 .. StoreSize - 1

(* Bucket::idFromName() of the name of segment s. *)
IdFromName(s) == HashFunc[s \div SegmentsPerHash]

=============================================================================
