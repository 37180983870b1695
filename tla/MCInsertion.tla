------------------------------ MODULE MCInsertion ------------------------------
(***************************************************************************)
(* Values for the model-checking runs of Insertion.                        *)
(***************************************************************************)
EXTENDS Insertion

CONSTANTS n1, n2, n3

(* The first group of segments hashes to bucket 0, the others to bucket 1. *)
MCHashFunc == [g \in 0 .. (StoreSize - 1) \div SegmentsPerHash |-> IF g = 0 THEN 0 ELSE 1]

(* One host is of both buckets.                                            *)
MCConfirmedHosts == [b \in Buckets |-> IF b = 0 THEN {n1, n2} ELSE {n2, n3}]

=============================================================================
