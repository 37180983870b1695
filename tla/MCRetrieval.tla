------------------------------ MODULE MCRetrieval ------------------------------
(***************************************************************************)
(* Values for the model-checking runs of Retrieval.                        *)
(***************************************************************************)
EXTENDS Retrieval, TLC

CONSTANTS n1, n2, A, B, C, D, U

(* The first segment is in bucket 0, the others are in bucket 1.           *)
MCHashFunc == [g \in 0 .. (StoreSize - 1) \div SegmentsPerHash |-> IF g = 0 THEN 0 ELSE 1]

MCConfirmedHosts == [b \in Buckets |-> IF b = 0 THEN {n1} ELSE {n1, n2}]

(* Two files, two shorter ones of the same length, and a packet that does  *)
(* not say how long its file is.                                           *)
MCFileSize == (A :> 4) @@ (B :> 2) @@ (C :> 2) @@ (D :> 3) @@ (U :> 1)

=============================================================================
