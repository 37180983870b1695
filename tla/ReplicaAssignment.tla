-------------------------- MODULE ReplicaAssignment --------------------------
(***************************************************************************)
(* What the auctions are for, without auctions: each bucket is assigned    *)
(* once, for good, to one of the Placements (in Kua: one to NUM_REPLICA    *)
(* nodes), and a node that runs a worker for a bucket knows exactly those. *)
(***************************************************************************)
CONSTANTS
  Nodes, Buckets,
  Placements  (* The sets of nodes a bucket may be assigned to, {} is none. *)

VARIABLES
  assignment,  (* The hosts of each bucket, {} until it is assigned.       *)
  view         (* view[n][b]: the hosts n's worker for b replicates to, {} *)
               (* while n runs no worker for b.                            *)

vars == <<assignment, view>>

Init ==
  /\ assignment = [b \in Buckets |-> {}]
  /\ view = [n \in Nodes |-> [b \in Buckets |-> {}]]

(* A bucket without hosts is given some. *)
Assign(b, chosen) ==
  /\ assignment[b] = {}
  /\ chosen \in Placements
  /\ assignment' = [assignment EXCEPT ![b] = chosen]
  /\ UNCHANGED view

(* A node starts to serve a bucket that has been assigned. *)
Adopt(n, b) ==
  /\ assignment[b] # {}
  /\ view' = [view EXCEPT ![n][b] = assignment[b]]
  /\ UNCHANGED assignment

(* A node starts afresh. *)
Forget(n) ==
  /\ view' = [view EXCEPT ![n] = [b \in Buckets |-> {}]]
  /\ UNCHANGED assignment

Next ==
  \/ \E b \in Buckets, chosen \in Placements : Assign(b, chosen)
  \/ \E n \in Nodes, b \in Buckets : Adopt(n, b)
  \/ \E n \in Nodes : Forget(n)

Spec == Init /\ [][Next]_vars

=============================================================================
