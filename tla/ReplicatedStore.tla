----------------------------- MODULE ReplicatedStore -----------------------------
(***************************************************************************)
(* What putting a file into Kua promises: a segment is reported only when  *)
(* NumReplica of its hosts have had a copy, and a host loses its copies    *)
(* only by restarting.                                                     *)
(***************************************************************************)
EXTENDS Integers, FiniteSets

CONSTANTS Segments, Nodes, HostsOf, NumReplica

VARIABLES
  copies,    (* copies[s]: the hosts that have segment s.                  *)
  reported,  (* The segments the client has been told are replicated.      *)
  lost       (* lost[s]: the hosts that had segment s and restarted.       *)

vars == <<copies, reported, lost>>

Init ==
  /\ copies = [s \in Segments |-> {}]
  /\ reported = {}
  /\ lost = [s \in Segments |-> {}]

(* A host of segment s gets a copy of it. *)
Copy(s, n) ==
  /\ UNCHANGED <<reported, lost>>
  /\ copies' = [copies EXCEPT ![s] = @ \cup {n}]

(* Segments are reported, all of which were replicated: copies that are    *)
(* gone were there when their hosts restarted.                             *)
Report(S) ==
  /\ UNCHANGED lost
  /\ reported' = reported \cup S
  /\ \A s \in S : Cardinality(copies[s] \cup lost[s]) >= NumReplica
  /\ UNCHANGED copies

(* All that is at node n is lost. *)
Restart(n) ==
  /\ UNCHANGED reported
  /\ lost' = [s \in Segments |-> IF n \in copies[s] THEN lost[s] \cup {n} ELSE lost[s]]
  /\ copies' = [s \in Segments |-> copies[s] \ {n}]

Next ==
  \/ \E S \in SUBSET Segments : Report(S)
  \/ \E s \in Segments : \E n \in HostsOf[s] : Copy(s, n)
  \/ \E n \in Nodes : Restart(n)

Spec == Init /\ [][Next]_vars

=============================================================================
