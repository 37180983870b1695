------------------------------ MODULE WorkerFetch ------------------------------
(***************************************************************************)
(* The stores of the workers (store-memory.hpp) and how they are read      *)
(* (Worker::fetch()).  That files get into them is Insertion: here it is   *)
(* one action, a packet of a file arrives at a host.                       *)
(***************************************************************************)
EXTENDS FetchInterests

CONSTANTS
  Nodes,
  ConfirmedHosts,  (* The hosts of each bucket.                            *)
  PossiblePuts     (* Bound: which sets of versions may be put.            *)

ASSUME PutsAssumption ==
  /\ ConfirmedHosts \in [Buckets -> SUBSET Nodes]
  /\ PossiblePuts \subseteq SUBSET Versions

VARIABLES
  puts,  (* The versions that clients put, before the get or during it.    *)
  store  (* store[n][b]: the packets in m_map of the worker of bucket b at *)
         (* node n, one of a name at most.                                 *)

storeVars == <<puts, store>>

StoreTypeOK ==
  /\ puts \in PossiblePuts
  /\ store \in [Nodes -> [Buckets -> SUBSET Packet]]

StoreInit ==
  /\ puts \in PossiblePuts
  /\ store = [n \in Nodes |-> [b \in Buckets |-> {}]]

-----------------------------------------------------------------------------
(* StoreMemory::put(): a packet takes the place of one with the same name. *)
StorePut(map, p) == {q \in map : q.segment # p.segment} \cup {p}

(* StoreMemory::get(): the packet of that name, if there is one.           *)
StoreGet(map, s) == {q \in map : q.segment = s}

(* A packet of a file that is being put gets to a host of its bucket.      *)
(* Several puts of the name may overtake each other.                       *)
Inserted(n, p) ==
  LET b == IdFromName(p.segment) IN
  /\ n \in ConfirmedHosts[b]
  /\ p.version \in puts
  /\ p \in PacketsOf(p.version) \ store[n][b]
  /\ store' = [store EXCEPT ![n][b] = StorePut(@, p)]
  /\ UNCHANGED <<puts, interestVars>>

(* Mutant: the Interest goes to the bucket of the file's first segment. *)
FirstBucket(s) == IdFromName(0)

(* The bucket that sendFETCH() puts in the forwarding hint.                *)
HintedBucket(s) == IdFromName(s)

(* fetch(): a worker of the bucket receives the Interest.  A worker that   *)
(* does not have the segment is silent.                                    *)
Fetch(n, s) ==
  LET b == HintedBucket(s) IN
  /\ s \in asked
  /\ n \in ConfirmedHosts[b]
  /\ asked' = asked \ {s}
  /\ answers' = answers \cup StoreGet(store[n][b], s)
  /\ UNCHANGED storeVars

WorkerNext ==
  \/ \E n \in Nodes, p \in Packet : Inserted(n, p)
  \/ \E n \in Nodes, s \in Segments : Fetch(n, s)

=============================================================================
