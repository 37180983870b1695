----------------------------- MODULE AuctionSync -----------------------------
(***************************************************************************)
(* The SVS group /kua/sync/auction as the master and the bidders use it.   *)
(* A publication gets the next sequence number of its publisher and stays  *)
(* in the publisher's store; every other member learns the number from the *)
(* state vector and fetches each publication it misses, once, in whatever  *)
(* order the answers arrive, or never when the fetch fails ten times.  A   *)
(* member that starts afresh has an empty vector: it is told of, and       *)
(* fetches, everything the master ever published.                          *)
(*                                                                         *)
(* A lost publication is one that is never fetched, so loss needs no       *)
(* action of its own.                                                      *)
(***************************************************************************)
EXTENDS AuctionMessage

VARIABLES
  masterLog,  (* Everything the master has published.                      *)
  fetched,    (* fetched[n]: what node n has fetched since it started.     *)
  toMaster    (* Publications of the nodes the master has not fetched.     *)

syncVars == <<masterLog, fetched, toMaster>>

SyncTypeOK ==
  /\ masterLog \subseteq MasterMessage
  /\ fetched \in [Nodes -> SUBSET masterLog]
  /\ toMaster \subseteq [sender : Nodes, msg : BidderMessage]

SyncInit ==
  /\ masterLog = {}
  /\ fetched = [n \in Nodes |-> {}]
  /\ toMaster = {}

(* m_svs->publishData at the master, once for every message of msgs. *)
MasterPublish(msgs) == masterLog' = masterLog \cup msgs

(* m_svs->publishData at node n. *)
NodePublish(n, m) == toMaster' = toMaster \cup {[sender |-> n, msg |-> m]}

(* Bidder::updateCallback was told of m by the state vector and its fetch  *)
(* is answered.  A bidder fetches what the master publishes and nothing    *)
(* else.                                                                   *)
NodeFetch(n, m) ==
  /\ m \in masterLog \ fetched[n]
  /\ fetched' = [fetched EXCEPT ![n] = @ \cup {m}]

(* Master::updateCallback fetched a publication of a node. *)
MasterFetch(d) ==
  /\ d \in toMaster
  /\ toMaster' = toMaster \ {d}

=============================================================================
