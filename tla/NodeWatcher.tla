------------------------------ MODULE NodeWatcher ------------------------------
(***************************************************************************)
(* The health group (node-watcher.hpp, node-watcher.cpp), seen by one      *)
(* watcher: every node publishes a heartbeat about every three seconds, and*)
(* a node is listed if the watcher heard of a heartbeat of it in the last  *)
(* ten.  SVS only tells the watcher that there is a newer heartbeat than   *)
(* those it knows of; the heartbeat itself, with its timestamp, is never   *)
(* fetched.  The news may reach the watcher late or not at all, and a      *)
(* newer heartbeat, or another node's state vector, makes up for it.       *)
(***************************************************************************)
EXTENDS Integers

CONSTANTS
  Nodes,         (* The watched nodes.                                      *)
  HeartbeatMin,  (* m_retxDist.min(), in some unit of time.                 *)
  HeartbeatMax,  (* m_retxDist.max()                                        *)
  ExcludeTime,   (* EXCLUDE_TIME_MS                                         *)
  MaxLost        (* How many heartbeats in a row the network may keep from  *)
                 (* the watcher: a property of the network.                 *)

ASSUME TimesAssumption ==
  /\ HeartbeatMin \in Nat \ {0}
  /\ HeartbeatMax \in Nat
  /\ HeartbeatMin <= HeartbeatMax
  /\ ExcludeTime \in Nat
  /\ MaxLost \in Nat

VARIABLES
  alive,     (* alive[n]: node n's process runs.                            *)
  nextBeat,  (* nextBeat[n]: the time left on the timer of retxHeartbeat(). *)
  unheard,   (* unheard[n]: heartbeats the watcher has not been told of.    *)
  known,     (* The keys of m_nodeMap.                                      *)
  age        (* age[n]: now - m_nodeMap[n], no further than ExcludeTime.    *)

vars == <<alive, nextBeat, unheard, known, age>>

TypeOK ==
  /\ alive \in [Nodes -> BOOLEAN]
  /\ nextBeat \in [Nodes -> 0 .. HeartbeatMax]
  /\ unheard \in [Nodes -> 0 .. MaxLost + 1]
  /\ known \subseteq Nodes
  /\ age \in [Nodes -> 0 .. ExcludeTime]

(* The watcher starts when some nodes already run, and when some have run  *)
(* and died: the vectors of the others still tell of those.                *)
Init ==
  /\ alive \in [Nodes -> BOOLEAN]
  /\ nextBeat \in [Nodes -> 0 .. HeartbeatMax]
  /\ unheard \in [Nodes -> 0 .. MaxLost]
  /\ known = {}
  /\ age = [n \in Nodes |-> 0]

(* Mutant: a shorter exclusion than three heartbeats. *)
EarlyExclude(n) == age[n] + HeartbeatMax < ExcludeTime

(* Mutant: what was once heard of stays listed. *)
NeverExclude(n) == TRUE

(* The condition of getNodeList(). *)
Recent(n) == age[n] < ExcludeTime

(* NodeWatcher::getNodeList(). *)
NodeList == {n \in known : Recent(n)}

(* retxHeartbeat() *)
Heartbeat(n) ==
  /\ alive[n]
  /\ nextBeat[n] = 0
  /\ \E delay \in HeartbeatMin .. HeartbeatMax : nextBeat' = [nextBeat EXCEPT ![n] = delay]
  /\ unheard' = [unheard EXCEPT ![n] = @ + 1]
  /\ UNCHANGED <<alive, known, age>>

(* Mutant: the time is that of the node's own clock, which is ahead. *)
AheadStamp(n) == [age EXCEPT ![n] = -1]

(* m_nodeMap[n] = now *)
Stamp(n) == [age EXCEPT ![n] = 0]

(* updateCallback(): a state vector tells of newer heartbeats of n.        *)
Update(n) ==
  /\ unheard[n] > 0
  /\ unheard' = [unheard EXCEPT ![n] = 0]
  /\ known' = known \cup {n}
  /\ age' = Stamp(n)
  /\ UNCHANGED <<alive, nextBeat>>

(* Node n's process dies. *)
Die(n) ==
  /\ alive[n]
  /\ alive' = [alive EXCEPT ![n] = FALSE]
  /\ UNCHANGED <<nextBeat, unheard, known, age>>

(* Time passes: not beyond a timer that is due, and not while more than    *)
(* MaxLost heartbeats of a live node are unheard of.                       *)
Tick ==
  /\ \A n \in Nodes : alive[n] => nextBeat[n] > 0 /\ unheard[n] <= MaxLost
  /\ nextBeat' = [n \in Nodes |-> IF alive[n] THEN nextBeat[n] - 1 ELSE nextBeat[n]]
  /\ age' = [n \in Nodes |-> IF n \in known /\ age[n] < ExcludeTime THEN age[n] + 1 ELSE age[n]]
  /\ UNCHANGED <<alive, unheard, known>>

Next ==
  \/ \E n \in Nodes : Heartbeat(n)
  \/ \E n \in Nodes : Update(n)
  \/ \E n \in Nodes : Die(n)
  \/ Tick

(* Time goes on, timers fire, and news the network may not keep arrives.   *)
Fairness ==
  /\ WF_vars(Tick)
  /\ \A n \in Nodes : WF_vars(Heartbeat(n)) /\ WF_vars(Update(n))

Spec == Init /\ [][Next]_vars
FairSpec == Spec /\ Fairness

-----------------------------------------------------------------------------
(* A live node the watcher has heard of stays on its list, as long as the  *)
(* network does not keep more than MaxLost heartbeats in a row from it:    *)
(* with the times of the code that is two (3 * 3300 ms < 10000 ms).        *)
LiveNodeListed == \A n \in known : alive[n] => n \in NodeList

(* A node that is dead leaves the list for good, even when it died before  *)
(* the watcher started or its last heartbeats are told of very late.       *)
DeadNodeForgotten == \A n \in Nodes : [](~alive[n] => <>[](n \notin NodeList))

=============================================================================
