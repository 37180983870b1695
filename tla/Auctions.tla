------------------------------ MODULE Auctions ------------------------------
(***************************************************************************)
(* The bucket auctions of a whole deployment: one master, a bidder on      *)
(* every node, and the SVS group between them.                             *)
(***************************************************************************)
EXTENDS Master, Bidder

CONSTANTS
  Prompt,      (* TRUE: everything published is fetched within a second,   *)
               (* before the master's next timer.                          *)
  MaxRestarts  (* Bound: how many times nodes restart.                     *)

ASSUME PromptAssumption == Prompt \in BOOLEAN
ASSUME MaxRestartsAssumption == MaxRestarts \in Nat

VARIABLE restarts  (* How many times a node has restarted. *)

vars == <<syncVars, masterVars, bidderVars, restarts>>

TypeOK ==
  /\ SyncTypeOK
  /\ MasterTypeOK
  /\ BidderTypeOK
  /\ restarts \in 0 .. MaxRestarts

Init ==
  /\ SyncInit
  /\ MasterInit
  /\ BidderInit
  /\ restarts = 0

(* Everything published has been fetched by everyone it concerns. *)
Quiescent == toMaster = {} /\ \A n \in Nodes : Awaited(n) = {}

MasterTimer ==
  /\ Prompt => Quiescent
  /\ Initialize \/ Recheck
  /\ UNCHANGED <<bidderVars, restarts>>

MasterMessageArrives(d) == MasterReceive(d) /\ UNCHANGED <<bidderVars, restarts>>

NodeMessageArrives(n, m) == BidderReceive(n, m) /\ UNCHANGED <<masterVars, restarts>>

(* Node n's process stops and is started again.  Nothing of a Bidder is    *)
(* kept on disk, and its SVS vector is empty, so it learns of the master's *)
(* publications anew.  What it published may still be on its way.          *)
NodeRestart(n) ==
  /\ restarts < MaxRestarts
  /\ restarts' = restarts + 1
  /\ wonBuckets' = [wonBuckets EXCEPT ![n] = {}]
  /\ hosts' = [hosts EXCEPT ![n] = [b \in Buckets |-> {}]]
  /\ serving' = [serving EXCEPT ![n] = {}]
  /\ fetched' = [fetched EXCEPT ![n] = {}]
  /\ UNCHANGED <<masterVars, masterLog, toMaster>>

Next ==
  \/ MasterTimer
  \/ \E d \in toMaster : MasterMessageArrives(d)
  \/ \E n \in Nodes : \E m \in masterLog : NodeMessageArrives(n, m)
  \/ \E n \in Nodes : NodeRestart(n)

Spec == Init /\ [][Next]_vars

(* The master's timer keeps firing, whatever becomes of the messages. *)
TimerSpec == Spec /\ WF_vars(MasterTimer)

(* Besides, every fetch is answered in the end: SVS repeats its vector and *)
(* retries a fetch ten times.                                              *)
FairSpec ==
  /\ TimerSpec
  /\ WF_vars(\E d \in toMaster : MasterMessageArrives(d))
  /\ \A n \in Nodes : WF_vars(\E m \in masterLog : NodeMessageArrives(n, m))

=============================================================================
