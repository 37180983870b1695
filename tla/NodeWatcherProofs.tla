--------------------------- MODULE NodeWatcherProofs ---------------------------
(***************************************************************************)
(* When the patience of the watcher suffices, whatever the periods are: a  *)
(* live node stays listed if MaxLost + 1 of the longest periods fit into   *)
(* the exclusion time.                                                     *)
(***************************************************************************)
EXTENDS NodeWatcher, TLAPS

(* The age that what the watcher knows of a node can reach when the network*)
(* kept `lost' later heartbeats from it.                                   *)
LongestGap(lost) == (lost + 1) * HeartbeatMax

(* A node's next heartbeat comes in time, as far as MaxLost of them may be *)
(* unheard of; with one more unheard of no time has passed since it.       *)
BeatsInTime ==
  \A n \in Nodes : alive[n] =>
    /\ nextBeat[n] = 0 => unheard[n] <= MaxLost
    /\ n \in known => /\ unheard[n] <= MaxLost =>
                           age[n] + nextBeat[n] <= LongestGap(unheard[n])
                      /\ age[n] <= LongestGap(MaxLost)

IInv == TypeOK /\ BeatsInTime

(* Losing more heartbeats makes the gap longer. *)
LEMMA GapGrows ==
  ASSUME NEW lost \in Nat, lost <= MaxLost
  PROVE  /\ LongestGap(lost) \in Nat
         /\ LongestGap(lost) <= LongestGap(MaxLost)
         /\ LongestGap(lost + 1) = LongestGap(lost) + HeartbeatMax
         /\ HeartbeatMax <= LongestGap(lost)
<1>1. LongestGap(lost) = lost * HeartbeatMax + HeartbeatMax
  BY TimesAssumption DEF LongestGap
<1>2. LongestGap(MaxLost) = lost * HeartbeatMax + (MaxLost - lost) * HeartbeatMax + HeartbeatMax
  BY TimesAssumption DEF LongestGap
<1>3. lost * HeartbeatMax \in Nat /\ (MaxLost - lost) * HeartbeatMax \in Nat
  BY TimesAssumption
<1>4. LongestGap(lost + 1) = lost * HeartbeatMax + HeartbeatMax + HeartbeatMax
  BY TimesAssumption DEF LongestGap
<1> QED
  BY <1>1, <1>2, <1>3, <1>4, TimesAssumption

(* The watcher knows of nobody when it is constructed. *)
LEMMA InitInv == Init => IInv
BY TimesAssumption DEF Init, IInv, TypeOK, BeatsInTime

(* retxHeartbeat() comes when the last period is over. *)
LEMMA HeartbeatInv ==
  ASSUME IInv, NEW n \in Nodes, Heartbeat(n)
  PROVE  IInv'
<1>1. PICK delay \in HeartbeatMin .. HeartbeatMax : nextBeat' = [nextBeat EXCEPT ![n] = delay]
  BY DEF Heartbeat
<1>2. delay \in 1 .. HeartbeatMax /\ unheard[n] \in 0 .. MaxLost
  BY <1>1, TimesAssumption DEF Heartbeat, IInv, TypeOK, BeatsInTime
<1>3. unheard' = [unheard EXCEPT ![n] = unheard[n] + 1] /\ UNCHANGED <<alive, known, age>>
  BY DEF Heartbeat
<1>4. TypeOK'
  BY <1>1, <1>2, <1>3, TimesAssumption DEF IInv, TypeOK
<1>5. ASSUME NEW p \in Nodes, alive'[p]
      PROVE  /\ nextBeat'[p] = 0 => unheard'[p] <= MaxLost
             /\ p \in known' => /\ unheard'[p] <= MaxLost =>
                                     age'[p] + nextBeat'[p] <= LongestGap(unheard'[p])
                                /\ age'[p] <= LongestGap(MaxLost)
  <2>1. CASE p = n
    <3>1. nextBeat'[n] = delay /\ unheard'[n] = unheard[n] + 1 /\ nextBeat[n] = 0
      BY <1>1, <1>3 DEF IInv, TypeOK, Heartbeat
    <3>2. n \in known => age[n] + 0 <= LongestGap(unheard[n]) /\ age[n] <= LongestGap(MaxLost)
      BY <1>2, <1>3, <1>5, <2>1, <3>1 DEF IInv, BeatsInTime
    <3>3. /\ LongestGap(unheard[n] + 1) = LongestGap(unheard[n]) + HeartbeatMax
          /\ LongestGap(unheard[n]) \in Nat
      BY <1>2, GapGrows
    <3>4. age[n] \in Nat
      BY TimesAssumption DEF IInv, TypeOK
    <3> QED
      BY <1>2, <1>3, <2>1, <3>1, <3>2, <3>3, <3>4, TimesAssumption
  <2>2. CASE p # n
    BY <1>1, <1>3, <1>5, <2>2 DEF IInv, TypeOK, BeatsInTime
  <2> QED
    BY <2>1, <2>2
<1> QED
  BY <1>4, <1>5 DEF IInv, BeatsInTime

(* updateCallback() stamps the node. *)
LEMMA UpdateInv ==
  ASSUME IInv, NEW n \in Nodes, Update(n)
  PROVE  IInv'
<1>1. /\ unheard' = [unheard EXCEPT ![n] = 0]
      /\ known' = known \cup {n}
      /\ age' = [age EXCEPT ![n] = 0]
      /\ UNCHANGED <<alive, nextBeat>>
  BY DEF Update, Stamp
<1>2. TypeOK'
  BY <1>1, TimesAssumption DEF IInv, TypeOK
<1>3. ASSUME NEW p \in Nodes, alive'[p]
      PROVE  /\ nextBeat'[p] = 0 => unheard'[p] <= MaxLost
             /\ p \in known' => /\ unheard'[p] <= MaxLost =>
                                     age'[p] + nextBeat'[p] <= LongestGap(unheard'[p])
                                /\ age'[p] <= LongestGap(MaxLost)
  <2>1. CASE p = n
    <3>1. age'[n] = 0 /\ unheard'[n] = 0 /\ nextBeat'[n] \in 0 .. HeartbeatMax
      BY <1>1 DEF IInv, TypeOK
    <3>2. /\ HeartbeatMax <= LongestGap(0)
          /\ LongestGap(0) <= LongestGap(MaxLost)
          /\ LongestGap(0) \in Nat
      BY GapGrows, TimesAssumption
    <3>3. LongestGap(MaxLost) \in Nat
      BY GapGrows, TimesAssumption
    <3> QED
      BY <2>1, <3>1, <3>2, <3>3, TimesAssumption
  <2>2. CASE p # n
    BY <1>1, <1>3, <2>2 DEF IInv, TypeOK, BeatsInTime
  <2> QED
    BY <2>1, <2>2
<1> QED
  BY <1>2, <1>3 DEF IInv, BeatsInTime

(* The death of a node changes nothing for the others. *)
LEMMA DieInv ==
  ASSUME IInv, NEW n \in Nodes, Die(n)
  PROVE  IInv'
BY DEF Die, IInv, TypeOK, BeatsInTime

(* While time passes no heartbeat is late, and the age of a node grows as  *)
(* its next heartbeat comes nearer.                                        *)
LEMMA TickInv ==
  ASSUME IInv, Tick
  PROVE  IInv'
<1>1. /\ UNCHANGED <<alive, unheard, known>>
      /\ \A p \in Nodes : alive[p] => nextBeat[p] > 0 /\ unheard[p] <= MaxLost
  BY DEF Tick
<1>2. TypeOK'
  <2>1. nextBeat' \in [Nodes -> 0 .. HeartbeatMax]
    BY TimesAssumption DEF Tick, IInv, TypeOK
  <2>2. age' \in [Nodes -> 0 .. ExcludeTime]
    BY TimesAssumption DEF Tick, IInv, TypeOK
  <2> QED
    BY <1>1, <2>1, <2>2 DEF IInv, TypeOK
<1>3. ASSUME NEW p \in Nodes, alive'[p]
      PROVE  /\ nextBeat'[p] = 0 => unheard'[p] <= MaxLost
             /\ p \in known' => /\ unheard'[p] <= MaxLost =>
                                     age'[p] + nextBeat'[p] <= LongestGap(unheard'[p])
                                /\ age'[p] <= LongestGap(MaxLost)
  <2>1. alive[p] /\ unheard'[p] = unheard[p] /\ unheard[p] \in 0 .. MaxLost
    BY <1>1, <1>3, TimesAssumption DEF IInv, TypeOK
  <2>2. nextBeat'[p] = nextBeat[p] - 1 /\ nextBeat[p] \in 1 .. HeartbeatMax
    BY <1>1, <2>1, TimesAssumption DEF Tick, IInv, TypeOK
  <2>3. ASSUME p \in known
        PROVE  /\ age'[p] + nextBeat'[p] <= LongestGap(unheard[p])
               /\ age'[p] <= LongestGap(MaxLost)
    <3>1. age[p] \in Nat /\ age'[p] \in Nat /\ age'[p] <= age[p] + 1
      BY <2>3, TimesAssumption DEF Tick, IInv, TypeOK
    <3>2. age[p] + nextBeat[p] <= LongestGap(unheard[p])
      BY <2>1, <2>3 DEF IInv, BeatsInTime
    <3>3. /\ LongestGap(unheard[p]) \in Nat
          /\ LongestGap(unheard[p]) <= LongestGap(MaxLost)
      BY <2>1, GapGrows
    <3>4. LongestGap(MaxLost) \in Nat
      BY GapGrows, TimesAssumption
    <3> QED
      BY <2>2, <3>1, <3>2, <3>3, <3>4, TimesAssumption
  <2> QED
    BY <1>1, <2>1, <2>3
<1> QED
  BY <1>2, <1>3 DEF IInv, BeatsInTime

(* The types hold, and heartbeats come in time, in every state.            *)
THEOREM Invariance == Spec => []IInv
<1>1. IInv /\ [Next]_vars => IInv'
  <2> SUFFICES ASSUME IInv, [Next]_vars PROVE IInv'
    OBVIOUS
  <2>1. CASE UNCHANGED vars
    BY <2>1 DEF vars, IInv, TypeOK, BeatsInTime
  <2> QED
    BY <2>1, HeartbeatInv, UpdateInv, DieInv, TickInv DEF Next
<1> QED
  BY <1>1, InitInv, PTL DEF Spec

(* No count of unheard heartbeats and no age leaves its range, for any     *)
(* periods and any loss the network is allowed.                            *)
THEOREM TypeCorrect == Spec => []TypeOK
<1>1. IInv => TypeOK
  BY DEF IInv
<1> QED
  BY <1>1, Invariance, PTL

(* getNodeList() keeps a live node, once heard of, if the exclusion time   *)
(* is longer than MaxLost + 1 of the longest periods of retxHeartbeat().   *)
THEOREM LiveNodeListedHolds ==
  ASSUME (MaxLost + 1) * HeartbeatMax < ExcludeTime
  PROVE  Spec => []LiveNodeListed
<1>1. IInv => LiveNodeListed
  <2> SUFFICES ASSUME IInv, NEW n \in known, alive[n]
               PROVE  n \in NodeList
    BY DEF LiveNodeListed
  <2>1. n \in Nodes /\ age[n] \in Nat
    BY TimesAssumption DEF IInv, TypeOK
  <2>2. age[n] <= (MaxLost + 1) * HeartbeatMax
    BY <2>1 DEF IInv, BeatsInTime, LongestGap
  <2>3. (MaxLost + 1) * HeartbeatMax \in Nat
    BY TimesAssumption
  <2> QED
    BY <2>1, <2>2, <2>3, TimesAssumption DEF NodeList, Recent
<1> QED
  BY <1>1, Invariance, PTL

=============================================================================
