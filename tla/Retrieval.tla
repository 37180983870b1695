------------------------------- MODULE Retrieval -------------------------------
(***************************************************************************)
(* A client that gets a file, and the workers that store it.               *)
(***************************************************************************)
EXTENDS ClientGet, WorkerFetch

vars == <<interestVars, clientVars, storeVars>>

TypeOK == InterestsTypeOK /\ ClientTypeOK /\ StoreTypeOK

Init == InterestsInit /\ ClientInit /\ StoreInit

Next ==
  \/ ClientNext /\ UNCHANGED storeVars
  \/ WorkerNext /\ UNCHANGED clientVars

(* Some version of each segment gets to each of its hosts, an Interest that*)
(* is on its way and one of the answers to it arrive, and an Interest that *)
(* stays unanswered times out.  No Nack need come.  An Interest or a Data  *)
(* that is lost is one that does not arrive before the timeout.            *)
Fairness ==
  \A s \in Segments :
       /\ \A n \in Nodes :
            WF_vars((\E v \in Versions : Inserted(n, [segment |-> s, version |-> v]))
                    /\ UNCHANGED clientVars)
       /\ WF_vars((\E n \in Nodes : Fetch(n, s)) /\ UNCHANGED clientVars)
       /\ WF_vars((\E v \in Versions : DataArrives([segment |-> s, version |-> v]))
                  /\ UNCHANGED storeVars)
       /\ WF_vars(FetchTimeout(s) /\ UNCHANGED storeVars)

Spec == Init /\ [][Next]_vars
FairSpec == Spec /\ Fairness

-----------------------------------------------------------------------------
(* All that was put under the name has the same number of segments and     *)
(* says so.                                                                *)
OneSize == \A v, w \in puts : v \notin Unmarked /\ FileSize[v] = FileSize[w]

(* What the client should write: the segments of a file in order, each of  *)
(* one of the versions that were put.                                      *)
WholeFile(f) ==
  /\ \A v \in puts : Len(f) = FileSize[v]
  /\ \A i \in DOMAIN f : f[i].segment = i - 1 /\ f[i].version \in puts

(* The client writes the file once, whole and in order, and never finds a  *)
(* segment missing that its counters say it has: whatever the order of the *)
(* answers, with retries, Nacks and answers that come twice.  A name put   *)
(* twice must have the same number of segments: with other lengths         *)
(* m_store.resize() loses segments that done has counted.                  *)
WrittenOnceWhole ==
  OneSize =>
    /\ ~crashed
    /\ written # << >> => WholeFile(written) /\ awaiting = {}

(* The counters of the client agree with the Interests that are pending    *)
(* on its face, the window is never passed, and what is neither pending    *)
(* nor done was given up for a Nack.                                       *)
PendingIsAwaited ==
  /\ pending = Cardinality(awaiting)
  /\ pending <= WindowSize
  /\ done + pending <= pointer
  /\ \A s \in awaiting : s < pointer

(* The client ends with the file written, unless a Nack came: a Nack is    *)
(* not retried, and its segment is never counted.                          *)
GetDelivers == OneSize => <>(written # << >> \/ done + pending < pointer)

(* The client ends in any case: also when files of different lengths were  *)
(* put under the name, when a packet has no final block, or after a Nack,  *)
(* every segment it ever asks for is answered or given up.                 *)
GetEnds == <>(awaiting = {} \/ crashed)

=============================================================================
