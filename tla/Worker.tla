-------------------------------- MODULE Worker --------------------------------
(***************************************************************************)
(* The workers of the buckets (worker.cpp, store-memory.hpp): one for each *)
(* bucket of each node, all of them equal.  The one that a command of the  *)
(* client reaches sends it on, as a NO_REPLICATE command, to every host    *)
(* that the AuctionEnd of the bucket named, itself included; each of those *)
(* fetches the segments from the client, stores them and answers; and when *)
(* NUM_REPLICA have answered the first one answers the client.  A worker   *)
(* keeps no list of what is under way: the closures of its callbacks do.   *)
(***************************************************************************)
EXTENDS InsertCommands

CONSTANTS
  Nodes,
  ConfirmedHosts,  (* m_bucket.confirmedHosts, by bucket: what the auctions *)
                   (* ended with, the same at every worker of the bucket.   *)
  NumReplica,      (* NUM_REPLICA                                           *)
  Unstable         (* Bound: the nodes that may restart, once each.         *)

ASSUME HostsAssumption ==
  /\ IsFiniteSet(Nodes)
  /\ ConfirmedHosts \in [Buckets -> SUBSET Nodes]
  /\ NumReplica \in Nat \ {0}
  /\ Unstable \subseteq Nodes

VARIABLES
  replicaCount,  (* *replicaCount of each client command a worker handles.  *)
  replicating,   (* NO_REPLICATE commands pending on the first worker's face*)
  fetchedCount,  (* *fetchedCount of each NO_REPLICATE command handled.     *)
  fetching,      (* Interests for segments, pending on the host's face.     *)
  inserted,      (* The Data hosts have sent for NO_REPLICATE commands.     *)
  store,         (* store[n][b]: the names in StoreMemory::m_map.           *)
  lostCopies,    (* History: lostCopies[n][b] is what was in store[n][b]    *)
                 (* when n restarted.                                       *)
  restarted      (* The nodes that have restarted.                          *)

workerVars ==
  <<replicaCount, replicating, fetchedCount, fetching, inserted, store, lostCopies, restarted>>

(* The NO_REPLICATE command that a host gets for the client's command.     *)
HostCommand == [command : Command, host : Nodes]

WorkerTypeOK ==
  /\ DOMAIN replicaCount \subseteq commands
  /\ \A c \in DOMAIN replicaCount : replicaCount[c] \in 0 .. Cardinality(Nodes)
  /\ replicating \subseteq HostCommand
  /\ DOMAIN fetchedCount \subseteq HostCommand
  /\ \A i \in DOMAIN fetchedCount : fetchedCount[i] \in 0 .. Size(i.command.range)
  /\ fetching \subseteq [insert : HostCommand, segment : Segments]
  /\ inserted \subseteq [range : SegmentRange, host : Nodes]
  /\ store \in [Nodes -> [Buckets -> SUBSET Segments]]
  /\ lostCopies \in [Nodes -> [Buckets -> SUBSET Segments]]
  /\ restarted \subseteq Nodes

(* What a node's workers are constructed with. *)
NewStores == [b \in Buckets |-> {}]

WorkerInit ==
  /\ replicaCount = << >>
  /\ replicating = {}
  /\ fetchedCount = << >>
  /\ fetching = {}
  /\ inserted = {}
  /\ store = [n \in Nodes |-> NewStores]
  /\ lostCopies = [n \in Nodes |-> NewStores]
  /\ restarted = {}

(* The counters with another one, for the command k. *)
CountFromZero(counts, k) ==
  [x \in DOMAIN counts \cup {k} |-> IF x = k THEN 0 ELSE counts[x]]

HostCommands(c) == [command : {c}, host : ConfirmedHosts[BucketOf(c.range)]]

-----------------------------------------------------------------------------
(* insert(): a worker of the bucket receives the client's command.         *)
Insert(c) ==
  /\ c \in commands \ DOMAIN replicaCount
  /\ replicaCount' = CountFromZero(replicaCount, c)
  /\ replicating' = replicating \cup HostCommands(c)
  /\ UNCHANGED <<commandVars, fetchedCount, fetching, inserted, store, lostCopies, restarted>>

(* insertNoReplicateRange(): the host receives the NO_REPLICATE command,   *)
(* perhaps long after the sender has given it up.                          *)
InsertNoReplicateRange(i) ==
  /\ i \notin DOMAIN fetchedCount
  /\ fetchedCount' = CountFromZero(fetchedCount, i)
  /\ fetching' = fetching \cup [insert : {i}, segment : SegmentsOf(i.command.range)]
  /\ UNCHANGED <<commandVars, replicaCount, replicating, inserted, store, lostCopies, restarted>>

(* Mutant: endSeg - startSeg segments are taken for all. *)
FetchedAllButOne(i) == fetchedCount'[i] >= Size(i.command.range) - 1

(* The condition on which insertNoReplicateRange() answers.                *)
FetchedAll(i) == fetchedCount'[i] = Size(i.command.range)

(* Mutant: everything goes to the store of bucket 0. *)
PutInFirst(i, s) == [store EXCEPT ![i.host][0] = @ \cup {s}]

(* store->put(), which never fails.                                        *)
Put(i, s) == [store EXCEPT ![i.host][BucketOf(i.command.range)] = @ \cup {s}]

(* A segment arrives from the client.                                      *)
FetchSuccess(i, s) ==
  /\ [insert |-> i, segment |-> s] \in fetching
  /\ fetching' = fetching \ {[insert |-> i, segment |-> s]}
  /\ store' = Put(i, s)
  /\ fetchedCount' = [fetchedCount EXCEPT ![i] = @ + 1]
  /\ inserted' = IF FetchedAll(i)
                 THEN inserted \cup {[range |-> i.command.range, host |-> i.host]}
                 ELSE inserted
  /\ UNCHANGED <<commandVars, replicaCount, replicating, lostCopies, restarted>>

(* Mutant: one replica less is enough. *)
AlmostAllReplicas(c) == replicaCount'[c] >= NumReplica - 1

(* Mutant: one replica more is needed. *)
MoreThanAllReplicas(c) == replicaCount'[c] > NumReplica

(* The condition on which insert() answers the client.                     *)
AllReplicas(c) == replicaCount'[c] >= NumReplica

(* The Data of a host arrives.  A NO_REPLICATE command is signed with a    *)
(* plain digest, so that a retry has the same name and the Data that an    *)
(* earlier attempt brought about answers it too.                           *)
ReplicaInserted(i) ==
  /\ i \in replicating
  /\ [range |-> i.command.range, host |-> i.host] \in inserted
  /\ replicating' = replicating \ {i}
  /\ replicaCount' = [replicaCount EXCEPT ![i.command] = @ + 1]
  /\ replies' = IF AllReplicas(i.command) THEN replies \cup {i.command.range} ELSE replies
  /\ UNCHANGED <<commands, fetchedCount, fetching, inserted, store, lostCopies, restarted>>

(* The program of node n is started again: StoreMemory is in memory, and   *)
(* what was pending on the face is dropped.  Data it has sent are on their *)
(* way or in caches all the same.  (Commands that it had sent on to hosts  *)
(* stay in replicating: that they are never answered is a behaviour anyway,*)
(* and that they are is one where another host of the bucket sent them.)   *)
NodeRestart(n) ==
  /\ n \in Unstable \ restarted
  /\ restarted' = restarted \cup {n}
  /\ store' = [store EXCEPT ![n] = NewStores]
  /\ lostCopies' = [lostCopies EXCEPT ![n] =
                      [b \in Buckets |-> lostCopies[n][b] \cup store[n][b]]]
  /\ fetching' = {f \in fetching : f.insert.host # n}
  /\ UNCHANGED <<commandVars, replicaCount, replicating, fetchedCount, inserted>>

WorkerProgress ==
  \/ \E c \in commands : Insert(c)
  \/ \E i \in UNION {HostCommands(c) : c \in DOMAIN replicaCount} : InsertNoReplicateRange(i)
  \/ \E f \in fetching : FetchSuccess(f.insert, f.segment)
  \/ \E i \in replicating : ReplicaInserted(i)

WorkerNext ==
  \/ WorkerProgress
  \/ \E n \in Nodes : NodeRestart(n)

=============================================================================
