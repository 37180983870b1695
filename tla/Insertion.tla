------------------------------- MODULE Insertion -------------------------------
(***************************************************************************)
(* A client that puts a file and the workers that insert it.               *)
(***************************************************************************)
EXTENDS ClientPut, Worker

vars == <<commandVars, clientVars, workerVars>>

TypeOK == CommandsTypeOK /\ ClientTypeOK /\ WorkerTypeOK

Init == CommandsInit /\ ClientInit /\ WorkerInit

Next ==
  \/ ClientNext /\ UNCHANGED workerVars
  \/ WorkerNext /\ UNCHANGED clientVars

(* What the prefix registration, the client and the workers do when what   *)
(* they wait for arrives.                                                  *)
Progress ==
  \/ (Registered \/ \E c \in awaiting : InsertSuccess(c)) /\ UNCHANGED workerVars
  \/ WorkerProgress /\ UNCHANGED clientVars

(* Things go on as long as anything under way can arrive: what is sent     *)
(* after the last retry is not lost.  No Nack, timeout or restart need     *)
(* happen.                                                                 *)
Fairness == WF_vars(Progress)

Spec == Init /\ [][Next]_vars
FairSpec == Spec /\ Fairness

-----------------------------------------------------------------------------
(* Host n has stored segment s in bucket b: it has it still, unless it has *)
(* restarted since.                                                        *)
Had(n, b, s) == s \in store[n][b] \/ s \in lostCopies[n][b]

(* NUM_REPLICA hosts have stored segment s, under the bucket where a client*)
(* that gets the file will ask for it.  A host that restarted before it had*)
(* stored the segment is none of them.                                     *)
Replicated(s) ==
  LET b == IdFromName(s)
  IN Cardinality({n \in ConfirmedHosts[b] : Had(n, b, s)}) >= NumReplica

(* When a Data for a range is sent, every segment of the range is          *)
(* replicated: however the attempts of the client, the answers of the      *)
(* hosts, the segments and the restarts of hosts interleave.  A host that  *)
(* restarts in the middle of its fetches never answers for the attempt.    *)
ReplyMeansReplicated == \A r \in replies : \A s \in SegmentsOf(r) : Replicated(s)

(* A client that is finished has its whole file replicated: its counters   *)
(* alone decide when it stops, and it serves segments no longer then.      *)
FinishedMeansReplicated == Finished => \A s \in Segments : Replicated(s)

(* The counters of the client agree with the commands it waits for,        *)
(* through retries, late answers and Nacks: no segment is in two commands, *)
(* pending is never beyond the window by a whole command.                  *)
PendingIsAwaited ==
  /\ pending = Cardinality(UNION {SegmentsOf(c.range) : c \in awaiting})
  /\ \A c, d \in awaiting : c # d => SegmentsOf(c.range) \cap SegmentsOf(d.range) = {}
  /\ pending < WindowSize + MaxPack
  /\ done + pending <= pointer

(* A segment is stored under the bucket its name hashes to and no other.   *)
StoredWhereItHashes ==
  \A n \in Nodes, b \in Buckets : \A s \in store[n][b] : IdFromName(s) = b

(* The client finishes, unless a Nack made it give up a command: a Nack is *)
(* not retried, and the segments of the command are never done.  A restart *)
(* may lose a command for good, when no retry is left.                     *)
PutFinishes == <>(Finished \/ Nacked > 0 \/ restarted # {})

(* The abstract store, by what the workers have in theirs and what the     *)
(* client was told.                                                        *)
ReplicatedStore == INSTANCE ReplicatedStore WITH
  HostsOf  <- [s \in Segments |-> ConfirmedHosts[IdFromName(s)]],
  copies   <- [s \in Segments |-> {n \in Nodes : s \in store[n][IdFromName(s)]}],
  reported <- UNION {SegmentsOf(r) : r \in replies},
  lost     <- [s \in Segments |-> {n \in Nodes : s \in lostCopies[n][IdFromName(s)]}]

(* Workers and client implement the replicated store: a copy is made at a  *)
(* host of the segment's bucket, only a restart takes copies away, and a   *)
(* report is given, for a range at once, when all of it is replicated.     *)
ImplementsStore == ReplicatedStore!Spec

=============================================================================
