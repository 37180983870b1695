# A verification of Kua

Kua is a replicated store for Named Data Networking.  A file is cut into
segments, the names of the segments hash to buckets, and each bucket is kept by
NUM_REPLICA (3) nodes.  Which nodes keep a bucket is decided by auctions that a
master runs over an SVS sync group; a health group tells it which nodes live;
workers, one per node and bucket, insert and deliver the segments; a client
program puts and gets files.

This directory holds TLA+ modules that model the program, configurations with
which TLC checks them, and proofs that TLAPS checks.  `PROJECT.json` says which
lines of the source each definition stands for, lists the runs, the mutants that
show that each property can fail, the hazards and the theorems.

## Inventory

| component | source | state | operations | interacts by |
|---|---|---|---|---|
| Auction master | `master.cpp`, `master.hpp` | hosts of each bucket (pending, confirmed), the current auction and its bids | `initialize`, `auction`, `processMessage`, `declareAuctionWinners`, `endAuction` | publications of the auction group, node list of its NodeWatcher, a one second timer |
| Bidder | `bidder.cpp`, `bidder.hpp` | the buckets won, their hosts and workers | `processMasterMessage` (Auction, Win, AuctionEnd), `placeBid` | auction group; creates workers |
| Auction messages | `auction.cpp`, `auction.hpp`, `tlv.hpp` | none | `wireEncode`, `wireDecode` | carried by SVS |
| SVS | library | publications of each member, state vectors | `publishData`, `fetchData`, update callback | multicast |
| NodeWatcher | `node-watcher.cpp`, `node-watcher.hpp` | when each node was last heard of | `retxHeartbeat`, `updateCallback`, `getNodeList` | health group; called by the master |
| Worker | `worker.cpp`, `worker.hpp`, `store-memory.hpp` | the store; the closures of the callbacks under way | `insert`, `insertNoReplicate`, `insertNoReplicateRange`, `replyInsert`, `fetch`, `onRegisterFailed` | Interests and Data with clients and other workers; own thread; reads the bidder's list of hosts |
| Client, put | `client.cpp` | segments, `pointer`, `pending`, `done` | `insertStore`, `sendINSERT`, `sendRangeInsert`, serving segments | INSERT commands to workers |
| Client, get | `client.cpp` | received segments (`m_store`), `pointer`, `pending`, `done` | `get`, `sendFETCH` | FETCH Interests to workers |
| Bucket hash | `bucket.hpp` | none | `idFromName` | client, for put and get |
| Worker, prefixes | `worker.cpp` | the count of failed registrations; timers | `registerPrefix` and its callbacks, `onRegisterFailed` | forwarder; advertises what it registered |
| NLSR | `nlsr.cpp` | closures and a timer | `advertise` | commands to the routing daemon |
| Main | `kua.cpp`, `config-bundle.hpp` | none | start | constructs the others |

What is hard: messages are lost, late, fetched in any order, and replayed to a
node that restarts; the master's time limit races late answers; the node list
is a guess; a worker reads on its thread what the bidder writes on another;
commands are retried while earlier attempts are still under way; a host restarts
and has lost what it stored; counters alone tell a client that it is finished,
with a put as with a get; a retry has fewer callbacks than the first attempt.  The properties that make each component
correct are:

- auctions: a bucket is given away once, to hosts that know of it, and
  everybody who serves it agrees which they are; no auction hangs; load is spread;
- NodeWatcher: live nodes are listed, dead ones forgotten;
- insertion: what is reported to be inserted is held by NUM_REPLICA hosts, under
  the bucket where it will be asked for; a put ends;
- get: the file comes back whole, in order, once; a get ends;
- registration: what is announced can be served; trying to register and to
  advertise comes to an end, or goes on for a reason.

## Modules

| module | what it is |
|---|---|
| `AuctionMessage` | configuration and the five messages |
| `AuctionSync` | the SVS group as the auctions use it |
| `Master`, `Bidder` | the two components, one action per handler |
| `Auctions` | master, bidders, network and restarts composed; the fairness |
| `ReplicaAssignment` | abstract: each bucket is assigned once and views agree |
| `AuctionProperties` | the properties, and the refinement of `ReplicaAssignment` |
| `AuctionClaims` | comments of the source that the code does not keep |
| `AuctionWire` | the encoding of the messages: which fields it leaves out |
| `AuctionTypeProofs`, `AuctionProofs` | the theorems about the auctions in any network |
| `PromptProofs` | the theorems about the auctions in a prompt network |
| `NodeWatcher` | the health group, in real time |
| `NodeWatcherProofs` | the theorems about it |
| `BucketHash` | segments and the buckets their names hash to |
| `InsertCommands` | the INSERT commands between client and workers |
| `ClientPut`, `Worker` | the two components |
| `ReplicatedStore` | abstract: copies, reports, and restarts that lose copies |
| `Insertion` | client and workers composed, with the properties, the refinement of `ReplicatedStore` and the fairness |
| `ClientPutProofs`, `InsertionProofs` | how the client cuts a file and counts, and the theorems about insertion |
| `FetchInterests` | the FETCH Interests between client and workers |
| `ClientGet`, `WorkerFetch` | the reading client, and the stores as a get meets them |
| `Retrieval` | the two composed, with the properties and the fairness |
| `RetrievalProofs` | the theorems about it |
| `NlsrAdvertise` | `NLSR::advertise()` |
| `PrefixRegistration` | a worker's registrations, composed with the advertisements of worker and program |
| `PrefixRegistrationProofs` | the theorems about it |
| `MCAuctions`, `MCInsertion`, `MCRetrieval` | values for TLC |

### Auctions

A handler of the master is one action: `MasterReceive` is `updateCallback` and
`processMessage` with whatever the handler goes on to call, so that a WinAck
may, in one step, end the auction and start the next.  `NextAuction` is
`auction()` while no auction runs, used by the timer, by `initialize()` and by
`endAuction()`; `Recheck` is the timer.  `currentAuctionId`, `pendingHosts` and
the other variables are the members of the same name.  A map keyed by node name
whose values are always 1 is a set of nodes.  `numBidsExpected` is the size of
any member of `NodeLists`: what the watcher returns need not be the truth.

In `Bidder`, `wonBuckets` are the keys of `m_buckets`, `hosts` the lists of
confirmed hosts the `Bucket`s hold, `serving` the buckets whose worker exists.
Bids are computed as the code does, truncation included.  `StartWorker` fills the
list of hosts in one step, where the code clears it and inserts one host after
the other while a worker's thread may read it.  That is sound because of
`NoRewriteUnderWorker`: whenever an AuctionEnd reaches a node, the node runs no
worker for its bucket, as long as the master is not restarted.

The network is `AuctionSync`.  A publication is never withdrawn, and a member
fetches each once, when it likes; to lose one is never to fetch it, so there is
no action that loses.  A node that restarts has an empty state vector and may
fetch everything anew.  (That the restarted node's own numbers start afresh is
left out: its publications are simply new.)  The master does not restart: its
books are in memory, and a new master auctions everything again.

`AuctionIds` are what the random generator may return; each is drawn once, so
their number bounds how many auctions there are.  The invariant `EndNamesAllWinners`
and its like are about every auction, so two are enough for a stale one to meet
a current one.

`AuctionWire` has the struct `AuctionMessage` with all its fields, and what
`wireEncode()` and `wireDecode()` do with each.  `WireKeepsMessages` says, of all
that is ever published, that a receiver finds in the decoded object what the
sender meant.  The conditions of the encoding are not all about the type of a
message (a winner is sent if there is one, a list if it is not empty), and one
field of the struct is never initialised, so this depends on what the handlers
fill in.  `wireDecode()` throws for a block of another type or without type,
auction or bucket; `wireEncode()` makes no such block, so these paths are left out.

### NodeWatcher

One watcher and the nodes it hears; at the start some are dead, and the timers
of the others are anywhere.  The variables are the timers (`nextBeat`),
the news that has not arrived (`unheard`) and the age of what is in `m_nodeMap`.
Time is in units of 100 ms, so that the periods of the code (2.7 to 3.3 s, 10 s)
are exact numbers.  The one assumption about the network is `MaxLost`: how many
heartbeats of a node in a row it may keep from the watcher.

### Insertion

The client's `pointer`, `pending` and `done` are its own; `awaiting` are the
Interests pending on its face.  `InsertStore` is the loop of `insertStore()`
with that of `sendINSERT()`, which cuts the file where the bucket changes or
the command is full.  Timeouts express the command again, Nacks do not.

A worker has no list of what it does: the closures of the callbacks have it.
`replicaCount` and `fetchedCount` are the shared counters of the closures, by
the command they were made for; `replicating` and `fetching` the Interests still
pending.  Since all workers of a bucket have the same list of hosts
(`WorkersAgree`, proved) it does not matter which one a command reaches, and
`ConfirmedHosts` is a constant.  The NO_REPLICATE commands are signed with a
plain digest and have the same name in every attempt: the Data of a host
answers any attempt that is pending.  For the client's own commands the model
allows the same, which covers keys whose signatures repeat as well as those
whose do not.  A segment may arrive after the client has stopped: it was on its
way or in a cache.

The runs that the loop makes commands of are given by where they start,
`PackStarts`: the smallest set with the first segment in it and, with each start,
the segment after that run.

`NodeRestart` empties the stores of a node and drops what it was fetching; what
it answered before stays true of the past only.  The history variable
`lostCopies` keeps what was in the stores: `Replicated` counts, with the hosts
that hold a segment, those that lost it by a restart, and not those that
restarted before they had it.  `ReplicatedStore` says what is left of the promise: a
copy is lost by a restart of its host and in no other way, and reports are given
when all copies have been made.  Nothing in the code makes a new copy after that.

### Get

`slots` is `m_store`, with `NoData` for null pointers; it is resized with every
answer to the length that this answer's final block says.  `awaiting` are the
Interests pending on the client's face; `FetchSuccess` is the Data callback with
the loop that sends what the window allows, and, when `done` reaches the size,
with the loop that writes the file.  An answer without final block, a Nack and a
timeout are actions of their own (`FetchUnmarked`, `FetchNack`, `FetchTimeout`).

Names have no version.  A file that is put again under the name has other
packets of the same names, and a host has one or the other.  So the stores hold
packets, a segment and a version, and any packet of a segment may answer the
Interest for it, that of another host or of a cache included.  That packets get
into the stores is `Inserted`, one at a time and in any order: the get may run
while the file is still being put.

When the files of one name differ in length, `m_store.resize()` drops segments
that `done` has counted.  The model then has the file written mixed or twice, a
null pointer dereferenced, or nothing written; `WrittenOnceWhole` and
`GetDelivers` therefore have the condition `OneSize`, and `GetEnds` has not.

### Registration

A prefix of a worker is requested, waits for the timer of a retry, is
registered, or is lost with the face; the counter of failures is one for both
prefixes.  The retry has no success callback (`silent`), so that what is
registered by it is not advertised.

`Shutdown` closes the worker's face: the library drops the requests that are
pending there, and the routes of what was registered go with the face.  It does
not cancel the timers, neither that of the other prefix nor one of the worker's
NLSR.  When such a timer fires the library may connect the face anew
(`RegisterAgain`, `AdvertStep`) or not (`RegisterOnClosedFace`,
`AdvertiseOnClosedFace`); the model has both.

## Runs

| run | instance | what it shows |
|---|---|---|
| `auctions_lossy` | 3 nodes, 2 replicas, 1 bucket, 2 auctions, any node list, time limit 0 | with any loss, delay or wrong node list: what a failed auction leaves behind never gets into the next; all messages survive their encoding |
| `auctions_restart` | 2 nodes, 2 replicas, 2 buckets, 3 auctions or 2 and a restart, any node list, time limit 0 | each bucket is assigned once; replay in any order tells no worker of wrong hosts, and writes no list of hosts under a running worker; `ReplicaAssignment` is implemented |
| `auctions_prompt` | 3 nodes, 2 replicas, 3 buckets, full list, prompt network, extreme bids | no auction is given up, each gives its bucket all its hosts, all buckets are served and the load is even |
| `auctions_timeout` | 2 nodes, 1 replica, 2 buckets, time limit 5 | no auction hangs |
| `node_watcher` | 1 node, the periods of the code, 2 lost heartbeats | live nodes listed, dead ones forgotten |
| `insertion` | 3 nodes, 3 segments in 2 buckets, 2 replicas, 1 retry, Nacks, 1 restart | reports are true, `ReplicatedStore` is implemented, counters agree with commands, the client finishes unless a Nack or the restart stopped it |
| `get` | files of 4, 3, 2, 2 and 1 segments, the last without final block, put alone or two together; 2 buckets, 2 nodes, window 2 | what is written is whole, counters agree with Interests, the get ends |
| `registration` | 2 prefixes of a worker, 1 of the program, 3 failures tolerated | registering ends; an advertisement ends or is repeated |
| `serving_not_won` | 2 nodes, 1 replica | refutes `ServesOnlyWonBuckets` |
| `half_confirmed` | 2 nodes, 2 replicas | refutes `ConfirmedBucketsEnd` |
| `zero_auction_id` | 2 nodes, identifiers 0 and 1 | refutes `RunningAuctionNotSuperseded` |
| `retry_not_advertised` | that of `registration` | refutes `RegisteredIsAdvertised` |

Bounds. Three nodes with two replicas let a bid be left out and two winners
answer at different times; two auctions let a stale message meet a new auction
of the same bucket. Two buckets need a third identifier for the case that an
auction fails and its bucket is assigned after all, since the master draws an
identifier for the next bucket in the step that ends an auction; two nodes are
enough there for messages of one bucket to meet the auction of the other. The
constraint `TwoAuctionsWithRestart` leaves out behaviours with all three
auctions and a restart as well: two auctions, of one bucket or of two, are enough
for a restarted node to get the messages of one while another runs or has ended. A
time limit of 0 gives an auction up at the first recheck: since messages may
be arbitrarily late, nothing more happens with 5, except that
`auctions_timeout` takes 5 to be sure of the counting. `RndBids` is {1, 100}
in `auctions_prompt`, the extremes of the code, where the order of bids
matters; elsewhere it is {1}, where ties, which std::sort may order as it
likes, and wrong node lists let any bidder win. The proofs cover all other
values.

In `insertion` the first command is for one segment and the second, in another
bucket, for two: the window of 2 is not full after the first, so that `pending`
goes beyond it as far as it can, and both commands are under way at once.
MaxRetries bounds the retries of all commands together, MaxNacked the segments of
commands that get a Nack: 2 is enough for either command, and for both together
no property has more to say.  Unstable names the one node, of the bucket with
two segments, that may restart, once.  With fewer hosts than NUM_REPLICA in a bucket
`PutFinishes` fails, as it does in the code.

In `get`, PossiblePuts names which files are put: one alone, two of the same
length, two of different lengths, and one together with a packet that has no
final block.  The file that is alone has four segments, so that after the first
of them the window of two holds the third of the others back; with the shorter
ones answers of two files meet.  Retries are not bounded: an Interest expressed
again is the same Interest.  In `registration`, three failures are enough for one
prefix, and not the other, to use up the count, and for both to do it together.

CHECK_DEADLOCK is FALSE where the model really stops: when the identifiers of
auctions run out, when the client is finished or has nothing pending, or when every prefix is
announced or given up.

Fairness.  `TimerSpec`: the master's timer fires again and again, as the
scheduler of ndn-cxx makes it do; nothing else is fair, so that all messages may
be lost.  `FairSpec` of `Auctions`: besides, what is published is fetched in the
end, since SVS repeats its vector and a fetch is tried ten times.  `Prompt` is a
network that does so within the second between two ticks of the master's timer.
`FairSpec` of `NodeWatcher`: time goes on, timers fire, and news arrives sooner
or later.  `FairSpec` of `Insertion`: what is sent after the last retry arrives, and goes on
being handled; this is one condition on all that can arrive, so that it does not
say in which order.  `FairSpec` of `Retrieval`: each host gets some version of
each of its segments, an Interest on its way reaches some worker, one of the
answers arrives, and an Interest that is not answered times out; nothing hinders
timeouts from coming first, again and again, as long as answers come at last.
`FairSpec` of `PrefixRegistration`: a request ends, in any way it can, since the
library bounds it in time; timers fire.  No fairness is assumed of Nacks,
restarts, deaths, or the timeouts of `Insertion`.

## What the refuted claims show

- `serving_not_won`.  Node A wins an auction that the master gives up.  The next
  auction of the bucket is B's.  A fetches the old Win late, then B's AuctionEnd:
  it finds the bucket in `m_buckets` and starts a worker.  The worker replicates
  to B and not to itself (`WorkersAgree` holds all the same), so it takes
  commands it stores nothing of and FETCH Interests it cannot answer.
- `half_confirmed`.  One winner is confirmed when the auction is given up.  The
  bucket has a confirmed host, so it is not auctioned again; and no AuctionEnd
  is ever published, so it has no worker.
- `zero_auction_id`.  An auction that draws 0 counts as none: the next recheck
  starts another one for the same bucket.  The chance is one in 2^32 per auction.
- `retry_not_advertised`.  The first request for a prefix fails, the retry
  succeeds.  The success callback that the retry leaves out as optional was the
  one to advertise: the prefix is registered, its worker runs, and no other node
  is told.  `FirstTriesAdvertised` proves that nothing else is missing.

## Proofs

The theorems about `Auctions` hold for any number of nodes, buckets,
replicas and restarts, any `AuctionIds`, `NodeLists`, `RndBids` and time limit.
They assume what its modules state of their constants (the sets of nodes and of
buckets are finite, NUM_REPLICA is positive, bids draw from 1 .. 100), and
`NoAuctionAssumption`: no auction draws identifier 0.  The run `zero_auction_id`
is what happens otherwise.

`TypeCorrect` (`AuctionTypeProofs`) is type correctness, one lemma per action.

`Invariance` (`AuctionProofs`) is the inductive invariant `IInv`.  None of the
safety properties is inductive.  That a bucket has one AuctionEnd, say, follows
from what master, network and bidders are in together:

- `Books`: an identifier is about one bucket; a bucket whose auction ended has
  no pending host, and its confirmed hosts are the winners of that auction and
  what AuctionEnd named; hosts and winners are at most NUM_REPLICA;
- `RunningAuction`: the bucket being auctioned has not had an AuctionEnd; its
  hosts are the winners declared so far in this auction; and once there are any,
  all bids are in and at least one winner is pending.  The last part is why a
  second declaration cannot happen (the count of bids is past the number
  expected) and why no acknowledgement ends an auction before its winners are
  declared;
- `AcksAnswerWins`: an acknowledgement on its way answers a Win.  It is why an
  acknowledgement of the current auction implies that there are winners;
- `WorkersWereTold`: what a worker replicates to was named by an AuctionEnd, which
  its node has fetched since it started.

From it follow `OneEndPerBucketHolds`, `EndNamesAllWinnersHolds`,
`SingleDeclarationHolds`, `HostsBoundedHolds`, `WorkersAgreeHolds`, the action
property `NoRewriteUnderWorkerHolds` (a bucket has one AuctionEnd, and a node that
serves it has fetched that one, so it fetches none again), and `ImplementsAssignmentHolds`: under the
mapping of `AuctionProperties` each step is a step of `ReplicaAssignment` or
leaves it as it is.

`ConfirmedHostsKnowHolds` has an invariant of its own, `KnowledgeInv`: until a node
restarts, the bucket of an acknowledgement on its way is in the sender's
`m_buckets`.  `LoadOutweighsChance` is about bids alone: up to a load of 8 the node
with fewer buckets bids more, whatever is drawn; with 9 against 10 it may bid
less.

About `NodeWatcher`, `LiveNodeListedHolds` says that a live node stays listed
when `(MaxLost + 1) * HeartbeatMax < ExcludeTime`, an assumption of that theorem
and not of the module: with the code's 3.3 s and 10 s it allows two lost
heartbeats, and the model fails with three.  The invariant `BeatsInTime` bounds
the age of a node's entry together with the time left to its next heartbeat by
the periods begun since the one the watcher knows of.

`AuctionTypeProofs` also has `WireKeepsMessagesHolds`: type correctness tells what
messages there are, `RoundTrip` that each survives.

### Auctions in a prompt network

How good an assignment is, rather than that it is consistent, depends on the
network: a lossy one may let every auction fail.  `PromptProofs` is about
`PromptNetwork`: whatever is published is fetched within the second between two
ticks of the timer, the node list is complete, and no node restarts.  The run
`auctions_prompt` is an instance of it.  Nothing is assumed of the number of
nodes, buckets or replicas, of the random numbers or of the time limit.

`PromptInvariance` is the inductive invariant `PromptInv`, on top of `IInv`:

- `NewsInv`: an announcement that a node has not fetched yet, or a Win of its own,
  is of the auction that runs now, so that nobody answers to anything stale;
- `CountInv`, `FlightInv`: who has fetched the announcement has bid once, and
  that bid is counted or on its way; until winners are declared, each bid is
  `Honest`, that is, computed from the load that the master's books give its bidder;
- `AnswersInv`: the pending hosts that were told of their Win are those with an
  acknowledgement on its way;
- `NotedInv`: a node's `m_buckets` are the buckets it is confirmed for, and the
  one it has just been told it won.  That makes bids honest: a node counts what the master counts;
- `PendingInv`, `FullInv`: no host is left pending in a bucket that is not being
  auctioned; a bucket has NUM_REPLICA hosts or none.

So at each tick either no auction runs or there is news, which a prompt network
excludes: `TimerFindsNone`.  An auction is therefore never given up
(`AuctionsConcludeHolds`), and each ends with all its hosts (`FullReplicationHolds`).

`LoadBalancedHolds` needs one thing more.  A winner must not have more buckets
than a loser (`WinnersHaveLess`), which `LoadOutweighsChance` gives as long as
the lesser load is at most 8.  If the loser has 9 and the winner 10, by balance
every node has at least 9; then the buckets auctioned before, with NUM_REPLICA
places each, have more than 9 places per node (`LoadsTakePlaces`, by an
injection).  So the theorem has the hypothesis
`(Cardinality(Buckets) - 1) * NumReplica <= 9 * Cardinality(Nodes)`.  The code
has 16 buckets and 3 replicas: with five nodes or more (45 places at most before
the last auction) the load stays balanced, with four it need not.  The hypothesis
is not an artefact of the proof: with two nodes, one replica and 20 buckets
(19 > 18) simulation with TLC finds loads of 11 and 9; with 19 buckets the
theorem applies.

### Insertion

`ClientPutProofs` is about the client alone, for a file of any length, any hash
and any limits.  `PackProperties` says that the loop of `sendINSERT()` finds a
run; `PacksProperties` that the loop of `insertStore()` makes commands of the next
segments without gap or overlap and passes the window by less than a command.
This is a fact about a smallest closed set, proved by least elements.  From it
`ClientBooks`: every callback keeps `ClientInv`, which says that `pending` is the
number of segments in pending commands, that these do not overlap, and that
`done` is at most the number of *different* segments that were reported and
are awaited no more.  The last part is what makes `Finished` mean anything.

`InsertionProofs` adds the workers, with any number of nodes, replicas, retries
and restarts.  `IInv` says that no counter is ahead of what it counts:

- `FetchInv`: `fetchedCount` and what is still being fetched are together at most
  the size of the range; less, if the host restarted while it was fetching, and
  then the count never comes to that size.  If not, each segment is being fetched
  or was stored.  So the host that has counted all has stored all;
- `CountInv`: `replicaCount` is at most the number of hosts that answered and are
  no longer waited for.  It is inductive because a host is waited for until its
  first answer only;
- `InsertedInv`, `SentInv`, `StoreInv`: an answer of a host is true; what is under
  way was sent for a command of the client; a segment is stored where it hashes.

From it follow `ReplyMeansReplicatedHolds`, `FinishedMeansReplicatedHolds`,
`PendingIsAwaitedHolds`, `StoredWhereItHashesHolds`, and `ImplementsStoreHolds`:
under the mapping of `Insertion` each step is a step of `ReplicatedStore` or
leaves it as it is.  The assumptions are those the modules state of their
constants: the hash has values in `Buckets`, the window, the limit of a command
and NUM_REPLICA are positive, and hosts are finitely many nodes.

`TypeCorrect` needs `AttemptsInv` besides: a command that was expressed for the k-th
time was expressed k - 1 times before, so that no attempt is beyond the bound on
all retries together.

### Get and registration

`RetrievalProofs` proves `PendingIsAwaitedHolds` and `WrittenOnceWholeHolds` for
files of any length, any window and any number of versions and hosts.  Its `IInv`
is about the network (`NetInv`: an answer is a packet of a file that was put), the
counters (`CountInv`) and the file (`FileInv`, under `OneSize`: `done` is the number
of slots that are filled, none of which is awaited).  That nothing is awaited
twice makes each answer fill another slot, so that `done` can only reach the size
when all are filled.  `TypeCorrect` holds without `OneSize`: whatever lengths
`m_store` is resized to, the loop that writes it meets a null pointer before it
writes one.

`PrefixRegistrationProofs` proves `TypeCorrect` and `FirstTriesAdvertised` for any
number of prefixes and any tolerance.  The invariant behind them says that only a
request without callback leaves a registered prefix unadvertised
(`AdvertisedByCallback`), and that only a failure leads to such a request.

### Only model-checked

All safety properties and action properties of the passing runs are stated by
theorems.  Liveness is beyond the prover and left to TLC: `EveryBucketServed`,
`NoAuctionHangs`, `DeadNodeForgotten`, `PutFinishes`, `GetDelivers`, `GetEnds`,
`RegistrationSettles` and `AdvertisementPersists`.

## Not modelled

- `insertNoReplicate()`, for a single segment: the client of this repository
  always sends ranges.  Commands with malformed names: it sends none.
- A restart of the master: its books are in memory, nothing recovers them, and
  nothing that the code promises survives it.
- `confirmedHosts` half written: with a master that is not restarted no worker is
  there to see it, as `NoRewriteUnderWorker` says.
- The worker that a restarted node does not start when it fetches AuctionEnd before
  the Win: the model has such behaviours, and no property forbids them, since the
  code has no remedy and promises none.
- The KeyChain that all threads share: it is the library's.
- The failure of put's own registration, whose callback is null: the client then
  sends nothing and waits.  `sendRangeInsert()` expresses a new Interest instead of
  that of `sendINSERT()`, without its lifetime: the model has no times there.
- Workers that serve a bucket they are no host of (see `serving_not_won`) in
  `Retrieval`: they have no segments and are silent.
- The bytes of a TLV, of a name and of a command for the routing daemon.
- How `kua` gets its role: the usage in the repository's README passes a third
  argument, which `kua.cpp` does not read; the role is compiled in.

## Plan

What is left, in this order:

1. A put followed by a get in one model, with the stores of `Insertion` in place of
   `Inserted`: it would show that a get of a finished put is never answered by
   fewer hosts than have not restarted.
2. `insertNoReplicate()` for single segments, should a client ask for them.
