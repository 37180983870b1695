----------------------------- MODULE AuctionProofs -----------------------------
(***************************************************************************)
(* The inductive invariant of the auctions and what follows from it, for   *)
(* every number of nodes, buckets, replicas and auctions, every restart    *)
(* bound and any loss, delay or reordering.                                *)
(***************************************************************************)
EXTENDS AuctionTypeProofs

Ends(log) == {m \in log : m.type = "AuctionEnd"}
Winners(log, id) == {w.winner : w \in {m \in {v \in log : v.type = "Win"} : m.auctionId = id}}

(* The books of the master agree with what it has published.               *)

(* An auction is about one bucket.                                         *)
OneBucketPerAuction(log) ==
  \A m1, m2 \in log : m1.auctionId = m2.auctionId => m1.bucketId = m2.bucketId

(* A bucket whose auction ended keeps the winners as its hosts.            *)
EndedBooks(log, confirmed, pending) ==
  \A e \in Ends(log) :
    /\ e.winnerList # {}
    /\ e.winnerList = confirmed[e.bucketId]
    /\ e.winnerList = Winners(log, e.auctionId)
    /\ pending[e.bucketId] = {}

EndedOnce(log) ==
  \A e1, e2 \in Ends(log) : e1.bucketId = e2.bucketId => e1 = e2

FewHosts(confirmed, pending) ==
  \A b \in Buckets : Cardinality(pending[b] \cup confirmed[b]) <= NumReplica

FewWinners(log) ==
  \A id \in AuctionIds : Cardinality(Winners(log, id)) <= NumReplica

Books(log, confirmed, pending) ==
  /\ OneBucketPerAuction(log)
  /\ EndedBooks(log, confirmed, pending)
  /\ EndedOnce(log)
  /\ FewHosts(confirmed, pending)
  /\ FewWinners(log)

(* The running auction has been announced, for a bucket whose auction has  *)
(* not ended.  Its winners are the hosts of the bucket, and once there are *)
(* winners, all bids are in and some winner has yet to answer.             *)
RunningAuction ==
  currentAuctionId # NoAuction =>
    LET hosted == pendingHosts[currentAuctionBucketId] \cup confirmedHosts[currentAuctionBucketId]
    IN /\ AuctionMsg(currentAuctionId, currentAuctionBucketId) \in masterLog
       /\ \A e \in Ends(masterLog) : e.bucketId # currentAuctionBucketId
       /\ Winners(masterLog, currentAuctionId) = hosted
       /\ hosted # {} => /\ pendingHosts[currentAuctionBucketId] # {}
                         /\ Cardinality(currentAuctionBids) >= numBidsExpected

MasterInv ==
  /\ IsFiniteSet(currentAuctionBids)
  /\ Books(masterLog, confirmedHosts, pendingHosts)
  /\ RunningAuction

(* An acknowledgement on its way answers a Win.                            *)
AcksAnswerWins ==
  \A d \in toMaster :
    d.msg.type = "WinAck" =>
      WinMsg(d.msg.auctionId, d.msg.bucketId, d.sender) \in masterLog

(* What a worker replicates to was named by an AuctionEnd of its bucket,   *)
(* which its node has fetched.                                             *)
WorkersWereTold ==
  \A n \in Nodes : \A b \in serving[n] :
    \E e \in Ends(masterLog) \cap fetched[n] : e.bucketId = b /\ e.winnerList = hosts[n][b]

IInv == TypeOK /\ MasterInv /\ AcksAnswerWins /\ WorkersWereTold

-----------------------------------------------------------------------------
(* The master.                                                             *)

(* Between two auctions: whatever auction comes next, the books stay right *)
(* and the auction starts with no winner.                                  *)
LEMMA NextAuctionInv ==
  ASSUME TypeOK,
         NEW confirmed \in [Buckets -> SUBSET Nodes],
         NEW pending \in [Buckets -> SUBSET Nodes],
         NEW out \in SUBSET MasterMessage,
         \A m \in out : \E l \in masterLog : l.auctionId = m.auctionId,
         IsFiniteSet(currentAuctionBids),
         Books(masterLog \cup out, confirmed, pending),
         confirmedHosts' = confirmed,
         NextAuction(confirmed, pending, out)
  PROVE  MasterInv'
<1>1. CASE \E b \in Buckets : FirstOpenBucket(b, confirmed) /\ StartAuction(b, pending, out)
  <2>1. PICK b \in Buckets, id \in Draws, list \in NodeLists :
          /\ FirstOpenBucket(b, confirmed)
          /\ currentAuctionId' = id
          /\ currentAuctionBucketId' = b
          /\ currentAuctionBids' = {}
          /\ pendingHosts' = ClearPending(b, pending)
          /\ MasterPublish(out \cup {AuctionMsg(id, b)})
    BY <1>1 DEF StartAuction
  <2> DEFINE log == masterLog \cup out
  <2>2. masterLog' = log \cup {AuctionMsg(id, b)}
    BY <2>1 DEF MasterPublish
  <2>3. id \in AuctionIds /\ \A m \in log : m.auctionId # id
    BY DEF Draws
  <2>4. confirmed[b] = {} /\ pendingHosts'[b] = {} /\ confirmedHosts'[b] = {}
    BY <2>1 DEF FirstOpenBucket, NeedsHosts, ClearPending
  <2>5. \A c \in Buckets : pendingHosts'[c] = {} \/ pendingHosts'[c] = pending[c]
    BY <2>1 DEF ClearPending
  <2>6. Ends(masterLog') = Ends(log)
    BY <2>2 DEF Ends, AuctionMsg
  <2>7. \A i : Winners(masterLog', i) = Winners(log, i)
    BY <2>2 DEF Winners, AuctionMsg
  <2>8. Winners(masterLog', id) = {}
    BY <2>3, <2>7 DEF Winners
  <2>9. \A e \in Ends(log) : e.bucketId \in Buckets /\ e.bucketId # b
    BY <2>4 DEF Books, EndedBooks, Ends, TypeOK, SyncTypeOK, MasterMessage
  <2>10. OneBucketPerAuction(masterLog')
    BY <2>2, <2>3 DEF Books, OneBucketPerAuction, AuctionMsg
  <2>11. EndedBooks(masterLog', confirmedHosts', pendingHosts')
    BY <2>5, <2>6, <2>7, <2>9 DEF Books, EndedBooks
  <2>12. EndedOnce(masterLog') /\ FewWinners(masterLog')
    BY <2>6, <2>7 DEF Books, EndedOnce, FewWinners
  <2>13. FewHosts(confirmedHosts', pendingHosts')
    <3> SUFFICES ASSUME NEW c \in Buckets
                 PROVE  Cardinality(pendingHosts'[c] \cup confirmedHosts'[c]) <= NumReplica
      BY DEF FewHosts
    <3>1. CASE c = b
      BY <2>4, <3>1, FS_EmptySet, NumReplicaAssumption
    <3>2. CASE c # b
      <4>1. pendingHosts'[c] = pending[c]
        BY <2>1, <3>2 DEF ClearPending
      <4> QED
        BY <4>1 DEF Books, FewHosts
    <3> QED
      BY <3>1, <3>2
  <2>14. RunningAuction'
    BY <2>1, <2>2, <2>4, <2>6, <2>8, <2>9 DEF RunningAuction
  <2> QED
    BY <2>1, <2>10, <2>11, <2>12, <2>13, <2>14, FS_EmptySet DEF MasterInv, Books
<1>2. CASE /\ currentAuctionId' = NoAuction
           /\ pendingHosts' = pending
           /\ MasterPublish(out)
           /\ UNCHANGED <<currentAuctionBucketId, numBidsExpected, currentAuctionTime,
                          currentAuctionBids>>
  <2>1. Books(masterLog', confirmedHosts', pendingHosts')
    BY <1>2 DEF MasterPublish
  <2> QED
    BY <1>2, <2>1 DEF MasterInv, RunningAuction
<1> QED
  BY <1>1, <1>2 DEF NextAuction

(* The master's timer: it starts an auction, or ages or drops the current. *)
LEMMA TimerInv ==
  ASSUME IInv, MasterTimer
  PROVE  MasterInv'
<1>1. /\ confirmedHosts \in [Buckets -> SUBSET Nodes]
      /\ pendingHosts \in [Buckets -> SUBSET Nodes]
      /\ {} \in SUBSET MasterMessage
      /\ masterLog \cup {} = masterLog
  BY DEF IInv, TypeOK, MasterTypeOK
<1>2. CASE confirmedHosts' = confirmedHosts /\ NextAuction(confirmedHosts, pendingHosts, {})
  BY <1>1, <1>2, NextAuctionInv DEF IInv, MasterInv
<1>3. CASE /\ currentAuctionId' \in {currentAuctionId, NoAuction}
           /\ UNCHANGED <<currentAuctionBucketId, numBidsExpected, currentAuctionBids,
                          confirmedHosts, pendingHosts, masterLog>>
  BY <1>3 DEF IInv, MasterInv, RunningAuction
<1> QED
  BY <1>2, <1>3 DEF MasterTimer, Initialize, Recheck, auctionVars

(* The winners the loop of declareAuctionWinners() finds for a bucket with *)
(* no pending host: at least one, at most NUM_REPLICA.                     *)
LEMMA DeclaredCount ==
  ASSUME NEW winners \in SUBSET Nodes, NEW theBids, DeclaredWinners(winners, theBids, {})
  PROVE  winners # {} /\ Cardinality(winners) <= NumReplica
<1>1. winners # {}
  BY DEF DeclaredWinners
<1>2. PICK last \in winners :
        winners = {last} \/ ~EnoughHosts({} \cup (winners \ {last}))
  BY DEF DeclaredWinners
<1>3. CASE winners = {last}
  <2>1. Cardinality({last}) = 1
    BY FS_Singleton
  <2>2. Cardinality(winners) = 1
    BY <1>3, <2>1
  <2> QED
    BY <1>1, <2>2, NumReplicaAssumption
<1>4. CASE ~EnoughHosts({} \cup (winners \ {last}))
  <2>1. {} \cup (winners \ {last}) = winners \ {last}
    OBVIOUS
  <2>2. ~(Cardinality(winners \ {last}) >= NumReplica)
    BY <1>4, <2>1 DEF EnoughHosts
  <2>3. Cardinality(winners \ {last}) = Cardinality(winners) - 1
    BY NodeSetsFinite, FS_RemoveElement
  <2>4. Cardinality(winners) \in Nat
    BY NodeSetsFinite
  <2> QED
    BY <1>1, <2>2, <2>3, <2>4, NumReplicaAssumption
<1> QED
  BY <1>1, <1>2, <1>3, <1>4

(* Winners are declared by the bid that completes the expected number, so  *)
(* when there are none yet.                                                *)
LEMMA DeclareInv ==
  ASSUME IInv, NEW theBids,
         IsFiniteSet(theBids), Cardinality(theBids) = numBidsExpected,
         ~(Cardinality(currentAuctionBids) >= numBidsExpected),
         currentAuctionId \in AuctionIds, currentAuctionBucketId \in Buckets,
         currentAuctionBids' = theBids,
         DeclareAuctionWinners(theBids),
         UNCHANGED <<confirmedHosts, currentAuctionId, currentAuctionBucketId, numBidsExpected>>
  PROVE  MasterInv'
<1> DEFINE b == currentAuctionBucketId
<1>1. currentAuctionId # NoAuction
  BY NoAuctionAssumption
<1>2. /\ AuctionMsg(currentAuctionId, b) \in masterLog
      /\ \A e \in Ends(masterLog) : e.bucketId # b
      /\ Winners(masterLog, currentAuctionId) = {}
      /\ pendingHosts[b] = {}
      /\ confirmedHosts[b] = {}
  BY <1>1 DEF IInv, MasterInv, RunningAuction
<1>3. PICK winners \in SUBSET Nodes :
        /\ DeclaredWinners(winners, theBids, {})
        /\ pendingHosts' = [pendingHosts EXCEPT ![b] = @ \cup winners]
        /\ MasterPublish({WinMsg(currentAuctionId, b, n) : n \in winners})
  BY <1>2 DEF DeclareAuctionWinners
<1> DEFINE wins == {WinMsg(currentAuctionId, b, n) : n \in winners}
<1>4. winners # {} /\ Cardinality(winners) <= NumReplica
  BY <1>3, DeclaredCount
<1>5. masterLog' = masterLog \cup wins
  BY <1>3 DEF MasterPublish
<1>6. /\ pendingHosts'[b] = winners
      /\ \A c \in Buckets \ {b} : pendingHosts'[c] = pendingHosts[c]
  BY <1>2, <1>3 DEF IInv, TypeOK, MasterTypeOK
<1>7. Ends(masterLog') = Ends(masterLog)
  BY <1>5 DEF Ends, WinMsg
<1>8. Winners(masterLog', currentAuctionId) = winners
  <2>1. Winners(wins, currentAuctionId) = winners
    <3>1. \A w \in wins : w.type = "Win" /\ w.auctionId = currentAuctionId /\ w.winner \in winners
      BY DEF WinMsg
    <3>2. \A n \in winners : \E w \in wins : w.winner = n
      <4> SUFFICES ASSUME NEW n \in winners PROVE \E w \in wins : w.winner = n
        OBVIOUS
      <4>1. WinMsg(currentAuctionId, b, n) \in wins
        OBVIOUS
      <4>2. WinMsg(currentAuctionId, b, n).winner = n
        BY DEF WinMsg
      <4> QED
        BY <4>1, <4>2
    <3> HIDE DEF wins
    <3> QED
      BY <3>1, <3>2 DEF Winners
  <2>2. Winners(masterLog', currentAuctionId) =
          Winners(masterLog, currentAuctionId) \cup Winners(wins, currentAuctionId)
    BY <1>5 DEF Winners
  <2> QED
    BY <1>2, <2>1, <2>2
<1>9. \A id : id # currentAuctionId => Winners(masterLog', id) = Winners(masterLog, id)
  BY <1>5 DEF Winners, WinMsg
<1>10. \A e \in Ends(masterLog) : e.bucketId \in Buckets \ {b} /\ e.auctionId # currentAuctionId
  BY <1>2 DEF IInv, MasterInv, Books, OneBucketPerAuction, AuctionMsg, Ends, TypeOK, SyncTypeOK,
              MasterMessage
<1>11. OneBucketPerAuction(masterLog')
  <2>1. \A m \in masterLog : m.auctionId = currentAuctionId => m.bucketId = b
    BY <1>2 DEF IInv, MasterInv, Books, OneBucketPerAuction, AuctionMsg
  <2>2. \A m \in wins : m.auctionId = currentAuctionId /\ m.bucketId = b
    BY DEF WinMsg
  <2> HIDE DEF wins
  <2> QED
    BY <1>5, <2>1, <2>2 DEF IInv, MasterInv, Books, OneBucketPerAuction
<1>12. EndedBooks(masterLog', confirmedHosts', pendingHosts')
  BY <1>6, <1>7, <1>9, <1>10 DEF IInv, MasterInv, Books, EndedBooks
<1>13. EndedOnce(masterLog')
  BY <1>7 DEF IInv, MasterInv, Books, EndedOnce
<1>14. FewHosts(confirmedHosts', pendingHosts')
  <2> SUFFICES ASSUME NEW c \in Buckets
               PROVE  Cardinality(pendingHosts'[c] \cup confirmedHosts'[c]) <= NumReplica
    BY DEF FewHosts
  <2>1. CASE c = b
    <3>1. pendingHosts'[c] \cup confirmedHosts'[c] = winners
      BY <1>2, <1>6, <2>1
    <3> QED
      BY <1>4, <3>1
  <2>2. CASE c # b
    BY <1>6, <2>2 DEF IInv, MasterInv, Books, FewHosts
  <2> QED
    BY <2>1, <2>2
<1>15. FewWinners(masterLog')
  BY <1>4, <1>8, <1>9 DEF IInv, MasterInv, Books, FewWinners
<1>16. RunningAuction'
  <2>1. Cardinality(theBids) >= numBidsExpected
    BY DEF IInv, TypeOK, MasterTypeOK
  <2>2. AuctionMsg(currentAuctionId, b) \in masterLog'
    BY <1>2, <1>5
  <2> QED
    BY <1>2, <1>4, <1>6, <1>7, <1>8, <2>1, <2>2 DEF RunningAuction
<1> QED
  BY <1>11, <1>12, <1>13, <1>14, <1>15, <1>16 DEF MasterInv, Books

(* A bid is counted once, or not at all.                                   *)
LEMMA BidInv ==
  ASSUME IInv, NEW sender \in Nodes, NEW msg \in BidderMessage,
         IsCurrent(msg), ProcessBid(sender, msg)
  PROVE  MasterInv'
<1> DEFINE theBids == currentAuctionBids \cup {[bidder |-> sender, amount |-> msg.bidAmount]}
<1>1. CASE UNCHANGED <<masterVars, masterLog>>
  BY <1>1 DEF IInv, MasterInv, RunningAuction, masterVars, auctionVars
<1>2. CASE sender \notin BidderNames(currentAuctionBids)
  <2>1. currentAuctionBids' = theBids
    BY <1>2 DEF ProcessBid
  <2>2. /\ IsFiniteSet(theBids)
        /\ Cardinality(theBids) = Cardinality(currentAuctionBids) + 1
        /\ Cardinality(currentAuctionBids) \in Nat
    <3>1. [bidder |-> sender, amount |-> msg.bidAmount] \notin currentAuctionBids
      BY <1>2 DEF BidderNames
    <3> QED
      BY <3>1, FS_AddElement, FS_CardinalityType DEF IInv, MasterInv
  <2>3. numBidsExpected \in Nat
    BY DEF IInv, TypeOK, MasterTypeOK
  <2>4. CASE AllBidsIn(theBids)
    <3>1. /\ Cardinality(theBids) = numBidsExpected
          /\ ~(Cardinality(currentAuctionBids) >= numBidsExpected)
      BY <2>2, <2>3, <2>4 DEF AllBidsIn
    <3>2. /\ DeclareAuctionWinners(theBids)
          /\ UNCHANGED <<confirmedHosts, currentAuctionId, currentAuctionBucketId,
                         numBidsExpected>>
      BY <1>2, <2>4 DEF ProcessBid
    <3>3. currentAuctionId \in AuctionIds /\ currentAuctionBucketId \in Buckets
      BY DEF IsCurrent, BidderMessage
    <3> HIDE DEF theBids
    <3> QED
      BY <2>1, <2>2, <3>1, <3>2, <3>3, DeclareInv
  <2>5. CASE ~AllBidsIn(theBids)
    <3>1. UNCHANGED <<pendingHosts, masterLog, confirmedHosts, currentAuctionId,
                      currentAuctionBucketId, numBidsExpected>>
      BY <1>2, <2>5 DEF ProcessBid
    <3>2. Cardinality(currentAuctionBids) >= numBidsExpected =>
            Cardinality(theBids) >= numBidsExpected
      BY <2>2, <2>3
    <3> HIDE DEF theBids
    <3> QED
      BY <2>1, <2>2, <3>1, <3>2 DEF IInv, MasterInv, RunningAuction
  <2> QED
    BY <2>4, <2>5
<1> QED
  BY <1>1, <1>2 DEF ProcessBid

(* An acknowledgement moves its sender from pending to confirmed.  The     *)
(* last one ends the auction and starts the next.                          *)
LEMMA WinAckInv ==
  ASSUME IInv, NEW sender \in Nodes, NEW msg \in BidderMessage,
         WinMsg(msg.auctionId, msg.bucketId, sender) \in masterLog,
         IsCurrent(msg), ProcessWinAck(sender, msg)
  PROVE  MasterInv'
<1> DEFINE b         == currentAuctionBucketId
           pending   == [pendingHosts EXCEPT ![b] = @ \ {sender}]
           confirmed == [confirmedHosts EXCEPT ![b] =
                           IF sender \in pendingHosts[b] THEN @ \cup {sender} ELSE @]
           hosted    == pendingHosts[b] \cup confirmedHosts[b]
           end       == AuctionEndMsg(currentAuctionId, b, confirmed[b])
<1>1. currentAuctionId \in AuctionIds /\ b \in Buckets /\ currentAuctionId # NoAuction
  BY NoAuctionAssumption DEF IsCurrent, BidderMessage
<1>2. /\ AuctionMsg(currentAuctionId, b) \in masterLog
      /\ \A e \in Ends(masterLog) : e.bucketId # b
      /\ Winners(masterLog, currentAuctionId) = hosted
      /\ hosted # {} => Cardinality(currentAuctionBids) >= numBidsExpected
  BY <1>1 DEF IInv, MasterInv, RunningAuction
<1>3. sender \in hosted
  <2>1. sender \in Winners(masterLog, currentAuctionId)
    BY DEF Winners, WinMsg, IsCurrent
  <2> QED
    BY <1>2, <2>1
<1>4. /\ pending \in [Buckets -> SUBSET Nodes]
      /\ confirmed \in [Buckets -> SUBSET Nodes]
  BY <1>1 DEF IInv, TypeOK, MasterTypeOK
<1>5. pending[b] \cup confirmed[b] = hosted
  BY <1>1 DEF IInv, TypeOK, MasterTypeOK
<1>6. \A c \in Buckets \ {b} : pending[c] = pendingHosts[c] /\ confirmed[c] = confirmedHosts[c]
  BY DEF IInv, TypeOK, MasterTypeOK
<1>7. FewHosts(confirmed, pending)
  <2> SUFFICES ASSUME NEW c \in Buckets
               PROVE  Cardinality(pending[c] \cup confirmed[c]) <= NumReplica
    BY DEF FewHosts
  <2>1. pending[c] \cup confirmed[c] = pendingHosts[c] \cup confirmedHosts[c]
    BY <1>5, <1>6
  <2> QED
    BY <2>1 DEF IInv, MasterInv, Books, FewHosts
<1>8. \A e \in Ends(masterLog) : e.bucketId \in Buckets \ {b} /\ e.auctionId # currentAuctionId
  BY <1>2 DEF IInv, MasterInv, Books, OneBucketPerAuction, AuctionMsg, Ends, TypeOK, SyncTypeOK,
              MasterMessage
<1>9. confirmedHosts' = confirmed
  BY DEF ProcessWinAck
<1>10. CASE AllConfirmed(pending[b], confirmed[b])
  <2> DEFINE log == masterLog \cup {end}
  <2>1. NextAuction(confirmed, pending, {end})
    BY <1>10 DEF ProcessWinAck
  <2>2. pending[b] = {} /\ confirmed[b] = hosted /\ hosted # {}
    BY <1>3, <1>5, <1>10 DEF AllConfirmed
  <2>3. end.type = "AuctionEnd" /\ end.auctionId = currentAuctionId /\ end.bucketId = b
    BY DEF AuctionEndMsg
  <2>4. end.winnerList = confirmed[b]
    BY DEF AuctionEndMsg
  <2>5. end \in MasterMessage
    BY <1>1, <1>4 DEF AuctionEndMsg, MasterMessage
  <2> HIDE DEF end, pending, confirmed
  <2>6. Ends(log) = Ends(masterLog) \cup {end}
    BY <2>3 DEF Ends
  <2>7. \A id : Winners(log, id) = Winners(masterLog, id)
    BY <2>3 DEF Winners
  <2>8. OneBucketPerAuction(log)
    <3>1. \A m \in masterLog : m.auctionId = currentAuctionId => m.bucketId = b
      BY <1>2 DEF IInv, MasterInv, Books, OneBucketPerAuction, AuctionMsg
    <3> QED
      BY <2>3, <3>1 DEF IInv, MasterInv, Books, OneBucketPerAuction
  <2>9. EndedBooks(log, confirmed, pending)
    <3> SUFFICES ASSUME NEW e \in Ends(log)
                 PROVE  /\ e.winnerList # {}
                        /\ e.winnerList = confirmed[e.bucketId]
                        /\ e.winnerList = Winners(log, e.auctionId)
                        /\ pending[e.bucketId] = {}
      BY DEF EndedBooks
    <3>1. CASE e = end
      BY <1>2, <2>2, <2>3, <2>4, <2>7, <3>1
    <3>2. CASE e \in Ends(masterLog)
      BY <1>6, <1>8, <2>7, <3>2 DEF IInv, MasterInv, Books, EndedBooks
    <3> QED
      BY <2>6, <3>1, <3>2
  <2>10. EndedOnce(log)
    BY <1>8, <2>3, <2>6 DEF IInv, MasterInv, Books, EndedOnce
  <2>11. FewWinners(log)
    BY <2>7 DEF IInv, MasterInv, Books, FewWinners
  <2>12. Books(log, confirmed, pending)
    BY <1>7, <2>8, <2>9, <2>10, <2>11 DEF Books
  <2>13. \A m \in {end} : \E l \in masterLog : l.auctionId = m.auctionId
    BY <1>2, <2>3 DEF AuctionMsg
  <2> QED
    BY <1>4, <1>9, <2>1, <2>5, <2>12, <2>13, NextAuctionInv DEF IInv, MasterInv
<1>11. CASE ~AllConfirmed(pending[b], confirmed[b])
  <2>1. pendingHosts' = pending /\ UNCHANGED <<auctionVars, masterLog>>
    BY <1>11 DEF ProcessWinAck
  <2>2. pending[b] # {}
    BY <1>11 DEF AllConfirmed
  <2> HIDE DEF pending, confirmed
  <2>3. EndedBooks(masterLog, confirmed, pending)
    BY <1>6, <1>8 DEF IInv, MasterInv, Books, EndedBooks
  <2>4. Books(masterLog, confirmed, pending)
    BY <1>7, <2>3 DEF IInv, MasterInv, Books
  <2>5. Books(masterLog', confirmedHosts', pendingHosts')
    BY <1>9, <2>1, <2>4
  <2>6. RunningAuction'
    BY <1>2, <1>3, <1>5, <1>9, <2>1, <2>2 DEF RunningAuction, auctionVars
  <2> QED
    BY <2>1, <2>5, <2>6 DEF IInv, MasterInv, auctionVars
<1> QED
  BY <1>10, <1>11

(* The master's handler of a publication.                                  *)
LEMMA MasterMessageInv ==
  ASSUME IInv, NEW d \in toMaster, MasterMessageArrives(d)
  PROVE  MasterInv'
<1>1. /\ d.sender \in Nodes
      /\ d.msg \in BidderMessage
      /\ d.msg.type = "WinAck" =>
           WinMsg(d.msg.auctionId, d.msg.bucketId, d.sender) \in masterLog
  BY DEF IInv, TypeOK, SyncTypeOK, AcksAnswerWins
<1>2. CASE UNCHANGED <<masterVars, masterLog>>
  BY <1>2 DEF IInv, MasterInv, RunningAuction, masterVars, auctionVars
<1>3. CASE IsCurrent(d.msg) /\ ProcessBid(d.sender, d.msg)
  BY <1>1, <1>3, BidInv
<1>4. CASE IsCurrent(d.msg) /\ ProcessWinAck(d.sender, d.msg)
  <2>1. d.msg.type = "WinAck"
    BY <1>4 DEF ProcessWinAck
  <2> QED
    BY <1>1, <1>4, <2>1, WinAckInv
<1> QED
  BY <1>2, <1>3, <1>4 DEF MasterMessageArrives, MasterReceive

-----------------------------------------------------------------------------
(* The bidders.                                                            *)

(* The master's publications are never withdrawn.                          *)
LEMMA LogGrows ==
  ASSUME TypeOK, [Next]_vars
  PROVE  masterLog \subseteq masterLog'
<1>1. ASSUME NEW confirmed, NEW pending, NEW out, NextAuction(confirmed, pending, out)
      PROVE  masterLog \subseteq masterLog'
  BY <1>1 DEF NextAuction, StartAuction, MasterPublish
<1>2. CASE MasterTimer
  BY <1>1, <1>2 DEF MasterTimer, Initialize, Recheck
<1>3. ASSUME NEW d \in toMaster, MasterMessageArrives(d) PROVE masterLog \subseteq masterLog'
  BY <1>1, <1>3
  DEF MasterMessageArrives, MasterReceive, ProcessBid, ProcessWinAck, DeclareAuctionWinners,
      MasterPublish
<1>4. ASSUME NEW n \in Nodes, NEW m \in masterLog, NodeMessageArrives(n, m)
      PROVE  masterLog \subseteq masterLog'
  BY <1>4 DEF NodeMessageArrives, BidderReceive
<1>5. ASSUME NEW n \in Nodes, NodeRestart(n) PROVE masterLog \subseteq masterLog'
  BY <1>5 DEF NodeRestart
<1>6. CASE UNCHANGED vars
  BY <1>6 DEF vars, syncVars
<1> QED
  BY <1>2, <1>3, <1>4, <1>5, <1>6 DEF Next

(* The bidders acknowledge nothing but what they won.                      *)
LEMMA AcksInv ==
  ASSUME IInv, [Next]_vars
  PROVE  AcksAnswerWins'
<1>1. masterLog \subseteq masterLog'
  BY LogGrows DEF IInv
<1>2. CASE toMaster' \subseteq toMaster
  BY <1>1, <1>2 DEF IInv, AcksAnswerWins
<1>3. ASSUME NEW n \in Nodes, NEW m \in masterLog, NodeMessageArrives(n, m)
      PROVE  AcksAnswerWins'
  <2>1. CASE PlaceBid(n, m)
    <3>1. PICK rnd \in RndBids :
            NodePublish(n, BidMsg(m.auctionId, m.bucketId, BidAmount(rnd, Load(n))))
      BY <2>1 DEF PlaceBid
    <3> QED
      BY <1>1, <3>1 DEF NodePublish, BidMsg, IInv, AcksAnswerWins
  <2>2. CASE AcceptWin(n, m)
    <3>1. m \in MasterMessage /\ m.type = "Win" /\ m.winner = n
      BY <2>2 DEF AcceptWin, IInv, TypeOK, SyncTypeOK
    <3>2. m = WinMsg(m.auctionId, m.bucketId, n)
      BY <3>1 DEF MasterMessage, WinMsg
    <3>3. toMaster' = toMaster \cup {[sender |-> n, msg |-> WinAckMsg(m.auctionId, m.bucketId)]}
      BY <2>2 DEF AcceptWin, NodePublish
    <3> QED
      BY <1>1, <3>2, <3>3 DEF WinAckMsg, IInv, AcksAnswerWins
  <2>3. CASE StartWorker(n, m)
    BY <1>2, <2>3 DEF StartWorker
  <2> QED
    BY <1>3, <2>1, <2>2, <2>3 DEF NodeMessageArrives, BidderReceive
<1>4. CASE MasterTimer
  BY <1>2, <1>4 DEF MasterTimer, Initialize, Recheck
<1>5. CASE \E d \in toMaster : MasterMessageArrives(d)
  BY <1>2, <1>5 DEF MasterMessageArrives, MasterReceive, MasterFetch
<1>6. CASE \E n \in Nodes : NodeRestart(n)
  BY <1>2, <1>6 DEF NodeRestart
<1>7. CASE UNCHANGED vars
  BY <1>2, <1>7 DEF vars, syncVars
<1> QED
  BY <1>3, <1>4, <1>5, <1>6, <1>7 DEF Next

(* A node forgets what it has fetched only when it restarts.               *)
LEMMA FetchedGrows ==
  ASSUME TypeOK, [Next]_vars, NEW k \in Nodes
  PROVE  fetched[k] \subseteq fetched'[k] \/ serving'[k] = {}
<1>1. CASE MasterTimer
  BY <1>1, LogGrows DEF MasterTimer, Initialize, Recheck, NextAuction, StartAuction
<1>2. ASSUME NEW d \in toMaster, MasterMessageArrives(d)
      PROVE  fetched' = fetched
  BY <1>2 DEF MasterMessageArrives, MasterReceive
<1>3. ASSUME NEW n \in Nodes, NEW m \in masterLog, NodeMessageArrives(n, m)
      PROVE  fetched[k] \subseteq fetched'[k]
  BY <1>3 DEF NodeMessageArrives, BidderReceive, NodeFetch, TypeOK, SyncTypeOK
<1>4. ASSUME NEW n \in Nodes, NodeRestart(n)
      PROVE  fetched[k] \subseteq fetched'[k] \/ serving'[k] = {}
  BY <1>4 DEF NodeRestart, TypeOK, SyncTypeOK, BidderTypeOK
<1>5. CASE UNCHANGED vars
  BY <1>5 DEF vars, syncVars
<1> QED
  BY <1>1, <1>2, <1>3, <1>4, <1>5 DEF Next

(* A step either leaves the workers of all nodes as they are, or it is one *)
(* of the two that change them.                                            *)
LEMMA WorkerSteps ==
  ASSUME [Next]_vars
  PROVE  \/ UNCHANGED <<hosts, serving>>
         \/ \E n \in Nodes : \E m \in masterLog :
              /\ m.type = "AuctionEnd"
              /\ NodeFetch(n, m)
              /\ hosts' = [hosts EXCEPT ![n][m.bucketId] = m.winnerList]
              /\ serving' = [serving EXCEPT ![n] = @ \cup {m.bucketId}]
         \/ \E n \in Nodes : NodeRestart(n)
<1>1. CASE MasterTimer
  BY <1>1 DEF MasterTimer, bidderVars
<1>2. CASE \E d \in toMaster : MasterMessageArrives(d)
  BY <1>2 DEF MasterMessageArrives, bidderVars
<1>3. ASSUME NEW n \in Nodes, NEW m \in masterLog, NodeMessageArrives(n, m)
      PROVE  \/ UNCHANGED <<hosts, serving>>
             \/ /\ m.type = "AuctionEnd"
                /\ NodeFetch(n, m)
                /\ hosts' = [hosts EXCEPT ![n][m.bucketId] = m.winnerList]
                /\ serving' = [serving EXCEPT ![n] = @ \cup {m.bucketId}]
  BY <1>3 DEF NodeMessageArrives, BidderReceive, PlaceBid, AcceptWin, StartWorker, bidderVars
<1>4. CASE UNCHANGED vars
  BY <1>4 DEF vars, bidderVars
<1> QED
  BY <1>1, <1>2, <1>3, <1>4 DEF Next

(* A worker's hosts come from an AuctionEnd that its node has fetched.     *)
LEMMA WorkersInv ==
  ASSUME IInv, [Next]_vars
  PROVE  WorkersWereTold'
<1>1. Ends(masterLog) \subseteq Ends(masterLog')
  BY LogGrows DEF IInv, Ends
<1>2. \A k \in Nodes : fetched[k] \subseteq fetched'[k] \/ serving'[k] = {}
  BY FetchedGrows DEF IInv
<1>3. CASE UNCHANGED <<hosts, serving>>
  BY <1>1, <1>2, <1>3 DEF IInv, WorkersWereTold
<1>4. ASSUME NEW n \in Nodes, NEW m \in masterLog,
             m.type = "AuctionEnd",
             NodeFetch(n, m),
             hosts' = [hosts EXCEPT ![n][m.bucketId] = m.winnerList],
             serving' = [serving EXCEPT ![n] = @ \cup {m.bucketId}]
      PROVE  WorkersWereTold'
  <2> SUFFICES ASSUME NEW k \in Nodes, NEW b \in serving'[k]
               PROVE  \E e \in Ends(masterLog') \cap fetched'[k] :
                        e.bucketId = b /\ e.winnerList = hosts'[k][b]
    BY DEF WorkersWereTold
  <2>1. m \in Ends(masterLog) /\ m.bucketId \in Buckets
    BY <1>4 DEF Ends, IInv, TypeOK, SyncTypeOK, MasterMessage
  <2>2. /\ hosts \in [Nodes -> [Buckets -> SUBSET Nodes]]
        /\ serving \in [Nodes -> SUBSET Buckets]
    BY DEF IInv, TypeOK, BidderTypeOK
  <2>3. hosts' = [hosts EXCEPT ![n] = [hosts[n] EXCEPT ![m.bucketId] = m.winnerList]]
    BY <1>4
  <2>4. CASE k = n /\ b = m.bucketId
    <3>1. hosts'[k][b] = m.winnerList
      BY <2>1, <2>2, <2>3, <2>4
    <3>2. m \in fetched'[k]
      BY <1>4, <2>4 DEF NodeFetch, IInv, TypeOK, SyncTypeOK
    <3> QED
      BY <1>1, <2>1, <2>4, <3>1, <3>2
  <2>5. CASE ~(k = n /\ b = m.bucketId)
    <3>1. b \in serving[k] /\ b \in Buckets
      BY <1>4, <2>2, <2>5
    <3>2. hosts'[k][b] = hosts[k][b]
      BY <2>1, <2>2, <2>3, <2>5, <3>1
    <3> QED
      BY <1>1, <1>2, <3>1, <3>2 DEF IInv, WorkersWereTold
  <2> QED
    BY <2>4, <2>5
<1>5. ASSUME NEW n \in Nodes, NodeRestart(n)
      PROVE  WorkersWereTold'
  <2>1. \A k \in Nodes :
          \/ serving'[k] = {}
          \/ serving'[k] = serving[k] /\ hosts'[k] = hosts[k]
    BY <1>5 DEF NodeRestart, IInv, TypeOK, BidderTypeOK
  <2> QED
    BY <1>1, <1>2, <2>1 DEF IInv, WorkersWereTold
<1> QED
  BY <1>3, <1>4, <1>5, WorkerSteps

-----------------------------------------------------------------------------
(* The invariant is inductive.                                             *)

(* The invariant holds when the master and the bidders are constructed.    *)
LEMMA InitInv == Init => IInv
<1> SUFFICES ASSUME Init PROVE IInv
  OBVIOUS
<1>1. masterLog = {} /\ toMaster = {} /\ currentAuctionBids = {} /\ currentAuctionId = NoAuction
  BY DEF Init, SyncInit, MasterInit
<1>2. Books(masterLog, confirmedHosts, pendingHosts)
  <2>1. Ends(masterLog) = {} /\ \A id : Winners(masterLog, id) = {}
    BY <1>1 DEF Ends, Winners
  <2>2. \A b \in Buckets : pendingHosts[b] \cup confirmedHosts[b] = {}
    BY DEF Init, MasterInit
  <2> QED
    BY <1>1, <2>1, <2>2, FS_EmptySet, NumReplicaAssumption
    DEF Books, OneBucketPerAuction, EndedBooks, EndedOnce, FewHosts, FewWinners
<1>3. WorkersWereTold
  BY DEF Init, BidderInit, WorkersWereTold
<1> QED
  BY <1>1, <1>2, <1>3, InitType, FS_EmptySet DEF IInv, MasterInv, RunningAuction, AcksAnswerWins

(* Every handler of the master and of a bidder, and every restart of a     *)
(* node, keeps the invariant.                                              *)
LEMMA NextInv == IInv /\ [Next]_vars => IInv'
<1> SUFFICES ASSUME IInv, [Next]_vars PROVE IInv'
  OBVIOUS
<1>1. TypeOK'
  BY NextType DEF IInv
<1>2. MasterInv'
  <2>1. CASE MasterTimer
    BY <2>1, TimerInv
  <2>2. CASE \E d \in toMaster : MasterMessageArrives(d)
    BY <2>2, MasterMessageInv
  <2>3. CASE UNCHANGED <<masterVars, masterLog>>
    BY <2>3 DEF IInv, MasterInv, RunningAuction, masterVars, auctionVars
  <2>4. ASSUME NEW n \in Nodes, NEW m \in masterLog, NodeMessageArrives(n, m)
        PROVE  UNCHANGED <<masterVars, masterLog>>
    BY <2>4 DEF NodeMessageArrives, BidderReceive
  <2>5. ASSUME NEW n \in Nodes, NodeRestart(n)
        PROVE  UNCHANGED <<masterVars, masterLog>>
    BY <2>5 DEF NodeRestart
  <2>6. CASE UNCHANGED vars
    BY <2>3, <2>6 DEF vars, syncVars
  <2> QED
    BY <2>1, <2>2, <2>3, <2>4, <2>5, <2>6 DEF Next
<1> QED
  BY <1>1, <1>2, AcksInv, WorkersInv DEF IInv

(* The books of the master, the messages and the workers fit together in   *)
(* every state of every behaviour.                                         *)
THEOREM Invariance == Spec => []IInv
BY InitInv, NextInv, PTL DEF Spec

-----------------------------------------------------------------------------
(* What follows.                                                           *)

(* The master publishes at most one AuctionEnd for a bucket, however many  *)
(* nodes, buckets, replicas and auctions there are and whatever is lost.   *)
THEOREM OneEndPerBucketHolds == Spec => []OneEndPerBucket
<1>1. IInv => OneEndPerBucket
  BY DEF IInv, MasterInv, Books, EndedOnce, Ends, OneEndPerBucket, EndsPublished
<1> QED
  BY <1>1, Invariance, PTL

(* The list that endAuction() publishes names exactly the nodes that       *)
(* declareAuctionWinners() told they won this auction.                     *)
THEOREM EndNamesAllWinnersHolds == Spec => []EndNamesAllWinners
<1>1. IInv => EndNamesAllWinners
  BY DEF IInv, MasterInv, Books, EndedBooks, Ends, Winners, EndNamesAllWinners, EndsPublished,
         WinnersOf, WinsPublished
<1> QED
  BY <1>1, Invariance, PTL

(* A late bid never makes processMessage() declare winners a second time:  *)
(* an auction has at most NUM_REPLICA winners.                             *)
THEOREM SingleDeclarationHolds == Spec => []SingleDeclaration
<1>1. IInv => SingleDeclaration
  <2> SUFFICES ASSUME IInv, NEW a \in AuctionsPublished
               PROVE  Cardinality(WinnersOf(a.auctionId)) <= NumReplica
    BY DEF SingleDeclaration
  <2>1. a.auctionId \in AuctionIds
    BY DEF AuctionsPublished, IInv, TypeOK, SyncTypeOK, MasterMessage
  <2>2. WinnersOf(a.auctionId) = Winners(masterLog, a.auctionId)
    BY DEF WinnersOf, WinsPublished, Winners
  <2> QED
    BY <2>1, <2>2 DEF IInv, MasterInv, Books, FewWinners
<1> QED
  BY <1>1, Invariance, PTL

(* The pending and confirmed hosts of a bucket together are never more     *)
(* than NUM_REPLICA, through any number of interrupted auctions.           *)
THEOREM HostsBoundedHolds == Spec => []HostsBounded
<1>1. IInv => HostsBounded
  BY DEF IInv, MasterInv, Books, FewHosts, HostsBounded
<1> QED
  BY <1>1, Invariance, PTL

(* A worker that a bidder started replicates to the hosts the master has   *)
(* confirmed, in whatever order the node fetched Win and AuctionEnd.       *)
THEOREM WorkersAgreeHolds == Spec => []WorkersAgree
<1>1. IInv => WorkersAgree
  BY DEF IInv, MasterInv, Books, EndedBooks, WorkersWereTold, WorkersAgree
<1> QED
  BY <1>1, Invariance, PTL

(* The AuctionEnd of a bucket is fetched by a node before it has a worker  *)
(* for the bucket, and there is no other one to fetch afterwards.          *)
LEMMA EndBeforeWorker ==
  ASSUME IInv, [Next]_vars, NEW k \in Nodes, NEW m \in fetched'[k] \ fetched[k],
         m.type = "AuctionEnd"
  PROVE  m.bucketId \notin serving[k]
<1>1. CASE \E n \in Nodes : \E l \in masterLog : NodeMessageArrives(n, l)
  <2>1. m \in masterLog
    BY <1>1 DEF NodeMessageArrives, BidderReceive, NodeFetch, IInv, TypeOK, SyncTypeOK
  <2> SUFFICES ASSUME m.bucketId \in serving[k] PROVE FALSE
    OBVIOUS
  <2>2. PICK e \in Ends(masterLog) \cap fetched[k] : e.bucketId = m.bucketId
    BY DEF IInv, WorkersWereTold
  <2>3. e = m
    BY <2>1, <2>2 DEF Ends, IInv, MasterInv, Books, EndedOnce
  <2> QED
    BY <2>2, <2>3
<1>2. CASE MasterTimer \/ \E d \in toMaster : MasterMessageArrives(d)
  BY <1>2 DEF MasterTimer, Initialize, Recheck, NextAuction, StartAuction,
              MasterMessageArrives, MasterReceive
<1>3. CASE \E n \in Nodes : NodeRestart(n)
  BY <1>3 DEF NodeRestart, IInv, TypeOK, SyncTypeOK
<1>4. CASE UNCHANGED vars
  BY <1>4 DEF vars, syncVars
<1> QED
  BY <1>1, <1>2, <1>3, <1>4 DEF Next

(* The case AuctionEnd of processMasterMessage() never writes the host list*)
(* of a worker that runs already.                                          *)
THEOREM NoRewriteUnderWorkerHolds == Spec => NoRewriteUnderWorker
<1>1. IInv /\ [Next]_vars =>
        [\A n \in Nodes : \A m \in fetched'[n] \ fetched[n] :
           m.type = "AuctionEnd" => m.bucketId \notin serving[n]]_vars
  BY EndBeforeWorker
<1> QED
  BY <1>1, Invariance, PTL DEF Spec, NoRewriteUnderWorker

-----------------------------------------------------------------------------
(* The auctions implement ReplicaAssignment.                               *)

(* One step publishes at most one AuctionEnd, for a bucket that has none,  *)
(* and changes no worker then.                                             *)
LEMMA EndSteps ==
  ASSUME IInv, [Next]_vars
  PROVE  \/ Ends(masterLog') = Ends(masterLog)
         \/ \E end \in masterLog' :
              /\ Ends(masterLog') = Ends(masterLog) \cup {end}
              /\ end.bucketId \in Buckets
              /\ \A e \in Ends(masterLog) : e.bucketId # end.bucketId
              /\ UNCHANGED <<hosts, serving>>
<1> DEFINE b == currentAuctionBucketId
           Same == Ends(masterLog') = Ends(masterLog)
<1>1. ASSUME NEW confirmed, NEW pending, NEW out, NextAuction(confirmed, pending, out)
      PROVE  Ends(masterLog') = Ends(masterLog) \cup Ends(out) /\ out \subseteq masterLog'
  BY <1>1 DEF NextAuction, StartAuction, MasterPublish, AuctionMsg, Ends
<1>2. CASE UNCHANGED masterLog
  BY <1>2
<1>3. CASE MasterTimer
  <2>1. ASSUME NextAuction(confirmedHosts, pendingHosts, {})
        PROVE  Same
    BY <1>1, <2>1 DEF Ends
  <2> QED
    BY <1>2, <1>3, <2>1 DEF MasterTimer, Initialize, Recheck
<1>4. ASSUME NEW d \in toMaster, MasterMessageArrives(d), IsCurrent(d.msg),
             ProcessBid(d.sender, d.msg)
      PROVE  Same
  <2>1. CASE \E theBids : DeclareAuctionWinners(theBids)
    BY <2>1 DEF DeclareAuctionWinners, MasterPublish, WinMsg, Ends
  <2> QED
    BY <1>2, <1>4, <2>1 DEF ProcessBid
<1>5. ASSUME NEW d \in toMaster, MasterMessageArrives(d), IsCurrent(d.msg),
             ProcessWinAck(d.sender, d.msg)
      PROVE  \/ Same
             \/ \E end \in masterLog' :
                  /\ Ends(masterLog') = Ends(masterLog) \cup {end}
                  /\ end.bucketId \in Buckets
                  /\ \A e \in Ends(masterLog) : e.bucketId # end.bucketId
                  /\ UNCHANGED <<hosts, serving>>
  <2>1. currentAuctionId # NoAuction /\ b \in Buckets
    BY <1>5, NoAuctionAssumption DEF IsCurrent, BidderMessage, IInv, TypeOK, SyncTypeOK
  <2>2. \A e \in Ends(masterLog) : e.bucketId # b
    BY <2>1 DEF IInv, MasterInv, RunningAuction
  <2>3. UNCHANGED <<hosts, serving>>
    BY <1>5 DEF MasterMessageArrives, bidderVars
  <2>4. CASE \E confirmed, pending, named :
               NextAuction(confirmed, pending, {AuctionEndMsg(currentAuctionId, b, named)})
    <3>1. PICK named :
            /\ Ends(masterLog') =
                 Ends(masterLog) \cup Ends({AuctionEndMsg(currentAuctionId, b, named)})
            /\ AuctionEndMsg(currentAuctionId, b, named) \in masterLog'
      BY <1>1, <2>4
    <3>2. /\ Ends({AuctionEndMsg(currentAuctionId, b, named)}) =
               {AuctionEndMsg(currentAuctionId, b, named)}
          /\ AuctionEndMsg(currentAuctionId, b, named).bucketId = b
      BY DEF Ends, AuctionEndMsg
    <3> QED
      BY <2>1, <2>2, <2>3, <3>1, <3>2
  <2> QED
    BY <1>2, <1>5, <2>4 DEF ProcessWinAck
<1>6. CASE \E n \in Nodes : \E m \in masterLog : NodeMessageArrives(n, m)
  BY <1>2, <1>6 DEF NodeMessageArrives, BidderReceive
<1>7. CASE \E n \in Nodes : NodeRestart(n)
  BY <1>2, <1>7 DEF NodeRestart
<1>8. CASE UNCHANGED vars
  BY <1>2, <1>8 DEF vars, syncVars
<1>9. CASE \E d \in toMaster : MasterMessageArrives(d)
  BY <1>2, <1>4, <1>5, <1>9 DEF MasterMessageArrives, MasterReceive
<1> QED
  BY <1>3, <1>6, <1>7, <1>8, <1>9 DEF Next

AssignedIn(log, b) == UNION {e.winnerList : e \in {m \in Ends(log) : m.bucketId = b}}

(* Before a bucket's AuctionEnd it is not assigned; after it, it is        *)
(* assigned to the hosts the message names.                                *)
LEMMA AssignedOnce ==
  ASSUME NEW log, EndedOnce(log), NEW b
  PROVE  /\ (\A e \in Ends(log) : e.bucketId # b) => AssignedIn(log, b) = {}
         /\ \A e \in Ends(log) : e.bucketId = b => AssignedIn(log, b) = e.winnerList
<1>1. ASSUME \A e \in Ends(log) : e.bucketId # b
      PROVE  AssignedIn(log, b) = {}
  BY <1>1 DEF AssignedIn
<1>2. ASSUME NEW e \in Ends(log), e.bucketId = b
      PROVE  AssignedIn(log, b) = e.winnerList
  <2>1. {m \in Ends(log) : m.bucketId = b} = {e}
    BY <1>2 DEF EndedOnce
  <2> QED
    BY <2>1 DEF AssignedIn
<1> QED
  BY <1>1, <1>2

(* The refinement mapping in terms of AssignedIn, before and after a step. *)
LEMMA AssignmentIs ==
  /\ Assignment = [b \in Buckets |-> AssignedIn(masterLog, b)]
  /\ Assignment' = [b \in Buckets |-> AssignedIn(masterLog', b)]
BY DEF Assignment, AssignedIn, EndsPublished, Ends

(* Publishing AuctionEnd is Assign.                                        *)
LEMMA EndIsAssign ==
  ASSUME IInv, IInv', NEW end \in masterLog',
         Ends(masterLog') = Ends(masterLog) \cup {end},
         end.bucketId \in Buckets,
         \A e \in Ends(masterLog) : e.bucketId # end.bucketId,
         UNCHANGED <<hosts, serving>>
  PROVE  Abstract!Assign(end.bucketId, end.winnerList) /\ end.winnerList \in Placements
<1>1. end \in Ends(masterLog')
  OBVIOUS
<1>2. EndedOnce(masterLog) /\ EndedOnce(masterLog')
  BY DEF IInv, MasterInv, Books
<1>3. /\ end.winnerList # {}
      /\ end.winnerList = Winners(masterLog', end.auctionId)
  BY <1>1 DEF IInv, MasterInv, Books, EndedBooks
<1>4. end.winnerList \in SUBSET Nodes /\ end.auctionId \in AuctionIds
  BY <1>1 DEF IInv, TypeOK, SyncTypeOK, MasterMessage, Ends
<1>5. Cardinality(end.winnerList) <= NumReplica
  BY <1>3, <1>4 DEF IInv, MasterInv, Books, FewWinners
<1>6. Assignment[end.bucketId] = {}
  BY <1>2, AssignedOnce, AssignmentIs
<1>7. Assignment' = [Assignment EXCEPT ![end.bucketId] = end.winnerList]
  <2> SUFFICES ASSUME NEW b \in Buckets
               PROVE  AssignedIn(masterLog', b) =
                        IF b = end.bucketId THEN end.winnerList ELSE AssignedIn(masterLog, b)
    BY AssignmentIs
  <2>1. CASE b = end.bucketId
    BY <1>1, <1>2, <2>1, AssignedOnce
  <2>2. CASE b # end.bucketId
    <3>1. {m \in Ends(masterLog') : m.bucketId = b} = {m \in Ends(masterLog) : m.bucketId = b}
      BY <2>2
    <3> QED
      BY <2>2, <3>1 DEF AssignedIn
  <2> QED
    BY <2>1, <2>2
<1>8. View' = View
  BY DEF View
<1>9. end.winnerList \in Placements
  BY <1>3, <1>4, <1>5 DEF Placements
<1> QED
  BY <1>6, <1>7, <1>8, <1>9 DEF Abstract!Assign

(* Starting a worker, or telling it again, is Adopt.                       *)
LEMMA StartIsAdopt ==
  ASSUME IInv, Assignment' = Assignment, NEW n \in Nodes, NEW m \in masterLog,
         m.type = "AuctionEnd",
         hosts' = [hosts EXCEPT ![n][m.bucketId] = m.winnerList],
         serving' = [serving EXCEPT ![n] = @ \cup {m.bucketId}]
  PROVE  Abstract!Adopt(n, m.bucketId) /\ m.bucketId \in Buckets
<1> DEFINE b == m.bucketId
<1>1. m \in Ends(masterLog) /\ b \in Buckets
  BY DEF Ends, IInv, TypeOK, SyncTypeOK, MasterMessage
<1>2. /\ hosts \in [Nodes -> [Buckets -> SUBSET Nodes]]
      /\ serving \in [Nodes -> SUBSET Buckets]
  BY DEF IInv, TypeOK, BidderTypeOK
<1>3. Assignment[b] = m.winnerList /\ m.winnerList # {}
  BY <1>1, AssignedOnce, AssignmentIs DEF IInv, MasterInv, Books, EndedBooks
<1>4. hosts' = [hosts EXCEPT ![n] = [hosts[n] EXCEPT ![b] = m.winnerList]]
  OBVIOUS
<1>5. \A k \in Nodes, c \in Buckets :
        View'[k][c] = IF k = n /\ c = b THEN m.winnerList ELSE View[k][c]
  <2> SUFFICES ASSUME NEW k \in Nodes, NEW c \in Buckets
               PROVE  View'[k][c] = IF k = n /\ c = b THEN m.winnerList ELSE View[k][c]
    OBVIOUS
  <2>1. /\ View[k][c] = IF c \in serving[k] THEN hosts[k][c] ELSE {}
        /\ View'[k][c] = IF c \in serving'[k] THEN hosts'[k][c] ELSE {}
    BY DEF View
  <2>2. CASE k = n /\ c = b
    <3>1. c \in serving'[k] /\ hosts'[k][c] = m.winnerList
      BY <1>1, <1>2, <1>4, <2>2
    <3> QED
      BY <2>1, <2>2, <3>1
  <2>3. CASE ~(k = n /\ c = b)
    <3>1. (c \in serving'[k] <=> c \in serving[k]) /\ hosts'[k][c] = hosts[k][c]
      BY <1>1, <1>2, <1>4, <2>3
    <3> QED
      BY <2>1, <2>3, <3>1
  <2> QED
    BY <2>2, <2>3
<1>6. View' = [View EXCEPT ![n] = [View[n] EXCEPT ![b] = m.winnerList]]
  <2>1. \A k \in Nodes : /\ View[k] = [c \in Buckets |-> View[k][c]]
                         /\ View'[k] = [c \in Buckets |-> View'[k][c]]
    BY DEF View
  <2>2. \A k \in Nodes :
          View'[k] = IF k = n THEN [View[n] EXCEPT ![b] = m.winnerList] ELSE View[k]
    <3> SUFFICES ASSUME NEW k \in Nodes
                 PROVE  View'[k] = IF k = n THEN [View[n] EXCEPT ![b] = m.winnerList] ELSE View[k]
      OBVIOUS
    <3>1. CASE k = n
      <4>1. View'[n] = [c \in Buckets |-> IF c = b THEN m.winnerList ELSE View[n][c]]
        BY <1>5, <2>1
      <4>2. [View[n] EXCEPT ![b] = m.winnerList] =
              [c \in Buckets |-> IF c = b THEN m.winnerList ELSE View[n][c]]
        BY <2>1
      <4> QED
        BY <3>1, <4>1, <4>2
    <3>2. CASE k # n
      <4>1. \A c \in Buckets : View'[k][c] = View[k][c]
        BY <1>5, <3>2
      <4> QED
        BY <2>1, <3>2, <4>1
    <3> QED
      BY <3>1, <3>2
  <2>3. /\ View = [k \in Nodes |-> View[k]]
        /\ View' = [k \in Nodes |-> View'[k]]
    BY DEF View
  <2> QED
    BY <2>2, <2>3
<1> QED
  BY <1>1, <1>3, <1>6 DEF Abstract!Adopt

(* A restart is Forget.                                                    *)
LEMMA RestartIsForget ==
  ASSUME IInv, NEW n \in Nodes, NodeRestart(n)
  PROVE  Abstract!Forget(n)
<1>1. Assignment' = Assignment
  BY DEF NodeRestart, Assignment, EndsPublished
<1>2. /\ serving'[n] = {}
      /\ \A k \in Nodes \ {n} : serving'[k] = serving[k] /\ hosts'[k] = hosts[k]
  BY DEF NodeRestart, IInv, TypeOK, BidderTypeOK
<1>3. View' = [View EXCEPT ![n] = [b \in Buckets |-> {}]]
  BY <1>2 DEF View
<1> QED
  BY <1>1, <1>3 DEF Abstract!Forget

(* Nothing is assigned and no worker runs at first.                        *)
LEMMA InitRefines == Init => Abstract!Init
<1> SUFFICES ASSUME Init PROVE Abstract!Init
  OBVIOUS
<1>1. \A b \in Buckets : AssignedIn(masterLog, b) = {}
  BY DEF Init, SyncInit, AssignedIn, Ends
<1>2. Assignment = [b \in Buckets |-> {}]
  BY <1>1, AssignmentIs
<1>3. View = [n \in Nodes |-> [b \in Buckets |-> {}]]
  BY DEF Init, BidderInit, View
<1> QED
  BY <1>2, <1>3 DEF Abstract!Init

(* Every handler and every restart is a step of ReplicaAssignment or       *)
(* leaves its state as it is.                                              *)
LEMMA NextRefines == IInv /\ IInv' /\ [Next]_vars => [Abstract!Next]_(Abstract!vars)
<1> SUFFICES ASSUME IInv, IInv', [Next]_vars PROVE [Abstract!Next]_(Abstract!vars)
  OBVIOUS
<1>1. CASE \E end \in masterLog' :
             /\ Ends(masterLog') = Ends(masterLog) \cup {end}
             /\ end.bucketId \in Buckets
             /\ \A e \in Ends(masterLog) : e.bucketId # end.bucketId
             /\ UNCHANGED <<hosts, serving>>
  BY <1>1, EndIsAssign DEF Abstract!Next
<1>2. CASE Ends(masterLog') = Ends(masterLog)
  <2>1. Assignment' = Assignment
    BY <1>2, AssignmentIs DEF AssignedIn
  <2>2. CASE UNCHANGED <<hosts, serving>>
    <3>1. View' = View
      BY <2>2 DEF View
    <3> QED
      BY <2>1, <3>1 DEF Abstract!vars
  <2>3. ASSUME NEW n \in Nodes, NEW m \in masterLog,
               m.type = "AuctionEnd",
               hosts' = [hosts EXCEPT ![n][m.bucketId] = m.winnerList],
               serving' = [serving EXCEPT ![n] = @ \cup {m.bucketId}]
        PROVE  Abstract!Next
    BY <2>1, <2>3, StartIsAdopt DEF Abstract!Next
  <2>4. ASSUME NEW n \in Nodes, NodeRestart(n)
        PROVE  Abstract!Next
    BY <2>4, RestartIsForget DEF Abstract!Next
  <2> QED
    BY <2>2, <2>3, <2>4, WorkerSteps
<1> QED
  BY <1>1, <1>2, EndSteps

(* The protocol of master.cpp and bidder.cpp gives each bucket to one set  *)
(* of hosts, for good, and only those sets reach the workers.              *)
THEOREM ImplementsAssignmentHolds == Spec => ImplementsAssignment
BY InitRefines, NextRefines, Invariance, PTL DEF Spec, ImplementsAssignment, Abstract!Spec

-----------------------------------------------------------------------------
(* What the master may count on.                                           *)

(* As long as no node restarts, a host has noted the bucket of each of its *)
(* acknowledgements on their way, so that every confirmed host knows.      *)
AcksAreNoted ==
  restarts = 0 =>
    \A d \in toMaster : d.msg.type = "WinAck" => d.msg.bucketId \in wonBuckets[d.sender]

KnowledgeInv == TypeOK /\ AcksAreNoted /\ ConfirmedHostsKnow

(* Nothing is withdrawn from m_buckets, and only the handlers of the master*)
(* confirm hosts: the steps of the timer and of the bidders.               *)
LEMMA KnowledgeKept ==
  ASSUME KnowledgeInv,
         UNCHANGED <<confirmedHosts, restarts>>,
         wonBuckets' \in [Nodes -> SUBSET Buckets],
         \A n \in Nodes : wonBuckets[n] \subseteq wonBuckets'[n],
         \A d \in toMaster' \ toMaster :
           d.msg.type = "WinAck" => d.msg.bucketId \in wonBuckets'[d.sender]
  PROVE  AcksAreNoted' /\ ConfirmedHostsKnow'
<1>1. confirmedHosts \in [Buckets -> SUBSET Nodes]
  BY DEF KnowledgeInv, TypeOK, MasterTypeOK
<1>2. \A d \in toMaster : d.sender \in Nodes
  BY DEF KnowledgeInv, TypeOK, SyncTypeOK
<1>3. AcksAreNoted'
  BY <1>2 DEF KnowledgeInv, AcksAreNoted
<1>4. ConfirmedHostsKnow'
  BY <1>1 DEF KnowledgeInv, ConfirmedHostsKnow
<1> QED
  BY <1>3, <1>4

(* processMessage() confirms the sender of an acknowledgement for the      *)
(* bucket that this acknowledgement is about, and for no other.            *)
LEMMA ConfirmedByAck ==
  ASSUME TypeOK, NEW d \in toMaster, MasterMessageArrives(d),
         NEW b \in Buckets, NEW n \in confirmedHosts'[b]
  PROVE  \/ n \in confirmedHosts[b]
         \/ d.msg.type = "WinAck" /\ d.msg.bucketId = b /\ d.sender = n
<1>1. confirmedHosts \in [Buckets -> SUBSET Nodes]
  BY DEF TypeOK, MasterTypeOK
<1>2. CASE UNCHANGED masterVars
  BY <1>2 DEF masterVars
<1>3. CASE IsCurrent(d.msg) /\ ProcessBid(d.sender, d.msg)
  BY <1>3 DEF ProcessBid, masterVars
<1>4. CASE IsCurrent(d.msg) /\ ProcessWinAck(d.sender, d.msg)
  BY <1>1, <1>4 DEF ProcessWinAck, IsCurrent
<1> QED
  BY <1>2, <1>3, <1>4 DEF MasterMessageArrives, MasterReceive

(* Every handler keeps it; a restart is outside of what it promises.       *)
LEMMA KnowledgeStep == KnowledgeInv /\ [Next]_vars => KnowledgeInv'
<1> SUFFICES ASSUME KnowledgeInv, [Next]_vars PROVE KnowledgeInv'
  OBVIOUS
<1>1. TypeOK /\ TypeOK'
  BY NextType DEF KnowledgeInv
<1>2. /\ wonBuckets \in [Nodes -> SUBSET Buckets]
      /\ wonBuckets' \in [Nodes -> SUBSET Buckets]
      /\ toMaster \subseteq [sender : Nodes, msg : BidderMessage]
      /\ restarts \in Nat
  BY <1>1, MaxRestartsAssumption DEF TypeOK, BidderTypeOK, SyncTypeOK
<1>3. CASE MasterTimer
  <2>1. UNCHANGED <<confirmedHosts, restarts, wonBuckets, toMaster>>
    BY <1>3 DEF MasterTimer, Initialize, Recheck, bidderVars
  <2> QED
    BY <1>1, <1>2, <2>1, KnowledgeKept DEF KnowledgeInv
<1>4. ASSUME NEW d \in toMaster, MasterMessageArrives(d)
      PROVE  KnowledgeInv'
  <2>1. UNCHANGED <<restarts, wonBuckets>> /\ toMaster' \subseteq toMaster
    BY <1>4 DEF MasterMessageArrives, MasterReceive, MasterFetch, bidderVars
  <2>2. AcksAreNoted'
    BY <2>1 DEF KnowledgeInv, AcksAreNoted
  <2>3. ASSUME restarts' = 0, NEW b \in Buckets, NEW n \in confirmedHosts'[b]
        PROVE  b \in wonBuckets'[n]
    <3>1. CASE n \in confirmedHosts[b]
      BY <2>1, <2>3, <3>1 DEF KnowledgeInv, ConfirmedHostsKnow
    <3>2. CASE d.msg.type = "WinAck" /\ d.msg.bucketId = b /\ d.sender = n
      BY <2>1, <2>3, <3>2 DEF KnowledgeInv, AcksAreNoted
    <3> QED
      BY <1>1, <1>4, <2>3, <3>1, <3>2, ConfirmedByAck
  <2> QED
    BY <1>1, <2>2, <2>3 DEF KnowledgeInv, ConfirmedHostsKnow
<1>5. ASSUME NEW n \in Nodes, NEW m \in masterLog, NodeMessageArrives(n, m)
      PROVE  KnowledgeInv'
  <2>1. UNCHANGED <<confirmedHosts, restarts>>
    BY <1>5 DEF NodeMessageArrives, masterVars
  <2>2. CASE PlaceBid(n, m)
    <3>1. wonBuckets' = wonBuckets
      BY <2>2 DEF PlaceBid, bidderVars
    <3>2. \A d \in toMaster' \ toMaster : d.msg.type # "WinAck"
      BY <2>2 DEF PlaceBid, NodePublish, BidMsg
    <3> QED
      BY <1>1, <1>2, <2>1, <3>1, <3>2, KnowledgeKept DEF KnowledgeInv
  <2>3. CASE AcceptWin(n, m)
    <3>1. wonBuckets' = [wonBuckets EXCEPT ![n] = @ \cup {m.bucketId}]
      BY <2>3 DEF AcceptWin, AddBucket
    <3>2. \A d \in toMaster' \ toMaster : d.sender = n /\ d.msg.bucketId = m.bucketId
      BY <2>3 DEF AcceptWin, NodePublish, WinAckMsg
    <3>3. /\ \A k \in Nodes : wonBuckets[k] \subseteq wonBuckets'[k]
          /\ m.bucketId \in wonBuckets'[n]
      BY <1>2, <3>1
    <3> QED
      BY <1>1, <1>2, <2>1, <3>2, <3>3, KnowledgeKept DEF KnowledgeInv
  <2>4. CASE StartWorker(n, m)
    <3>1. UNCHANGED <<wonBuckets, toMaster>>
      BY <2>4 DEF StartWorker
    <3> QED
      BY <1>1, <1>2, <2>1, <3>1, KnowledgeKept DEF KnowledgeInv
  <2> QED
    BY <1>5, <2>2, <2>3, <2>4 DEF NodeMessageArrives, BidderReceive
<1>6. ASSUME NEW n \in Nodes, NodeRestart(n)
      PROVE  KnowledgeInv'
  <2>1. restarts' # 0
    BY <1>2, <1>6 DEF NodeRestart
  <2> QED
    BY <1>1, <2>1 DEF KnowledgeInv, AcksAreNoted, ConfirmedHostsKnow
<1>7. CASE UNCHANGED vars
  <2>1. UNCHANGED <<confirmedHosts, restarts, wonBuckets, toMaster>>
    BY <1>7 DEF vars, syncVars, masterVars, bidderVars
  <2> QED
    BY <1>1, <1>2, <2>1, KnowledgeKept DEF KnowledgeInv
<1> QED
  BY <1>3, <1>4, <1>5, <1>6, <1>7 DEF Next

(* Until a node restarts, every host the master has confirmed holds the    *)
(* bucket in its m_buckets, whatever is lost or late: the order of the two *)
(* steps of the case Win does not matter, nor do auctions that were given  *)
(* up in between.                                                          *)
THEOREM ConfirmedHostsKnowHolds == Spec => []ConfirmedHostsKnow
<1>1. Init => KnowledgeInv
  BY InitType DEF Init, SyncInit, MasterInit, KnowledgeInv, AcksAreNoted, ConfirmedHostsKnow
<1>2. KnowledgeInv => ConfirmedHostsKnow
  BY DEF KnowledgeInv
<1> QED
  BY <1>1, <1>2, KnowledgeStep, PTL DEF Spec

-----------------------------------------------------------------------------
(* What the bids say of the load.                                          *)

(* What a bidder with one bucket more can bid at most.                     *)
LEMMA BestOfMore ==
  ASSUME NEW l \in 0 .. 8, NEW m \in Nat, l < m
  PROVE  10000 \div (m + 1) <= 10000 \div (l + 2)
<1> DEFINE x == 10000 \div (m + 1)
           y == 10000 \div (l + 2)
<1>1. \A k \in Nat \ {0} : /\ 10000 \div k \in Nat
                           /\ k * (10000 \div k) <= 10000
                           /\ 10000 < k * (10000 \div k) + k
  OBVIOUS
<1>2. x \in Nat /\ y \in Nat /\ (m + 1) * x <= 10000 /\ 10000 < (l + 2) * y + (l + 2)
  BY <1>1
<1> HIDE DEF x, y
<1>3. (l + 2) * x <= (m + 1) * x
  BY <1>2
<1>4. (l + 2) * x < (l + 2) * (y + 1)
  BY <1>2, <1>3
<1>5. x < y + 1
  BY <1>2, <1>4
<1>6. x <= y
  BY <1>2, <1>5
<1> QED
  BY <1>6 DEF x, y

(* Up to a load of 8 the random part of a bid does not matter: the node    *)
(* with fewer buckets bids more.  From a load of 9 on it may bid less.     *)
THEOREM LoadOutweighsChance ==
  /\ \A l \in 0 .. 8, m \in Nat, r, s \in RndBids :
       l < m => BidAmount(r, l) > BidAmount(s, m)
  /\ BidAmount(1, 9) < BidAmount(100, 10)
<1>1. ASSUME NEW l \in 0 .. 8, NEW m \in Nat, NEW r \in RndBids, NEW s \in RndBids, l < m
      PROVE  BidAmount(r, l) > BidAmount(s, m)
  <2>1. r \in 1 .. 100 /\ s \in 1 .. 100
    BY RndBidsAssumption
  <2>2. 10000 \div (m + 1) \in Nat /\ 10000 \div (m + 1) <= 10000 \div (l + 2)
    BY <1>1, BestOfMore
  <2>3. 10000 \div (l + 1) > 10000 \div (l + 2) + 99
    <3>1. l \in {0, 1, 2, 3, 4, 5, 6, 7, 8}
      OBVIOUS
    <3> QED
      BY <3>1
  <2> QED
    BY <2>1, <2>2, <2>3 DEF BidAmount
<1>2. BidAmount(1, 9) < BidAmount(100, 10)
  BY DEF BidAmount
<1> QED
  BY <1>1, <1>2

=============================================================================
