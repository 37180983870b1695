------------------------------- MODULE ClientPut -------------------------------
(***************************************************************************)
(* `kua-client put' (client.cpp): the client has cut the file into         *)
(* segments and asks the workers to insert them, one command for each run  *)
(* of segments of one bucket, as many at a time as its window allows.      *)
(***************************************************************************)
EXTENDS InsertCommands

CONSTANTS
  WindowSize,  (* windowSize, in segments                                  *)
  MaxPack      (* INSERT_RANGE_MAX_PACK                                    *)

ASSUME WindowAssumption == WindowSize \in Nat \ {0} /\ MaxPack \in Nat \ {0}

VARIABLES
  pointer,  (* The first segment no command was made for.                  *)
  pending,  (* How many segments the commands under way are for.           *)
  done,     (* How many segments were reported to be inserted.             *)
  awaiting  (* The commands that are pending on m_face.                    *)

clientVars == <<pointer, pending, done, awaiting>>

ClientTypeOK ==
  /\ pointer \in 0 .. StoreSize
  /\ pending \in Nat
  /\ done \in Nat
  /\ awaiting \subseteq commands

ClientInit ==
  /\ pointer = 0
  /\ pending = 0
  /\ done = 0
  /\ awaiting = {}

(* m_face.shutdown() has been called. *)
Finished == done = StoreSize

-----------------------------------------------------------------------------
(* Mutant: a run of segments is not cut where the bucket changes. *)
SizeOnlyPack(p) ==
  CHOOSE r \in SegmentRange :
    /\ r.startSeg = p
    /\ Size(r) <= MaxPack
    /\ r.endSeg + 1 \in Segments => Size(r) = MaxPack

(* The loop of sendINSERT(): the longest run of segments from p on that    *)
(* are of one bucket and fit into a command.                               *)
Pack(p) ==
  CHOOSE r \in SegmentRange :
    /\ r.startSeg = p
    /\ Size(r) <= MaxPack
    /\ \A s \in SegmentsOf(r) : IdFromName(s) = IdFromName(p)
    /\ r.endSeg + 1 \in Segments =>
         Size(r) = MaxPack \/ IdFromName(r.endSeg + 1) # IdFromName(p)

(* Where the loop of insertStore() starts runs, if it starts at segment p  *)
(* and goes on to the end: the smallest set with p in it and, with each    *)
(* start, the segment after that run.                                      *)
PackStarts(p) ==
  LET Closed(S) == \A s \in S : Pack(s).endSeg + 1 \in Segments => Pack(s).endSeg + 1 \in S
  IN {q \in Segments : \A S \in SUBSET Segments : Closed(S) /\ (p \in Segments => p \in S) => q \in S}

(* The loop of insertStore(): the runs it makes commands of when it starts *)
(* at segment p with pend segments under way.                              *)
Packs(p, pend) ==
  {Pack(q) : q \in {s \in PackStarts(p) : pend + (s - p) < WindowSize}}

(* insertStore(), called with pend segments and the commands of still      *)
(* under way.                                                              *)
InsertStore(pend, still) ==
  LET packs == Packs(pointer, pend)
      size  == Cardinality(UNION {SegmentsOf(r) : r \in packs})
      new   == [range : packs, attempt : {1}]
  IN /\ pointer' = pointer + size
     /\ pending' = pend + size
     /\ awaiting' = still \cup new
     /\ commands' = commands \cup new

(* The prefix is registered: put()'s callback starts to insert.            *)
Registered ==
  /\ pointer = 0
  /\ InsertStore(pending, awaiting)
  /\ UNCHANGED <<done, replies>>

(* Mutant: a callback subtracts what another one subtracted. *)
SubtractedTwice(r) == pending - 2 * Size(r)

(* pending -= count *)
NoLongerPending(r) == pending - Size(r)

(* The Data of a command arrives.                                          *)
InsertSuccess(c) ==
  /\ c \in awaiting
  /\ c.range \in replies
  /\ done' = done + Size(c.range)
  /\ IF done' = StoreSize
     THEN /\ pending' = NoLongerPending(c.range)
          /\ awaiting' = {}
          /\ UNCHANGED <<pointer, commands>>
     ELSE InsertStore(NoLongerPending(c.range), awaiting \ {c})
  /\ UNCHANGED replies

(* Segments that were given up for a Nack.                                 *)
Nacked == pointer - done - pending

(* The network has no route for a command: nothing is sent instead of it.  *)
InsertNack(c) ==
  /\ c \in awaiting
  /\ Nacked + Size(c.range) <= MaxNacked
  /\ pending' = NoLongerPending(c.range)
  /\ awaiting' = awaiting \ {c}
  /\ UNCHANGED <<pointer, done, commandVars>>

(* Mutant: the segments of a retried command are counted once more. *)
CountedAgain(c) == pending + Size(c.range)

(* A retry leaves the count of segments under way alone. *)
PendingAfterRetry(c) == pending

(* No answer within the lifetime of the command: it is expressed again.    *)
InsertTimeout(c) ==
  /\ c \in awaiting
  /\ Cardinality({d \in commands : d.attempt > 1}) < MaxRetries
  /\ LET again == [c EXCEPT !.attempt = @ + 1]
     IN /\ awaiting' = (awaiting \ {c}) \cup {again}
        /\ commands' = commands \cup {again}
  /\ pending' = PendingAfterRetry(c)
  /\ UNCHANGED <<pointer, done, replies>>

ClientNext ==
  \/ Registered
  \/ \E c \in awaiting : InsertSuccess(c)
  \/ \E c \in awaiting : InsertNack(c)
  \/ \E c \in awaiting : InsertTimeout(c)

=============================================================================
