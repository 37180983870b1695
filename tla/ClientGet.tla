------------------------------- MODULE ClientGet -------------------------------
(***************************************************************************)
(* `kua-client get' (client.cpp): the client asks for segment 0, learns    *)
(* from the final block of each answer how long the file is, asks for the  *)
(* others as its window allows, and writes the file when it has counted as *)
(* many answers as there are segments.                                     *)
(***************************************************************************)
EXTENDS FetchInterests, Sequences

CONSTANTS
  WindowSize,  (* windowSize                                               *)
  NoData       (* A null pointer in m_store.                               *)

ASSUME ClientAssumption == WindowSize \in Nat \ {0} /\ NoData \notin Packet

VARIABLES
  slots,     (* m_store: slots[s + 1] is for segment s.                    *)
  pointer,   (* The first segment not asked for.                           *)
  pending,   (* How many Interests the client takes to be under way.       *)
  done,      (* How many answers it has counted.                           *)
  awaiting,  (* The segments an Interest for which is pending on m_face.   *)
  written,   (* What is on the standard output.                            *)
  crashed    (* A null pointer of m_store was dereferenced.                *)

clientVars == <<slots, pointer, pending, done, awaiting, written, crashed>>

ClientTypeOK ==
  /\ slots \in Seq(Packet \cup {NoData})
  /\ Len(slots) \in 0 .. StoreSize
  /\ pointer \in 1 .. StoreSize
  /\ pending \in 0 .. StoreSize
  /\ done \in 0 .. StoreSize
  /\ awaiting \subseteq Segments
  /\ written \in Seq(Packet)
  /\ crashed \in BOOLEAN

(* get() has asked for segment 0.                                          *)
ClientInit ==
  /\ slots = << >>
  /\ pointer = 1
  /\ pending = 1
  /\ done = 0
  /\ awaiting = {0}
  /\ written = << >>
  /\ crashed = FALSE

-----------------------------------------------------------------------------
(* m_store.resize(): segments beyond the end are dropped, new ones empty.  *)
Resized(k) == [i \in 1 .. k |-> IF i <= Len(slots) THEN slots[i] ELSE NoData]

(* m_store after packet p was put into its place.                          *)
Stored(p) == [Resized(FileSize[p.version]) EXCEPT ![p.segment + 1] = p]

(* Mutant: the window is tested before it is known to be full. *)
OneTooMany(size, pend) == {s \in pointer .. size - 1 : pend + (s - pointer) <= WindowSize}

(* The segments that the loop sends Interests for, with a file of the      *)
(* given size and pend Interests under way.                                *)
NextSegments(size, pend) == {s \in pointer .. size - 1 : pend + (s - pointer) < WindowSize}

(* Mutant: every segment has been asked for. *)
AllAskedFor(size) == pointer' = size

(* done == m_store.size() *)
AllDone(size) == done' = size

(* The loop over m_store that writes the segments, up to a null pointer.   *)
WriteAll ==
  LET filled == {i \in DOMAIN slots' : \A j \in 1 .. i : slots'[j] # NoData}
      k      == Cardinality(filled)
  IN /\ written' = written \o SubSeq(slots', 1, k)
     /\ crashed' = (k < Len(slots'))

(* A Data arrives.                                                         *)
FetchSuccess(p) ==
  LET size == FileSize[p.version]
      more == NextSegments(size, pending - 1)
  IN /\ ~crashed
     /\ p.segment \in awaiting
     /\ p \in answers
     /\ p.version \notin Unmarked
     /\ done' = done + 1
     /\ slots' = Stored(p)
     /\ pointer' = pointer + Cardinality(more)
     /\ pending' = pending - 1 + Cardinality(more)
     /\ awaiting' = (awaiting \ {p.segment}) \cup more
     /\ asked' = asked \cup more
     /\ IF AllDone(size) THEN WriteAll ELSE UNCHANGED <<written, crashed>>
     /\ UNCHANGED answers

(* A Data without a final block arrives: it is counted and dropped.        *)
FetchUnmarked(p) ==
  /\ ~crashed
  /\ p.segment \in awaiting
  /\ p \in answers
  /\ p.version \in Unmarked
  /\ done' = done + 1
  /\ pending' = pending - 1
  /\ awaiting' = awaiting \ {p.segment}
  /\ UNCHANGED <<slots, pointer, written, crashed, interestVars>>

(* The network has no route for an Interest.  The loop is not run: no other*)
(* segment is asked for instead.                                           *)
FetchNack(s) ==
  /\ ~crashed
  /\ s \in awaiting
  /\ pending' = pending - 1
  /\ awaiting' = awaiting \ {s}
  /\ UNCHANGED <<slots, pointer, done, written, crashed, interestVars>>

(* Mutant: the Interest that timed out stays counted. *)
CountedAgain == pending + 1

(* pending-- and the pending++ of sendFETCH(). *)
PendingAfterRetry == pending - 1 + 1

(* Mutant: the Interest is not expressed again. *)
NotRetried(s) == {}

(* The name sendFETCH() is called with again. *)
Retried(s) == {s}

(* No answer within the lifetime of the Interest: it is expressed again.   *)
FetchTimeout(s) ==
  /\ ~crashed
  /\ s \in awaiting
  /\ pending' = PendingAfterRetry
  /\ asked' = asked \cup Retried(s)
  /\ UNCHANGED <<slots, pointer, done, awaiting, written, crashed, answers>>

DataArrives(p) == FetchSuccess(p) \/ FetchUnmarked(p)

ClientNext ==
  \/ \E p \in answers : DataArrives(p)
  \/ \E s \in awaiting : FetchNack(s)
  \/ \E s \in awaiting : FetchTimeout(s)

=============================================================================
