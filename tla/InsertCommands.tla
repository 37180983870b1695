---------------------------- MODULE InsertCommands ----------------------------
(***************************************************************************)
(* The INSERT commands between a client that puts a file and the workers   *)
(* of the buckets its segments hash to (client.cpp, worker.cpp).  A command*)
(* is an Interest for a range of segments; its Data says that the range is *)
(* replicated.  Interests and Data may be lost or late: what is in a set   *)
(* below may be taken from it at any time or never.                        *)
(***************************************************************************)
EXTENDS BucketHash

CONSTANTS
  MaxRetries,  (* Bound: how often the client expresses a command again,   *)
               (* all its commands together.                               *)
  MaxNacked    (* Bound: for how many segments a command may get a Nack.   *)

ASSUME FaultsAssumption == MaxRetries \in Nat /\ MaxNacked \in Nat

VARIABLES
  commands,  (* INSERT | IS_RANGE commands the client has expressed.       *)
  replies    (* The ranges a coordinating worker has sent a Data for, in   *)
             (* answer to whichever attempt.                               *)

commandVars == <<commands, replies>>

(* The name that a command carries: the last two components of dataName.   *)
SegmentRange == {r \in [startSeg : Segments, endSeg : Segments] : r.startSeg <= r.endSeg}
SegmentsOf(r) == r.startSeg .. r.endSeg
Size(r) == r.endSeg - r.startSeg + 1

(* The bucket a command is sent to, as sendINSERT() chooses it.            *)
BucketOf(r) == IdFromName(r.startSeg)

(* The client signs a command again each time it expresses it, so that the *)
(* network takes the attempts for different Interests.                     *)
Command == [range : SegmentRange, attempt : 1 .. MaxRetries + 1]

CommandsTypeOK ==
  /\ commands \subseteq Command
  /\ replies \subseteq SegmentRange

CommandsInit ==
  /\ commands = {}
  /\ replies = {}

=============================================================================
