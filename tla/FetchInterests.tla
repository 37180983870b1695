----------------------------- MODULE FetchInterests -----------------------------
(***************************************************************************)
(* The FETCH Interests between a client that gets a file and the workers   *)
(* that store its segments (client.cpp, worker.cpp).  Names of segments    *)
(* have no version: a file that is put twice has two packets of each name, *)
(* and the Interest for a segment may be answered with either.             *)
(***************************************************************************)
EXTENDS BucketHash

CONSTANTS
  Versions,  (* The files that may be put under the name.                  *)
  FileSize,  (* FileSize[v]: how many segments version v has.              *)
  Unmarked   (* The versions whose packets carry no final block: files put *)
             (* by other means than the client of this repository.         *)

ASSUME VersionsAssumption ==
  /\ FileSize \in [Versions -> 1 .. StoreSize]
  /\ Unmarked \subseteq Versions

VARIABLES
  asked,   (* Segments an Interest for which is on its way to a worker.    *)
  answers  (* The Data workers have sent.  The network may lose them, and  *)
           (* keep them in caches: MustBeFresh is not set.                 *)

interestVars == <<asked, answers>>

(* A Data packet: its name and what tells its file from others.            *)
Packet == [segment : Segments, version : Versions]
PacketsOf(v) == [segment : 0 .. FileSize[v] - 1, version : {v}]

InterestsTypeOK ==
  /\ asked \subseteq Segments
  /\ answers \subseteq Packet

InterestsInit ==
  /\ asked = {0}
  /\ answers = {}

=============================================================================
