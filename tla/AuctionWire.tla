------------------------------- MODULE AuctionWire -------------------------------
(***************************************************************************)
(* The encoding of the messages of auctions (auction.cpp, tlv.hpp).  A     *)
(* message object has all the fields of struct AuctionMessage whatever its *)
(* type is; the encoding leaves out those that are not used, by conditions *)
(* that are not all about the type.                                        *)
(***************************************************************************)
EXTENDS AuctionMessage

(* A field that may be unset is a set of at most one value: an empty winner*)
(* is an empty name, an empty bid amount has never been assigned and holds *)
(* anything.                                                               *)
Optional(m, type, field) == IF m.type = type THEN {m[field]} ELSE {}

(* The object that master or bidder fill for message m.  No winner is put  *)
(* into a WinAck: the publication tells who sent it.                       *)
Object(m) ==
  [messageType |-> m.type,
   auctionId   |-> m.auctionId,
   bucketId    |-> m.bucketId,
   bidAmount   |-> Optional(m, "Bid", "bidAmount"),
   winner      |-> Optional(m, "Win", "winner"),
   winnerList  |-> IF m.type = "AuctionEnd" THEN m.winnerList ELSE {}]

(* Mutant: the winner list is sent along with a winner only. *)
ElementsIfWinner(o) ==
  {"messageType", "auctionId", "bucketId"}
    \cup {f \in {"bidAmount"} : o.messageType = "Bid"}
    \cup {f \in {"winner", "winnerList"} : o.winner # {}}

(* The elements of the encoding of object o.                               *)
Elements(o) ==
  {"messageType", "auctionId", "bucketId"}
    \cup {f \in {"bidAmount"} : o.messageType = "Bid"}
    \cup {f \in {"winner"} : o.winner # {}}
    \cup {f \in {"winnerList"} : o.winnerList # {}}

(* A block: the values of the elements it has, each under a TLV number of  *)
(* its own.                                                                *)
WireEncode(o) == [f \in Elements(o) |-> o[f]]

(* Fields whose element is missing stay as the constructor left them.      *)
WireDecode(block) ==
  [f \in {"messageType", "auctionId", "bucketId", "bidAmount", "winner", "winnerList"} |->
     IF f \in DOMAIN block THEN block[f] ELSE {}]

=============================================================================
