--------------------------- MODULE MCPeerManager ----------------------------
(***************************************************************************)
(* Two addresses, one of which leads back to the node, one outbound and    *)
(* one inbound slot, a table with room for one row and a caller that       *)
(* listens at the other address.                                           *)
(***************************************************************************)
EXTENDS PeerManager

CONSTANTS peer, me, caller

MCListen == [g \in Caller |-> peer]
=============================================================================
