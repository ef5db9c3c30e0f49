-------------------------- MODULE MCGossipSession ---------------------------
(***************************************************************************)
(* One connection; the inbound end answers SYNC_REQ, the outbound end has  *)
(* nothing to answer with.                                                 *)
(***************************************************************************)
EXTENDS GossipSession

CONSTANT Answer   \* how many events the inbound end answers SYNC_REQ with

BacklogIn == [e \in End |-> IF e = "in" THEN Answer ELSE 0]
StoreIn == [e \in End |-> Answer]

\* An EVENT is longer than the rest.
Lengths == [k \in Kind |-> IF k = "event" THEN 2 ELSE 1]

\* The hub of the inbound end has an EVENT to hand on.
NewsIn == [e \in End |-> IF e = "in" THEN 1 ELSE 0]

\* Timers and delays are within the margin that KeepaliveSound needs.
ASSUME MarginsHold == KeepaliveMargin
=============================================================================
