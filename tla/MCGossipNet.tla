---------------------------- MODULE MCGossipNet -----------------------------
(***************************************************************************)
(* Three nodes in a line whose third connection may close a cycle, or one  *)
(* of whose connections may end and be made again.  Node n1 signs a        *)
(* listing and its update.                                                 *)
(***************************************************************************)
EXTENDS GossipNet

CONSTANTS n1, n2, n3

MCListing(id, at) ==
    [id |-> id, pubkey |-> "a", d |-> "x", created_at |-> at,
     expiration |-> at + 2, ended |-> FALSE]

MCUpdate == {MCListing(1, 0), MCListing(2, 1)}

MCAuthor == [e \in Event |-> n1]

MCLine == {<<n1, n2>>, <<n2, n3>>}
MCTriangle == {<<n1, n2>>, <<n2, n3>>, <<n3, n1>>}

\* The events and limits are such that LiveAgreement can be expected.
ASSUME AgreementExpected == StoresRoomy /\ ExpirationFollowsCreation
=============================================================================
