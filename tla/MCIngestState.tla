--------------------------- MODULE MCIngestState ----------------------------
(***************************************************************************)
(* A node with room for two events, one per author, and a window of two    *)
(* seconds.  Author "a" has a channel that goes live and ends and a second *)
(* channel that pushes the first out; "b" is this node's own persona; an   *)
(* event of "c" may arrive dated one second ahead.                         *)
(***************************************************************************)
EXTENDS IngestState

CONSTANT p1   \* a peer

MCEvent ==
    LET ev(id, pk, ch, at, end) ==
            [id |-> id, pubkey |-> pk, d |-> ch, created_at |-> at,
             expiration |-> at + 2, ended |-> end]
    IN  { ev(1, "a", "x", 0, FALSE), ev(2, "a", "x", 1, TRUE),
          ev(3, "a", "y", 1, FALSE), ev(4, "b", "x", 1, FALSE),
          ev(5, "c", "x", 2, FALSE) }

MCLocalEvent == {e \in MCEvent : e.id = 4}
=============================================================================
