------------------------------- MODULE MCNode -------------------------------
(* Two starts of a node with a persona, and two requests at a time to change *)
(* settings, by a value the gate refuses or by two keys at once.             *)
EXTENDS Node

None == [k \in {} |-> ""]
MCUpdates == {[http |-> "lan"], [encoding |-> "shift_jis", index |-> "lan"]}
MCCommandLines == {None, [index |-> "public"], [index |-> "mapped"]}

=============================================================================
