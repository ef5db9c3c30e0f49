------------------------------ MODULE Channels ------------------------------
(***************************************************************************)
(* The channel ids (GUIDs) that PCP sessions announce, the broadcast lock  *)
(* reserves and the publishing engine publishes.                           *)
(***************************************************************************)
CONSTANT Channel
=============================================================================
