---------------------------- MODULE MCFramePump -----------------------------
(***************************************************************************)
(* Three frames with a two-byte header and payloads of two, one and three  *)
(* bytes.                                                                  *)
(***************************************************************************)
EXTENDS FramePump

MCPayloadLen == <<2, 1, 3>>
=============================================================================
