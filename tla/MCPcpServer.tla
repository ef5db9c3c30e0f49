---------------------------- MODULE MCPcpServer -----------------------------
(***************************************************************************)
(* Three connections for two permits.                                      *)
(***************************************************************************)
EXTENDS PcpServer

CONSTANTS ch1, ch2, s1, s2, s3
=============================================================================
