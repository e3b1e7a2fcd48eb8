---------------------------- MODULE MCPCPStream -----------------------------
(* Small instances of PCPStream for TLC.                                   *)
EXTENDS PCPStream
=============================================================================
