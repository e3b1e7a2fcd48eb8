--------------------------- MODULE MCChannelRelay ---------------------------
(* ChannelRelay with named objects, IDs and threads for model checking. *)
EXTENDS ChannelRelay
CONSTANTS ch1, ch2, id1, id2, k1, k2
=============================================================================
