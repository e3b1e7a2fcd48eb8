-------------------------- MODULE MCStreamDelivery --------------------------
(* Small instances of StreamDelivery for TLC.                              *)
EXTENDS StreamDelivery
=============================================================================
