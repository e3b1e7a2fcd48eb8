--------------------------- MODULE MCRelayNetwork ---------------------------
(* Three relays around a tracker.  The first tree is taken once for each     *)
(* shape: the hosts are numbered, with the source before its relays.  In the *)
(* chain of all three, host 3 may have just been accepted, and host 2 too,   *)
(* for host 2 takes host 3 for a private peer.                               *)
EXTENDS RelayNetwork

MCPrivate == {<<3, 2>>}

MCInit ==
    /\ Init
    /\ src[1] = Tracker /\ src[2] = 1 /\ src[3] \in {1, 2}
    /\ \A r \in Relays : stage[r] = "accepted" => src[3] = 2

MCSpec == MCInit /\ [][Next]_vars /\ Fairness
=============================================================================
