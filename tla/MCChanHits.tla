----------------------------- MODULE MCChanHits -----------------------------
(* Small instances of ChanHits: a few hosts and the tracker of the channel. *)
EXTENDS ChanHits, TLC

CONSTANTS wanA, wanB, wanC, lan, s1, s2, s3, s4

Announcement(sid, wan, lan_, hops, tracker, firewalled) ==
    [sid |-> sid, wan |-> wan, lan |-> lan_, hops |-> hops,
     tracker |-> tracker, firewalled |-> firewalled]

(* A host that moves behind a firewall, a tracker, and the tip of a tracker *)
(* at the host's first address; hosts and a tracker behind firewalls        *)
s1AtA == Announcement(s1, wanA, lan, 2, FALSE, FALSE)
s1AtB == Announcement(s1, wanB, lan, 2, FALSE, TRUE)
tipA == Announcement(None, wanA, None, 0, TRUE, FALSE)
fw1 == Announcement(s1, wanA, lan, 1, FALSE, TRUE)
fw2 == Announcement(s2, wanC, lan, 1, FALSE, TRUE)
fw3 == Announcement(s2, wanC, None, 0, TRUE, TRUE)

Firewalled == {fw1, fw2}
Leaver == {fw1}
Moving == {s1AtA, s1AtB, fw3}
OneTip == {tipA}

LocalClient == [wan |-> wanA, sid |-> s4, global |-> FALSE, port |-> TRUE]
NodeSymmetry == Permutations(Nodes)
=============================================================================
