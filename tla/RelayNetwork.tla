---------------------------- MODULE RelayNetwork ----------------------------
(***************************************************************************)
(* The hosts of one channel and the packets they broadcast to each other   *)
(* (core/common/pcp.cpp readBroadcastAtoms, servmgr.cpp, chanmgr.cpp,      *)
(* channel.cpp, cstream.cpp).                                              *)
(*                                                                         *)
(* The tracker broadcasts the channel; every relay fetches it from one     *)
(* other host, its source, over a PCP connection that carries packets both *)
(* ways.  A packet has a time to live and is forwarded by group: a host's  *)
(* status goes up to the tracker ("host"), the channel's information goes  *)
(* down to the relays ("info"), a push request goes to one host ("push")   *)
(* along the route lists that earlier packets have left.  A relay that     *)
(* loses its source tells the hosts below it to leave and looks for        *)
(* another source; it may find one below itself, so that the connections   *)
(* form a cycle.  No new data reaches such a cycle, but the header of the  *)
(* stream may go round in it: a connection starts with the header, and a   *)
(* header at position 0 restarts the stream of the relay that reads it,    *)
(* which sends it on to its own relays as a new one.                       *)
(*                                                                         *)
(* Environment: which connections fail and which source a relay picks.     *)
(* The capacity of a connection's queue is the matter of PCPStream.  The   *)
(* control connections to the root server are not part of this module: a   *)
(* packet that names the channel is not forwarded on them.                 *)
(***************************************************************************)
EXTENDS Integers, Sequences, FiniteSets

CONSTANTS
    Tracker,    \* the host that broadcasts the channel
    Relays,     \* the other hosts
    None,
    Private,    \* pairs of a relay and a host that takes it for a private
                \* peer (Servent::isPrivate)
    HostTTL,    \* 11 in ChannelStream::getStatus
    InfoTTL,    \* 7 in Channel::updateInfo
    PushTTL,    \* 7 in ServMgr::broadcastPushRequest
    MaxSent,    \* bound: packets that begin somewhere
    MaxConns    \* bound: connections made after the first ones

Nodes == Relays \cup {Tracker}

ASSUME NetworkAssumption ==
    /\ IsFiniteSet(Relays) /\ Tracker \notin Relays
    /\ None \notin Nodes
    /\ Private \subseteq Relays \X Nodes
    /\ {HostTTL, InfoTTL, PushTTL} \subseteq Nat \ {0}
    /\ {MaxSent, MaxConns} \subseteq Nat

VARIABLES
    src,     \* the host each relay fetches the channel from
    stage,   \* how far the source's servent is: "none" no connection,
             \* "accepted" in waitForChannelHeader, "ready" no PCPStream yet,
             \* "open", "sending" after the channel's information, "closed"
             \* after PCP_QUIT
    recv,    \* S_RECEIVING: something was read from this source
    up, dn,  \* packets on their way from a relay to its source and back
    rtUp,    \* routeList of the relay's sourceStream
    rtDn,    \* routeList of the pcpStream at the source
    info,    \* the version of the channel's information each host has
    told,    \* history: the last version that was broadcast
    recent,  \* the last broadcast of it is not more than 30 seconds ago
    known,   \* the relays on the tracker's hit list
    push,    \* history: the relay a push request is on its way to
    head,    \* the relays whose source has a header at position 0 to send
             \* them, or has sent one that they have not read
    missed,  \* history: relays that were not told that their source has
             \* lost its own, or that chose a source without one
    left     \* what remains of the bounds

vars == <<src, stage, recv, up, dn, rtUp, rtDn, info, told, recent, known,
          push, head, missed, left>>

Packet(kinds, hosts) ==
    [kind : kinds, from : hosts, ttl : Nat, dest : Relays \cup {None},
     ver : 0 .. MaxSent]

Broadcast(kind, from, ttl, dest, ver) ==
    [kind |-> kind, from |-> from, ttl |-> ttl, dest |-> dest, ver |-> ver]

Chan(n) == Broadcast("chan", n, 0, None, info[n])   \* PCP_CHAN, no broadcast
Quit(n) == Broadcast("quit", n, 0, None, 0)         \* PCP_QUIT, no broadcast

(* The hosts that host n reaches, in at most hops connections, through the *)
(* relays S, and whether the tracker reaches r at all.                     *)
Below(n, S, hops) ==
    LET B[k \in 0 .. hops] ==
            IF k = 0 THEN {n}
            ELSE LET s == B[k - 1] IN s \cup {x \in S : src[x] \in s}
    IN  B[hops]
Fed(r) == r \in Below(Tracker, Relays, Cardinality(Relays))

(* isPlaying, and whether n takes r for a relay of its own: it is playing, *)
(* or r is private to it.                                                  *)
Plays(n) == n = Tracker \/ (n \in Relays /\ recv[n])
Accepts(n, r) == Plays(n) \/ <<r, n>> \in Private

(* Some relays are connected, in some tree below the tracker; those with   *)
(* no relay but a private peer may have just been accepted.                *)
Init ==
    /\ src \in [Relays -> Nodes \cup {None}]
    /\ \A r \in Relays : src[r] # None => Fed(r)
    /\ stage \in [Relays -> {"none", "accepted", "sending"}]
    /\ \A r \in Relays : src[r] = None <=> stage[r] = "none"
    /\ recv = [r \in Relays |-> stage[r] = "sending"]
    /\ \A r \in Relays : src[r] \in Relays => Accepts(src[r], r)
    /\ \A r \in Relays : recv[r] /\ src[r] \in Relays => recv[src[r]]
    /\ up = [r \in Relays |-> <<>>] /\ dn = [r \in Relays |-> <<>>]
    /\ rtUp = [r \in Relays |-> {}] /\ rtDn = [r \in Relays |-> {}]
    /\ info = [n \in Nodes |-> 0]
    /\ told = 0 /\ recent = FALSE
    /\ known = {} /\ push = None /\ head = {} /\ missed = {}
    /\ left = [sent |-> MaxSent, conns |-> MaxConns]

-----------------------------------------------------------------------------
(* The ways from a host. *)

HasStream(r) == stage[r] \in {"open", "sending"}   \* pcpStream # nullptr
Routed_Direct(p, remote, list) == p.dest \in {None, remote}
Routed(p, remote, list) == p.dest \in {None, remote} \cup list

(* Channel::sendPacketUp of host n: not to where the packet came from. *)
SentUp(q, n, p, from) ==
    [r \in Relays |->
        IF r = n /\ src[r] \notin {None, from} /\ Routed(p, src[r], rtUp[r])
        THEN Append(q[r], p) ELSE q[r]]

(* ServMgr::broadcastPacket of host n to its servents of type T_RELAY. *)
SentDown(q, n, p, from) ==
    [r \in Relays |->
        IF src[r] = n /\ HasStream(r) /\ r # from /\ Routed(p, r, rtDn[r])
        THEN Append(q[r], p) ELSE q[r]]

(* The second half of readBroadcastAtoms at host n. *)
Forwarded(p) == [p EXCEPT !.ttl = @ - 1]

GoesOn_OffByOne(n, p) == Forwarded(p).ttl > 1 /\ p.dest # n
GoesOn(n, p) == Forwarded(p).ttl > 0 /\ p.dest # n

Forward(n, p, from, u, d) ==
    /\ up' = IF GoesOn(n, p) THEN SentUp(u, n, Forwarded(p), from) ELSE u
    /\ dn' = IF GoesOn(n, p) /\ p.kind # "host"
             THEN SentDown(d, n, Forwarded(p), from) ELSE d

-----------------------------------------------------------------------------
(* Connections. *)

(* handshakeStream at the source, with canStream. *)
Connect(r, n) ==
    /\ src[r] = None /\ r # n /\ Accepts(n, r)
    /\ left.conns > 0
    /\ left' = [left EXCEPT !.conns = @ - 1]
    /\ src' = [src EXCEPT ![r] = n]
    /\ stage' = [stage EXCEPT ![r] = "accepted"]
    /\ missed' = missed \cup {c \in {r} : n # Tracker /\ src[n] = None}
    /\ UNCHANGED <<recv, up, dn, rtUp, rtDn, info, told, recent, known, push,
                   head>>

(* waitForChannelHeader finds the channel playing. *)
HeaderThere(r) ==
    /\ stage[r] = "accepted" /\ Plays(src[r])
    /\ stage' = [stage EXCEPT ![r] = "ready"]
    /\ UNCHANGED <<src, recv, up, dn, rtUp, rtDn, info, told, recent, known,
                   push, head, missed, left>>

(* sendPCPChannel: pcpStream, and with it the queue for broadcasts. *)
OpenStream(r) ==
    /\ stage[r] = "ready"
    /\ stage' = [stage EXCEPT ![r] = "open"]
    /\ UNCHANGED <<src, recv, up, dn, rtUp, rtDn, info, told, recent, known,
                   push, head, missed, left>>

(* The channel's information, the first thing on the socket. *)
SendChan_Cached(r) ==
    /\ stage[r] = "open"
    /\ stage' = [stage EXCEPT ![r] = "sending"]
    /\ dn' = [dn EXCEPT ![r] = Append(@, Broadcast("chan", src[r], 0, None, 0))]
    /\ UNCHANGED <<src, recv, up, rtUp, rtDn, info, told, recent, known, push,
                   head, missed, left>>

SendChan(r) ==
    /\ stage[r] = "open"
    /\ stage' = [stage EXCEPT ![r] = "sending"]
    /\ dn' = [dn EXCEPT ![r] = <<Chan(src[r])>> \o @]
    /\ UNCHANGED <<src, recv, up, rtUp, rtDn, info, told, recent, known, push,
                   head, missed, left>>

(* The end of a connection at the relay: the hosts below are told to quit, *)
(* except the one that was the source.                                     *)
LoseSource(r) ==
    LET gone == [dn EXCEPT ![r] = <<>>]
    IN  /\ src' = [src EXCEPT ![r] = None]
        /\ stage' = [stage EXCEPT ![r] = "none"]
        /\ recv' = [recv EXCEPT ![r] = FALSE]
        /\ up' = [up EXCEPT ![r] = <<>>]
        /\ dn' = SentDown(gone, r, Quit(r), src[r])
        /\ rtUp' = [rtUp EXCEPT ![r] = {}]
        /\ rtDn' = [rtDn EXCEPT ![r] = {}]
        /\ head' = head \ {r}
        /\ push' = IF push \in Below(r, Relays, PushTTL) THEN None ELSE push
        /\ missed' = (missed \ {r})
                     \cup {c \in Relays : src[c] = r /\ dn'[c] = dn[c]}
        /\ UNCHANGED <<info, told, recent, known>>

Cut(r) ==
    /\ src[r] # None
    /\ LoseSource(r)
    /\ UNCHANGED left

(* waitForChannelHeader gives up after 30 seconds: "Channel not ready". *)
GiveUpWaiting(r) ==
    /\ stage[r] = "accepted" /\ ~Plays(src[r])
    /\ LoseSource(r)
    /\ UNCHANGED left

(* checkBump: 30 seconds without a packet written, after a first one,      *)
(* unless the source is the tracker.  Who has a header coming, if only to  *)
(* a host it is below of, is going to write that: a header does not take   *)
(* 30 seconds for the way.                                                 *)
HeaderComing(r) == \E x \in head : r \in Below(x, Relays, Cardinality(Relays))
AutoBump_Never(r) == FALSE /\ LoseSource(r) /\ UNCHANGED left
AutoBump(r) ==
    /\ src[r] \notin {None, Tracker}
    /\ recv[r] /\ ~Fed(r) /\ ~HeaderComing(r)
    /\ LoseSource(r)
    /\ UNCHANGED left

-----------------------------------------------------------------------------
(* Broadcasts begin. *)

(* ChannelStream::updateStatus *)
UpdateStatus(r) ==
    /\ recv[r] /\ left.sent > 0
    /\ left' = [left EXCEPT !.sent = @ - 1]
    /\ up' = SentUp(up, r, Broadcast("host", r, HostTTL, None, 0), r)
    /\ UNCHANGED <<src, stage, recv, dn, rtUp, rtDn, info, told, recent, known,
                   push, head, missed>>

(* Channel::updateInfo at the tracker: broadcast unless the last one was   *)
(* not more than 30 seconds ago.                                           *)
UpdateInfo ==
    LET v == info[Tracker] + 1
    IN  /\ left.sent > 0
        /\ left' = [left EXCEPT !.sent = @ - 1]
        /\ info' = [info EXCEPT ![Tracker] = v]
        /\ IF recent
           THEN UNCHANGED <<dn, told, recent>>
           ELSE /\ dn' = SentDown(dn, Tracker,
                           Broadcast("info", Tracker, InfoTTL, None, v), Tracker)
                /\ told' = v
                /\ recent' = TRUE
        /\ UNCHANGED <<src, stage, recv, up, rtUp, rtDn, known, push, head,
                       missed>>

TimePasses ==
    /\ recent
    /\ recent' = FALSE
    /\ UNCHANGED <<src, stage, recv, up, dn, rtUp, rtDn, info, told, known,
                   push, head, missed, left>>

(* The connections that have carried a packet of r up to the tracker. *)
Route(r) == {x \in Relays : stage[x] = "sending" /\ r \in rtDn[x]}

(* broadcastPushRequest at the tracker for a host of its hit list. *)
PushRequest(r) ==
    /\ left.sent > 0 /\ push = None /\ r \in known
    /\ left' = [left EXCEPT !.sent = @ - 1]
    /\ dn' = SentDown(dn, Tracker, Broadcast("push", Tracker, PushTTL, r, 0),
                      Tracker)
    /\ push' = IF r \in Below(Tracker, Route(r), PushTTL) THEN r ELSE None
    /\ UNCHANGED <<src, stage, recv, up, rtUp, rtDn, info, told, recent, known,
                   head, missed>>

-----------------------------------------------------------------------------
(* Packets arrive: procAtom and readBroadcastAtoms. *)

RouteAdd(list, p) == list \cup {p.from}

(* At the source of r. *)
ReadUp_NoLoopback(r) ==
    LET n == src[r]
        p == Head(up[r])
    IN  /\ stage[r] = "sending" /\ up[r] # <<>>
        /\ rtDn' = [rtDn EXCEPT ![r] = RouteAdd(@, p)]
        /\ known' = IF n = Tracker THEN known \cup {p.from} ELSE known
        /\ Forward(n, p, r, [up EXCEPT ![r] = Tail(@)], dn)
        /\ UNCHANGED <<src, stage, recv, rtUp, info, told, recent, push, head,
                       missed, left>>

(* Our own broadcast has come back ("BCST loopback"): the connection is    *)
(* given up with PCP_QUIT, and what is still queued on it may be lost.     *)
ReadUp(r) ==
    LET n == src[r]
        p == Head(up[r])
        rest == [up EXCEPT ![r] = Tail(@)]
    IN  /\ stage[r] = "sending" /\ up[r] # <<>>
        /\ rtDn' = [rtDn EXCEPT ![r] = RouteAdd(@, p)]
        /\ known' = IF n = Tracker THEN known \cup {p.from} ELSE known
        /\ \/ /\ p.from # n
              /\ Forward(n, p, r, rest, dn)
              /\ UNCHANGED stage
           \/ /\ p.from = n
              /\ stage' = [stage EXCEPT ![r] = "closed"]
              /\ up' = rest
              /\ \E k \in 0 .. Len(dn[r]) :
                    dn' = [dn EXCEPT ![r] = SubSeq(@, 1, k) \o <<Quit(n)>>]
        /\ UNCHANGED <<src, recv, rtUp, info, told, recent, push, head,
                       missed, left>>

(* At the relay r. *)
Readable(r) == stage[r] \in {"sending", "closed"} /\ dn[r] # <<>>

(* readPktAtoms: a header at position 0 counts streamIndex up, and the     *)
(* servents of the relays below send their relays the header they find.    *)
Restarted(h, r) == h \cup {c \in Relays : src[c] = r /\ stage[c] = "sending"}

(* The information comes with the header the source has, which stands at   *)
(* position 0 (FLV and MP4, and any first header), or has another one.     *)
ReadChan(r) ==
    /\ Readable(r) /\ Head(dn[r]).kind = "chan"
    /\ head' \in {head, Restarted(head, r)}
    /\ info' = [info EXCEPT ![r] = Head(dn[r]).ver]
    /\ recv' = [recv EXCEPT ![r] = TRUE]
    /\ dn' = [dn EXCEPT ![r] = Tail(@)]
    /\ UNCHANGED <<src, stage, up, rtUp, rtDn, told, recent, known, push,
                   missed, left>>

ReadHead(r) ==
    /\ r \in head /\ recv[r]
    /\ head' = Restarted(head \ {r}, r)
    /\ UNCHANGED <<src, stage, recv, up, dn, rtUp, rtDn, info, told, recent,
                   known, push, missed, left>>

ReadBroadcast(r) ==
    LET p == Head(dn[r])
    IN  /\ Readable(r) /\ p.kind \in {"info", "push"}
        /\ rtUp' = [rtUp EXCEPT ![r] = RouteAdd(@, p)]
        /\ info' = IF p.kind = "info" THEN [info EXCEPT ![r] = p.ver] ELSE info
        /\ push' = IF p.kind = "push" /\ p.dest = r THEN None ELSE push
        /\ Forward(r, p, src[r], up, [dn EXCEPT ![r] = Tail(@)])
        /\ UNCHANGED <<src, stage, recv, rtDn, told, recent, known, head,
                       missed, left>>

ReadQuit_Ignored(r) ==
    /\ Readable(r) /\ Head(dn[r]).kind = "quit"
    /\ dn' = [dn EXCEPT ![r] = Tail(@)]
    /\ UNCHANGED <<src, stage, recv, up, rtUp, rtDn, info, told, recent, known,
                   push, head, missed, left>>

ReadQuit(r) ==
    /\ Readable(r) /\ Head(dn[r]).kind = "quit"
    /\ LoseSource(r)
    /\ UNCHANGED left

-----------------------------------------------------------------------------
ReadDown(r) == ReadChan(r) \/ ReadBroadcast(r) \/ ReadQuit(r)

(* What follows of itself on a connection, one step at a time. *)
GoOn(r) ==
    \/ HeaderThere(r) \/ GiveUpWaiting(r) \/ OpenStream(r) \/ SendChan(r)
    \/ ReadHead(r) \/ AutoBump(r)

Next ==
    \/ \E r \in Relays :
        \/ \E n \in Nodes : Connect(r, n)
        \/ Cut(r) \/ UpdateStatus(r) \/ PushRequest(r)
        \/ GoOn(r) \/ ReadUp(r) \/ ReadDown(r)
    \/ UpdateInfo \/ TimePasses

(* The threads of a connection and of a channel go on.  That connections   *)
(* are made, fail, or that anybody broadcasts is not assumed.              *)
Fairness ==
    \A r \in Relays :
        WF_vars(GoOn(r)) /\ WF_vars(ReadUp(r)) /\ WF_vars(ReadDown(r))

Spec == Init /\ [][Next]_vars /\ Fairness

-----------------------------------------------------------------------------
UpPacket == Packet({"host"}, Relays)
DownPacket == Packet({"info", "push", "chan", "quit"}, Nodes)

ConnectionsOK ==
    /\ src \in [Relays -> Nodes \cup {None}]
    /\ stage \in [Relays -> {"none", "accepted", "ready", "open", "sending",
                           "closed"}]
    /\ recv \in [Relays -> BOOLEAN]
    /\ \A r \in Relays : src[r] = None <=> stage[r] = "none"

QueuesOK ==
    /\ up \in [Relays -> Seq(UpPacket)] /\ dn \in [Relays -> Seq(DownPacket)]
    /\ rtUp \in [Relays -> SUBSET Nodes] /\ rtDn \in [Relays -> SUBSET Relays]

NewsOK ==
    /\ info \in [Nodes -> 0 .. MaxSent] /\ told \in 0 .. MaxSent
    /\ recent \in BOOLEAN
    /\ known \subseteq Relays /\ push \in Relays \cup {None}
    /\ head \subseteq Relays /\ missed \subseteq Relays

BoundsOK ==
    /\ left \in [sent : 0 .. MaxSent, conns : 0 .. MaxConns]
    /\ info[Tracker] + left.sent <= MaxSent

TypeOK == ConnectionsOK /\ QueuesOK /\ NewsOK /\ BoundsOK

(* What is on its way to relay r on its own connection. *)
Coming(r) == {dn[r][i] : i \in 1 .. Len(dn[r])}
MustQuit(r) == \E p \in Coming(r) : p.kind = "quit"

(* A cycle of sources can only come about when a relay has lost its source *)
(* and finds another one below itself, before those below have left it:    *)
(* PCP_QUIT is on its way to a host on the cycle, or one of them was not   *)
(* told, having no PCPStream yet, or having been the source itself, or     *)
(* having come, as a private peer, to a host that had no source.           *)
CyclesAreUntold ==
    \A S \in SUBSET Relays :
        S # {} /\ (\A r \in S : src[r] \in S)
        => \E r \in S : r \in missed \/ MustQuit(r)

(* A cycle of sources ends, by the automatic bump if nothing else, unless  *)
(* a header goes round in it: as long as that is written to the buffers    *)
(* over and over, checkBump takes the stream for alive.                    *)
OnCycle(r) == src[r] \in Below(r, Relays, Cardinality(Relays))
CyclesEnd ==
    []<>(\A r \in Relays : OnCycle(r) => HeaderComing(r))

(* Whatever goes round in a cycle of three hosts or more, the status of    *)
(* one of them takes it apart: it comes back to where it started.  In a    *)
(* cycle of two it does not, since a packet is not sent back to the host   *)
(* it has come from.  (Up to HostTTL hosts; and the relays are alike, so   *)
(* that this is said of any one of them.)                                  *)
OwnStatus(r) == \E i \in 1 .. Len(up[r]) : up[r][i].from = r
AnyRelay == CHOOSE r \in Relays : TRUE
LoopbackBreaks ==
    OwnStatus(AnyRelay) /\ OnCycle(AnyRelay) /\ src[src[AnyRelay]] # AnyRelay
        ~> ~OnCycle(AnyRelay)

(* The connections on which a relay is given the news: the relay has not   *)
(* missed that its source has lost its own.  The exception is real: a      *)
(* relay that connects while its source is about to lose its own misses    *)
(* the PCP_QUIT, stays, and is not given what its source learns from       *)
(* another host.                                                           *)
Told == Relays \ missed

(* Nothing is on its way to r: it has been sent the channel's information, *)
(* and has read this, every later broadcast and no PCP_QUIT.               *)
UpToDate(r) ==
    /\ stage[r] = "sending"
    /\ \A p \in Coming(r) : p.kind = "push"

(* No broadcast of the channel's information is lost.  A relay within the  *)
(* reach of the tracker's broadcasts that does not have the last one, or   *)
(* newer, has something coming to it, or to a host between it and the      *)
(* tracker: news, the information a connection starts with, or PCP_QUIT.   *)
(* sendPCPChannel creates the queue for broadcasts before it reads the     *)
(* information it starts with.                                             *)
NewsOnItsWay ==
    \A r \in Below(Tracker, {x \in Told : UpToDate(x)}, InfoTTL) :
        info[r] >= told

(* A relay that the tracker's broadcasts keep reaching gets the last       *)
(* information that was broadcast, or newer, whenever it connected.        *)
InfoArrives ==
    []<>(\A r \in Below(Tracker, Told, InfoTTL) : info[r] >= told)

(* A push request is not lost while the connections that have carried the  *)
(* status of the host it is for remain: these still lead from the tracker  *)
(* to that host, and on one of them the request is on its way, or PCP_QUIT *)
(* is.                                                                     *)
Asked(r) == \E p \in Coming(r) : p.kind = "push" /\ p.dest = push
PushOnItsWay ==
    push # None =>
        LET way == {x \in Relays : push \in rtDn[x]}
        IN  /\ push \in Below(Tracker, way, PushTTL)
            /\ push \notin Below(Tracker,
                    {x \in way : ~MustQuit(x) /\ ~Asked(x)}, PushTTL)

(* A push request does not stay on its way: it reaches the host it is for, *)
(* unless one of the connections between that host and the tracker, which  *)
(* have carried its status, is lost meanwhile.  The route lists lead the   *)
(* way back.                                                               *)
PushArrives == []<>(push = None)
=============================================================================
