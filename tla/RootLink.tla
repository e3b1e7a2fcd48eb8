------------------------------ MODULE RootLink ------------------------------
(***************************************************************************)
(* A broadcaster and the root server that lists its channel: the outgoing  *)
(* PCP connection (outgoingProc in core/common/servent.cpp), the updates   *)
(* of a tracker (channel.cpp, chanmgr.cpp) and, at the other end, the same *)
(* program as root server (processIncomingPCP).                            *)
(*                                                                         *)
(* The broadcaster keeps one connection up while it broadcasts.  The root  *)
(* refuses a second connection of a host whose first one it still believes *)
(* in.  It lists the channel as the last update says and forgets a channel *)
(* it has not heard of for some minutes.                                   *)
(*                                                                         *)
(* An encoder that connects again starts a new channel with the same ID    *)
(* while the old one is still on its way out, and both report to the root. *)
(*                                                                         *)
(* Environment: the channel starts, changes and ends, the encoder connects *)
(* again; connections fail; the root has no room for another connection;   *)
(* the root restarts.                                                      *)
(***************************************************************************)
EXTENDS Integers, Sequences

CONSTANTS Slots,      \* sockets between the two hosts
          None,
          MaxVersion, \* bound: versions of the channel's information
          MaxQueue,   \* bound: updates on their way when a periodic one is sent
          MaxFaults   \* bound: failures, refusals for lack of room, restarts

ASSUME RootLinkAssumption ==
    /\ None \notin Slots
    /\ {MaxVersion, MaxQueue, MaxFaults} \subseteq Nat

VARIABLES
    chan,     \* the channel at the broadcaster: "off", "on", "closing"
    version,  \* the version of its information
    old,      \* the thread of the channel it has replaced has yet to end
    last,     \* its lastTrackerUpdate: "never", "recent" (30 seconds), "old"
    cout,     \* the servent of type T_COUT: "none", "wait", "handshake",
              \* "connected" (S_CONNECTED), "link" after pcpStream->init
    outData,  \* the queue of its PCPStream
    cur,      \* its socket
    socks,    \* every socket and the root's servent on it
    listed,   \* the version the root lists
    faults    \* what is left of MaxFaults

vars == <<chan, version, old, last, cout, outData, cur, socks, listed, faults>>
node == <<chan, version, old, last, cout, outData, cur>>

(* What passes the link: the version of an update, 0 for one that says the *)
(* host no longer receives the channel, and single words.                  *)
Host(v) == [kind |-> "host", version |-> v]
Gone == Host(0)
Word(k) == [kind |-> k, version |-> 0]

Closed == [servent |-> "gone", up |-> <<>>, down |-> <<>>, open |-> FALSE]
Opened == [Closed EXCEPT !.servent = "hello", !.open = TRUE]

Init ==
    /\ chan = "off" /\ version = 0 /\ old = FALSE /\ last = "never"
    /\ cout = "none" /\ outData = <<>> /\ cur = None
    /\ socks = [s \in Slots |-> Closed]
    /\ listed = None /\ faults = MaxFaults

-----------------------------------------------------------------------------
(* The channel of the broadcaster. *)

(* Channel::broadcastTrackerUpdate *)
TrackerUpdate_FirstOnly(force, p) ==
    IF (force \/ last # "recent") /\ cout \in {"connected", "link"}
    THEN /\ outData' = IF last = "old" THEN outData ELSE Append(outData, p)
         /\ last' = "recent"
    ELSE UNCHANGED <<outData, last>>

TrackerUpdate(force, p) ==
    IF (force \/ last # "recent") /\ cout \in {"connected", "link"}
    THEN outData' = Append(outData, p) /\ last' = "recent"
    ELSE UNCHANGED <<outData, last>>

Broadcast ==
    /\ chan = "off" /\ version < MaxVersion
    /\ chan' = "on" /\ version' = version + 1 /\ last' = "never"
    /\ UNCHANGED <<old, cout, outData, cur, socks, listed, faults>>

(* handshakeHTTPPush and its like: the encoder connects again. *)
Takeover ==
    /\ chan \in {"on", "closing"} /\ ~old /\ version < MaxVersion
    /\ old' = TRUE
    /\ chan' = "on" /\ version' = version + 1 /\ last' = "never"
    /\ UNCHANGED <<cout, outData, cur, socks, listed, faults>>

(* The old channel sees the shutdown, and says that it has ended.          *)
OldLastUpdate ==
    /\ old
    /\ old' = FALSE
    /\ outData' = IF cout \in {"connected", "link"}
                  THEN Append(outData, Gone) ELSE outData
    /\ UNCHANGED <<chan, version, last, cout, cur, socks, listed, faults>>

(* Channel::updateInfo, and readStream every two minutes of data.          *)
UpdateInfo ==
    /\ chan = "on" /\ version < MaxVersion
    /\ version' = version + 1
    /\ \/ TrackerUpdate(FALSE, Host(version'))
       \/ UNCHANGED <<outData, last>>      \* lastMetaUpdate is too recent
    /\ UNCHANGED <<chan, old, cout, cur, socks, listed, faults>>

Periodic ==
    /\ chan = "on" /\ cout \in {"connected", "link"}
    /\ \/ last = "never"
       \/ last = "old" /\ Len(outData) + Len(socks[cur].up) < MaxQueue
    /\ TrackerUpdate(FALSE, Host(version))
    /\ UNCHANGED <<chan, old, version, cout, cur, socks, listed, faults>>

TimePasses ==
    /\ last = "recent" /\ chan = "on"
    /\ last' = "old"
    /\ UNCHANGED <<chan, old, version, cout, outData, cur, socks, listed,
                   faults>>

(* The end of readStream: the status first, the last update after it.      *)
Stop ==
    /\ chan = "on"
    /\ chan' = "closing"
    /\ UNCHANGED <<old, version, last, cout, outData, cur, socks, listed,
                   faults>>

LastUpdate ==
    /\ chan = "closing"
    /\ chan' = "off"
    /\ TrackerUpdate(TRUE, Gone)
    /\ UNCHANGED <<old, version, cout, cur, socks, listed, faults>>

-----------------------------------------------------------------------------
(* outgoingProc *)

ConnectBroadcaster ==
    /\ cout = "none" /\ chan = "on"
    /\ cout' = "wait" /\ outData' = <<>>
    /\ UNCHANGED <<chan, old, version, last, cur, socks, listed, faults>>

Connect ==
    LET free == {t \in Slots : socks[t] = Closed}
        s == CHOOSE t \in free : TRUE
    IN  /\ cout = "wait" /\ chan = "on" /\ free # {}
        /\ cout' = "handshake" /\ cur' = s
        /\ socks' = [socks EXCEPT ![s] = Opened]
        /\ UNCHANGED <<chan, old, version, last, outData, listed, faults>>

ReadDown(x) == [x EXCEPT !.down = Tail(x.down)]

Shaken ==
    /\ cout = "handshake"
    /\ socks[cur].down # <<>>
    /\ cout' = "connected"
    /\ socks' = [socks EXCEPT ![cur] = ReadDown(@)]
    /\ UNCHANGED <<chan, old, version, last, outData, cur, listed, faults>>

(* pcpStream->init, after S_CONNECTED: what was queued is thrown away.     *)
InitStream ==
    /\ cout = "connected"
    /\ cout' = "link" /\ outData' = <<>>
    /\ UNCHANGED <<chan, old, version, last, cur, socks, listed, faults>>

SentUp(x, p) == [x EXCEPT !.up = Append(x.up, p)]

Send ==
    /\ cout = "link" /\ outData # <<>> /\ socks[cur].open
    /\ outData' = Tail(outData)
    /\ socks' = [socks EXCEPT ![cur] = SentUp(@, Head(outData))]
    /\ UNCHANGED <<chan, old, version, last, cout, cur, listed, faults>>

(* The socket is closed; what was sent may still be read at the other end. *)
HungUp(x, more) ==
    IF x.servent = "gone" THEN Closed
    ELSE [x EXCEPT !.up = x.up \o more, !.down = <<>>, !.open = FALSE]

Hangup(more) ==
    /\ cout' = "wait" /\ cur' = None
    /\ socks' = [socks EXCEPT ![cur] = HungUp(@, more)]

Read ==
    /\ cout = "link" /\ socks[cur].down # <<>>
    /\ LET p == Head(socks[cur].down)
       IN  \/ /\ p.kind = "update"
              /\ socks' = [socks EXCEPT ![cur] = ReadDown(@)]
              /\ IF chan = "on"
                 THEN TrackerUpdate(TRUE, Host(version))
                 ELSE UNCHANGED <<outData, last>>
              /\ UNCHANGED <<cout, cur>>
           \/ /\ p.kind = "quit"
              /\ Hangup(outData \o <<Word("quit")>>)
              /\ outData' = <<>>
              /\ UNCHANGED last
    /\ UNCHANGED <<chan, old, version, listed, faults>>

(* The link is given up when nothing is broadcast any more.  That the old  *)
(* channel can still count as broadcast is a delay like any other.         *)
OffAir ==
    /\ cout = "link" /\ chan # "on"
    /\ Hangup(outData \o <<Word("quit")>>)
    /\ outData' = <<>>
    /\ UNCHANGED <<chan, old, version, last, listed, faults>>

(* The root has announced settings (nextRootPacket) and not sent them.     *)
NoRoot ==
    /\ cout = "link" /\ faults > 0
    /\ faults' = faults - 1
    /\ Hangup(outData \o <<Word("quit")>>)
    /\ outData' = <<>>
    /\ UNCHANGED <<chan, old, version, last, listed>>

(* An exception: the connection has failed, or the root has closed it.     *)
Lost ==
    /\ cout \in {"handshake", "link"}
    /\ \/ ~socks[cur].open
       \/ socks[cur].servent = "gone" /\ socks[cur].down = <<>>
    /\ Hangup(<<>>)
    /\ UNCHANGED <<chan, old, version, last, outData, listed, faults>>

(* The servent is stopped by the administrator. *)
Abort ==
    /\ cout \in {"handshake", "link"} /\ faults > 0
    /\ faults' = faults - 1
    /\ cout' = "none" /\ cur' = None
    /\ socks' = [socks EXCEPT ![cur] = HungUp(@, <<>>)]
    /\ UNCHANGED <<chan, old, version, last, outData, listed>>

-----------------------------------------------------------------------------
(* The root: processIncomingPCP on each socket. *)

Answered(x, servent, words) ==
    [x EXCEPT !.servent = servent, !.down = x.down \o words]

(* The handshake, then findConnection and controlInFull. *)
Check(s) ==
    /\ socks[s].servent = "hello"
    /\ \E full \in BOOLEAN :
        /\ full => faults > 0
        /\ faults' = IF full THEN faults - 1 ELSE faults
        /\ socks' = IF full \/ \E d \in Slots : socks[d].servent = "in"
                    THEN [socks EXCEPT ![s] = Answered(@, "gone",
                                                <<Word("oleh"), Word("quit")>>)]
                    ELSE [socks EXCEPT ![s] = Answered(@, "passed",
                                                       <<Word("oleh")>>)]
    /\ UNCHANGED <<node, listed>>

(* S_CONNECTED, PCP_OK, and the request for an update.                     *)
Accept_Silent(s) ==
    /\ socks[s].servent = "passed"
    /\ socks' = [socks EXCEPT ![s] = Answered(@, "in", <<>>)]
    /\ UNCHANGED <<node, listed, faults>>

Accept(s) ==
    /\ socks[s].servent = "passed"
    /\ socks' = [socks EXCEPT ![s] = Answered(@, "in", <<Word("update")>>)]
    /\ UNCHANGED <<node, listed, faults>>

(* readHostAtoms: addHit or delHit *)
RootRead(s) ==
    /\ socks[s].servent = "in" /\ socks[s].up # <<>>
    /\ LET p == Head(socks[s].up)
           x == [socks[s] EXCEPT !.up = Tail(socks[s].up)]
       IN  /\ socks' = [socks EXCEPT
                           ![s] = IF p.kind = "quit"
                                  THEN [x EXCEPT !.servent = "gone"] ELSE x]
           /\ listed' = IF p.kind # "host" THEN listed
                        ELSE IF p = Gone THEN None ELSE p.version
    /\ UNCHANGED <<node, faults>>

(* The root's servent ends when its socket is closed; the socket is free   *)
(* again when both ends have closed it.                                    *)
RootEnds_Never(s) == FALSE /\ UNCHANGED vars

RootEnds(s) ==
    /\ ~socks[s].open /\ socks[s] # Closed
    /\ \/ socks[s].servent = "gone" \/ socks[s].up = <<>>
    /\ socks' = [socks EXCEPT ![s] = IF s = cur THEN Answered(@, "gone", <<>>)
                                     ELSE Closed]
    /\ socks' # socks
    /\ UNCHANGED <<node, listed, faults>>

(* clearDeadHits: three minutes without an update *)
Expire_Never == FALSE /\ UNCHANGED vars
Expire ==
    /\ listed # None
    /\ listed' = None
    /\ UNCHANGED <<node, socks, faults>>

-----------------------------------------------------------------------------
(* A connection fails: what is on its way may be lost. *)
Cut(s) ==
    /\ socks[s].open /\ faults > 0
    /\ faults' = faults - 1
    /\ \E k \in 0 .. Len(socks[s].up) :
        socks' = [socks EXCEPT
                    ![s] = [servent |-> @.servent, up |-> SubSeq(@.up, 1, k),
                            down |-> <<>>, open |-> FALSE]]
    /\ UNCHANGED <<node, listed>>

RestartRoot ==
    /\ faults > 0
    /\ faults' = faults - 1
    /\ listed' = None
    /\ socks' = [s \in Slots |->
                    IF s = cur THEN Answered(Closed, "gone", socks[s].down)
                    ELSE Closed]
    /\ UNCHANGED node

RootStep(s) == Check(s) \/ Accept(s) \/ RootRead(s) \/ RootEnds(s)

(* outgoingProc and the idle thread that starts it *)
CoutStep ==
    ConnectBroadcaster \/ Connect \/ Shaken \/ InitStream \/ Send \/ Read
    \/ OffAir \/ Lost

Next ==
    \/ Broadcast \/ UpdateInfo \/ Periodic \/ TimePasses \/ Stop \/ LastUpdate
    \/ Takeover \/ OldLastUpdate
    \/ CoutStep \/ NoRoot \/ Abort \/ Expire \/ RestartRoot
    \/ \E s \in Slots : RootStep(s) \/ Cut(s)

(* The threads of both hosts go on.  The channel need not change or end,   *)
(* and apart from the first packet, with which readStream sends the first  *)
(* update, it need not carry data: the periodic updates are not assumed.   *)
Fairness ==
    /\ WF_vars(LastUpdate) /\ WF_vars(OldLastUpdate)
    /\ WF_vars(Periodic /\ last = "never")
    /\ WF_vars(CoutStep)
    /\ \A s \in Slots : WF_vars(RootStep(s))
    /\ SF_vars(Expire)

Spec == Init /\ [][Next]_vars /\ Fairness

-----------------------------------------------------------------------------
Message == [kind : {"host", "update", "quit", "oleh"}, version : 0 .. MaxVersion]
Socket == [servent : {"hello", "passed", "in", "gone"},
           up : Seq(Message), down : Seq(Message), open : BOOLEAN]

ChannelOK ==
    /\ chan \in {"off", "on", "closing"} /\ version \in 0 .. MaxVersion
    /\ last \in {"never", "recent", "old"}

LinkOK ==
    /\ cout \in {"none", "wait", "handshake", "connected", "link"}
    /\ outData \in Seq(Message)
    /\ cur \in Slots \cup {None}
    /\ cur = None <=> cout \in {"none", "wait"}

RootOK ==
    /\ socks \in [Slots -> Socket]
    /\ listed \in (1 .. MaxVersion) \cup {None}
    /\ faults \in 0 .. MaxFaults

TypeOK == ChannelOK /\ LinkOK /\ RootOK /\ old \in BOOLEAN

(* While a link stays up, the root comes to list what the channel was when *)
(* it became ready, or newer.     An update queued between S_CONNECTED and *)
(* pcpStream->init is thrown away and counts as sent (lastTrackerUpdate);  *)
(* that the root asks for an update makes up for it.                       *)
Listed ==
    \A v \in 1 .. MaxVersion :
        cout = "connected" /\ version = v
            ~> \/ cout \notin {"connected", "link"} \/ chan # "on"
               \/ listed \in v .. MaxVersion

(* A channel that has ended does not stay listed, although the link can    *)
(* be given up between the end of the channel and its last update, which   *)
(* is then never sent.                                                     *)
Unlisted == chan = "off" ~> chan = "on" \/ listed = None

(* A channel that goes on, with an update every two minutes, is listed     *)
(* again and again while the link is up, although the last update of the   *)
(* channel it replaced, which arrives after its first one, takes it off    *)
(* the list.                                                               *)
Relisted ==
    []<>(last = "recent") /\ []<>(last = "old") =>
        []<>(listed # None \/ cout # "link")

(* While it broadcasts, a host gets its link back after every failure: the *)
(* root does not go on refusing it as already connected.                   *)
Relinked == []<>(cout = "link" \/ chan # "on")
=============================================================================
