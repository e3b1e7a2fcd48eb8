---------------------------- MODULE ServentPool ----------------------------
(***************************************************************************)
(* The pool of servents (core/common/servent.cpp, servmgr.cpp): one        *)
(* Servent object per connection, each with a thread of its own, recycled  *)
(* through the status S_FREE.  The listening servent accepts connections   *)
(* and hands each to a servent of the pool; push requests (GIV) take       *)
(* servents from the same pool; a stream request is granted or denied      *)
(* against the limits of the node under streamRequestMutex; a denied relay *)
(* request may have one other relay terminated and is then tried again;    *)
(* and any connection can be aborted from another thread.                  *)
(*                                                                         *)
(* What the node cannot know in advance is a choice of the environment:    *)
(* which peer connects and what it asks for, whether a channel is playing, *)
(* the measured output rate, the hits known for a channel, when a          *)
(* transfer ends or a socket fails.                                        *)
(***************************************************************************)
EXTENDS Integers, FiniteSets

CONSTANTS
    MaxServents,           \* bound: Servent objects ever created
    MaxPush,               \* bound: push requests being set up at a time
    Peers,                 \* remote hosts; a peer has one session ID
    PrivatePeers,          \* those for which isPrivate() holds
    Channels,              \* channel IDs
    Requests,              \* what peers ask for: a subset of AllRequests
    MaxRelays,             \* ServMgr::maxRelays
    MaxDirect,             \* ServMgr::maxDirect
    MaxRelaysPerChannel,   \* ChanMgr::maxRelaysPerChannel, 0: no limit
    MaxControl,            \* ServMgr::maxControl
    MaxServIn,             \* ServMgr::maxServIn
    Admin,                 \* what the administrator does: of AllAdmin
    None                   \* no peer, no channel, no thread

AllRequests == {"relay", "direct", "push", "pcp", "other"}
AllAdmin == {"stop", "port", "serve"}

ASSUME PoolAssumption ==
    /\ MaxServents \in Nat \ {0}
    /\ {MaxPush, MaxRelays, MaxDirect, MaxRelaysPerChannel, MaxControl,
        MaxServIn} \subseteq Nat
    /\ PrivatePeers \subseteq Peers
    /\ Requests \subseteq AllRequests
    /\ Admin \subseteq AllAdmin
    /\ None \notin Peers \cup Channels \cup Nat

VARIABLES
    sv,         \* the Servent objects, by serventIndex
    num,        \* ServMgr::serventNum
    alloc,      \* servents taken from the pool and not yet started
    pc,         \* where the thread of each servent is
    req,        \* chanInfo.id and autoManageTried of handshakeStream
    mutex,      \* holder of streamRequestMutex
    restart,    \* ServMgr::restartServer
    autoServe   \* ServMgr::autoServe

poolVars == <<num, alloc>>
adminVars == <<restart, autoServe>>
vars == <<sv, poolVars, pc, req, mutex, adminVars>>

Slots == 1 .. MaxServents
Server == 1             \* the servent of ServMgr::serverProc
Servents == 1 .. num    \* the list servMgr->servents

Types == {"NONE", "INCOMING", "SERVER", "RELAY", "DIRECT", "CIN", "COMMAND"}
Statuses == {"NONE", "PROTOCOL", "WAIT", "LISTENING", "HANDSHAKE",
             "CONNECTED", "CLOSING", "FREE"}
Servent == [type : Types, status : Statuses, chan : Channels \cup {None},
            peer : Peers \cup {None}, remote : Peers \cup {None},
            sock : {"none", "open", "closed"}, active : BOOLEAN,
            servPort : BOOLEAN]
Points == {"idle", "start", "listen", "accepted", "request", "try", "granted",
           "denied", "ready", "refused", "stream", "cinok", "cin", "ending"}

-----------------------------------------------------------------------------
(* Servent::reset; the thread is not part of what it clears. *)
Reset_Frees(r) == [r EXCEPT !.type = "NONE", !.status = "FREE", !.chan = None,
                            !.remote = None, !.peer = None, !.sock = "none",
                            !.servPort = FALSE]

Reset(r) == [r EXCEPT !.type = "NONE", !.status = "NONE", !.chan = None,
                      !.remote = None, !.peer = None, !.sock = "none",
                      !.servPort = FALSE]

(* Servent::kill: only a SERVER servent keeps its type and stays allocated. *)
Kill_KeepsSocket(r) ==
    IF r.type = "SERVER"
    THEN [r EXCEPT !.active = FALSE, !.status = "CLOSING"]
    ELSE [Reset(r) EXCEPT !.active = FALSE, !.status = "FREE"]

Kill(r) ==
    IF r.type = "SERVER"
    THEN [r EXCEPT !.active = FALSE, !.status = "CLOSING", !.sock = "none"]
    ELSE [Reset(r) EXCEPT !.active = FALSE, !.status = "FREE"]

(* Servent::abort: the servent's own thread is left to notice and to kill. *)
Abort_DropsSocket(r) == [r EXCEPT !.active = FALSE, !.sock = "none"]
Abort_Kills(r) == Kill(r)
Abort(r) ==
    [r EXCEPT !.active = FALSE,
              !.sock = IF @ = "none" THEN "none" ELSE "closed"]

(* Servent::checkFree *)
IsUnused(r) == r.sock = "none" /\ ~r.active

IsPrivate(r) == r.peer \in PrivatePeers

Connected(type) ==
    {s \in Servents : sv[s].status = "CONNECTED" /\ sv[s].type = type}

(* What ServMgr::numStreams(type, false) counts, and with a channel *)
Streams(type) == {s \in Connected(type) : ~IsPrivate(sv[s])}
RelaysOf(c) == {s \in Streams("RELAY") : sv[s].chan = c}

NumActiveOnPort ==
    Cardinality({s \in Servents : sv[s].active /\ sv[s].sock # "none"
                                  /\ sv[s].servPort})

RelaysFull == Cardinality(Streams("RELAY")) >= MaxRelays
DirectFull == Cardinality(Streams("DIRECT")) >= MaxDirect
IsFull(c) == /\ MaxRelaysPerChannel # 0
             /\ Cardinality(RelaysOf(c)) >= MaxRelaysPerChannel

(* What ServMgr::numConnected(T_CIN) counts *)
Controls == {s \in Connected("CIN") : sv[s].active}
ControlInFull == Cardinality(Controls) >= MaxControl

(* ServMgr::findConnection for the types of control connections *)
AlreadyConnected(p) == \E s \in Connected("CIN") : sv[s].remote = p

(***************************************************************************)
(* ServMgr::allocServent: the first free servent of the list, which is in  *)
(* the order of decreasing index, or a new one at its head.                *)
(***************************************************************************)
FreeServents == {s \in Servents : sv[s].status = "FREE"}

NextServent(s) ==
    IF FreeServents # {}
    THEN s \in FreeServents /\ \A t \in FreeServents : t <= s
    ELSE s = num + 1

AllocServent(s) ==
    /\ s \in Slots
    /\ NextServent(s)
    /\ num' = IF s > num THEN s ELSE num

NoRequest == [chan |-> None, tried |-> FALSE]

Init ==
    /\ sv = [s \in Slots |-> [type |-> "NONE", status |-> "NONE",
                              chan |-> None, peer |-> None, remote |-> None,
                              sock |-> "none", active |-> FALSE,
                              servPort |-> FALSE]]
    /\ num = Server
    /\ alloc = {}
    /\ pc = [s \in Slots |-> "idle"]
    /\ req = [s \in Slots |-> NoRequest]
    /\ mutex = None
    /\ restart = FALSE
    /\ autoServe = TRUE

(* The thread of s goes from one point to the next. *)
Goto(s, from, to) == pc[s] = from /\ pc' = [pc EXCEPT ![s] = to]

-----------------------------------------------------------------------------
(***************************************************************************)
(* One pass of ServMgr::serverProc, all of it under servMgr->lock.         *)
(***************************************************************************)
InitServer(r) == [r EXCEPT !.status = "WAIT", !.sock = "open",
                           !.type = "SERVER", !.active = TRUE]

ServerPass ==
    LET server == IF restart THEN Abort(sv[Server]) ELSE sv[Server]
        start  == autoServe /\ IsUnused(server)
    IN  /\ restart' = FALSE
        /\ sv' = [s \in Slots |->
                    CASE s = Server /\ start      -> InitServer(server)
                      [] s = Server /\ ~start     -> IF autoServe THEN server
                                                     ELSE Abort(server)
                      [] s # Server /\ ~autoServe /\ sv[s].type = "INCOMING"
                                                  -> [sv[s] EXCEPT !.active = FALSE]
                      [] OTHER                    -> sv[s]]
        /\ pc' = [pc EXCEPT ![Server] = IF start THEN "start" ELSE @]
        /\ UNCHANGED <<poolVars, req, mutex, autoServe>>

(* Servent::serverProc, the thread of the listening servent *)
Listen ==
    /\ Goto(Server, "start", "listen")
    /\ sv' = [sv EXCEPT ![Server].status = "LISTENING"]
    /\ UNCHANGED <<poolVars, req, mutex, adminVars>>

ListenEnd ==
    /\ Goto(Server, "listen", "ending")
    /\ ~sv[Server].active \/ sv[Server].sock # "open"
    /\ UNCHANGED <<sv, poolVars, req, mutex, adminVars>>

(* A connection of peer p is accepted and servent s taken for it. *)
Accept(p, s) ==
    /\ Goto(Server, "listen", "accepted")
    /\ sv[Server].sock = "open"
    /\ NumActiveOnPort < MaxServIn
    /\ AllocServent(s)
    /\ sv' = [sv EXCEPT ![s] = [Reset(@) EXCEPT !.servPort = TRUE]]
    /\ alloc' = alloc \cup {[s |-> s, peer |-> p, by |-> "listener"]}
    /\ UNCHANGED <<req, mutex, adminVars>>

(* Servent::initIncoming; ok is FALSE when the thread cannot be started. *)
InitIncoming(a, ok) ==
    LET started == ok /\ IsUnused(sv[a.s])
    IN  /\ a.by = "listener"
        /\ alloc' = alloc \ {a}
        /\ sv' = [sv EXCEPT ![a.s] =
                    IF started
                    THEN [@ EXCEPT !.type = "INCOMING", !.status = "PROTOCOL",
                                   !.peer = a.peer, !.sock = "open",
                                   !.active = TRUE]
                    ELSE Kill(@)]
        /\ pc' = [pc EXCEPT ![Server] = "listen",
                            ![a.s] = IF started THEN "start" ELSE @]
        /\ UNCHANGED <<num, req, mutex, adminVars>>

(***************************************************************************)
(* PCPStream::readPushAtoms: a PCP thread is asked to connect back to peer *)
(* p for channel c, which this node may itself be broadcasting.            *)
(***************************************************************************)
ReadPush(p, c, s, broadcasting) ==
    /\ "push" \in Requests
    /\ broadcasting \/ (~IsFull(c) /\ ~RelaysFull)
    /\ Cardinality({a \in alloc : a.by = "push"}) < MaxPush
    /\ AllocServent(s)
    /\ sv' = [sv EXCEPT ![s] = Reset(@)]
    /\ alloc' = alloc \cup {[s |-> s, peer |-> p, by |-> "push"]}
    /\ UNCHANGED <<pc, req, mutex, adminVars>>

(* Servent::initGIV; ok is FALSE when connecting or starting failed. *)
InitGIV(a, ok) ==
    LET started == ok /\ IsUnused(sv[a.s])
    IN  /\ a.by = "push"
        /\ alloc' = alloc \ {a}
        /\ sv' = [sv EXCEPT ![a.s] =
                    IF started
                    THEN [@ EXCEPT !.type = "RELAY", !.peer = a.peer,
                                   !.sock = "open", !.active = TRUE]
                    ELSE Kill(@)]
        /\ pc' = [pc EXCEPT ![a.s] = IF started THEN "start" ELSE @]
        /\ UNCHANGED <<num, req, mutex, adminVars>>

-----------------------------------------------------------------------------
(***************************************************************************)
(* The thread of a connection: Servent::incomingProc and givProc.          *)
(***************************************************************************)
HandshakeIncoming(s) ==
    /\ s # Server
    /\ Goto(s, "start", "request")
    /\ sv' = [sv EXCEPT ![s].status = "HANDSHAKE"]
    /\ UNCHANGED <<poolVars, req, mutex, adminVars>>

(* handshakeHTTP reads a stream request for channel c; triggerChannel sets *)
(* the type and processStream starts.                                      *)
StreamRequest(s, kind, c) ==
    /\ kind \in Requests \cap {"relay", "direct"}
    /\ Goto(s, "request", "try")
    /\ sv[s].sock = "open"
    /\ sv' = [sv EXCEPT ![s].type = IF kind = "relay" THEN "RELAY"
                                                      ELSE "DIRECT"]
    /\ req' = [req EXCEPT ![s] = [chan |-> c, tried |-> FALSE]]
    /\ UNCHANGED <<poolVars, mutex, adminVars>>

(* Any other request is answered and the thread ends. *)
OtherRequest(s, type) ==
    /\ "other" \in Requests
    /\ Goto(s, "request", "ending")
    /\ sv[s].sock = "open"
    /\ sv' = [sv EXCEPT ![s].type = type]
    /\ UNCHANGED <<poolVars, req, mutex, adminVars>>

(***************************************************************************)
(* Servent::canStream.  found: the channel exists and the node is not      *)
(* disabled; busy: the measured output leaves no room for the channel's    *)
(* bit rate; playing: the channel is playing.                              *)
(***************************************************************************)
Reason(s, found, busy, playing) ==
    LET type == sv[s].type
    IN  IF ~found                                THEN "Other"
        ELSE IF IsPrivate(sv[s])                 THEN "None"
        ELSE IF busy                             THEN "InsufficientBandwidth"
        ELSE IF type = "RELAY" /\ RelaysFull     THEN "RelayLimit"
        ELSE IF type = "DIRECT" /\ DirectFull    THEN "DirectLimit"
        ELSE IF ~playing                         THEN "NotPlaying"
        ELSE IF type = "RELAY" /\ IsFull(req[s].chan)
                                                 THEN "PerChannelRelayLimit"
        ELSE "None"

Manageable == {"InsufficientBandwidth", "RelayLimit", "PerChannelRelayLimit"}

(* handshakeStream takes streamRequestMutex and asks canStream ... *)
CanStream_NoMutex(s, found, busy, playing) ==
    LET reason == Reason(s, found, busy, playing)
    IN  /\ Goto(s, "try", IF reason = "None" THEN "granted"
                          ELSE IF /\ ~req[s].tried
                                  /\ sv[s].type = "RELAY"
                                  /\ reason \in Manageable
                          THEN "denied" ELSE "refused")
        /\ UNCHANGED <<sv, poolVars, req, mutex, adminVars>>

CanStream(s, found, busy, playing) ==
    LET reason == Reason(s, found, busy, playing)
    IN  /\ mutex = None
        /\ mutex' = IF reason = "None" THEN s ELSE None
        /\ Goto(s, "try", IF reason = "None" THEN "granted"
                          ELSE IF /\ ~req[s].tried
                                  /\ sv[s].type = "RELAY"
                                  /\ reason \in Manageable
                          THEN "denied" ELSE "refused")
        /\ UNCHANGED <<sv, poolVars, req, adminVars>>

(* ... and if it can, counts itself in before the mutex is released. *)
Granted(s) ==
    /\ Goto(s, "granted", "ready")
    /\ sv' = [sv EXCEPT ![s].chan = req[s].chan, ![s].status = "CONNECTED"]
    /\ mutex' = None
    /\ UNCHANGED <<poolVars, req, adminVars>>

(***************************************************************************)
(* The automatic management of relays: one other relay of the channel is   *)
(* aborted, if the hits of the channel name one that is of little use      *)
(* (isTerminationCandidate), and the request is tried a second time.       *)
(***************************************************************************)
Victims(s) ==
    {t \in Servents \ {s} : /\ sv[t].type = "RELAY"
                            /\ sv[t].chan = req[s].chan
                            /\ ~IsPrivate(sv[t])}

AutoManage_Forever(s, victims) ==
    /\ victims \in {{t} : t \in Victims(s)} \cup {{}}
    /\ sv' = [t \in Slots |-> IF t \in victims THEN Abort(sv[t]) ELSE sv[t]]
    /\ Goto(s, "denied", "try")
    /\ UNCHANGED <<poolVars, req, mutex, adminVars>>

AutoManage(s, victims) ==
    /\ victims \in {{t} : t \in Victims(s)} \cup {{}}
    /\ sv' = [t \in Slots |-> IF t \in victims THEN Abort(sv[t]) ELSE sv[t]]
    /\ Goto(s, "denied", IF sv[s].active /\ sv[s].sock = "open"
                         THEN "try" ELSE "refused")
    /\ req' = [req EXCEPT ![s].tried = TRUE]
    /\ UNCHANGED <<poolVars, mutex, adminVars>>

(* No hit list for the channel: no second attempt. *)
NoHitList(s) ==
    /\ Goto(s, "denied", "refused")
    /\ req' = [req EXCEPT ![s].tried = TRUE]
    /\ UNCHANGED <<sv, poolVars, mutex, adminVars>>

(* handshakeStream_returnResponse, for a relay with a PCP handshake *)
ReturnStream(s) ==
    /\ Goto(s, "ready", "stream")
    /\ sv[s].sock = "open"
    /\ sv' = [sv EXCEPT ![s].remote = IF sv[s].type = "RELAY"
                                      THEN sv[s].peer ELSE @]
    /\ UNCHANGED <<poolVars, req, mutex, adminVars>>

ReturnUnavailable(s) ==
    /\ Goto(s, "refused", "ending")
    /\ sv' = [sv EXCEPT ![s].remote = IF sv[s].type = "RELAY"
                                      THEN sv[s].peer ELSE @]
    /\ UNCHANGED <<poolVars, req, mutex, adminVars>>

(* The transfer is over: the channel ended or the thread was shut down. *)
StreamEnd(s) ==
    /\ Goto(s, "stream", "ending")
    /\ sv' = [sv EXCEPT ![s].status = "CLOSING"]
    /\ UNCHANGED <<poolVars, req, mutex, adminVars>>

(***************************************************************************)
(* processIncomingPCP: the checks, and after them the change of type and   *)
(* status, with no lock held from one to the other.                        *)
(***************************************************************************)
IncomingPCP(s, offair) ==
    /\ "pcp" \in Requests
    /\ sv[s].sock = "open"
    /\ sv' = [sv EXCEPT ![s].remote = sv[s].peer]
    /\ Goto(s, "request",
            IF ControlInFull \/ AlreadyConnected(sv[s].peer) \/ offair
            THEN "ending" ELSE "cinok")
    /\ UNCHANGED <<poolVars, req, mutex, adminVars>>

AcceptPCP(s) ==
    /\ Goto(s, "cinok", "cin")
    /\ sv' = [sv EXCEPT ![s].type = "CIN", ![s].status = "CONNECTED"]
    /\ UNCHANGED <<poolVars, req, mutex, adminVars>>

IncomingPCPEnd(s) ==
    /\ Goto(s, "cin", "ending")
    /\ UNCHANGED <<sv, poolVars, req, mutex, adminVars>>

(* The peer goes away, what it sends cannot be used, or the channel is     *)
(* gone when the answer is due: the thread ends with the status it had.    *)
Blocking == {"request", "ready", "stream", "cin"}

ConnectionLost(s) ==
    /\ pc[s] \in Blocking
    /\ Goto(s, pc[s], "ending")
    /\ UNCHANGED <<sv, poolVars, req, mutex, adminVars>>

(* Every read or write fails once the socket is closed. *)
SocketClosed(s) == sv[s].sock = "closed" /\ ConnectionLost(s)

(* A thread ends: its Defer runs kill() whichever way it ended. *)
ThreadEnd(s) ==
    /\ Goto(s, "ending", "idle")
    /\ sv' = [sv EXCEPT ![s] = Kill(@)]
    /\ req' = [req EXCEPT ![s] = NoRequest]
    /\ UNCHANGED <<poolVars, mutex, adminVars>>

-----------------------------------------------------------------------------
(* The administrator: stop_servent, stopChannelConnection, settings. *)
StopServent(s) ==
    /\ "stop" \in Admin
    /\ sv' = [sv EXCEPT ![s] = Abort(@)]
    /\ UNCHANGED <<poolVars, pc, req, mutex, adminVars>>

ChangePort ==
    /\ "port" \in Admin
    /\ restart' = TRUE
    /\ UNCHANGED <<sv, poolVars, pc, req, mutex, autoServe>>

SetAutoServe(on) ==
    /\ "serve" \in Admin
    /\ autoServe' = on
    /\ UNCHANGED <<sv, poolVars, pc, req, mutex, restart>>

ServerThread == Listen \/ ListenEnd \/ ThreadEnd(Server)

CanStreamStep(s) ==
    \E found, busy, playing \in BOOLEAN : CanStream(s, found, busy, playing)

ServentThread(s) ==
    \/ HandshakeIncoming(s)
    \/ Granted(s)
    \/ \E victims \in SUBSET Servents : AutoManage(s, victims)
    \/ NoHitList(s)
    \/ ReturnStream(s)
    \/ ReturnUnavailable(s)
    \/ AcceptPCP(s)
    \/ SocketClosed(s)
    \/ ThreadEnd(s)

Peer(s) ==
    \/ \E c \in Channels, kind \in Requests : StreamRequest(s, kind, c)
    \/ \E type \in {sv[s].type, "COMMAND"} : OtherRequest(s, type)
    \/ \E offair \in BOOLEAN : IncomingPCP(s, offair)
    \/ StreamEnd(s)
    \/ IncomingPCPEnd(s)
    \/ ConnectionLost(s)

Next ==
    \/ ServerPass
    \/ ServerThread
    \/ \E p \in Peers, s \in Slots : Accept(p, s)
    \/ \E a \in alloc, ok \in BOOLEAN : InitIncoming(a, ok) \/ InitGIV(a, ok)
    \/ \E p \in Peers, c \in Channels, s \in Slots, b \in BOOLEAN :
            ReadPush(p, c, s, b)
    \/ \E s \in Servents \ {Server} :
            CanStreamStep(s) \/ ServentThread(s) \/ Peer(s)
    \/ \E s \in Servents : StopServent(s)
    \/ ChangePort
    \/ \E on \in BOOLEAN : SetAutoServe(on)

(***************************************************************************)
(* Every thread keeps running; a thread that waits for streamRequestMutex  *)
(* gets it if it is released again and again.  Nothing is assumed of peers *)
(* and of the administrator.                                               *)
(***************************************************************************)
Fairness ==
    /\ WF_vars(ServerPass)
    /\ WF_vars(ServerThread)
    /\ WF_vars(\E a \in alloc, ok \in BOOLEAN : InitIncoming(a, ok))
    /\ \A s \in Slots \ {Server} : /\ WF_vars(ServentThread(s))
                                   /\ SF_vars(CanStreamStep(s))

Spec == Init /\ [][Next]_vars /\ Fairness

-----------------------------------------------------------------------------
TypeOK ==
    /\ sv \in [Slots -> Servent]
    /\ num \in Slots
    /\ alloc \subseteq [s : Slots, peer : Peers, by : {"listener", "push"}]
    /\ pc \in [Slots -> Points]
    /\ req \in [Slots -> [chan : Channels \cup {None}, tried : BOOLEAN]]
    /\ mutex \in Slots \cup {None}
    /\ restart \in BOOLEAN
    /\ autoServe \in BOOLEAN

(* The limits on relays, on direct connections and on the relays of one    *)
(* channel hold however many requests canStream decides at the same time:  *)
(* handshakeStream counts the servent in before it lets the next one ask.  *)
LimitsHold ==
    /\ Cardinality(Streams("RELAY")) <= MaxRelays
    /\ Cardinality(Streams("DIRECT")) <= MaxDirect
    /\ MaxRelaysPerChannel # 0 =>
        \A c \in Channels : Cardinality(RelaysOf(c)) <= MaxRelaysPerChannel

(* allocServent never hands out a servent that is in use: one that a       *)
(* thread still runs on, or that another caller took and has not started.  *)
OneOwner ==
    /\ \A s \in Slots : pc[s] # "idle" => sv[s].status # "FREE"
    /\ \A a \in alloc : pc[a.s] = "idle" /\ sv[a.s].status # "FREE"
    /\ \A a, b \in alloc : a.s = b.s => a = b

(* The two ASSERTs of processStream: a servent that sends a stream is      *)
(* counted as connected, and to the channel it sends, whoever aborts it.   *)
StreamingIsCounted ==
    \A s \in Slots : pc[s] = "stream" => /\ sv[s].status = "CONNECTED"
                                         /\ sv[s].chan = req[s].chan
                                         /\ sv[s].chan # None

(* startThread is never called on a servent whose last thread still runs;  *)
(* for the listening servent, whose socket a restart closes from another   *)
(* thread, this is what keeps two threads from accepting on one port.      *)
OneThread ==
    [][\A s \in Slots : ~sv[s].active /\ sv'[s].active => pc[s] = "idle"]_vars

(* An aborted connection is not left behind: its thread ends and the       *)
(* servent goes back to the pool, also when it waited for the mutex or had *)
(* just terminated another relay.                                          *)
AbortedEnds ==
    \A s \in Slots \ {Server} :
        pc[s] # "idle" /\ sv[s].sock = "closed" ~> pc[s] = "idle"

(* A request to restart the server leads to a new listening socket unless  *)
(* serving is turned off.                                                  *)
RestartListens == restart ~> (pc[Server] = "start" \/ ~autoServe)
=============================================================================
