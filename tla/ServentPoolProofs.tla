-------------------------- MODULE ServentPoolProofs --------------------------
(***************************************************************************)
(* Proofs about the pool of servents, for every number of servents, peers, *)
(* channels and every value of the limits.                                 *)
(***************************************************************************)
EXTENDS ServentPool, FiniteSetTheorems, TLAPS

(* The points at which a request has not been granted yet, and those from  *)
(* which the channel of the request is known.                              *)
Asking == {"start", "request", "try", "granted", "denied", "refused"}
ForChannel == {"try", "granted", "denied", "refused", "ready", "stream"}

(* A servent that a thread or an allocating caller holds is not free. *)
Owned ==
    /\ \A s \in Slots : pc[s] # "idle" => s <= num /\ sv[s].status # "FREE"
    /\ \A a \in alloc : /\ a.s # Server
                        /\ a.s <= num
                        /\ pc[a.s] = "idle"
                        /\ sv[a.s].status = "NONE"
    /\ \A a, b \in alloc : a.s = b.s => a = b

(* The listening servent is never freed, keeps its socket as long as its   *)
(* thread runs, and has at most one connection to hand on.                 *)
ServerOwned ==
    /\ sv[Server].status \notin {"FREE", "CONNECTED"}
    /\ pc[Server] \in {"idle", "start", "listen", "accepted", "ending"}
    /\ pc[Server] # "idle" => /\ sv[Server].sock # "none"
                              /\ sv[Server].type = "SERVER"
    /\ \A a \in alloc : a.by = "listener" => pc[Server] = "accepted"
    /\ \A a, b \in alloc : a.by = "listener" /\ b.by = "listener" => a = b

(* A servent is connected exactly when its request was granted. *)
Counted ==
    /\ \A s \in Slots : pc[s] \in Asking => sv[s].status # "CONNECTED"
    /\ \A s \in Slots : pc[s] \in ForChannel => req[s].chan \in Channels
    /\ \A s \in Slots : pc[s] \in {"ready", "stream"} =>
            sv[s].status = "CONNECTED" /\ sv[s].chan = req[s].chan

(* Whoever holds streamRequestMutex after canStream said yes has room. *)
Room(s) ==
    ~IsPrivate(sv[s]) =>
        /\ sv[s].type = "RELAY" => Cardinality(Streams("RELAY")) < MaxRelays
        /\ sv[s].type = "DIRECT" => Cardinality(Streams("DIRECT")) < MaxDirect
        /\ sv[s].type = "RELAY" /\ MaxRelaysPerChannel # 0 =>
            Cardinality(RelaysOf(req[s].chan)) < MaxRelaysPerChannel

Reserved ==
    \A s \in Slots : pc[s] = "granted" => mutex = s /\ Room(s)

(* The inductive invariant of the pool *)
PoolInv == TypeOK /\ Owned /\ ServerOwned /\ Counted

(* The inductive invariant of the limits *)
LimitInv == PoolInv /\ Reserved /\ LimitsHold

-----------------------------------------------------------------------------
(* What abort, reset and kill make of a servent is a servent. *)
LEMMA AbortType == ASSUME NEW r \in Servent PROVE Abort(r) \in Servent
BY DEF Abort, Servent

(* A servent that was reset is a servent. *)
LEMMA ResetType == ASSUME NEW r \in Servent PROVE Reset(r) \in Servent
BY DEF Reset, Servent, Types, Statuses

(* So is a servent with one field changed. *)
LEMMA UpdateType ==
    ASSUME NEW r \in Servent
    PROVE  /\ \A x \in Types : [r EXCEPT !.type = x] \in Servent
           /\ \A x \in Statuses : [r EXCEPT !.status = x] \in Servent
           /\ \A x \in Channels \cup {None} : [r EXCEPT !.chan = x] \in Servent
           /\ \A x \in Peers \cup {None} : [r EXCEPT !.peer = x] \in Servent
           /\ \A x \in Peers \cup {None} : [r EXCEPT !.remote = x] \in Servent
           /\ \A x \in {"none", "open", "closed"} :
                [r EXCEPT !.sock = x] \in Servent
           /\ \A x \in BOOLEAN : [r EXCEPT !.active = x] \in Servent
BY DEF Servent

(* And so is a servent that was killed. *)
LEMMA KillType == ASSUME NEW r \in Servent PROVE Kill(r) \in Servent
<1>1. {"CLOSING", "FREE"} \subseteq Statuses
  BY DEF Statuses
<1>2. ASSUME NEW q \in Servent, NEW x \in Statuses
      PROVE  [q EXCEPT !.active = FALSE, !.status = x] \in Servent
  BY <1>2, UpdateType
<1>3. CASE r.type = "SERVER"
  <2>1. [r EXCEPT !.active = FALSE, !.status = "CLOSING"] \in Servent
    BY <1>1, <1>2
  <2> QED BY <2>1, <1>3, UpdateType DEF Kill
<1>4. CASE r.type # "SERVER"
  BY <1>1, <1>2, <1>4, ResetType DEF Kill
<1> QED BY <1>3, <1>4

(* ServerPass keeps the invariant of the pool. *)
LEMMA ServerPassKeeps ==
    ASSUME PoolInv, ServerPass
    PROVE  PoolInv'
<1> USE PoolAssumption
<1>1. TypeOK'
  <2>1. sv' \in [Slots -> Servent]
    <3> DEFINE server == IF restart THEN Abort(sv[Server]) ELSE sv[Server]
    <3>1. /\ sv \in [Slots -> Servent]
          /\ server \in Servent /\ Abort(server) \in Servent
      BY AbortType DEF PoolInv, TypeOK, Slots, Server
    <3>2. /\ InitServer(server) \in Servent
          /\ \A s \in Slots : [sv[s] EXCEPT !.active = FALSE] \in Servent
      <4> HIDE DEF server
      <4>1. "SERVER" \in Types /\ "WAIT" \in Statuses
        BY DEF Types, Statuses
      <4> QED BY <3>1, <4>1, UpdateType DEF InitServer
    <3> QED BY <3>1, <3>2 DEF ServerPass
  <2>2. TypeOK'
    BY <2>1 DEF PoolInv, TypeOK, Points, ServerPass, InitServer, Abort, IsUnused,
          Goto, poolVars, adminVars, Slots, Server, Servents
  <2> QED BY <2>2
<1>2. Owned'
  BY DEF PoolInv, TypeOK, Owned, ServerOwned, Servent, ServerPass,
        InitServer, Abort, IsUnused, Goto, poolVars, adminVars, Slots,
        Server, Servents
<1>3. ServerOwned'
  <2> DEFINE server == IF restart THEN Abort(sv[Server]) ELSE sv[Server]
  <2>0. sv[Server] \in Servent /\ Server \in Slots /\ pc \in [Slots -> Points]
    BY DEF PoolInv, TypeOK, Slots, Server
  <2>1. server \in Servent /\ (sv[Server].sock # "none" => server.sock # "none")
        /\ server.type = sv[Server].type
        /\ server.status \notin {"FREE", "CONNECTED"}
    <3>1. /\ Abort(sv[Server]) \in Servent
          /\ Abort(sv[Server]).type = sv[Server].type
          /\ Abort(sv[Server]).status = sv[Server].status
          /\ sv[Server].sock # "none" => Abort(sv[Server]).sock # "none"
      <4>1. \A r \in Servent : /\ Abort(r).type = r.type
                               /\ Abort(r).status = r.status
                               /\ r.sock # "none" => Abort(r).sock # "none"
        BY DEF Abort, Servent
      <4> QED BY <2>0, <4>1, AbortType
    <3>2. sv[Server].status \notin {"FREE", "CONNECTED"}
      BY DEF PoolInv, ServerOwned
    <3>3. CASE restart BY <3>1, <3>2, <3>3
    <3>4. CASE ~restart BY <2>0, <3>2, <3>4
    <3> QED BY <3>3, <3>4
  <2>2. /\ sv'[Server] = IF autoServe /\ IsUnused(server) THEN InitServer(server)
                         ELSE IF autoServe THEN server ELSE Abort(server)
        /\ pc'[Server] = IF autoServe /\ IsUnused(server) THEN "start"
                         ELSE pc[Server]
        /\ alloc' = alloc
    BY <2>0 DEF ServerPass, poolVars
  <2> HIDE DEF server
  <2>3. IsUnused(server) => pc[Server] \notin {"accepted"}
    BY <2>1 DEF PoolInv, ServerOwned, IsUnused
  <2>4. /\ InitServer(server).sock # "none" /\ InitServer(server).type = "SERVER"
        /\ InitServer(server).status = "WAIT"
        /\ Abort(server).type = server.type
        /\ Abort(server).status = server.status
        /\ server.sock # "none" => Abort(server).sock # "none"
    BY <2>1 DEF InitServer, Abort, Servent
  <2> QED BY <2>1, <2>2, <2>3, <2>4 DEF PoolInv, ServerOwned
<1>4. Counted'
  BY DEF PoolInv, TypeOK, Owned, ServerOwned, Counted, Asking, ForChannel,
        Servent, ServerPass, InitServer, Abort, IsUnused, Goto, poolVars,
        adminVars, Slots, Server, Servents
<1> QED BY <1>1, <1>2, <1>3, <1>4 DEF PoolInv

(* Listen keeps the invariant of the pool. *)
LEMMA ListenKeeps ==
    ASSUME PoolInv, Listen
    PROVE  PoolInv'
<1> USE PoolAssumption
<1>1. TypeOK'
  <2>1. sv' \in [Slots -> Servent]
    <3>1. Server \in Slots /\ sv \in [Slots -> Servent]
      BY DEF PoolInv, TypeOK, Slots, Servents, Server
    <3>2. "LISTENING" \in Statuses
      BY <3>1 DEF Types, Statuses, Servent
    <3> QED BY <3>1, <3>2, UpdateType DEF Listen
  <2>2. TypeOK'
    BY <2>1 DEF PoolInv, TypeOK, Points, Listen, Goto, poolVars, adminVars, Slots,
          Server, Servents
  <2> QED BY <2>2
<1>2. Owned'
  BY DEF PoolInv, TypeOK, Owned, ServerOwned, Servent, Listen, Goto,
        poolVars, adminVars, Slots, Server, Servents
<1>3. ServerOwned'
  BY DEF PoolInv, TypeOK, Owned, ServerOwned, Servent, Listen, Goto,
        poolVars, adminVars, Slots, Server, Servents
<1>4. Counted'
  BY DEF PoolInv, TypeOK, Owned, ServerOwned, Counted, Asking, ForChannel,
        Servent, Listen, Goto, poolVars, adminVars, Slots, Server,
        Servents
<1> QED BY <1>1, <1>2, <1>3, <1>4 DEF PoolInv

(* ListenEnd keeps the invariant of the pool. *)
LEMMA ListenEndKeeps ==
    ASSUME PoolInv, ListenEnd
    PROVE  PoolInv'
<1> USE PoolAssumption
<1>1. TypeOK'
  BY DEF PoolInv, TypeOK, Points, ListenEnd, Goto, poolVars, adminVars,
        Slots, Server, Servents
<1>2. Owned'
  BY DEF PoolInv, TypeOK, Owned, ServerOwned, Servent, ListenEnd, Goto,
        poolVars, adminVars, Slots, Server, Servents
<1>3. ServerOwned'
  BY DEF PoolInv, TypeOK, Owned, ServerOwned, Servent, ListenEnd, Goto,
        poolVars, adminVars, Slots, Server, Servents
<1>4. Counted'
  BY DEF PoolInv, TypeOK, Owned, ServerOwned, Counted, Asking, ForChannel,
        Servent, ListenEnd, Goto, poolVars, adminVars, Slots, Server,
        Servents
<1> QED BY <1>1, <1>2, <1>3, <1>4 DEF PoolInv

(* ThreadEnd keeps the invariant of the pool. *)
LEMMA ThreadEndKeeps ==
    ASSUME PoolInv, NEW s \in Slots, s = Server \/ s \in Servents \ {Server},
           ThreadEnd(s)
    PROVE  PoolInv'
<1> USE PoolAssumption
<1>1. TypeOK'
  <2>1. sv' \in [Slots -> Servent]
    BY KillType DEF PoolInv, TypeOK, ThreadEnd, NoRequest, Goto, poolVars, adminVars,
          Slots, Server, Servents
  <2>2. TypeOK'
    BY <2>1 DEF PoolInv, TypeOK, Points, ThreadEnd, Kill, Reset, NoRequest, Goto,
          poolVars, adminVars, Slots, Server, Servents
  <2> QED BY <2>2
<1>2. Owned'
  BY DEF PoolInv, TypeOK, Owned, ServerOwned, Servent, ThreadEnd, Kill,
        Reset, NoRequest, Goto, poolVars, adminVars, Slots, Server,
        Servents
<1>3. ServerOwned'
  BY DEF PoolInv, TypeOK, Owned, ServerOwned, Servent, ThreadEnd, Kill,
        Reset, NoRequest, Goto, poolVars, adminVars, Slots, Server,
        Servents
<1>4. Counted'
  BY DEF PoolInv, TypeOK, Owned, ServerOwned, Counted, Asking, ForChannel,
        Servent, ThreadEnd, Kill, Reset, NoRequest, Goto, poolVars,
        adminVars, Slots, Server, Servents
<1> QED BY <1>1, <1>2, <1>3, <1>4 DEF PoolInv

(* Accept keeps the invariant of the pool. *)
LEMMA AcceptKeeps ==
    ASSUME PoolInv, NEW p \in Peers, NEW s \in Slots, Accept(p, s)
    PROVE  PoolInv'
<1> USE PoolAssumption
<1>1. TypeOK'
  <2>1. sv' \in [Slots -> Servent]
    <3>1. \A r \in Servent : [Reset(r) EXCEPT !.servPort = TRUE] \in Servent
      <4> SUFFICES ASSUME NEW r \in Servent
                   PROVE  [Reset(r) EXCEPT !.servPort = TRUE] \in Servent
        OBVIOUS
      <4> QED BY ResetType DEF Servent
    <3> QED BY <3>1 DEF Accept, PoolInv, TypeOK
  <2>2. TypeOK'
    BY <2>1 DEF PoolInv, TypeOK, Points, Accept, Reset, AllocServent, NextServent,
          FreeServents, Servents, Goto, poolVars, adminVars, Slots, Server
  <2> QED BY <2>2
<1>2. Owned'
  BY DEF PoolInv, TypeOK, Owned, ServerOwned, Servent, Accept, Reset,
        AllocServent, NextServent, FreeServents, Servents, Goto, poolVars,
        adminVars, Slots, Server
<1>3. ServerOwned'
  BY DEF PoolInv, TypeOK, Owned, ServerOwned, Servent, Accept, Reset,
        AllocServent, NextServent, FreeServents, Servents, Goto, poolVars,
        adminVars, Slots, Server
<1>4. Counted'
  BY DEF PoolInv, TypeOK, Owned, ServerOwned, Counted, Asking, ForChannel,
        Servent, Accept, Reset, AllocServent, NextServent, FreeServents,
        Servents, Goto, poolVars, adminVars, Slots, Server
<1> QED BY <1>1, <1>2, <1>3, <1>4 DEF PoolInv

(* InitIncoming keeps the invariant of the pool. *)
LEMMA InitIncomingKeeps ==
    ASSUME PoolInv, NEW a \in alloc, NEW ok \in BOOLEAN, InitIncoming(a, ok)
    PROVE  PoolInv'
<1> USE PoolAssumption
<1>1. TypeOK'
  <2>1. sv' \in [Slots -> Servent]
    <3>1. a.s \in Slots /\ a.peer \in Peers /\ sv \in [Slots -> Servent]
      BY DEF PoolInv, TypeOK
    <3>2. [sv[a.s] EXCEPT !.type = "INCOMING", !.status = "PROTOCOL",
                          !.peer = a.peer, !.sock = "open", !.active = TRUE]
            \in Servent
      <4>1. "INCOMING" \in Types /\ "PROTOCOL" \in Statuses
        BY DEF Types, Statuses
      <4> QED BY <3>1, <4>1, UpdateType
    <3> QED BY <3>1, <3>2, KillType DEF InitIncoming
  <2>2. TypeOK'
    BY <2>1 DEF PoolInv, TypeOK, Points, InitIncoming, Kill, Reset, IsUnused,
          Goto, poolVars, adminVars, Slots, Server, Servents
  <2> QED BY <2>2
<1>2. Owned'
  BY DEF PoolInv, TypeOK, Owned, ServerOwned, Servent, InitIncoming, Kill,
        Reset, IsUnused, Goto, poolVars, adminVars, Slots, Server,
        Servents
<1>3. ServerOwned'
  BY DEF PoolInv, TypeOK, Owned, ServerOwned, Servent, InitIncoming, Kill,
        Reset, IsUnused, Goto, poolVars, adminVars, Slots, Server,
        Servents
<1>4. Counted'
  BY DEF PoolInv, TypeOK, Owned, ServerOwned, Counted, Asking, ForChannel,
        Servent, InitIncoming, Kill, Reset, IsUnused, Goto, poolVars,
        adminVars, Slots, Server, Servents
<1> QED BY <1>1, <1>2, <1>3, <1>4 DEF PoolInv

(* ReadPush keeps the invariant of the pool. *)
LEMMA ReadPushKeeps ==
    ASSUME PoolInv, NEW p \in Peers, NEW c \in Channels, NEW s \in Slots, NEW
           b \in BOOLEAN, ReadPush(p, c, s, b)
    PROVE  PoolInv'
<1> USE PoolAssumption
<1>1. TypeOK'
  <2>1. sv' \in [Slots -> Servent]
    BY ResetType DEF PoolInv, TypeOK, ReadPush, AllocServent, NextServent,
          FreeServents, Servents, Goto, poolVars, adminVars, Slots, Server
  <2>2. TypeOK'
    BY <2>1 DEF PoolInv, TypeOK, Points, ReadPush, Reset, AllocServent,
          NextServent, FreeServents, Servents, Goto, poolVars, adminVars,
          Slots, Server
  <2> QED BY <2>2
<1>2. Owned'
  BY DEF PoolInv, TypeOK, Owned, ServerOwned, Servent, ReadPush, Reset,
        AllocServent, NextServent, FreeServents, Servents, Goto, poolVars,
        adminVars, Slots, Server
<1>3. ServerOwned'
  BY DEF PoolInv, TypeOK, Owned, ServerOwned, Servent, ReadPush, Reset,
        AllocServent, NextServent, FreeServents, Servents, Goto, poolVars,
        adminVars, Slots, Server
<1>4. Counted'
  BY DEF PoolInv, TypeOK, Owned, ServerOwned, Counted, Asking, ForChannel,
        Servent, ReadPush, Reset, AllocServent, NextServent, FreeServents,
        Servents, Goto, poolVars, adminVars, Slots, Server
<1> QED BY <1>1, <1>2, <1>3, <1>4 DEF PoolInv

(* InitGIV keeps the invariant of the pool. *)
LEMMA InitGIVKeeps ==
    ASSUME PoolInv, NEW a \in alloc, NEW ok \in BOOLEAN, InitGIV(a, ok)
    PROVE  PoolInv'
<1> USE PoolAssumption
<1>1. TypeOK'
  <2>1. sv' \in [Slots -> Servent]
    <3>1. a.s \in Slots /\ a.peer \in Peers /\ sv \in [Slots -> Servent]
      BY DEF PoolInv, TypeOK
    <3>2. [sv[a.s] EXCEPT !.type = "RELAY", !.peer = a.peer,
                          !.sock = "open", !.active = TRUE] \in Servent
      <4>1. "RELAY" \in Types
        BY DEF Types
      <4> QED BY <3>1, <4>1, UpdateType
    <3> QED BY <3>1, <3>2, KillType DEF InitGIV
  <2>2. TypeOK'
    BY <2>1 DEF PoolInv, TypeOK, Points, InitGIV, Kill, Reset, IsUnused, Goto,
          poolVars, adminVars, Slots, Server, Servents
  <2> QED BY <2>2
<1>2. Owned'
  BY DEF PoolInv, TypeOK, Owned, ServerOwned, Servent, InitGIV, Kill,
        Reset, IsUnused, Goto, poolVars, adminVars, Slots, Server,
        Servents
<1>3. ServerOwned'
  BY DEF PoolInv, TypeOK, Owned, ServerOwned, Servent, InitGIV, Kill,
        Reset, IsUnused, Goto, poolVars, adminVars, Slots, Server,
        Servents
<1>4. Counted'
  BY DEF PoolInv, TypeOK, Owned, ServerOwned, Counted, Asking, ForChannel,
        Servent, InitGIV, Kill, Reset, IsUnused, Goto, poolVars,
        adminVars, Slots, Server, Servents
<1> QED BY <1>1, <1>2, <1>3, <1>4 DEF PoolInv

(* HandshakeIncoming keeps the invariant of the pool. *)
LEMMA HandshakeIncomingKeeps ==
    ASSUME PoolInv, NEW s \in Servents \ {Server}, HandshakeIncoming(s)
    PROVE  PoolInv'
<1> USE PoolAssumption
<1>1. TypeOK'
  <2>1. sv' \in [Slots -> Servent]
    <3>1. s \in Slots /\ sv \in [Slots -> Servent]
      BY DEF PoolInv, TypeOK, Slots, Servents, Server
    <3>2. "HANDSHAKE" \in Statuses
      BY <3>1 DEF Types, Statuses, Servent
    <3> QED BY <3>1, <3>2, UpdateType DEF HandshakeIncoming
  <2>2. TypeOK'
    BY <2>1 DEF PoolInv, TypeOK, Points, HandshakeIncoming, Goto, poolVars,
          adminVars, Slots, Server, Servents
  <2> QED BY <2>2
<1>2. Owned'
  BY DEF PoolInv, TypeOK, Owned, ServerOwned, Servent, HandshakeIncoming,
        Goto, poolVars, adminVars, Slots, Server, Servents
<1>3. ServerOwned'
  BY DEF PoolInv, TypeOK, Owned, ServerOwned, Servent, HandshakeIncoming,
        Goto, poolVars, adminVars, Slots, Server, Servents
<1>4. Counted'
  BY DEF PoolInv, TypeOK, Owned, ServerOwned, Counted, Asking, ForChannel,
        Servent, HandshakeIncoming, Goto, poolVars, adminVars, Slots,
        Server, Servents
<1> QED BY <1>1, <1>2, <1>3, <1>4 DEF PoolInv

(* CanStream keeps the invariant of the pool. *)
LEMMA CanStreamKeeps ==
    ASSUME PoolInv, NEW s \in Servents \ {Server}, CanStreamStep(s)
    PROVE  PoolInv'
<1> USE PoolAssumption
<1>1. TypeOK'
  BY DEF PoolInv, TypeOK, Points, CanStream, CanStreamStep, Manageable,
        Goto, poolVars, adminVars, Slots, Server, Servents
<1>2. Owned'
  BY DEF PoolInv, TypeOK, Owned, ServerOwned, Servent, CanStream,
        CanStreamStep, Manageable, Goto, poolVars, adminVars, Slots,
        Server, Servents
<1>3. ServerOwned'
  BY DEF PoolInv, TypeOK, Owned, ServerOwned, Servent, CanStream,
        CanStreamStep, Manageable, Goto, poolVars, adminVars, Slots,
        Server, Servents
<1>4. Counted'
  BY DEF PoolInv, TypeOK, Owned, ServerOwned, Counted, Asking, ForChannel,
        Servent, CanStream, CanStreamStep, Manageable, Goto, poolVars,
        adminVars, Slots, Server, Servents
<1> QED BY <1>1, <1>2, <1>3, <1>4 DEF PoolInv

(* Granted keeps the invariant of the pool. *)
LEMMA GrantedKeeps ==
    ASSUME PoolInv, NEW s \in Servents \ {Server}, Granted(s)
    PROVE  PoolInv'
<1> USE PoolAssumption
<1>1. TypeOK'
  <2>1. sv' \in [Slots -> Servent]
    <3>1. s \in Slots /\ sv \in [Slots -> Servent]
      BY DEF PoolInv, TypeOK, Slots, Servents, Server
    <3>2. "CONNECTED" \in Statuses /\ req[s].chan \in Channels \cup {None}
      BY <3>1, PoolInv DEF Types, Statuses, Servent, PoolInv, TypeOK
    <3> QED BY <3>1, <3>2, UpdateType DEF Granted
  <2>2. TypeOK'
    BY <2>1 DEF PoolInv, TypeOK, Points, Granted, Goto, poolVars, adminVars,
          Slots, Server, Servents
  <2> QED BY <2>2
<1>2. Owned'
  BY DEF PoolInv, TypeOK, Owned, ServerOwned, Servent, Granted, Goto,
        poolVars, adminVars, Slots, Server, Servents
<1>3. ServerOwned'
  <2>1. sv'[Server] = sv[Server] /\ pc'[Server] = pc[Server] /\ alloc' = alloc
    <3>1. s # Server /\ sv \in [Slots -> Servent] /\ Server \in Slots
      BY DEF PoolInv, TypeOK, Server, Slots
    <3> QED BY <3>1 DEF PoolInv, TypeOK, Granted, Goto, poolVars
  <2> QED BY <2>1 DEF PoolInv, ServerOwned
<1>4. Counted'
  BY DEF PoolInv, TypeOK, Owned, ServerOwned, Counted, Asking, ForChannel,
        Servent, Granted, Goto, poolVars, adminVars, Slots, Server,
        Servents
<1> QED BY <1>1, <1>2, <1>3, <1>4 DEF PoolInv

(* AutoManage keeps the invariant of the pool. *)
LEMMA AutoManageKeeps ==
    ASSUME PoolInv, NEW s \in Servents \ {Server}, NEW victims \in SUBSET
           Servents, AutoManage(s, victims)
    PROVE  PoolInv'
<1> USE PoolAssumption
<1>1. TypeOK'
  <2>1. sv' \in [Slots -> Servent]
    BY AbortType DEF PoolInv, TypeOK, AutoManage, Victims, Goto, poolVars, adminVars,
          Slots, Server, Servents
  <2>2. TypeOK'
    BY <2>1 DEF PoolInv, TypeOK, Points, AutoManage, Victims, Abort, Goto,
          poolVars, adminVars, Slots, Server, Servents
  <2> QED BY <2>2
<1>a. /\ s \in Slots /\ s # Server /\ s <= num /\ pc[s] = "denied"
      /\ \A t \in Slots : /\ sv'[t].status = sv[t].status
                            /\ sv'[t].type = sv[t].type
                            /\ sv'[t].chan = sv[t].chan
      /\ sv'[Server].sock = "none" => sv[Server].sock = "none"
      /\ \A t \in Slots : req'[t].chan = req[t].chan
      /\ \A t \in Slots \ {s} : pc'[t] = pc[t]
      /\ pc'[s] \in {"try", "refused"}
      /\ num' = num /\ alloc' = alloc
  <2>1. /\ s \in Slots /\ s # Server /\ s <= num /\ Server \in Slots
        /\ sv \in [Slots -> Servent] /\ pc \in [Slots -> Points]
        /\ req \in [Slots -> [chan : Channels \cup {None}, tried : BOOLEAN]]
    BY DEF PoolInv, TypeOK, Slots, Servents, Server
  <2>2. \A r \in Servent : /\ Abort(r).status = r.status
                           /\ Abort(r).type = r.type
                           /\ Abort(r).chan = r.chan
                           /\ Abort(r).sock = "none" => r.sock = "none"
    BY DEF Servent, Abort
  <2>3. \A t \in Slots : sv'[t] = sv[t] \/ sv'[t] = Abort(sv[t])
    BY <2>1 DEF AutoManage
  <2>4. \A t \in Slots : req'[t].chan = req[t].chan
    BY <2>1 DEF AutoManage
  <2>5. /\ \A t \in Slots \ {s} : pc'[t] = pc[t]
        /\ pc[s] = "denied" /\ pc'[s] \in {"try", "refused"}
        /\ num' = num /\ alloc' = alloc
    BY <2>1 DEF AutoManage, Goto, poolVars
  <2> QED BY <2>1, <2>2, <2>3, <2>4, <2>5
<1>b. Server \in Slots /\ \A a \in alloc : a.s \in Slots
  BY DEF PoolInv, TypeOK, Slots, Server
<1>2. Owned'
  BY <1>a, <1>b DEF PoolInv, TypeOK, Owned
<1>3. ServerOwned'
  BY <1>a, <1>b DEF PoolInv, TypeOK, ServerOwned
<1>4. Counted'
  <2>0. Counted BY DEF PoolInv
  <2>1. pc[s] \in ForChannel /\ pc[s] \in Asking
        /\ pc'[s] \notin {"ready", "stream"}
    BY <1>a DEF ForChannel, Asking
  <2>2. ASSUME NEW t \in Slots
        PROVE  /\ pc'[t] \in Asking => pc[t] \in Asking
               /\ pc'[t] \in ForChannel => pc[t] \in ForChannel
               /\ pc'[t] \in {"ready", "stream"} => pc[t] \in {"ready", "stream"}
    <3>1. CASE t = s BY <2>1, <3>1
    <3>2. CASE t # s BY <1>a, <3>2
    <3> QED BY <3>1, <3>2
  <2>3. \A t \in Slots : /\ sv'[t].status = sv[t].status
                         /\ sv'[t].chan = sv[t].chan
                         /\ req'[t].chan = req[t].chan
    BY <1>a
  <2> QED BY <2>0, <2>2, <2>3 DEF Counted
<1> QED BY <1>1, <1>2, <1>3, <1>4 DEF PoolInv

(* NoHitList keeps the invariant of the pool. *)
LEMMA NoHitListKeeps ==
    ASSUME PoolInv, NEW s \in Servents \ {Server}, NoHitList(s)
    PROVE  PoolInv'
<1> USE PoolAssumption
<1>1. TypeOK'
  BY DEF PoolInv, TypeOK, Points, NoHitList, Goto, poolVars, adminVars,
        Slots, Server, Servents
<1>2. Owned'
  BY DEF PoolInv, TypeOK, Owned, ServerOwned, Servent, NoHitList, Goto,
        poolVars, adminVars, Slots, Server, Servents
<1>3. ServerOwned'
  BY DEF PoolInv, TypeOK, Owned, ServerOwned, Servent, NoHitList, Goto,
        poolVars, adminVars, Slots, Server, Servents
<1>4. Counted'
  BY DEF PoolInv, TypeOK, Owned, ServerOwned, Counted, Asking, ForChannel,
        Servent, NoHitList, Goto, poolVars, adminVars, Slots, Server,
        Servents
<1> QED BY <1>1, <1>2, <1>3, <1>4 DEF PoolInv

(* ReturnStream keeps the invariant of the pool. *)
LEMMA ReturnStreamKeeps ==
    ASSUME PoolInv, NEW s \in Servents \ {Server}, ReturnStream(s)
    PROVE  PoolInv'
<1> USE PoolAssumption
<1>1. TypeOK'
  <2>1. sv' \in [Slots -> Servent]
    <3>1. s \in Slots /\ sv \in [Slots -> Servent]
      BY DEF PoolInv, TypeOK, Slots, Servents, Server
    <3>2. sv[s].peer \in Peers \cup {None} /\ sv[s].remote \in Peers \cup {None}
      BY <3>1 DEF Types, Statuses, Servent
    <3> QED BY <3>1, <3>2, UpdateType DEF ReturnStream
  <2>2. TypeOK'
    BY <2>1 DEF PoolInv, TypeOK, Points, ReturnStream, Goto, poolVars, adminVars,
          Slots, Server, Servents
  <2> QED BY <2>2
<1>2. Owned'
  BY DEF PoolInv, TypeOK, Owned, ServerOwned, Servent, ReturnStream, Goto,
        poolVars, adminVars, Slots, Server, Servents
<1>3. ServerOwned'
  BY DEF PoolInv, TypeOK, Owned, ServerOwned, Servent, ReturnStream, Goto,
        poolVars, adminVars, Slots, Server, Servents
<1>4. Counted'
  BY DEF PoolInv, TypeOK, Owned, ServerOwned, Counted, Asking, ForChannel,
        Servent, ReturnStream, Goto, poolVars, adminVars, Slots, Server,
        Servents
<1> QED BY <1>1, <1>2, <1>3, <1>4 DEF PoolInv

(* ReturnUnavailable keeps the invariant of the pool. *)
LEMMA ReturnUnavailableKeeps ==
    ASSUME PoolInv, NEW s \in Servents \ {Server}, ReturnUnavailable(s)
    PROVE  PoolInv'
<1> USE PoolAssumption
<1>1. TypeOK'
  <2>1. sv' \in [Slots -> Servent]
    <3>1. s \in Slots /\ sv \in [Slots -> Servent]
      BY DEF PoolInv, TypeOK, Slots, Servents, Server
    <3>2. sv[s].peer \in Peers \cup {None} /\ sv[s].remote \in Peers \cup {None}
      BY <3>1 DEF Types, Statuses, Servent
    <3> QED BY <3>1, <3>2, UpdateType DEF ReturnUnavailable
  <2>2. TypeOK'
    BY <2>1 DEF PoolInv, TypeOK, Points, ReturnUnavailable, Goto, poolVars,
          adminVars, Slots, Server, Servents
  <2> QED BY <2>2
<1>2. Owned'
  BY DEF PoolInv, TypeOK, Owned, ServerOwned, Servent, ReturnUnavailable,
        Goto, poolVars, adminVars, Slots, Server, Servents
<1>3. ServerOwned'
  BY DEF PoolInv, TypeOK, Owned, ServerOwned, Servent, ReturnUnavailable,
        Goto, poolVars, adminVars, Slots, Server, Servents
<1>4. Counted'
  BY DEF PoolInv, TypeOK, Owned, ServerOwned, Counted, Asking, ForChannel,
        Servent, ReturnUnavailable, Goto, poolVars, adminVars, Slots,
        Server, Servents
<1> QED BY <1>1, <1>2, <1>3, <1>4 DEF PoolInv

(* AcceptPCP keeps the invariant of the pool. *)
LEMMA AcceptPCPKeeps ==
    ASSUME PoolInv, NEW s \in Servents \ {Server}, AcceptPCP(s)
    PROVE  PoolInv'
<1> USE PoolAssumption
<1>1. TypeOK'
  <2>1. sv' \in [Slots -> Servent]
    <3>1. s \in Slots /\ sv \in [Slots -> Servent]
      BY DEF PoolInv, TypeOK, Slots, Servents, Server
    <3>2. "CIN" \in Types /\ "CONNECTED" \in Statuses
      BY <3>1 DEF Types, Statuses, Servent
    <3> QED BY <3>1, <3>2, UpdateType DEF AcceptPCP
  <2>2. TypeOK'
    BY <2>1 DEF PoolInv, TypeOK, Points, AcceptPCP, Goto, poolVars, adminVars,
          Slots, Server, Servents
  <2> QED BY <2>2
<1>2. Owned'
  BY DEF PoolInv, TypeOK, Owned, ServerOwned, Servent, AcceptPCP, Goto,
        poolVars, adminVars, Slots, Server, Servents
<1>3. ServerOwned'
  <2>1. sv'[Server] = sv[Server] /\ pc'[Server] = pc[Server] /\ alloc' = alloc
    <3>1. s # Server /\ sv \in [Slots -> Servent] /\ Server \in Slots
      BY DEF PoolInv, TypeOK, Server, Slots
    <3> QED BY <3>1 DEF PoolInv, TypeOK, AcceptPCP, Goto, poolVars
  <2> QED BY <2>1 DEF PoolInv, ServerOwned
<1>4. Counted'
  BY DEF PoolInv, TypeOK, Owned, ServerOwned, Counted, Asking, ForChannel,
        Servent, AcceptPCP, Goto, poolVars, adminVars, Slots, Server,
        Servents
<1> QED BY <1>1, <1>2, <1>3, <1>4 DEF PoolInv

(* StreamRequest keeps the invariant of the pool. *)
LEMMA StreamRequestKeeps ==
    ASSUME PoolInv, NEW s \in Servents \ {Server}, NEW c \in Channels, NEW
           kind \in Requests, StreamRequest(s, kind, c)
    PROVE  PoolInv'
<1> USE PoolAssumption
<1>1. TypeOK'
  <2>1. sv' \in [Slots -> Servent]
    <3>1. s \in Slots /\ sv \in [Slots -> Servent]
      BY DEF PoolInv, TypeOK, Slots, Servents, Server
    <3>2. "RELAY" \in Types /\ "DIRECT" \in Types
      BY <3>1 DEF Types, Statuses, Servent
    <3> QED BY <3>1, <3>2, UpdateType DEF StreamRequest
  <2>2. TypeOK'
    BY <2>1 DEF PoolInv, TypeOK, Points, StreamRequest, Goto, poolVars, adminVars,
          Slots, Server, Servents
  <2> QED BY <2>2
<1>2. Owned'
  BY DEF PoolInv, TypeOK, Owned, ServerOwned, Servent, StreamRequest, Goto,
        poolVars, adminVars, Slots, Server, Servents
<1>3. ServerOwned'
  BY DEF PoolInv, TypeOK, Owned, ServerOwned, Servent, StreamRequest, Goto,
        poolVars, adminVars, Slots, Server, Servents
<1>4. Counted'
  BY DEF PoolInv, TypeOK, Owned, ServerOwned, Counted, Asking, ForChannel,
        Servent, StreamRequest, Goto, poolVars, adminVars, Slots, Server,
        Servents
<1> QED BY <1>1, <1>2, <1>3, <1>4 DEF PoolInv

(* OtherRequest keeps the invariant of the pool. *)
LEMMA OtherRequestKeeps ==
    ASSUME PoolInv, NEW s \in Servents \ {Server}, NEW type \in {sv[s].type,
           "COMMAND"}, OtherRequest(s, type)
    PROVE  PoolInv'
<1> USE PoolAssumption
<1>1. TypeOK'
  <2>1. sv' \in [Slots -> Servent]
    <3>1. s \in Slots /\ sv \in [Slots -> Servent]
      BY DEF PoolInv, TypeOK, Slots, Servents, Server
    <3>2. sv[s].type \in Types /\ "COMMAND" \in Types
      BY <3>1 DEF Types, Statuses, Servent
    <3> QED BY <3>1, <3>2, UpdateType DEF OtherRequest
  <2>2. TypeOK'
    BY <2>1 DEF PoolInv, TypeOK, Points, OtherRequest, Goto, poolVars, adminVars,
          Slots, Server, Servents
  <2> QED BY <2>2
<1>2. Owned'
  BY DEF PoolInv, TypeOK, Owned, ServerOwned, Servent, OtherRequest, Goto,
        poolVars, adminVars, Slots, Server, Servents
<1>3. ServerOwned'
  BY DEF PoolInv, TypeOK, Owned, ServerOwned, Servent, OtherRequest, Goto,
        poolVars, adminVars, Slots, Server, Servents
<1>4. Counted'
  BY DEF PoolInv, TypeOK, Owned, ServerOwned, Counted, Asking, ForChannel,
        Servent, OtherRequest, Goto, poolVars, adminVars, Slots, Server,
        Servents
<1> QED BY <1>1, <1>2, <1>3, <1>4 DEF PoolInv

(* IncomingPCP keeps the invariant of the pool. *)
LEMMA IncomingPCPKeeps ==
    ASSUME PoolInv, NEW s \in Servents \ {Server}, NEW offair \in BOOLEAN,
           IncomingPCP(s, offair)
    PROVE  PoolInv'
<1> USE PoolAssumption
<1>1. TypeOK'
  <2>1. sv' \in [Slots -> Servent]
    <3>1. s \in Slots /\ sv \in [Slots -> Servent]
      BY DEF PoolInv, TypeOK, Slots, Servents, Server
    <3>2. sv[s].peer \in Peers \cup {None} /\ sv[s].remote \in Peers \cup {None}
      BY <3>1 DEF Types, Statuses, Servent
    <3> QED BY <3>1, <3>2, UpdateType DEF IncomingPCP
  <2>2. TypeOK'
    BY <2>1 DEF PoolInv, TypeOK, Points, IncomingPCP, Goto, poolVars, adminVars,
          Slots, Server, Servents
  <2> QED BY <2>2
<1>2. Owned'
  BY DEF PoolInv, TypeOK, Owned, ServerOwned, Servent, IncomingPCP, Goto,
        poolVars, adminVars, Slots, Server, Servents
<1>3. ServerOwned'
  BY DEF PoolInv, TypeOK, Owned, ServerOwned, Servent, IncomingPCP, Goto,
        poolVars, adminVars, Slots, Server, Servents
<1>4. Counted'
  BY DEF PoolInv, TypeOK, Owned, ServerOwned, Counted, Asking, ForChannel,
        Servent, IncomingPCP, Goto, poolVars, adminVars, Slots, Server,
        Servents
<1> QED BY <1>1, <1>2, <1>3, <1>4 DEF PoolInv

(* StreamEnd keeps the invariant of the pool. *)
LEMMA StreamEndKeeps ==
    ASSUME PoolInv, NEW s \in Servents \ {Server}, StreamEnd(s)
    PROVE  PoolInv'
<1> USE PoolAssumption
<1>1. TypeOK'
  <2>1. sv' \in [Slots -> Servent]
    <3>1. s \in Slots /\ sv \in [Slots -> Servent]
      BY DEF PoolInv, TypeOK, Slots, Servents, Server
    <3>2. "CLOSING" \in Statuses
      BY <3>1 DEF Types, Statuses, Servent
    <3> QED BY <3>1, <3>2, UpdateType DEF StreamEnd
  <2>2. TypeOK'
    BY <2>1 DEF PoolInv, TypeOK, Points, StreamEnd, Goto, poolVars, adminVars,
          Slots, Server, Servents
  <2> QED BY <2>2
<1>2. Owned'
  BY DEF PoolInv, TypeOK, Owned, ServerOwned, Servent, StreamEnd, Goto,
        poolVars, adminVars, Slots, Server, Servents
<1>3. ServerOwned'
  BY DEF PoolInv, TypeOK, Owned, ServerOwned, Servent, StreamEnd, Goto,
        poolVars, adminVars, Slots, Server, Servents
<1>4. Counted'
  BY DEF PoolInv, TypeOK, Owned, ServerOwned, Counted, Asking, ForChannel,
        Servent, StreamEnd, Goto, poolVars, adminVars, Slots, Server,
        Servents
<1> QED BY <1>1, <1>2, <1>3, <1>4 DEF PoolInv

(* IncomingPCPEnd keeps the invariant of the pool. *)
LEMMA IncomingPCPEndKeeps ==
    ASSUME PoolInv, NEW s \in Servents \ {Server}, IncomingPCPEnd(s)
    PROVE  PoolInv'
<1> USE PoolAssumption
<1>1. TypeOK'
  BY DEF PoolInv, TypeOK, Points, IncomingPCPEnd, Goto, poolVars,
        adminVars, Slots, Server, Servents
<1>2. Owned'
  BY DEF PoolInv, TypeOK, Owned, ServerOwned, Servent, IncomingPCPEnd,
        Goto, poolVars, adminVars, Slots, Server, Servents
<1>3. ServerOwned'
  BY DEF PoolInv, TypeOK, Owned, ServerOwned, Servent, IncomingPCPEnd,
        Goto, poolVars, adminVars, Slots, Server, Servents
<1>4. Counted'
  BY DEF PoolInv, TypeOK, Owned, ServerOwned, Counted, Asking, ForChannel,
        Servent, IncomingPCPEnd, Goto, poolVars, adminVars, Slots, Server,
        Servents
<1> QED BY <1>1, <1>2, <1>3, <1>4 DEF PoolInv

(* ConnectionLost keeps the invariant of the pool. *)
LEMMA ConnectionLostKeeps ==
    ASSUME PoolInv, NEW s \in Servents \ {Server}, ConnectionLost(s)
    PROVE  PoolInv'
<1> USE PoolAssumption
<1>1. TypeOK'
  BY DEF PoolInv, TypeOK, Points, ConnectionLost, Blocking, Goto, poolVars,
        adminVars, Slots, Server, Servents
<1>2. Owned'
  BY DEF PoolInv, TypeOK, Owned, ServerOwned, Servent, ConnectionLost,
        Blocking, Goto, poolVars, adminVars, Slots, Server, Servents
<1>3. ServerOwned'
  BY DEF PoolInv, TypeOK, Owned, ServerOwned, Servent, ConnectionLost,
        Blocking, Goto, poolVars, adminVars, Slots, Server, Servents
<1>4. Counted'
  BY DEF PoolInv, TypeOK, Owned, ServerOwned, Counted, Asking, ForChannel,
        Servent, ConnectionLost, Blocking, Goto, poolVars, adminVars,
        Slots, Server, Servents
<1> QED BY <1>1, <1>2, <1>3, <1>4 DEF PoolInv

(* StopServent keeps the invariant of the pool. *)
LEMMA StopServentKeeps ==
    ASSUME PoolInv, NEW s \in Servents, StopServent(s)
    PROVE  PoolInv'
<1> USE PoolAssumption
<1>1. TypeOK'
  <2>1. sv' \in [Slots -> Servent]
    BY AbortType DEF PoolInv, TypeOK, StopServent, Goto, poolVars, adminVars, Slots,
          Server, Servents
  <2>2. TypeOK'
    BY <2>1 DEF PoolInv, TypeOK, Points, StopServent, Abort, Goto, poolVars,
          adminVars, Slots, Server, Servents
  <2> QED BY <2>2
<1>2. Owned'
  BY DEF PoolInv, TypeOK, Owned, ServerOwned, Servent, StopServent, Abort,
        Goto, poolVars, adminVars, Slots, Server, Servents
<1>3. ServerOwned'
  BY DEF PoolInv, TypeOK, Owned, ServerOwned, Servent, StopServent, Abort,
        Goto, poolVars, adminVars, Slots, Server, Servents
<1>4. Counted'
  BY DEF PoolInv, TypeOK, Owned, ServerOwned, Counted, Asking, ForChannel,
        Servent, StopServent, Abort, Goto, poolVars, adminVars, Slots,
        Server, Servents
<1> QED BY <1>1, <1>2, <1>3, <1>4 DEF PoolInv

(* ChangePort keeps the invariant of the pool. *)
LEMMA ChangePortKeeps ==
    ASSUME PoolInv, ChangePort
    PROVE  PoolInv'
<1> USE PoolAssumption
<1>1. TypeOK'
  BY DEF PoolInv, TypeOK, Points, ChangePort, Goto, poolVars, adminVars,
        Slots, Server, Servents
<1>2. Owned'
  BY DEF PoolInv, TypeOK, Owned, ServerOwned, Servent, ChangePort, Goto,
        poolVars, adminVars, Slots, Server, Servents
<1>3. ServerOwned'
  BY DEF PoolInv, TypeOK, Owned, ServerOwned, Servent, ChangePort, Goto,
        poolVars, adminVars, Slots, Server, Servents
<1>4. Counted'
  BY DEF PoolInv, TypeOK, Owned, ServerOwned, Counted, Asking, ForChannel,
        Servent, ChangePort, Goto, poolVars, adminVars, Slots, Server,
        Servents
<1> QED BY <1>1, <1>2, <1>3, <1>4 DEF PoolInv

(* SetAutoServe keeps the invariant of the pool. *)
LEMMA SetAutoServeKeeps ==
    ASSUME PoolInv, NEW on \in BOOLEAN, SetAutoServe(on)
    PROVE  PoolInv'
<1> USE PoolAssumption
<1>1. TypeOK'
  BY DEF PoolInv, TypeOK, Points, SetAutoServe, Goto, poolVars, adminVars,
        Slots, Server, Servents
<1>2. Owned'
  BY DEF PoolInv, TypeOK, Owned, ServerOwned, Servent, SetAutoServe, Goto,
        poolVars, adminVars, Slots, Server, Servents
<1>3. ServerOwned'
  BY DEF PoolInv, TypeOK, Owned, ServerOwned, Servent, SetAutoServe, Goto,
        poolVars, adminVars, Slots, Server, Servents
<1>4. Counted'
  BY DEF PoolInv, TypeOK, Owned, ServerOwned, Counted, Asking, ForChannel,
        Servent, SetAutoServe, Goto, poolVars, adminVars, Slots, Server,
        Servents
<1> QED BY <1>1, <1>2, <1>3, <1>4 DEF PoolInv

(* The initial states satisfy the invariant of the pool. *)
LEMMA PoolInit == Init => PoolInv
<1> SUFFICES ASSUME Init PROVE PoolInv
  OBVIOUS
<1> USE PoolAssumption
<1>1. TypeOK
  <2>1. sv \in [Slots -> Servent]
    <3>1. "NONE" \in Types /\ "NONE" \in Statuses
      BY DEF Types, Statuses
    <3> QED BY <3>1 DEF Init, Servent
  <2>2. num \in Slots
    BY DEF Init, Slots, Server
  <2>3. pc \in [Slots -> Points]
    BY DEF Init, Points
  <2>4. req \in [Slots -> [chan : Channels \cup {None}, tried : BOOLEAN]]
    BY DEF Init, NoRequest
  <2> QED BY <2>1, <2>2, <2>3, <2>4 DEF Init, TypeOK
<1>2. Owned /\ ServerOwned /\ Counted
  BY DEF Init, Owned, ServerOwned, Counted, Asking, ForChannel, Slots, Server
<1> QED BY <1>1, <1>2 DEF PoolInv

(* The thread of a connection, what its peer does included, keeps it. *)
LEMMA ConnectionKeeps ==
    ASSUME PoolInv, NEW s \in Servents \ {Server},
           CanStreamStep(s) \/ ServentThread(s) \/ Peer(s)
    PROVE  PoolInv'
<1>0. s \in Slots
  BY PoolAssumption DEF PoolInv, TypeOK, Slots, Servents
<1>1. CASE CanStreamStep(s)
  BY <1>1, CanStreamKeeps
<1>2. CASE ServentThread(s)
  <2>1. CASE \E victims \in SUBSET Servents : AutoManage(s, victims)
    BY <2>1, AutoManageKeeps
  <2>2. CASE ThreadEnd(s)
    BY <1>0, <2>2, ThreadEndKeeps
  <2>3. CASE SocketClosed(s)
    BY <2>3, ConnectionLostKeeps DEF SocketClosed
  <2> QED BY <1>2, <2>1, <2>2, <2>3, HandshakeIncomingKeeps, GrantedKeeps,
             NoHitListKeeps, ReturnStreamKeeps, ReturnUnavailableKeeps,
             AcceptPCPKeeps DEF ServentThread
<1>3. CASE Peer(s)
  <2>1. CASE \E c \in Channels, kind \in Requests : StreamRequest(s, kind, c)
    BY <2>1, StreamRequestKeeps
  <2>2. CASE \E type \in {sv[s].type, "COMMAND"} : OtherRequest(s, type)
    BY <2>2, OtherRequestKeeps
  <2>3. CASE \E offair \in BOOLEAN : IncomingPCP(s, offair)
    BY <2>3, IncomingPCPKeeps
  <2> QED BY <1>3, <2>1, <2>2, <2>3, StreamEndKeeps, IncomingPCPEndKeeps,
             ConnectionLostKeeps DEF Peer
<1> QED BY <1>1, <1>2, <1>3

(* Every step keeps the invariant of the pool. *)
LEMMA PoolNext == PoolInv /\ [Next]_vars => PoolInv'
<1> SUFFICES ASSUME PoolInv, [Next]_vars PROVE PoolInv'
  OBVIOUS
<1>1. CASE ServerThread
  <2>1. Server \in Slots
    BY PoolAssumption DEF Server, Slots
  <2> QED BY <1>1, <2>1, ListenKeeps, ListenEndKeeps, ThreadEndKeeps
        DEF ServerThread
<1>2. CASE \E p \in Peers, s \in Slots : Accept(p, s)
  BY <1>2, AcceptKeeps
<1>3. CASE \E a \in alloc, ok \in BOOLEAN : InitIncoming(a, ok) \/ InitGIV(a, ok)
  BY <1>3, InitIncomingKeeps, InitGIVKeeps
<1>4. CASE \E p \in Peers, c \in Channels, s \in Slots, b \in BOOLEAN :
                ReadPush(p, c, s, b)
  BY <1>4, ReadPushKeeps
<1>5. CASE \E s \in Servents \ {Server} :
                CanStreamStep(s) \/ ServentThread(s) \/ Peer(s)
  BY <1>5, ConnectionKeeps
<1>6. CASE UNCHANGED vars
  BY <1>6 DEF vars, poolVars, adminVars, PoolInv, TypeOK, Owned, ServerOwned,
              Counted
<1> QED BY <1>1, <1>2, <1>3, <1>4, <1>5, <1>6, ServerPassKeeps, StopServentKeeps,
           ChangePortKeeps, SetAutoServeKeeps DEF Next

(* The variables of the pool always have their types. *)
THEOREM TypeCorrect == Spec => []TypeOK
<1>1. PoolInv => TypeOK
  BY DEF PoolInv
<1> QED BY <1>1, PoolInit, PoolNext, PTL DEF Spec

(* No servent in use is ever handed out by allocServent, however many      *)
(* servents, connections, push requests and aborts there are.              *)
THEOREM ServentsHaveOneOwner == Spec => []OneOwner
<1>1. PoolInv => OneOwner
  BY DEF PoolInv, TypeOK, Owned, OneOwner
<1> QED BY <1>1, PoolInit, PoolNext, PTL DEF Spec

(* The ASSERTs of processStream hold. *)
THEOREM StreamsAreCounted == Spec => []StreamingIsCounted
<1>1. PoolInv => StreamingIsCounted
  BY PoolAssumption DEF PoolInv, Counted, StreamingIsCounted, ForChannel
<1> QED BY <1>1, PoolInit, PoolNext, PTL DEF Spec

(* A step in which a servent's thread becomes active starts that thread. *)
LEMMA StartsWhenIdle ==
    ASSUME PoolInv, Next, NEW s \in Slots, ~sv[s].active, sv'[s].active
    PROVE  pc[s] = "idle"
<1>1. sv \in [Slots -> Servent] /\ Server \in Slots
  BY PoolAssumption DEF PoolInv, TypeOK, Slots, Server
<1>2. \A r \in Servent : ~Abort(r).active /\ ~Kill(r).active
                        /\ Reset(r).active = r.active
  BY DEF Servent, Abort, Kill, Reset
<1>3. CASE ServerPass
  <2>1. s = Server
    BY <1>1, <1>3 DEF ServerPass, Servent
  <2>2. sv'[Server] # sv[Server] /\ sv'[Server] # Abort(sv[Server])
    BY <1>1, <1>2, <2>1
  <2>3. autoServe /\ IsUnused(IF restart THEN Abort(sv[Server]) ELSE sv[Server])
    <3>1. \A r \in Servent : Abort(r) \in Servent
      BY AbortType
    <3> QED BY <1>1, <1>2, <1>3, <2>1, <3>1 DEF ServerPass
  <2>4. sv[Server].sock = "none"
    BY <1>1, <2>3 DEF IsUnused, Abort, Servent
  <2> QED BY <2>1, <2>4 DEF PoolInv, ServerOwned
<1>4. CASE \E a \in alloc, ok \in BOOLEAN : InitIncoming(a, ok) \/ InitGIV(a, ok)
  <2> PICK a \in alloc, ok \in BOOLEAN : InitIncoming(a, ok) \/ InitGIV(a, ok)
    BY <1>4
  <2>1. s = a.s
    BY <1>1 DEF InitIncoming, InitGIV
  <2> QED BY <2>1 DEF PoolInv, Owned
<1>5. CASE ServerThread
  BY <1>1, <1>2, <1>5 DEF ServerThread, Listen, ListenEnd, ThreadEnd, Servent
<1>6. CASE \E p \in Peers, t \in Slots : Accept(p, t)
  <2> PICK p \in Peers, t \in Slots : Accept(p, t)
    BY <1>6
  <2>1. Reset(sv[t]) \in Servent
    BY <1>1, ResetType
  <2> QED BY <1>1, <1>2, <2>1 DEF Accept, Servent
<1>7. CASE \E p \in Peers, c \in Channels, t \in Slots, b \in BOOLEAN :
                ReadPush(p, c, t, b)
  BY <1>1, <1>2, <1>7 DEF ReadPush
<1>8. CASE \E t \in Servents \ {Server} :
                CanStreamStep(t) \/ ServentThread(t) \/ Peer(t)
  <2> PICK t \in Servents \ {Server} :
                CanStreamStep(t) \/ ServentThread(t) \/ Peer(t)
    BY <1>8
  <2>1. CASE \E victims \in SUBSET Servents : AutoManage(t, victims)
    BY <1>1, <1>2, <2>1 DEF AutoManage
  <2>2. CASE ThreadEnd(t)
    BY <1>1, <1>2, <2>2 DEF ThreadEnd
  <2>3. CASE \/ HandshakeIncoming(t) \/ Granted(t) \/ NoHitList(t)
             \/ ReturnStream(t) \/ ReturnUnavailable(t) \/ AcceptPCP(t)
             \/ ConnectionLost(t) \/ StreamEnd(t) \/ IncomingPCPEnd(t)
             \/ CanStreamStep(t)
    BY <1>1, <2>3 DEF Servent, HandshakeIncoming, Granted, NoHitList,
           ReturnStream, ReturnUnavailable, AcceptPCP, ConnectionLost,
           StreamEnd, IncomingPCPEnd, CanStreamStep, CanStream
  <2>4. CASE \/ \E c \in Channels, kind \in Requests : StreamRequest(t, kind, c)
             \/ \E type \in {sv[t].type, "COMMAND"} : OtherRequest(t, type)
             \/ \E offair \in BOOLEAN : IncomingPCP(t, offair)
    BY <1>1, <2>4 DEF Servent, StreamRequest, OtherRequest, IncomingPCP
  <2> QED BY <2>1, <2>2, <2>3, <2>4 DEF ServentThread, Peer, SocketClosed
<1>9. CASE \E t \in Servents : StopServent(t)
  BY <1>1, <1>2, <1>9 DEF StopServent
<1>10. CASE ChangePort \/ \E on \in BOOLEAN : SetAutoServe(on)
  BY <1>10 DEF ChangePort, SetAutoServe
<1> QED BY <1>3, <1>4, <1>5, <1>6, <1>7, <1>8, <1>9, <1>10 DEF Next

(* No thread is started on a servent whose last thread still runs: two     *)
(* threads never accept on the listening socket, however often the server  *)
(* is restarted or aborted.                                                *)
THEOREM ThreadsDoNotOverlap == Spec => OneThread
<1>1. PoolInv /\ [Next]_vars =>
        [\A s \in Slots : ~sv[s].active /\ sv'[s].active => pc[s] = "idle"]_vars
  BY StartsWhenIdle
<1> QED BY <1>1, PoolInit, PoolNext, PTL DEF Spec, OneThread

-----------------------------------------------------------------------------
(***************************************************************************)
(* The limits.  A step of any action but CanStream and Granted adds nobody *)
(* to the streams that count and leaves the holder of the mutex alone.     *)
(***************************************************************************)
NobodyJoins ==
    \A t \in Slots :
        t <= num' /\ sv'[t].status = "CONNECTED" /\ sv'[t].type \in {"RELAY", "DIRECT"}
            => /\ t <= num
               /\ sv[t].status = "CONNECTED"
               /\ sv'[t].type = sv[t].type
               /\ sv'[t].peer = sv[t].peer
               /\ sv'[t].chan = sv[t].chan

HolderStays ==
    /\ mutex' = mutex
    /\ \A t \in Slots : pc'[t] = "granted" => /\ pc[t] = "granted"
                                             /\ sv'[t].type = sv[t].type
                                             /\ sv'[t].peer = sv[t].peer
                                             /\ req'[t].chan = req[t].chan

(* Streams are finite sets, and when nobody joins they only shrink. *)
LEMMA StreamsFinite ==
    ASSUME PoolInv, NEW T
    PROVE  /\ IsFiniteSet(Streams(T))
           /\ Cardinality(Streams(T)) \in Nat
<1>1. num \in Nat
  BY PoolAssumption DEF PoolInv, TypeOK, Slots
<1>2. IsFiniteSet(1 .. num)
  BY <1>1, FS_Interval
<1>3. Streams(T) \subseteq 1 .. num
  BY DEF Streams, Connected, Servents
<1> QED BY <1>2, <1>3, FS_Subset, FS_CardinalityType

(* A step after which no new servent counts as a stream keeps the limits. *)
LEMMA StreamsShrink ==
    ASSUME PoolInv, PoolInv', NobodyJoins
    PROVE  /\ \A T \in {"RELAY", "DIRECT"} :
                Cardinality(Streams(T)') <= Cardinality(Streams(T))
           /\ \A c : Cardinality(RelaysOf(c)') <= Cardinality(RelaysOf(c))
<1>1. num \in Nat /\ num' \in Nat /\ num <= MaxServents /\ num' <= MaxServents
  BY PoolAssumption DEF PoolInv, TypeOK, Slots
<1>2. \A T \in {"RELAY", "DIRECT"} : Streams(T)' \subseteq Streams(T)
  BY <1>1, PoolAssumption DEF NobodyJoins, Streams, Connected, Servents, IsPrivate, Slots
<1>3. \A c : RelaysOf(c)' \subseteq RelaysOf(c)
  BY <1>1, <1>2, PoolAssumption
     DEF NobodyJoins, RelaysOf, Streams, Connected, Servents, Slots
<1>4. \A c : RelaysOf(c) \subseteq Streams("RELAY")
  BY DEF RelaysOf
<1>5. \A c : IsFiniteSet(RelaysOf(c))
  BY <1>4, StreamsFinite, FS_Subset
<1> QED BY <1>2, <1>3, <1>5, StreamsFinite, FS_Subset

(* The limits survive every step in which nobody joins. *)
LEMMA LimitsFrame ==
    ASSUME LimitInv, PoolInv', NobodyJoins, HolderStays
    PROVE  LimitInv'
<1> USE PoolAssumption
<1>0. PoolInv
  BY DEF LimitInv
<1>1. /\ \A T \in {"RELAY", "DIRECT"} :
            /\ Cardinality(Streams(T)') \in Nat /\ Cardinality(Streams(T)) \in Nat
            /\ Cardinality(Streams(T)') <= Cardinality(Streams(T))
      /\ \A c : /\ Cardinality(RelaysOf(c)') \in Nat
                /\ Cardinality(RelaysOf(c)) \in Nat
                /\ Cardinality(RelaysOf(c)') <= Cardinality(RelaysOf(c))
  <2>1. \A T : Cardinality(Streams(T)) \in Nat /\ IsFiniteSet(Streams(T))
    BY <1>0, StreamsFinite
  <2>2. \A T : Cardinality(Streams(T)') \in Nat /\ IsFiniteSet(Streams(T)')
    <3>1. num' \in Nat /\ \A T : Streams(T)' \subseteq 1 .. num'
      BY DEF PoolInv, TypeOK, Slots, Streams, Connected, Servents
    <3>2. IsFiniteSet(1 .. num')
      BY <3>1, FS_Interval
    <3> QED BY <3>1, <3>2, FS_Subset, FS_CardinalityType
  <2>3. \A c : RelaysOf(c) \subseteq Streams("RELAY")
    BY DEF RelaysOf
  <2>4. \A c : RelaysOf(c)' \subseteq Streams("RELAY")'
    BY DEF RelaysOf
  <2>5. \A c : Cardinality(RelaysOf(c)) \in Nat /\ Cardinality(RelaysOf(c)') \in Nat
    BY <2>1, <2>2, <2>3, <2>4, FS_Subset, FS_CardinalityType
  <2> QED BY <1>0, <2>1, <2>2, <2>5, StreamsShrink
<1>2. LimitsHold'
  BY <1>1 DEF LimitInv, LimitsHold
<1>3. Reserved'
  <2> SUFFICES ASSUME NEW s \in Slots, pc'[s] = "granted"
               PROVE  mutex' = s /\ Room(s)'
    BY DEF Reserved
  <2>1. pc[s] = "granted" /\ mutex = s /\ Room(s)
    BY DEF LimitInv, Reserved, HolderStays
  <2>2. /\ sv'[s].type = sv[s].type /\ sv'[s].peer = sv[s].peer
        /\ req'[s].chan = req[s].chan /\ mutex' = mutex
    BY DEF HolderStays
  <2> QED BY <1>1, <2>1, <2>2 DEF Room, IsPrivate
<1> QED BY <1>2, <1>3 DEF LimitInv

(* What abort, kill, reset and initServer do to the fields that count *)
LEMMA RecordFacts ==
    ASSUME NEW r \in Servent
    PROVE  /\ Abort(r).status = r.status /\ Abort(r).type = r.type
           /\ Abort(r).chan = r.chan /\ Abort(r).peer = r.peer
           /\ Kill(r).status \in {"CLOSING", "FREE"}
           /\ Reset(r).status = "NONE"
           /\ InitServer(r).status = "WAIT"
<1>1. /\ Abort(r).status = r.status /\ Abort(r).type = r.type
      /\ Abort(r).chan = r.chan /\ Abort(r).peer = r.peer
  BY DEF Servent, Abort
<1>2. Reset(r).status = "NONE" /\ InitServer(r).status = "WAIT"
  BY DEF Servent, Reset, InitServer
<1>3. Kill(r).status \in {"CLOSING", "FREE"}
  BY ResetType DEF Servent, Kill
<1> QED BY <1>1, <1>2, <1>3

(* The actions of the server, the pool and the administrator add nobody. *)
LEMMA ServerFrame ==
    ASSUME PoolInv,
           \/ ServerPass \/ ServerThread
           \/ \E p \in Peers, s \in Slots : Accept(p, s)
           \/ \E a \in alloc, ok \in BOOLEAN : InitIncoming(a, ok) \/ InitGIV(a, ok)
           \/ \E p \in Peers, c \in Channels, s \in Slots, b \in BOOLEAN :
                    ReadPush(p, c, s, b)
           \/ \E s \in Servents : StopServent(s)
           \/ ChangePort
           \/ \E on \in BOOLEAN : SetAutoServe(on)
    PROVE  NobodyJoins /\ HolderStays
<1> USE PoolAssumption
<1>1. /\ sv \in [Slots -> Servent] /\ Server \in Slots /\ num \in Slots
      /\ pc \in [Slots -> Points] /\ \A a \in alloc : a.s \in Slots
      /\ pc[Server] # "granted"
      /\ sv[Server].status # "CONNECTED"
  BY DEF PoolInv, TypeOK, ServerOwned, Slots, Server
<1>2. \A r \in Servent :
        /\ Abort(r).status = r.status /\ Abort(r).type = r.type
        /\ Abort(r).chan = r.chan /\ Abort(r).peer = r.peer
        /\ Abort(r) \in Servent
        /\ Kill(r).status \in {"CLOSING", "FREE"} /\ Reset(r).status = "NONE"
        /\ InitServer(r).status = "WAIT"
        /\ Reset(r) \in Servent
  BY AbortType, ResetType, RecordFacts
<1>3. CASE ServerPass
  <2>1. \A t \in Slots \ {Server} :
            sv'[t] = sv[t] \/ sv'[t] = [sv[t] EXCEPT !.active = FALSE]
    BY <1>1, <1>3 DEF ServerPass
  <2>2. \A t \in Slots \ {Server} :
            /\ sv'[t].status = sv[t].status /\ sv'[t].type = sv[t].type
            /\ sv'[t].chan = sv[t].chan /\ sv'[t].peer = sv[t].peer
    <3>1. \A r \in Servent : LET q == [r EXCEPT !.active = FALSE]
                             IN  /\ q.status = r.status /\ q.type = r.type
                                 /\ q.chan = r.chan /\ q.peer = r.peer
      BY DEF Servent
    <3> QED BY <1>1, <2>1, <3>1
  <2>3. sv'[Server].status # "CONNECTED"
    BY <1>1, <1>2, <1>3 DEF ServerPass
  <2>4. pc'[Server] # "granted" /\ \A t \in Slots \ {Server} : pc'[t] = pc[t]
    BY <1>1, <1>3 DEF ServerPass
  <2>5. mutex' = mutex /\ req' = req /\ num' = num
    BY <1>3 DEF ServerPass, poolVars
  <2> QED BY <2>2, <2>3, <2>4, <2>5 DEF NobodyJoins, HolderStays
<1>4. CASE ServerThread
  <2>1. /\ sv'[Server].status # "CONNECTED"
        /\ \A t \in Slots \ {Server} : sv'[t] = sv[t]
    <3>1. CASE Listen
      BY <1>1, <3>1 DEF Listen, Servent
    <3>2. CASE ListenEnd
      BY <1>1, <3>2 DEF ListenEnd
    <3>3. CASE ThreadEnd(Server)
      BY <1>1, <1>2, <3>3 DEF ThreadEnd
    <3> QED BY <1>4, <3>1, <3>2, <3>3 DEF ServerThread
  <2>2. /\ pc'[Server] # "granted" /\ \A t \in Slots \ {Server} : pc'[t] = pc[t]
        /\ mutex' = mutex /\ num' = num
        /\ \A t \in Slots \ {Server} : req'[t] = req[t]
    BY <1>1, <1>4 DEF ServerThread, Listen, ListenEnd, ThreadEnd, Goto,
       poolVars, PoolInv, TypeOK
  <2> QED BY <2>1, <2>2 DEF NobodyJoins, HolderStays
<1>5. CASE \E p \in Peers, s \in Slots : Accept(p, s)
  <2> PICK p \in Peers, s \in Slots : Accept(p, s)
    BY <1>5
  <2>1. sv'[s].status # "CONNECTED" /\ \A t \in Slots \ {s} : sv'[t] = sv[t]
    BY <1>1, <1>2 DEF Accept, Servent
  <2>2. \A t \in Slots \ {s} : t <= num' => t <= num
    BY <1>1 DEF Accept, AllocServent, NextServent, FreeServents, Slots, Servents
  <2>3. /\ mutex' = mutex /\ req' = req
        /\ pc'[Server] # "granted" /\ \A t \in Slots \ {Server} : pc'[t] = pc[t]
    BY <1>1 DEF Accept, Goto
  <2>4. pc[s] # "granted"
    BY DEF PoolInv, TypeOK, Owned, Accept, AllocServent, NextServent,
           FreeServents, Servents, Slots
  <2> QED BY <2>1, <2>2, <2>3, <2>4 DEF NobodyJoins, HolderStays
<1>6. CASE \E a \in alloc, ok \in BOOLEAN : InitIncoming(a, ok) \/ InitGIV(a, ok)
  <2> PICK a \in alloc, ok \in BOOLEAN : InitIncoming(a, ok) \/ InitGIV(a, ok)
    BY <1>6
  <2>1. sv[a.s].status = "NONE" /\ pc[a.s] = "idle"
    BY DEF PoolInv, Owned
  <2>2. sv'[a.s].status # "CONNECTED" /\ \A t \in Slots \ {a.s} : sv'[t] = sv[t]
    <3>1. \/ sv'[a.s] = Kill(sv[a.s])
          \/ sv'[a.s] = [sv[a.s] EXCEPT !.type = "INCOMING",
                            !.status = "PROTOCOL", !.peer = a.peer,
                            !.sock = "open", !.active = TRUE]
          \/ sv'[a.s] = [sv[a.s] EXCEPT !.type = "RELAY", !.peer = a.peer,
                                        !.sock = "open", !.active = TRUE]
      BY <1>1 DEF InitIncoming, InitGIV
    <3>2. sv'[a.s].status # "CONNECTED"
      <4>1. sv[a.s] \in Servent
        BY <1>1
      <4>2. [sv[a.s] EXCEPT !.type = "INCOMING", !.status = "PROTOCOL",
                            !.peer = a.peer, !.sock = "open",
                            !.active = TRUE].status = "PROTOCOL"
        BY <4>1 DEF Servent
      <4>3. [sv[a.s] EXCEPT !.type = "RELAY", !.peer = a.peer,
                            !.sock = "open", !.active = TRUE].status = "NONE"
        BY <2>1, <4>1 DEF Servent
      <4> QED BY <1>2, <3>1, <4>1, <4>2, <4>3
    <3> QED BY <1>1, <3>2 DEF InitIncoming, InitGIV
  <2>3. /\ mutex' = mutex /\ req' = req /\ num' = num
        /\ pc'[a.s] # "granted" /\ pc'[Server] # "granted"
        /\ \A t \in Slots \ {Server, a.s} : pc'[t] = pc[t]
    BY <1>1, <2>1 DEF InitIncoming, InitGIV
  <2> QED BY <2>2, <2>3 DEF NobodyJoins, HolderStays
<1>7. CASE \E p \in Peers, c \in Channels, s \in Slots, b \in BOOLEAN :
                ReadPush(p, c, s, b)
  <2> PICK p \in Peers, c \in Channels, s \in Slots, b \in BOOLEAN :
                ReadPush(p, c, s, b)
    BY <1>7
  <2>1. sv'[s].status # "CONNECTED" /\ \A t \in Slots \ {s} : sv'[t] = sv[t]
    BY <1>1, <1>2 DEF ReadPush
  <2>2. \A t \in Slots \ {s} : t <= num' => t <= num
    BY <1>1 DEF ReadPush, AllocServent, NextServent, FreeServents, Slots, Servents
  <2>3. mutex' = mutex /\ req' = req /\ pc' = pc
    BY DEF ReadPush
  <2>4. pc[s] # "granted"
    BY DEF PoolInv, TypeOK, Owned, ReadPush, AllocServent, NextServent,
           FreeServents, Servents, Slots
  <2> QED BY <2>1, <2>2, <2>3, <2>4 DEF NobodyJoins, HolderStays
<1>8. CASE \E s \in Servents : StopServent(s)
  BY <1>1, <1>2, <1>8 DEF StopServent, NobodyJoins, HolderStays, poolVars
<1>9. CASE ChangePort \/ \E on \in BOOLEAN : SetAutoServe(on)
  BY <1>9 DEF ChangePort, SetAutoServe, NobodyJoins, HolderStays, poolVars
<1> QED BY <1>3, <1>4, <1>5, <1>6, <1>7, <1>8, <1>9

(* Nor does the thread of a connection, but for CanStream and Granted. *)
LEMMA ConnectionFrame ==
    ASSUME PoolInv, NEW s \in Servents \ {Server},
           ServentThread(s) \/ Peer(s), ~Granted(s)
    PROVE  NobodyJoins /\ HolderStays
<1> USE PoolAssumption
<1>1. /\ sv \in [Slots -> Servent] /\ s \in Slots
      /\ pc \in [Slots -> Points]
      /\ req \in [Slots -> [chan : Channels \cup {None}, tried : BOOLEAN]]
  BY DEF PoolInv, TypeOK, Slots, Servents
<1>2. pc[s] \in Asking => sv[s].status # "CONNECTED"
  BY <1>1 DEF PoolInv, Counted
<1>3. \A r \in Servent :
        /\ Abort(r).status = r.status /\ Abort(r).type = r.type
        /\ Abort(r).chan = r.chan /\ Abort(r).peer = r.peer
        /\ Kill(r).status \in {"CLOSING", "FREE"}
  BY RecordFacts
<1>4. CASE \E victims \in SUBSET Servents : AutoManage(s, victims)
  BY <1>1, <1>3, <1>4 DEF AutoManage, NobodyJoins, HolderStays, Goto, poolVars
<1>5. CASE ThreadEnd(s)
  BY <1>1, <1>3, <1>5 DEF ThreadEnd, NobodyJoins, HolderStays, Goto, poolVars
<1>6. CASE HandshakeIncoming(s)
  BY <1>1, <1>6 DEF HandshakeIncoming, Servent, NobodyJoins, HolderStays, Goto,
     poolVars
<1>7. CASE NoHitList(s) \/ ConnectionLost(s) \/ IncomingPCPEnd(s)
  BY <1>1, <1>7 DEF NoHitList, ConnectionLost, IncomingPCPEnd, NobodyJoins,
     HolderStays, Goto, poolVars
<1>8. CASE ReturnStream(s) \/ ReturnUnavailable(s) \/ StreamEnd(s)
  <2>1. /\ sv'[s].status \in {sv[s].status, "CLOSING"}
        /\ sv'[s].type = sv[s].type
        /\ sv'[s].chan = sv[s].chan /\ sv'[s].peer = sv[s].peer
        /\ \A t \in Slots \ {s} : sv'[t] = sv[t]
    BY <1>1, <1>8 DEF ReturnStream, ReturnUnavailable, StreamEnd, Servent
  <2>2. /\ pc'[s] # "granted" /\ \A t \in Slots \ {s} : pc'[t] = pc[t]
        /\ req' = req /\ mutex' = mutex /\ num' = num
    BY <1>1, <1>8 DEF ReturnStream, ReturnUnavailable, StreamEnd, Goto, poolVars
  <2> QED BY <2>1, <2>2 DEF NobodyJoins, HolderStays
<1>9. CASE AcceptPCP(s)
  <2>1. sv'[s].type = "CIN" /\ \A t \in Slots \ {s} : sv'[t] = sv[t]
    BY <1>1, <1>9 DEF AcceptPCP, Servent
  <2>2. /\ pc'[s] # "granted" /\ \A t \in Slots \ {s} : pc'[t] = pc[t]
        /\ req' = req /\ mutex' = mutex /\ num' = num
    BY <1>1, <1>9 DEF AcceptPCP, Goto, poolVars
  <2> QED BY <2>1, <2>2 DEF NobodyJoins, HolderStays
<1>10. CASE \/ \E c \in Channels, kind \in Requests : StreamRequest(s, kind, c)
            \/ \E type \in {sv[s].type, "COMMAND"} : OtherRequest(s, type)
            \/ \E offair \in BOOLEAN : IncomingPCP(s, offair)
  <2>1. sv'[s].status = sv[s].status /\ \A t \in Slots \ {s} : sv'[t] = sv[t]
    BY <1>1, <1>10 DEF StreamRequest, OtherRequest, IncomingPCP, Servent
  <2>2. sv[s].status # "CONNECTED"
    BY <1>2, <1>10 DEF StreamRequest, OtherRequest, IncomingPCP, Goto, Asking
  <2>3. /\ pc'[s] # "granted" /\ \A t \in Slots \ {s} : pc'[t] = pc[t]
        /\ \A t \in Slots \ {s} : req'[t] = req[t]
        /\ mutex' = mutex /\ num' = num
    BY <1>1, <1>10 DEF StreamRequest, OtherRequest, IncomingPCP, Goto, poolVars
  <2> QED BY <2>1, <2>2, <2>3 DEF NobodyJoins, HolderStays
<1> QED BY <1>4, <1>5, <1>6, <1>7, <1>8, <1>9, <1>10
        DEF ServentThread, Peer, SocketClosed

(* A yes of canStream means there is room, and no other request has one. *)
LEMMA CanStreamLimits ==
    ASSUME LimitInv, PoolInv', NEW s \in Servents \ {Server}, CanStreamStep(s)
    PROVE  LimitInv'
<1> USE PoolAssumption
<1>1. /\ sv \in [Slots -> Servent] /\ s \in Slots /\ pc \in [Slots -> Points]
  BY DEF LimitInv, PoolInv, TypeOK, Slots, Servents
<1> PICK found, busy, playing \in BOOLEAN : CanStream(s, found, busy, playing)
  BY DEF CanStreamStep
<1>2. sv' = sv /\ num' = num /\ req' = req /\ mutex = None
  BY DEF CanStream, poolVars
<1>3. (\A T : Streams(T)' = Streams(T)) /\ (\A c : RelaysOf(c)' = RelaysOf(c))
  BY <1>2 DEF Streams, RelaysOf, Connected, Servents, IsPrivate
<1>4. LimitsHold'
  BY <1>3 DEF LimitInv, LimitsHold
<1>5. Reserved'
  <2> SUFFICES ASSUME NEW t \in Slots, pc'[t] = "granted"
               PROVE  mutex' = t /\ Room(t)'
    BY DEF Reserved
  <2>1. \A u \in Slots : pc[u] # "granted"
    BY <1>2 DEF LimitInv, Reserved, Slots
  <2>2. t = s
    BY <1>1, <2>1 DEF CanStream, Goto
  <2>3. Reason(s, found, busy, playing) = "None"
    BY <1>1, <2>2 DEF CanStream, Goto
  <2>4. mutex' = t
    BY <2>2, <2>3 DEF CanStream
  <2>5. ~IsPrivate(sv[s]) =>
            /\ sv[s].type = "RELAY" => ~RelaysFull /\ ~IsFull(req[s].chan)
            /\ sv[s].type = "DIRECT" => ~DirectFull
    BY <2>3 DEF Reason
  <2>6. /\ \A T : Cardinality(Streams(T)) \in Nat
        /\ \A c : Cardinality(RelaysOf(c)) \in Nat
    <3>1. PoolInv
      BY DEF LimitInv
    <3>2. \A T : IsFiniteSet(Streams(T)) /\ Cardinality(Streams(T)) \in Nat
      BY <3>1, StreamsFinite
    <3>3. \A c : RelaysOf(c) \subseteq Streams("RELAY")
      BY DEF RelaysOf
    <3> QED BY <3>2, <3>3, FS_Subset, FS_CardinalityType
  <2>7. Room(s)
    BY <2>5, <2>6 DEF Room, RelaysFull, DirectFull, IsFull
  <2> QED BY <1>2, <1>3, <2>2, <2>4, <2>7 DEF Room, IsPrivate
<1> QED BY <1>4, <1>5 DEF LimitInv

(* The one that was told yes is the only one to join, and has room. *)
LEMMA GrantedLimits ==
    ASSUME LimitInv, PoolInv', NEW s \in Servents \ {Server}, Granted(s)
    PROVE  LimitInv'
<1> USE PoolAssumption
<1>1. /\ sv \in [Slots -> Servent] /\ s \in Slots /\ pc \in [Slots -> Points]
      /\ pc[s] = "granted" /\ PoolInv
  BY DEF LimitInv, PoolInv, TypeOK, Slots, Servents, Granted, Goto
<1>2. Room(s) /\ \A t \in Slots \ {s} : pc[t] # "granted"
  BY <1>1 DEF LimitInv, Reserved
<1>3. Reserved'
  BY <1>1, <1>2 DEF Reserved, Granted, Goto
<1>4. /\ num' = num /\ \A t \in Slots \ {s} : sv'[t] = sv[t]
      /\ sv'[s].type = sv[s].type /\ sv'[s].peer = sv[s].peer
      /\ sv'[s].chan = req[s].chan
  <2>1. num' = num /\ \A t \in Slots \ {s} : sv'[t] = sv[t]
    BY <1>1 DEF Granted, poolVars
  <2>2. sv'[s] = [sv[s] EXCEPT !.chan = req[s].chan, !.status = "CONNECTED"]
    BY <1>1 DEF Granted
  <2> QED BY <1>1, <2>1, <2>2 DEF Servent
<1>5. num \in Nat /\ num <= MaxServents
  BY <1>1 DEF PoolInv, TypeOK, Slots
<1>6. /\ \A T : IsFiniteSet(Streams(T)) /\ Cardinality(Streams(T)) \in Nat
      /\ \A c : IsFiniteSet(RelaysOf(c)) /\ Cardinality(RelaysOf(c)) \in Nat
  <2>1. \A T : IsFiniteSet(Streams(T)) /\ Cardinality(Streams(T)) \in Nat
    BY <1>1, StreamsFinite
  <2>2. \A c : RelaysOf(c) \subseteq Streams("RELAY")
    BY DEF RelaysOf
  <2> QED BY <2>1, <2>2, FS_Subset, FS_CardinalityType
<1>7. \A S, T : IsFiniteSet(S) /\ T \subseteq S \cup {s} =>
                Cardinality(T) <= Cardinality(S) + 1
  <2> SUFFICES ASSUME NEW S, NEW T, IsFiniteSet(S), T \subseteq S \cup {s}
               PROVE  Cardinality(T) <= Cardinality(S) + 1
    OBVIOUS
  <2>1. IsFiniteSet(S \cup {s}) /\ Cardinality(S) \in Nat
        /\ Cardinality(S \cup {s}) \in {Cardinality(S), Cardinality(S) + 1}
    BY FS_AddElement, FS_CardinalityType
  <2>2. IsFiniteSet(T) /\ Cardinality(T) <= Cardinality(S \cup {s})
    BY <2>1, FS_Subset
  <2>3. Cardinality(T) \in Nat
    BY <2>2, FS_CardinalityType
  <2> QED BY <2>1, <2>2, <2>3
<1>8. \A T \in {"RELAY", "DIRECT"} :
        /\ Streams(T)' \subseteq Streams(T) \cup {s}
        /\ IsPrivate(sv[s]) \/ sv[s].type # T => Streams(T)' \subseteq Streams(T)
  <2>1. Servents' = Servents /\ Servents \subseteq Slots
    BY <1>4, <1>5 DEF Servents, Slots
  <2>2. ASSUME NEW T, NEW t \in Streams(T)', t # s PROVE t \in Streams(T)
    BY <1>4, <2>1, <2>2 DEF Streams, Connected, IsPrivate
  <2>3. ASSUME NEW T, s \in Streams(T)' PROVE ~IsPrivate(sv[s]) /\ sv[s].type = T
    BY <1>4, <2>3 DEF Streams, Connected, IsPrivate
  <2> QED BY <2>2, <2>3
<1>9. \A c : /\ RelaysOf(c)' \subseteq RelaysOf(c) \cup {s}
             /\ IsPrivate(sv[s]) \/ sv[s].type # "RELAY" \/ req[s].chan # c
                    => RelaysOf(c)' \subseteq RelaysOf(c)
  <2>1. \A c : \A t \in RelaysOf(c)' : t \in Streams("RELAY")' /\ sv'[t].chan = c
    BY DEF RelaysOf
  <2>2. Servents' \subseteq Slots
    BY <1>4, <1>5 DEF Servents, Slots
  <2>3. Streams("RELAY")' \subseteq Slots
    BY <2>2 DEF Streams, Connected
  <2>4. \A c : \A t \in RelaysOf(c)' : t # s => t \in RelaysOf(c)
    BY <1>4, <1>8, <2>1, <2>3 DEF RelaysOf
  <2>5. \A c : s \in RelaysOf(c)' =>
            /\ ~IsPrivate(sv[s]) /\ sv[s].type = "RELAY" /\ req[s].chan = c
    <3>1. s \in Streams("RELAY")' => ~IsPrivate(sv[s]) /\ sv[s].type = "RELAY"
      BY <1>4 DEF Streams, Connected, IsPrivate
    <3> QED BY <1>4, <2>1, <3>1
  <2> QED BY <2>4, <2>5
<1>10. \A T \in {"RELAY", "DIRECT"} :
        /\ Cardinality(Streams(T)') <= Cardinality(Streams(T)) + 1
        /\ IsPrivate(sv[s]) \/ sv[s].type # T =>
                Cardinality(Streams(T)') <= Cardinality(Streams(T))
  BY <1>6, <1>7, <1>8, FS_Subset
<1>11. \A c : /\ Cardinality(RelaysOf(c)') <= Cardinality(RelaysOf(c)) + 1
              /\ IsPrivate(sv[s]) \/ sv[s].type # "RELAY" \/ req[s].chan # c
                    => Cardinality(RelaysOf(c)') <= Cardinality(RelaysOf(c))
  BY <1>6, <1>7, <1>9, FS_Subset
<1>12. LimitsHold'
  <2>1. /\ Cardinality(Streams("RELAY")') \in Nat
        /\ Cardinality(Streams("DIRECT")') \in Nat
        /\ \A c : Cardinality(RelaysOf(c)') \in Nat
    <3>1. \A S, T : IsFiniteSet(S) /\ T \subseteq S \cup {s} =>
                        Cardinality(T) \in Nat
      BY FS_AddElement, FS_Subset, FS_CardinalityType
    <3> QED BY <1>6, <1>8, <1>9, <3>1
  <2>2. {MaxRelays, MaxDirect, MaxRelaysPerChannel} \subseteq Nat
    OBVIOUS
  <2>3. Cardinality(Streams("RELAY")') <= MaxRelays
    BY <1>2, <1>6, <1>10, <2>1, <2>2 DEF LimitInv, LimitsHold, Room
  <2>4. Cardinality(Streams("DIRECT")') <= MaxDirect
    BY <1>2, <1>6, <1>10, <2>1, <2>2 DEF LimitInv, LimitsHold, Room
  <2>5. MaxRelaysPerChannel # 0 =>
            \A c \in Channels : Cardinality(RelaysOf(c)') <= MaxRelaysPerChannel
    BY <1>2, <1>6, <1>11, <2>1, <2>2 DEF LimitInv, LimitsHold, Room
  <2> QED BY <2>3, <2>4, <2>5 DEF LimitsHold
<1> QED BY <1>3, <1>12 DEF LimitInv

(* The limits hold at first, and every step keeps them. *)
LEMMA LimitInit == Init => LimitInv
<1> SUFFICES ASSUME Init PROVE LimitInv
  OBVIOUS
<1>1. Reserved
  BY DEF Init, Reserved
<1>2. (\A T : Streams(T) = {}) /\ (\A c : RelaysOf(c) = {})
  BY PoolAssumption DEF Init, Streams, RelaysOf, Connected, Servents, Server, Slots
<1>3. LimitsHold
  BY <1>2, FS_EmptySet, PoolAssumption DEF LimitsHold
<1> QED BY <1>1, <1>3, PoolInit DEF LimitInv

(* Every step keeps the limits: only Granted adds a stream. *)
LEMMA LimitNext == LimitInv /\ [Next]_vars => LimitInv'
<1> SUFFICES ASSUME LimitInv, [Next]_vars PROVE LimitInv'
  OBVIOUS
<1>1. PoolInv /\ PoolInv'
  BY PoolNext DEF LimitInv
<1>2. CASE UNCHANGED vars
  <2>1. NobodyJoins /\ HolderStays
    BY <1>2 DEF vars, poolVars, NobodyJoins, HolderStays
  <2> QED BY <1>1, <2>1, LimitsFrame
<1>3. CASE \E s \in Servents \ {Server} :
                CanStreamStep(s) \/ ServentThread(s) \/ Peer(s)
  <2> PICK s \in Servents \ {Server} :
                CanStreamStep(s) \/ ServentThread(s) \/ Peer(s)
    BY <1>3
  <2>1. CASE CanStreamStep(s)
    BY <1>1, <2>1, CanStreamLimits
  <2>2. CASE Granted(s)
    BY <1>1, <2>2, GrantedLimits
  <2>3. CASE ~Granted(s) /\ (ServentThread(s) \/ Peer(s))
    BY <1>1, <2>3, ConnectionFrame, LimitsFrame
  <2> QED BY <2>1, <2>2, <2>3
<1>4. CASE \/ ServerPass \/ ServerThread
           \/ \E p \in Peers, s \in Slots : Accept(p, s)
           \/ \E a \in alloc, ok \in BOOLEAN : InitIncoming(a, ok) \/ InitGIV(a, ok)
           \/ \E p \in Peers, c \in Channels, s \in Slots, b \in BOOLEAN :
                    ReadPush(p, c, s, b)
           \/ \E s \in Servents : StopServent(s)
           \/ ChangePort
           \/ \E on \in BOOLEAN : SetAutoServe(on)
  <2>1. NobodyJoins /\ HolderStays
    BY <1>1, <1>4, ServerFrame
  <2> QED BY <1>1, <2>1, LimitsFrame
<1> QED BY <1>2, <1>3, <1>4 DEF Next

(* The limits on relays, direct connections and relays per channel hold    *)
(* for any number of requests decided at the same time.                    *)
THEOREM LimitsAreKept == Spec => []LimitsHold
<1>1. LimitInv => LimitsHold
  BY DEF LimitInv
<1> QED BY <1>1, LimitInit, LimitNext, PTL DEF Spec
=============================================================================
