------------------------- MODULE RelayNetworkProofs -------------------------
(***************************************************************************)
(* Proofs about the broadcast network, for any finite number of relays,    *)
(* any packets, connections and times to live: types; a cycle of sources   *)
(* is found only where somebody was not told; no broadcast of the          *)
(* channel's information and no push request is lost.                      *)
(***************************************************************************)
EXTENDS RelayNetwork, FiniteSetTheorems, WellFoundedInduction, TLAPS

(* A broadcast packet is made of a kind, a host, hops, a goal and a        *)
(* version.                                                                *)
LEMMA PacketType ==
    ASSUME NEW kinds, NEW hosts, NEW kind \in kinds, NEW from \in hosts,
           NEW ttl \in Nat, NEW dest \in Relays \cup {None},
           NEW ver \in 0 .. MaxSent
    PROVE  Broadcast(kind, from, ttl, dest, ver) \in Packet(kinds, hosts)
BY DEF Broadcast, Packet

(* A packet that goes on is one of the same sort. *)
LEMMA ForwardedType ==
    ASSUME NEW kinds, NEW hosts, NEW p \in Packet(kinds, hosts), NEW n,
           GoesOn(n, p)
    PROVE  Forwarded(p) \in Packet(kinds, hosts)
BY DEF Forwarded, GoesOn, Packet

(* PCP_QUIT is a packet that travels down.                                 *)
LEMMA QuitType == \A n \in Nodes : Quit(n) \in DownPacket
<1> SUFFICES ASSUME NEW n \in Nodes PROVE Quit(n) \in DownPacket
  OBVIOUS
<1>1. 0 \in Nat /\ 0 \in 0 .. MaxSent
  BY NetworkAssumption
<1> QED BY <1>1, PacketType DEF Quit, DownPacket

(* One queue loses its first packet, or all of them. *)
LEMMA QueueRead ==
    ASSUME NEW S, NEW q \in [Relays -> Seq(S)], NEW r \in Relays, q[r] # <<>>
    PROVE  /\ Head(q[r]) \in S
           /\ [q EXCEPT ![r] = Tail(@)] \in [Relays -> Seq(S)]
<1>1. q[r] \in Seq(S)
  OBVIOUS
<1>2. Head(q[r]) \in S /\ Tail(q[r]) \in Seq(S)
  BY <1>1
<1> QED BY <1>2

(* One queue is replaced.                                                  *)
LEMMA QueueSet ==
    ASSUME NEW S, NEW q \in [Relays -> Seq(S)], NEW r \in Relays,
           NEW x \in Seq(S)
    PROVE  [q EXCEPT ![r] = x] \in [Relays -> Seq(S)]
OBVIOUS

(* One packet more is still a queue of packets.                            *)
LEMMA QueueAppend ==
    ASSUME NEW S, NEW q \in [Relays -> Seq(S)], NEW r \in Relays,
           NEW p \in S
    PROVE  Append(q[r], p) \in Seq(S)
OBVIOUS

(* Sending keeps the queues what they are. *)
LEMMA SentUpType ==
    ASSUME NEW S, NEW q \in [Relays -> Seq(S)], NEW p \in S, NEW n, NEW from
    PROVE  SentUp(q, n, p, from) \in [Relays -> Seq(S)]
BY QueueAppend DEF SentUp

(* Sending to the relays below keeps the queues what they are.             *)
LEMMA SentDownType ==
    ASSUME NEW S, NEW q \in [Relays -> Seq(S)], NEW p \in S, NEW n, NEW from
    PROVE  SentDown(q, n, p, from) \in [Relays -> Seq(S)]
BY QueueAppend DEF SentDown

(* What comes from the source does not go back to it. *)
LEMMA NotBackUp ==
    ASSUME NEW q \in [Relays -> Seq(UpPacket)], NEW r \in Relays, NEW p
    PROVE  SentUp(q, r, p, src[r]) = q
BY DEF SentUp

(* The steps in which r loses its source.                                  *)
Loses(r) == Cut(r) \/ GiveUpWaiting(r) \/ AutoBump(r) \/ ReadQuit(r)

(* No relay is connected at the start.                                     *)
LEMMA TypeInit == Init => TypeOK
<1> SUFFICES ASSUME Init PROVE TypeOK
  OBVIOUS
<1> USE NetworkAssumption DEF Init
<1>0. 0 \in 0 .. MaxSent /\ 0 \in 0 .. MaxConns
  OBVIOUS
<1>1. ConnectionsOK
  BY DEF ConnectionsOK
<1>2. QueuesOK
  BY DEF QueuesOK
<1>3. NewsOK
  <2>1. info \in [Nodes -> 0 .. MaxSent] /\ told \in 0 .. MaxSent
    BY <1>0
  <2> QED BY <2>1 DEF NewsOK
<1>4. BoundsOK
  BY DEF BoundsOK, Nodes
<1> QED BY <1>1, <1>2, <1>3, <1>4 DEF TypeOK

(* Connections *)
LEMMA ConnectionType ==
    ASSUME TypeOK, NEW r \in Relays,
           \/ \E n \in Nodes : Connect(r, n)
           \/ HeaderThere(r) \/ OpenStream(r) \/ SendChan(r)
    PROVE  TypeOK'
<1> USE DEF TypeOK
<1>1. CASE \E n \in Nodes : Connect(r, n)
  <2> PICK n \in Nodes : Connect(r, n)
    BY <1>1
  <2>1. ConnectionsOK'
    BY NetworkAssumption DEF Connect, ConnectionsOK
  <2>2. QueuesOK' /\ NewsOK'
    BY DEF Connect, QueuesOK, NewsOK
  <2>3. BoundsOK'
    BY NetworkAssumption DEF Connect, BoundsOK
  <2> QED BY <2>1, <2>2, <2>3
<1>2. CASE HeaderThere(r) \/ OpenStream(r)
  BY <1>2 DEF HeaderThere, OpenStream, ConnectionsOK, QueuesOK, NewsOK, BoundsOK
<1>3. CASE SendChan(r)
  <2>1. src[r] \in Nodes
    BY <1>3 DEF SendChan, ConnectionsOK
  <2>2. Chan(src[r]) \in DownPacket
    BY <2>1, PacketType DEF Chan, DownPacket, NewsOK
  <2>3. <<Chan(src[r])>> \o dn[r] \in Seq(DownPacket)
    BY <2>2 DEF QueuesOK
  <2>4. QueuesOK'
    BY <1>3, <2>3, QueueSet DEF SendChan, QueuesOK
  <2> QED BY <1>3, <2>4 DEF SendChan, ConnectionsOK, NewsOK, BoundsOK
<1> QED BY <1>1, <1>2, <1>3

(* A relay that loses its source empties that connection and tells those   *)
(* below.                                                                  *)
LEMMA LoseSourceType ==
    ASSUME TypeOK, NEW r \in Relays, LoseSource(r), UNCHANGED left
    PROVE  TypeOK'
<1> USE DEF TypeOK
<1>1. ConnectionsOK'
  BY DEF LoseSource, ConnectionsOK
<1>2. <<>> \in Seq(UpPacket) /\ <<>> \in Seq(DownPacket)
  OBVIOUS
<1>3. Quit(r) \in DownPacket
  BY QuitType DEF Nodes
<1>4. up' \in [Relays -> Seq(UpPacket)]
  BY <1>2, QueueSet DEF LoseSource, QueuesOK
<1>5. dn' \in [Relays -> Seq(DownPacket)]
  <2>1. [dn EXCEPT ![r] = <<>>] \in [Relays -> Seq(DownPacket)]
    BY <1>2, QueueSet DEF QueuesOK
  <2> QED BY <1>3, <2>1, SentDownType DEF LoseSource
<1>6. QueuesOK'
  BY <1>4, <1>5 DEF LoseSource, QueuesOK
<1>7. NewsOK' /\ BoundsOK'
  BY DEF LoseSource, NewsOK, BoundsOK
<1> QED BY <1>1, <1>6, <1>7

(* Broadcasts begin *)
LEMMA BeginType ==
    ASSUME TypeOK,
           \/ \E r \in Relays : UpdateStatus(r) \/ PushRequest(r) \/ ReadHead(r)
           \/ UpdateInfo \/ TimePasses
    PROVE  TypeOK'
<1> USE DEF TypeOK
<1>1. Tracker \in Nodes /\ Relays \subseteq Nodes /\ 0 \in 0 .. MaxSent
  BY NetworkAssumption DEF Nodes
<1>2. ConnectionsOK'
  BY DEF UpdateStatus, PushRequest, ReadHead, UpdateInfo, TimePasses, ConnectionsOK
<1>3. CASE \E r \in Relays : UpdateStatus(r)
  <2> PICK r \in Relays : UpdateStatus(r)
    BY <1>3
  <2>1. Broadcast("host", r, HostTTL, None, 0) \in UpPacket
    BY <1>1, PacketType, NetworkAssumption DEF UpPacket
  <2>2. QueuesOK'
    BY <2>1, SentUpType DEF UpdateStatus, QueuesOK
  <2>3. NewsOK'
    BY DEF UpdateStatus, NewsOK
  <2>4. BoundsOK'
    BY <1>1, NetworkAssumption DEF UpdateStatus, NewsOK, BoundsOK
  <2> QED BY <1>2, <2>2, <2>3, <2>4
<1>4. CASE \E r \in Relays : PushRequest(r)
  <2> PICK r \in Relays : PushRequest(r)
    BY <1>4
  <2>1. Broadcast("push", Tracker, PushTTL, r, 0) \in DownPacket
    BY <1>1, PacketType, NetworkAssumption DEF DownPacket
  <2>2. QueuesOK'
    BY <2>1, SentDownType DEF PushRequest, QueuesOK
  <2>3. NewsOK'
    BY DEF PushRequest, NewsOK
  <2>4. BoundsOK'
    BY <1>1, NetworkAssumption DEF PushRequest, NewsOK, BoundsOK
  <2> QED BY <1>2, <2>2, <2>3, <2>4
<1>5. CASE UpdateInfo
  <2> DEFINE v == info[Tracker] + 1
             p == Broadcast("info", Tracker, InfoTTL, None, v)
  <2>1. v \in 0 .. MaxSent
    BY <1>1, <1>5, NetworkAssumption DEF UpdateInfo, NewsOK, BoundsOK
  <2>2. p \in DownPacket
    BY <1>1, <2>1, PacketType, NetworkAssumption DEF DownPacket
  <2>3. SentDown(dn, Tracker, p, Tracker) \in [Relays -> Seq(DownPacket)]
    BY <2>2, SentDownType DEF QueuesOK
  <2>4. QueuesOK'
    BY <1>5, <2>3 DEF UpdateInfo, QueuesOK
  <2>5. NewsOK'
    BY <1>5, <2>1 DEF UpdateInfo, NewsOK
  <2>6. BoundsOK'
    BY <1>1, <1>5, NetworkAssumption DEF UpdateInfo, NewsOK, BoundsOK
  <2> QED BY <1>2, <2>4, <2>5, <2>6
<1>6. CASE TimePasses
  BY <1>2, <1>6 DEF TimePasses, QueuesOK, NewsOK, BoundsOK
<1>7. CASE \E r \in Relays : ReadHead(r)
  BY <1>2, <1>7 DEF ReadHead, Restarted, QueuesOK, NewsOK, BoundsOK
<1> QED BY <1>3, <1>4, <1>5, <1>6, <1>7

(* Packets arrive: at the source ... *)
LEMMA ReadUpType ==
    ASSUME TypeOK, NEW r \in Relays, ReadUp(r)
    PROVE  TypeOK'
<1> DEFINE n == src[r]
           p == Head(up[r])
           rest == [up EXCEPT ![r] = Tail(@)]
<1> USE DEF TypeOK
<1>1. n \in Nodes
  BY DEF ReadUp, ConnectionsOK
<1>2. p \in UpPacket /\ rest \in [Relays -> Seq(UpPacket)]
  BY QueueRead DEF ReadUp, QueuesOK
<1>3. p.kind = "host" /\ p.from \in Relays
  BY <1>2 DEF UpPacket, Packet
<1>4. ConnectionsOK'
  BY DEF ReadUp, ConnectionsOK
<1>5. NewsOK' /\ BoundsOK'
  BY <1>3 DEF ReadUp, NewsOK, BoundsOK
<1>6. rtUp' = rtUp /\ rtDn' \in [Relays -> SUBSET Relays]
  BY <1>3 DEF ReadUp, RouteAdd, QueuesOK
<1>7. CASE p.from # n
  <2>1. Forward(n, p, r, rest, dn)
    BY <1>7 DEF ReadUp
  <2>2. dn' = dn
    BY <1>3, <2>1 DEF Forward
  <2>3. up' \in [Relays -> Seq(UpPacket)]
    <3>1. CASE GoesOn(n, p)
      <4>1. Forwarded(p) \in UpPacket
        BY <1>2, <3>1, ForwardedType DEF UpPacket
      <4> QED BY <1>2, <2>1, <3>1, <4>1, SentUpType DEF Forward
    <3>2. CASE ~GoesOn(n, p)
      BY <1>2, <2>1, <3>2 DEF Forward
    <3> QED BY <3>1, <3>2
  <2> QED BY <1>4, <1>5, <1>6, <2>2, <2>3 DEF QueuesOK
<1>8. CASE p.from = n
  <2>1. up' = rest
    BY <1>8 DEF ReadUp
  <2> PICK k \in 0 .. Len(dn[r]) :
          dn' = [dn EXCEPT ![r] = SubSeq(@, 1, k) \o <<Quit(n)>>]
    BY <1>8 DEF ReadUp
  <2>2. Quit(n) \in DownPacket
    BY <1>1, QuitType
  <2>3. dn[r] \in Seq(DownPacket)
    BY DEF QueuesOK
  <2>4. SubSeq(dn[r], 1, k) \in Seq(DownPacket)
    BY <2>3
  <2>5. SubSeq(dn[r], 1, k) \o <<Quit(n)>> \in Seq(DownPacket)
    BY <2>2, <2>4
  <2>6. dn' \in [Relays -> Seq(DownPacket)]
    BY <2>5, QueueSet DEF QueuesOK
  <2> QED BY <1>2, <1>4, <1>5, <1>6, <2>1, <2>6 DEF QueuesOK
<1> QED BY <1>7, <1>8

(* ... and at the relay. *)
LEMMA ReadDownType ==
    ASSUME TypeOK, NEW r \in Relays,
           ReadChan(r) \/ ReadBroadcast(r)
    PROVE  TypeOK'
<1> DEFINE p == Head(dn[r])
           rest == [dn EXCEPT ![r] = Tail(@)]
<1> USE DEF TypeOK
<1>1. dn[r] # <<>>
  BY DEF ReadChan, ReadBroadcast, Readable
<1>2. p \in DownPacket /\ rest \in [Relays -> Seq(DownPacket)]
  BY <1>1, QueueRead DEF QueuesOK
<1>3. p.from \in Nodes /\ p.ver \in 0 .. MaxSent
  BY <1>2 DEF DownPacket, Packet
<1>4. ConnectionsOK'
  BY DEF ReadChan, ReadBroadcast, ConnectionsOK
<1>5. info' = info \/ info' = [info EXCEPT ![r] = p.ver]
  BY DEF ReadChan, ReadBroadcast
<1>6. info' \in [Nodes -> 0 .. MaxSent] /\ info'[Tracker] = info[Tracker]
  <2>1. Tracker \in Nodes /\ r \in Nodes /\ Tracker # r
    BY NetworkAssumption DEF Nodes
  <2> QED BY <1>3, <1>5, <2>1 DEF NewsOK
<1>7. NewsOK' /\ BoundsOK'
  BY <1>6 DEF ReadChan, ReadBroadcast, Restarted, NewsOK, BoundsOK
<1>8. CASE ReadChan(r)
  BY <1>2, <1>4, <1>7, <1>8 DEF ReadChan, QueuesOK
<1>9. CASE ReadBroadcast(r)
  <2>1. Forward(r, p, src[r], up, rest)
    BY <1>9 DEF ReadBroadcast
  <2>2. up' = up
    BY <2>1, NotBackUp DEF Forward, QueuesOK
  <2>3. dn' \in [Relays -> Seq(DownPacket)]
    <3>1. CASE GoesOn(r, p) /\ p.kind # "host"
      <4>1. Forwarded(p) \in DownPacket
        BY <1>2, <3>1, ForwardedType DEF DownPacket
      <4> QED BY <1>2, <2>1, <3>1, <4>1, SentDownType DEF Forward
    <3>2. CASE ~(GoesOn(r, p) /\ p.kind # "host")
      BY <1>2, <2>1, <3>2 DEF Forward
    <3> QED BY <3>1, <3>2
  <2>4. rtUp' \in [Relays -> SUBSET Nodes] /\ rtDn' = rtDn
    BY <1>3, <1>9 DEF ReadBroadcast, RouteAdd, QueuesOK
  <2> QED BY <1>4, <1>7, <2>2, <2>3, <2>4 DEF QueuesOK
<1> QED BY <1>8, <1>9

(* The hosts keep to their roles whatever the tree and however it changes: *)
(* what goes up a connection is the status of a relay, what goes down is   *)
(* news, a push request, information or PCP_QUIT; the routes down lead to  *)
(* relays, and the tracker lists relays only.                              *)
THEOREM TypeCorrect == Spec => []TypeOK
<1>1. TypeOK /\ [Next]_vars => TypeOK'
  <2> SUFFICES ASSUME TypeOK, [Next]_vars PROVE TypeOK'
    OBVIOUS
  <2>1. CASE UNCHANGED vars
    BY <2>1 DEF vars, TypeOK, ConnectionsOK, QueuesOK, NewsOK, BoundsOK
  <2>2. ASSUME NEW r \in Relays, Loses(r)
        PROVE  TypeOK'
    BY <2>2, LoseSourceType DEF Loses, Cut, GiveUpWaiting, AutoBump, ReadQuit
  <2> QED BY <2>1, <2>2, ConnectionType, BeginType, ReadUpType, ReadDownType
          DEF Next, GoOn, ReadDown, Loses
<1> QED BY <1>1, TypeInit, PTL DEF Spec

-----------------------------------------------------------------------------
(* A set of naturals that is not empty has a least element: the sets 0..n  *)
(* are ordered by inclusion as the numbers n are, and that order is        *)
(* well-founded.                                                           *)
LEMMA LeastNatural ==
    ASSUME NEW S \in SUBSET Nat, S # {}
    PROVE  \E m \in S : \A k \in S : m <= k
<1> DEFINE R == StrictSubsetOrdering(Nat)
           T == {0 .. n : n \in S}
<1>1. IsWellFoundedOn(R, FiniteSubsetsOf(Nat))
  BY FS_StrictSubsetOrderingWellFounded
<1>2. T \subseteq FiniteSubsetsOf(Nat)
  <2>1. \A n \in S : IsFiniteSet(0 .. n) /\ 0 .. n \subseteq Nat
    BY FS_Interval
  <2> QED BY <2>1 DEF FiniteSubsetsOf
<1>3. T # {}
  OBVIOUS
<1>4. PICK x \in T : \A y \in T : ~(<<y, x>> \in R)
  <2> HIDE DEF R, T
  <2> QED BY <1>1, <1>2, <1>3, WFMin
<1>5. PICK m \in S : x = 0 .. m
  OBVIOUS
<1>6. ASSUME NEW k \in S, k < m PROVE FALSE
  <2>1. 0 .. k \subseteq 0 .. m /\ 0 .. k # 0 .. m
    <3>1. m \in 0 .. m /\ m \notin 0 .. k
      BY <1>6
    <3> QED BY <1>6, <3>1
  <2>2. 0 .. k \in SUBSET Nat /\ 0 .. m \in SUBSET Nat
    OBVIOUS
  <2>3. <<0 .. k, 0 .. m>> \in R
    BY <2>1, <2>2 DEF StrictSubsetOrdering
  <2> QED BY <2>3, <1>4, <1>5
<1> QED BY <1>6

(* One hop further.                                                        *)
Hop(S, T) == T \cup {x \in S : src[x] \in T}

(* The hosts that n reaches in 0, 1, ..., hops connections.                *)
Hops(B, n, S, hops) ==
    /\ B \in [0 .. hops -> SUBSET Nodes]
    /\ B[0] = {n}
    /\ \A k \in 1 .. hops : B[k] = Hop(S, B[k - 1])

(* There are such sets.                                                    *)
LEMMA HopsExist ==
    ASSUME NEW n \in Nodes, NEW S \in SUBSET Relays, NEW hops \in Nat
    PROVE  \E B : Hops(B, n, S, hops)
<1> DEFINE Bad == {m \in 0 .. hops : ~ \E B : Hops(B, n, S, m)}
<1>1. ASSUME Bad # {} PROVE FALSE
  <2>1. PICK m \in Bad : \A k \in Bad : m <= k
    <3>1. Bad \in SUBSET Nat
      OBVIOUS
    <3> HIDE DEF Bad
    <3> QED BY <1>1, <3>1, LeastNatural
  <2>2. m \in 0 .. hops /\ \A B : ~Hops(B, n, S, m)
    OBVIOUS
  <2>3. m # 0
    <3> DEFINE B == [k \in 0 .. 0 |-> {n}]
    <3>1. B \in [0 .. 0 -> SUBSET Nodes] /\ B[0] = {n} /\ 1 .. 0 = {}
      OBVIOUS
    <3> HIDE DEF B
    <3>2. Hops(B, n, S, 0)
      BY <3>1 DEF Hops
    <3> QED BY <2>2, <3>2
  <2>4. m - 1 \in 0 .. hops /\ m - 1 \notin Bad
    <3>1. m - 1 \in 0 .. hops /\ ~(m <= m - 1)
      BY <2>2, <2>3
    <3> HIDE DEF Bad
    <3> QED BY <2>1, <3>1
  <2>5. PICK B : Hops(B, n, S, m - 1)
    BY <2>4
  <2> DEFINE C == [k \in 0 .. m |-> IF k = m THEN Hop(S, B[m - 1]) ELSE B[k]]
  <2>6. m - 1 \in 0 .. (m - 1) /\ 0 \in 0 .. (m - 1) /\ m \in 0 .. m
    BY <2>2, <2>3
  <2>7. B[m - 1] \in SUBSET Nodes /\ Hop(S, B[m - 1]) \in SUBSET Nodes
    BY <2>5, <2>6 DEF Hops, Hop, Nodes
  <2>8. \A k \in 0 .. (m - 1) : k \in 0 .. m /\ k # m /\ C[k] = B[k]
    BY <2>2
  <2>9. C[m] = Hop(S, B[m - 1]) /\ C \in [0 .. m -> SUBSET Nodes]
    <3>1. \A k \in 0 .. m : k = m \/ k \in 0 .. (m - 1)
      BY <2>2
    <3>2. \A k \in 0 .. (m - 1) : B[k] \in SUBSET Nodes
      BY <2>5 DEF Hops
    <3> QED BY <2>6, <2>7, <3>1, <3>2
  <2> HIDE DEF C
  <2>10. ASSUME NEW k \in 1 .. m PROVE C[k] = Hop(S, C[k - 1])
    <3>1. k - 1 \in 0 .. (m - 1)
      BY <2>2
    <3>2. CASE k = m
      BY <2>8, <2>9, <3>1, <3>2
    <3>3. CASE k # m
      <4>1. k \in 1 .. (m - 1) /\ k \in 0 .. (m - 1)
        BY <2>2, <3>3
      <4> QED BY <2>5, <2>8, <3>1, <4>1 DEF Hops
    <3> QED BY <3>2, <3>3
  <2>11. Hops(C, n, S, m)
    BY <2>5, <2>6, <2>8, <2>9, <2>10 DEF Hops
  <2> QED BY <2>2, <2>11
<1>2. hops \in 0 .. hops /\ hops \notin Bad
  <2> HIDE DEF Bad
  <2> QED BY <1>1
<1> QED BY <1>2

(* Below is the last of them.                                              *)
LEMMA BelowHops ==
    ASSUME NEW n \in Nodes, NEW S \in SUBSET Relays, NEW hops \in Nat
    PROVE  \E B : Hops(B, n, S, hops) /\ Below(n, S, hops) = B[hops]
<1> DEFINE one == {n}
           hop(T) == Hop(S, T)
           F(B) == [k \in 0 .. hops |-> IF k = 0 THEN one ELSE hop(B[k - 1])]
           U == CHOOSE B : B = F(B)
<1>1. Below(n, S, hops) = U[hops]
  BY DEF Below, Hop
<1>2. PICK B : Hops(B, n, S, hops)
  BY HopsExist
<1> HIDE DEF hop
<1>3. B \in [0 .. hops -> SUBSET Nodes] /\ B[0] = one
      /\ \A k \in 1 .. hops : B[k] = hop(B[k - 1])
  BY <1>2 DEF Hops, hop
<1> HIDE DEF one
<1>4. B = F(B)
  <2>1. ASSUME NEW k \in 0 .. hops
        PROVE  B[k] = IF k = 0 THEN one ELSE hop(B[k - 1])
    <3>1. CASE k = 0
      BY <1>3, <3>1
    <3>2. CASE k # 0
      <4>1. k \in 1 .. hops
        BY <3>2
      <4> QED BY <1>3, <3>2, <4>1
    <3> QED BY <3>1, <3>2
  <2> QED BY <1>3, <2>1
<1>5. U = F(U)
  BY <1>4
<1> HIDE DEF U
<1>6. \A k \in 0 .. hops : U[k] = IF k = 0 THEN one ELSE hop(U[k - 1])
  BY <1>5
<1> DEFINE Bad == {k \in 0 .. hops : U[k] # B[k]}
<1>7. ASSUME Bad # {} PROVE FALSE
  <2>1. PICK k \in Bad : \A j \in Bad : k <= j
    <3>1. Bad \in SUBSET Nat
      OBVIOUS
    <3> HIDE DEF Bad
    <3> QED BY <1>7, <3>1, LeastNatural
  <2>2. k \in 0 .. hops /\ U[k] # B[k]
    OBVIOUS
  <2>3. k # 0
    BY <1>3, <1>6, <2>2
  <2>4. k - 1 \in 0 .. hops /\ ~(k <= k - 1) /\ k \in 1 .. hops
    BY <2>2, <2>3
  <2>5. U[k - 1] = B[k - 1]
    BY <2>1, <2>4
  <2> QED BY <1>3, <1>6, <2>2, <2>3, <2>4, <2>5
<1>8. hops \in 0 .. hops /\ U[hops] = B[hops]
  BY <1>7
<1> QED BY <1>1, <1>2, <1>8

(* How the hosts below n are found, hop by hop.                            *)
LEMMA BelowStep ==
    ASSUME NEW n \in Nodes, NEW S \in SUBSET Relays, NEW k \in Nat
    PROVE  /\ Below(n, S, 0) = {n}
           /\ Below(n, S, k) \in SUBSET Nodes
           /\ Below(n, S, k + 1) = Hop(S, Below(n, S, k))
<1>1. PICK B : Hops(B, n, S, 0) /\ Below(n, S, 0) = B[0]
  BY BelowHops
<1>2. PICK C : Hops(C, n, S, k) /\ Below(n, S, k) = C[k]
  BY BelowHops
<1>3. PICK D : Hops(D, n, S, k + 1) /\ Below(n, S, k + 1) = D[k + 1]
  BY BelowHops
<1> DEFINE Bad == {j \in 0 .. k : C[j] # D[j]}
<1>4. ASSUME Bad # {} PROVE FALSE
  <2>1. PICK j \in Bad : \A i \in Bad : j <= i
    <3>1. Bad \in SUBSET Nat
      OBVIOUS
    <3> HIDE DEF Bad
    <3> QED BY <1>4, <3>1, LeastNatural
  <2>2. j \in 0 .. k /\ C[j] # D[j]
    OBVIOUS
  <2>3. j # 0
    BY <1>2, <1>3, <2>2 DEF Hops
  <2>4. j - 1 \in 0 .. k /\ ~(j <= j - 1) /\ j \in 1 .. k /\ j \in 1 .. (k + 1)
    BY <2>2, <2>3
  <2>5. C[j - 1] = D[j - 1]
    BY <2>1, <2>4
  <2> QED BY <1>2, <1>3, <2>2, <2>4, <2>5 DEF Hops
<1>5. k \in 0 .. k /\ C[k] = D[k]
  BY <1>4
<1>6. k + 1 \in 1 .. (k + 1) /\ (k + 1) - 1 = k
  OBVIOUS
<1>7. D[k + 1] = Hop(S, D[k])
  BY <1>3, <1>6 DEF Hops
<1>8. C[k] \in SUBSET Nodes
  BY <1>2, <1>5 DEF Hops
<1> QED BY <1>1, <1>2, <1>3, <1>5, <1>7, <1>8 DEF Hops

(* A host reaches itself.                                                  *)
LEMMA BelowSelf ==
    ASSUME NEW n \in Nodes, NEW S \in SUBSET Relays, NEW k \in Nat
    PROVE  n \in Below(n, S, k)
<1> DEFINE Bad == {j \in Nat : n \notin Below(n, S, j)}
<1>1. ASSUME Bad # {} PROVE FALSE
  <2>1. PICK j \in Bad : \A i \in Bad : j <= i
    <3>1. Bad \in SUBSET Nat
      OBVIOUS
    <3> HIDE DEF Bad
    <3> QED BY <1>1, <3>1, LeastNatural
  <2>2. j \in Nat /\ n \notin Below(n, S, j)
    OBVIOUS
  <2>3. j # 0
    BY <2>2, BelowStep
  <2>4. j - 1 \in Nat /\ ~(j <= j - 1) /\ (j - 1) + 1 = j
    BY <2>2, <2>3
  <2>5. n \in Below(n, S, j - 1)
    BY <2>1, <2>4
  <2>6. Below(n, S, (j - 1) + 1) = Hop(S, Below(n, S, j - 1))
    BY <2>4, BelowStep
  <2> QED BY <2>2, <2>4, <2>5, <2>6 DEF Hop
<1> QED BY <1>1

(* What is below a relay is below the source of that relay, one hop        *)
(* further.                                                                *)
LEMMA BelowSource ==
    ASSUME NEW S \in SUBSET Relays, NEW x \in S, src[x] \in Nodes, NEW k \in Nat
    PROVE  Below(x, S, k) \subseteq Below(src[x], S, k + 1)
<1> DEFINE n == src[x]
           Bad == {j \in Nat : ~(Below(x, S, j) \subseteq Below(n, S, j + 1))}
<1>0. x \in Nodes /\ n \in Nodes
  BY DEF Nodes
<1> HIDE DEF n
<1>1. ASSUME Bad # {} PROVE FALSE
  <2>1. PICK j \in Bad : \A i \in Bad : j <= i
    <3>1. Bad \in SUBSET Nat
      OBVIOUS
    <3> HIDE DEF Bad
    <3> QED BY <1>1, <3>1, LeastNatural
  <2>2. j \in Nat /\ ~(Below(x, S, j) \subseteq Below(n, S, j + 1))
    OBVIOUS
  <2>3. Below(n, S, j + 1) = Hop(S, Below(n, S, j))
    BY <1>0, <2>2, BelowStep
  <2>4. CASE j = 0
    <3>1. Below(x, S, j) = {x} /\ n \in Below(n, S, j)
      BY <1>0, <2>2, <2>4, BelowStep, BelowSelf
    <3> QED BY <2>2, <2>3, <3>1 DEF Hop, n
  <2>5. CASE j # 0
    <3>1. j - 1 \in Nat /\ ~(j <= j - 1) /\ (j - 1) + 1 = j
      BY <2>2, <2>5
    <3>2. Below(x, S, j - 1) \subseteq Below(n, S, (j - 1) + 1)
      BY <2>1, <3>1
    <3>3. Below(x, S, (j - 1) + 1) = Hop(S, Below(x, S, j - 1))
      BY <1>0, <3>1, BelowStep
    <3> QED BY <2>2, <2>3, <3>1, <3>2, <3>3 DEF Hop
  <2> QED BY <2>4, <2>5
<1> QED BY <1>1 DEF n

-----------------------------------------------------------------------------
(* Ways.                                                                   *)

(* S holds, with each of its relays, the source of that relay, except the  *)
(* tracker.  h tells how far a relay is from the tracker, at most.         *)
Descends(S, h, K) ==
    \A x \in S : /\ h[x] \in 1 .. K
                 /\ \/ src[x] = Tracker
                    \/ src[x] \in S /\ h[src[x]] < h[x]

(* S is the way from the tracker down to r, of at most K connections.      *)
Way(r, S, h, K) ==
    /\ r \in S
    /\ Descends(S, h, K)
    /\ \A y \in S : y # r => h[y] < h[r] /\ \E x \in S : src[x] = y

(* The hosts below the tracker are at the end of a way.                    *)
LEMMA BelowWay ==
    ASSUME NEW T \in SUBSET Relays, NEW K \in Nat,
           NEW r \in Relays, r \in Below(Tracker, T, K)
    PROVE  \E S \in SUBSET T, h \in [Relays -> Nat] : Way(r, S, h, K)
<1> DEFINE OK(k, x) == \E S \in SUBSET T, h \in [Relays -> Nat] : Way(x, S, h, k)
           Bad == {k \in Nat : \E x \in Relays :
                                   x \in Below(Tracker, T, k) /\ ~OK(k, x)}
<1>0. Tracker \in Nodes /\ Tracker \notin Relays
  BY NetworkAssumption DEF Nodes
<1>1. ASSUME Bad # {} PROVE FALSE
  <2>1. PICK k \in Bad : \A i \in Bad : k <= i
    <3>1. Bad \in SUBSET Nat
      OBVIOUS
    <3> HIDE DEF Bad
    <3> QED BY <1>1, <3>1, LeastNatural
  <2>2. k \in Nat
    OBVIOUS
  <2>3. PICK x \in Relays : x \in Below(Tracker, T, k) /\ ~OK(k, x)
    OBVIOUS
  <2>4. k # 0
    BY <1>0, <2>3, BelowStep
  <2>5. k - 1 \in Nat /\ ~(k <= k - 1) /\ (k - 1) + 1 = k
    BY <2>2, <2>4
  <2>6. Below(Tracker, T, k) = Hop(T, Below(Tracker, T, k - 1))
    BY <1>0, <2>5, BelowStep
  <2>7. \A y \in Relays : y \in Below(Tracker, T, k - 1) => OK(k - 1, y)
    BY <2>1, <2>5
  <2>8. CASE x \in Below(Tracker, T, k - 1)
    <3>1. PICK S \in SUBSET T, h \in [Relays -> Nat] : Way(x, S, h, k - 1)
      BY <2>7, <2>8
    <3>2. \A y : y \in 1 .. (k - 1) => y \in 1 .. k
      BY <2>2
    <3>3. Way(x, S, h, k)
      BY <3>1, <3>2 DEF Way, Descends
    <3> QED BY <2>3, <3>3
  <2>9. CASE x \in T /\ src[x] = Tracker
    <3> DEFINE h == [y \in Relays |-> 1]
    <3>1. h \in [Relays -> Nat] /\ h[x] \in 1 .. k
      BY <2>2, <2>4
    <3>2. Way(x, {x}, h, k)
      BY <2>9, <3>1 DEF Way, Descends
    <3>3. {x} \in SUBSET T
      BY <2>9
    <3> HIDE DEF h
    <3> QED BY <2>3, <3>1, <3>2, <3>3
  <2>10. CASE x \in T /\ src[x] # Tracker /\ src[x] \in Below(Tracker, T, k - 1)
    <3> DEFINE s == src[x]
    <3>1. s \in Relays
      BY <1>0, <2>5, <2>10, BelowStep DEF Nodes
    <3>2. PICK S \in SUBSET T, h \in [Relays -> Nat] : Way(s, S, h, k - 1)
      BY <2>7, <2>10, <3>1
    <3> HIDE DEF s
    <3>3. s \in S /\ \A y \in S : h[y] \in Nat /\ h[y] \in 1 .. (k - 1) /\ h[y] <= h[s]
      BY <3>1, <3>2 DEF Way, Descends
    <3>4. x \notin S
      <4> SUFFICES ASSUME x \in S PROVE FALSE
        OBVIOUS
      <4>1. h[s] < h[x]
        BY <2>10, <3>2 DEF Way, Descends, s
      <4> QED BY <3>3, <4>1
    <3> DEFINE g == [h EXCEPT ![x] = k]
               U == S \cup {x}
    <3>5. g \in [Relays -> Nat] /\ g[x] = k /\ \A y \in S : g[y] = h[y]
      BY <2>2, <3>4
    <3>6. U \in SUBSET T /\ x \in U /\ S \subseteq U
      BY <2>10
    <3>7. \A y \in U : y = x \/ y \in S
      OBVIOUS
    <3> HIDE DEF g, U
    <3>8. Descends(U, g, k)
      <4> SUFFICES ASSUME NEW y \in U
                   PROVE  /\ g[y] \in 1 .. k
                          /\ \/ src[y] = Tracker
                             \/ src[y] \in U /\ g[src[y]] < g[y]
        BY DEF Descends
      <4>1. CASE y = x
        BY <2>2, <2>4, <3>3, <3>5, <3>6, <4>1 DEF s
      <4>2. CASE y \in S
        <5>1. g[y] \in 1 .. k
          BY <2>2, <3>3, <3>5, <4>2
        <5>2. src[y] = Tracker \/ (src[y] \in S /\ h[src[y]] < h[y])
          BY <3>2, <4>2 DEF Way, Descends
        <5> QED BY <3>5, <3>6, <4>2, <5>1, <5>2
      <4> QED BY <3>7, <4>1, <4>2
    <3>9. ASSUME NEW y \in U, y # x
          PROVE  g[y] < g[x] /\ \E z \in U : src[z] = y
      <4>1. y \in S
        BY <3>7, <3>9
      <4>2. g[y] < g[x]
        BY <2>2, <3>3, <3>5, <4>1
      <4>3. CASE y = s
        BY <3>6, <4>2, <4>3 DEF s
      <4>4. CASE y # s
        BY <3>2, <3>6, <4>1, <4>2, <4>4 DEF Way
      <4> QED BY <4>3, <4>4
    <3>10. Way(x, U, g, k)
      BY <3>6, <3>8, <3>9 DEF Way
    <3> QED BY <2>3, <3>5, <3>6, <3>10
  <2> QED BY <2>3, <2>6, <2>8, <2>9, <2>10 DEF Hop
<1> QED BY <1>1

(* What is on a way is below the tracker.                                  *)
LEMMA WayBelow ==
    ASSUME NEW T \in SUBSET Relays, NEW S \in SUBSET T,
           NEW h \in [Relays -> Nat], NEW K \in Nat, Descends(S, h, K),
           NEW r \in S
    PROVE  r \in Below(Tracker, T, K)
<1> DEFINE B(k) == Below(Tracker, T, k)
           Bad == {k \in Nat : \E x \in S : h[x] <= k /\ x \notin B(k)}
<1>0. Tracker \in Nodes
  BY DEF Nodes
<1>1. ASSUME Bad # {} PROVE FALSE
  <2>1. PICK k \in Bad : \A i \in Bad : k <= i
    <3>1. Bad \in SUBSET Nat
      OBVIOUS
    <3> HIDE DEF Bad
    <3> QED BY <1>1, <3>1, LeastNatural
  <2>2. k \in Nat
    OBVIOUS
  <2>3. PICK x \in S : h[x] <= k /\ x \notin B(k)
    OBVIOUS
  <2>4. h[x] \in 1 .. K /\ (src[x] = Tracker \/ (src[x] \in S /\ h[src[x]] < h[x]))
    BY DEF Descends
  <2>5. k - 1 \in Nat /\ ~(k <= k - 1) /\ (k - 1) + 1 = k
    BY <2>2, <2>3, <2>4
  <2>6. B(k) = Hop(T, B(k - 1))
    BY <1>0, <2>5, BelowStep
  <2>7. CASE src[x] = Tracker
    BY <1>0, <2>3, <2>5, <2>6, <2>7, BelowSelf DEF Hop
  <2>8. CASE src[x] \in S /\ h[src[x]] < h[x]
    <3>1. h[src[x]] \in Nat /\ h[src[x]] <= k - 1
      BY <2>2, <2>3, <2>4, <2>8
    <3>2. src[x] \in B(k - 1)
      BY <2>1, <2>5, <2>8, <3>1
    <3> QED BY <2>3, <2>6, <3>2 DEF Hop
  <2> QED BY <2>4, <2>7, <2>8
<1>2. h[r] <= K
  BY DEF Descends
<1> QED BY <1>1, <1>2

(* The end of a way is below each relay of the way.                        *)
LEMMA WayEnd ==
    ASSUME NEW S \in SUBSET Relays, NEW h \in [Relays -> Nat], NEW K \in Nat,
           NEW r \in S, Way(r, S, h, K), NEW y \in S
    PROVE  r \in Below(y, Relays, K)
<1> DEFINE B(n, k) == Below(n, Relays, k)
           Bad == {k \in Nat : \E x \in S : K - h[x] <= k /\ r \notin B(x, k)}
<1>0. Relays \subseteq Nodes
  BY DEF Nodes
<1>1. ASSUME Bad # {} PROVE FALSE
  <2>1. PICK k \in Bad : \A i \in Bad : k <= i
    <3>1. Bad \in SUBSET Nat
      OBVIOUS
    <3> HIDE DEF Bad
    <3> QED BY <1>1, <3>1, LeastNatural
  <2>2. k \in Nat
    OBVIOUS
  <2>3. PICK x \in S : K - h[x] <= k /\ r \notin B(x, k)
    OBVIOUS
  <2>4. x # r
    BY <1>0, <2>2, <2>3, BelowSelf
  <2>5. PICK z \in S : src[z] = x
    BY <2>4 DEF Way
  <2>6. h[z] \in 1 .. K /\ h[x] \in 1 .. K /\ h[x] < h[z]
    <3>1. x # Tracker
      BY NetworkAssumption
    <3> QED BY <2>5, <3>1 DEF Way, Descends
  <2>7. k - 1 \in Nat /\ ~(k <= k - 1) /\ (k - 1) + 1 = k /\ K - h[z] <= k - 1
    BY <2>2, <2>3, <2>6
  <2>8. r \in B(z, k - 1)
    BY <2>1, <2>7
  <2>9. B(z, k - 1) \subseteq B(x, (k - 1) + 1)
    BY <1>0, <2>5, <2>7, BelowSource
  <2> QED BY <2>3, <2>7, <2>8, <2>9
<1>2. K - h[y] <= K
  OBVIOUS
<1> QED BY <1>1, <1>2

(* There is only one way to a relay.                                       *)
LEMMA OneWay ==
    ASSUME NEW S \in SUBSET Relays, NEW h \in [Relays -> Nat], NEW K \in Nat,
           NEW r \in S, Way(r, S, h, K),
           NEW T \in SUBSET Relays, NEW g, Descends(T, g, K), r \in T
    PROVE  S \subseteq T
<1> DEFINE Bad == {k \in Nat : \E x \in S : K - h[x] <= k /\ x \notin T}
<1>1. ASSUME Bad # {} PROVE FALSE
  <2>1. PICK k \in Bad : \A i \in Bad : k <= i
    <3>1. Bad \in SUBSET Nat
      OBVIOUS
    <3> HIDE DEF Bad
    <3> QED BY <1>1, <3>1, LeastNatural
  <2>2. k \in Nat
    OBVIOUS
  <2>3. PICK x \in S : K - h[x] <= k /\ x \notin T
    OBVIOUS
  <2>4. PICK z \in S : src[z] = x
    BY <2>3 DEF Way
  <2>5. x # Tracker
    BY NetworkAssumption
  <2>6. h[z] \in 1 .. K /\ h[x] \in 1 .. K /\ h[x] < h[z]
    BY <2>4, <2>5 DEF Way, Descends
  <2>7. k - 1 \in Nat /\ ~(k <= k - 1) /\ K - h[z] <= k - 1
    BY <2>2, <2>3, <2>6
  <2>8. z \in T
    BY <2>1, <2>7
  <2> QED BY <2>3, <2>4, <2>5, <2>8 DEF Descends
<1>2. \A x \in S : h[x] \in Nat
  OBVIOUS
<1>3. ASSUME NEW x \in S PROVE x \in T
  <2>1. K - h[x] <= K
    OBVIOUS
  <2> QED BY <1>1, <2>1
<1> QED BY <1>3

-----------------------------------------------------------------------------
(* Queues.                                                                 *)

(* Packets that say what the channel's information is.                     *)
IsNews(p) == p.kind \in {"chan", "info"}

Has(q, kind) == \E i \in 1 .. Len(q) : q[i].kind = kind
NoNews(q) == \A i \in 1 .. Len(q) : ~IsNews(q[i])

(* The last word of a queue about the channel's information is v.          *)
LastNews(q, v) ==
    \E i \in 1 .. Len(q) :
        /\ IsNews(q[i]) /\ q[i].ver = v
        /\ \A j \in 1 .. Len(q) : IsNews(q[j]) => j <= i

(* Information goes t hops further, a push request for r is in the queue   *)
(* that does.                                                              *)
GoFar(q, t) == \A i \in 1 .. Len(q) : q[i].kind = "info" => q[i].ttl >= t
Asks(q, r, t) ==
    \E i \in 1 .. Len(q) :
        q[i].kind = "push" /\ q[i].dest = r /\ q[i].ttl >= t

(* The channel's information comes first, if at all; only push requests    *)
(* have a goal.                                                            *)
Sound(q) ==
    \A i \in 1 .. Len(q) : /\ q[i].kind = "chan" => i = 1
                           /\ q[i].kind # "push" => q[i].dest = None

(* What a packet at the end of a queue changes.                            *)
LEMMA Appended ==
    ASSUME NEW q \in Seq(DownPacket), NEW p \in DownPacket
    PROVE  LET e == Append(q, p)
           IN  /\ e \in Seq(DownPacket)
               /\ Has(e, "quit") <=> (Has(q, "quit") \/ p.kind = "quit")
               /\ Has(e, "chan") <=> (Has(q, "chan") \/ p.kind = "chan")
               /\ Sound(q) /\ p.kind # "chan" /\ (p.kind # "push" => p.dest = None)
                    => Sound(e)
               /\ \A t \in Int : GoFar(q, t) /\ (p.kind = "info" => p.ttl >= t)
                                 => GoFar(e, t)
               /\ \A r, t : Asks(q, r, t) => Asks(e, r, t)
               /\ \A r, t : p.kind = "push" /\ p.dest = r /\ p.ttl >= t
                            => Asks(e, r, t)
               /\ IsNews(p) => ~NoNews(e) /\ \A v : LastNews(e, v) => v = p.ver
               /\ ~IsNews(p) => /\ NoNews(e) => NoNews(q)
                                /\ \A v : LastNews(e, v) => LastNews(q, v)
<1> DEFINE e == Append(q, p)
           n == Len(q)
<1>1. /\ e \in Seq(DownPacket) /\ Len(e) = n + 1 /\ n \in Nat
      /\ \A i \in 1 .. n : e[i] = q[i]
      /\ e[n + 1] = p
  OBVIOUS
<1>2. 1 .. (n + 1) = 1 .. n \cup {n + 1}
  BY <1>1
<1>3. \A i \in 1 .. n : ~(n + 1 <= i) /\ i \in Nat
  BY <1>1
<1>4. n + 1 \in 1 .. (n + 1)
  BY <1>1
<1> SUFFICES /\ e \in Seq(DownPacket)
             /\ Has(e, "quit") <=> (Has(q, "quit") \/ p.kind = "quit")
             /\ Has(e, "chan") <=> (Has(q, "chan") \/ p.kind = "chan")
             /\ Sound(q) /\ p.kind # "chan" /\ (p.kind # "push" => p.dest = None)
                  => Sound(e)
             /\ \A t \in Int : GoFar(q, t) /\ (p.kind = "info" => p.ttl >= t)
                               => GoFar(e, t)
             /\ \A r, t : Asks(q, r, t) => Asks(e, r, t)
             /\ \A r, t : p.kind = "push" /\ p.dest = r /\ p.ttl >= t
                          => Asks(e, r, t)
             /\ IsNews(p) => ~NoNews(e) /\ \A v : LastNews(e, v) => v = p.ver
             /\ ~IsNews(p) => /\ NoNews(e) => NoNews(q)
                              /\ \A v : LastNews(e, v) => LastNews(q, v)
  OBVIOUS
<1> HIDE DEF e, n
<1>5. Len(q) = n
  BY DEF n
<1>6. /\ Has(e, "quit") <=> (Has(q, "quit") \/ p.kind = "quit")
      /\ Has(e, "chan") <=> (Has(q, "chan") \/ p.kind = "chan")
  BY <1>1, <1>2, <1>5 DEF Has
<1>7. Sound(q) /\ p.kind # "chan" /\ (p.kind # "push" => p.dest = None) => Sound(e)
  BY <1>1, <1>2, <1>5 DEF Sound
<1>8. ASSUME NEW t \in Int, GoFar(q, t), p.kind = "info" => p.ttl >= t
      PROVE  GoFar(e, t)
  BY <1>1, <1>2, <1>5, <1>8 DEF GoFar
<1>9. \A r, t : Asks(q, r, t) => Asks(e, r, t)
  BY <1>1, <1>2, <1>5 DEF Asks
<1>10. \A r, t : p.kind = "push" /\ p.dest = r /\ p.ttl >= t => Asks(e, r, t)
  BY <1>1, <1>4 DEF Asks
<1>11. ASSUME IsNews(p) PROVE ~NoNews(e)
  BY <1>1, <1>4, <1>11 DEF NoNews
<1>12. ASSUME IsNews(p), NEW v, LastNews(e, v) PROVE v = p.ver
  <2>1. PICK i \in 1 .. (n + 1) :
            e[i].ver = v /\ \A j \in 1 .. (n + 1) : IsNews(e[j]) => j <= i
    BY <1>1, <1>12 DEF LastNews
  <2>2. n + 1 <= i
    BY <1>1, <1>4, <1>12, <2>1
  <2>3. i = n + 1
    BY <1>2, <1>3, <2>2
  <2> QED BY <1>1, <2>1, <2>3
<1>13. ASSUME ~IsNews(p)
       PROVE  /\ NoNews(e) => NoNews(q)
              /\ \A v : LastNews(e, v) => LastNews(q, v)
  <2>1. NoNews(e) => NoNews(q)
    BY <1>1, <1>2, <1>5 DEF NoNews
  <2>2. ASSUME NEW v, LastNews(e, v) PROVE LastNews(q, v)
    <3>1. PICK i \in 1 .. (n + 1) :
              /\ IsNews(e[i]) /\ e[i].ver = v
              /\ \A j \in 1 .. (n + 1) : IsNews(e[j]) => j <= i
      BY <1>1, <2>2 DEF LastNews
    <3>2. i \in 1 .. n
      BY <1>1, <1>2, <1>13, <3>1
    <3> QED BY <1>1, <1>2, <1>5, <3>1, <3>2 DEF LastNews
  <2> QED BY <2>1, <2>2
<1> QED BY <1>1, <1>6, <1>7, <1>8, <1>9, <1>10, <1>11, <1>12, <1>13

(* What is left of a queue when its first packet has been read.            *)
LEMMA Taken ==
    ASSUME NEW q \in Seq(DownPacket), q # <<>>
    PROVE  LET e == Tail(q)
               p == Head(q)
           IN  /\ e \in Seq(DownPacket) /\ p \in DownPacket
               /\ Has(q, "quit") <=> (Has(e, "quit") \/ p.kind = "quit")
               /\ p.kind = "chan" => Has(q, "chan")
               /\ Sound(q) => /\ Sound(e) /\ ~Has(e, "chan")
                              /\ p.kind # "push" => p.dest = None
               /\ \A t \in Int : GoFar(q, t)
                      => GoFar(e, t) /\ (p.kind = "info" => p.ttl >= t)
               /\ \A r, t : Asks(q, r, t)
                      => \/ Asks(e, r, t)
                         \/ p.kind = "push" /\ p.dest = r /\ p.ttl >= t
               /\ \A v : LastNews(e, v) => LastNews(q, v)
               /\ NoNews(e) => NoNews(q) \/ (IsNews(p) /\ LastNews(q, p.ver))
<1> DEFINE e == Tail(q)
           p == Head(q)
           n == Len(e)
<1>1. /\ e \in Seq(DownPacket) /\ Len(q) = n + 1 /\ n \in Nat
      /\ \A i \in 1 .. n : e[i] = q[i + 1]
      /\ p = q[1] /\ p \in DownPacket
  OBVIOUS
<1> SUFFICES /\ e \in Seq(DownPacket) /\ p \in DownPacket
             /\ Has(q, "quit") <=> (Has(e, "quit") \/ p.kind = "quit")
             /\ p.kind = "chan" => Has(q, "chan")
             /\ Sound(q) => /\ Sound(e) /\ ~Has(e, "chan")
                            /\ p.kind # "push" => p.dest = None
             /\ \A t \in Int : GoFar(q, t)
                    => GoFar(e, t) /\ (p.kind = "info" => p.ttl >= t)
             /\ \A r, t : Asks(q, r, t)
                    => \/ Asks(e, r, t)
                       \/ p.kind = "push" /\ p.dest = r /\ p.ttl >= t
             /\ \A v : LastNews(e, v) => LastNews(q, v)
             /\ NoNews(e) => NoNews(q) \/ (IsNews(p) /\ LastNews(q, p.ver))
  OBVIOUS
<1>2. Len(e) = n
  OBVIOUS
<1> HIDE DEF e, n, p
<1>3. 1 \in 1 .. Len(q) /\ \A i \in 1 .. n : i + 1 \in 1 .. Len(q) /\ i + 1 # 1
  BY <1>1
<1>4. \A i \in 1 .. Len(q) : i = 1 \/ (i - 1 \in 1 .. n /\ q[i] = e[i - 1])
  <2> TAKE i \in 1 .. Len(q)
  <2>1. CASE i # 1
    <3>1. i - 1 \in 1 .. n /\ (i - 1) + 1 = i
      BY <1>1, <2>1
    <3> QED BY <1>1, <3>1
  <2> QED BY <2>1
<1>5. Has(q, "quit") <=> (Has(e, "quit") \/ p.kind = "quit")
  <2>1. Has(q, "quit") => (Has(e, "quit") \/ p.kind = "quit")
    BY <1>1, <1>2, <1>4 DEF Has
  <2>2. Has(e, "quit") => Has(q, "quit")
    BY <1>1, <1>2, <1>3 DEF Has
  <2>3. p.kind = "quit" => Has(q, "quit")
    BY <1>1, <1>3 DEF Has
  <2> QED BY <2>1, <2>2, <2>3
<1>6. p.kind = "chan" => Has(q, "chan")
  BY <1>1, <1>3 DEF Has
<1>7. ASSUME Sound(q)
      PROVE  Sound(e) /\ ~Has(e, "chan") /\ (p.kind # "push" => p.dest = None)
  <2>1. \A i \in 1 .. n : e[i].kind # "chan" /\ (e[i].kind # "push" => e[i].dest = None)
    BY <1>1, <1>3, <1>7 DEF Sound
  <2>2. p.kind # "push" => p.dest = None
    BY <1>1, <1>3, <1>7 DEF Sound
  <2> QED BY <1>2, <2>1, <2>2 DEF Sound, Has
<1>8. ASSUME NEW t \in Int, GoFar(q, t)
      PROVE  GoFar(e, t) /\ (p.kind = "info" => p.ttl >= t)
  <2>1. \A i \in 1 .. n : e[i].kind = "info" => e[i].ttl >= t
    BY <1>1, <1>3, <1>8 DEF GoFar
  <2>2. p.kind = "info" => p.ttl >= t
    BY <1>1, <1>3, <1>8 DEF GoFar
  <2> QED BY <1>2, <2>1, <2>2 DEF GoFar
<1>9. ASSUME NEW r, NEW t, Asks(q, r, t)
      PROVE  Asks(e, r, t) \/ (p.kind = "push" /\ p.dest = r /\ p.ttl >= t)
  BY <1>1, <1>2, <1>4, <1>9 DEF Asks
<1>10. ASSUME NEW v, LastNews(e, v) PROVE LastNews(q, v)
  <2>1. PICK i \in 1 .. n :
            /\ IsNews(e[i]) /\ e[i].ver = v
            /\ \A j \in 1 .. n : IsNews(e[j]) => j <= i
    BY <1>2, <1>10 DEF LastNews
  <2>2. i + 1 \in 1 .. Len(q) /\ IsNews(q[i + 1]) /\ q[i + 1].ver = v
    BY <1>1, <1>3, <2>1
  <2>3. ASSUME NEW j \in 1 .. Len(q), IsNews(q[j]) PROVE j <= i + 1
    <3>1. CASE j = 1
      BY <1>1, <3>1
    <3>2. CASE j # 1
      <4>1. j - 1 \in 1 .. n /\ j - 1 <= i
        BY <1>4, <2>1, <2>3, <3>2
      <4> QED BY <1>1, <4>1
    <3> QED BY <3>1, <3>2
  <2> QED BY <2>2, <2>3 DEF LastNews
<1>11. ASSUME NoNews(e), ~NoNews(q)
       PROVE  IsNews(p) /\ LastNews(q, p.ver)
  <2>1. \A i \in 1 .. Len(q) : i # 1 => ~IsNews(q[i])
    BY <1>2, <1>4, <1>11 DEF NoNews
  <2>2. IsNews(q[1])
    BY <1>11, <2>1 DEF NoNews
  <2>3. \A j \in 1 .. Len(q) : IsNews(q[j]) => j <= 1
    BY <2>1
  <2> QED BY <1>1, <1>3, <2>2, <2>3 DEF LastNews
<1> QED BY <1>1, <1>5, <1>6, <1>7, <1>8, <1>9, <1>10, <1>11

(* What the channel's information before the queued packets changes.       *)
LEMMA Begun ==
    ASSUME NEW q \in Seq(DownPacket), NEW p \in DownPacket,
           p.kind = "chan", p.dest = None
    PROVE  LET e == <<p>> \o q
           IN  /\ e \in Seq(DownPacket)
               /\ Has(e, "quit") <=> Has(q, "quit")
               /\ Sound(q) /\ ~Has(q, "chan") => Sound(e)
               /\ \A t : GoFar(q, t) => GoFar(e, t)
               /\ \A v : LastNews(e, v)
                         => LastNews(q, v) \/ (NoNews(q) /\ v = p.ver)
               /\ ~NoNews(e)
<1> DEFINE e == <<p>> \o q
           n == Len(q)
<1>1. e \in Seq(DownPacket) /\ Len(e) = n + 1 /\ n \in Nat
  OBVIOUS
<1>2. e[1] = p
  OBVIOUS
<1>3. \A i \in 1 .. n : e[i + 1] = q[i]
  OBVIOUS
<1> SUFFICES /\ e \in Seq(DownPacket)
             /\ Has(e, "quit") <=> Has(q, "quit")
             /\ Sound(q) /\ ~Has(q, "chan") => Sound(e)
             /\ \A t : GoFar(q, t) => GoFar(e, t)
             /\ \A v : LastNews(e, v)
                       => LastNews(q, v) \/ (NoNews(q) /\ v = p.ver)
             /\ ~NoNews(e)
  OBVIOUS
<1>4. Len(q) = n
  OBVIOUS
<1> HIDE DEF e, n
<1>5. 1 \in 1 .. Len(e) /\ \A i \in 1 .. n : i + 1 \in 1 .. Len(e)
  BY <1>1
<1>6. \A i \in 1 .. Len(e) : i = 1 \/ (i - 1 \in 1 .. n /\ e[i] = q[i - 1])
  <2> TAKE i \in 1 .. Len(e)
  <2>1. CASE i # 1
    <3>1. i - 1 \in 1 .. n /\ (i - 1) + 1 = i
      BY <1>1, <2>1
    <3> QED BY <1>3, <3>1
  <2> QED BY <2>1
<1>7. Has(e, "quit") <=> Has(q, "quit")
  <2>1. Has(e, "quit") => Has(q, "quit")
    BY <1>2, <1>4, <1>6 DEF Has
  <2>2. Has(q, "quit") => Has(e, "quit")
    BY <1>3, <1>4, <1>5 DEF Has
  <2> QED BY <2>1, <2>2
<1>8. Sound(q) /\ ~Has(q, "chan") => Sound(e)
  BY <1>2, <1>4, <1>6 DEF Sound, Has
<1>9. \A t : GoFar(q, t) => GoFar(e, t)
  BY <1>2, <1>4, <1>6 DEF GoFar
<1>10. ~NoNews(e)
  BY <1>2, <1>5 DEF NoNews, IsNews
<1>11. ASSUME NEW v, LastNews(e, v)
       PROVE  LastNews(q, v) \/ (NoNews(q) /\ v = p.ver)
  <2>1. PICK i \in 1 .. Len(e) :
            /\ IsNews(e[i]) /\ e[i].ver = v
            /\ \A j \in 1 .. Len(e) : IsNews(e[j]) => j <= i
    BY <1>11 DEF LastNews
  <2>2. ASSUME NEW j \in 1 .. n, IsNews(q[j]) PROVE j + 1 <= i
    <3>1. j + 1 \in 1 .. Len(e) /\ IsNews(e[j + 1])
      BY <1>3, <1>5, <2>2
    <3> QED BY <2>1, <3>1
  <2>3. CASE i = 1
    <3>1. \A j \in 1 .. n : ~IsNews(q[j])
      BY <1>1, <2>2, <2>3
    <3> QED BY <1>2, <1>4, <2>1, <2>3, <3>1 DEF NoNews
  <2>4. CASE i # 1
    <3>1. i - 1 \in 1 .. n /\ IsNews(q[i - 1]) /\ q[i - 1].ver = v
      BY <1>6, <2>1, <2>4
    <3>2. \A j \in 1 .. n : IsNews(q[j]) => j <= i - 1
      BY <1>1, <2>2
    <3> QED BY <1>4, <3>1, <3>2 DEF LastNews
  <2> QED BY <2>3, <2>4
<1> QED BY <1>1, <1>7, <1>8, <1>9, <1>10, <1>11

(* What PCP_QUIT in the place of the last packets changes.                 *)
LEMMA CutOff ==
    ASSUME NEW q \in Seq(DownPacket), NEW p \in DownPacket,
           p.kind = "quit", p.dest = None, NEW k \in 0 .. Len(q)
    PROVE  LET e == SubSeq(q, 1, k) \o <<p>>
           IN  /\ Has(e, "quit")
               /\ Has(e, "chan") => Has(q, "chan")
               /\ Sound(q) => Sound(e)
<1> DEFINE s == SubSeq(q, 1, k)
           e == s \o <<p>>
<1>1. s \in Seq(DownPacket) /\ Len(s) = k /\ k \in Nat
  OBVIOUS
<1>2. \A i \in 1 .. k : s[i] = q[i] /\ i \in 1 .. Len(q)
  OBVIOUS
<1> HIDE DEF s
<1>3. e \in Seq(DownPacket) /\ Len(e) = k + 1
  BY <1>1
<1>4. e[k + 1] = p
  BY <1>1
<1>5. \A i \in 1 .. k : e[i] = s[i]
  BY <1>1
<1> SUFFICES Has(e, "quit") /\ (Has(e, "chan") => Has(q, "chan"))
             /\ (Sound(q) => Sound(e))
  BY DEF s
<1> HIDE DEF e
<1>6. k + 1 \in 1 .. Len(e)
      /\ \A i \in 1 .. Len(e) : i = k + 1 \/ i \in 1 .. k
  BY <1>1, <1>3
<1>7. \A i \in 1 .. k : e[i] = q[i] /\ i \in 1 .. Len(q)
  BY <1>2, <1>5
<1>8. Has(e, "quit")
  BY <1>4, <1>6 DEF Has
<1>9. Has(e, "chan") => Has(q, "chan")
  BY <1>4, <1>6, <1>7 DEF Has
<1>10. Sound(q) => Sound(e)
  BY <1>4, <1>6, <1>7 DEF Sound
<1> QED BY <1>8, <1>9, <1>10

(* An empty queue.                                                         *)
LEMMA Emptied ==
    /\ ~Has(<<>>, "quit") /\ ~Has(<<>>, "chan") /\ Sound(<<>>) /\ NoNews(<<>>)
    /\ \A t : GoFar(<<>>, t)
    /\ \A v : ~LastNews(<<>>, v)
    /\ \A r, t : ~Asks(<<>>, r, t)
<1> DEFINE e == <<>>
<1>1. 1 .. Len(e) = {}
  OBVIOUS
<1> HIDE DEF e
<1>2. /\ ~Has(e, "quit") /\ ~Has(e, "chan") /\ Sound(e) /\ NoNews(e)
      /\ \A t : GoFar(e, t)
      /\ \A v : ~LastNews(e, v)
      /\ \A r, t : ~Asks(e, r, t)
  BY <1>1 DEF Has, Sound, NoNews, GoFar, LastNews, Asks
<1> QED BY <1>2 DEF e

-----------------------------------------------------------------------------
(* Connections and what is on them.                                        *)

(* The source of x is not playing, or, where x still waits for that, has   *)
(* no source.                                                              *)
Orphan(x) ==
    /\ src[x] \in Relays /\ ~recv[src[x]]
    /\ stage[x] = "accepted" => src[src[x]] = None

(* What is on the connection of x fits its stage; x has missed, or is      *)
(* going to read, that its source has lost its own.                        *)
WiredAt(x) ==
    /\ Sound(dn[x])
    /\ Has(dn[x], "chan") => ~recv[x] /\ stage[x] \in {"sending", "closed"}
    /\ stage[x] \in {"none", "accepted", "ready"} => dn[x] = <<>>
    /\ recv[x] => stage[x] \in {"sending", "closed"}
    /\ stage[x] = "closed" => Has(dn[x], "quit")
    /\ Orphan(x) => x \in missed \/ Has(dn[x], "quit")

Wired == (\A x \in Relays : WiredAt(x)) /\ told <= info[Tracker]

(* MustQuit, in the words of queues.                                       *)
LEMMA MustQuitHas == \A x \in Relays : MustQuit(x) <=> Has(dn[x], "quit")
BY DEF MustQuit, Coming, Has

(* What is sent down reaches the relays with a stream.                     *)
LEMMA SentDownAt ==
    ASSUME NEW q \in [Relays -> Seq(DownPacket)], NEW n, NEW p, NEW from,
           NEW x \in Relays
    PROVE  /\ src[x] = n /\ HasStream(x) /\ x # from /\ Routed(p, x, rtDn[x])
                => SentDown(q, n, p, from)[x] = Append(q[x], p)
           /\ ~(src[x] = n /\ HasStream(x) /\ x # from /\ Routed(p, x, rtDn[x]))
                => SentDown(q, n, p, from)[x] = q[x]
BY DEF SentDown

(* What the tracker sends.                                                 *)
LEMMA FromTracker ==
    ASSUME NEW p, NEW x \in Relays
    PROVE  LET e == SentDown(dn, Tracker, p, Tracker)[x]
           IN  /\ e = dn[x] \/ e = Append(dn[x], p)
               /\ src[x] = Tracker /\ HasStream(x) /\ x # Tracker
                  /\ Routed(p, x, rtDn[x]) => e = Append(dn[x], p)
               /\ src[x] # Tracker => e = dn[x]
BY DEF SentDown

(* A relay that loses its source.                                          *)
LEMMA LostStep ==
    ASSUME TypeOK, NEW r \in Relays, LoseSource(r), NEW x \in Relays
    PROVE  /\ x = r => /\ src'[x] = None /\ stage'[x] = "none" /\ ~recv'[x]
                       /\ dn'[x] = <<>> /\ rtDn'[x] = {}
           /\ x # r => /\ src'[x] = src[x] /\ stage'[x] = stage[x]
                       /\ recv'[x] = recv[x] /\ rtDn'[x] = rtDn[x]
                       /\ x \in missed' <=>
                            (x \in missed \/ (src[x] = r /\ dn'[x] = dn[x]))
                       /\ \/ dn'[x] = dn[x]
                          \/ /\ src[x] = r /\ HasStream(x)
                             /\ dn'[x] = Append(dn[x], Quit(r))
           /\ Quit(r) \in DownPacket
           /\ Quit(r).kind = "quit" /\ Quit(r).dest = None
<1> USE DEF TypeOK
<1> DEFINE q == [dn EXCEPT ![r] = <<>>]
<1>1. <<>> \in Seq(DownPacket)
  OBVIOUS
<1>2. q \in [Relays -> Seq(DownPacket)] /\ q[r] = <<>>
      /\ (x # r => q[x] = dn[x])
  BY <1>1, QueueSet DEF QueuesOK
<1>3. dn' = SentDown(q, r, Quit(r), src[r])
  BY DEF LoseSource
<1> HIDE DEF q
<1>4. Quit(r) \in DownPacket /\ Quit(r).kind = "quit" /\ Quit(r).dest = None
  BY QuitType DEF Nodes, Quit, Broadcast
<1>5. /\ dn'[x] = q[x] \/ (src[x] = r /\ HasStream(x) /\ dn'[x] = Append(q[x], Quit(r)))
      /\ x = src[r] => dn'[x] = q[x]
  BY <1>2, <1>3, SentDownAt
<1>6. x = r => dn'[x] = <<>>
  BY <1>2, <1>5
<1>7. /\ x = r => src'[x] = None /\ stage'[x] = "none" /\ ~recv'[x] /\ rtDn'[x] = {}
      /\ x # r => /\ src'[x] = src[x] /\ stage'[x] = stage[x]
                  /\ recv'[x] = recv[x] /\ rtDn'[x] = rtDn[x]
  BY DEF LoseSource, ConnectionsOK, QueuesOK
<1>8. missed' = (missed \ {r}) \cup {c \in Relays : src[c] = r /\ dn'[c] = dn[c]}
  BY DEF LoseSource
<1>9. x # r => (x \in missed' <=> (x \in missed \/ (src[x] = r /\ dn'[x] = dn[x])))
  BY <1>8
<1> QED BY <1>2, <1>4, <1>5, <1>6, <1>7, <1>9

(* A relay that reads a broadcast and passes it on.                        *)
LEMMA PassedOn ==
    ASSUME TypeOK, NEW r \in Relays, ReadBroadcast(r), NEW x \in Relays
    PROVE  LET p == Head(dn[r])
           IN  /\ p \in DownPacket /\ p.kind \in {"info", "push"}
               /\ dn[r] # <<>> /\ stage[r] \in {"sending", "closed"}
               /\ x = r => dn'[x] = Tail(dn[x])
               /\ x # r => \/ dn'[x] = dn[x]
                           \/ /\ src[x] = r /\ HasStream(x)
                              /\ dn'[x] = Append(dn[x], Forwarded(p))
               /\ GoesOn(r, p) => Forwarded(p) \in DownPacket
               /\ dn'[x] = dn[x] \/ x = r \/ GoesOn(r, p)
               /\ GoesOn(r, p) /\ src[x] = r /\ HasStream(x) /\ x # src[r]
                  /\ x # r /\ Routed(Forwarded(p), x, rtDn[x])
                    => dn'[x] = Append(dn[x], Forwarded(p))
               /\ Forwarded(p).kind = p.kind /\ Forwarded(p).dest = p.dest
               /\ Forwarded(p).ver = p.ver /\ Forwarded(p).ttl = p.ttl - 1
<1> USE DEF TypeOK
<1> DEFINE p == Head(dn[r])
           q == [dn EXCEPT ![r] = Tail(@)]
<1>1. dn[r] # <<>> /\ p.kind \in {"info", "push"}
      /\ stage[r] \in {"sending", "closed"}
  BY DEF ReadBroadcast, Readable
<1>2. p \in DownPacket /\ q \in [Relays -> Seq(DownPacket)]
  BY <1>1, QueueRead DEF QueuesOK
<1>3. q[r] = Tail(dn[r]) /\ (x # r => q[x] = dn[x])
  BY DEF QueuesOK
<1>4. Forward(r, p, src[r], up, q)
  BY DEF ReadBroadcast
<1>5. /\ Forwarded(p).kind = p.kind /\ Forwarded(p).dest = p.dest
      /\ Forwarded(p).ver = p.ver /\ Forwarded(p).ttl = p.ttl - 1
  BY <1>2 DEF Forwarded, DownPacket, Packet
<1> SUFFICES /\ x = r => dn'[x] = Tail(dn[x])
             /\ x # r => \/ dn'[x] = dn[x]
                         \/ /\ src[x] = r /\ HasStream(x)
                            /\ dn'[x] = Append(dn[x], Forwarded(p))
             /\ GoesOn(r, p) => Forwarded(p) \in DownPacket
             /\ dn'[x] = dn[x] \/ x = r \/ GoesOn(r, p)
             /\ GoesOn(r, p) /\ src[x] = r /\ HasStream(x) /\ x # src[r]
                  /\ x # r /\ Routed(Forwarded(p), x, rtDn[x])
                    => dn'[x] = Append(dn[x], Forwarded(p))
  BY <1>1, <1>2, <1>5
<1>6. GoesOn(r, p) => Forwarded(p) \in DownPacket
  BY <1>2, ForwardedType DEF DownPacket
<1> HIDE DEF p, q
<1>7. CASE GoesOn(r, p)
  <2>1. dn' = SentDown(q, r, Forwarded(p), src[r])
    BY <1>1, <1>4, <1>7 DEF Forward
  <2> DEFINE d == dn'[x]
             f == Forwarded(p)
             hit == src[x] = r /\ HasStream(x) /\ x # src[r] /\ Routed(f, x, rtDn[x])
  <2>2. (hit => d = Append(q[x], f)) /\ (~hit => d = q[x])
    BY <1>2, <2>1, SentDownAt
  <2>3. x = r => ~hit
    OBVIOUS
  <2>4. hit => src[x] = r /\ HasStream(x)
    OBVIOUS
  <2>5. GoesOn(r, p) /\ src[x] = r /\ HasStream(x) /\ x # src[r]
          /\ x # r /\ Routed(f, x, rtDn[x]) => hit
    OBVIOUS
  <2> HIDE DEF hit, d, f
  <2> QED BY <1>3, <1>6, <1>7, <2>2, <2>3, <2>4, <2>5 DEF d, f
<1>8. CASE ~GoesOn(r, p)
  <2>1. dn' = q
    BY <1>4, <1>8 DEF Forward
  <2> QED BY <1>3, <1>8, <2>1
<1> QED BY <1>7, <1>8

(* The connections fit at the start.                                       *)
LEMMA WiredInit == Init => Wired
<1> SUFFICES ASSUME Init PROVE Wired
  OBVIOUS
<1> DEFINE K == Cardinality(Relays)
<1>0. K \in Nat
  BY NetworkAssumption, FS_CardinalityType
<1>1. ASSUME NEW x \in Relays PROVE WiredAt(x)
  <2>1. dn[x] = <<>> /\ (recv[x] <=> stage[x] = "sending")
        /\ stage[x] \in {"none", "accepted", "sending"}
        /\ (recv[x] /\ src[x] \in Relays => recv[src[x]])
    BY DEF Init
  <2>2. Sound(dn[x]) /\ ~Has(dn[x], "chan")
    BY <2>1, Emptied
  <2>3. src[x] \in Relays => src[src[x]] # None
    <3> SUFFICES ASSUME src[x] \in Relays PROVE src[src[x]] # None
      OBVIOUS
    <3>1. x \in Below(Tracker, Relays, K) /\ None \notin Nodes
      BY NetworkAssumption DEF Init, Fed, Nodes
    <3>2. PICK T \in SUBSET Relays, h \in [Relays -> Nat] : Way(x, T, h, K)
      <4> HIDE DEF K
      <4>1. Relays \in SUBSET Relays
        OBVIOUS
      <4> QED BY <1>0, <3>1, <4>1, BelowWay
    <3>3. src[x] # Tracker /\ Tracker # None
      BY NetworkAssumption DEF Nodes
    <3>4. src[x] \in T
      BY <3>2, <3>3 DEF Way, Descends
    <3>5. src[src[x]] = Tracker \/ src[src[x]] \in T
      BY <3>2, <3>4 DEF Way, Descends
    <3> QED BY <3>1, <3>3, <3>5 DEF Nodes
  <2>4. ~Orphan(x)
    <3>1. src[x] \in Relays => stage[x] # "none"
      BY NetworkAssumption DEF Init, Nodes
    <3> QED BY <2>1, <2>3, <3>1 DEF Orphan
  <2> QED BY <2>1, <2>2, <2>4 DEF WiredAt
<1>2. told <= info[Tracker]
  BY DEF Init, Nodes
<1> QED BY <1>1, <1>2 DEF Wired

(* Nothing changes for x but that a packet is sent to it.                  *)
LEMMA WiredSent ==
    ASSUME TypeOK, NEW x \in Relays, WiredAt(x), NEW p \in DownPacket,
           p.kind # "chan", p.kind # "push" => p.dest = None,
           dn'[x] = dn[x] \/ (HasStream(x) /\ dn'[x] = Append(dn[x], p)),
           stage'[x] = stage[x], recv'[x] = recv[x],
           Orphan(x)' => Orphan(x) \/ x \in missed' \/ Has(dn'[x], "quit"),
           x \in missed => x \in missed'
    PROVE  WiredAt(x)'
<1>1. dn[x] \in Seq(DownPacket)
  BY DEF TypeOK, QueuesOK
<1>2. CASE dn'[x] = dn[x]
  BY <1>2 DEF WiredAt
<1>3. CASE HasStream(x) /\ dn'[x] = Append(dn[x], p)
  <2> DEFINE e == Append(dn[x], p)
  <2>1. /\ Has(e, "quit") <=> (Has(dn[x], "quit") \/ p.kind = "quit")
        /\ Has(e, "chan") <=> (Has(dn[x], "chan") \/ p.kind = "chan")
        /\ Sound(dn[x]) => Sound(e)
    BY <1>1, Appended
  <2> HIDE DEF e
  <2>2. dn'[x] = e
    BY <1>3 DEF e
  <2> QED BY <1>3, <2>1, <2>2 DEF WiredAt, HasStream
<1> QED BY <1>2, <1>3

(* Connections are made.                                                   *)
LEMMA WiredConnection ==
    ASSUME TypeOK, Wired, NEW r \in Relays,
           \/ \E n \in Nodes : Connect(r, n)
           \/ HeaderThere(r) \/ OpenStream(r) \/ SendChan(r)
    PROVE  Wired'
<1> USE DEF TypeOK
<1>0. \A x \in Relays : WiredAt(x)
  BY DEF Wired
<1>1. told' <= info'[Tracker]
  BY DEF Connect, HeaderThere, OpenStream, SendChan, Wired
<1>2. CASE \E n \in Nodes : Connect(r, n)
  <2> PICK n \in Nodes : Connect(r, n)
    BY <1>2
  <2>1. dn[r] = <<>> /\ ~recv[r]
    BY <1>0 DEF Connect, ConnectionsOK, WiredAt
  <2>2. Sound(dn[r]) /\ ~Has(dn[r], "chan")
    BY <2>1, Emptied
  <2>3. Orphan(r)' => r \in missed'
    <3>1. n \in Relays => src'[r] = n /\ src'[n] = src[n]
      BY DEF Connect, ConnectionsOK
    <3>2. stage'[r] = "accepted" /\ src'[r] = n /\ r # n
      BY DEF Connect, ConnectionsOK
    <3>3. n \in Relays => n # Tracker
      BY NetworkAssumption
    <3> QED BY <3>1, <3>2, <3>3 DEF Connect, Orphan
  <2>4. WiredAt(r)'
    BY <2>1, <2>2, <2>3 DEF Connect, ConnectionsOK, WiredAt
  <2>5. ASSUME NEW x \in Relays, x # r PROVE WiredAt(x)'
    <3>1. /\ src'[x] = src[x] /\ stage'[x] = stage[x]
          /\ UNCHANGED <<recv, dn>> /\ (x \in missed => x \in missed')
      BY <2>5 DEF Connect, ConnectionsOK
    <3>2. n # None
      BY NetworkAssumption
    <3>3. src[x] \in Relays /\ src'[src[x]] = None => src[src[x]] = None
      BY <3>2 DEF Connect, ConnectionsOK
    <3>4. Orphan(x)' => Orphan(x)
      BY <3>1, <3>3 DEF Orphan
    <3>5. WiredAt(x)
      BY <1>0
    <3> QED BY <3>1, <3>4, <3>5 DEF WiredAt
  <2> QED BY <1>1, <2>4, <2>5 DEF Wired
<1>3. CASE OpenStream(r)
  <2>1. dn[r] = <<>> /\ ~recv[r]
    BY <1>0, <1>3 DEF OpenStream, WiredAt
  <2>2. Sound(dn[r]) /\ ~Has(dn[r], "chan")
    BY <2>1, Emptied
  <2>3. WiredAt(r)'
    BY <1>0, <1>3, <2>1, <2>2 DEF OpenStream, ConnectionsOK, WiredAt, Orphan
  <2>4. ASSUME NEW x \in Relays, x # r PROVE WiredAt(x)'
    BY <1>0, <1>3, <2>4 DEF OpenStream, ConnectionsOK, WiredAt, Orphan
  <2> QED BY <1>1, <2>3, <2>4 DEF Wired
<1>5. CASE HeaderThere(r)
  <2>1. dn[r] = <<>> /\ ~recv[r]
    BY <1>0, <1>5 DEF HeaderThere, WiredAt
  <2>2. Sound(dn[r]) /\ ~Has(dn[r], "chan")
    BY <2>1, Emptied
  <2>3. ~Orphan(r)'
    BY <1>5, NetworkAssumption DEF HeaderThere, Plays, Orphan
  <2>4. WiredAt(r)'
    BY <1>0, <1>5, <2>1, <2>2, <2>3 DEF HeaderThere, ConnectionsOK, WiredAt
  <2>5. ASSUME NEW x \in Relays, x # r PROVE WiredAt(x)'
    BY <1>0, <1>5, <2>5 DEF HeaderThere, ConnectionsOK, WiredAt, Orphan
  <2> QED BY <1>1, <2>4, <2>5 DEF Wired
<1>4. CASE SendChan(r)
  <2> DEFINE p == Chan(src[r])
             e == <<p>> \o dn[r]
  <2>1. dn[r] \in Seq(DownPacket) /\ src[r] \in Nodes
    BY <1>4 DEF SendChan, ConnectionsOK, QueuesOK
  <2>2. p \in DownPacket /\ p.kind = "chan" /\ p.dest = None
    BY <2>1, PacketType DEF Chan, Broadcast, DownPacket, NewsOK
  <2>3. stage[r] = "open" /\ ~recv[r] /\ ~Has(dn[r], "chan") /\ Sound(dn[r])
    BY <1>0, <1>4 DEF SendChan, WiredAt
  <2>4. (Has(e, "quit") <=> Has(dn[r], "quit")) /\ Sound(e)
    BY <2>1, <2>2, <2>3, Begun
  <2>5. dn'[r] = e /\ stage'[r] = "sending"
    BY <1>4 DEF SendChan, ConnectionsOK, QueuesOK
  <2> HIDE DEF e
  <2>6. WiredAt(r)'
    BY <1>0, <1>4, <2>3, <2>4, <2>5 DEF SendChan, WiredAt, Orphan
  <2>7. ASSUME NEW x \in Relays, x # r PROVE WiredAt(x)'
    BY <1>0, <1>4, <2>7 DEF SendChan, ConnectionsOK, QueuesOK, WiredAt, Orphan
  <2> QED BY <1>1, <2>6, <2>7 DEF Wired
<1> QED BY <1>2, <1>3, <1>4, <1>5

(* A relay loses its source.                                               *)
LEMMA WiredLost ==
    ASSUME TypeOK, Wired, NEW r \in Relays, LoseSource(r)
    PROVE  Wired'
<1>1. ASSUME NEW x \in Relays PROVE WiredAt(x)'
  <2>0. WiredAt(x)
    BY DEF Wired
  <2>1. CASE x = r
    <3>1. src'[x] = None /\ stage'[x] = "none" /\ ~recv'[x] /\ dn'[x] = <<>>
      BY <2>1, LostStep
    <3>2. Sound(dn'[x]) /\ ~Has(dn'[x], "chan")
      BY <3>1, Emptied
    <3>3. None \notin Relays
      BY NetworkAssumption DEF Nodes
    <3> QED BY <3>1, <3>2, <3>3 DEF WiredAt, Orphan
  <2>2. CASE x # r
    <3> DEFINE p == Quit(r)
    <3>1. /\ src'[x] = src[x] /\ stage'[x] = stage[x] /\ recv'[x] = recv[x]
          /\ x \in missed' <=> (x \in missed \/ (src[x] = r /\ dn'[x] = dn[x]))
          /\ \/ dn'[x] = dn[x]
             \/ src[x] = r /\ HasStream(x) /\ dn'[x] = Append(dn[x], p)
          /\ p \in DownPacket /\ p.kind = "quit" /\ p.dest = None
      BY <2>2, LostStep
    <3>2. dn[x] \in Seq(DownPacket)
      BY DEF TypeOK, QueuesOK
    <3> HIDE DEF p
    <3>3. src[x] = r => x \in missed' \/ Has(dn'[x], "quit")
      <4>1. dn'[x] = Append(dn[x], p) => Has(dn'[x], "quit")
        BY <3>1, <3>2, Appended
      <4> QED BY <3>1, <4>1
    <3>4. src[x] \in Relays /\ src[x] # r
            => recv'[src[x]] = recv[src[x]] /\ src'[src[x]] = src[src[x]]
      BY LostStep
    <3>5. Orphan(x)' => Orphan(x) \/ x \in missed' \/ Has(dn'[x], "quit")
      BY <3>1, <3>3, <3>4 DEF Orphan
    <3>6. p.kind # "chan" /\ (p.kind # "push" => p.dest = None)
      BY <3>1
    <3>7. dn'[x] = dn[x] \/ (HasStream(x) /\ dn'[x] = Append(dn[x], p))
      BY <3>1
    <3> QED BY <2>0, <3>1, <3>5, <3>6, <3>7, WiredSent
  <2> QED BY <2>1, <2>2
<1>2. told' <= info'[Tracker]
  BY DEF LoseSource, Wired
<1> QED BY <1>1, <1>2 DEF Wired

(* Broadcasts begin.                                                       *)
LEMMA WiredBegin ==
    ASSUME TypeOK, Wired,
           \/ \E r \in Relays : UpdateStatus(r) \/ PushRequest(r) \/ ReadHead(r)
           \/ UpdateInfo \/ TimePasses
    PROVE  Wired'
<1> USE DEF TypeOK
<1>1. UNCHANGED <<src, stage, recv, missed>>
  BY DEF UpdateStatus, PushRequest, ReadHead, UpdateInfo, TimePasses
<1>2. Tracker \in Nodes /\ 0 \in 0 .. MaxSent
  BY NetworkAssumption DEF Nodes
<1>3. ASSUME NEW p \in DownPacket,
             p.kind # "chan", p.kind # "push" => p.dest = None,
             dn' = SentDown(dn, Tracker, p, Tracker)
      PROVE  \A x \in Relays : WiredAt(x)'
  <2> TAKE x \in Relays
  <2> DEFINE s == SentDown(dn, Tracker, p, Tracker)
  <2>0. dn \in [Relays -> Seq(DownPacket)]
    BY DEF QueuesOK
  <2>1. s[x] = dn[x] \/ (HasStream(x) /\ s[x] = Append(dn[x], p))
    BY <2>0, SentDownAt
  <2>2. WiredAt(x) /\ dn' = s
    BY <1>3 DEF Wired
  <2>3. Orphan(x)' => Orphan(x)
    BY <1>1 DEF Orphan
  <2> HIDE DEF s
  <2> QED BY <1>1, <1>3, <2>1, <2>2, <2>3, WiredSent
<1>4. ASSUME UNCHANGED dn PROVE \A x \in Relays : WiredAt(x)'
  BY <1>1, <1>4 DEF Wired, WiredAt, Orphan
<1>5. CASE (\E r \in Relays : UpdateStatus(r) \/ ReadHead(r)) \/ TimePasses
  <2>1. UNCHANGED <<dn, told, info>>
    BY <1>5 DEF UpdateStatus, ReadHead, TimePasses
  <2> QED BY <1>4, <2>1 DEF Wired
<1>6. CASE \E r \in Relays : PushRequest(r)
  <2> PICK r \in Relays : PushRequest(r)
    BY <1>6
  <2> DEFINE p == Broadcast("push", Tracker, PushTTL, r, 0)
  <2>1. p \in DownPacket
    BY <1>2, PacketType, NetworkAssumption DEF DownPacket
  <2>2. p.kind = "push"
    BY DEF Broadcast
  <2>3. dn' = SentDown(dn, Tracker, p, Tracker) /\ UNCHANGED <<told, info>>
    BY DEF PushRequest
  <2> HIDE DEF p
  <2> QED BY <1>3, <2>1, <2>2, <2>3 DEF Wired
<1>7. CASE UpdateInfo
  <2> DEFINE v == info[Tracker] + 1
             p == Broadcast("info", Tracker, InfoTTL, None, v)
  <2>0. info[Tracker] \in Nat /\ told \in Nat
    BY <1>2 DEF NewsOK
  <2>1. v \in 0 .. MaxSent /\ info'[Tracker] = v
    BY <1>2, <1>7, NetworkAssumption DEF UpdateInfo, NewsOK, BoundsOK
  <2>2. p \in DownPacket /\ p.kind = "info" /\ p.dest = None
    BY <1>2, <2>1, PacketType, NetworkAssumption DEF DownPacket, Broadcast
  <2>3. told' <= info'[Tracker]
    <3>1. told' = told \/ told' = v
      BY <1>7 DEF UpdateInfo
    <3>2. told <= info[Tracker]
      BY DEF Wired
    <3>3. told <= v
      BY <2>0, <3>2
    <3> QED BY <2>0, <2>1, <3>1, <3>3
  <2>4. UNCHANGED dn \/ dn' = SentDown(dn, Tracker, p, Tracker)
    BY <1>7 DEF UpdateInfo
  <2> HIDE DEF p, v
  <2> QED BY <1>3, <1>4, <2>2, <2>3, <2>4 DEF Wired
<1> QED BY <1>5, <1>6, <1>7

(* Packets arrive at the source, ...                                       *)
LEMMA WiredReadUp ==
    ASSUME TypeOK, Wired, NEW r \in Relays, ReadUp(r)
    PROVE  Wired'
<1> USE DEF TypeOK
<1> DEFINE p == Head(up[r])
<1>0. \A x \in Relays : WiredAt(x)
  BY DEF Wired
<1>1. told' <= info'[Tracker] /\ UNCHANGED <<src, recv, missed>>
  BY DEF ReadUp, Wired
<1>2. p \in UpPacket /\ stage[r] = "sending" /\ src[r] \in Nodes
  BY QueueRead DEF ReadUp, QueuesOK, ConnectionsOK
<1>3. p.kind = "host"
  BY <1>2 DEF UpPacket, Packet
<1>4. CASE p.from # src[r]
  <2>1. UNCHANGED <<dn, stage>>
    BY <1>3, <1>4 DEF ReadUp, Forward
  <2> QED BY <1>0, <1>1, <2>1 DEF Wired, WiredAt, Orphan
<1>5. CASE p.from = src[r]
  <2> DEFINE c == Quit(src[r])
  <2>1. PICK k \in 0 .. Len(dn[r]) :
            dn' = [dn EXCEPT ![r] = SubSeq(@, 1, k) \o <<c>>]
    BY <1>5 DEF ReadUp
  <2> DEFINE e == SubSeq(dn[r], 1, k) \o <<c>>
  <2>2. c \in DownPacket /\ c.kind = "quit" /\ c.dest = None
    BY <1>2, QuitType DEF Quit, Broadcast
  <2>3. dn[r] \in Seq(DownPacket)
    BY DEF QueuesOK
  <2>4. Has(e, "quit") /\ (Has(e, "chan") => Has(dn[r], "chan"))
        /\ (Sound(dn[r]) => Sound(e))
    BY <2>2, <2>3, CutOff
  <2>5. stage' = [stage EXCEPT ![r] = "closed"]
    BY <1>5 DEF ReadUp
  <2>6. dn'[r] = e /\ stage'[r] = "closed"
    BY <2>1, <2>5 DEF QueuesOK, ConnectionsOK
  <2>7. \A x \in Relays : x # r => dn'[x] = dn[x] /\ stage'[x] = stage[x]
    BY <2>1, <2>5 DEF QueuesOK, ConnectionsOK
  <2> HIDE DEF e
  <2>8. WiredAt(r)'
    BY <1>0, <1>1, <1>2, <2>4, <2>6 DEF WiredAt, Orphan
  <2>9. ASSUME NEW x \in Relays, x # r PROVE WiredAt(x)'
    BY <1>0, <1>1, <2>7, <2>9 DEF WiredAt, Orphan
  <2> QED BY <1>1, <2>8, <2>9 DEF Wired
<1> QED BY <1>4, <1>5

(* ... and at the relay.                                                   *)
LEMMA WiredReadDown ==
    ASSUME TypeOK, Wired, NEW r \in Relays, ReadChan(r) \/ ReadBroadcast(r)
    PROVE  Wired'
<1> USE DEF TypeOK
<1> DEFINE p == Head(dn[r])
           e == Tail(dn[r])
<1>0. \A x \in Relays : WiredAt(x)
  BY DEF Wired
<1>1. dn[r] \in Seq(DownPacket) /\ dn[r] # <<>> /\ stage[r] \in {"sending", "closed"}
  BY DEF ReadChan, ReadBroadcast, Readable, QueuesOK
<1>2. UNCHANGED <<src, stage, missed>>
  BY DEF ReadChan, ReadBroadcast
<1>3. told' <= info'[Tracker]
  <2>1. Tracker # r /\ Tracker \in Nodes
    BY NetworkAssumption DEF Nodes
  <2>2. info' = info \/ info' = [info EXCEPT ![r] = p.ver]
    BY DEF ReadChan, ReadBroadcast
  <2>3. info'[Tracker] = info[Tracker] /\ told' = told
    BY <2>1, <2>2 DEF ReadChan, ReadBroadcast, NewsOK
  <2> QED BY <2>3 DEF Wired
<1>4. /\ Has(dn[r], "quit") <=> (Has(e, "quit") \/ p.kind = "quit")
      /\ p.kind = "chan" => Has(dn[r], "chan")
      /\ Sound(dn[r]) => /\ Sound(e) /\ ~Has(e, "chan")
                         /\ p.kind # "push" => p.dest = None
  BY <1>1, Taken
<1>5. p.kind # "quit" /\ dn'[r] = e /\ (recv'[r] = recv[r] \/ recv'[r])
  <2>1. CASE ReadChan(r)
    BY <2>1 DEF ReadChan, QueuesOK, ConnectionsOK
  <2>2. CASE ReadBroadcast(r)
    <3>1. p.kind \in {"info", "push"} /\ dn'[r] = e
      BY <2>2, PassedOn
    <3> QED BY <2>2, <3>1 DEF ReadBroadcast
  <2> QED BY <2>1, <2>2
<1>6. \A x \in Relays : x # r => recv'[x] = recv[x]
  BY DEF ReadChan, ReadBroadcast, ConnectionsOK
<1>7. \A x \in Relays : recv[x] => recv'[x]
  BY <1>5, <1>6
<1> HIDE DEF e
<1>8. WiredAt(r)'
  <2>1. WiredAt(r)
    BY <1>0
  <2>2. Sound(e) /\ ~Has(e, "chan") /\ (Has(dn[r], "quit") => Has(e, "quit"))
    BY <1>4, <1>5, <2>1 DEF WiredAt
  <2>3. Orphan(r)' => Orphan(r)
    BY <1>2, <1>7 DEF Orphan
  <2> QED BY <1>1, <1>2, <1>5, <2>1, <2>2, <2>3 DEF WiredAt
<1>9. ASSUME NEW x \in Relays, x # r PROVE WiredAt(x)'
  <2>1. CASE ReadChan(r)
    <3>1. dn'[x] = dn[x]
      BY <1>9, <2>1 DEF ReadChan, QueuesOK
    <3>2. Orphan(x)' => Orphan(x)
      BY <1>2, <1>7 DEF Orphan
    <3> QED BY <1>0, <1>2, <1>6, <1>9, <3>1, <3>2 DEF WiredAt
  <2>2. CASE ReadBroadcast(r)
    <3> DEFINE f == Forwarded(p)
    <3>1. /\ dn'[x] = dn[x] \/ (HasStream(x) /\ dn'[x] = Append(dn[x], f))
          /\ dn'[x] = dn[x] \/ f \in DownPacket
          /\ f.kind = p.kind /\ f.dest = p.dest /\ p.kind \in {"info", "push"}
      BY <1>9, <2>2, PassedOn
    <3>2. f.kind # "chan" /\ (f.kind # "push" => f.dest = None)
      BY <1>0, <1>4, <3>1 DEF WiredAt
    <3>3. Orphan(x)' => Orphan(x)
      BY <1>2, <1>7 DEF Orphan
    <3> HIDE DEF f
    <3>4. CASE dn'[x] = dn[x]
      BY <1>0, <1>2, <1>6, <1>9, <3>3, <3>4 DEF WiredAt
    <3>5. CASE f \in DownPacket
      BY <1>0, <1>2, <1>6, <1>9, <3>1, <3>2, <3>3, <3>5, WiredSent
    <3> QED BY <3>1, <3>4, <3>5
  <2> QED BY <2>1, <2>2
<1> QED BY <1>3, <1>8, <1>9 DEF Wired

(* Every step keeps the connections in order.                              *)
LEMMA WiredNext == TypeOK /\ Wired /\ [Next]_vars => Wired'
<1> SUFFICES ASSUME TypeOK, Wired, [Next]_vars PROVE Wired'
  OBVIOUS
<1>1. CASE UNCHANGED vars
  BY <1>1 DEF vars, Wired, WiredAt, Orphan
<1>2. ASSUME NEW r \in Relays, Loses(r)
      PROVE  Wired'
  BY <1>2, WiredLost DEF Loses, Cut, GiveUpWaiting, AutoBump, ReadQuit
<1> QED BY <1>1, <1>2, WiredConnection, WiredBegin, WiredReadUp, WiredReadDown
        DEF Next, GoOn, ReadDown, Loses

-----------------------------------------------------------------------------
(* Cycles.                                                                 *)

(* x keeps its source, and does not forget that it has missed something or *)
(* must quit.                                                              *)
Stays(x) ==
    /\ src'[x] = src[x]
    /\ x \in missed => x \in missed'
    /\ Has(dn[x], "quit") => Has(dn'[x], "quit")

(* A step that does not connect x and leaves it connected.                 *)
LEMMA StaysNext ==
    ASSUME TypeOK, [Next]_vars, NEW x \in Relays, src'[x] # None,
           ~ \E n \in Nodes : Connect(x, n)
    PROVE  Stays(x)
<1> USE DEF TypeOK
<1>0. dn[x] \in Seq(DownPacket) /\ dn \in [Relays -> Seq(DownPacket)]
  BY DEF QueuesOK
<1>1. ASSUME src'[x] = src[x], missed' = missed, dn'[x] = dn[x] PROVE Stays(x)
  BY <1>1 DEF Stays
<1>2. ASSUME src' = src, missed' = missed, NEW p, p \in DownPacket,
             dn'[x] = Append(dn[x], p)
      PROVE  Stays(x)
  <2> DEFINE e == Append(dn[x], p)
  <2>1. Has(dn[x], "quit") => Has(e, "quit")
    BY <1>0, <1>2, Appended
  <2> HIDE DEF e
  <2>2. dn'[x] = e
    BY <1>2 DEF e
  <2> QED BY <1>2, <2>1, <2>2 DEF Stays
<1>3. ASSUME NEW p \in DownPacket, dn' = SentDown(dn, Tracker, p, Tracker),
             src' = src, missed' = missed
      PROVE  Stays(x)
  <2> DEFINE s == SentDown(dn, Tracker, p, Tracker)
  <2>1. s[x] = dn[x] \/ s[x] = Append(dn[x], p)
    BY <1>0, SentDownAt
  <2>2. dn' = s
    BY <1>3
  <2> HIDE DEF s
  <2> QED BY <1>1, <1>2, <1>3, <2>1, <2>2
<1>4. ASSUME NEW r \in Relays, r # x, NEW n \in Nodes, Connect(r, n)
      PROVE  Stays(x)
  BY <1>4 DEF Connect, ConnectionsOK, Stays
<1>5. ASSUME NEW r \in Relays,
             HeaderThere(r) \/ OpenStream(r) \/ UpdateStatus(r) \/ ReadHead(r)
      PROVE  Stays(x)
  BY <1>1, <1>5 DEF HeaderThere, OpenStream, UpdateStatus, ReadHead
<1>6. ASSUME NEW r \in Relays, SendChan(r) PROVE Stays(x)
  <2> DEFINE p == Chan(src[r])
             e == <<p>> \o dn[r]
  <2>1. dn[r] \in Seq(DownPacket) /\ src[r] \in Nodes
    BY <1>6 DEF SendChan, ConnectionsOK, QueuesOK
  <2>2. p \in DownPacket /\ p.kind = "chan" /\ p.dest = None
    BY <2>1, PacketType DEF Chan, Broadcast, DownPacket, NewsOK
  <2>3. Has(e, "quit") <=> Has(dn[r], "quit")
    BY <2>1, <2>2, Begun
  <2>4. dn'[r] = e /\ (x # r => dn'[x] = dn[x]) /\ src' = src /\ missed' = missed
    BY <1>6 DEF SendChan, QueuesOK
  <2> HIDE DEF e
  <2> QED BY <2>3, <2>4 DEF Stays
<1>7. ASSUME NEW r \in Relays, LoseSource(r) PROVE Stays(x)
  <2>1. x # r
    BY <1>7, LostStep
  <2> DEFINE p == Quit(r)
  <2>2. /\ src'[x] = src[x] /\ (x \in missed => x \in missed')
        /\ dn'[x] = dn[x] \/ dn'[x] = Append(dn[x], p)
        /\ p \in DownPacket /\ p.kind = "quit"
    BY <1>7, <2>1, LostStep
  <2> HIDE DEF p
  <2>3. dn'[x] = Append(dn[x], p) => Has(dn'[x], "quit")
    BY <1>0, <2>2, Appended
  <2> QED BY <2>2, <2>3 DEF Stays
<1>8. ASSUME NEW r \in Relays, PushRequest(r) PROVE Stays(x)
  <2> DEFINE p == Broadcast("push", Tracker, PushTTL, r, 0)
  <2>1. p \in DownPacket
    BY PacketType, NetworkAssumption DEF DownPacket, Nodes
  <2>2. dn' = SentDown(dn, Tracker, p, Tracker) /\ src' = src /\ missed' = missed
    BY <1>8 DEF PushRequest
  <2> HIDE DEF p
  <2> QED BY <1>3, <2>1, <2>2
<1>9. CASE UpdateInfo
  <2> DEFINE v == info[Tracker] + 1
             p == Broadcast("info", Tracker, InfoTTL, None, v)
  <2>1. v \in 0 .. MaxSent
    BY <1>9, NetworkAssumption DEF UpdateInfo, NewsOK, BoundsOK, Nodes
  <2>2. p \in DownPacket
    BY <2>1, PacketType, NetworkAssumption DEF DownPacket, Nodes
  <2>3. dn' = dn \/ dn' = SentDown(dn, Tracker, p, Tracker)
    BY <1>9 DEF UpdateInfo
  <2>4. src' = src /\ missed' = missed
    BY <1>9 DEF UpdateInfo
  <2> HIDE DEF p, v
  <2> QED BY <1>1, <1>3, <2>2, <2>3, <2>4
<1>10. CASE TimePasses \/ UNCHANGED vars
  BY <1>1, <1>10 DEF TimePasses, vars
<1>11. ASSUME NEW r \in Relays, ReadUp(r) PROVE Stays(x)
  <2> DEFINE p == Head(up[r])
             c == Quit(src[r])
  <2>1. p \in UpPacket /\ src[r] \in Nodes /\ src' = src /\ missed' = missed
    BY <1>11, QueueRead DEF ReadUp, QueuesOK, ConnectionsOK
  <2>2. p.kind = "host"
    BY <2>1 DEF UpPacket, Packet
  <2>3. CASE p.from # src[r]
    BY <1>1, <1>11, <2>1, <2>2, <2>3 DEF ReadUp, Forward
  <2>4. CASE p.from = src[r]
    <3>1. PICK k \in 0 .. Len(dn[r]) :
              dn' = [dn EXCEPT ![r] = SubSeq(@, 1, k) \o <<c>>]
      BY <1>11, <2>4 DEF ReadUp
    <3> DEFINE e == SubSeq(dn[r], 1, k) \o <<c>>
    <3>2. c \in DownPacket /\ c.kind = "quit" /\ c.dest = None
      BY <2>1, QuitType DEF Quit, Broadcast
    <3>3. Has(e, "quit")
      <4>1. dn[r] \in Seq(DownPacket)
        BY DEF QueuesOK
      <4> QED BY <3>2, <4>1, CutOff
    <3>4. dn'[r] = e /\ (x # r => dn'[x] = dn[x])
      BY <3>1 DEF QueuesOK
    <3> HIDE DEF e
    <3> QED BY <2>1, <3>3, <3>4 DEF Stays
  <2> QED BY <2>3, <2>4
<1>12. ASSUME NEW r \in Relays, ReadChan(r) \/ ReadBroadcast(r) PROVE Stays(x)
  <2> DEFINE p == Head(dn[r])
             e == Tail(dn[r])
             f == Forwarded(p)
  <2>1. dn[r] \in Seq(DownPacket) /\ dn[r] # <<>> /\ src' = src /\ missed' = missed
    BY <1>12 DEF ReadChan, ReadBroadcast, Readable, QueuesOK
  <2>2. Has(dn[r], "quit") <=> (Has(e, "quit") \/ p.kind = "quit")
    BY <2>1, Taken
  <2>3. p.kind # "quit" /\ dn'[r] = e
    <3>1. CASE ReadChan(r)
      BY <3>1 DEF ReadChan, QueuesOK
    <3>2. CASE ReadBroadcast(r)
      BY <3>2, PassedOn
    <3> QED BY <1>12, <3>1, <3>2
  <2>4. x # r => dn'[x] = dn[x] \/ (dn'[x] = Append(dn[x], f) /\ f \in DownPacket)
    <3>1. CASE ReadChan(r)
      BY <3>1 DEF ReadChan, QueuesOK
    <3>2. CASE ReadBroadcast(r)
      BY <3>2, PassedOn
    <3> QED BY <1>12, <3>1, <3>2
  <2> HIDE DEF e, f
  <2>5. CASE x = r
    BY <2>1, <2>2, <2>3, <2>5 DEF Stays
  <2>6. CASE x # r
    BY <1>1, <1>2, <2>1, <2>4, <2>6
  <2> QED BY <2>5, <2>6
<1>13. ASSUME NEW r \in Relays, Loses(r)
       PROVE  Stays(x)
  BY <1>7, <1>13 DEF Loses, Cut, GiveUpWaiting, AutoBump, ReadQuit
<1> QED
  BY <1>4, <1>5, <1>6, <1>8, <1>9, <1>10, <1>11, <1>12, <1>13
     DEF Next, GoOn, ReadDown, Loses

(* The sources of the relays S are among S, and nobody has missed, or must *)
(* read, that this is at an end.                                           *)
Circle(S) ==
    /\ S # {}
    /\ \A x \in S : src[x] \in S /\ x \notin missed /\ ~Has(dn[x], "quit")
NoCircle == \A S \in SUBSET Relays : ~Circle(S)

(* There is no cycle at the start: the tracker reaches whoever is          *)
(* connected.                                                              *)
LEMMA CircleInit == Init => NoCircle
<1> SUFFICES ASSUME Init, NEW S \in SUBSET Relays, Circle(S) PROVE FALSE
  BY DEF NoCircle
<1> DEFINE K == Cardinality(Relays)
<1>1. K \in Nat
  BY NetworkAssumption, FS_CardinalityType
<1>2. PICK r \in S : TRUE
  BY DEF Circle
<1>3. r \in Below(Tracker, Relays, K)
  <2>1. src[r] \in Relays /\ None \notin Relays
    BY NetworkAssumption DEF Circle, Nodes
  <2> QED BY <2>1 DEF Init, Fed
<1>4. PICK T \in SUBSET Relays, h \in [Relays -> Nat] : Way(r, T, h, K)
  <2> HIDE DEF K
  <2>1. Relays \in SUBSET Relays
    OBVIOUS
  <2> QED BY <1>1, <1>2, <1>3, <2>1, BelowWay
<1> DEFINE N == {h[x] : x \in S \cap T}
<1>5. N \in SUBSET Nat /\ N # {}
  BY <1>2, <1>4 DEF Way
<1>6. PICK m \in N : \A k \in N : m <= k
  <2> HIDE DEF N
  <2> QED BY <1>5, LeastNatural
<1>7. PICK x \in S \cap T : m = h[x]
  OBVIOUS
<1>8. src[x] \in S /\ src[x] \in Relays /\ src[x] # Tracker
  BY NetworkAssumption DEF Circle
<1>9. src[x] \in T /\ h[src[x]] < h[x]
  BY <1>4, <1>8 DEF Way, Descends
<1>10. h[src[x]] \in N /\ h[src[x]] \in Nat /\ h[x] \in Nat
  BY <1>8, <1>9
<1>11. h[x] <= h[src[x]]
  <2> HIDE DEF N
  <2> QED BY <1>6, <1>7, <1>10
<1> QED BY <1>9, <1>10, <1>11

(* Without a relay that has missed something or must quit, no step closes  *)
(* a cycle.                                                                *)
LEMMA CircleNext == TypeOK /\ Wired /\ NoCircle /\ [Next]_vars => NoCircle'
<1> SUFFICES ASSUME TypeOK, Wired, NoCircle, [Next]_vars,
                    NEW S \in SUBSET Relays, Circle(S)'
             PROVE  FALSE
  BY DEF NoCircle
<1>1. /\ S # {}
      /\ \A x \in S : src'[x] \in S /\ x \notin missed' /\ ~Has(dn'[x], "quit")
  BY DEF Circle
<1>2. \A x \in S : src'[x] # None
  BY <1>1, NetworkAssumption DEF Nodes
<1>3. ASSUME NEW x \in S, Stays(x)
      PROVE  src[x] \in S /\ x \notin missed /\ ~Has(dn[x], "quit")
  BY <1>1, <1>3 DEF Stays
<1>4. CASE \E r \in S, n \in Nodes : Connect(r, n)
  <2> PICK r \in S, n \in Nodes : Connect(r, n)
    BY <1>4
  <2> DEFINE T == S \ {r}
  <2>1. src[r] = None /\ r # n /\ src'[r] = n /\ src' = [src EXCEPT ![r] = n]
        /\ missed \subseteq missed' /\ dn' = dn
    BY DEF Connect, TypeOK, ConnectionsOK
  <2>2. n \in T
    BY <1>1, <2>1
  <2>3. \A x \in T : src[x] = src'[x]
    BY <2>1 DEF TypeOK, ConnectionsOK
  <2>4. ~recv[r]
    <3>1. stage[r] = "none"
      BY <2>1 DEF TypeOK, ConnectionsOK
    <3> QED BY <3>1 DEF Wired, WiredAt
  <2>5. \A x \in T : src[x] # r
    <3> SUFFICES ASSUME NEW x \in T, src[x] = r PROVE FALSE
      OBVIOUS
    <3>1. WiredAt(x)
      BY DEF Wired
    <3>2. x \in missed \/ Has(dn[x], "quit")
      BY <2>1, <2>4, <3>1 DEF WiredAt, Orphan
    <3> QED BY <1>1, <2>1, <3>2
  <2>6. Circle(T)
    BY <1>1, <2>1, <2>2, <2>3, <2>5 DEF Circle
  <2>7. T \in SUBSET Relays
    OBVIOUS
  <2> QED BY <2>6, <2>7 DEF NoCircle
<1>5. CASE ~ \E r \in S, n \in Nodes : Connect(r, n)
  <2>1. \A x \in S : Stays(x)
    BY <1>2, <1>5, StaysNext
  <2>2. Circle(S)
    BY <1>1, <1>3, <2>1 DEF Circle
  <2> QED BY <2>2 DEF NoCircle
<1> QED BY <1>4, <1>5

(* However many relays change their sources, and in whatever order they    *)
(* read what is sent to them: hosts that feed each other in a circle       *)
(* always have one among them that must quit, or that was not told when    *)
(* its source lost its own, or that chose a source without one.            *)
THEOREM CyclesOnlyIfUntold == Spec => []CyclesAreUntold
<1>1. Init => TypeOK /\ Wired /\ NoCircle
  BY TypeInit, WiredInit, CircleInit
<1>2. TypeOK /\ Wired /\ NoCircle /\ [Next]_vars => (Wired /\ NoCircle)'
  BY WiredNext, CircleNext
<1>3. NoCircle => CyclesAreUntold
  <2> SUFFICES ASSUME NoCircle, NEW S \in SUBSET Relays,
                      S # {}, \A x \in S : src[x] \in S
               PROVE  \E x \in S : x \in missed \/ MustQuit(x)
    BY DEF CyclesAreUntold
  <2>1. \E x \in S : x \in missed \/ Has(dn[x], "quit")
    BY DEF NoCircle, Circle
  <2> QED BY <2>1, MustQuitHas
<1> QED BY <1>1, <1>2, <1>3, TypeCorrect, PTL DEF Spec

-----------------------------------------------------------------------------
(* News.                                                                   *)

(* The relays S, at most h hops from the tracker, get its broadcasts: they *)
(* have a stream, have not missed anything and need not quit.              *)
Tuned(S, h) ==
    /\ Descends(S, h, InfoTTL)
    /\ \A x \in S : HasStream(x) /\ x \notin missed /\ ~Has(dn[x], "quit")

(* Version v is as good as what host n has to tell.                        *)
Good(n, v) == IF n = Tracker THEN v >= told ELSE v = info[n]

(* The news on the connection of x goes as far as it must, and when x has  *)
(* read all, it knows what its source knows.                               *)
Given(x, k) ==
    /\ GoFar(dn[x], InfoTTL - k + 1)
    /\ \A v : LastNews(dn[x], v) => Good(src[x], v)
    /\ NoNews(dn[x]) /\ stage[x] = "sending" => Good(src[x], info[x])

NewsInv ==
    \A S \in SUBSET Relays, h \in [Relays -> Nat] :
        Tuned(S, h) => \A x \in S : Given(x, h[x])

(* Nothing changes that x can read or is told.                             *)
LEMMA GivenSame ==
    ASSUME NEW x \in Relays, NEW k, Given(x, k),
           dn'[x] = dn[x], src'[x] = src[x],
           stage'[x] = "sending" => stage[x] = "sending",
           info'[x] = info[x],
           src[x] = Tracker => told' = told,
           src[x] # Tracker => info'[src[x]] = info[src[x]]
    PROVE  Given(x, k)'
<1>1. \A v : Good(src[x], v) => Good(src[x], v)'
  BY DEF Good
<1> QED BY <1>1 DEF Given

(* A packet that is no news is sent to x.                                  *)
LEMMA GivenSent ==
    ASSUME NEW x \in Relays, NEW k \in Int, Given(x, k), dn[x] \in Seq(DownPacket),
           NEW p \in DownPacket, p.kind \in {"push", "quit"},
           dn'[x] = dn[x] \/ dn'[x] = Append(dn[x], p),
           src'[x] = src[x], stage'[x] = stage[x], info' = info, told' = told
    PROVE  Given(x, k)'
<1> DEFINE e == Append(dn[x], p)
           t == InfoTTL - k + 1
<1>1. t \in Int
  BY NetworkAssumption
<1>2. /\ \A u \in Int : GoFar(dn[x], u) /\ (p.kind = "info" => p.ttl >= u)
                        => GoFar(e, u)
      /\ ~IsNews(p) => /\ NoNews(e) => NoNews(dn[x])
                       /\ \A v : LastNews(e, v) => LastNews(dn[x], v)
  BY Appended
<1>3. ~IsNews(p) /\ p.kind # "info"
  BY DEF IsNews
<1> HIDE DEF e, t
<1>4. GoFar(dn[x], t)
  BY DEF Given, t
<1>5. GoFar(e, t)
  BY <1>1, <1>2, <1>3, <1>4
<1>6. CASE dn'[x] = dn[x]
  BY <1>6, GivenSame
<1>7. CASE dn'[x] = e
  <2>1. \A v : Good(src[x], v) => Good(src[x], v)'
    BY DEF Good
  <2>2. \A v : LastNews(dn'[x], v) => LastNews(dn[x], v)
    BY <1>2, <1>3, <1>7
  <2>3. NoNews(dn'[x]) => NoNews(dn[x])
    BY <1>2, <1>3, <1>7
  <2>4. GoFar(dn'[x], InfoTTL - k + 1)
    BY <1>5, <1>7 DEF t
  <2> QED BY <2>1, <2>2, <2>3, <2>4 DEF Given
<1> QED BY <1>6, <1>7 DEF e

(* The relays that are tuned in have sources that are playing.             *)
LEMMA TunedPlays ==
    ASSUME Wired, NEW S \in SUBSET Relays, NEW h, Tuned(S, h), NEW x \in S
    PROVE  src[x] = Tracker \/ (src[x] \in S /\ src[x] \in Relays /\ recv[src[x]])
<1>1. WiredAt(x)
  BY DEF Wired
<1> QED BY <1>1 DEF Tuned, Descends, WiredAt, Orphan, HasStream

(* A stream is there before the step, or is opened by it.                  *)
LEMMA StreamBefore ==
    ASSUME TypeOK, [Next]_vars, NEW x \in Relays, HasStream(x)'
    PROVE  /\ HasStream(x) \/ OpenStream(x)
           /\ ~ \E n \in Nodes : Connect(x, n)
<1> USE DEF TypeOK
<1>1. stage'[x] \in {"open", "sending"}
  BY DEF HasStream
<1>2. ASSUME NEW n \in Nodes, NEW r \in Relays, Connect(r, n)
      PROVE  r # x /\ HasStream(x)
  BY <1>1, <1>2 DEF Connect, ConnectionsOK, HasStream
<1>3. ASSUME NEW r \in Relays, OpenStream(r), r # x PROVE HasStream(x)
  BY <1>1, <1>3 DEF OpenStream, ConnectionsOK, HasStream
<1>4. ASSUME NEW r \in Relays, SendChan(r) PROVE HasStream(x)
  BY <1>1, <1>4 DEF SendChan, ConnectionsOK, HasStream
<1>5. ASSUME NEW r \in Relays, LoseSource(r) PROVE HasStream(x)
  BY <1>1, <1>5, LostStep DEF HasStream
<1>6. ASSUME NEW r \in Relays, Loses(r)
      PROVE  HasStream(x)
  BY <1>5, <1>6 DEF Loses, Cut, GiveUpWaiting, AutoBump, ReadQuit
<1>7. ASSUME NEW r \in Relays, ReadUp(r) PROVE HasStream(x)
  BY <1>1, <1>7 DEF ReadUp, ConnectionsOK, HasStream
<1>8. ASSUME stage' = stage PROVE HasStream(x)
  BY <1>1, <1>8 DEF HasStream
<1>9. ASSUME NEW r \in Relays,
             \/ UpdateStatus(r) \/ PushRequest(r)
             \/ ReadChan(r) \/ ReadBroadcast(r) \/ ReadHead(r)
      PROVE  HasStream(x)
  BY <1>8, <1>9 DEF UpdateStatus, PushRequest, ReadChan, ReadBroadcast, ReadHead
<1>10. ASSUME UpdateInfo \/ TimePasses \/ UNCHANGED vars
       PROVE  HasStream(x)
  <2>1. stage' = stage
    BY <1>10 DEF UpdateInfo, TimePasses, vars
  <2> QED BY <1>8, <2>1
<1>11. ASSUME NEW r \in Relays, HeaderThere(r) PROVE HasStream(x)
  BY <1>1, <1>11 DEF HeaderThere, ConnectionsOK, HasStream
<1>12. HasStream(x) \/ OpenStream(x)
  BY <1>2, <1>3, <1>4, <1>6, <1>7, <1>9, <1>10, <1>11
     DEF Next, GoOn, ReadDown, Loses
<1> QED BY <1>2, <1>12

(* No relay is connected at the start, or all is told.                     *)
LEMMA NewsInit == Init => NewsInv
<1> SUFFICES ASSUME Init, NEW S \in SUBSET Relays, NEW h \in [Relays -> Nat],
                    Tuned(S, h), NEW x \in S
             PROVE  Given(x, h[x])
  BY DEF NewsInv
<1>1. dn[x] = <<>> /\ told = 0 /\ info = [n \in Nodes |-> 0]
  BY DEF Init
<1>2. src[x] \in Nodes /\ x \in Nodes
  BY DEF Tuned, Descends, Nodes
<1>3. Good(src[x], info[x])
  BY <1>1, <1>2 DEF Good
<1> QED BY <1>1, <1>3, Emptied DEF Given

(* Streams begin and end.                                                  *)
LEMMA NewsConnection ==
    ASSUME TypeOK, Wired, NEW S \in SUBSET Relays, NEW h \in [Relays -> Nat],
           Tuned(S, h), Tuned(S, h)', NEW x \in S, Given(x, h[x]),
           NEW r \in Relays,
           \/ \E n \in Nodes : Connect(r, n)
           \/ HeaderThere(r) \/ OpenStream(r) \/ SendChan(r) \/ LoseSource(r)
    PROVE  Given(x, h[x])'
<1> USE DEF TypeOK
<1>0. HasStream(x) /\ dn[x] \in Seq(DownPacket) /\ src[x] \in Nodes
  BY DEF Tuned, QueuesOK, ConnectionsOK, Descends, Nodes
<1>1. CASE (\E n \in Nodes : Connect(r, n)) \/ HeaderThere(r) \/ OpenStream(r)
  <2>1. stage[r] \in {"none", "accepted", "ready"}
    BY <1>1 DEF Connect, HeaderThere, OpenStream, ConnectionsOK
  <2>2. x # r
    BY <1>0, <2>1 DEF HasStream
  <2>3. /\ dn'[x] = dn[x] /\ src'[x] = src[x] /\ stage'[x] = stage[x]
        /\ info' = info /\ told' = told
    BY <1>1, <2>2 DEF Connect, HeaderThere, OpenStream, ConnectionsOK
  <2> QED BY <2>3, GivenSame
<1>2. CASE SendChan(r) /\ x # r
  <2>1. /\ dn'[x] = dn[x] /\ src'[x] = src[x] /\ stage'[x] = stage[x]
        /\ info' = info /\ told' = told
    BY <1>2 DEF SendChan, ConnectionsOK, QueuesOK
  <2> QED BY <2>1, GivenSame
<1>3. CASE SendChan(r) /\ x = r
  <2> DEFINE p == Chan(src[r])
             e == <<p>> \o dn[r]
  <2>1. p \in DownPacket /\ p.kind = "chan" /\ p.dest = None /\ p.ver = info[src[r]]
    BY <1>0, <1>3, PacketType DEF Chan, Broadcast, DownPacket, NewsOK
  <2>2. /\ \A t : GoFar(dn[r], t) => GoFar(e, t)
        /\ \A v : LastNews(e, v)
                  => LastNews(dn[r], v) \/ (NoNews(dn[r]) /\ v = p.ver)
        /\ ~NoNews(e)
    BY <1>0, <1>3, <2>1, Begun
  <2>3. dn'[r] = e /\ UNCHANGED <<src, info, told>>
    BY <1>3 DEF SendChan, QueuesOK
  <2> HIDE DEF e, p
  <2>4. Good(src[r], p.ver)
    BY <2>1 DEF Wired, Good
  <2>5. \A v : Good(src[r], v) => Good(src[r], v)'
    BY <2>3 DEF Good
  <2> QED BY <1>3, <2>2, <2>3, <2>4, <2>5 DEF Given
<1>4. CASE LoseSource(r)
  <2>1. x # r
    <3>1. src'[x] # None
      BY NetworkAssumption DEF Tuned, Descends, Nodes
    <3> QED BY <1>4, <3>1, LostStep
  <2> DEFINE p == Quit(r)
  <2>2. /\ src'[x] = src[x] /\ stage'[x] = stage[x]
        /\ dn'[x] = dn[x] \/ dn'[x] = Append(dn[x], p)
        /\ p \in DownPacket /\ p.kind = "quit"
    BY <1>4, <2>1, LostStep
  <2> HIDE DEF p
  <2>3. info' = info /\ told' = told
    BY <1>4 DEF LoseSource
  <2> QED BY <1>0, <2>2, <2>3, GivenSent
<1> QED BY <1>1, <1>2, <1>3, <1>4

(* Broadcasts begin.                                                       *)
LEMMA NewsBegin ==
    ASSUME TypeOK, Wired, NEW S \in SUBSET Relays, NEW h \in [Relays -> Nat],
           Tuned(S, h), NEW x \in S, Given(x, h[x]),
           \/ \E r \in Relays : UpdateStatus(r) \/ PushRequest(r) \/ ReadHead(r)
           \/ UpdateInfo \/ TimePasses
    PROVE  Given(x, h[x])'
<1> USE DEF TypeOK
<1>0. /\ HasStream(x) /\ dn[x] \in Seq(DownPacket)
      /\ dn \in [Relays -> Seq(DownPacket)]
      /\ src[x] \in Nodes /\ x \in Nodes /\ h[x] \in 1 .. InfoTTL
      /\ Tracker \in Nodes /\ x # Tracker /\ InfoTTL \in Nat /\ x \in Relays
  BY NetworkAssumption DEF Tuned, QueuesOK, ConnectionsOK, Descends, Nodes
<1>1. src' = src /\ stage' = stage
  BY DEF UpdateStatus, PushRequest, ReadHead, UpdateInfo, TimePasses
<1>2. CASE (\E r \in Relays : UpdateStatus(r) \/ ReadHead(r)) \/ TimePasses
  <2>1. dn' = dn /\ info' = info /\ told' = told
    BY <1>2 DEF UpdateStatus, ReadHead, TimePasses
  <2> QED BY <1>1, <2>1, GivenSame
<1>3. ASSUME NEW p \in DownPacket, p.kind = "push",
             dn' = SentDown(dn, Tracker, p, Tracker), info' = info, told' = told
      PROVE  Given(x, h[x])'
  <2> DEFINE s == SentDown(dn, Tracker, p, Tracker)
  <2>0. \/ SentDown(dn, Tracker, p, Tracker)[x] = dn[x]
        \/ SentDown(dn, Tracker, p, Tracker)[x] = Append(dn[x], p)
    BY <1>0, FromTracker
  <2>1. s[x] = dn[x] \/ s[x] = Append(dn[x], p)
    BY <2>0
  <2>2. dn' = s
    BY <1>3
  <2> HIDE DEF s
  <2> QED BY <1>0, <1>1, <1>3, <2>1, <2>2, GivenSent
<1>4. CASE \E r \in Relays : PushRequest(r)
  <2> PICK r \in Relays : PushRequest(r)
    BY <1>4
  <2> DEFINE p == Broadcast("push", Tracker, PushTTL, r, 0)
  <2>1. p \in DownPacket /\ p.kind = "push"
    BY PacketType, NetworkAssumption DEF DownPacket, Nodes, Broadcast
  <2>2. /\ dn' = SentDown(dn, Tracker, p, Tracker)
        /\ info' = info /\ told' = told
    BY DEF PushRequest
  <2> HIDE DEF p
  <2> QED BY <1>3, <2>1, <2>2
<1>5. CASE UpdateInfo
  <2> DEFINE v == info[Tracker] + 1
             p == Broadcast("info", Tracker, InfoTTL, None, v)
             s == SentDown(dn, Tracker, p, Tracker)
  <2>0. v \in 0 .. MaxSent
    <3>1. left.sent > 0
      BY <1>5 DEF UpdateInfo
    <3>2. info[Tracker] \in 0 .. MaxSent /\ left.sent \in 0 .. MaxSent
          /\ info[Tracker] + left.sent <= MaxSent
      BY <1>0 DEF NewsOK, BoundsOK
    <3> QED BY <3>1, <3>2, NetworkAssumption
  <2>1. v \in 0 .. MaxSent /\ info' = [info EXCEPT ![Tracker] = v]
    BY <1>5, <2>0 DEF UpdateInfo
  <2>2. /\ p \in DownPacket /\ p.kind = "info" /\ p.dest = None /\ p.ver = v
        /\ p.ttl = InfoTTL
    BY <1>0, <2>1, PacketType, NetworkAssumption DEF DownPacket, Broadcast
  <2>3. \/ dn' = dn /\ told' = told
        \/ dn' = s /\ told' = v
    BY <1>5 DEF UpdateInfo
  <2>4. src[x] = Tracker => s[x] = Append(dn[x], p)
    <3>1. Routed(p, x, rtDn[x])
      BY <2>2 DEF Routed
    <3> HIDE DEF p
    <3>2. src[x] = Tracker
          => SentDown(dn, Tracker, p, Tracker)[x] = Append(dn[x], p)
      BY <1>0, <3>1, FromTracker
    <3> QED BY <3>2
  <2>5. src[x] # Tracker => s[x] = dn[x]
    <3> HIDE DEF p
    <3>1. src[x] # Tracker => SentDown(dn, Tracker, p, Tracker)[x] = dn[x]
      BY <1>0, FromTracker
    <3> QED BY <3>1
  <2>6. /\ info'[x] = info[x]
        /\ src[x] # Tracker => info'[src[x]] = info[src[x]]
    BY <1>0, <2>1 DEF NewsOK
  <2> HIDE DEF p, s
  <2>7. CASE dn'[x] = dn[x] /\ (src[x] = Tracker => told' = told)
    BY <1>1, <2>6, <2>7, GivenSame
  <2>8. CASE src[x] = Tracker /\ dn' = s /\ told' = v
    <3> DEFINE e == Append(dn[x], p)
               t == InfoTTL - h[x] + 1
    <3>1. t \in Int /\ p.ttl >= t
      BY <1>0, <2>2
    <3>2. /\ \A u \in Int : GoFar(dn[x], u) /\ (p.kind = "info" => p.ttl >= u)
                            => GoFar(e, u)
          /\ IsNews(p) => ~NoNews(e) /\ \A w : LastNews(e, w) => w = p.ver
      BY <1>0, <2>2, Appended
    <3>3. IsNews(p)
      BY <2>2 DEF IsNews
    <3> HIDE DEF e, t, v
    <3>4. GoFar(e, t)
      BY <3>1, <3>2 DEF Given, t
    <3>5. dn'[x] = e
      BY <2>4, <2>8 DEF e
    <3>6. \A w : LastNews(dn'[x], w) => Good(src[x], w)'
      <4>1. \A w : LastNews(dn'[x], w) => w = told'
        BY <2>2, <2>8, <3>2, <3>3, <3>5
      <4>2. v >= v
        BY <2>1
      <4> QED BY <1>1, <2>8, <4>1, <4>2 DEF Good
    <3>7. GoFar(dn'[x], InfoTTL - h[x] + 1)
      BY <3>4, <3>5 DEF t
    <3> QED BY <3>2, <3>3, <3>5, <3>6, <3>7 DEF Given
  <2> QED BY <2>3, <2>5, <2>7, <2>8
<1> QED BY <1>2, <1>4, <1>5

(* Packets arrive: at the source, ...                                      *)
LEMMA NewsReadUp ==
    ASSUME TypeOK, NEW S \in SUBSET Relays, NEW h \in [Relays -> Nat],
           Tuned(S, h)', NEW x \in S, Given(x, h[x]),
           NEW r \in Relays, ReadUp(r)
    PROVE  Given(x, h[x])'
<1> USE DEF TypeOK
<1>1. src' = src /\ info' = info /\ told' = told
  BY DEF ReadUp
<1>2. HasStream(x)'
  BY DEF Tuned
<1>3. Head(up[r]) \in UpPacket
  BY QueueRead DEF ReadUp, QueuesOK
<1>4. Head(up[r]).kind = "host"
  BY <1>3 DEF UpPacket, Packet
<1>5. dn'[x] = dn[x] /\ stage'[x] = stage[x]
  <2>1. CASE Head(up[r]).from # src[r]
    BY <1>4, <2>1 DEF ReadUp, Forward
  <2>2. CASE Head(up[r]).from = src[r]
    <3>1. stage' = [stage EXCEPT ![r] = "closed"]
          /\ \E k \in 0 .. Len(dn[r]) :
                dn' = [dn EXCEPT ![r] = SubSeq(@, 1, k) \o <<Quit(src[r])>>]
      BY <2>2 DEF ReadUp
    <3>2. x # r
      BY <1>2, <3>1 DEF HasStream, ConnectionsOK
    <3> QED BY <3>1, <3>2 DEF ConnectionsOK, QueuesOK
  <2> QED BY <2>1, <2>2
<1> QED BY <1>1, <1>5, GivenSame

(* ... and at the relay, which passes them on to the relays below.         *)
LEMMA NewsReadDown ==
    ASSUME TypeOK, Wired, NEW S \in SUBSET Relays, NEW h \in [Relays -> Nat],
           Tuned(S, h), \A y \in S : Given(y, h[y]), NEW x \in S,
           NEW r \in Relays, ReadChan(r) \/ ReadBroadcast(r)
    PROVE  Given(x, h[x])'
<1> USE DEF TypeOK
<1> DEFINE p == Head(dn[r])
           e == Tail(dn[r])
<1>0. /\ HasStream(x) /\ dn[x] \in Seq(DownPacket)
      /\ src[x] \in Nodes /\ x \in Nodes /\ h[x] \in 1 .. InfoTTL
      /\ x # Tracker /\ r # Tracker /\ r \in Nodes /\ InfoTTL \in Nat
  BY NetworkAssumption DEF Tuned, QueuesOK, ConnectionsOK, Descends, Nodes
<1>1. src' = src /\ stage' = stage /\ told' = told
  BY DEF ReadChan, ReadBroadcast
<1>2. dn[r] \in Seq(DownPacket) /\ dn[r] # <<>> /\ dn'[r] = e
  <2>1. CASE ReadChan(r)
    BY <2>1 DEF ReadChan, Readable, QueuesOK
  <2>2. CASE ReadBroadcast(r)
    BY <2>2, PassedOn DEF QueuesOK
  <2> QED BY <2>1, <2>2
<1>3. /\ p \in DownPacket
      /\ p.kind = "chan" => Has(dn[r], "chan")
      /\ Sound(dn[r]) => (p.kind # "push" => p.dest = None)
      /\ \A t \in Int : GoFar(dn[r], t)
             => GoFar(e, t) /\ (p.kind = "info" => p.ttl >= t)
      /\ \A v : LastNews(e, v) => LastNews(dn[r], v)
      /\ NoNews(e) => NoNews(dn[r]) \/ (IsNews(p) /\ LastNews(dn[r], p.ver))
  BY <1>2, Taken
<1> HIDE DEF e
<1>4. /\ p.kind \in {"chan", "info"} => info' = [info EXCEPT ![r] = p.ver]
      /\ p.kind \notin {"chan", "info"} => info' = info
      /\ p.kind \in {"chan", "info", "push"}
  BY DEF ReadChan, ReadBroadcast
<1> HIDE DEF p
<1>5. /\ \A n \in Nodes : n # r => info'[n] = info[n]
      /\ p.kind \in {"chan", "info"} => info'[r] = p.ver
      /\ p.kind = "push" => info'[r] = info[r]
  BY <1>0, <1>4 DEF NewsOK
<1>6. Descends(S, h, InfoTTL)
  BY DEF Tuned
<1>7. \A y \in S : src[y] # y
  <2> SUFFICES ASSUME NEW y \in S, src[y] = y PROVE FALSE
    OBVIOUS
  <2>1. h[y] < h[y] /\ h[y] \in Nat
    BY <1>6, NetworkAssumption DEF Descends
  <2> QED BY <2>1
<1>8. CASE x = r
  <2>1. \A v : Good(src[x], v) => Good(src[x], v)'
    BY <1>0, <1>1, <1>5, <1>7, <1>8 DEF Good
  <2> DEFINE t == InfoTTL - h[x] + 1
  <2>2. t \in Int /\ GoFar(dn[x], t)
    BY <1>0 DEF Given
  <2> HIDE DEF t
  <2>3. GoFar(dn'[x], t)
    BY <1>2, <1>3, <1>8, <2>2
  <2>4. \A v : LastNews(dn'[x], v) => Good(src[x], v)'
    BY <1>2, <1>3, <1>8, <2>1 DEF Given
  <2>5. ASSUME NoNews(dn'[x]), stage'[x] = "sending"
        PROVE  Good(src[x], info'[x])
    <3>1. CASE IsNews(p) /\ LastNews(dn[r], p.ver)
      <4>1. info'[x] = p.ver
        BY <1>5, <1>8, <3>1 DEF IsNews
      <4> QED BY <1>8, <3>1, <4>1 DEF Given
    <3>2. CASE NoNews(dn[r])
      <4>1. ~IsNews(p)
        <5>1. 1 \in 1 .. Len(dn[r]) /\ p = dn[r][1]
          BY <1>2 DEF p
        <5> QED BY <3>2, <5>1 DEF NoNews
      <4>2. info'[x] = info[x]
        BY <1>4, <1>5, <1>8, <4>1 DEF IsNews
      <4> QED BY <1>1, <1>8, <2>5, <3>2, <4>2 DEF Given
    <3> QED BY <1>2, <1>3, <1>8, <2>5, <3>1, <3>2
  <2>6. NoNews(dn'[x]) /\ stage'[x] = "sending" => Good(src[x], info[x])'
    <3>1. \A v : Good(src[x], v) => IF src[x] = Tracker THEN v >= told ELSE v = info'[src[x]]
      BY <1>0, <1>5, <1>7, <1>8 DEF Good
    <3> QED BY <1>1, <2>5, <3>1 DEF Good
  <2> QED BY <2>3, <2>4, <2>6 DEF Given, t
<1>9. CASE x # r /\ src[x] # r
  <2>1. dn'[x] = dn[x]
    <3>1. CASE ReadChan(r)
      BY <1>9, <3>1 DEF ReadChan, QueuesOK
    <3>2. CASE ReadBroadcast(r)
      BY <1>9, <3>2, PassedOn
    <3> QED BY <3>1, <3>2
  <2>2. info'[x] = info[x] /\ info'[src[x]] = info[src[x]]
    BY <1>0, <1>5, <1>9
  <2> QED BY <1>1, <2>1, <2>2, GivenSame
<1>10. CASE x # r /\ src[x] = r
  <2>1. r \in S /\ recv[r] /\ h[r] < h[x] /\ h[r] \in 1 .. InfoTTL
    <3>1. src[x] = Tracker \/ (src[x] \in S /\ src[x] \in Relays /\ recv[src[x]])
      BY TunedPlays
    <3> QED BY <1>0, <1>6, <1>10, <3>1 DEF Descends
  <2>2. WiredAt(r) /\ Given(r, h[r]) /\ Given(x, h[x])
    BY <2>1 DEF Wired
  <2>3. p.kind # "chan" /\ ReadBroadcast(r)
    <3>1. p.kind # "chan"
      BY <1>3, <2>1, <2>2 DEF WiredAt
    <3> QED BY <3>1 DEF ReadChan, p
  <2> DEFINE f == Forwarded(p)
             d == Append(dn[x], f)
  <2>4. /\ dn'[x] = dn[x] \/ dn'[x] = d
        /\ dn'[x] = dn[x] \/ GoesOn(r, p)
        /\ GoesOn(r, p) => f \in DownPacket
        /\ GoesOn(r, p) /\ x # src[r] /\ Routed(f, x, rtDn[x]) => dn'[x] = d
        /\ f.kind = p.kind /\ f.dest = p.dest /\ f.ver = p.ver /\ f.ttl = p.ttl - 1
    BY <1>0, <1>10, <2>3, PassedOn DEF p
  <2> HIDE DEF f, d
  <2>5. info'[x] = info[x]
    BY <1>0, <1>5, <1>10
  <2>6. CASE p.kind = "push"
    <3>1. info' = info
      BY <1>4, <2>6
    <3>2. dn'[x] = dn[x] \/ (dn'[x] = Append(dn[x], f) /\ f \in DownPacket)
      BY <2>4 DEF d
    <3>3. h[x] \in Int
      OBVIOUS
    <3>4. CASE dn'[x] = dn[x]
      BY <1>1, <2>2, <3>1, <3>4, GivenSame
    <3>5. CASE dn'[x] = Append(dn[x], f) /\ f \in DownPacket
      BY <1>0, <1>1, <2>2, <2>4, <2>6, <3>1, <3>3, <3>5, GivenSent
    <3> QED BY <3>2, <3>4, <3>5
  <2>7. CASE p.kind = "info"
    <3> DEFINE s == InfoTTL - h[r] + 1
               t == InfoTTL - h[x] + 1
    <3>0. s \in Int /\ t \in Int /\ s >= 2 /\ s >= t + 1
      BY <1>0, <2>1
    <3>1. GoFar(dn[r], s) /\ GoFar(dn[x], t)
      BY <2>2 DEF Given
    <3> HIDE DEF s, t
    <3>2. p.ttl >= s /\ p.ttl \in Nat
      BY <1>3, <2>7, <3>0, <3>1 DEF DownPacket, Packet
    <3>3. f.ttl > 0 /\ f.ttl >= t
      BY <2>4, <3>0, <3>2
    <3>4. p.dest = None /\ None # r
      BY <1>3, <2>2, <2>7, NetworkAssumption DEF WiredAt, Nodes
    <3>5. GoesOn(r, p)
      BY <3>3, <3>4 DEF GoesOn, f
    <3>6. x # src[r]
      <4> SUFFICES ASSUME x = src[r] PROVE FALSE
        OBVIOUS
      <4>1. h[x] < h[r]
        BY <1>0, <1>6, <2>1 DEF Descends
      <4> QED BY <1>0, <2>1, <4>1
    <3>7. Routed(f, x, rtDn[x])
      BY <2>4, <3>4 DEF Routed
    <3>8. dn'[x] = d /\ f \in DownPacket /\ IsNews(f)
      BY <2>4, <2>7, <3>5, <3>6, <3>7 DEF IsNews
    <3>9. /\ \A u \in Int : GoFar(dn[x], u) /\ (f.kind = "info" => f.ttl >= u)
                            => GoFar(d, u)
          /\ IsNews(f) => ~NoNews(d) /\ \A v : LastNews(d, v) => v = f.ver
      BY <1>0, <3>8, Appended DEF d
    <3>10. GoFar(dn'[x], InfoTTL - h[x] + 1)
      <4>1. GoFar(d, t)
        BY <3>0, <3>1, <3>3, <3>9
      <4> QED BY <3>8, <4>1 DEF t
    <3>11. \A v : LastNews(dn'[x], v) => Good(src[x], v)'
      <4>1. \A v : LastNews(dn'[x], v) => v = info'[r]
        BY <1>5, <2>4, <2>7, <3>8, <3>9
      <4> QED BY <1>0, <1>1, <1>10, <4>1 DEF Good
    <3> QED BY <3>8, <3>9, <3>10, <3>11 DEF Given
  <2> QED BY <1>4, <2>3, <2>6, <2>7
<1> QED BY <1>8, <1>9, <1>10

(* Every step keeps the news on its way.                                   *)
LEMMA NewsNext == TypeOK /\ Wired /\ NewsInv /\ [Next]_vars => NewsInv'
<1> SUFFICES ASSUME TypeOK, Wired, NewsInv, [Next]_vars,
                    NEW S \in SUBSET Relays, NEW h \in [Relays -> Nat],
                    Tuned(S, h)', NEW x \in S
             PROVE  Given(x, h[x])'
  BY DEF NewsInv
<1>1. ASSUME NEW y \in S
      PROVE  /\ Stays(y) /\ y \in Relays
             /\ src[y] = Tracker \/ (src[y] \in S /\ h[src[y]] < h[y])
             /\ h[y] \in 1 .. InfoTTL /\ y \notin missed /\ ~Has(dn[y], "quit")
             /\ HasStream(y) \/ OpenStream(y)
  <2>1. HasStream(y)' /\ y \notin missed' /\ ~Has(dn'[y], "quit")
        /\ h[y] \in 1 .. InfoTTL
        /\ (src'[y] = Tracker \/ (src'[y] \in S /\ h[src'[y]] < h[y]))
    BY DEF Tuned, Descends
  <2>2. src'[y] # None
    BY <2>1, NetworkAssumption DEF Nodes
  <2>3. y \in Relays
    OBVIOUS
  <2>4. (HasStream(y) \/ OpenStream(y)) /\ ~ \E n \in Nodes : Connect(y, n)
    BY <2>1, <2>3, StreamBefore
  <2>5. Stays(y)
    BY <2>2, <2>3, <2>4, StaysNext
  <2> QED BY <2>1, <2>3, <2>4, <2>5 DEF Stays
<1>2. CASE \E r \in S : OpenStream(r)
  <2> PICK r \in S : OpenStream(r)
    BY <1>2
  <2> DEFINE T == S \ {r}
  <2>1. stage[r] = "ready" /\ ~recv[r] /\ dn[r] = <<>>
    <3>1. stage[r] = "ready"
      BY DEF OpenStream
    <3> QED BY <3>1 DEF Wired, WiredAt
  <2>2. UNCHANGED <<src, dn, info, told>> /\ stage' = [stage EXCEPT ![r] = "open"]
    BY DEF OpenStream
  <2>3. CASE x = r
    <3>1. stage'[x] # "sending" /\ dn'[x] = <<>>
      BY <2>1, <2>2, <2>3 DEF TypeOK, ConnectionsOK
    <3> QED BY <3>1, Emptied DEF Given
  <2>4. CASE x # r
    <3>1. ASSUME NEW y \in T
          PROVE  HasStream(y) /\ (src[y] = Tracker \/ src[y] \in T)
      <4>1. HasStream(y)
        <5>1. ~OpenStream(y)
          BY <2>2 DEF OpenStream, TypeOK, ConnectionsOK
        <5> QED BY <1>1, <5>1
      <4>2. src[y] # r
        <5>1. WiredAt(y) /\ y \in Relays
          BY DEF Wired
        <5> QED BY <1>1, <2>1, <4>1, <5>1 DEF WiredAt, Orphan, HasStream
      <4> QED BY <1>1, <4>1, <4>2
    <3>2. Tuned(T, h)
      BY <1>1, <3>1 DEF Tuned, Descends
    <3>3. Given(x, h[x])
      BY <2>4, <3>2 DEF NewsInv
    <3>4. stage'[x] = stage[x] /\ x \in Relays
      BY <2>2, <2>4 DEF TypeOK, ConnectionsOK
    <3> QED BY <2>2, <3>3, <3>4, GivenSame
  <2> QED BY <2>3, <2>4
<1>3. CASE ~ \E r \in S : OpenStream(r)
  <2>1. Tuned(S, h)
    BY <1>1, <1>3 DEF Tuned, Descends
  <2>2. \A y \in S : Given(y, h[y])
    BY <2>1 DEF NewsInv
  <2>3. CASE UNCHANGED vars
    BY <2>2, <2>3, GivenSame DEF vars
  <2>4. ASSUME NEW r \in Relays, Loses(r)
        PROVE  Given(x, h[x])'
    <3>1. LoseSource(r)
      BY <2>4 DEF Loses, Cut, GiveUpWaiting, AutoBump, ReadQuit
    <3> QED BY <2>1, <2>2, <3>1, NewsConnection
  <2>5. ASSUME NEW r \in Relays,
               \/ \E n \in Nodes : Connect(r, n)
               \/ HeaderThere(r) \/ OpenStream(r) \/ SendChan(r)
        PROVE  Given(x, h[x])'
    BY <2>1, <2>2, <2>5, NewsConnection
  <2>6. ASSUME \/ \E r \in Relays : UpdateStatus(r) \/ PushRequest(r) \/ ReadHead(r)
               \/ UpdateInfo \/ TimePasses
        PROVE  Given(x, h[x])'
    BY <2>1, <2>2, <2>6, NewsBegin
  <2>7. ASSUME NEW r \in Relays, ReadUp(r) PROVE Given(x, h[x])'
    BY <2>2, <2>7, NewsReadUp
  <2>8. ASSUME NEW r \in Relays, ReadChan(r) \/ ReadBroadcast(r)
        PROVE  Given(x, h[x])'
    BY <2>1, <2>2, <2>8, NewsReadDown
  <2> QED BY <2>3, <2>4, <2>5, <2>6, <2>7, <2>8 DEF Next, GoOn, ReadDown, Loses
<1> QED BY <1>2, <1>3

(* A relay on whose way nothing is coming knows the last news.             *)
LEMMA NewsReached == TypeOK /\ Wired /\ NewsInv => NewsOnItsWay
<1> DEFINE T == {x \in Told : UpToDate(x)}
<1> SUFFICES ASSUME TypeOK, Wired, NewsInv,
                    NEW r \in Below(Tracker, T, InfoTTL)
             PROVE  info[r] >= told
  BY DEF NewsOnItsWay
<1>1. T \in SUBSET Relays /\ InfoTTL \in Nat /\ Tracker \in Nodes
  BY NetworkAssumption DEF Told, Nodes
<1>2. \A x \in T : /\ HasStream(x) /\ x \notin missed /\ ~Has(dn[x], "quit")
                   /\ stage[x] = "sending" /\ NoNews(dn[x])
  <2> TAKE x \in T
  <2>1. stage[x] = "sending" /\ x \notin missed
        /\ \A i \in 1 .. Len(dn[x]) : dn[x][i].kind = "push"
    BY DEF Told, UpToDate, Coming
  <2> QED BY <2>1 DEF HasStream, Has, NoNews, IsNews
<1>3. r \in Nodes
  <2> HIDE DEF T
  <2> QED BY <1>1, BelowStep
<1>4. \A n \in Nodes : info[n] \in Nat /\ told \in Nat
  BY DEF TypeOK, NewsOK
<1>5. told <= info[Tracker]
  BY DEF Wired
<1>6. CASE r = Tracker
  BY <1>1, <1>4, <1>5, <1>6
<1>7. CASE r \in Relays
  <2>1. PICK S \in SUBSET T, h \in [Relays -> Nat] : Way(r, S, h, InfoTTL)
    <3> HIDE DEF T
    <3> QED BY <1>1, <1>7, BelowWay
  <2>2. S \in SUBSET Relays /\ Descends(S, h, InfoTTL) /\ r \in S
    BY <1>1, <2>1 DEF Way
  <2>3. Tuned(S, h)
    BY <1>2, <2>2 DEF Tuned
  <2>4. \A x \in S : Good(src[x], info[x])
    BY <1>2, <2>2, <2>3 DEF NewsInv, Given
  <2> DEFINE N == {h[x] : x \in {y \in S : ~(info[y] >= told)}}
  <2>5. ASSUME N # {} PROVE FALSE
    <3>1. N \in SUBSET Nat
      BY <2>2
    <3>2. PICK m \in N : \A k \in N : m <= k
      <4> HIDE DEF N
      <4> QED BY <2>5, <3>1, LeastNatural
    <3>3. PICK x \in S : m = h[x] /\ ~(info[x] >= told)
      OBVIOUS
    <3>4. src[x] # Tracker
      BY <2>4, <3>3 DEF Good
    <3>5. src[x] \in S /\ h[src[x]] < h[x] /\ info[x] = info[src[x]]
      BY <2>2, <2>4, <3>4 DEF Descends, Good
    <3>6. h[src[x]] \in N
      BY <3>3, <3>5
    <3>7. h[x] \in Nat /\ h[src[x]] \in Nat /\ h[x] <= h[src[x]]
      <4>1. h[x] <= h[src[x]]
        <5> HIDE DEF N
        <5> QED BY <3>2, <3>3, <3>6
      <4> QED BY <2>2, <3>5, <4>1
    <3> QED BY <3>5, <3>7
  <2> QED BY <2>2, <2>5
<1> QED BY <1>3, <1>6, <1>7 DEF Nodes

(* Whatever the tree of relays, however it changes and in whatever order   *)
(* packets are read: a relay that the tracker's broadcasts can reach, on   *)
(* whose way nothing is coming any more, knows what was broadcast last, or *)
(* newer.                                                                  *)
THEOREM NoNewsIsLost == Spec => []NewsOnItsWay
<1>1. Init => TypeOK /\ Wired /\ NewsInv
  BY TypeInit, WiredInit, NewsInit
<1>2. TypeOK /\ Wired /\ NewsInv /\ [Next]_vars => (Wired /\ NewsInv)'
  BY WiredNext, NewsNext
<1> QED BY <1>1, <1>2, NewsReached, TypeCorrect, PTL DEF Spec

-----------------------------------------------------------------------------
(* Push requests.                                                          *)

(* S is the way down to the relay that is asked for, on the connections    *)
(* that its status has come up.                                            *)
PushWay(S, h) ==
    /\ Way(push, S, h, PushTTL)
    /\ \A x \in S : stage[x] \in {"sending", "closed"} /\ push \in rtDn[x]

(* Relay y, at most k hops from the tracker, is going to read the request, *)
(* which goes far enough, or that the way is lost.                         *)
OnIt(y, k) == Has(dn[y], "quit") \/ Asks(dn[y], push, PushTTL - k + 1)

PushInv ==
    push # None =>
        \E S \in SUBSET Relays, h \in [Relays -> Nat] :
            PushWay(S, h) /\ \E y \in S : OnIt(y, h[y])

(* The way remains, and somebody on it is going to read the request.       *)
LEMMA PushKept ==
    ASSUME NEW S \in SUBSET Relays, NEW h \in [Relays -> Nat], PushWay(S, h),
           push' = push,
           \A x \in S : /\ src'[x] = src[x] /\ stage'[x] \in {"sending", "closed"}
                        /\ push \in rtDn'[x],
           NEW z \in S, OnIt(z, h[z])'
    PROVE  PushInv'
<1>1. Way(push, S, h, PushTTL)
  BY DEF PushWay
<1>2. Descends(S, h, PushTTL)'
  BY <1>1 DEF Way, Descends
<1>3. Way(push, S, h, PushTTL)'
  BY <1>1, <1>2 DEF Way
<1>4. PushWay(S, h)'
  BY <1>3 DEF PushWay
<1> QED BY <1>4 DEF PushInv

(* A packet more in the queue of y makes no difference.                    *)
LEMMA OnItSent ==
    ASSUME NEW y \in Relays, NEW k, OnIt(y, k), dn[y] \in Seq(DownPacket),
           NEW p \in DownPacket, dn'[y] = dn[y] \/ dn'[y] = Append(dn[y], p),
           push' = push
    PROVE  OnIt(y, k)'
<1> DEFINE e == Append(dn[y], p)
<1>1. /\ Has(dn[y], "quit") => Has(e, "quit")
      /\ \A r, t : Asks(dn[y], r, t) => Asks(e, r, t)
  BY Appended
<1>2. dn'[y] = dn[y] \/ dn'[y] = e
  OBVIOUS
<1> HIDE DEF e
<1> QED BY <1>1, <1>2 DEF OnIt

(* Nothing is asked for at the start.                                      *)
LEMMA PushInit == Init => PushInv
BY DEF Init, PushInv

(* Streams begin away from the way, and when one of the way ends the       *)
(* request is given up.                                                    *)
LEMMA PushConnection ==
    ASSUME TypeOK, NEW S \in SUBSET Relays, NEW h \in [Relays -> Nat],
           PushWay(S, h), NEW y \in S, OnIt(y, h[y]),
           NEW r \in Relays,
           \/ \E n \in Nodes : Connect(r, n)
           \/ HeaderThere(r) \/ OpenStream(r) \/ SendChan(r) \/ LoseSource(r)
    PROVE  PushInv'
<1> USE DEF TypeOK
<1>0. \A x \in S : stage[x] \in {"sending", "closed"} /\ push \in rtDn[x]
  BY DEF PushWay
<1>1. CASE \/ \E n \in Nodes : Connect(r, n)
           \/ HeaderThere(r) \/ OpenStream(r) \/ SendChan(r)
  <2>1. stage[r] \notin {"sending", "closed"}
    BY <1>1 DEF Connect, HeaderThere, OpenStream, SendChan, ConnectionsOK
  <2>2. r \notin S
    BY <1>0, <2>1
  <2>3. push' = push /\ rtDn' = rtDn
        /\ \A x \in S : /\ dn'[x] = dn[x] /\ src'[x] = src[x]
                        /\ stage'[x] = stage[x]
    BY <1>1, <2>2
       DEF Connect, HeaderThere, OpenStream, SendChan, ConnectionsOK, QueuesOK
  <2>4. OnIt(y, h[y])'
    BY <2>3 DEF OnIt
  <2> QED BY <1>0, <2>3, <2>4, PushKept
<1>2. CASE LoseSource(r)
  <2>1. CASE r \in S
    <3>1. push \in S /\ Way(push, S, h, PushTTL) /\ PushTTL \in Nat
      BY NetworkAssumption DEF PushWay, Way
    <3>2. push \in Below(r, Relays, PushTTL)
      BY <2>1, <3>1, WayEnd
    <3>3. push' = None
      BY <1>2, <3>2 DEF LoseSource
    <3> QED BY <3>3 DEF PushInv
  <2>2. CASE r \notin S /\ push' = push
    <3> DEFINE p == Quit(r)
    <3>1. ASSUME NEW x \in S
          PROVE  /\ src'[x] = src[x] /\ stage'[x] = stage[x] /\ rtDn'[x] = rtDn[x]
                 /\ dn'[x] = dn[x] \/ dn'[x] = Append(dn[x], p)
                 /\ p \in DownPacket
      <4>1. x \in Relays /\ x # r
        BY <2>2
      <4> QED BY <1>2, <4>1, LostStep
    <3> HIDE DEF p
    <3>2. dn[y] \in Seq(DownPacket) /\ y \in Relays
      BY DEF QueuesOK
    <3>3. OnIt(y, h[y])'
      BY <2>2, <3>1, <3>2, OnItSent
    <3> QED BY <1>0, <2>2, <3>1, <3>3, PushKept
  <2>3. CASE push' = None
    BY <2>3 DEF PushInv
  <2>4. push' = None \/ push' = push
    BY <1>2 DEF LoseSource
  <2> QED BY <2>1, <2>2, <2>3, <2>4
<1> QED BY <1>1, <1>2

(* A request is put on its way where the way begins.                       *)
LEMMA PushBegins ==
    ASSUME TypeOK, NEW r \in Relays, PushRequest(r)
    PROVE  PushInv'
<1> USE DEF TypeOK
<1>1. UNCHANGED <<src, stage, rtDn>>
  BY DEF PushRequest
<1>2. CASE r \in Below(Tracker, Route(r), PushTTL)
  <2>1. push' = r
    BY <1>2 DEF PushRequest
  <2>2. PushTTL \in Nat \ {0} /\ Route(r) \in SUBSET Relays
    BY NetworkAssumption DEF Route
  <2>3. PICK S \in SUBSET Route(r), h \in [Relays -> Nat] : Way(r, S, h, PushTTL)
    BY <1>2, <2>2, BelowWay
  <2>4. S \in SUBSET Relays /\ r \in S /\ Descends(S, h, PushTTL)
    BY <2>2, <2>3 DEF Way
  <2> DEFINE N == {h[x] : x \in S}
  <2>5. N \in SUBSET Nat /\ N # {}
    BY <2>4
  <2>6. PICK m \in N : \A k \in N : m <= k
    <3> HIDE DEF N
    <3> QED BY <2>5, LeastNatural
  <2>7. PICK y \in S : m = h[y]
    OBVIOUS
  <2>8. y \in Relays /\ h[y] \in 1 .. PushTTL /\ \A x \in S : h[y] <= h[x]
    BY <2>4, <2>6, <2>7 DEF Descends
  <2>9. src[y] = Tracker
    <3> SUFFICES ASSUME src[y] # Tracker PROVE FALSE
      OBVIOUS
    <3>1. src[y] \in S /\ h[src[y]] < h[y]
      BY <2>4 DEF Descends
    <3>2. h[src[y]] \in Nat /\ h[y] \in Nat /\ h[y] <= h[src[y]]
      BY <2>4, <2>8, <3>1
    <3> QED BY <3>1, <3>2
  <2>10. stage[y] = "sending" /\ r \in rtDn[y] /\ y # Tracker
    BY <2>8, NetworkAssumption DEF Route
  <2> DEFINE p == Broadcast("push", Tracker, PushTTL, r, 0)
  <2>11. p \in DownPacket /\ p.kind = "push" /\ p.dest = r /\ p.ttl = PushTTL
    BY <2>2, PacketType, NetworkAssumption DEF DownPacket, Nodes, Broadcast
  <2>12. dn' = SentDown(dn, Tracker, p, Tracker)
    BY DEF PushRequest
  <2>13. dn[y] \in Seq(DownPacket) /\ dn \in [Relays -> Seq(DownPacket)]
    BY <2>8 DEF QueuesOK
  <2> HIDE DEF p
  <2>14. HasStream(y) /\ Routed(p, y, rtDn[y])
    BY <2>10, <2>11 DEF HasStream, Routed
  <2>15. dn'[y] = Append(dn[y], p)
    <3>1. SentDown(dn, Tracker, p, Tracker)[y] = Append(dn[y], p)
      BY <2>8, <2>9, <2>10, <2>14, FromTracker
    <3> QED BY <2>12, <3>1
  <2> DEFINE e == Append(dn[y], p)
  <2>16. Asks(e, r, PushTTL - h[y] + 1)
    <3>1. PushTTL >= PushTTL - h[y] + 1
      BY <2>2, <2>8
    <3>2. \A q, t : p.kind = "push" /\ p.dest = q /\ p.ttl >= t => Asks(e, q, t)
      BY <2>11, <2>13, Appended
    <3> HIDE DEF e
    <3> QED BY <2>11, <3>1, <3>2
  <2>17. OnIt(y, h[y])'
    <3>1. dn'[y] = e
      BY <2>15
    <3> HIDE DEF e
    <3> QED BY <2>1, <2>16, <3>1 DEF OnIt
  <2>18. Descends(S, h, PushTTL)'
    BY <1>1, <2>4 DEF Descends
  <2>19. Way(push, S, h, PushTTL)'
    BY <1>1, <2>1, <2>3, <2>18 DEF Way
  <2>20. \A x \in S : stage'[x] \in {"sending", "closed"} /\ push' \in rtDn'[x]
    BY <1>1, <2>1 DEF Route
  <2>21. PushWay(S, h)'
    BY <2>19, <2>20 DEF PushWay
  <2> QED BY <2>4, <2>17, <2>21 DEF PushInv
<1>3. CASE r \notin Below(Tracker, Route(r), PushTTL)
  BY <1>3 DEF PushRequest, PushInv
<1> QED BY <1>2, <1>3

(* Other broadcasts begin.                                                 *)
LEMMA PushOthers ==
    ASSUME TypeOK, NEW S \in SUBSET Relays, NEW h \in [Relays -> Nat],
           PushWay(S, h), NEW y \in S, OnIt(y, h[y]),
           \/ \E r \in Relays : UpdateStatus(r) \/ ReadHead(r)
           \/ UpdateInfo \/ TimePasses
    PROVE  PushInv'
<1> USE DEF TypeOK
<1>0. \A x \in S : stage[x] \in {"sending", "closed"} /\ push \in rtDn[x]
  BY DEF PushWay
<1>1. UNCHANGED <<src, stage, rtDn, push>>
  BY DEF UpdateStatus, ReadHead, UpdateInfo, TimePasses
<1>2. /\ dn \in [Relays -> Seq(DownPacket)] /\ dn[y] \in Seq(DownPacket)
      /\ y \in Relays
  BY DEF QueuesOK
<1>3. CASE dn' = dn
  <2>1. OnIt(y, h[y])'
    BY <1>1, <1>3 DEF OnIt
  <2> QED BY <1>0, <1>1, <2>1, PushKept
<1>4. CASE UpdateInfo /\ dn' # dn
  <2> DEFINE v == info[Tracker] + 1
             p == Broadcast("info", Tracker, InfoTTL, None, v)
  <2>1. dn' = SentDown(dn, Tracker, p, Tracker) /\ left.sent > 0
    BY <1>4 DEF UpdateInfo
  <2>2. v \in 0 .. MaxSent
    BY <2>1, NetworkAssumption DEF NewsOK, BoundsOK, Nodes
  <2> HIDE DEF v
  <2>3. p \in DownPacket
    BY <2>2, PacketType, NetworkAssumption DEF DownPacket, Nodes
  <2> HIDE DEF p
  <2>4. \/ SentDown(dn, Tracker, p, Tracker)[y] = dn[y]
        \/ SentDown(dn, Tracker, p, Tracker)[y] = Append(dn[y], p)
    BY <1>2, FromTracker
  <2>5. dn'[y] = dn[y] \/ dn'[y] = Append(dn[y], p)
    BY <2>1, <2>4
  <2>6. OnIt(y, h[y])'
    BY <1>1, <1>2, <2>3, <2>5, OnItSent
  <2> QED BY <1>0, <1>1, <2>6, PushKept
<1>5. dn' = dn \/ UpdateInfo
  BY DEF UpdateStatus, ReadHead, TimePasses
<1> QED BY <1>3, <1>4, <1>5

(* Packets are read at the source; the route only grows.                   *)
LEMMA PushReadUp ==
    ASSUME TypeOK, NEW S \in SUBSET Relays, NEW h \in [Relays -> Nat],
           PushWay(S, h), NEW y \in S, OnIt(y, h[y]),
           NEW r \in Relays, ReadUp(r)
    PROVE  PushInv'
<1> USE DEF TypeOK
<1> DEFINE p == Head(up[r])
<1>0. \A x \in S : /\ stage[x] \in {"sending", "closed"} /\ push \in rtDn[x]
                   /\ x \in Relays
  BY DEF PushWay
<1>1. p \in UpPacket /\ stage[r] = "sending" /\ src[r] \in Nodes
  BY QueueRead DEF ReadUp, QueuesOK, ConnectionsOK
<1>2. p.kind = "host"
  BY <1>1 DEF UpPacket, Packet
<1>3. src' = src /\ push' = push
  BY DEF ReadUp
<1>4. \A x \in S : push \in rtDn'[x]
  BY <1>0 DEF ReadUp, RouteAdd, QueuesOK
<1>5. CASE p.from # src[r]
  <2>1. dn' = dn /\ stage' = stage
    BY <1>2, <1>5 DEF ReadUp, Forward
  <2>2. OnIt(y, h[y])'
    BY <1>3, <2>1 DEF OnIt
  <2> QED BY <1>0, <1>3, <1>4, <2>1, <2>2, PushKept
<1>6. CASE p.from = src[r]
  <2> DEFINE c == Quit(src[r])
  <2>1. PICK k \in 0 .. Len(dn[r]) :
            dn' = [dn EXCEPT ![r] = SubSeq(@, 1, k) \o <<c>>]
    BY <1>6 DEF ReadUp
  <2> DEFINE e == SubSeq(dn[r], 1, k) \o <<c>>
  <2>2. c \in DownPacket /\ c.kind = "quit" /\ c.dest = None
    BY <1>1, QuitType DEF Quit, Broadcast
  <2>3. Has(e, "quit")
    BY <2>2, CutOff DEF QueuesOK
  <2>4. dn'[r] = e /\ \A x \in Relays : x # r => dn'[x] = dn[x]
    BY <2>1 DEF QueuesOK
  <2>5. stage' = [stage EXCEPT ![r] = "closed"]
    BY <1>6 DEF ReadUp
  <2>6. \A x \in S : stage'[x] \in {"sending", "closed"}
    BY <1>0, <2>5 DEF ConnectionsOK
  <2> HIDE DEF e
  <2>7. OnIt(y, h[y])'
    BY <1>0, <1>3, <2>3, <2>4 DEF OnIt
  <2> QED BY <1>3, <1>4, <2>6, <2>7, PushKept
<1> QED BY <1>5, <1>6

(* ... and at a relay, which passes the request on to the next one of the  *)
(* way, unless that one is about to leave.                                 *)
LEMMA PushReadDown ==
    ASSUME TypeOK, Wired, NEW S \in SUBSET Relays, NEW h \in [Relays -> Nat],
           PushWay(S, h), NEW y \in S, OnIt(y, h[y]),
           NEW r \in Relays, ReadChan(r) \/ ReadBroadcast(r)
    PROVE  PushInv'
<1> USE DEF TypeOK
<1> DEFINE p == Head(dn[r])
           e == Tail(dn[r])
<1>0. \A x \in S : /\ stage[x] \in {"sending", "closed"} /\ push \in rtDn[x]
                   /\ x \in Relays /\ WiredAt(x) /\ dn[x] \in Seq(DownPacket)
  BY DEF PushWay, Wired, QueuesOK
<1>1. UNCHANGED <<src, stage, rtDn>>
  BY DEF ReadChan, ReadBroadcast
<1>2. dn[r] \in Seq(DownPacket) /\ dn[r] # <<>> /\ dn'[r] = e
  <2>1. CASE ReadChan(r)
    BY <2>1 DEF ReadChan, Readable, QueuesOK
  <2>2. CASE ReadBroadcast(r)
    BY <2>2, PassedOn DEF QueuesOK
  <2> QED BY <2>1, <2>2
<1>3. /\ p \in DownPacket
      /\ Has(dn[r], "quit") <=> (Has(e, "quit") \/ p.kind = "quit")
      /\ \A q, t : Asks(dn[r], q, t)
             => \/ Asks(e, q, t)
                \/ p.kind = "push" /\ p.dest = q /\ p.ttl >= t
  BY <1>2, Taken
<1> HIDE DEF e
<1>4. /\ p.kind \in {"chan", "info", "push"}
      /\ p.kind \in {"info", "push"} => ReadBroadcast(r)
      /\ push' = IF p.kind = "push" /\ p.dest = r THEN None ELSE push
  BY DEF ReadChan, ReadBroadcast
<1>5. ASSUME NEW z \in S, OnIt(z, h[z])', push' = push PROVE PushInv'
  BY <1>0, <1>1, <1>5, PushKept
<1>6. ASSUME NEW x \in S, x # r
      PROVE  dn'[x] = dn[x] \/ \E f \in DownPacket : dn'[x] = Append(dn[x], f)
  <2>1. CASE ReadChan(r)
    BY <1>0, <1>6, <2>1 DEF ReadChan, QueuesOK
  <2>2. CASE ReadBroadcast(r)
    <3>1. dn'[x] = dn[x] \/ dn'[x] = Append(dn[x], Forwarded(p))
      BY <1>0, <1>6, <2>2, PassedOn
    <3>2. GoesOn(r, p) => Forwarded(p) \in DownPacket
      BY <1>0, <2>2, PassedOn
    <3>3. dn'[x] = dn[x] \/ GoesOn(r, p)
      BY <1>0, <1>6, <2>2, PassedOn
    <3> QED BY <3>1, <3>2, <3>3
  <2> QED BY <2>1, <2>2
<1>7. CASE push' # push
  BY <1>4, <1>7 DEF PushInv
<1>8. CASE push' = push /\ y # r
  <2>1. OnIt(y, h[y])'
    <3>1. CASE dn'[y] = dn[y]
      BY <1>8, <3>1 DEF OnIt
    <3>2. CASE \E f \in DownPacket : dn'[y] = Append(dn[y], f)
      <4> PICK f \in DownPacket : dn'[y] = Append(dn[y], f)
        BY <3>2
      <4> QED BY <1>0, <1>8, OnItSent
    <3> QED BY <1>6, <1>8, <3>1, <3>2
  <2> QED BY <1>5, <1>8, <2>1
<1>9. CASE push' = push /\ y = r
  <2> DEFINE t == PushTTL - h[r] + 1
  <2>1. CASE Has(e, "quit") \/ Asks(e, push, t)
    <3>1. OnIt(y, h[y])'
      BY <1>2, <1>9, <2>1 DEF OnIt
    <3> QED BY <1>5, <1>9, <3>1
  <2>2. CASE p.kind = "push" /\ p.dest = push /\ p.ttl >= t
    <3>1. Way(push, S, h, PushTTL) /\ Descends(S, h, PushTTL)
      BY DEF PushWay, Way
    <3>2. push \in S /\ push # None /\ r # push
      <4>1. push \in S /\ push # None
        BY <3>1, NetworkAssumption DEF Way, Nodes
      <4> QED BY <1>4, <1>9, <2>2, <4>1
    <3>3. PICK x \in S : src[x] = r
      BY <1>9, <3>1, <3>2 DEF Way
    <3>4. h[r] < h[x] /\ h[x] \in 1 .. PushTTL /\ h[r] \in 1 .. PushTTL
          /\ PushTTL \in Nat
      BY <1>9, <3>1, <3>3, NetworkAssumption DEF Descends
    <3>5. x # r /\ x # src[r]
      <4>1. x # r
        BY <3>4
      <4>2. src[r] # Tracker => h[src[r]] < h[r]
        BY <1>9, <3>1 DEF Descends
      <4>3. x # Tracker
        BY <1>0, NetworkAssumption
      <4> QED BY <3>4, <4>1, <4>2, <4>3
    <3> DEFINE f == Forwarded(p)
    <3>6. ReadBroadcast(r)
      BY <1>4, <2>2
    <3>7. f.kind = p.kind /\ f.dest = p.dest /\ f.ttl = p.ttl - 1
      BY <1>0, <3>6, PassedOn
    <3>8. GoesOn(r, p)
          /\ HasStream(x) /\ Routed(f, x, rtDn[x])
             => dn'[x] = Append(dn[x], f) /\ f \in DownPacket
      BY <1>0, <3>3, <3>5, <3>6, PassedOn
    <3>9. p.ttl \in Nat
      BY <1>3 DEF DownPacket, Packet
    <3> HIDE DEF p
    <3>10. f.ttl > 0 /\ f.ttl >= PushTTL - h[x] + 1
      <4>1. p.ttl - 1 > 0 /\ p.ttl - 1 >= PushTTL - h[x] + 1
        BY <2>2, <3>4, <3>9
      <4> QED BY <3>7, <4>1
    <3>11. GoesOn(r, p)
      BY <2>2, <3>2, <3>10 DEF GoesOn
    <3>12. CASE stage[x] = "closed"
      <4>1. Has(dn[x], "quit")
        BY <1>0, <3>12 DEF WiredAt
      <4>2. OnIt(x, h[x])
        BY <4>1 DEF OnIt
      <4>3. OnIt(x, h[x])'
        <5>1. CASE dn'[x] = dn[x]
          BY <1>9, <4>2, <5>1 DEF OnIt
        <5>2. CASE \E g \in DownPacket : dn'[x] = Append(dn[x], g)
          <6> PICK g \in DownPacket : dn'[x] = Append(dn[x], g)
            BY <5>2
          <6> QED BY <1>0, <1>9, <4>2, OnItSent
        <5> QED BY <1>6, <3>5, <5>1, <5>2
      <4> QED BY <1>5, <1>9, <4>3
    <3>13. CASE stage[x] = "sending"
      <4>1. HasStream(x) /\ Routed(f, x, rtDn[x])
        BY <1>0, <2>2, <3>7, <3>13 DEF HasStream, Routed
      <4> HIDE DEF f
      <4>2. dn'[x] = Append(dn[x], f) /\ f \in DownPacket
        BY <3>8, <3>11, <4>1
      <4> DEFINE d == Append(dn[x], f)
      <4>3. \A q, u : f.kind = "push" /\ f.dest = q /\ f.ttl >= u
                      => Asks(d, q, u)
        BY <1>0, <4>2, Appended
      <4>4. dn'[x] = d
        BY <4>2
      <4> HIDE DEF d
      <4>5. Asks(d, push, PushTTL - h[x] + 1)
        BY <2>2, <3>7, <3>10, <4>3
      <4>6. OnIt(x, h[x])'
        BY <1>9, <4>4, <4>5 DEF OnIt
      <4> QED BY <1>5, <1>9, <4>6
    <3> QED BY <1>0, <3>12, <3>13
  <2>3. \/ Has(e, "quit") \/ Asks(e, push, t)
        \/ p.kind = "push" /\ p.dest = push /\ p.ttl >= t
    <3>1. p.kind # "quit"
      BY <1>4
    <3>2. Has(dn[r], "quit") \/ Asks(dn[r], push, t)
      BY <1>9 DEF OnIt
    <3> HIDE DEF t, p
    <3> QED BY <1>3, <3>1, <3>2
  <2> QED BY <2>1, <2>2, <2>3
<1> QED BY <1>7, <1>8, <1>9

(* Every step keeps the request on its way.                                *)
LEMMA PushNext == TypeOK /\ Wired /\ PushInv /\ [Next]_vars => PushInv'
<1> SUFFICES ASSUME TypeOK, Wired, PushInv, [Next]_vars PROVE PushInv'
  OBVIOUS
<1>1. CASE \E r \in Relays : PushRequest(r)
  BY <1>1, PushBegins
<1>2. CASE push = None /\ ~ \E r \in Relays : PushRequest(r)
  <2>1. ASSUME NEW r \in Relays, (\E n \in Nodes : Connect(r, n))
                                \/ HeaderThere(r) \/ OpenStream(r) \/ SendChan(r)
        PROVE  push' = None
    BY <1>2, <2>1 DEF Connect, HeaderThere, OpenStream, SendChan
  <2>2. ASSUME NEW r \in Relays, Loses(r)
        PROVE  push' = None
    BY <1>2, <2>2 DEF Loses, Cut, GiveUpWaiting, AutoBump, ReadQuit, LoseSource
  <2>3. ASSUME NEW r \in Relays, ReadUp(r) \/ ReadChan(r) \/ ReadBroadcast(r)
        PROVE  push' = None
    BY <1>2, <2>3 DEF ReadUp, ReadChan, ReadBroadcast
  <2>4. ASSUME UpdateInfo \/ TimePasses \/ UNCHANGED vars PROVE push' = None
    BY <1>2, <2>4 DEF UpdateInfo, TimePasses, vars
  <2>5. ASSUME NEW r \in Relays, UpdateStatus(r) \/ ReadHead(r)
        PROVE  push' = None
    BY <1>2, <2>5 DEF UpdateStatus, ReadHead
  <2>6. push' = None
    BY <1>2, <2>1, <2>2, <2>3, <2>4, <2>5 DEF Next, GoOn, ReadDown, Loses
  <2> QED BY <2>6 DEF PushInv
<1>3. CASE push # None /\ ~ \E r \in Relays : PushRequest(r)
  <2>0. PICK S \in SUBSET Relays, h \in [Relays -> Nat] :
            PushWay(S, h) /\ \E y \in S : OnIt(y, h[y])
    BY <1>3 DEF PushInv
  <2>1. PICK y \in S : PushWay(S, h) /\ OnIt(y, h[y])
    BY <2>0
  <2>2. CASE UNCHANGED vars
    BY <2>2 DEF vars, PushInv, PushWay, Way, Descends, OnIt
  <2>3. ASSUME NEW r \in Relays, Loses(r)
        PROVE  PushInv'
    <3>1. LoseSource(r)
      BY <2>3 DEF Loses, Cut, GiveUpWaiting, AutoBump, ReadQuit
    <3> QED BY <2>1, <3>1, PushConnection
  <2>4. ASSUME NEW r \in Relays,
               \/ \E n \in Nodes : Connect(r, n)
               \/ HeaderThere(r) \/ OpenStream(r) \/ SendChan(r)
        PROVE  PushInv'
    BY <2>1, <2>4, PushConnection
  <2>5. ASSUME \/ \E r \in Relays : UpdateStatus(r) \/ ReadHead(r)
               \/ UpdateInfo \/ TimePasses
        PROVE  PushInv'
    BY <2>1, <2>5, PushOthers
  <2>6. ASSUME NEW r \in Relays, ReadUp(r) PROVE PushInv'
    BY <2>1, <2>6, PushReadUp
  <2>7. ASSUME NEW r \in Relays, ReadChan(r) \/ ReadBroadcast(r)
        PROVE  PushInv'
    BY <2>1, <2>7, PushReadDown
  <2> QED BY <1>3, <2>2, <2>3, <2>4, <2>5, <2>6, <2>7 DEF Next, GoOn, ReadDown, Loses
<1> QED BY <1>1, <1>2, <1>3

(* The request is on every way down to the relay, there being only one.    *)
LEMMA PushReached == TypeOK /\ PushInv => PushOnItsWay
<1> DEFINE way == {x \in Relays : push \in rtDn[x]}
           idle == {x \in way : ~MustQuit(x) /\ ~Asked(x)}
<1> SUFFICES ASSUME TypeOK, PushInv, push # None
             PROVE  /\ push \in Below(Tracker, way, PushTTL)
                    /\ push \notin Below(Tracker, idle, PushTTL)
  BY DEF PushOnItsWay
<1>0. PICK S \in SUBSET Relays, h \in [Relays -> Nat] :
          PushWay(S, h) /\ \E y \in S : OnIt(y, h[y])
  BY DEF PushInv
<1>1. PICK y \in S : PushWay(S, h) /\ OnIt(y, h[y])
  BY <1>0
<1>2. /\ Way(push, S, h, PushTTL) /\ Descends(S, h, PushTTL) /\ push \in S
      /\ push \in Relays
  BY <1>1 DEF PushWay, Way
<1>3. S \subseteq way /\ way \in SUBSET Relays /\ idle \in SUBSET way
  BY <1>1 DEF PushWay
<1>4. PushTTL \in Nat
  BY NetworkAssumption
<1>5. y \notin idle
  <2>1. Has(dn[y], "quit") => MustQuit(y)
    BY MustQuitHas
  <2>2. Asks(dn[y], push, PushTTL - h[y] + 1) => Asked(y)
    BY DEF Asks, Asked, Coming
  <2> QED BY <1>1, <2>1, <2>2 DEF OnIt
<1> HIDE DEF way, idle
<1>6. push \in Below(Tracker, way, PushTTL)
  BY <1>2, <1>3, <1>4, WayBelow
<1>7. ASSUME push \in Below(Tracker, idle, PushTTL) PROVE FALSE
  <2>1. idle \in SUBSET Relays
    BY <1>3
  <2>2. PICK T \in SUBSET idle, g \in [Relays -> Nat] : Way(push, T, g, PushTTL)
    BY <1>2, <1>4, <1>7, <2>1, BelowWay
  <2>3. T \in SUBSET Relays /\ Descends(T, g, PushTTL) /\ push \in T
    BY <2>1, <2>2 DEF Way
  <2>4. S \subseteq T
    BY <1>2, <1>4, <2>3, OneWay
  <2> QED BY <1>5, <2>2, <2>4
<1> QED BY <1>6, <1>7

(* Whatever the tree of relays and whatever happens elsewhere in it: a     *)
(* push request is on the way that the status of its relay has come, or    *)
(* PCP_QUIT is, until it is read by the relay or the way is lost.          *)
THEOREM PushIsNotLost == Spec => []PushOnItsWay
<1>1. Init => TypeOK /\ Wired /\ PushInv
  BY TypeInit, WiredInit, PushInit
<1>2. TypeOK /\ Wired /\ PushInv /\ [Next]_vars => (Wired /\ PushInv)'
  BY WiredNext, PushNext
<1> QED BY <1>1, <1>2, PushReached, TypeCorrect, PTL DEF Spec
=============================================================================
