------------------------- MODULE ChannelRelayProofs -------------------------
(***************************************************************************)
(* The channels of a node: type correctness and the agreement of the list  *)
(* of channels with their threads, for any number of channels, requests    *)
(* and commands.                                                           *)
(***************************************************************************)
EXTENDS ChannelRelay, FiniteSetTheorems, SequenceTheorems,
        WellFoundedInduction, TLAPS

(* A set of naturals that is not empty has a least element: the sets 0..n  *)
(* are ordered by inclusion as the numbers n are, and that order is        *)
(* well-founded.                                                           *)
LEMMA LeastNatural ==
    ASSUME NEW S \in SUBSET Nat, S # {}
    PROVE  \E m \in S : \A k \in S : m <= k
<1> DEFINE R == StrictSubsetOrdering(Nat)
           T == {0 .. n : n \in S}
<1>1. IsWellFoundedOn(R, FiniteSubsetsOf(Nat))
  BY FS_StrictSubsetOrderingWellFounded
<1>2. T \subseteq FiniteSubsetsOf(Nat)
  <2>1. \A n \in S : IsFiniteSet(0 .. n) /\ 0 .. n \subseteq Nat
    BY FS_Interval
  <2> QED BY <2>1 DEF FiniteSubsetsOf
<1>3. T # {}
  OBVIOUS
<1>4. PICK x \in T : \A y \in T : ~(<<y, x>> \in R)
  <2> HIDE DEF R, T
  <2> QED BY <1>1, <1>2, <1>3, WFMin
<1>5. PICK m \in S : x = 0 .. m
  OBVIOUS
<1>6. ASSUME NEW k \in S, k < m PROVE FALSE
  <2>1. 0 .. k \subseteq 0 .. m /\ 0 .. k # 0 .. m
    <3>1. m \in 0 .. m /\ m \notin 0 .. k
      BY <1>6
    <3> QED BY <1>6, <3>1
  <2>2. 0 .. k \in SUBSET Nat /\ 0 .. m \in SUBSET Nat
    OBVIOUS
  <2>3. <<0 .. k, 0 .. m>> \in R
    BY <2>1, <2>2 DEF StrictSubsetOrdering
  <2> QED BY <2>3, <1>4, <1>5
<1> QED BY <1>6

-----------------------------------------------------------------------------
(* Lists that name each channel at most once.                              *)

Once(s) == s \in Seq(Chans) /\ IsInjective(s)

(* One more at the end ...                                                 *)
LEMMA AtTheEnd ==
    ASSUME NEW s, Once(s), NEW c \in Chans, c \notin Range(s)
    PROVE  Once(Append(s, c)) /\ Range(Append(s, c)) = Range(s) \cup {c}
<1> DEFINE e == Append(s, c)
<1>1. /\ s \in Seq(Chans) /\ Len(s) \in Nat /\ DOMAIN s = 1 .. Len(s)
      /\ e \in Seq(Chans) /\ DOMAIN e = 1 .. Len(s) + 1
      /\ \A i \in 1 .. Len(s) + 1 : e[i] = IF i = Len(s) + 1 THEN c ELSE s[i]
  BY DEF Once
<1> HIDE DEF e
<1>2. IsInjective(e)
  BY <1>1 DEF Once, IsInjective, Range
<1>3. Range(e) = Range(s) \cup {c}
  <2>1. \A i \in 1 .. Len(s) : e[i] = s[i] /\ i \in DOMAIN e
    BY <1>1
  <2>2. e[Len(s) + 1] = c /\ Len(s) + 1 \in DOMAIN e
    BY <1>1
  <2>3. Range(s) \cup {c} \subseteq Range(e)
    BY <1>1, <2>1, <2>2 DEF Range
  <2>4. Range(e) \subseteq Range(s) \cup {c}
    BY <1>1 DEF Range
  <2> QED BY <2>3, <2>4
<1>4. Once(e)
  BY <1>1, <1>2 DEF Once
<1> QED BY <1>3, <1>4 DEF e

(* ... or in front ...                                                     *)
LEMMA InFront ==
    ASSUME NEW s, Once(s), NEW c \in Chans, c \notin Range(s)
    PROVE  Once(<<c>> \o s) /\ Range(<<c>> \o s) = Range(s) \cup {c}
<1> DEFINE e == <<c>> \o s
<1>1. /\ s \in Seq(Chans) /\ Len(s) \in Nat /\ DOMAIN s = 1 .. Len(s)
      /\ e \in Seq(Chans) /\ DOMAIN e = 1 .. Len(s) + 1
      /\ \A i \in 1 .. Len(s) + 1 : e[i] = IF i = 1 THEN c ELSE s[i - 1]
  BY DEF Once
<1> HIDE DEF e
<1>2. /\ e[1] = c /\ 1 \in DOMAIN e
      /\ \A i \in 1 .. Len(s) : e[i + 1] = s[i] /\ i + 1 \in DOMAIN e
  BY <1>1
<1>3. \A i \in DOMAIN e : i = 1 \/ \E k \in 1 .. Len(s) : i = k + 1
  <2> SUFFICES ASSUME NEW i \in DOMAIN e, i # 1
               PROVE  \E k \in 1 .. Len(s) : i = k + 1
    OBVIOUS
  <2>1. i - 1 \in 1 .. Len(s) /\ i = (i - 1) + 1
    BY <1>1
  <2> QED BY <2>1
<1>4. \A i \in 1 .. Len(s) : s[i] \in Range(s)
  BY <1>1 DEF Range
<1>5. \A i, k \in 1 .. Len(s) : s[i] = s[k] => i = k
  BY <1>1 DEF Once, IsInjective
<1>6. IsInjective(e)
  <2> SUFFICES ASSUME NEW i \in DOMAIN e, NEW k \in DOMAIN e, e[i] = e[k]
               PROVE  i = k
    BY DEF IsInjective
  <2>1. CASE i = 1 /\ k = 1
    BY <2>1
  <2>2. CASE i = 1 /\ k # 1
    BY <1>2, <1>3, <1>4, <2>2
  <2>3. CASE i # 1 /\ k = 1
    BY <1>2, <1>3, <1>4, <2>3
  <2>4. CASE i # 1 /\ k # 1
    BY <1>2, <1>3, <1>5, <2>4
  <2> QED BY <2>1, <2>2, <2>3, <2>4
<1>7. Range(e) = Range(s) \cup {c}
  <2>1. Range(s) \cup {c} \subseteq Range(e)
    <3>1. \A i \in DOMAIN e : e[i] \in Range(e)
      BY DEF Range
    <3>2. \A x \in Range(s) : \E i \in 1 .. Len(s) : x = s[i]
      BY <1>1 DEF Range
    <3> QED BY <1>2, <3>1, <3>2
  <2>2. Range(e) \subseteq Range(s) \cup {c}
    BY <1>2, <1>3, <1>4 DEF Range
  <2> QED BY <2>1, <2>2
<1>8. Once(e)
  BY <1>1, <1>6 DEF Once
<1> QED BY <1>7, <1>8 DEF e

(* ... the rest behind the first ...                                       *)
LEMMA BehindFirst ==
    ASSUME NEW s, Once(s), s # <<>>
    PROVE  Once(Tail(s)) /\ Head(s) \in Chans
<1> DEFINE e == Tail(s)
<1>1. /\ s \in Seq(Chans) /\ Len(s) \in Nat /\ DOMAIN s = 1 .. Len(s)
      /\ e \in Seq(Chans) /\ DOMAIN e = 1 .. Len(s) - 1
      /\ \A i \in 1 .. Len(s) - 1 : e[i] = s[i + 1]
      /\ Head(s) \in Chans
  BY DEF Once
<1> HIDE DEF e
<1>2. IsInjective(e)
  <2> SUFFICES ASSUME NEW i \in DOMAIN e, NEW k \in DOMAIN e, e[i] = e[k]
               PROVE  i = k
    BY DEF IsInjective
  <2>1. i + 1 \in DOMAIN s /\ k + 1 \in DOMAIN s /\ s[i + 1] = s[k + 1]
    BY <1>1
  <2>2. i + 1 = k + 1
    BY <2>1 DEF Once, IsInjective
  <2> QED BY <1>1, <2>2
<1>3. Once(e)
  BY <1>1, <1>2 DEF Once
<1> QED BY <1>1, <1>3 DEF e

(* ... and one taken off.                                                  *)
LEMMA TakenOff ==
    ASSUME NEW s, Once(s), NEW c
    PROVE  Once(Without(s, c)) /\ Range(Without(s, c)) = Range(s) \ {c}
<1>1. s \in Seq(Chans) /\ Len(s) \in Nat /\ DOMAIN s = 1 .. Len(s)
  BY DEF Once
<1>2. CASE c \notin Range(s)
  BY <1>2 DEF Without
<1>3. CASE c \in Range(s)
  <2> DEFINE n == CHOOSE m \in DOMAIN s : s[m] = c
             e == SubSeq(s, 1, n - 1) \o SubSeq(s, n + 1, Len(s))
  <2>1. n \in 1 .. Len(s) /\ s[n] = c
    BY <1>1, <1>3 DEF Range
  <2> HIDE DEF n, e
  <2> DEFINE a == SubSeq(s, 1, n - 1)
             b == SubSeq(s, n + 1, Len(s))
  <2>2. /\ a \in Seq(Chans) /\ Len(a) = n - 1
        /\ \A i \in 1 .. n - 1 : a[i] = s[i]
    <3>1. 1 <= n /\ \A i \in 1 .. n - 1 : s[i] \in Chans
      BY <1>1, <2>1
    <3>2. /\ a \in Seq(Chans) /\ Len(a) = IF 1 <= n - 1 THEN n - 1 - 1 + 1 ELSE 0
          /\ \A i \in 1 .. n - 1 - 1 + 1 : a[i] = s[1 + i - 1]
      <4>1. 1 \in Int /\ n - 1 \in Int
        BY <2>1
      <4> QED BY <3>1, <4>1, SubSeqProperties
    <3> HIDE DEF a
    <3> QED BY <1>1, <2>1, <3>2
  <2>3. /\ b \in Seq(Chans) /\ Len(b) = Len(s) - n
        /\ \A i \in 1 .. Len(s) - n : b[i] = s[n + i]
    <3>1. n + 1 <= Len(s) + 1 /\ \A i \in n + 1 .. Len(s) : s[i] \in Chans
      BY <1>1, <2>1
    <3>2. /\ b \in Seq(Chans)
          /\ Len(b) = IF n + 1 <= Len(s) THEN Len(s) - (n + 1) + 1 ELSE 0
          /\ \A i \in 1 .. Len(s) - (n + 1) + 1 : b[i] = s[n + 1 + i - 1]
      <4>1. n + 1 \in Int /\ Len(s) \in Int
        BY <1>1, <2>1
      <4> QED BY <3>1, <4>1, SubSeqProperties
    <3> HIDE DEF a, b
    <3>3. Len(b) = Len(s) - n
      <4> DEFINE m == Len(s)
      <4>1. m \in Nat /\ n \in 1 .. m
        BY <1>1, <2>1
      <4>2. Len(b) = IF n + 1 <= m THEN m - (n + 1) + 1 ELSE 0
        BY <3>2
      <4> HIDE DEF m
      <4>3. Len(b) = m - n
        BY <4>1, <4>2
      <4> QED BY <4>3 DEF m
    <3>4. ASSUME NEW i \in 1 .. Len(s) - n PROVE b[i] = s[n + i]
      <4>1. Len(s) - (n + 1) + 1 = Len(s) - n /\ n + 1 + i - 1 = n + i
        BY <1>1, <2>1
      <4> QED BY <3>2, <4>1
    <3> QED BY <3>2, <3>3, <3>4
  <2> HIDE DEF a, b
  <2>4. /\ a \o b \in Seq(Chans) /\ DOMAIN (a \o b) = 1 .. Len(s) - 1
        /\ \A i \in 1 .. Len(s) - 1 : (a \o b)[i] = IF i < n THEN s[i] ELSE s[i + 1]
    <3>1. /\ a \o b \in Seq(Chans) /\ Len(a \o b) = Len(s) - 1
          /\ \A i \in 1 .. Len(s) - 1 :
                (a \o b)[i] = IF i <= n - 1 THEN a[i] ELSE b[i - (n - 1)]
      <4>1. n - 1 + (Len(s) - n) = Len(s) - 1
        BY <1>1, <2>1
      <4> QED BY <2>2, <2>3, <4>1, ConcatProperties
    <3>2. DOMAIN (a \o b) = 1 .. Len(s) - 1
      BY <3>1
    <3>3. ASSUME NEW i \in 1 .. Len(s) - 1
          PROVE  (a \o b)[i] = IF i < n THEN s[i] ELSE s[i + 1]
      <4>1. CASE i < n
        <5>1. i <= n - 1 /\ i \in 1 .. n - 1
          BY <2>1, <4>1
        <5> QED BY <2>2, <3>1, <4>1, <5>1
      <4>2. CASE ~(i < n)
        <5>1. i - (n - 1) \in 1 .. Len(s) - n /\ n + (i - (n - 1)) = i + 1
          BY <1>1, <2>1, <4>2
        <5>2. ~(i <= n - 1)
          BY <2>1, <4>2
        <5> QED BY <2>3, <3>1, <4>2, <5>1, <5>2
      <4> QED BY <4>1, <4>2
    <3> QED BY <3>1, <3>2, <3>3
  <2>5. /\ e \in Seq(Chans) /\ DOMAIN e = 1 .. Len(s) - 1
        /\ \A i \in 1 .. Len(s) - 1 : e[i] = IF i < n THEN s[i] ELSE s[i + 1]
    BY <2>4 DEF e, a, b
  <2>6. IsInjective(e)
    <3> SUFFICES ASSUME NEW i \in DOMAIN e, NEW k \in DOMAIN e, e[i] = e[k]
                 PROVE  i = k
      BY DEF IsInjective
    <3> DEFINE at(x) == IF x < n THEN x ELSE x + 1
    <3>1. /\ at(i) \in DOMAIN s /\ at(k) \in DOMAIN s
          /\ s[at(i)] = s[at(k)]
      BY <1>1, <2>1, <2>5
    <3>2. at(i) = at(k)
      <4> HIDE DEF at
      <4> QED BY <3>1 DEF Once, IsInjective
    <3> QED BY <1>1, <2>1, <2>5, <3>2
  <2>7. Range(e) \subseteq Range(s) \ {c}
    <3> SUFFICES ASSUME NEW i \in 1 .. Len(s) - 1 PROVE e[i] \in Range(s) \ {c}
      BY <2>5 DEF Range
    <3> DEFINE j == IF i < n THEN i ELSE i + 1
    <3>1. j \in DOMAIN s /\ j # n /\ e[i] = s[j]
      BY <1>1, <2>1, <2>5
    <3>2. s[j] # c
      BY <1>1, <2>1, <3>1 DEF Once, IsInjective
    <3> QED BY <3>1, <3>2 DEF Range
  <2>8. Range(s) \ {c} \subseteq Range(e)
    <3> SUFFICES ASSUME NEW j \in 1 .. Len(s), j # n PROVE s[j] \in Range(e)
      BY <1>1, <2>1 DEF Range
    <3> DEFINE i == IF j < n THEN j ELSE j - 1
    <3>1. i \in 1 .. Len(s) - 1 /\ e[i] = s[j]
      BY <1>1, <2>1, <2>5
    <3> QED BY <2>5, <3>1 DEF Range
  <2>9. Without(s, c) = e
    BY <1>3 DEF Without, RemoveAt, e, n
  <2> QED BY <2>5, <2>6, <2>7, <2>8, <2>9 DEF Once
<1> QED BY <1>2, <1>3

(* What is looked up by its ID is a channel.                               *)
LEMMA FoundIsChannel ==
    ASSUME Once(list), NEW i, FindChannel(i) # None
    PROVE  FindChannel(i) \in Chans
<1>1. list \in Seq(Chans) /\ DOMAIN list = 1 .. Len(list) /\ Len(list) \in Nat
  BY DEF Once
<1>2. Found(i) \in SUBSET Nat /\ Found(i) \subseteq 1 .. Len(list) /\ Found(i) # {}
  BY <1>1 DEF Found, FindChannel
<1>3. \E n \in Found(i) : \A m \in Found(i) : n <= m
  BY <1>2, LeastNatural
<1> DEFINE n == CHOOSE n \in Found(i) : \A m \in Found(i) : n <= m
<1>4. n \in Found(i)
  BY <1>3
<1> HIDE DEF n
<1>5. list[n] \in Chans
  BY <1>1, <1>2, <1>4
<1> QED BY <1>2, <1>5 DEF FindChannel, n

-----------------------------------------------------------------------------
(* The invariant.                                                          *)

(* The idle channels are those that have a place in the order of idleness. *)
IdledOK == \A c \in Chans : c \in Range(idled) <=> ch[c].status = "idle"

(* A thread is idle between GoIdle and the next search or the end; it goes *)
(* to the root server while it has contacts left.                          *)
PointsOK ==
    \A c \in Chans :
        /\ ch[c].status = "idle" => ch[c].pc \in {"start", "loop", "idle", "stopped"}
        /\ ch[c].pc = "yp" => ch[c].tries < MaxTries

(* Two requests are never about to start the same channel.                 *)
ClientsOK ==
    /\ \A k \in Clients :
        client[k].pc \in {"begin", "wake"} => client[k].chan \in Chans
    /\ \A k, m \in Clients :
        /\ client[k].pc = "begin" /\ client[m].pc = "begin"
        /\ client[k].chan = client[m].chan
        => k = m
    /\ admin.pc = "join" => admin.chan \in Chans

RelayInv == TypeOK /\ ListedHaveThreads /\ IdledOK /\ PointsOK /\ ClientsOK

(* A channel object that is new or at its end is one.                      *)
LEMMA ResetType == Reset \in Channel /\ Ended \in Channel
<1>1. 0 \in 0 .. MaxTries
  BY RelayAssumption
<1>2. Reset \in Channel
  BY <1>1 DEF Reset, Channel, Points, Status
<1>3. "delete" \in Points
  BY DEF Points
<1> QED BY <1>2, <1>3 DEF Ended, Channel

(* At the start there is no channel.                                       *)
LEMMA RelayInit == Init => RelayInv
<1> SUFFICES ASSUME Init PROVE RelayInv
  OBVIOUS
<1>1. Reset \in Channel /\ Outside \in Client
  BY ResetType DEF Outside, Client
<1>2. /\ ch \in [Chans -> Channel] /\ client \in [Clients -> Client]
      /\ \A c \in Chans : ch[c].pc = "none" /\ ch[c].status = "none"
      /\ \A k \in Clients : client[k].pc = "out"
  BY <1>1 DEF Init, Reset, Outside
<1>3. <<>> \in Seq(Chans) /\ IsInjective(<<>>) /\ Range(<<>>) = {}
  BY DEF IsInjective, Range
<1>4. TypeOK
  <2>1. /\ list = <<>> /\ idled = <<>> /\ admin.rest = <<>>
        /\ admin \in [pc : {"ready", "copy", "close", "join"},
                      chan : Chans \cup {None}, rest : Seq(Chans)]
    BY <1>3 DEF Init, AdminIdle
  <2>2. ops \in 0 .. MaxOps
    BY RelayAssumption DEF Init
  <2> QED BY <1>2, <1>3, <2>1, <2>2 DEF Init, TypeOK
<1>5. ListedHaveThreads /\ IdledOK /\ PointsOK /\ ClientsOK
  BY <1>2, <1>3 DEF Init, AdminIdle, ListedHaveThreads, IdledOK, PointsOK,
                    ClientsOK
<1> QED BY <1>4, <1>5 DEF RelayInv

(* A step that leaves threads and lists as they are.                       *)
LEMMA Kept ==
    ASSUME RelayInv,
           ch' \in [Chans -> Channel],
           \A c \in Chans : /\ ch'[c].pc = ch[c].pc
                            /\ ch'[c].status = ch[c].status
                            /\ ch'[c].tries = ch[c].tries,
           list' = list, idled' = idled,
           hits' \in [IDs -> BOOLEAN], {ypReady', mgrLock'} \subseteq BOOLEAN,
           idler' \in {"count", "close"}, ops' \in 0 .. MaxOps,
           client' \in [Clients -> Client],
           \A k \in Clients :
                /\ client'[k].pc = "wake" => client'[k].chan \in Chans
                /\ client'[k].pc = "begin" <=> client[k].pc = "begin"
                /\ client'[k].pc = "begin" => client'[k].chan = client[k].chan,
           admin' \in [pc : {"ready", "copy", "close", "join"},
                       chan : Chans \cup {None}, rest : Seq(Chans)],
           Once(admin'.rest),
           admin'.pc = "join" => /\ admin'.chan \in Chans
                                 /\ ch[admin'.chan].pc # "made"
    PROVE  RelayInv'
<1> USE DEF RelayInv
<1>1. TypeOK'
  BY DEF TypeOK, Once
<1>2. ListedHaveThreads'
  BY DEF ListedHaveThreads
<1>3. IdledOK' /\ PointsOK'
  BY DEF IdledOK, PointsOK
<1>4. ClientsOK'
  BY DEF ClientsOK
<1> QED BY <1>1, <1>2, <1>3, <1>4

(* A step of a channel's thread.                                           *)
LEMMA Stepped ==
    ASSUME RelayInv, NEW c \in Chans, NEW new \in Channel, Step(c, new),
           ch[c].pc \notin {"none", "made"}, new.pc \notin {"none", "made"},
           new.status = "idle" => new.pc \in {"start", "loop", "idle", "stopped"},
           new.pc = "yp" => new.tries < MaxTries,
           hits' \in [IDs -> BOOLEAN], ypReady' \in BOOLEAN
    PROVE  RelayInv'
<1> USE DEF RelayInv
<1>1. /\ ch' = [ch EXCEPT ![c] = new]
      /\ ch' \in [Chans -> Channel]
      /\ \A d \in Chans : ch'[d] = IF d = c THEN new ELSE ch[d]
      /\ UNCHANGED <<list, client, admin, mgrLock, idler, ops>>
  BY DEF Step, TypeOK
<1>2. Once(idled')
      /\ Range(idled') = IF new.status = "idle" THEN Range(idled) \cup {c}
                         ELSE Range(idled) \ {c}
  <2>1. Once(idled)
    BY DEF TypeOK, Once
  <2>2. CASE new.status # "idle"
    BY <2>1, <2>2, TakenOff DEF Step
  <2>3. CASE new.status = "idle" /\ ch[c].status = "idle"
    BY <2>1, <2>3 DEF Step, IdledOK
  <2>4. CASE new.status = "idle" /\ ch[c].status # "idle"
    <3>1. c \notin Range(idled)
      BY <2>4 DEF IdledOK
    <3> QED BY <2>1, <2>4, <3>1, AtTheEnd DEF Step
  <2> QED BY <2>2, <2>3, <2>4
<1>3. TypeOK'
  BY <1>1, <1>2 DEF TypeOK, Once
<1>4. ListedHaveThreads'
  BY <1>1 DEF ListedHaveThreads
<1>5. IdledOK' /\ PointsOK'
  BY <1>1, <1>2 DEF IdledOK, PointsOK
<1>6. ClientsOK'
  BY <1>1 DEF ClientsOK
<1> QED BY <1>3, <1>4, <1>5, <1>6

(* The threads of channels.                                                *)
LEMMA ThreadKeeps ==
    ASSUME RelayInv, NEW c \in Chans,
           \/ StreamLoop(c) \/ SourceLoop(c) \/ SearchFinds(c) \/ GiveUp(c)
           \/ SearchYP(c) \/ ContactYP(c) \/ YPUnresolved(c) \/ Connect(c)
           \/ ReadEnds(c) \/ GoIdle(c) \/ IdleLoop(c) \/ Stopped(c)
           \/ ReadPacket(c) \/ SourceEnds(c)
    PROVE  RelayInv'
<1> DEFINE x == ch[c]
<1>1. /\ x \in Channel /\ hits \in [IDs -> BOOLEAN] /\ ypReady \in BOOLEAN
      /\ x.status = "idle" => x.pc \in {"start", "loop", "idle", "stopped"}
      /\ x.pc = "yp" => x.tries < MaxTries
  BY DEF RelayInv, TypeOK, PointsOK
<1>2. \A i : [hits EXCEPT ![i] = FALSE] \in [IDs -> BOOLEAN]
  BY <1>1
<1>3. SUFFICES
        \E new \in Channel :
            /\ Step(c, new)
            /\ x.pc \notin {"none", "made"} /\ new.pc \notin {"none", "made"}
            /\ new.status = "idle" => new.pc \in {"start", "loop", "idle", "stopped"}
            /\ new.pc = "yp" => new.tries < MaxTries
            /\ hits' \in [IDs -> BOOLEAN] /\ ypReady' \in BOOLEAN
  BY Stepped
<1>4. Ended \in Channel /\ Ended.pc = "delete" /\ Ended.status = "none"
  BY ResetType DEF Ended, Reset
<1> HIDE DEF x
<1>0. 0 \in 0 .. MaxTries
  BY RelayAssumption
<1>5. CASE StreamLoop(c)
  <2> DEFINE y == [x EXCEPT !.pc = "loop", !.tries = 0]
  <2>1. y \in Channel /\ y.pc = "loop" /\ y.status = x.status
    BY <1>0, <1>1 DEF Channel, Points
  <2> QED BY <1>1, <1>4, <1>5, <2>1 DEF StreamLoop, x
<1>6. CASE SourceLoop(c)
  <2> DEFINE y == [x EXCEPT !.pc = "search", !.status = "busy"]
             z == [x EXCEPT !.pc = "stopped"]
  <2>1. /\ y \in Channel /\ y.pc = "search" /\ y.status = "busy"
        /\ z \in Channel /\ z.pc = "stopped"
    BY <1>1 DEF Channel, Points, Status
  <2> QED BY <1>1, <1>6, <2>1 DEF SourceLoop, x
<1>7. CASE SearchFinds(c)
  <2> DEFINE y == [x EXCEPT !.pc = "connect", !.status = "busy",
                            !.pushSock = FALSE, !.tries = 0]
             z == [x EXCEPT !.pc = "connect", !.status = "busy",
                            !.designated = FALSE, !.tries = 0]
             w == [x EXCEPT !.pc = "connect", !.status = "busy", !.tries = 0]
  <2>1. \A v \in {y, z, w} : v \in Channel /\ v.pc = "connect" /\ v.status = "busy"
    <3>1. y \in Channel /\ y.pc = "connect" /\ y.status = "busy"
      BY <1>0, <1>1 DEF Channel, Points, Status
    <3>2. z \in Channel /\ z.pc = "connect" /\ z.status = "busy"
      BY <1>0, <1>1 DEF Channel, Points, Status
    <3>3. w \in Channel /\ w.pc = "connect" /\ w.status = "busy"
      BY <1>0, <1>1 DEF Channel, Points, Status
    <3> QED BY <3>1, <3>2, <3>3
  <2>2. \E v \in {y, z, w} : Step(c, v)
    BY <1>7 DEF SearchFinds, x
  <2> QED BY <1>1, <1>7, <2>1, <2>2 DEF SearchFinds, x
<1>8. CASE GiveUp(c)
  <2> DEFINE y == [x EXCEPT !.pc = "stopped"]
  <2>1. y \in Channel /\ y.pc = "stopped"
    BY <1>1 DEF Channel, Points
  <2> QED BY <1>1, <1>8, <2>1 DEF GiveUp, NothingFound, x
<1>9. CASE SearchYP(c)
  <2> DEFINE y == [x EXCEPT !.pc = "yp"]
  <2>1. y \in Channel /\ y.pc = "yp" /\ y.tries = x.tries /\ y.status = x.status
    BY <1>1 DEF Channel, Points
  <2> QED BY <1>1, <1>9, <2>1 DEF SearchYP, NothingFound, x
<1>10. CASE ContactYP(c)
  <2> DEFINE y == [x EXCEPT !.pc = "connect", !.status = "busy", !.tries = @ + 1]
  <2>1. x.tries + 1 \in 0 .. MaxTries
    BY <1>1, <1>10, RelayAssumption DEF ContactYP, Channel, x
  <2>2. y \in Channel /\ y.pc = "connect" /\ y.status = "busy"
    BY <1>1, <2>1 DEF Channel, Points, Status
  <2> QED BY <1>1, <1>10, <2>2 DEF ContactYP, x
<1>11. CASE YPUnresolved(c)
  <2> DEFINE p == IF x.active THEN "search" ELSE "stopped"
             y == [x EXCEPT !.pc = p]
  <2>1. y \in Channel /\ y.pc \in {"search", "stopped"} /\ y.status = x.status
    BY <1>1 DEF Channel, Points
  <2> QED BY <1>1, <1>11, <2>1 DEF YPUnresolved, x
<1>12. CASE Connect(c)
  <2> DEFINE y == [x EXCEPT !.pc = "read"]
             a == [[x EXCEPT !.pc = "after"] EXCEPT !.status = "busy"]
             b == [[x EXCEPT !.pc = "stopped"] EXCEPT !.status = "busy"]
  <2>1. /\ y \in Channel /\ y.pc = "read" /\ y.status = x.status
        /\ a \in Channel /\ a.pc = "after" /\ a.status = "busy"
        /\ b \in Channel /\ b.pc = "stopped" /\ b.status = "busy"
    BY <1>1 DEF Channel, Points, Status
  <2>2. /\ x.pc = "connect" /\ hits' \in [IDs -> BOOLEAN] /\ ypReady' = ypReady
        /\ Step(c, y) \/ Step(c, a) \/ Step(c, b)
    BY <1>1, <1>2, <1>12 DEF Connect, Fails, x
  <2> QED BY <1>1, <2>1, <2>2
<1>13. CASE ReadEnds(c) \/ SourceEnds(c) \/ ReadPacket(c)
  <2> DEFINE y == [x EXCEPT !.pc = "after", !.status = "busy"]
             a == [[x EXCEPT !.pc = "after", !.bump = FALSE]
                     EXCEPT !.status = "busy"]
             b == [[x EXCEPT !.pc = "after"] EXCEPT !.status = "busy"]
             z == [x EXCEPT !.status = "receiving", !.playStart = "recent"]
  <2>1. /\ y \in Channel /\ y.pc = "after" /\ y.status = "busy"
        /\ a \in Channel /\ a.pc = "after" /\ a.status = "busy"
    BY <1>1 DEF Channel, Points, Status
  <2>2. /\ b \in Channel /\ b.pc = "after" /\ b.status = "busy"
        /\ z \in Channel /\ z.pc = x.pc /\ z.status = "receiving"
    BY <1>1 DEF Channel, Points, Status
  <2>3. /\ x.pc = "read" /\ hits' \in [IDs -> BOOLEAN] /\ ypReady' = ypReady
        /\ Step(c, y) \/ Step(c, a) \/ Step(c, b) \/ Step(c, z)
    BY <1>1, <1>2, <1>13 DEF ReadEnds, SourceEnds, ReadPacket, Fails, x
  <2> QED BY <1>1, <2>1, <2>2, <2>3
<1>14. CASE GoIdle(c)
  <2> DEFINE y == [x EXCEPT !.pc = "idle", !.status = "idle"]
  <2>1. y \in Channel /\ y.pc = "idle"
    BY <1>1 DEF Channel, Points, Status
  <2> QED BY <1>1, <1>14, <2>1 DEF GoIdle, x
<1>15. CASE IdleLoop(c)
  <2> DEFINE y == [x EXCEPT !.pc = "loop"]
  <2>1. y \in Channel /\ y.pc = "loop"
    BY <1>1 DEF Channel, Points
  <2> QED BY <1>1, <1>15, <2>1 DEF IdleLoop, x
<1>16. CASE Stopped(c)
  <2> DEFINE y == [x EXCEPT !.pc = "start"]
  <2>1. y \in Channel /\ y.pc = "start"
    BY <1>1 DEF Channel, Points
  <2> QED BY <1>1, <1>4, <1>16, <2>1 DEF Stopped, x
<1> QED BY <1>5, <1>6, <1>7, <1>8, <1>9, <1>10, <1>11, <1>12, <1>13, <1>14,
           <1>15, <1>16

(* The object comes off the list.                                          *)
LEMMA DeleteKeeps ==
    ASSUME RelayInv, NEW c \in Chans, deleteChannel(c)
    PROVE  RelayInv'
<1> USE DEF RelayInv
<1>1. /\ ch' \in [Chans -> Channel]
      /\ \A d \in Chans : ch'[d] = IF d = c THEN Reset ELSE ch[d]
      /\ ch[c].pc = "delete"
      /\ UNCHANGED <<idled, hits, ypReady, client, admin, mgrLock, idler, ops>>
  BY ResetType DEF deleteChannel, TypeOK
<1>2. Once(list') /\ Range(list') = Range(list) \ {c}
  BY TakenOff DEF deleteChannel, TypeOK, Once
<1>3. Reset.pc = "none" /\ Reset.status = "none"
  BY DEF Reset
<1>4. TypeOK'
  BY <1>1, <1>2 DEF TypeOK, Once
<1>5. ListedHaveThreads'
  BY <1>1, <1>2, <1>3 DEF ListedHaveThreads, Once, ClientsOK
<1>6. IdledOK' /\ PointsOK'
  BY <1>1, <1>3 DEF IdledOK, PointsOK
<1>7. ClientsOK'
  BY <1>1 DEF ClientsOK
<1> QED BY <1>4, <1>5, <1>6, <1>7

(* A request creates a channel: nobody refers to the object.               *)
LEMMA CreateKeeps ==
    ASSUME RelayInv, NEW k \in Clients, createChannel(k)
    PROVE  RelayInv'
<1> USE DEF RelayInv
<1> DEFINE free == {d \in Chans : Unreferenced(d)}
           c == CHOOSE d \in free : TRUE
           made == [Reset EXCEPT !.id = client[k].id, !.pc = "made",
                                 !.status = "busy"]
           new == [client[k] EXCEPT !.pc = "begin", !.chan = c]
<1>1. c \in Chans /\ Unreferenced(c)
  BY DEF createChannel
<1>2. /\ client[k].pc = "create" /\ ch' = [ch EXCEPT ![c] = made]
      /\ list' = <<c>> \o list /\ client' = [client EXCEPT ![k] = new]
      /\ UNCHANGED <<idled, hits, ypReady, admin, mgrLock, idler, ops>>
  BY DEF createChannel, ClientStep
<1> HIDE DEF c
<1>3. /\ made \in Channel /\ made.pc = "made" /\ made.status = "busy"
      /\ new \in Client /\ new.pc = "begin" /\ new.chan = c
  <2>1. client[k] \in Client
    BY DEF TypeOK
  <2>2. client[k].id \in IDs \cup {None}
    BY <2>1 DEF Client
  <2> QED BY <1>1, <2>1, <2>2, ResetType DEF Channel, Client, Reset, Points, Status
<1> HIDE DEF made, new
<1>4. /\ ch' \in [Chans -> Channel]
      /\ \A d \in Chans : ch'[d] = IF d = c THEN made ELSE ch[d]
      /\ client' \in [Clients -> Client]
      /\ \A m \in Clients : client'[m] = IF m = k THEN new ELSE client[m]
  BY <1>1, <1>2, <1>3 DEF TypeOK
<1>5. /\ ch[c].pc = "none" /\ admin.chan # c /\ c \notin Range(list)
      /\ ch[c].status # "idle"
      /\ \A m \in Clients : client[m].chan # c
  BY <1>1 DEF Unreferenced, ListedHaveThreads, PointsOK
<1>6. Once(list') /\ Range(list') = Range(list) \cup {c}
  BY <1>1, <1>2, <1>5, InFront DEF TypeOK, Once
<1>7. TypeOK'
  BY <1>2, <1>4, <1>6 DEF TypeOK, Once
<1>8. ListedHaveThreads'
  <2>1. IsInjective(list)' /\ \A d \in Chans : d \in Range(list') <=> ch'[d].pc # "none"
    BY <1>3, <1>4, <1>6 DEF ListedHaveThreads, Once
  <2>2. ASSUME NEW d \in Chans
        PROVE  ch'[d].pc = "made" <=>
                  \E m \in Clients : client'[m].pc = "begin" /\ client'[m].chan = d
    <3>1. CASE d = c
      BY <1>3, <1>4, <3>1
    <3>2. CASE d # c
      BY <1>2, <1>3, <1>4, <3>2 DEF ListedHaveThreads
    <3> QED BY <3>1, <3>2
  <2>3. admin'.pc = "join" => ch'[admin'.chan].pc # "made"
    BY <1>2, <1>4, <1>5 DEF ListedHaveThreads, ClientsOK
  <2> QED BY <2>1, <2>2, <2>3 DEF ListedHaveThreads
<1>9. IdledOK' /\ PointsOK'
  BY <1>2, <1>3, <1>4, <1>5 DEF IdledOK, PointsOK
<1>10. ClientsOK'
  BY <1>1, <1>2, <1>3, <1>4, <1>5 DEF ClientsOK
<1> QED BY <1>7, <1>8, <1>9, <1>10

(* ... and starts its thread.                                              *)
LEMMA StartKeeps ==
    ASSUME RelayInv, NEW k \in Clients, startGet(k)
    PROVE  RelayInv'
<1> USE DEF RelayInv
<1> DEFINE c == client[k].chan
           started == [ch[c] EXCEPT !.pc = "start", !.status = "busy",
                                    !.active = TRUE]
           new == [client[k] EXCEPT !.pc = "wait", !.chan = None]
<1>1. client[k].pc = "begin" /\ c \in Chans /\ ch[c].pc = "made"
  BY DEF startGet, ClientsOK, ListedHaveThreads
<1>2. /\ ch' = [ch EXCEPT ![c] = started]
      /\ client' = [client EXCEPT ![k] = new]
      /\ UNCHANGED <<list, idled, hits, ypReady, admin, mgrLock, idler, ops>>
  <2>1. ch[c] \in Channel
    BY <1>1 DEF TypeOK
  <2> QED BY <1>1, <2>1 DEF startGet, ClientStep, TypeOK, Channel
<1>3. /\ started \in Channel /\ started.pc = "start" /\ started.status = "busy"
      /\ new \in Client /\ new.pc = "wait"
  <2>1. ch[c] \in Channel /\ client[k] \in Client
    BY <1>1 DEF TypeOK
  <2> QED BY <2>1 DEF Channel, Client, Points, Status
<1> HIDE DEF started, new, c
<1>4. /\ ch' \in [Chans -> Channel]
      /\ \A d \in Chans : ch'[d] = IF d = c THEN started ELSE ch[d]
      /\ client' \in [Clients -> Client]
      /\ \A m \in Clients : client'[m] = IF m = k THEN new ELSE client[m]
  BY <1>1, <1>2, <1>3 DEF TypeOK
<1>5. ch[c].status # "idle"
  BY <1>1 DEF PointsOK
<1>6. \A m \in Clients : client[m].pc = "begin" /\ client[m].chan = c => m = k
  BY <1>1 DEF ClientsOK, c
<1>7. TypeOK'
  BY <1>2, <1>4 DEF TypeOK, Once
<1>8. ListedHaveThreads'
  <2>1. IsInjective(list)' /\ \A d \in Chans : d \in Range(list') <=> ch'[d].pc # "none"
    BY <1>1, <1>2, <1>3, <1>4 DEF ListedHaveThreads
  <2>2. ASSUME NEW d \in Chans
        PROVE  ch'[d].pc = "made" <=>
                  \E m \in Clients : client'[m].pc = "begin" /\ client'[m].chan = d
    <3>1. CASE d = c
      BY <1>3, <1>4, <1>6, <3>1
    <3>2. CASE d # c
      <4>1. client[k].chan # d
        BY <3>2 DEF c
      <4> QED BY <1>1, <1>3, <1>4, <3>2, <4>1 DEF ListedHaveThreads
    <3> QED BY <3>1, <3>2
  <2>3. admin'.pc = "join" => ch'[admin'.chan].pc # "made"
    BY <1>2, <1>3, <1>4 DEF ListedHaveThreads, ClientsOK
  <2> QED BY <2>1, <2>2, <2>3 DEF ListedHaveThreads
<1>9. IdledOK' /\ PointsOK'
  BY <1>2, <1>3, <1>4, <1>5 DEF IdledOK, PointsOK
<1>10. ClientsOK'
  BY <1>1, <1>2, <1>3, <1>4 DEF ClientsOK
<1> QED BY <1>7, <1>8, <1>9, <1>10

(* A change of channels that concerns neither threads nor their state.     *)
Alike(x, y) == x.pc = y.pc /\ x.status = y.status /\ x.tries = y.tries

(* The other steps of a request.                                           *)
LEMMA ClientKeeps ==
    ASSUME RelayInv, NEW k \in Clients,
           \/ \E i \in IDs : Request(k, i)
           \/ Wake(k) \/ Poll(k) \/ WaitEnds(k) \/ StartListening(k)
           \/ StopListening(k)
    PROVE  RelayInv'
<1>1. /\ TypeOK /\ Once(list) /\ client[k] \in Client
      /\ client[k].pc = "wake" => client[k].chan \in Chans
  BY DEF RelayInv, TypeOK, Once, ClientsOK
<1>2. \E new \in Client :
        /\ client' = [client EXCEPT ![k] = new]
        /\ client[k].pc # "begin" /\ new.pc # "begin"
        /\ new.pc = "wake" => new.chan \in Chans
  <2>1. Outside \in Client /\ Outside.pc = "out"
    BY DEF Outside, Client
  <2>2. CASE \E i \in IDs : Request(k, i)
    <3> PICK i \in IDs : Request(k, i)
      BY <2>2
    <3> DEFINE a == [pc |-> "create", id |-> i, chan |-> None]
               b == [pc |-> "got", id |-> i, chan |-> None]
               e == [pc |-> "wake", id |-> i, chan |-> FindChannel(i)]
    <3>1. a \in Client /\ b \in Client /\ a.pc = "create" /\ b.pc = "got"
      BY DEF Client
    <3>2. FindChannel(i) # None =>
            e \in Client /\ e.pc = "wake" /\ e.chan \in Chans
      BY <1>1, FoundIsChannel DEF Client
    <3>3. client[k].pc = "out"
          /\ \/ ClientStep(k, a) \/ ClientStep(k, b)
             \/ FindChannel(i) # None /\ ClientStep(k, e)
      BY DEF Request
    <3> HIDE DEF a, b, e
    <3> QED BY <3>1, <3>2, <3>3 DEF ClientStep
  <2>3. CASE ~ \E i \in IDs : Request(k, i)
    <3> DEFINE a == [client[k] EXCEPT !.pc = "wait"]
               b == [client[k] EXCEPT !.pc = "got", !.chan = None]
               e == [client[k] EXCEPT !.pc = "listen"]
    <3>1. /\ a \in Client /\ b \in Client /\ e \in Client
          /\ a.pc = "wait" /\ b.pc = "got" /\ e.pc = "listen"
      BY <1>1 DEF Client
    <3>2. /\ client[k].pc # "begin"
          /\ \/ ClientStep(k, a) \/ ClientStep(k, b) \/ ClientStep(k, e)
             \/ ClientStep(k, Outside)
      BY <2>3 DEF Wake, Poll, WaitEnds, StartListening, StopListening
    <3> HIDE DEF a, b, e
    <3> QED BY <2>1, <3>1, <3>2 DEF ClientStep
  <2> QED BY <2>2, <2>3
<1>3. ch' \in [Chans -> Channel] /\ \A d \in Chans : Alike(ch'[d], ch[d])
  <2>1. CASE Wake(k)
    <3> DEFINE y == [ch[client[k].chan] EXCEPT !.playStart = "zero"]
    <3>1. client[k].chan \in Chans
      BY <1>1, <2>1 DEF Wake
    <3>2. y \in Channel /\ Alike(y, ch[client[k].chan])
      <4>1. ch[client[k].chan] \in Channel
        BY <1>1, <3>1 DEF TypeOK
      <4> QED BY <4>1 DEF Channel, Alike
    <3>3. ch' = [ch EXCEPT ![client[k].chan] = y]
      BY <2>1 DEF Wake
    <3> HIDE DEF y
    <3> QED BY <1>1, <3>1, <3>2, <3>3 DEF TypeOK, Alike
  <2>2. CASE ~Wake(k)
    <3>1. ch' = ch
      BY <2>2 DEF Request, Poll, WaitEnds, StartListening, StopListening
    <3> QED BY <1>1, <3>1 DEF TypeOK, Alike
  <2> QED BY <2>1, <2>2
<1>4. UNCHANGED <<list, idled, hits, ypReady, admin, mgrLock, idler, ops>>
  BY DEF Request, Wake, Poll, WaitEnds, StartListening, StopListening, ClientStep
<1>5. /\ client' \in [Clients -> Client]
      /\ \A m \in Clients :
            /\ client'[m].pc = "wake" => client'[m].chan \in Chans
            /\ client'[m].pc = "begin" <=> client[m].pc = "begin"
            /\ client'[m].pc = "begin" => client'[m].chan = client[m].chan
  BY <1>1, <1>2 DEF TypeOK, RelayInv, ClientsOK
<1>6. /\ Once(admin.rest)
      /\ admin.pc = "join" => admin.chan \in Chans /\ ch[admin.chan].pc # "made"
  BY DEF RelayInv, TypeOK, Once, ClientsOK, ListedHaveThreads
<1> QED BY <1>1, <1>3, <1>4, <1>5, <1>6, Kept DEF TypeOK, Alike

(* A step of the administrator, the idle thread or the environment.        *)
LEMMA OthersKeep ==
    ASSUME RelayInv,
           UNCHANGED <<list, idled, client>>,
           NEW c, NEW new,
           ch' = ch \/ (ch' = [ch EXCEPT ![c] = new]
                        /\ (c \in Chans => new \in Channel /\ Alike(new, ch[c]))),
           hits' \in [IDs -> BOOLEAN], {ypReady', mgrLock'} \subseteq BOOLEAN,
           idler' \in {"count", "close"}, ops' \in 0 .. MaxOps,
           \/ admin' = admin
           \/ /\ admin' \in [pc : {"ready", "copy", "close", "join"},
                             chan : Chans \cup {None}, rest : Seq(Chans)]
              /\ Once(admin'.rest)
              /\ admin'.pc = "join" => /\ admin'.chan \in Chans
                                       /\ ch[admin'.chan].pc # "made"
    PROVE  RelayInv'
<1>1. TypeOK
  BY DEF RelayInv
<1>2. ch' \in [Chans -> Channel] /\ \A d \in Chans : Alike(ch'[d], ch[d])
  BY <1>1 DEF TypeOK, Alike
<1>3. /\ admin' \in [pc : {"ready", "copy", "close", "join"},
                     chan : Chans \cup {None}, rest : Seq(Chans)]
      /\ Once(admin'.rest)
      /\ admin'.pc = "join" => /\ admin'.chan \in Chans
                               /\ ch[admin'.chan].pc # "made"
  BY <1>1 DEF TypeOK, Once, RelayInv, ClientsOK, ListedHaveThreads
<1>4. \A k \in Clients : client[k].pc = "wake" => client[k].chan \in Chans
  BY DEF RelayInv, ClientsOK
<1> QED BY <1>1, <1>2, <1>3, <1>4, Kept DEF TypeOK, Alike

(* A command for a channel, and a GIV connection for one.                  *)
LEMMA CommandKeeps ==
    ASSUME RelayInv, NEW i \in IDs,
           \/ CMD_stop(i) \/ stopChannel(i) \/ CMD_bump(i) \/ CMD_keep(i)
           \/ acceptGIV(i)
    PROVE  RelayInv'
<1> DEFINE c == FindChannel(i)
<1>1. TypeOK /\ Once(list)
  BY DEF RelayInv, TypeOK, Once
<1>2. c \in Chans /\ ch[c] \in Channel
  <2>1. c # None
    BY DEF CMD_stop, stopChannel, CMD_bump, CMD_keep, acceptGIV, Command
  <2> QED BY <1>1, <2>1, FoundIsChannel DEF TypeOK
<1> HIDE DEF c
<1>3. PICK new \in Channel : Command(i, new) /\ Alike(new, ch[c])
  <2>1. CASE CMD_stop(i) \/ stopChannel(i)
    <3> DEFINE y == [ch[c] EXCEPT !.active = FALSE]
    <3>1. y \in Channel /\ Alike(y, ch[c])
      BY <1>2 DEF Channel, Alike
    <3> QED BY <2>1, <3>1 DEF CMD_stop, stopChannel, c
  <2>2. CASE CMD_bump(i)
    <3> PICK named \in BOOLEAN :
            Command(i, [ch[c] EXCEPT !.bump = TRUE, !.designated = @ \/ named])
      BY <2>2 DEF CMD_bump, c
    <3>1. (ch[c].designated \/ named) \in BOOLEAN
      OBVIOUS
    <3> DEFINE y == [ch[c] EXCEPT !.bump = TRUE, !.designated = @ \/ named]
    <3>2. y \in Channel /\ Alike(y, ch[c])
      BY <1>2, <3>1 DEF Channel, Alike
    <3> QED BY <3>2
  <2>3. CASE CMD_keep(i)
    <3> DEFINE y == [ch[c] EXCEPT !.stay = ~@]
    <3>1. y \in Channel /\ Alike(y, ch[c])
      <4> DEFINE b == ~ch[c].stay
      <4>1. b \in BOOLEAN
        OBVIOUS
      <4>2. y = [ch[c] EXCEPT !.stay = b]
        OBVIOUS
      <4> HIDE DEF b, y
      <4> QED BY <1>2, <4>1, <4>2 DEF Channel, Alike
    <3> QED BY <2>3, <3>1 DEF CMD_keep, c
  <2>4. CASE acceptGIV(i)
    <3> DEFINE y == [ch[c] EXCEPT !.pushSock = TRUE]
    <3>1. y \in Channel /\ Alike(y, ch[c])
      BY <1>2 DEF Channel, Alike
    <3> QED BY <2>4, <3>1 DEF acceptGIV, c
  <2> QED BY <2>1, <2>2, <2>3, <2>4
<1>4. /\ ch' = [ch EXCEPT ![c] = new]
      /\ UNCHANGED <<list, idled, hits, ypReady, client, mgrLock, idler>>
      /\ ops' \in 0 .. MaxOps
  BY <1>1, <1>3, RelayAssumption DEF Command, TypeOK, c
<1>5. \/ admin' = admin
      \/ /\ admin' \in [pc : {"ready", "copy", "close", "join"},
                        chan : Chans \cup {None}, rest : Seq(Chans)]
         /\ Once(admin'.rest)
         /\ admin'.pc = "join" => admin'.chan \in Chans /\ ch[admin'.chan].pc # "made"
  <2>1. CASE ~CMD_stop(i)
    BY <2>1 DEF stopChannel, CMD_bump, CMD_keep, acceptGIV
  <2>2. CASE CMD_stop(i)
    <3>1. /\ <<>> \in Seq(Chans) /\ Once(<<>>)
      BY DEF Once, IsInjective
    <3>2. \/ admin' = AdminIdle
          \/ /\ ch[c].pc # "made"
             /\ admin' = [AdminIdle EXCEPT !.pc = "join", !.chan = c]
      BY <2>2 DEF CMD_stop, c
    <3>3. CASE admin' = AdminIdle
      BY <3>1, <3>3 DEF AdminIdle
    <3>4. CASE /\ ch[c].pc # "made"
               /\ admin' = [AdminIdle EXCEPT !.pc = "join", !.chan = c]
      <4>1. admin' = [pc |-> "join", chan |-> c, rest |-> <<>>]
        BY <3>4 DEF AdminIdle
      <4>2. admin'.pc = "join" /\ admin'.chan = c /\ admin'.rest = <<>>
        BY <4>1
      <4>3. admin' \in [pc : {"ready", "copy", "close", "join"},
                        chan : Chans \cup {None}, rest : Seq(Chans)]
        BY <1>2, <3>1, <4>1
      <4> QED BY <1>2, <3>1, <3>4, <4>2, <4>3
    <3> QED BY <3>2, <3>3, <3>4
  <2> QED BY <2>1, <2>2
<1> QED BY <1>1, <1>2, <1>3, <1>4, <1>5, OthersKeep DEF TypeOK

(* The rest: closeIdles, the idle thread, time and the network.            *)
LEMMA RestKeeps ==
    ASSUME RelayInv,
           \/ closeIdles \/ CopyEnds \/ CloseNext \/ waitThread
           \/ IdleThread \/ RetryTimePasses
           \/ \E i \in IDs : HitsChange(i)
           \/ \E c \in Chans : Age(c)
    PROVE  RelayInv'
<1>1. /\ TypeOK /\ Once(list) /\ Once(admin.rest)
      /\ \A c \in Chans : ch[c].status = "idle" => ch[c].pc # "made"
  BY DEF RelayInv, TypeOK, Once, PointsOK
<1> DEFINE AdminType == [pc : {"ready", "copy", "close", "join"},
                         chan : Chans \cup {None}, rest : Seq(Chans)]
           AdminOK == \/ admin' = admin
                      \/ /\ admin' \in AdminType /\ Once(admin'.rest)
                         /\ admin'.pc = "join" => /\ admin'.chan \in Chans
                                                  /\ ch[admin'.chan].pc # "made"
           ChansOK == \E c, new : 
                        \/ ch' = ch
                        \/ /\ ch' = [ch EXCEPT ![c] = new]
                           /\ c \in Chans => new \in Channel /\ Alike(new, ch[c])
<1>2. UNCHANGED <<list, idled, client>>
  BY DEF closeIdles, CopyEnds, CloseNext, waitThread, IdleThread, CountIdles,
         closeOldestIdle, RetryTimePasses, HitsChange, Age, AdminStep
<1>3. /\ hits' \in [IDs -> BOOLEAN]
      /\ {ypReady', mgrLock'} \subseteq BOOLEAN
      /\ idler' \in {"count", "close"}
  BY <1>1 DEF TypeOK, closeIdles, CopyEnds, CloseNext, waitThread, IdleThread,
              CountIdles, closeOldestIdle, RetryTimePasses, HitsChange, Age,
              AdminStep
<1>4. ops' \in 0 .. MaxOps
  <2>1. CASE closeIdles
    BY <1>1, <2>1, RelayAssumption DEF TypeOK, closeIdles
  <2>2. CASE ~closeIdles
    BY <1>1, <2>2 DEF TypeOK, CopyEnds, CloseNext, waitThread, IdleThread,
              CountIdles, closeOldestIdle, RetryTimePasses, HitsChange, Age,
              AdminStep
  <2> QED BY <2>1, <2>2
<1>5. AdminOK
  <2>1. admin \in AdminType
    BY <1>1 DEF TypeOK
  <2>2. CASE closeIdles
    <3>1. admin' = [pc |-> "copy", chan |-> None, rest |-> list]
      BY <2>2 DEF closeIdles, AdminStep, AdminIdle
    <3> QED BY <1>1, <3>1 DEF Once
  <2>3. CASE CopyEnds
    BY <1>1, <2>1, <2>3 DEF CopyEnds, AdminStep
  <2>4. CASE CloseNext
    <3>1. CASE admin.rest = <<>>
      <4>1. <<>> \in Seq(Chans) /\ Once(<<>>)
        BY DEF Once, IsInjective
      <4>2. admin' = [pc |-> "ready", chan |-> None, rest |-> <<>>]
        BY <2>4, <3>1 DEF CloseNext, AdminStep, AdminIdle
      <4> QED BY <4>1, <4>2
    <3>2. CASE admin.rest # <<>>
      <4> DEFINE c == Head(admin.rest)
                 t == Tail(admin.rest)
      <4>1. Once(t) /\ t \in Seq(Chans) /\ c \in Chans
        BY <1>1, <3>2, BehindFirst DEF Once
      <4>2. \/ /\ ch[c].status = "idle"
               /\ admin' = [pc |-> "join", chan |-> c, rest |-> t]
            \/ admin' = [admin EXCEPT !.rest = t]
        BY <2>4, <3>2 DEF CloseNext, AdminStep
      <4> HIDE DEF c, t
      <4>3. ch[c].status = "idle" => ch[c].pc # "made"
        BY <1>1, <4>1
      <4>4. admin.pc = "close"
        BY <2>4 DEF CloseNext
      <4> QED BY <2>1, <4>1, <4>2, <4>3, <4>4
    <3> QED BY <3>1, <3>2
  <2>5. CASE waitThread
    BY <1>1, <2>1, <2>5 DEF waitThread, AdminStep
  <2>6. CASE ~(closeIdles \/ CopyEnds \/ CloseNext \/ waitThread)
    BY <2>6 DEF IdleThread, CountIdles, closeOldestIdle, RetryTimePasses,
                HitsChange, Age
  <2> QED BY <2>2, <2>3, <2>4, <2>5, <2>6
<1>6. ChansOK
  <2>1. CASE CloseNext
    <3>1. CASE admin.rest = <<>>
      BY <2>1, <3>1 DEF CloseNext
    <3>2. CASE admin.rest # <<>>
      <4> DEFINE c == Head(admin.rest)
                 a == ch[c].active /\ ~(ch[c].id # None /\ ch[c].status = "idle")
                 y == [ch[c] EXCEPT !.active = a]
      <4>1. c \in Chans /\ ch[c] \in Channel
        BY <1>1, <3>2, BehindFirst DEF TypeOK
      <4>2. ch' = [ch EXCEPT ![c] = y]
        BY <2>1, <3>2 DEF CloseNext
      <4>3. a \in BOOLEAN
        OBVIOUS
      <4> HIDE DEF c, a
      <4>4. y \in Channel /\ Alike(y, ch[c])
        BY <4>1, <4>3 DEF Channel, Alike
      <4> QED BY <4>2, <4>4
    <3> QED BY <3>1, <3>2
  <2>2. CASE closeOldestIdle
    <3> DEFINE idle == {n \in DOMAIN idled : idled[n] \in IdleChannels}
               c == idled[CHOOSE n \in idle : \A m \in idle : n <= m]
               y == [ch[c] EXCEPT !.active = FALSE]
    <3>1. ch' = ch \/ ch' = [ch EXCEPT ![c] = y]
      BY <2>2 DEF closeOldestIdle
    <3> HIDE DEF idle, c
    <3>2. ASSUME c \in Chans PROVE y \in Channel /\ Alike(y, ch[c])
      <4>1. ch[c] \in Channel
        BY <1>1, <3>2 DEF TypeOK
      <4> QED BY <4>1 DEF Channel, Alike
    <3> QED BY <3>1, <3>2
  <2>3. CASE \E c \in Chans : Age(c)
    <3> PICK c \in Chans : Age(c)
      BY <2>3
    <3> DEFINE y == [ch[c] EXCEPT !.playStart = "past"]
    <3>1. ch' = [ch EXCEPT ![c] = y]
      BY DEF Age
    <3>2. ch[c] \in Channel
      BY <1>1 DEF TypeOK
    <3>3. y \in Channel /\ Alike(y, ch[c])
      BY <3>2 DEF Channel, Alike
    <3> QED BY <3>1, <3>3
  <2>4. CASE ~(CloseNext \/ closeOldestIdle \/ \E c \in Chans : Age(c))
    BY <2>4 DEF closeIdles, CopyEnds, waitThread, IdleThread, CountIdles,
                RetryTimePasses, HitsChange
  <2> QED BY <2>1, <2>2, <2>3, <2>4
<1> QED BY <1>2, <1>3, <1>4, <1>5, <1>6, OthersKeep

(* Every step keeps the invariant.                                         *)
LEMMA RelayNext == RelayInv /\ [Next]_vars => RelayInv'
<1> SUFFICES ASSUME RelayInv, [Next]_vars PROVE RelayInv'
  OBVIOUS
<1>1. CASE UNCHANGED vars
  BY <1>1 DEF vars, RelayInv, TypeOK, ListedHaveThreads, IdledOK, PointsOK,
              ClientsOK
<1>2. CASE \E c \in Chans : ChannelThread(c) \/ Age(c)
  BY <1>2, ThreadKeeps, DeleteKeeps, RestKeeps DEF ChannelThread, ThreadStep
<1>3. CASE \E k \in Clients : ClientThread(k)
  BY <1>3, CreateKeeps, StartKeeps, ClientKeeps DEF ClientThread
<1>4. CASE \/ AdminThread \/ IdleThread \/ RetryTimePasses
           \/ \E i \in IDs : HitsChange(i)
  BY <1>4, CommandKeeps, RestKeeps DEF AdminThread
<1> QED BY <1>1, <1>2, <1>3, <1>4 DEF Next

(* Channels, lists, requests and commands are what they should be; in      *)
(* particular no list names a channel twice (createChannel puts the object *)
(* in front of the list while nothing refers to it).                       *)
THEOREM TypeCorrect == Spec => []TypeOK
<1>1. RelayInv => TypeOK
  BY DEF RelayInv
<1> QED BY <1>1, RelayInit, RelayNext, PTL DEF Spec

(* The list of channels and the threads of channels agree, a thread is     *)
(* started once, and closeIdles and CMD_stop wait for started threads only *)
(* (ChanMgr::createChannel, deleteChannel, Channel::startGet).             *)
THEOREM ListAndThreadsAgree == Spec => []ListedHaveThreads
<1>1. RelayInv => ListedHaveThreads
  BY DEF RelayInv
<1> QED BY <1>1, RelayInit, RelayNext, PTL DEF Spec

-----------------------------------------------------------------------------
(* A channel that this node broadcasts has the root server instead of a    *)
(* source at its other end: the connection that RootLink describes, with   *)
(* any number of sockets, versions, failures and updates on their way.     *)

CONSTANTS Slots, MaxVersion, MaxQueue, MaxFaults
VARIABLES chan, version, old, last, cout, outData, cur, socks, listed, faults

Link == INSTANCE RootLink

(* The words of the root server are messages.                              *)
LEMMA WordType ==
    ASSUME Link!RootLinkAssumption
    PROVE  \A k \in {"update", "quit", "oleh"} : Link!Word(k) \in Link!Message
BY DEF Link!Word, Link!Message, Link!RootLinkAssumption

(* An update of the tracker is a message.                                  *)
LEMMA HostType == \A v \in 0 .. MaxVersion : Link!Host(v) \in Link!Message
BY DEF Link!Host, Link!Message

(* The update that says the channel is gone is a message.                  *)
LEMMA GoneType ==
    ASSUME Link!RootLinkAssumption
    PROVE  Link!Gone \in Link!Message
BY HostType DEF Link!Gone, Link!RootLinkAssumption

(* A socket is closed or was opened for a handshake.                       *)
LEMMA SocketType == Link!Closed \in Link!Socket /\ Link!Opened \in Link!Socket
<1>1. Link!Closed \in Link!Socket
  BY DEF Link!Closed, Link!Socket
<1>2. /\ <<>> \in Seq(Link!Message)
      /\ "hello" \in {"hello", "passed", "in", "gone"}
  OBVIOUS
<1>3. Link!Opened \in Link!Socket
  BY <1>1, <1>2 DEF Link!Opened, Link!Socket
<1> QED BY <1>1, <1>3

(* One socket changes and stays one.                                      *)
LEMMA OneSocket ==
    ASSUME Link!RootOK, NEW s \in Slots, NEW x \in Link!Socket,
           socks' = [socks EXCEPT ![s] = x]
    PROVE  socks' \in [Slots -> Link!Socket]
BY DEF Link!RootOK

(* What broadcastTrackerUpdate leaves.                                     *)
LEMMA TrackerUpdateType ==
    ASSUME Link!TypeOK, NEW force \in BOOLEAN, NEW p \in Link!Message,
           Link!TrackerUpdate(force, p)
    PROVE  outData' \in Seq(Link!Message) /\ last' \in {"never", "recent",
    "old"}
BY DEF Link!TrackerUpdate, Link!TypeOK, Link!ChannelOK, Link!LinkOK

(* What becomes of a socket that one end reads, writes or closes. *)
LEMMA HungUpType ==
    ASSUME NEW x \in Link!Socket, NEW more \in Seq(Link!Message)
    PROVE  Link!HungUp(x, more) \in Link!Socket
<1>1. x.up \o more \in Seq(Link!Message) /\ <<>> \in Seq(Link!Message)
  BY DEF Link!Socket
<1> QED BY <1>1, SocketType DEF Link!HungUp, Link!Socket

(* The root server answers on a socket.                                    *)
LEMMA AnsweredType ==
    ASSUME NEW x \in Link!Socket, NEW words \in Seq(Link!Message),
           NEW v \in {"hello", "passed", "in", "gone"}
    PROVE  Link!Answered(x, v, words) \in Link!Socket
<1>1. x.down \o words \in Seq(Link!Message)
  BY DEF Link!Socket
<1> QED BY <1>1 DEF Link!Answered, Link!Socket

(* The channel reads an answer off a socket.                               *)
LEMMA ReadDownType ==
    ASSUME NEW x \in Link!Socket, x.down # <<>>
    PROVE  Link!ReadDown(x) \in Link!Socket /\ Head(x.down) \in Link!Message
<1>1. x.down \in Seq(Link!Message)
  BY DEF Link!Socket
<1>2. Tail(x.down) \in Seq(Link!Message) /\ Head(x.down) \in Link!Message
  BY <1>1
<1> QED BY <1>2 DEF Link!ReadDown, Link!Socket

(* The channel writes an update to a socket.                               *)
LEMMA SentUpType ==
    ASSUME NEW x \in Link!Socket, NEW p \in Link!Message
    PROVE  Link!SentUp(x, p) \in Link!Socket
<1>1. Append(x.up, p) \in Seq(Link!Message)
  BY DEF Link!Socket
<1> QED BY <1>1 DEF Link!SentUp, Link!Socket

(* The link that hangs up has no socket and waits.                         *)
LEMMA HangupType ==
    ASSUME Link!RootOK, cur \in Slots, NEW more \in Seq(Link!Message),
           Link!Hangup(more)
    PROVE  /\ socks' \in [Slots -> Link!Socket]
           /\ cur' = None /\ cout' = "wait"
<1>1. Link!HungUp(socks[cur], more) \in Link!Socket
  BY HungUpType DEF Link!RootOK
<1> QED BY <1>1, OneSocket DEF Link!Hangup

(* The link starts without a socket.                                       *)
LEMMA LinkTypeInit ==
    ASSUME Link!RootLinkAssumption, Link!Init
    PROVE  Link!TypeOK
<1>1. Link!ChannelOK
  BY DEF Link!RootLinkAssumption, Link!Init, Link!ChannelOK
<1>2. Link!LinkOK
  BY DEF Link!Init, Link!LinkOK
<1>3. Link!RootOK
  BY SocketType DEF Link!RootLinkAssumption, Link!Init, Link!RootOK
<1> QED BY <1>1, <1>2, <1>3 DEF Link!Init, Link!TypeOK

(* The channel.                                                            *)
LEMMA LinkChannelType ==
    ASSUME Link!RootLinkAssumption, Link!TypeOK,
           \/ Link!Broadcast \/ Link!UpdateInfo \/ Link!Periodic
           \/ Link!TimePasses \/ Link!Stop
           \/ Link!LastUpdate \/ Link!Takeover \/ Link!OldLastUpdate
    PROVE  Link!TypeOK'
<1>1. Link!RootOK'
  BY DEF Link!Broadcast, Link!UpdateInfo, Link!Periodic, Link!TimePasses,
         Link!Stop, Link!LastUpdate, Link!Takeover, Link!OldLastUpdate,
         Link!TypeOK, Link!RootOK
<1>2. old' \in BOOLEAN
  BY DEF Link!Broadcast, Link!UpdateInfo, Link!Periodic, Link!TimePasses,
         Link!Stop, Link!LastUpdate, Link!Takeover, Link!OldLastUpdate,
         Link!TypeOK
<1>3. cout' = cout /\ cur' = cur
  BY DEF Link!Broadcast, Link!UpdateInfo, Link!Periodic, Link!TimePasses,
         Link!Stop, Link!LastUpdate, Link!Takeover, Link!OldLastUpdate
<1>4. CASE Link!Broadcast \/ Link!TimePasses \/ Link!Stop \/ Link!Takeover
  <2>1. outData' = outData
    BY <1>4 DEF Link!Broadcast, Link!TimePasses, Link!Stop, Link!Takeover
  <2>2. Link!ChannelOK'
    BY <1>4
    DEF Link!Broadcast, Link!TimePasses, Link!Stop, Link!Takeover,
        Link!TypeOK, Link!ChannelOK
  <2> QED BY <1>1, <1>2, <1>3, <2>1, <2>2 DEF Link!TypeOK, Link!LinkOK
<1>5. CASE Link!UpdateInfo
  <2>1. version' \in 0 .. MaxVersion /\ chan' = chan
    BY <1>5 DEF Link!UpdateInfo, Link!TypeOK, Link!ChannelOK
  <2>2. outData' \in Seq(Link!Message) /\ last' \in {"never", "recent", "old"}
    BY <1>5, <2>1, HostType, TrackerUpdateType
    DEF Link!UpdateInfo, Link!TypeOK, Link!ChannelOK, Link!LinkOK
  <2> QED BY <1>1, <1>2, <1>3, <2>1, <2>2
          DEF Link!TypeOK, Link!LinkOK, Link!ChannelOK
<1>6. CASE Link!Periodic \/ Link!LastUpdate
  <2>1. Link!Host(version) \in Link!Message
    BY HostType DEF Link!TypeOK, Link!ChannelOK
  <2>2. outData' \in Seq(Link!Message) /\ last' \in {"never", "recent", "old"}
    BY <1>6, <2>1, GoneType, TrackerUpdateType
    DEF Link!Periodic, Link!LastUpdate
  <2>3. version' = version /\ chan' \in {chan, "off"}
    BY <1>6 DEF Link!Periodic, Link!LastUpdate
  <2> QED BY <1>1, <1>2, <1>3, <2>2, <2>3
          DEF Link!TypeOK, Link!LinkOK, Link!ChannelOK
<1>7. CASE Link!OldLastUpdate
  <2>1. outData' \in Seq(Link!Message)
    BY <1>7, GoneType DEF Link!OldLastUpdate, Link!TypeOK, Link!LinkOK
  <2>2. Link!ChannelOK'
    BY <1>7 DEF Link!OldLastUpdate, Link!TypeOK, Link!ChannelOK
  <2> QED BY <1>1, <1>2, <1>3, <2>1, <2>2 DEF Link!TypeOK, Link!LinkOK
<1> QED BY <1>4, <1>5, <1>6, <1>7

(* The broadcaster's end of the link: before there is a connection ...     *)
LEMMA LinkConnectType ==
    ASSUME Link!RootLinkAssumption, Link!TypeOK,
           Link!ConnectBroadcaster \/ Link!Connect
    PROVE  Link!TypeOK'
<1> USE DEF Link!TypeOK
<1>1. CASE Link!ConnectBroadcaster
  BY <1>1
  DEF Link!ConnectBroadcaster, Link!LinkOK, Link!RootOK, Link!ChannelOK
<1>2. CASE Link!Connect
  <2> DEFINE s == CHOOSE t \in {t \in Slots : socks[t] = Link!Closed} : TRUE
  <2>1. s \in Slots
    BY <1>2 DEF Link!Connect
  <2>2. socks' \in [Slots -> Link!Socket] /\ cur' = s /\ cout' = "handshake"
    BY <1>2, <2>1, SocketType, OneSocket DEF Link!Connect
  <2> QED BY <1>2, <2>1, <2>2
          DEF Link!RootLinkAssumption, Link!Connect, Link!LinkOK,
              Link!RootOK, Link!ChannelOK
<1> QED BY <1>1, <1>2

(* ... and while there is one.                                             *)
LEMMA LinkUpType ==
    ASSUME Link!RootLinkAssumption, Link!TypeOK,
           \/ Link!Shaken \/ Link!InitStream \/ Link!Send \/ Link!Read
           \/ Link!OffAir \/ Link!Lost \/ Link!NoRoot
           \/ Link!Abort
    PROVE  Link!TypeOK'
<1> USE DEF Link!TypeOK
<1>1. cur \in Slots /\ socks[cur] \in Link!Socket
  <2>1. cout \in {"handshake", "connected", "link"}
    BY DEF Link!Shaken, Link!InitStream, Link!Send, Link!Read, Link!OffAir,
           Link!Lost, Link!NoRoot, Link!Abort
  <2> QED BY <2>1 DEF Link!LinkOK, Link!RootOK
<1>2. /\ <<>> \in Seq(Link!Message)
      /\ outData \o <<Link!Word("quit")>> \in Seq(Link!Message)
  BY WordType DEF Link!LinkOK
<1>3. UNCHANGED <<chan, old, version, listed>> /\ faults' \in 0 .. MaxFaults
  <2>1. UNCHANGED <<chan, old, version, listed>>
    BY DEF Link!Shaken, Link!InitStream, Link!Send, Link!Read, Link!OffAir,
           Link!Lost, Link!NoRoot, Link!Abort
  <2>2. CASE Link!Shaken \/ Link!InitStream \/ Link!Send \/ Link!Read
           \/ Link!OffAir \/ Link!Lost
    <3>1. faults' = faults
      BY <2>2
      DEF Link!Shaken, Link!InitStream, Link!Send, Link!Read, Link!OffAir,
          Link!Lost
    <3> QED BY <2>1, <3>1 DEF Link!RootOK
  <2>3. CASE Link!NoRoot \/ Link!Abort
    <3>1. faults > 0 /\ faults' = faults - 1
      BY <2>3 DEF Link!NoRoot, Link!Abort
    <3> QED BY <2>1, <3>1 DEF Link!RootLinkAssumption, Link!RootOK
  <2> QED BY <2>2, <2>3
<1>4. CASE Link!Shaken
  <2>1. socks' \in [Slots -> Link!Socket]
    BY <1>1, <1>4, ReadDownType, OneSocket DEF Link!Shaken
  <2> QED BY <1>1, <1>3, <1>4, <2>1
          DEF Link!RootLinkAssumption, Link!Shaken, Link!LinkOK,
              Link!RootOK, Link!ChannelOK
<1>5. CASE Link!InitStream
  BY <1>1, <1>2, <1>3, <1>5
  DEF Link!RootLinkAssumption, Link!InitStream, Link!LinkOK, Link!RootOK,
      Link!ChannelOK
<1>6. CASE Link!Send
  <2>1. Head(outData) \in Link!Message /\ Tail(outData) \in Seq(Link!Message)
    BY <1>6 DEF Link!Send, Link!LinkOK
  <2>2. socks' \in [Slots -> Link!Socket]
    BY <1>1, <1>6, <2>1, SentUpType, OneSocket DEF Link!Send
  <2> QED BY <1>3, <1>6, <2>1, <2>2
          DEF Link!Send, Link!LinkOK, Link!RootOK, Link!ChannelOK
<1>7. CASE Link!Read /\ cout' = "link"
  <2>1. socks' = [socks EXCEPT ![cur] = Link!ReadDown(@)] /\ cur' = cur
    BY <1>7 DEF Link!Read, Link!Hangup
  <2>2. socks' \in [Slots -> Link!Socket]
    BY <1>1, <1>7, <2>1, ReadDownType, OneSocket DEF Link!Read
  <2>3. outData' \in Seq(Link!Message) /\ last' \in {"never", "recent", "old"}
    <3>1. Link!Host(version) \in Link!Message
      BY HostType DEF Link!ChannelOK
    <3> QED BY <1>7, <3>1, TrackerUpdateType
            DEF Link!Read, Link!Hangup, Link!LinkOK, Link!ChannelOK
  <2> QED BY <1>1, <1>3, <1>7, <2>1, <2>2, <2>3
          DEF Link!RootLinkAssumption, Link!LinkOK, Link!RootOK,
              Link!ChannelOK
<1>8. CASE \/ Link!Read /\ cout' # "link"
           \/ Link!OffAir \/ Link!NoRoot \/ Link!Lost \/ Link!Abort
  <2>1. /\ socks' \in [Slots -> Link!Socket]
        /\ cur' = None /\ cout' \in {"none", "wait"}
    <3>1. CASE Link!Abort
      BY <1>1, <1>2, <3>1, HungUpType, OneSocket DEF Link!Abort
    <3>2. CASE \E more \in Seq(Link!Message) : Link!Hangup(more)
      BY <1>1, <3>2, HangupType
    <3> QED BY <1>2, <1>8, <3>1, <3>2
            DEF Link!Read, Link!OffAir, Link!NoRoot, Link!Lost
  <2>2. outData' \in Seq(Link!Message) /\ last' = last
    BY <1>2, <1>8
    DEF Link!Read, Link!OffAir, Link!NoRoot, Link!Lost, Link!Abort,
        Link!LinkOK
  <2> QED BY <1>3, <2>1, <2>2 DEF Link!LinkOK, Link!RootOK, Link!ChannelOK
<1> QED BY <1>4, <1>5, <1>6, <1>7, <1>8

(* The root, and what fails.                                               *)
LEMMA LinkRootType ==
    ASSUME Link!RootLinkAssumption, Link!TypeOK,
           \/ \E s \in Slots : Link!RootStep(s) \/ Link!Cut(s)
           \/ Link!Expire \/ Link!RestartRoot
    PROVE  Link!TypeOK'
<1> USE DEF Link!TypeOK
<1>1. UNCHANGED Link!node
  BY DEF Link!RootStep, Link!Check, Link!Accept, Link!RootRead,
         Link!RootEnds, Link!Cut, Link!Expire, Link!RestartRoot
<1>2. SUFFICES Link!RootOK'
  BY <1>1 DEF Link!node, Link!LinkOK, Link!ChannelOK
<1>3. <<>> \in Seq(Link!Message)
  OBVIOUS
<1>4. CASE \E s \in Slots : Link!Check(s) \/ Link!Accept(s)
\/ Link!RootEnds(s) \/ Link!Cut(s)
  <2> PICK s \in Slots : \/ Link!Check(s) \/ Link!Accept(s)
                         \/ Link!RootEnds(s) \/ Link!Cut(s)
    BY <1>4
  <2>1. socks[s] \in Link!Socket
    BY DEF Link!RootOK
  <2>2. listed' = listed /\ faults' \in 0 .. MaxFaults
    <3>1. listed' = listed
      BY DEF Link!Check, Link!Accept, Link!RootEnds, Link!Cut
    <3>2. CASE Link!Check(s)
      <4> PICK full \in BOOLEAN :
              /\ full => faults > 0
              /\ faults' = IF full THEN faults - 1 ELSE faults
        BY <3>2 DEF Link!Check
      <4> QED BY <3>1 DEF Link!RootLinkAssumption, Link!RootOK
    <3>3. CASE Link!Accept(s) \/ Link!RootEnds(s) \/ Link!Cut(s)
      BY <3>1, <3>3
      DEF Link!RootLinkAssumption, Link!Accept, Link!RootEnds, Link!Cut,
          Link!RootOK
    <3> QED BY <3>2, <3>3
  <2>3. CASE Link!Check(s)
    <3>1. /\ <<Link!Word("oleh"), Link!Word("quit")>> \in Seq(Link!Message)
          /\ <<Link!Word("oleh")>> \in Seq(Link!Message)
      BY WordType
    <3> QED BY <2>1, <2>2, <2>3, <3>1, AnsweredType, OneSocket
            DEF Link!Check, Link!RootOK
  <2>4. CASE Link!Accept(s)
    <3>1. <<Link!Word("update")>> \in Seq(Link!Message)
      BY WordType
    <3> QED BY <2>1, <2>2, <2>4, <3>1, AnsweredType, OneSocket
            DEF Link!Accept, Link!RootOK
  <2>5. CASE Link!RootEnds(s)
    BY <1>3, <2>1, <2>2, <2>5, AnsweredType, SocketType, OneSocket
    DEF Link!RootEnds, Link!RootOK
  <2>6. CASE Link!Cut(s)
    <3> PICK k \in 0 .. Len(socks[s].up) :
            socks' = [socks EXCEPT
                        ![s] = [servent |-> @.servent, up |-> SubSeq(@.up, 1,
                        k),
                                down |-> <<>>, open |-> FALSE]]
      BY <2>6 DEF Link!Cut
    <3>1. SubSeq(socks[s].up, 1, k) \in Seq(Link!Message)
      BY <2>1 DEF Link!Socket
    <3>2. [servent |-> socks[s].servent, up |-> SubSeq(socks[s].up, 1, k),
           down |-> <<>>, open |-> FALSE] \in Link!Socket
      BY <1>3, <2>1, <3>1 DEF Link!Socket
    <3> QED BY <2>2, <3>2, OneSocket DEF Link!RootOK
  <2> QED BY <2>3, <2>4, <2>5, <2>6
<1>5. CASE \E s \in Slots : Link!RootRead(s)
  <2> PICK s \in Slots : Link!RootRead(s)
    BY <1>5
  <2> DEFINE p == Head(socks[s].up)
             x == [socks[s] EXCEPT !.up = Tail(socks[s].up)]
  <2>1. socks[s].up \in Seq(Link!Message) /\ socks[s].up # <<>>
    BY DEF Link!RootOK, Link!Socket, Link!RootRead
  <2>2. p \in Link!Message /\ Tail(socks[s].up) \in Seq(Link!Message)
    BY <2>1
  <2>3. x \in Link!Socket /\ [x EXCEPT !.servent = "gone"] \in Link!Socket
    BY <2>2 DEF Link!RootOK, Link!Socket
  <2>4. socks' \in [Slots -> Link!Socket]
    BY <2>3, OneSocket DEF Link!RootRead
  <2>5. listed' \in (1 .. MaxVersion) \cup {None}
    BY <2>2
    DEF Link!RootRead, Link!RootOK, Link!Message, Link!Gone, Link!Host
  <2> QED BY <2>4, <2>5 DEF Link!RootRead, Link!RootOK
<1>6. CASE Link!Expire
  BY <1>6 DEF Link!Expire, Link!RootOK
<1>7. CASE Link!RestartRoot
  <2>1. \A s \in Slots :
            Link!Answered(Link!Closed, "gone", socks[s].down) \in Link!Socket
    BY SocketType, AnsweredType DEF Link!RootOK, Link!Socket
  <2> QED BY <1>7, <2>1, SocketType
          DEF Link!RootLinkAssumption, Link!RestartRoot, Link!RootOK
<1> QED BY <1>4, <1>5, <1>6, <1>7 DEF Link!RootStep

(* The link's two ends, the sockets between them and what is on its way    *)
(* are what they should be: in particular the broadcaster has a socket     *)
(* exactly while it is past connecting, and the root lists real versions.  *)
THEOREM LinkTypeCorrect ==
    ASSUME Link!RootLinkAssumption
    PROVE  Link!Spec => []Link!TypeOK
<1>1. Link!TypeOK /\ [Link!Next]_(Link!vars) => Link!TypeOK'
  <2> SUFFICES ASSUME Link!TypeOK, [Link!Next]_(Link!vars) PROVE Link!TypeOK'
    OBVIOUS
  <2>1. CASE UNCHANGED Link!vars
    BY <2>1
    DEF Link!vars, Link!TypeOK, Link!ChannelOK, Link!LinkOK, Link!RootOK
  <2> QED BY <2>1, LinkChannelType, LinkConnectType, LinkUpType,
             LinkRootType
          DEF Link!Next, Link!CoutStep
<1> QED BY <1>1, LinkTypeInit, PTL DEF Link!Spec
=============================================================================
