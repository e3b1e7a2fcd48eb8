-------------------------- MODULE LockOrderProofs ---------------------------
(***************************************************************************)
(* Proofs about LockOrder, for any number of threads that serve requests:  *)
(* all circular waits come from the two known inversions.                  *)
(***************************************************************************)
EXTENDS LockOrder, SequenceTheorems, TLAPS

Locks == {"streamRequest", "servMgr", "chanMgr", "servent", "channel",
          "hitList", "rawData", "outData", "directory", "uptest", "rtmp"}

Step == [op : {"lock", "unlock", "touch", "shutdown", "join", "end"},
         on : Locks \cup {Chan}]

(* The order in which the program takes its locks.                         *)
Rank(l) ==
    CASE l = "streamRequest" -> 0
      [] l = "servMgr" -> 1
      [] l = "chanMgr" -> 2
      [] l \in {"servent", "channel"} -> 3
      [] OTHER -> 4

(* A thread that holds h asks for l: again, in order, or in one of the two *)
(* places that are against it.                                             *)
Allowed(h, l) == h = l \/ Rank(h) < Rank(l) \/ {h, l} \in KnownPairs
MayTake(s, l) == l \in Locks /\ \A i \in DOMAIN s : Allowed(s[i], l)

-----------------------------------------------------------------------------
(* What a thread is going to do.                                           *)

(* The step a, done with the stack s of locks, keeps to the order and      *)
(* leaves the stack r.  A thread waits for another one only if joins, and  *)
(* holds no lock then.                                                     *)
StepTo(joins, s, a, r) ==
    \/ a.op = "lock" /\ MayTake(s, a.on) /\ r = Append(s, a.on)
    \/ a.op = "touch" /\ MayTake(s, a.on) /\ r = s
    \/ a.op = "unlock" /\ s # <<>> /\ r = Front(s)
    \/ a.op \in {"shutdown", "end"} /\ r = s
    \/ a.op = "join" /\ a.on = Chan /\ joins /\ s = <<>> /\ r = s

(* W is a set of pairs of a stack and the rest of an operation: each of    *)
(* them can take its next step to another pair of W, until the operation   *)
(* ends with the stack e.                                                  *)
GoesOn(joins, W, e, s, p) ==
    \/ p = <<>> /\ s = e
    \/ /\ p # <<>>
       /\ \E r \in Seq(Locks) : StepTo(joins, s, Head(p), r)
                                /\ <<r, Tail(p)>> \in W

Closed(joins, W, e) ==
    /\ W \subseteq Seq(Locks) \X Seq(Step)
    /\ \A s \in Seq(Locks), p \in Seq(Step) :
         <<s, p>> \in W => GoesOn(joins, W, e, s, p)

(* From the stack s the steps p keep to the order and leave the stack e.   *)
Ordered(joins, s, p, e) == \E W : <<s, p>> \in W /\ Closed(joins, W, e)

(* An operation that keeps to the order and gives back what it takes.      *)
Good(joins, s, p) == p \in Seq(Step) /\ Ordered(joins, s, p, s)

(* The first step of an operation that keeps to the order, and the rest.   *)
LEMMA OrderedStep ==
  ASSUME NEW joins, NEW e, NEW s \in Seq(Locks), NEW p \in Seq(Step),
         Ordered(joins, s, p, e)
  PROVE  \/ p = <<>> /\ s = e
         \/ /\ p # <<>>
            /\ \E r \in Seq(Locks) : StepTo(joins, s, Head(p), r)
                                     /\ Ordered(joins, r, Tail(p), e)
<1>1. PICK W : <<s, p>> \in W /\ Closed(joins, W, e)
  BY DEF Ordered
<1>2. GoesOn(joins, W, e, s, p)
  BY <1>1 DEF Closed
<1>3. \A x, q : <<x, q>> \in W => Ordered(joins, x, q, e)
  BY <1>1 DEF Ordered
<1> QED BY <1>2, <1>3 DEF GoesOn

(* Doing nothing is good.                                                  *)
LEMMA GoodEmpty ==
  ASSUME NEW joins, NEW s \in Seq(Locks)
  PROVE  Good(joins, s, <<>>)
<1> DEFINE n == <<>>
<1>0. n \in Seq(Step)
  OBVIOUS
<1>e. n = <<>>
  OBVIOUS
<1> HIDE DEF n
<1> DEFINE W == {<<s, n>>}
<1>1. W \subseteq Seq(Locks) \X Seq(Step)
  BY <1>0
<1>2. ASSUME NEW x \in Seq(Locks), NEW p \in Seq(Step), <<x, p>> \in W
      PROVE  GoesOn(joins, W, s, x, p)
  <2>1. x = s /\ p = n
    BY <1>2
  <2> QED BY <1>e, <2>1 DEF GoesOn
<1>3. Closed(joins, W, s)
  BY <1>1, <1>2 DEF Closed
<1>4. <<s, n>> \in W
  OBVIOUS
<1> HIDE DEF W
<1>5. Good(joins, s, n)
  BY <1>0, <1>3, <1>4 DEF Good, Ordered
<1> QED BY <1>5 DEF n

(* A step before an operation.                                             *)
LEMMA OrderedCons ==
  ASSUME NEW joins, NEW e, NEW s \in Seq(Locks), NEW r \in Seq(Locks),
         NEW a \in Step, NEW p \in Seq(Step),
         StepTo(joins, s, a, r), Ordered(joins, r, p, e)
  PROVE  <<a>> \o p \in Seq(Step) /\ Ordered(joins, s, <<a>> \o p, e)
<1>1. PICK V : <<r, p>> \in V /\ Closed(joins, V, e)
  BY DEF Ordered
<1> DEFINE q == <<a>> \o p
           W == V \cup {<<s, q>>}
<1>2. q \in Seq(Step) /\ q # <<>> /\ Head(q) = a /\ Tail(q) = p
  OBVIOUS
<1> HIDE DEF q
<1>3. W \subseteq Seq(Locks) \X Seq(Step)
  BY <1>1, <1>2 DEF Closed
<1>4. ASSUME NEW x \in Seq(Locks), NEW t \in Seq(Step), <<x, t>> \in W
      PROVE  GoesOn(joins, W, e, x, t)
  <2>1. CASE <<x, t>> \in V
    <3>1. GoesOn(joins, V, e, x, t)
      BY <1>1, <2>1 DEF Closed
    <3> QED BY <3>1 DEF GoesOn
  <2>2. CASE x = s /\ t = q
    <3>1. <<r, p>> \in W
      BY <1>1
    <3> HIDE DEF W
    <3> QED BY <1>2, <2>2, <3>1 DEF GoesOn
  <2> QED BY <1>4, <2>1, <2>2
<1>5. Closed(joins, W, e)
  BY <1>3, <1>4 DEF Closed
<1>6. <<s, q>> \in W
  OBVIOUS
<1> HIDE DEF W
<1>7. Ordered(joins, s, q, e)
  BY <1>5, <1>6 DEF Ordered
<1> QED BY <1>2, <1>7 DEF q

(* One operation after the other.                                          *)
LEMMA OrderedConcat ==
  ASSUME NEW joins, NEW s \in Seq(Locks), NEW m \in Seq(Locks), NEW e,
         NEW p \in Seq(Step), NEW q \in Seq(Step),
         Ordered(joins, s, p, m), Ordered(joins, m, q, e)
  PROVE  p \o q \in Seq(Step) /\ Ordered(joins, s, p \o q, e)
<1>1. PICK W1 : <<s, p>> \in W1 /\ Closed(joins, W1, m)
  BY DEF Ordered
<1>2. PICK W2 : <<m, q>> \in W2 /\ Closed(joins, W2, e)
  BY DEF Ordered
<1> DEFINE P == Seq(Locks) \X Seq(Step)
           W == {x \in P : \/ x \in W2
                           \/ \E r \in Seq(Step) :
                                <<x[1], r>> \in W1 /\ x[2] = r \o q}
<1>3. \A r \in Seq(Step) : r \o q \in Seq(Step)
  OBVIOUS
<1>4. ASSUME NEW x \in Seq(Locks), NEW r \in Seq(Step), <<x, r>> \in W1
      PROVE  <<x, r \o q>> \in W
  BY <1>3, <1>4
<1>5. ASSUME NEW x \in Seq(Locks), NEW t \in Seq(Step), <<x, t>> \in W
      PROVE  \/ <<x, t>> \in W2
             \/ \E r \in Seq(Step) : <<x, r>> \in W1 /\ t = r \o q
  BY <1>5
<1>6. W2 \subseteq W /\ W \subseteq P
  BY <1>2 DEF Closed
<1> HIDE DEF W
<1>7. ASSUME NEW x \in Seq(Locks), NEW t \in Seq(Step), <<x, t>> \in W
      PROVE  GoesOn(joins, W, e, x, t)
  <2>1. CASE <<x, t>> \in W2
    <3>1. GoesOn(joins, W2, e, x, t)
      BY <1>2, <2>1 DEF Closed
    <3> QED BY <1>6, <3>1 DEF GoesOn
  <2>2. CASE \E r \in Seq(Step) : <<x, r>> \in W1 /\ t = r \o q
    <3>1. PICK r \in Seq(Step) : <<x, r>> \in W1 /\ t = r \o q
      BY <2>2
    <3>2. GoesOn(joins, W1, m, x, r)
      BY <1>1, <3>1 DEF Closed
    <3>3. CASE r = <<>>
      <4>1. t = q
        BY <3>1, <3>3, ConcatEmptySeq
      <4>2. x = m
        BY <3>2, <3>3 DEF GoesOn
      <4>3. GoesOn(joins, W2, e, x, t)
        BY <1>2, <4>1, <4>2 DEF Closed
      <4> QED BY <1>6, <4>3 DEF GoesOn
    <3>4. CASE r # <<>>
      <4>1. /\ t # <<>> /\ Head(t) = Head(r) /\ Tail(t) = Tail(r) \o q
            /\ Tail(r) \in Seq(Step)
        BY <3>1, <3>4
      <4>2. PICK y \in Seq(Locks) : StepTo(joins, x, Head(r), y)
                                    /\ <<y, Tail(r)>> \in W1
        BY <3>2, <3>4 DEF GoesOn
      <4>3. <<y, Tail(t)>> \in W
        BY <1>4, <4>1, <4>2
      <4> QED BY <4>1, <4>2, <4>3 DEF GoesOn
    <3> QED BY <3>3, <3>4
  <2> QED BY <1>5, <1>7, <2>1, <2>2
<1>8. Closed(joins, W, e)
  BY <1>6, <1>7 DEF Closed
<1>9. <<s, p \o q>> \in W
  BY <1>1, <1>4
<1> QED BY <1>3, <1>8, <1>9 DEF Ordered

-----------------------------------------------------------------------------
(* The operations.                                                         *)

(* Good operations one after the other.                                    *)
LEMMA GoodConcat ==
  ASSUME NEW joins, NEW s \in Seq(Locks), NEW p, NEW q,
         Good(joins, s, p), Good(joins, s, q)
  PROVE  Good(joins, s, p \o q)
  BY OrderedConcat DEF Good

(* A single step that leaves the stack as it is.                           *)
LEMMA GoodStep ==
  ASSUME NEW joins, NEW s \in Seq(Locks), NEW a \in Step, StepTo(joins, s, a, s)
  PROVE  Good(joins, s, <<a>>)
<1> DEFINE n == <<>>
<1>1. n \in Seq(Step) /\ Ordered(joins, s, n, s)
  BY GoodEmpty DEF Good
<1>2. <<a>> \o n \in Seq(Step) /\ Ordered(joins, s, <<a>> \o n, s)
  <2> HIDE DEF n
  <2> QED BY <1>1, OrderedCons
<1>3. <<a>> \in Seq(Step)
  OBVIOUS
<1>4. <<a>> \o n = <<a>>
  BY <1>3, ConcatEmptySeq
<1> QED BY <1>2, <1>3, <1>4 DEF Good

(* To lock and to unlock.                                                  *)
LEMMA GoodTouch ==
  ASSUME NEW joins, NEW s \in Seq(Locks), NEW l, MayTake(s, l)
  PROVE  Good(joins, s, Touch(l))
<1> DEFINE a == [op |-> "touch", on |-> l]
<1>1. a \in Step
  BY DEF Step, MayTake
<1>2. StepTo(joins, s, a, s)
  BY DEF StepTo
<1> HIDE DEF a
<1>3. Good(joins, s, <<a>>)
  BY <1>1, <1>2, GoodStep
<1> QED BY <1>3 DEF Touch, a

(* To hold a lock during an operation that is good with it.                *)
LEMMA GoodHolding ==
  ASSUME NEW joins, NEW s \in Seq(Locks), NEW l, NEW body, MayTake(s, l),
         Good(joins, Append(s, l), body)
  PROVE  Good(joins, s, Holding(l, body))
<1> DEFINE a == [op |-> "lock", on |-> l]
           b == [op |-> "unlock", on |-> l]
           r == Append(s, l)
           n == <<>>
<1>1. a \in Step /\ b \in Step /\ l \in Locks
  BY DEF Step, MayTake
<1>2. r \in Seq(Locks) /\ r # <<>> /\ Front(r) = s
  <2>1. r \in Seq(Locks) /\ r # <<>>
    BY <1>1
  <2>2. Front(r) = s
    BY <1>1 DEF Front
  <2> QED BY <2>1, <2>2
<1>3. StepTo(joins, s, a, r)
  BY DEF StepTo
<1>4. StepTo(joins, r, b, s)
  BY <1>2 DEF StepTo
<1>5. n \in Seq(Step) /\ Ordered(joins, s, n, s)
  BY GoodEmpty DEF Good
<1> HIDE DEF a, b, r, n
<1>6. <<b>> \o n \in Seq(Step) /\ Ordered(joins, r, <<b>> \o n, s)
  BY <1>1, <1>2, <1>4, <1>5, OrderedCons
<1>7. <<b>> \o n = <<b>> /\ <<b>> \in Seq(Step)
  <2>1. <<b>> \in Seq(Step)
    BY <1>1
  <2> QED BY <2>1, ConcatEmptySeq DEF n
<1>8. Ordered(joins, r, <<b>>, s) /\ <<b>> \in Seq(Step)
  BY <1>6, <1>7
<1>9. body \in Seq(Step) /\ Ordered(joins, r, body, r)
  BY DEF Good, r
<1> DEFINE u == <<b>>
<1> HIDE DEF u
<1>10. body \o u \in Seq(Step) /\ Ordered(joins, r, body \o u, s)
  BY <1>2, <1>8, <1>9, OrderedConcat DEF u
<1>11. <<a>> \o (body \o u) \in Seq(Step)
       /\ Ordered(joins, s, <<a>> \o (body \o u), s)
  BY <1>1, <1>2, <1>3, <1>10, OrderedCons
<1>12. (<<a>> \o body) \o u = <<a>> \o (body \o u)
  <2>1. <<a>> \in Seq(Step) /\ u \in Seq(Step)
    BY <1>1 DEF u
  <2> QED BY <1>9, <2>1, ConcatAssociative
<1> QED BY <1>11, <1>12 DEF Good, Holding, Lock, Unlock, a, b, u

(* To end a thread, and to wait for it to end, holding no lock.            *)
LEMMA GoodShutdownAndWait == Good(TRUE, <<>>, ShutdownAndWait)
<1> DEFINE a == [op |-> "shutdown", on |-> Chan]
           b == [op |-> "join", on |-> Chan]
           n == <<>>
<1>1. a \in Step /\ b \in Step /\ n \in Seq(Locks)
  BY DEF Step
<1>2. StepTo(TRUE, n, a, n) /\ StepTo(TRUE, n, b, n)
  BY DEF StepTo
<1> HIDE DEF a, b
<1>3. Good(TRUE, n, <<a>>) /\ Good(TRUE, n, <<b>>)
  <2> HIDE DEF n
  <2> QED BY <1>1, <1>2, GoodStep
<1>4. Good(TRUE, n, <<a>> \o <<b>>)
  <2> HIDE DEF n
  <2> QED BY <1>1, <1>3, GoodConcat
<1>5. <<a>> \o <<b>> = <<a, b>>
  <2>1. <<a>> \in Seq(Step) /\ <<b>> \in Seq(Step) /\ <<a, b>> \in Seq(Step)
    BY <1>1
  <2>2. /\ <<a>> \o <<b>> \in Seq(Step) /\ Len(<<a>> \o <<b>>) = 2
        /\ (<<a>> \o <<b>>)[1] = a /\ (<<a>> \o <<b>>)[2] = b
    BY <2>1
  <2>3. \A i \in 1..2 : (<<a>> \o <<b>>)[i] = <<a, b>>[i]
    <3>1. \A i \in 1..2 : i = 1 \/ i = 2
      OBVIOUS
    <3> QED BY <2>2, <3>1
  <2> QED BY <2>1, <2>2, <2>3, SeqEqual
<1> QED BY <1>4, <1>5 DEF ShutdownAndWait, a, b

(* Without a lock any may be taken.                                        *)
LEMMA TakeFirst ==
  /\ <<>> \in Seq(Locks)
  /\ \A l \in Locks : MayTake(<<>>, l)
  BY DEF MayTake

(* With one more lock held, what it allows.                                *)
LEMMA TakeMore ==
  ASSUME NEW s \in Seq(Locks), NEW h \in Locks, NEW l, MayTake(s, l),
         Allowed(h, l)
  PROVE  MayTake(Append(s, h), l)
<1> DEFINE r == Append(s, h)
<1>1. /\ Len(s) \in Nat /\ DOMAIN r = 1..(Len(s) + 1) /\ DOMAIN s = 1..Len(s)
      /\ r[Len(s) + 1] = h /\ \A i \in 1..Len(s) : r[i] = s[i]
  OBVIOUS
<1> HIDE DEF r
<1>2. ASSUME NEW i \in DOMAIN r PROVE Allowed(r[i], l)
  <2>1. CASE i \in 1..Len(s)
    BY <1>1, <2>1 DEF MayTake
  <2>2. CASE i = Len(s) + 1
    BY <1>1, <2>2
  <2> QED BY <1>1, <2>1, <2>2
<1> QED BY <1>2 DEF MayTake, r

(* The names are locks.                                                    *)
LEMMA LockNames ==
  /\ "streamRequest" \in Locks /\ "servMgr" \in Locks /\ "chanMgr" \in Locks
  /\ "servent" \in Locks /\ "channel" \in Locks /\ "hitList" \in Locks
  /\ "rawData" \in Locks /\ "outData" \in Locks /\ "directory" \in Locks
  /\ "uptest" \in Locks /\ "rtmp" \in Locks
  BY DEF Locks

(* The pairs of locks that the operations hold and ask for.                *)
LEMMA AllowedPairs ==
  /\ Allowed("servMgr", "servMgr") /\ Allowed("servMgr", "servent")
  /\ Allowed("servMgr", "outData") /\ Allowed("servent", "outData")
  /\ Allowed("servMgr", "directory") /\ Allowed("servMgr", "uptest")
  /\ Allowed("servMgr", "rtmp") /\ Allowed("servMgr", "chanMgr")
  /\ Allowed("chanMgr", "directory") /\ Allowed("chanMgr", "uptest")
  /\ Allowed("chanMgr", "channel") /\ Allowed("chanMgr", "hitList")
  /\ Allowed("chanMgr", "servMgr") /\ Allowed("chanMgr", "servent")
  /\ Allowed("channel", "hitList") /\ Allowed("channel", "rawData")
  /\ Allowed("rtmp", "servMgr") /\ Allowed("streamRequest", "servMgr")
  /\ Allowed("streamRequest", "servent") /\ Allowed("servent", "rtmp")
  BY DEF Allowed, Rank, KnownPairs

(* The servent list is counted, whatever is held that allows it.           *)
LEMMA numStreamsGood ==
  ASSUME NEW joins, NEW s \in Seq(Locks),
         MayTake(s, "servMgr"), MayTake(s, "servent")
  PROVE  Good(joins, s, numStreams)
<1> DEFINE r == Append(s, "servMgr")
<1>1. r \in Seq(Locks) /\ MayTake(r, "servent")
  BY TakeMore, AllowedPairs, LockNames
<1>2. Good(joins, r, Touch("servent"))
  BY <1>1, GoodTouch
<1> QED BY <1>2, GoodHolding DEF numStreams

(* A packet is put into the queue of a servent.                            *)
LEMMA broadcastPacketGood ==
  ASSUME NEW joins, NEW s \in Seq(Locks),
         MayTake(s, "servMgr"), MayTake(s, "servent"), MayTake(s, "outData")
  PROVE  Good(joins, s, broadcastPacket)
<1> DEFINE r == Append(s, "servMgr")
           q == Append(r, "servent")
<1>1. r \in Seq(Locks) /\ MayTake(r, "servent") /\ MayTake(r, "outData")
  BY TakeMore, AllowedPairs, LockNames
<1> HIDE DEF r
<1>2. q \in Seq(Locks) /\ MayTake(q, "outData")
  BY <1>1, TakeMore, AllowedPairs, LockNames
<1>3. Good(joins, q, Touch("outData"))
  BY <1>2, GoodTouch
<1>4. Good(joins, r, Holding("servent", Touch("outData")))
  BY <1>1, <1>3, GoodHolding
<1> QED BY <1>4, GoodHolding DEF broadcastPacket, r

(* The settings are collected and saved.                                   *)
LEMMA saveSettingsGood ==
  ASSUME NEW joins, NEW s \in Seq(Locks),
         MayTake(s, "servMgr"), MayTake(s, "chanMgr"), MayTake(s, "directory"),
         MayTake(s, "uptest")
  PROVE  Good(joins, s, saveSettings)
<1> DEFINE r == Append(s, "servMgr")
           q == Append(r, "chanMgr")
           body == Touch("directory") \o Touch("uptest")
<1>1. r \in Seq(Locks) /\ MayTake(r, "chanMgr") /\ MayTake(r, "directory")
      /\ MayTake(r, "uptest")
  BY TakeMore, AllowedPairs, LockNames
<1> HIDE DEF r
<1>2. q \in Seq(Locks) /\ MayTake(q, "directory") /\ MayTake(q, "uptest")
  BY <1>1, TakeMore, AllowedPairs, LockNames
<1> HIDE DEF q
<1>3. Good(joins, q, Touch("directory")) /\ Good(joins, q, Touch("uptest"))
  BY <1>2, GoodTouch
<1>4. Good(joins, q, body)
  BY <1>2, <1>3, GoodConcat
<1> HIDE DEF body
<1>5. Good(joins, r, Holding("chanMgr", body))
  BY <1>1, <1>4, GoodHolding DEF q
<1>6. Good(joins, s, Holding("servMgr", Holding("chanMgr", body)))
  BY <1>5, GoodHolding DEF r
<1>7. Good(joins, s, Touch("servMgr"))
  BY GoodTouch
<1>8. Good(joins, s, Holding("servMgr", Holding("chanMgr", body)) \o Touch("servMgr"))
  BY <1>6, <1>7, GoodConcat
<1> QED BY <1>8 DEF saveSettings, getSettings, body

(* Operations that hold one lock and touch one or two others.              *)
LEMMA GoodHold2 ==
  ASSUME NEW joins, NEW g \in Locks, NEW h \in Locks, NEW l \in Locks,
         Allowed(g, h), Allowed(g, l)
  PROVE  /\ Good(joins, <<>>, Holding(g, Touch(h)))
         /\ Good(joins, <<>>, Holding(g, Touch(h) \o Touch(l)))
<1> DEFINE n == <<>>
           r == Append(n, g)
<1>1. n \in Seq(Locks) /\ MayTake(n, g) /\ MayTake(n, h) /\ MayTake(n, l)
  BY TakeFirst
<1> HIDE DEF n
<1>2. r \in Seq(Locks) /\ MayTake(r, h) /\ MayTake(r, l)
  BY <1>1, TakeMore
<1> HIDE DEF r
<1>3. Good(joins, r, Touch(h)) /\ Good(joins, r, Touch(l))
  BY <1>2, GoodTouch
<1>4. Good(joins, r, Touch(h) \o Touch(l))
  BY <1>2, <1>3, GoodConcat
<1>5. Good(joins, n, Holding(g, Touch(h)))
  BY <1>1, <1>3, GoodHolding DEF r
<1>6. Good(joins, n, Holding(g, Touch(h) \o Touch(l)))
  BY <1>1, <1>4, GoodHolding DEF r
<1> QED BY <1>5, <1>6 DEF n

(* The operations of the idle thread and the listening server.             *)
LEMMA IdleGood ==
  ASSUME NEW t \in {Idle, Server}, NEW p \in Operations(t)
  PROVE  Good(TRUE, <<>>, p)
<1> DEFINE n == <<>>
<1>0. n \in Seq(Locks) /\ \A l \in Locks : MayTake(n, l)
  BY TakeFirst
<1>1. Good(TRUE, n, numIdleChannels) /\ Good(TRUE, n, clearDeadHits)
      /\ Good(TRUE, n, rtmpUpdate)
  BY GoodHold2, AllowedPairs, LockNames
     DEF numIdleChannels, clearDeadHits, rtmpUpdate
<1>2. Good(TRUE, n, saveSettings) /\ Good(TRUE, n, broadcastPacket)
  <2> HIDE DEF n
  <2> QED BY <1>0, saveSettingsGood, broadcastPacketGood, LockNames
<1>3. Good(TRUE, n, serverProc)
  <2> HIDE DEF n
  <2> DEFINE r == Append(n, "servMgr")
             q == Append(r, "servent")
  <2>1. r \in Seq(Locks) /\ MayTake(r, "servent") /\ MayTake(r, "rtmp")
    BY <1>0, TakeMore, AllowedPairs, LockNames
  <2> HIDE DEF r
  <2>2. q \in Seq(Locks) /\ MayTake(q, "rtmp")
    BY <2>1, TakeMore, AllowedPairs, LockNames
  <2> HIDE DEF q
  <2>3. Good(TRUE, q, Touch("rtmp"))
    BY <2>2, GoodTouch
  <2>4. Good(TRUE, r, Holding("servent", Touch("rtmp")))
    BY <2>1, <2>3, GoodHolding DEF q
  <2> QED BY <1>0, <2>4, GoodHolding, LockNames DEF r, serverProc
<1>4. p \in {numIdleChannels, clearDeadHits, rtmpUpdate, saveSettings,
             broadcastPacket, serverProc}
  BY DEF Operations, Idle, Server, Chan
<1> QED BY <1>1, <1>2, <1>3, <1>4

(* Those of the channel's thread, which waits for no other.                *)
LEMMA ChanGood ==
  ASSUME NEW p \in Operations(Chan)
  PROVE  Good(FALSE, <<>>, p)
<1> DEFINE n == <<>>
<1>0. n \in Seq(Locks) /\ \A l \in Locks : MayTake(n, l)
  BY TakeFirst
<1>1. Good(FALSE, n, setStatus) /\ Good(FALSE, n, readPktAtoms)
      /\ Good(FALSE, n, addHit)
  BY GoodHold2, AllowedPairs, LockNames DEF setStatus, readPktAtoms, addHit
<1>2. Good(FALSE, n, broadcastPacket)
  <2> HIDE DEF n
  <2> QED BY <1>0, broadcastPacketGood, LockNames
<1>3. Good(FALSE, n, endThread)
  <2> HIDE DEF n
  <2>1. Good(FALSE, n, Touch("rawData")) /\ Good(FALSE, n, Touch("chanMgr"))
    BY <1>0, GoodTouch, LockNames
  <2> DEFINE a == [op |-> "end", on |-> Chan]
  <2>2. a \in Step /\ StepTo(FALSE, n, a, n)
    BY DEF Step, StepTo
  <2> HIDE DEF a
  <2>3. Good(FALSE, n, <<a>>)
    BY <1>0, <2>2, GoodStep
  <2>4. Good(FALSE, n, Touch("rawData") \o Touch("chanMgr"))
    BY <1>0, <2>1, GoodConcat
  <2>5. Good(FALSE, n, (Touch("rawData") \o Touch("chanMgr")) \o <<a>>)
    BY <1>0, <2>3, <2>4, GoodConcat
  <2> QED BY <2>5 DEF endThread, a
<1>4. p \in {setStatus, readPktAtoms, broadcastPacket, addHit, endThread}
  BY DEF Operations, Idle, Server, Chan
<1> QED BY <1>1, <1>2, <1>3, <1>4

(* Those of a thread that serves a request.                                *)
LEMMA HttpGood ==
  ASSUME NEW t \in HttpThreads, NEW p \in Operations(t)
  PROVE  Good(TRUE, <<>>, p)
<1> DEFINE n == <<>>
<1>0. n \in Seq(Locks) /\ \A l \in Locks : MayTake(n, l)
  BY TakeFirst
<1>1. Good(TRUE, n, addHit)
  BY GoodHold2, AllowedPairs, LockNames DEF addHit
<1>w. Good(TRUE, n, ShutdownAndWait)
  BY GoodShutdownAndWait
<1> HIDE DEF n
<1>2. Good(TRUE, n, broadcastPacket) /\ Good(TRUE, n, numStreams)
  BY <1>0, broadcastPacketGood, numStreamsGood, LockNames
<1>3. Good(TRUE, n, CMD_stop)
  BY <1>0, <1>w, GoodTouch, GoodConcat, LockNames DEF CMD_stop
<1>4. Good(TRUE, n, closeIdles)
  <2>1. Good(TRUE, n, Touch("chanMgr"))
    BY <1>0, GoodTouch, LockNames
  <2>2. Good(TRUE, n, Touch("chanMgr") \o numStreams)
    BY <1>0, <1>2, <2>1, GoodConcat
  <2>3. Good(TRUE, n, (Touch("chanMgr") \o numStreams) \o ShutdownAndWait)
    BY <1>0, <1>w, <2>2, GoodConcat
  <2> QED BY <2>3 DEF closeIdles
<1>5. Good(TRUE, n, getState)
  <2> DEFINE r == Append(n, "servMgr")
  <2>1. r \in Seq(Locks) /\ MayTake(r, "servent") /\ MayTake(r, "directory")
        /\ MayTake(r, "uptest") /\ MayTake(r, "rtmp")
    BY <1>0, TakeMore, AllowedPairs, LockNames
  <2> HIDE DEF r
  <2>2. /\ Good(TRUE, r, Touch("servent")) /\ Good(TRUE, r, Touch("directory"))
        /\ Good(TRUE, r, Touch("uptest")) /\ Good(TRUE, r, Touch("rtmp"))
    BY <2>1, GoodTouch
  <2>3. Good(TRUE, r, Touch("servent") \o Touch("directory"))
    BY <2>1, <2>2, GoodConcat
  <2>4. Good(TRUE, r, (Touch("servent") \o Touch("directory")) \o Touch("uptest"))
    BY <2>1, <2>2, <2>3, GoodConcat
  <2>5. Good(TRUE, r, ((Touch("servent") \o Touch("directory"))
                       \o Touch("uptest")) \o Touch("rtmp"))
    BY <2>1, <2>2, <2>4, GoodConcat
  <2> QED BY <1>0, <2>5, GoodHolding, LockNames DEF getState, r
<1>6. Good(TRUE, n, canStream)
  <2> DEFINE r == Append(n, "streamRequest")
  <2>1. r \in Seq(Locks) /\ MayTake(r, "servMgr") /\ MayTake(r, "servent")
    BY <1>0, TakeMore, AllowedPairs, LockNames
  <2> HIDE DEF r
  <2>2. Good(TRUE, r, numStreams) /\ Good(TRUE, r, Touch("servent"))
    BY <2>1, numStreamsGood, GoodTouch
  <2>3. Good(TRUE, r, numStreams \o Touch("servent"))
    BY <2>1, <2>2, GoodConcat
  <2> QED BY <1>0, <2>3, GoodHolding, LockNames DEF canStream, r
<1>7. Good(TRUE, n, getChannels)
  <2> DEFINE r == Append(n, "chanMgr")
  <2>1. r \in Seq(Locks) /\ MayTake(r, "servMgr") /\ MayTake(r, "servent")
        /\ MayTake(r, "channel") /\ MayTake(r, "hitList")
    BY <1>0, TakeMore, AllowedPairs, LockNames
  <2> HIDE DEF r
  <2>2. /\ Good(TRUE, r, numStreams) /\ Good(TRUE, r, Touch("channel"))
        /\ Good(TRUE, r, Touch("hitList"))
    BY <2>1, numStreamsGood, GoodTouch
  <2>3. Good(TRUE, r, Touch("channel") \o numStreams)
    BY <2>1, <2>2, GoodConcat
  <2>4. Good(TRUE, r, (Touch("channel") \o numStreams) \o Touch("hitList"))
    BY <2>1, <2>2, <2>3, GoodConcat
  <2> QED BY <1>0, <2>4, GoodHolding, LockNames DEF getChannels, r
<1>8. Good(TRUE, n, CMD_apply)
  <2> DEFINE r == Append(n, "servMgr")
  <2>1. r \in Seq(Locks) /\ MayTake(r, "servMgr") /\ MayTake(r, "servent")
        /\ MayTake(r, "outData") /\ MayTake(r, "chanMgr")
        /\ MayTake(r, "directory") /\ MayTake(r, "uptest")
    BY <1>0, TakeMore, AllowedPairs, LockNames
  <2> HIDE DEF r
  <2>2. /\ Good(TRUE, r, saveSettings) /\ Good(TRUE, r, broadcastPacket)
        /\ Good(TRUE, r, Touch("directory"))
    BY <2>1, saveSettingsGood, broadcastPacketGood, GoodTouch
  <2>3. Good(TRUE, r, Touch("directory") \o saveSettings)
    BY <2>1, <2>2, GoodConcat
  <2>4. Good(TRUE, r, (Touch("directory") \o saveSettings) \o broadcastPacket)
    BY <2>1, <2>2, <2>3, GoodConcat
  <2> QED BY <1>0, <2>4, GoodHolding, LockNames DEF CMD_apply, r
<1>9. p \in {getState, canStream, getChannels, CMD_apply, CMD_stop, closeIdles,
             addHit, broadcastPacket}
  BY LockOrderAssumption DEF Operations, Idle, Server, Chan
<1> QED BY <1>1, <1>2, <1>3, <1>4, <1>5, <1>6, <1>7, <1>8, <1>9 DEF n

-----------------------------------------------------------------------------
(* The invariant: what is left of an operation keeps to the order and ends *)
(* with no lock held, and a lock has one holder.                           *)

Shape == todo \in [Threads -> Seq(Step)] /\ held \in [Threads -> Seq(Locks)]
Keeps == \A t \in Threads : Ordered(t # Chan, held[t], todo[t], <<>>)
OneHolder == \A t, u \in Threads : \A l : Holds(t, l) /\ Holds(u, l) => t = u
LockInv == Shape /\ Keeps /\ OneHolder

(* Any operation that a thread begins is good.                             *)
LEMMA OperationGood ==
  ASSUME NEW t \in Threads, NEW p \in Operations(t)
  PROVE  Good(t # Chan, <<>>, p)
<1>1. CASE t = Chan
  <2>1. (t # Chan) = FALSE
    BY <1>1
  <2>2. Good(FALSE, <<>>, p)
    BY <1>1, ChanGood
  <2> QED BY <2>1, <2>2
<1>2. CASE t \in {Idle, Server}
  <2>1. (t # Chan) = TRUE
    BY <1>2 DEF Idle, Server, Chan
  <2>2. Good(TRUE, <<>>, p)
    BY <1>2, IdleGood
  <2> QED BY <2>1, <2>2
<1>3. CASE t \in HttpThreads
  <2>1. (t # Chan) = TRUE
    BY <1>3, LockOrderAssumption
  <2>2. Good(TRUE, <<>>, p)
    BY <1>3, HttpGood
  <2> QED BY <2>1, <2>2
<1> QED BY <1>1, <1>2, <1>3 DEF Threads

(* A thread is idle, and holds nothing, or has a next step.                *)
LEMMA NextStep ==
  ASSUME LockInv, NEW t \in Threads
  PROVE  /\ todo[t] \in Seq(Step) /\ held[t] \in Seq(Locks)
         /\ \/ todo[t] = <<>> /\ held[t] = <<>>
            \/ /\ todo[t] # <<>>
               /\ \E r \in Seq(Locks) :
                     /\ StepTo(t # Chan, held[t], Head(todo[t]), r)
                     /\ Ordered(t # Chan, r, Tail(todo[t]), <<>>)
<1> DEFINE j == t # Chan
           e == <<>>
<1>1. todo[t] \in Seq(Step) /\ held[t] \in Seq(Locks)
  BY DEF LockInv, Shape
<1>2. Ordered(j, held[t], todo[t], e)
  BY DEF LockInv, Keeps
<1> HIDE DEF j, e
<1>3. \/ todo[t] = <<>> /\ held[t] = e
      \/ /\ todo[t] # <<>>
         /\ \E r \in Seq(Locks) : StepTo(j, held[t], Head(todo[t]), r)
                                  /\ Ordered(j, r, Tail(todo[t]), e)
  BY <1>1, <1>2, OrderedStep
<1> QED BY <1>1, <1>3 DEF j, e

(* The invariant holds at the start.                                       *)
LEMMA LockInit == Init => LockInv
<1> SUFFICES ASSUME Init PROVE LockInv
  OBVIOUS
<1> DEFINE n == <<>>
<1>1. n \in Seq(Locks) /\ n \in Seq(Step) /\ DOMAIN n = {}
  OBVIOUS
<1>2. \A t \in Threads : Ordered(t # Chan, n, n, n)
  <2> TAKE t \in Threads
  <2> DEFINE j == t # Chan
  <2>1. Good(j, n, <<>>)
    <3> HIDE DEF j, n
    <3> QED BY <1>1, GoodEmpty
  <2> HIDE DEF j
  <2>2. Ordered(j, n, n, n)
    BY <2>1 DEF Good
  <2> QED BY <2>2 DEF j
<1>3. todo = [t \in Threads |-> n] /\ held = [t \in Threads |-> n]
  BY DEF Init
<1>4. Keeps
  <2>1. \A t \in Threads : todo[t] = n /\ held[t] = n
    <3> HIDE DEF n
    <3> QED BY <1>3
  <2>2. ASSUME NEW t \in Threads PROVE Ordered(t # Chan, held[t], todo[t], n)
    <3> HIDE DEF n
    <3> QED BY <1>2, <2>1
  <2> QED BY <2>2 DEF Keeps
<1> HIDE DEF n
<1>5. Shape
  BY <1>1, <1>3 DEF Shape
<1>6. OneHolder
  BY <1>1, <1>3 DEF OneHolder, Holds
<1> QED BY <1>4, <1>5, <1>6 DEF LockInv

(* A thread does its next step, and asks for no lock that another one has. *)
LEMMA StepKeeps ==
  ASSUME LockInv, NEW t \in Threads, NEW r \in Seq(Locks), NEW q \in Seq(Step),
         todo' = [todo EXCEPT ![t] = q], held' = [held EXCEPT ![t] = r],
         Ordered(t # Chan, r, q, <<>>),
         \A i \in DOMAIN r : Holds(t, r[i]) \/ Free(t, r[i])
  PROVE  LockInv'
<1>1. /\ todo'[t] = q /\ held'[t] = r
      /\ \A u \in Threads \ {t} : todo'[u] = todo[u] /\ held'[u] = held[u]
  BY DEF LockInv, Shape
<1>2. Shape'
  BY DEF LockInv, Shape
<1>3. ASSUME NEW u \in Threads PROVE Ordered(u # Chan, held'[u], todo'[u], <<>>)
  <2>1. CASE u = t
    BY <1>1, <2>1
  <2>2. CASE u # t
    BY <1>1, <2>2 DEF LockInv, Keeps
  <2> QED BY <2>1, <2>2
<1>4. ASSUME NEW u \in Threads, u # t, NEW l, NEW i \in DOMAIN r, r[i] = l
      PROVE  ~ Holds(u, l)
  BY <1>4 DEF LockInv, OneHolder, Free
<1>5. ASSUME NEW u \in Threads, NEW v \in Threads, NEW l,
             \E i \in DOMAIN held'[u] : held'[u][i] = l,
             \E i \in DOMAIN held'[v] : held'[v][i] = l
      PROVE  u = v
  <2>1. CASE u = t /\ v # t
    BY <1>1, <1>4, <1>5, <2>1 DEF Holds
  <2>2. CASE u # t /\ v = t
    BY <1>1, <1>4, <1>5, <2>2 DEF Holds
  <2>3. CASE u # t /\ v # t
    BY <1>1, <1>5, <2>3 DEF Holds, LockInv, OneHolder
  <2> QED BY <2>1, <2>2, <2>3
<1> QED BY <1>2, <1>3, <1>5 DEF LockInv, Keeps, OneHolder, Holds

(* What a thread holds it still holds, and may still have.                 *)
LEMMA HeldStays ==
  ASSUME NEW t \in Threads, held[t] \in Seq(Locks)
  PROVE  /\ \A i \in DOMAIN held[t] : Holds(t, held[t][i])
         /\ held[t] # <<>> => \A i \in DOMAIN Front(held[t]) :
                                 Holds(t, Front(held[t])[i])
         /\ \A l \in Locks : \A i \in DOMAIN Append(held[t], l) :
                \/ Holds(t, Append(held[t], l)[i])
                \/ Append(held[t], l)[i] = l
<1> DEFINE s == held[t]
<1>0. s \in Seq(Locks)
  OBVIOUS
<1>1. \A i \in DOMAIN s : Holds(t, s[i])
  BY DEF Holds
<1> HIDE DEF s
<1>2. ASSUME s # <<>>, NEW i \in DOMAIN Front(s) PROVE Holds(t, Front(s)[i])
  <2>1. Len(s) \in Nat /\ DOMAIN s = 1..Len(s) /\ Len(s) > 0
    BY <1>0, <1>2
  <2>2. DOMAIN Front(s) = 1..(Len(s) - 1)
        /\ \A k \in 1..(Len(s) - 1) : Front(s)[k] = s[k]
    BY <1>0, <2>1 DEF Front
  <2>3. i \in DOMAIN s /\ Front(s)[i] = s[i]
    BY <2>1, <2>2
  <2> QED BY <1>1, <2>3
<1>3. ASSUME NEW l \in Locks, NEW i \in DOMAIN Append(s, l)
      PROVE  Holds(t, Append(s, l)[i]) \/ Append(s, l)[i] = l
  <2>1. (i \in DOMAIN s /\ Append(s, l)[i] = s[i]) \/ Append(s, l)[i] = l
    BY <1>0
  <2> QED BY <1>1, <2>1
<1> QED BY <1>1, <1>2, <1>3 DEF s

(* Every step keeps the invariant.                                         *)
LEMMA LockNext == LockInv /\ [Next]_vars => LockInv'
<1> SUFFICES ASSUME LockInv, [Next]_vars PROVE LockInv'
  OBVIOUS
<1>1. CASE UNCHANGED vars
  BY <1>1 DEF vars, LockInv, Shape, Keeps, OneHolder, Holds
<1>2. ASSUME NEW t \in Threads,
             Begin(t) \/ TakeLock(t) \/ TouchLock(t) \/ ReleaseLock(t)
               \/ Shutdown(t) \/ ThreadEnds(t) \/ WaitThread(t)
      PROVE  LockInv'
  <2>1. todo \in [Threads -> Seq(Step)] /\ held \in [Threads -> Seq(Locks)]
    BY DEF LockInv, Shape
  <2>2. todo[t] \in Seq(Step) /\ held[t] \in Seq(Locks)
    BY <2>1
  <2>3. held = [held EXCEPT ![t] = held[t]]
    BY <2>1
  <2>4. /\ \A i \in DOMAIN held[t] : Holds(t, held[t][i])
        /\ held[t] # <<>> => \A i \in DOMAIN Front(held[t]) :
                                Holds(t, Front(held[t])[i])
        /\ \A l \in Locks : \A i \in DOMAIN Append(held[t], l) :
               \/ Holds(t, Append(held[t], l)[i])
               \/ Append(held[t], l)[i] = l
    BY <2>2, HeldStays
  <2>5. CASE Begin(t)
    <3>1. PICK p \in Operations(t) : todo' = [todo EXCEPT ![t] = p]
      BY <2>5 DEF Begin
    <3>2. p \in Seq(Step) /\ Ordered(t # Chan, <<>>, p, <<>>)
      BY OperationGood DEF Good
    <3>3. held[t] = <<>> /\ held' = held
      BY <2>5, NextStep DEF Begin
    <3>4. Ordered(t # Chan, held[t], p, <<>>)
      BY <3>2, <3>3
    <3> QED BY <2>2, <2>3, <2>4, <3>1, <3>2, <3>3, <3>4, StepKeeps
  <2>6. CASE ~ Begin(t)
    <3> DEFINE q == Tail(todo[t])
    <3>1. todo[t] # <<>> /\ todo' = [todo EXCEPT ![t] = q]
      BY <1>2, <2>6
         DEF TakeLock, TouchLock, ReleaseLock, Shutdown, ThreadEnds, WaitThread,
             At, Goes
    <3>2. PICK r \in Seq(Locks) : /\ StepTo(t # Chan, held[t], Head(todo[t]), r)
                                  /\ Ordered(t # Chan, r, q, <<>>)
      BY <3>1, NextStep
    <3>3. q \in Seq(Step)
      BY <2>2, <3>1
    <3> HIDE DEF q
    <3>4. /\ held' = [held EXCEPT ![t] = r]
          /\ \A i \in DOMAIN r : Holds(t, r[i]) \/ Free(t, r[i])
      <4>1. CASE TakeLock(t)
        <5>1. r = Append(held[t], On(t)) /\ On(t) \in Locks
          BY <3>2, <4>1 DEF TakeLock, At, On, StepTo, MayTake
        <5>2. held' = [held EXCEPT ![t] = Append(held[t], On(t))] /\ Free(t, On(t))
          BY <4>1 DEF TakeLock
        <5> QED BY <2>4, <5>1, <5>2
      <4>2. CASE ReleaseLock(t)
        <5>1. r = Front(held[t]) /\ held[t] # <<>>
          BY <3>2, <4>2 DEF ReleaseLock, At, StepTo
        <5>2. held' = [held EXCEPT ![t] = Front(held[t])]
          BY <4>2 DEF ReleaseLock
        <5> QED BY <2>4, <5>1, <5>2
      <4>3. CASE TouchLock(t) \/ Shutdown(t) \/ ThreadEnds(t) \/ WaitThread(t)
        <5>1. r = held[t]
          BY <3>2, <4>3 DEF TouchLock, Shutdown, ThreadEnds, WaitThread, At, StepTo
        <5>2. held' = held
          BY <4>3 DEF TouchLock, Shutdown, ThreadEnds, WaitThread
        <5> QED BY <2>3, <2>4, <5>1, <5>2
      <4> QED BY <1>2, <2>6, <4>1, <4>2, <4>3
    <3> QED BY <3>1, <3>2, <3>3, <3>4, StepKeeps
  <2> QED BY <2>5, <2>6
<1> QED BY <1>1, <1>2 DEF Next

-----------------------------------------------------------------------------
(* A thread that waits in a circle wants a lock that what it holds allows, *)
(* or it holds nothing and waits for the channel's thread, which itself    *)
(* waits for no thread.                                                    *)
LEMMA WaitingThread ==
  ASSUME LockInv, NEW t \in Threads, NEW u, WaitsFor(t, u)
  PROVE  \/ /\ t # u /\ Holds(u, On(t)) /\ On(t) \in Locks
            /\ \A h : Holds(t, h) => Allowed(h, On(t))
         \/ t # Chan /\ u = Chan /\ \A h : ~ Holds(t, h)
<1>1. todo[t] # <<>>
  BY DEF WaitsFor, At
<1>2. PICK r : StepTo(t # Chan, held[t], Head(todo[t]), r)
  BY <1>1, NextStep
<1>3. CASE (At(t, "lock") \/ At(t, "touch")) /\ t # u /\ Holds(u, On(t))
  <2>1. MayTake(held[t], On(t))
    BY <1>2, <1>3 DEF At, On, StepTo
  <2> QED BY <1>3, <2>1 DEF MayTake, Holds
<1>4. CASE At(t, "join") /\ u = On(t)
  <2>1. On(t) = Chan /\ t # Chan /\ held[t] = <<>>
    BY <1>2, <1>4 DEF At, On, StepTo
  <2>2. DOMAIN held[t] = {}
    BY <2>1
  <2> QED BY <1>4, <2>1, <2>2 DEF Holds
<1> QED BY <1>3, <1>4 DEF WaitsFor

(* Ranks are small.                                                        *)
LEMMA RankRange == \A l : Rank(l) \in 0..4
  BY DEF Rank

(* In a circle of waiting threads without the locks of a known pair each   *)
(* lock that is wanted is held by a thread that wants a later one: there   *)
(* is no such circle.                                                      *)
LEMMA NoOtherCycle ==
  ASSUME LockInv, NEW S \in SUBSET Threads, CircularWait(S)
  PROVE  \E t, u \in S : {On(t), On(u)} \in KnownPairs
<1> SUFFICES ASSUME \A t, u \in S : {On(t), On(u)} \notin KnownPairs
             PROVE  FALSE
  OBVIOUS
<1> DEFINE Wants(t) == \E u \in S : /\ t # u /\ Holds(u, On(t))
                                    /\ \A h : Holds(t, h) => Allowed(h, On(t))
<1>1. \A t \in S : Wants(t) \/ (t # Chan /\ Chan \in S /\ \A h : ~ Holds(t, h))
  BY WaitingThread DEF CircularWait
<1>2. \E t \in S : Wants(t)
  BY <1>1 DEF CircularWait
<1>3. ASSUME NEW t \in S, Wants(t)
      PROVE  \E u \in S : Wants(u) /\ Rank(On(t)) < Rank(On(u))
  <2>1. PICK u \in S : t # u /\ Holds(u, On(t))
    BY <1>3
  <2>2. Wants(u)
    BY <1>1, <2>1
  <2>3. On(t) # On(u)
    BY <2>1, <2>2 DEF LockInv, OneHolder
  <2>4. Allowed(On(t), On(u))
    BY <2>1, <2>2
  <2>5. Rank(On(t)) < Rank(On(u))
    BY <2>3, <2>4 DEF Allowed
  <2> QED BY <2>2, <2>5
<1> DEFINE R(t) == Rank(On(t))
           Ok(t) == t \in S /\ Wants(t)
<1>4. \A t : R(t) \in 0..4
  BY RankRange
<1>5. \A t : Ok(t) => \E u : Ok(u) /\ R(t) < R(u)
  BY <1>3
<1>6. \E t : Ok(t)
  BY <1>2
<1> HIDE DEF R, Ok
<1>7. PICK a : Ok(a)
  BY <1>6
<1>8. PICK b : Ok(b) /\ R(a) < R(b)
  BY <1>5, <1>7
<1>9. PICK c : Ok(c) /\ R(b) < R(c)
  BY <1>5, <1>8
<1>10. PICK d : Ok(d) /\ R(c) < R(d)
  BY <1>5, <1>9
<1>11. PICK e : Ok(e) /\ R(d) < R(e)
  BY <1>5, <1>10
<1>12. PICK f : Ok(f) /\ R(e) < R(f)
  BY <1>5, <1>11
<1>13. R(a) \in 0..4 /\ R(b) \in 0..4 /\ R(c) \in 0..4 /\ R(d) \in 0..4
       /\ R(e) \in 0..4 /\ R(f) \in 0..4
  BY <1>4
<1> QED BY <1>8, <1>9, <1>10, <1>11, <1>12, <1>13

(* Threads wait for each other in a circle only where getChannels meets    *)
(* saveSettings, or the restart of the RTMP server meets getState: the     *)
(* locks are otherwise taken in one order, and a thread that waits for the *)
(* channel's thread to end holds none.                                     *)
THEOREM CircularWaitsAreKnown == Spec => []OnlyKnownCycles
<1>1. Init => LockInv
  BY LockInit
<1>2. LockInv /\ [Next]_vars => LockInv'
  BY LockNext
<1>3. LockInv => OnlyKnownCycles
  BY NoOtherCycle DEF OnlyKnownCycles
<1> QED BY <1>1, <1>2, <1>3, PTL DEF Spec
=============================================================================
