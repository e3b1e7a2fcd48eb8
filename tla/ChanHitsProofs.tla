--------------------------- MODULE ChanHitsProofs ---------------------------
(***************************************************************************)
(* Proofs about ChanHits, for any number of hits, connections and          *)
(* announcements: what the unlocked changes of a hit list leave of it, and *)
(* what a search of the list returns.                                      *)
(***************************************************************************)
EXTENDS ChanHits, FiniteSetTheorems, TLAPS

Ann == Announcements \cup Tips

-----------------------------------------------------------------------------
(* Links.                                                                  *)

(* The hits of h are hits and their links lead to hits of h.               *)
Linked(h) ==
    /\ DOMAIN h \subseteq Nodes
    /\ \A n \in DOMAIN h : h[n] \in Hit /\ h[n].next \in DOMAIN h \cup {None}

(* A pointer of a thread, or the head, leads to a hit of h or nowhere.     *)
Points(h, p) == p \in DOMAIN h \cup {None}

ThreadState == [pc : {"rest", "add", "link", "session", "del", "clear"},
                arg : Ann \cup {None}, cur : Nodes \cup {None},
                prev : Nodes \cup {None}, next : Nodes \cup {None},
                located : BOOLEAN]

(* Thread x, being where t says.                                           *)
ThreadOK(h, t, x) ==
    /\ Points(h, t[x].cur) /\ Points(h, t[x].prev) /\ Points(h, t[x].next)
    /\ t[x].pc = "link" => t[x].cur # None
    /\ t[x].pc \in {"add", "link", "session", "del"} => t[x].arg \in Ann
    /\ t[x].located => t[x].pc \in {"session", "del", "clear"}

(* rank orders the hits of h: each link leads down, and so does the link   *)
(* that a thread which has located a hit is going to write.                *)
Descends(h, t, rank) ==
    /\ \A n \in DOMAIN h : h[n].next # None => rank[h[n].next] < rank[n]
    /\ \A x \in Threads : (t[x].located /\ t[x].prev # None /\ t[x].next # None)
                            => rank[t[x].next] < rank[t[x].prev]

Ranked(h, t) == \E rank \in [DOMAIN h -> Nat] : Descends(h, t, rank)

(* The list and the threads that are in it.                                *)
ListOK(h, hd, t) ==
    /\ Linked(h)
    /\ Points(h, hd)
    /\ t \in [Threads -> ThreadState]
    /\ \A x \in Threads : ThreadOK(h, t, x)
    /\ Ranked(h, t)

(* What pointers lead to is kept: nothing that is pointed at is deleted.   *)
LEMMA ReachableFacts ==
  ASSUME NEW h, NEW roots, Linked(h), roots \subseteq DOMAIN h \cup {None}
  PROVE  LET R == Reachable(h, roots)
         IN  /\ R \subseteq DOMAIN h
             /\ roots \subseteq R \cup {None}
             /\ \A n \in R : h[n].next \in R \cup {None}
<1> DEFINE R == Reachable(h, roots)
           Shut(S) == /\ roots \subseteq S \cup {None}
                      /\ \A m \in S : h[m].next \in S \cup {None}
<1>1. R = {n \in DOMAIN h : \A S \in SUBSET DOMAIN h : Shut(S) => n \in S}
  BY DEF Reachable
<1>2. R \subseteq DOMAIN h
  BY <1>1
<1>3. \A r \in roots : r # None => r \in DOMAIN h
  OBVIOUS
<1>4. ASSUME NEW r \in roots, r # None PROVE r \in R
  <2>1. \A S \in SUBSET DOMAIN h : Shut(S) => r \in S
    BY <1>4
  <2> QED BY <1>1, <1>3, <1>4, <2>1
<1>5. ASSUME NEW n \in R, h[n].next # None PROVE h[n].next \in R
  <2>1. n \in DOMAIN h /\ h[n].next \in DOMAIN h
    BY <1>2, <1>5 DEF Linked
  <2>2. ASSUME NEW S \in SUBSET DOMAIN h, Shut(S) PROVE h[n].next \in S
    <3>1. n \in S
      BY <1>1, <2>2
    <3> QED BY <1>5, <2>2, <3>1
  <2> HIDE DEF Shut
  <2> QED BY <1>1, <2>1, <2>2
<1> HIDE DEF R
<1>6. roots \subseteq R \cup {None} /\ \A n \in R : h[n].next \in R \cup {None}
  BY <1>4, <1>5
<1> QED BY <1>2, <1>6 DEF R

(* The list is in order after the objects nothing points at are deleted.   *)
LEMMA HeldKeeps ==
  ASSUME NEW h, NEW hd, NEW t, ListOK(h, hd, t)
  PROVE  ListOK(Held(h, hd, t), hd, t)
<1> DEFINE ptr(x) == {t[x].cur, t[x].prev, t[x].next}
           roots == {hd} \cup UNION {ptr(x) : x \in Threads}
           R == Reachable(h, roots)
           k == [n \in R |-> h[n]]
<1>1. Held(h, hd, t) = k
  BY DEF Held
<1>2. roots \subseteq DOMAIN h \cup {None}
  BY DEF ListOK, ThreadOK, Points
<1>3. hd \in roots /\ \A x \in Threads : ptr(x) \subseteq roots
  OBVIOUS
<1> HIDE DEF roots
<1>4. /\ R \subseteq DOMAIN h
      /\ roots \subseteq R \cup {None}
      /\ \A n \in R : h[n].next \in R \cup {None}
  BY <1>2, ReachableFacts DEF ListOK
<1> HIDE DEF R
<1>5. DOMAIN k = R /\ \A n \in R : k[n] = h[n]
  OBVIOUS
<1> HIDE DEF k
<1>6. Linked(k)
  BY <1>4, <1>5 DEF ListOK, Linked
<1>7. Points(k, hd)
  BY <1>3, <1>4, <1>5 DEF Points
<1>8. ASSUME NEW x \in Threads PROVE ThreadOK(k, t, x)
  <2>1. ptr(x) \subseteq R \cup {None}
    BY <1>3, <1>4
  <2>2. Points(k, t[x].cur) /\ Points(k, t[x].prev) /\ Points(k, t[x].next)
    BY <1>5, <2>1 DEF Points
  <2> QED BY <2>2 DEF ListOK, ThreadOK
<1>9. Ranked(k, t)
  <2>1. PICK rank \in [DOMAIN h -> Nat] : Descends(h, t, rank)
    BY DEF ListOK, Ranked
  <2> DEFINE low == [n \in R |-> rank[n]]
  <2>2. low \in [DOMAIN k -> Nat]
    BY <1>4, <1>5
  <2>3. \A n \in R : low[n] = rank[n]
    OBVIOUS
  <2> HIDE DEF low
  <2>4. ASSUME NEW n \in R, k[n].next # None PROVE low[k[n].next] < low[n]
    <3>1. k[n].next \in R /\ n \in DOMAIN h /\ k[n] = h[n]
      BY <1>4, <1>5, <2>4
    <3> QED BY <2>1, <2>3, <2>4, <3>1 DEF Descends
  <2>5. ASSUME NEW x \in Threads, t[x].located, t[x].prev # None, t[x].next # None
        PROVE  low[t[x].next] < low[t[x].prev]
    <3>1. t[x].prev \in R /\ t[x].next \in R
      BY <1>3, <1>4, <2>5
    <3> QED BY <2>1, <2>3, <2>5, <3>1 DEF Descends
  <2>6. Descends(k, t, low)
    BY <1>5, <2>4, <2>5 DEF Descends
  <2> QED BY <2>2, <2>6 DEF Ranked
<1> QED BY <1>1, <1>6, <1>7, <1>8, <1>9 DEF ListOK

(* Changes of hits that leave the links as they are.                       *)
LEMMA SameLinks ==
  ASSUME NEW h, NEW hd, NEW t, ListOK(h, hd, t), NEW k, DOMAIN k = DOMAIN h,
         \A n \in DOMAIN h : k[n] \in Hit /\ k[n].next = h[n].next
  PROVE  ListOK(k, hd, t)
<1>1. Linked(k)
  BY DEF ListOK, Linked
<1>2. \A p : Points(h, p) <=> Points(k, p)
  BY DEF Points
<1>3. Points(k, hd) /\ \A x \in Threads : ThreadOK(k, t, x)
  BY <1>2 DEF ListOK, ThreadOK
<1>4. Ranked(k, t)
  <2>1. PICK rank \in [DOMAIN h -> Nat] : Descends(h, t, rank)
    BY DEF ListOK, Ranked
  <2>2. Descends(k, t, rank)
    BY <2>1 DEF Descends
  <2> QED BY <2>1, <2>2 DEF Ranked
<1> QED BY <1>1, <1>3, <1>4 DEF ListOK

(* A thread goes on, to a state v.  If it has located a hit the link it is *)
(* going to write skips that hit.                                          *)
LEMMA ThreadGoes ==
  ASSUME NEW h, NEW hd, NEW t, ListOK(h, hd, t),
         NEW x \in Threads, NEW v \in ThreadState,
         Points(h, v.cur), Points(h, v.prev), Points(h, v.next),
         v.pc = "link" => v.cur # None,
         v.pc \in {"add", "link", "session", "del"} => v.arg \in Ann,
         v.located => v.pc \in {"session", "del", "clear"},
         (v.located /\ v.prev # None /\ v.next # None) =>
            h[v.prev].next # None /\ h[h[v.prev].next].next = v.next
  PROVE  ListOK(h, hd, [t EXCEPT ![x] = v])
<1> DEFINE u == [t EXCEPT ![x] = v]
<1>1. /\ u \in [Threads -> ThreadState] /\ u[x] = v
      /\ \A y \in Threads : y # x => u[y] = t[y]
  BY DEF ListOK
<1> HIDE DEF u
<1>2. ASSUME NEW y \in Threads PROVE ThreadOK(h, u, y)
  <2>1. CASE y = x
    BY <1>1, <2>1 DEF ThreadOK
  <2>2. CASE y # x
    BY <1>1, <2>2 DEF ThreadOK, ListOK
  <2> QED BY <2>1, <2>2
<1>3. Ranked(h, u)
  <2>1. PICK rank \in [DOMAIN h -> Nat] : Descends(h, t, rank)
    BY DEF ListOK, Ranked
  <2>2. ASSUME NEW y \in Threads, u[y].located, u[y].prev # None, u[y].next # None
        PROVE  rank[u[y].next] < rank[u[y].prev]
    <3>1. CASE y # x
      BY <1>1, <2>1, <2>2, <3>1 DEF Descends
    <3>2. CASE y = x
      <4> DEFINE p == v.prev
                 n == h[p].next
      <4>1. p # None /\ v.next # None /\ n # None /\ h[n].next = v.next
        BY <1>1, <2>2, <3>2
      <4>2. p \in DOMAIN h /\ n \in DOMAIN h /\ v.next \in DOMAIN h
        BY <4>1 DEF Points, ListOK, Linked
      <4>3. rank[n] < rank[p] /\ rank[v.next] < rank[n]
        BY <2>1, <4>1, <4>2 DEF Descends
      <4>4. rank[n] \in Nat /\ rank[p] \in Nat /\ rank[v.next] \in Nat
        BY <2>1, <4>2
      <4>5. rank[v.next] < rank[p]
        <5> HIDE DEF n, p
        <5> QED BY <4>3, <4>4
      <4> QED BY <1>1, <3>2, <4>5
    <3> QED BY <3>1, <3>2
  <2>3. Descends(h, u, rank)
    BY <2>1, <2>2 DEF Descends
  <2> QED BY <2>3 DEF Ranked
<1> QED BY <1>1, <1>2, <1>3 DEF ListOK, u

(* A thread comes to the list, or leaves it.                               *)
LEMMA EnterOK ==
  ASSUME NEW h, NEW hd, ListOK(h, hd, th), NEW x \in Threads,
         NEW pc \in {"rest", "add", "session", "del", "clear"},
         NEW arg \in Ann \cup {None}, NEW cur, Points(h, cur),
         pc \in {"add", "session", "del"} => arg \in Ann
  PROVE  ListOK(h, hd, Enter(x, pc, arg, cur)) /\ ListOK(h, hd, Leave(x))
<1> DEFINE v == [AtRest EXCEPT !.pc = pc, !.arg = arg, !.cur = cur]
<1>1. AtRest \in ThreadState /\ Points(h, None) /\ cur \in Nodes \cup {None}
  BY DEF ListOK, Linked, Points, ThreadState, AtRest
<1>2. v \in ThreadState /\ v.pc = pc /\ v.arg = arg /\ v.cur = cur
  BY <1>1 DEF ThreadState
<1>3. v.prev = None /\ v.next = None /\ v.located = FALSE
  BY DEF AtRest
<1>4. /\ AtRest.pc = "rest" /\ AtRest.cur = None /\ AtRest.prev = None
      /\ AtRest.next = None /\ AtRest.located = FALSE
  BY DEF AtRest
<1> HIDE DEF v
<1>5. ListOK(h, hd, [th EXCEPT ![x] = v])
  BY <1>1, <1>2, <1>3, ThreadGoes
<1>6. ListOK(h, hd, [th EXCEPT ![x] = AtRest])
  BY <1>1, <1>4, ThreadGoes
<1> QED BY <1>5, <1>6 DEF Enter, Leave, v

-----------------------------------------------------------------------------
(* What the steps do to the list.                                          *)

ListInv == ListOK(heap, head, th)

(* The changed list, with the unheld hits dropped, is a list in order.     *)
LEMMA BecomesOK ==
  ASSUME NEW h, NEW hd, NEW t, ListOK(h, hd, t), Becomes(h, hd, t)
  PROVE  ListInv'
  BY HeldKeeps DEF Becomes, ListInv

(* The longest wait since a contact is a number.                           *)
LEMMA ContactType == MaxContact \in Nat
<1> DEFINE D == {RelayRetry, TrackerRetry, AnswerDelay, PushDelay}
<1>1. RelayRetry \in Nat /\ TrackerRetry \in Nat /\ AnswerDelay \in Nat
      /\ PushDelay \in Nat
  BY HitsAssumption
<1>2. \E d \in D : \A e \in D : e <= d
  BY <1>1
<1>3. MaxContact \in D
  BY <1>2 DEF MaxContact
<1> QED BY <1>1, <1>3

(* A new hit is a hit.                                                     *)
LEMMA NewHitType ==
  ASSUME NEW a \in Ann, NEW n \in Nodes \cup {None}, NEW c \in BOOLEAN
  PROVE  NewHit(a, n, c) \in Hit /\ NewHit(a, n, c).next = n
         /\ NewHit(a, n, c).age = 0
  BY ContactType, HitsAssumption DEF NewHit, Hit, Ann

(* addHit: a hit is overwritten, or the thread goes on in the list.        *)
LEMMA AddHitOK ==
  ASSUME ListInv, NEW t \in Threads, NEW a \in Ann, NEW holder,
         AddHit(t, a, holder)
  PROVE  ListInv' /\ (Match(a) = 0 => ListOK(heap, head, th'))
<1> DEFINE m == List[Match(a)]
<1>0. ListOK(heap, head, th)
  BY DEF ListInv
<1>1. CASE /\ Match(a) > 0
           /\ heap' = [heap EXCEPT ![m] = NewHit(a, @.next, t # Source)]
           /\ UNCHANGED <<head, th>>
  <2> DEFINE i == m
             c == t # Source
             k == [heap EXCEPT ![i] = NewHit(a, heap[i].next, c)]
  <2>1. heap' = k
    BY <1>1
  <2>2. c \in BOOLEAN
    OBVIOUS
  <2> HIDE DEF m, i, c
  <2>3. DOMAIN k = DOMAIN heap
    OBVIOUS
  <2>4. ASSUME NEW n \in DOMAIN heap
        PROVE  k[n] \in Hit /\ k[n].next = heap[n].next
    <3>0. heap[n] \in Hit /\ heap[n].next \in Nodes \cup {None}
      BY <1>0 DEF ListOK, Linked, Hit
    <3>1. CASE n = i
      <4>1. k[n] = NewHit(a, heap[n].next, c)
        BY <3>1
      <4> HIDE DEF k
      <4> QED BY <2>2, <3>0, <4>1, NewHitType
    <3>2. CASE n # i
      BY <3>0, <3>2
    <3> QED BY <3>1, <3>2
  <2> HIDE DEF k
  <2>5. ListOK(k, head, th)
    BY <1>0, <2>3, <2>4, SameLinks
  <2>6. Match(a) # 0
    BY <1>1
  <2> QED BY <1>1, <2>1, <2>5, <2>6 DEF ListInv
<1>2. CASE Becomes(heap, head, IF a.sid # None THEN Enter(t, "session", a, head)
                                               ELSE Enter(t, "add", a, None))
  <2>1. Points(heap, head) /\ Points(heap, None)
    BY <1>0 DEF ListOK, Points
  <2>2. ListOK(heap, head, Enter(t, "session", a, head))
    BY <1>0, <2>1, EnterOK
  <2>3. ListOK(heap, head, Enter(t, "add", a, None))
    BY <1>0, <2>1, EnterOK
  <2>4. CASE a.sid # None
    BY <1>2, <2>2, <2>4, BecomesOK DEF Becomes
  <2>5. CASE ~(a.sid # None)
    BY <1>2, <2>3, <2>5, BecomesOK DEF Becomes
  <2> QED BY <2>4, <2>5
<1> QED BY <1>1, <1>2 DEF AddHit

(* The new object is older than none: nothing points at it yet.            *)
LEMMA MakeHitOK ==
  ASSUME ListInv, NEW t \in Threads, MakeHit(t)
  PROVE  ListInv'
<1>0. ListOK(heap, head, th)
  BY DEF ListInv
<1>1. PICK n \in Nodes \ DOMAIN heap :
         /\ heap' = [m \in DOMAIN heap \cup {n} |->
                       IF m = n THEN NewHit(th[t].arg, head, TRUE) ELSE heap[m]]
         /\ th' = [th EXCEPT ![t] = [th[t] EXCEPT !.pc = "link", !.cur = n]]
  BY DEF MakeHit
<1>2. th[t].pc = "add" /\ head' = head
  BY DEF MakeHit
<1>3. th[t] \in ThreadState /\ th[t].arg \in Ann /\ ThreadOK(heap, th, t)
  BY <1>0, <1>2 DEF ListOK, ThreadOK
<1> DEFINE new == NewHit(th[t].arg, head, TRUE)
           k == heap'
<1>4. new \in Hit /\ new.next = head
  BY <1>0, <1>3, NewHitType DEF ListOK, Linked, Points
<1>5. /\ DOMAIN k = DOMAIN heap \cup {n} /\ k[n] = new
      /\ \A m \in DOMAIN heap : k[m] = heap[m]
  <2> HIDE DEF new
  <2>1. k = [m \in DOMAIN heap \cup {n} |-> IF m = n THEN new ELSE heap[m]]
    BY <1>1 DEF new
  <2> HIDE DEF k
  <2> QED BY <2>1
<1> HIDE DEF new, k
<1>6. Linked(k)
  BY <1>0, <1>4, <1>5 DEF ListOK, Linked, Points
<1>7. \A p : Points(heap, p) => Points(k, p)
  BY <1>5 DEF Points
<1>8. ListOK(k, head, th)
  <2>1. Points(k, head) /\ \A x \in Threads : ThreadOK(k, th, x)
    BY <1>0, <1>7 DEF ListOK, ThreadOK
  <2>2. PICK rank \in [DOMAIN heap -> Nat] : Descends(heap, th, rank)
    BY <1>0 DEF ListOK, Ranked
  <2> DEFINE top == IF head = None THEN 0 ELSE rank[head] + 1
             up == [m \in DOMAIN heap \cup {n} |-> IF m = n THEN top ELSE rank[m]]
  <2>3. head # None => head \in DOMAIN heap
    BY <1>0 DEF ListOK, Points
  <2>4. top \in Nat /\ (head # None => rank[head] < top)
    BY <2>3
  <2> HIDE DEF top
  <2>5. up \in [DOMAIN k -> Nat] /\ up[n] = top
        /\ \A m \in DOMAIN heap : up[m] = rank[m]
    BY <1>5, <2>4
  <2> HIDE DEF up
  <2>6. ASSUME NEW m \in DOMAIN k, k[m].next # None
        PROVE  up[k[m].next] < up[m]
    <3>1. CASE m = n
      <4>1. k[m].next = head /\ head \in DOMAIN heap
        BY <1>4, <1>5, <2>3, <2>6, <3>1
      <4> QED BY <2>4, <2>5, <2>6, <3>1, <4>1
    <3>2. CASE m \in DOMAIN heap
      <4>1. k[m] = heap[m] /\ heap[m].next \in DOMAIN heap
        BY <1>0, <1>5, <2>6, <3>2 DEF ListOK, Linked
      <4> QED BY <2>2, <2>5, <2>6, <3>2, <4>1 DEF Descends
    <3> QED BY <1>5, <3>1, <3>2
  <2>7. ASSUME NEW x \in Threads, th[x].located, th[x].prev # None,
               th[x].next # None
        PROVE  up[th[x].next] < up[th[x].prev]
    <3>1. th[x].next \in DOMAIN heap /\ th[x].prev \in DOMAIN heap
      BY <1>0, <2>7 DEF ListOK, ThreadOK, Points
    <3> QED BY <2>2, <2>5, <2>7, <3>1 DEF Descends
  <2>8. Ranked(k, th)
    BY <2>5, <2>6, <2>7 DEF Ranked, Descends
  <2> QED BY <1>0, <1>6, <2>1, <2>8 DEF ListOK
<1> DEFINE v == [th[t] EXCEPT !.pc = "link", !.cur = n]
<1>9. /\ v \in ThreadState /\ v.pc = "link" /\ v.cur = n /\ v.arg = th[t].arg
      /\ v.prev = th[t].prev /\ v.next = th[t].next
      /\ v.located = th[t].located
  BY <1>3 DEF ThreadState
<1>10. th' = [th EXCEPT ![t] = v]
  BY <1>1
<1> HIDE DEF v
<1>11. Points(k, n) /\ n # None
  BY <1>5, HitsAssumption DEF Points
<1>12. ~ v.located /\ Points(k, v.prev) /\ Points(k, v.next)
  BY <1>2, <1>3, <1>7, <1>9 DEF ThreadOK
<1>13. ListOK(k, head, th')
  <2>1. v.pc = "link" /\ v.cur # None /\ v.arg \in Ann /\ Points(k, v.cur)
    BY <1>3, <1>9, <1>11
  <2> QED BY <1>8, <1>9, <1>10, <1>12, <2>1, ThreadGoes
<1> QED BY <1>2, <1>13 DEF ListInv, k

(* The head moves to another hit.                                          *)
LEMMA HeadMoves ==
  ASSUME NEW h, NEW hd, NEW t, ListOK(h, hd, t), NEW p, Points(h, p)
  PROVE  ListOK(h, p, t)
  BY DEF ListOK

(* addHit puts the new hit in front of the list it saw.                    *)
LEMMA LinkHitOK ==
  ASSUME ListInv, NEW t \in Threads, LinkHit(t)
  PROVE  ListInv' /\ ListOK(heap, th[t].cur, th')
<1>1. ListOK(heap, head, th) /\ Points(heap, None)
  BY DEF ListInv, Points
<1>2. Points(heap, th[t].cur)
  BY <1>1 DEF ListOK, ThreadOK
<1>3. ListOK(heap, head, Leave(t))
  BY <1>1, EnterOK
<1>4. ListOK(heap, th[t].cur, Leave(t))
  BY <1>2, <1>3, HeadMoves
<1> QED BY <1>4, BecomesOK DEF LinkHit, Becomes

(* A hit on the list is the first one or has a predecessor there.          *)
LEMMA Predecessor ==
  ASSUME ListInv, NEW n \in Listed
  PROVE  /\ n \in DOMAIN heap
         /\ head # n => \E m \in Listed : m \in DOMAIN heap /\ heap[m].next = n
<1> DEFINE L == Reachable(heap, {head})
           S == L \ {n}
<1>1. /\ L \subseteq DOMAIN heap /\ {head} \subseteq L \cup {None}
      /\ \A m \in L : heap[m].next \in L \cup {None}
  <2>1. Linked(heap) /\ {head} \subseteq DOMAIN heap \cup {None}
    BY DEF ListInv, ListOK, Points
  <2> HIDE DEF L
  <2> QED BY <2>1, ReachableFacts DEF L
<1>2. n \in L /\ L = Listed
  BY DEF Listed
<1>3. ASSUME head # n, \A m \in L : heap[m].next # n
      PROVE  FALSE
  <2>1. {head} \subseteq S \cup {None} /\ \A m \in S : heap[m].next \in S \cup {None}
    <3> HIDE DEF L
    <3> QED BY <1>1, <1>3
  <2>2. S \in SUBSET DOMAIN heap
    BY <1>1
  <2>3. \A T \in SUBSET DOMAIN heap :
          ({head} \subseteq T \cup {None} /\ \A m \in T : heap[m].next \in T \cup {None})
            => n \in T
    BY <1>2 DEF Reachable
  <2>4. n \in S
    <3> HIDE DEF S
    <3> QED BY <2>1, <2>2, <2>3
  <2> QED BY <2>4
<1> HIDE DEF L
<1> QED BY <1>1, <1>2, <1>3

(* deleteHit finds the link to write: it skips the hit, and so leads down. *)
LEMMA LocateOK ==
  ASSUME ListInv, NEW t \in Threads, Locate(t)
  PROVE  ListInv' /\ ListOK(heap, head, th')
<1> DEFINE n == NextDoomed(t)
           prev == IF head = n THEN None
                   ELSE CHOOSE m \in Listed : heap[m].next = n
           v == [th[t] EXCEPT !.cur = n, !.prev = prev, !.next = heap[n].next,
                              !.located = TRUE]
<1>0. ListOK(heap, head, th)
  BY DEF ListInv
<1>1. /\ n \in Listed /\ Scanning(t)
      /\ Becomes(heap, head, [th EXCEPT ![t] = v])
  BY DEF Locate
<1>2. n \in DOMAIN heap
  BY <1>1, Predecessor
<1>3. prev = None \/ (prev \in DOMAIN heap /\ heap[prev].next = n)
  <2>1. CASE head = n
    BY <2>1
  <2>2. CASE head # n
    <3>1. \E m \in Listed : heap[m].next = n
      BY <1>1, <2>2, Predecessor
    <3>2. prev \in Listed /\ heap[prev].next = n
      BY <2>2, <3>1
    <3> HIDE DEF prev
    <3> QED BY <3>2, Predecessor
  <2> QED BY <2>1, <2>2
<1> HIDE DEF n, prev
<1>4. /\ th[t] \in ThreadState /\ ThreadOK(heap, th, t)
      /\ heap[n].next \in DOMAIN heap \cup {None} /\ DOMAIN heap \subseteq Nodes
  BY <1>0, <1>2 DEF ListOK, Linked
<1>5. /\ v \in ThreadState /\ v.cur = n /\ v.prev = prev /\ v.next = heap[n].next
      /\ v.pc = th[t].pc /\ v.arg = th[t].arg
  BY <1>2, <1>3, <1>4 DEF ThreadState
<1> HIDE DEF v
<1>6. Points(heap, v.cur) /\ Points(heap, v.prev) /\ Points(heap, v.next)
  BY <1>2, <1>3, <1>4, <1>5 DEF Points
<1>7. v.pc \in {"session", "del", "clear"}
      /\ (v.pc \in {"add", "link", "session", "del"} => v.arg \in Ann)
  BY <1>1, <1>4, <1>5 DEF Scanning, ThreadOK
<1>8. (v.prev # None /\ v.next # None) =>
         heap[v.prev].next # None /\ heap[heap[v.prev].next].next = v.next
  BY <1>2, <1>3, <1>4, <1>5, HitsAssumption
<1>9. ListOK(heap, head, [th EXCEPT ![t] = v])
  BY <1>0, <1>5, <1>6, <1>7, <1>8, ThreadGoes
<1> QED BY <1>1, <1>9, BecomesOK DEF Becomes

(* What the link that a thread has located makes of the list.              *)
CutHeap(d) == IF d.prev = None THEN heap
              ELSE [heap EXCEPT ![d.prev].next = d.next]
CutHead(d) == IF d.prev = None THEN d.next ELSE head

(* deleteHit writes the link, whatever other threads have done since.      *)
LEMMA UnlinkOK ==
  ASSUME ListInv, NEW t \in Threads, Unlink(t)
  PROVE  /\ ListInv'
         /\ Becomes(CutHeap(th[t]), CutHead(th[t]), th')
         /\ ListOK(CutHeap(th[t]), CutHead(th[t]), th')
         /\ th' = Enter(t, th[t].pc, th[t].arg, th[t].next)
<1> DEFINE d == th[t]
           h == IF d.prev = None THEN heap
                ELSE [heap EXCEPT ![d.prev].next = d.next]
           hd == IF d.prev = None THEN d.next ELSE head
<1>0. ListOK(heap, head, th)
  BY DEF ListInv
<1>1. d.located /\ Scanning(t) /\ Becomes(h, hd, Enter(t, d.pc, d.arg, d.next))
  BY DEF Unlink
<1>2. /\ d \in ThreadState /\ ThreadOK(heap, th, t) /\ Points(heap, d.prev)
      /\ Points(heap, d.next) /\ Points(heap, head)
  BY <1>0 DEF ListOK, ThreadOK
<1>3. ListOK(h, head, th) /\ Points(h, d.next)
  <2>1. CASE d.prev = None
    BY <1>0, <1>2, <2>1
  <2>2. CASE d.prev # None
    <3> DEFINE p == d.prev
               k == [heap EXCEPT ![p] = [heap[p] EXCEPT !.next = d.next]]
    <3>1. h = k
      BY <2>2
    <3>2. p \in DOMAIN heap /\ d.next \in DOMAIN heap \cup {None}
          /\ heap[p] \in Hit /\ d.next \in Nodes \cup {None}
      BY <1>0, <1>2, <2>2 DEF Points, ListOK, Linked
    <3>3. [heap[p] EXCEPT !.next = d.next] \in Hit
          /\ [heap[p] EXCEPT !.next = d.next].next = d.next
      BY <3>2 DEF Hit
    <3> HIDE DEF p, d
    <3>4. /\ DOMAIN k = DOMAIN heap /\ k[p] \in Hit /\ k[p].next = d.next
          /\ \A n \in DOMAIN heap : n # p => k[n] = heap[n]
      BY <3>2, <3>3
    <3> HIDE DEF k
    <3>5. Linked(k)
      BY <1>0, <3>2, <3>4 DEF ListOK, Linked
    <3>6. \A q : Points(heap, q) <=> Points(k, q)
      BY <3>4 DEF Points
    <3>7. \A x \in Threads : ThreadOK(k, th, x)
      BY <1>0, <3>6 DEF ListOK, ThreadOK
    <3>8. PICK rank \in [DOMAIN heap -> Nat] : Descends(heap, th, rank)
      BY <1>0 DEF ListOK, Ranked
    <3>9. d.next # None => rank[d.next] < rank[p]
      BY <1>1, <2>2, <3>8 DEF Descends, d, p
    <3>10. ASSUME NEW n \in DOMAIN k, k[n].next # None
           PROVE  rank[k[n].next] < rank[n]
      <4>1. CASE n = p
        BY <3>4, <3>9, <3>10, <4>1
      <4>2. CASE n # p
        BY <3>4, <3>8, <3>10, <4>2 DEF Descends
      <4> QED BY <4>1, <4>2
    <3>11. Ranked(k, th)
      BY <3>4, <3>8, <3>10 DEF Ranked, Descends
    <3> QED BY <1>0, <1>2, <3>1, <3>5, <3>6, <3>7, <3>11 DEF ListOK
  <2> QED BY <2>1, <2>2
<1> HIDE DEF h
<1>4. Points(h, hd)
  BY <1>3 DEF ListOK
<1>5. ListOK(h, hd, th)
  <2> HIDE DEF hd
  <2> QED BY <1>3, <1>4, HeadMoves
<1>6. /\ d.pc \in {"rest", "add", "session", "del", "clear"}
      /\ d.arg \in Ann \cup {None}
      /\ d.pc \in {"add", "session", "del"} => d.arg \in Ann
  BY <1>1, <1>2 DEF Scanning, ThreadState, ThreadOK
<1> HIDE DEF hd, d
<1>7. ListOK(h, hd, Enter(t, d.pc, d.arg, d.next))
  BY <1>3, <1>5, <1>6, EnterOK
<1>8. h = CutHeap(d) /\ hd = CutHead(d)
  BY DEF CutHeap, CutHead, h, hd
<1>9. th' = Enter(t, d.pc, d.arg, d.next) /\ Becomes(h, hd, th')
  BY <1>1 DEF Becomes
<1> QED BY <1>1, <1>7, <1>8, <1>9, BecomesOK DEF d

(* A loop that reached the end of the list leaves it alone.                *)
LEMMA ScanEndsOK ==
  ASSUME ListInv, NEW t \in Threads, ScanEnds(t)
  PROVE  ListInv' /\ ListOK(heap, head, th')
<1>1. ListOK(heap, head, th) /\ Points(heap, None)
  BY DEF ListInv, Points
<1>2. CASE th[t].pc = "session" /\ Becomes(heap, head, Enter(t, "add", th[t].arg, None))
  <2>1. th[t].arg \in Ann
    BY <1>1, <1>2 DEF ListOK, ThreadOK
  <2>2. ListOK(heap, head, Enter(t, "add", th[t].arg, None))
    BY <1>1, <2>1, EnterOK
  <2> QED BY <1>2, <2>2, BecomesOK DEF Becomes
<1>3. CASE Becomes(heap, head, Leave(t))
  <2>1. ListOK(heap, head, Leave(t))
    BY <1>1, EnterOK
  <2> QED BY <1>3, <2>1, BecomesOK DEF Becomes
<1> QED BY <1>2, <1>3 DEF ScanEnds

(* delHit enters its loop at the head of the list.                         *)
LEMMA DelHitOK ==
  ASSUME ListInv, NEW t \in Threads, NEW a \in Ann, DelHit(t, a)
  PROVE  ListInv'
<1>1. ListOK(heap, head, th) /\ Points(heap, head)
  BY DEF ListInv, ListOK
<1>2. ListOK(heap, head, Enter(t, "del", a, head))
  BY <1>1, EnterOK
<1> QED BY <1>2, BecomesOK DEF DelHit

(* clearDeadHits enters its loop at the head of the list.                  *)
LEMMA ClearDeadHitsOK ==
  ASSUME ListInv, ClearDeadHits
  PROVE  ListInv' /\ ListOK(heap, head, th')
<1>1. ListOK(heap, head, th) /\ Points(heap, head) /\ Idle \in Threads
  BY DEF ListInv, ListOK, Threads
<1>2. ListOK(heap, head, Enter(Idle, "clear", None, head))
  BY <1>1, EnterOK
<1> QED BY <1>2, BecomesOK DEF ClearDeadHits, Becomes

(* Time passes.                                                            *)
LEMMA TickOK ==
  ASSUME ListInv, Tick
  PROVE  ListInv'
<1> DEFINE old(c) == [c EXCEPT !.age = IF @ > DeadHitAge THEN @ ELSE @ + 1,
                               !.contact = IF @ = MaxContact THEN @ ELSE @ + 1]
           k == [n \in DOMAIN heap |-> old(heap[n])]
<1>0. ListOK(heap, head, th) /\ \A n \in DOMAIN heap : heap[n] \in Hit
  BY DEF ListInv, ListOK, Linked
<1>1. heap' = k /\ UNCHANGED <<head, th>>
  BY DEF Tick
<1>2. ASSUME NEW c \in Hit PROVE old(c) \in Hit /\ old(c).next = c.next
  <2>1. c.age \in 0 .. DeadHitAge + 1 /\ c.contact \in 0 .. MaxContact
        /\ DeadHitAge \in Nat /\ MaxContact \in Nat
    BY ContactType, HitsAssumption DEF Hit
  <2> DEFINE x == IF c.age > DeadHitAge THEN c.age ELSE c.age + 1
             y == IF c.contact = MaxContact THEN c.contact ELSE c.contact + 1
  <2>2. x \in 0 .. DeadHitAge + 1 /\ y \in 0 .. MaxContact
    BY <2>1
  <2>3. old(c) = [c EXCEPT !.age = x, !.contact = y]
    OBVIOUS
  <2> HIDE DEF x, y
  <2> QED BY <2>2, <2>3 DEF Hit
<1> HIDE DEF old
<1>3. DOMAIN k = DOMAIN heap /\ \A n \in DOMAIN heap : k[n] = old(heap[n])
  OBVIOUS
<1> HIDE DEF k
<1>4. ListOK(k, head, th)
  BY <1>0, <1>2, <1>3, SameLinks
<1> QED BY <1>1, <1>4 DEF ListInv

(* A search sets the time of contact of what it returns.                   *)
LEMMA ContactedOK ==
  ASSUME ListInv, NEW n, NEW chs, heap' = Contacted(n, chs), UNCHANGED <<head, th>>
  PROVE  ListInv'
<1>0. ListOK(heap, head, th)
  BY DEF ListInv
<1>1. CASE heap' = heap
  BY <1>0, <1>1 DEF ListInv
<1>2. CASE heap' = [heap EXCEPT ![n].contact = 0]
  <2> DEFINE k == [heap EXCEPT ![n] = [heap[n] EXCEPT !.contact = 0]]
  <2>1. heap' = k
    BY <1>2
  <2>2. ASSUME NEW m \in DOMAIN heap
        PROVE  k[m] \in Hit /\ k[m].next = heap[m].next
    <3>1. heap[m] \in Hit
      BY <1>0 DEF ListOK, Linked
    <3>2. [heap[m] EXCEPT !.contact = 0] \in Hit
          /\ [heap[m] EXCEPT !.contact = 0].next = heap[m].next
      BY <3>1, ContactType DEF Hit
    <3>3. k[m] = IF m = n THEN [heap[m] EXCEPT !.contact = 0] ELSE heap[m]
      OBVIOUS
    <3> HIDE DEF k
    <3> QED BY <3>1, <3>2, <3>3
  <2>3. DOMAIN k = DOMAIN heap
    OBVIOUS
  <2> HIDE DEF k
  <2>4. ListOK(k, head, th)
    BY <1>0, <2>2, <2>3, SameLinks
  <2> QED BY <2>1, <2>4 DEF ListInv
<1> QED BY <1>1, <1>2 DEF Contacted

(* Hits are marked as dead.                                                *)
LEMMA DeadHitOK ==
  ASSUME ListInv, NEW a, DeadHit(a), UNCHANGED <<head, th>>
  PROVE  ListInv'
<1> DEFINE hit(n) == n \in Listed /\ SameAddress(n, a)
           k == [n \in DOMAIN heap |-> IF hit(n) THEN [heap[n] EXCEPT !.dead = TRUE]
                                       ELSE heap[n]]
<1>0. ListOK(heap, head, th)
  BY DEF ListInv
<1>1. heap' = k
  BY DEF DeadHit
<1> HIDE DEF hit
<1>2. ASSUME NEW m \in DOMAIN heap
      PROVE  k[m] \in Hit /\ k[m].next = heap[m].next
  <2>1. heap[m] \in Hit
    BY <1>0 DEF ListOK, Linked
  <2>2. [heap[m] EXCEPT !.dead = TRUE] \in Hit
        /\ [heap[m] EXCEPT !.dead = TRUE].next = heap[m].next
    BY <2>1 DEF Hit
  <2>3. k[m] = IF hit(m) THEN [heap[m] EXCEPT !.dead = TRUE] ELSE heap[m]
    OBVIOUS
  <2> HIDE DEF k
  <2> QED BY <2>1, <2>2, <2>3
<1>3. DOMAIN k = DOMAIN heap
  OBVIOUS
<1> HIDE DEF k
<1>4. ListOK(k, head, th)
  BY <1>0, <1>2, <1>3, SameLinks
<1> QED BY <1>1, <1>4 DEF ListInv

-----------------------------------------------------------------------------
(* The invariant.                                                          *)

(* The empty list is in order.                                             *)
LEMMA ListInit == Init => ListInv
<1> SUFFICES ASSUME Init PROVE ListInv
  OBVIOUS
<1>1. /\ DOMAIN heap = {} /\ head = None /\ th = [t \in Threads |-> AtRest]
  BY DEF Init
<1>2. AtRest \in ThreadState
  BY DEF AtRest, ThreadState
<1>3. /\ AtRest.pc = "rest" /\ AtRest.cur = None /\ AtRest.prev = None
      /\ AtRest.next = None /\ AtRest.located = FALSE
  BY DEF AtRest
<1> HIDE DEF AtRest
<1>4. th \in [Threads -> ThreadState] /\ \A x \in Threads : th[x] = AtRest
  BY <1>1, <1>2
<1>5. Linked(heap) /\ Points(heap, head) /\ Points(heap, None)
  BY <1>1 DEF Linked, Points
<1>6. \A x \in Threads : ThreadOK(heap, th, x)
  BY <1>3, <1>4, <1>5 DEF ThreadOK
<1>7. Ranked(heap, th)
  <2> DEFINE rank == [n \in DOMAIN heap |-> 0]
  <2>1. rank \in [DOMAIN heap -> Nat]
    OBVIOUS
  <2>2. Descends(heap, th, rank)
    BY <1>1, <1>3, <1>4 DEF Descends
  <2> HIDE DEF rank
  <2> QED BY <2>1, <2>2 DEF Ranked
<1> QED BY <1>4, <1>5, <1>6, <1>7 DEF ListInv, ListOK

(* Every step of every thread keeps the list in order.                     *)
LEMMA ListNext == ListInv /\ [Next]_vars => ListInv'
<1> SUFFICES ASSUME ListInv, [Next]_vars PROVE ListInv'
  OBVIOUS
<1>0. Announcements \subseteq Ann /\ Leaving \subseteq Ann /\ Tips \subseteq Ann
      /\ Conns \subseteq Threads /\ Source \in Threads
  BY HitsAssumption DEF Ann, Threads
<1>1. ASSUME NEW t \in Conns, NEW a \in Announcements, Announce(t, a)
      PROVE  ListInv'
  BY <1>0, <1>1, AddHitOK DEF Announce
<1>2. ASSUME NEW t \in Conns, NEW a \in Leaving, DelHit(t, a)
      PROVE  ListInv'
  BY <1>0, <1>2, DelHitOK
<1>3. ASSUME NEW t \in Threads, Step(t)
      PROVE  ListInv'
  BY <1>3, MakeHitOK, LinkHitOK, LocateOK, UnlinkOK, ScanEndsOK DEF Step
<1>4. CASE ClearDeadHits
  BY <1>4, ClearDeadHitsOK
<1>5. CASE Tick
  BY <1>5, TickOK
<1>6. CASE PickSource
  BY <1>6, ContactedOK DEF PickSource
<1>7. CASE SourceFails
  BY <1>7, DeadHitOK DEF SourceFails
<1>8. ASSUME NEW a \in Tips, SourceTip(a)
      PROVE  ListInv'
  BY <1>0, <1>8, AddHitOK DEF SourceTip
<1>9. CASE SendHit
  BY <1>9, ContactedOK DEF SendHit
<1>10. CASE UNCHANGED <<heap, head, th>>
  BY <1>10 DEF ListInv
<1>11. CASE SendRest
  <2>1. UNCHANGED <<head, th>>
    BY <1>11 DEF SendRest
  <2>2. UNCHANGED heap \/ \E chs : heap' = Contacted(PickHit(chs), chs)
    BY <1>11 DEF SendRest, PushRequest
  <2> QED BY <1>10, <2>1, <2>2, ContactedOK
<1>12. CASE SourceEnds \/ Refuse \/ UNCHANGED vars
  BY <1>10, <1>12 DEF SourceEnds, Refuse, vars
<1> QED
  BY <1>1, <1>2, <1>3, <1>4, <1>5, <1>6, <1>7, <1>8, <1>9, <1>11, <1>12 DEF Next

(* The list is in order in every state.                                    *)
LEMMA ListAlways == Spec => []ListInv
<1>1. Init => ListInv
  BY ListInit
<1>2. ListInv /\ [Next]_vars => ListInv'
  BY ListNext
<1> QED BY <1>1, <1>2, PTL DEF Spec

-----------------------------------------------------------------------------
(* A set of naturals that is not empty has a least element.  The finite    *)
(* sets 0..n are ordered by inclusion as the numbers n are, and that order *)
(* is well-founded.                                                        *)
LEMMA LeastNatural ==
  ASSUME NEW S \in SUBSET Nat, S # {}
  PROVE  \E m \in S : \A k \in S : m <= k
<1> DEFINE R == StrictSubsetOrdering(Nat)
           T == {0..n : n \in S}
<1>1. IsWellFoundedOn(R, FiniteSubsetsOf(Nat))
  BY FS_StrictSubsetOrderingWellFounded
<1>2. T \subseteq FiniteSubsetsOf(Nat)
  <2>1. \A n \in S : IsFiniteSet(0..n) /\ 0..n \subseteq Nat
    BY FS_Interval
  <2> QED BY <2>1 DEF FiniteSubsetsOf
<1>3. T # {}
  OBVIOUS
<1>4. PICK x \in T : \A y \in T : ~(<<y, x>> \in R)
  <2> HIDE DEF R, T
  <2> QED BY <1>1, <1>2, <1>3, WFMin
<1>5. PICK m \in S : x = 0..m
  OBVIOUS
<1>6. ASSUME NEW k \in S, k < m PROVE FALSE
  <2>1. 0..k \subseteq 0..m /\ 0..k # 0..m
    <3>1. m \in 0..m /\ m \notin 0..k
      BY <1>6
    <3> QED BY <1>6, <3>1
  <2>2. 0..k \in SUBSET Nat /\ 0..m \in SUBSET Nat
    OBVIOUS
  <2>3. <<0..k, 0..m>> \in R
    BY <2>1, <2>2 DEF StrictSubsetOrdering
  <2> QED BY <2>3, <1>4, <1>5
<1> QED BY <1>6

(* However the unlocked changes of the hit list interleave, no set of hits *)
(* is closed under the links, so that every loop over the list ends: the   *)
(* hits can be ranked so that each link leads down, and the link that a    *)
(* deleteHit has found and not written yet leads down as well.             *)
THEOREM ListHasNoCycle == Spec => []NoCycle
<1>1. ListInv => NoCycle
  <2> SUFFICES ASSUME ListInv, NEW S \in SUBSET DOMAIN heap, S # {}
               PROVE  \E n \in S : heap[n].next \notin S
    BY DEF NoCycle
  <2>1. PICK rank \in [DOMAIN heap -> Nat] : Descends(heap, th, rank)
    BY DEF ListInv, ListOK, Ranked
  <2> DEFINE R == {rank[n] : n \in S}
  <2>2. R \in SUBSET Nat /\ R # {}
    OBVIOUS
  <2>3. \A n \in S : rank[n] \in R
    OBVIOUS
  <2>4. PICK m \in R : \A k \in R : m <= k
    <3> HIDE DEF R
    <3> QED BY <2>2, LeastNatural
  <2>5. PICK n \in S : m = rank[n]
    OBVIOUS
  <2>6. ASSUME heap[n].next \in S PROVE FALSE
    <3>1. heap[n].next # None
      BY <2>6, HitsAssumption DEF ListInv, ListOK, Linked
    <3>2. rank[heap[n].next] < rank[n]
      BY <2>1, <3>1 DEF Descends
    <3>3. rank[n] <= rank[heap[n].next]
      BY <2>3, <2>4, <2>5, <2>6
    <3>4. rank[n] \in Nat /\ rank[heap[n].next] \in Nat
      BY <2>6
    <3> QED BY <3>2, <3>3, <3>4
  <2> QED BY <2>6
<1> QED BY <1>1, ListAlways, PTL

-----------------------------------------------------------------------------
(* Loops.                                                                  *)

(* f holds the values, in X, of a loop of N rounds g that begins with x0.  *)
LoopRuns(f, X, x0, N, g) ==
    /\ f \in [0..N -> X]
    /\ f[0] = x0
    /\ \A k \in 1..N : f[k] = g[<<k, f[k - 1]>>]

(* There are such values if every round keeps to X.                        *)
LEMMA LoopValues ==
  ASSUME NEW X, NEW x0 \in X, NEW N \in Nat, NEW g \in [(1..N) \X X -> X]
  PROVE  \E f : LoopRuns(f, X, x0, N, g)
<1> DEFINE Runs(f, m) == LoopRuns(f, X, x0, m, g)
           Bad == {m \in 0..N : ~ \E f : Runs(f, m)}
<1>1. ASSUME Bad # {} PROVE FALSE
  <2>1. PICK m \in Bad : \A k \in Bad : m <= k
    <3>1. Bad \in SUBSET Nat
      OBVIOUS
    <3> HIDE DEF Bad
    <3> QED BY <1>1, <3>1, LeastNatural
  <2>2. m \in 0..N /\ \A f : ~ Runs(f, m)
    OBVIOUS
  <2>3. m # 0
    <3> DEFINE f == [k \in 0..0 |-> x0]
    <3>1. f \in [0..0 -> X] /\ f[0] = x0 /\ 1..0 = {}
      OBVIOUS
    <3> HIDE DEF f
    <3>2. Runs(f, 0)
      BY <3>1 DEF LoopRuns
    <3> QED BY <2>2, <3>2
  <2>4. m - 1 \in 0..N /\ m - 1 \notin Bad
    <3>1. m - 1 \in 0..N /\ ~(m <= m - 1)
      BY <2>2, <2>3
    <3> HIDE DEF Bad
    <3> QED BY <2>1, <3>1
  <2>5. PICK f : Runs(f, m - 1)
    BY <2>4
  <2> DEFINE e == [k \in 0..m |-> IF k = m THEN g[<<m, f[m - 1]>>] ELSE f[k]]
  <2>6. m - 1 \in 0..(m - 1) /\ m \in 1..N /\ 0 \in 0..(m - 1)
    BY <2>2, <2>3
  <2>7. f[m - 1] \in X /\ g[<<m, f[m - 1]>>] \in X
    BY <2>5, <2>6 DEF LoopRuns
  <2>8. /\ e[m] = g[<<m, f[m - 1]>>] /\ \A k \in 0..(m - 1) : e[k] = f[k]
        /\ e \in [0..m -> X]
    <3>1. \A k \in 0..m : k = m \/ k \in 0..(m - 1)
      BY <2>2
    <3>2. \A k \in 0..(m - 1) : k \in 0..m /\ k # m /\ f[k] \in X
      BY <2>2, <2>5 DEF LoopRuns
    <3>3. m \in 0..m
      BY <2>2
    <3> QED BY <2>7, <3>1, <3>2, <3>3
  <2> HIDE DEF e
  <2>9. ASSUME NEW k \in 1..m PROVE e[k] = g[<<k, e[k - 1]>>]
    <3>1. k - 1 \in 0..(m - 1)
      BY <2>2
    <3>2. CASE k = m
      BY <2>8, <3>1, <3>2
    <3>3. CASE k # m
      <4>1. k \in 1..(m - 1) /\ k \in 0..(m - 1)
        BY <2>2, <3>3
      <4> QED BY <2>5, <2>8, <3>1, <4>1 DEF LoopRuns
    <3> QED BY <3>2, <3>3
  <2>10. Runs(e, m)
    BY <2>5, <2>6, <2>8, <2>9 DEF LoopRuns
  <2> QED BY <2>2, <2>10
<1>2. N \in 0..N
  OBVIOUS
<1>3. N \notin Bad
  <2> HIDE DEF Bad
  <2> QED BY <1>1
<1> QED BY <1>2, <1>3

(* The hits s, and the one that the last of them links to.                 *)
After(h, n, s) == IF s = <<>> THEN n ELSE h[Last(s)].next
More(h, n, s) ==
    IF After(h, n, s) = None THEN s ELSE Append(s, After(h, n, s))

(* Following the links of h, one by one, leads to hits of h.               *)
LEMMA MoreType ==
  ASSUME NEW h, NEW n, Linked(h), Points(h, n), NEW s \in Seq(DOMAIN h)
  PROVE  After(h, n, s) \in DOMAIN h \cup {None} /\ More(h, n, s) \in Seq(DOMAIN h)
<1>1. After(h, n, s) \in DOMAIN h \cup {None}
  <2>1. CASE s = <<>>
    BY <2>1 DEF Points, After
  <2>2. CASE s # <<>>
    <3>1. Last(s) \in DOMAIN h
      BY <2>2 DEF Last
    <3> QED BY <2>2, <3>1 DEF Linked, After
  <2> QED BY <2>1, <2>2
<1>2. CASE After(h, n, s) = None
  BY <1>1, <1>2 DEF More
<1>3. CASE After(h, n, s) # None
  <2>1. After(h, n, s) \in DOMAIN h
    BY <1>1, <1>3
  <2>2. Append(s, After(h, n, s)) \in Seq(DOMAIN h)
    BY <2>1
  <2> QED BY <1>1, <1>3, <2>2 DEF More
<1> QED BY <1>2, <1>3

(* The chain of the links is what the loop has found after as many rounds  *)
(* as there can be hits.                                                   *)
LEMMA ChainRounds ==
  ASSUME NEW h, NEW n, Linked(h), Points(h, n)
  PROVE  /\ Cardinality(Nodes) \in Nat
         /\ \E U : /\ Chain(h, n) = U[Cardinality(Nodes)]
                  /\ \A k \in 0..Cardinality(Nodes) :
                        /\ U[k] \in Seq(DOMAIN h)
                        /\ U[k] = IF k = 0 THEN <<>> ELSE More(h, n, U[k - 1])
<1> DEFINE C == Cardinality(Nodes)
           X == Seq(DOMAIN h)
           e == <<>>
           more(s) == More(h, n, s)
           g == [p \in (1..C) \X X |-> more(p[2])]
           U == CHOOSE u : u = [k \in 0..C |-> IF k = 0 THEN e ELSE more(u[k - 1])]
<1>1. C \in Nat
  BY FS_CardinalityType, HitsAssumption
<1>2. Chain(h, n) = U[C]
  BY DEF Chain, More, After
<1>3. \A s \in X : more(s) \in X
  BY MoreType
<1>4. e \in X
  OBVIOUS
<1> HIDE DEF X, more, C, e
<1>5. \A k \in 1..C, s \in X : g[<<k, s>>] = more(s)
  BY <1>3
<1>6. g \in [(1..C) \X X -> X]
  BY <1>3
<1> HIDE DEF g
<1>7. PICK f : LoopRuns(f, X, e, C, g)
  BY <1>1, <1>4, <1>6, LoopValues
<1>8. /\ f \in [0..C -> X] /\ f[0] = e
      /\ \A k \in 1..C : f[k] = g[<<k, f[k - 1]>>]
  BY <1>7 DEF LoopRuns
<1>9. f = [k \in 0..C |-> IF k = 0 THEN e ELSE more(f[k - 1])]
  <2>1. ASSUME NEW k \in 0..C PROVE f[k] = IF k = 0 THEN e ELSE more(f[k - 1])
    <3>1. CASE k = 0
      BY <1>8, <3>1
    <3>2. CASE k # 0
      <4>1. k \in 1..C /\ k - 1 \in 0..C
        BY <1>1, <3>2
      <4>2. f[k - 1] \in X
        BY <1>8, <4>1
      <4> QED BY <1>5, <1>8, <3>2, <4>1, <4>2
    <3> QED BY <3>1, <3>2
  <2> QED BY <1>8, <2>1
<1>10. U = [k \in 0..C |-> IF k = 0 THEN e ELSE more(U[k - 1])]
  BY <1>9
<1> HIDE DEF U
<1>11. \A k \in 0..C : U[k] = IF k = 0 THEN e ELSE more(U[k - 1])
  BY <1>10
<1> DEFINE Bad == {k \in 0..C : U[k] \notin X}
<1>12. ASSUME Bad # {} PROVE FALSE
  <2>1. PICK k \in Bad : \A j \in Bad : k <= j
    <3>1. Bad \in SUBSET Nat
      OBVIOUS
    <3> HIDE DEF Bad
    <3> QED BY <1>12, <3>1, LeastNatural
  <2>2. k \in 0..C /\ U[k] \notin X
    OBVIOUS
  <2>3. k # 0
    BY <1>4, <1>11, <2>2
  <2>4. k - 1 \in 0..C /\ ~(k <= k - 1)
    BY <1>1, <2>2, <2>3
  <2>5. U[k - 1] \in X
    BY <2>1, <2>4
  <2> QED BY <1>3, <1>11, <2>2, <2>3, <2>5
<1>13. \A k \in 0..C : U[k] \in X
  BY <1>12
<1> QED BY <1>1, <1>2, <1>11, <1>13 DEF X, C, e, more

(* The links lead to hits of h, however often they are followed.           *)
LEMMA ChainType ==
  ASSUME NEW h, NEW n, Linked(h), Points(h, n)
  PROVE  Chain(h, n) \in Seq(DOMAIN h)
<1> DEFINE C == Cardinality(Nodes)
<1>1. C \in Nat
  BY ChainRounds
<1>2. C \in 0..C
  BY <1>1
<1> QED BY <1>2, ChainRounds

(* The list, in the order in which it is searched.                         *)
LEMMA ListType ==
  ASSUME ListInv
  PROVE  /\ List \in Seq(DOMAIN heap) /\ Len(List) \in Nat
         /\ DOMAIN List = 1..Len(List)
         /\ \A k \in 1..Len(List) : /\ List[k] \in DOMAIN heap /\ List[k] # None
                                    /\ heap[List[k]].ann.hops \in Nat
<1>1. Linked(heap) /\ Points(heap, head)
  BY DEF ListInv, ListOK
<1>2. List \in Seq(DOMAIN heap)
  BY <1>1, ChainType DEF List
<1> HIDE DEF List
<1>3. Len(List) \in Nat /\ DOMAIN List = 1..Len(List)
      /\ \A k \in 1..Len(List) : List[k] \in DOMAIN heap
  BY <1>2
<1>4. \A n \in DOMAIN heap : n # None /\ heap[n].ann.hops \in Nat
  BY <1>1, HitsAssumption DEF Linked, Hit
<1> QED BY <1>2, <1>3, <1>4

(* b is the first of the nearest hits that a search may return, among the  *)
(* first k of the list; None if there is none.                             *)
FirstNearest(chs, k, b) ==
    \/ b = None /\ \A j \in 1..k : ~ Eligible(List[j], chs)
    \/ \E i \in 1..k :
         /\ b = List[i] /\ Eligible(List[i], chs)
         /\ \A j \in 1..k : Eligible(List[j], chs) =>
               \/ heap[List[i]].ann.hops < heap[List[j]].ann.hops
               \/ heap[List[i]].ann.hops = heap[List[j]].ann.hops /\ i <= j

(* One round of the loop of pickHits.                                      *)
Round(chs, k, b) ==
    IF /\ Eligible(List[k], chs)
       /\ b = None \/ heap[List[k]].ann.hops < heap[b].ann.hops
    THEN List[k] ELSE b

(* A round of the loop of pickHits finds the first of the nearest so far.  *)
LEMMA RoundNearest ==
  ASSUME ListInv, NEW chs, NEW k \in 1..Len(List), NEW b,
         FirstNearest(chs, k - 1, b)
  PROVE  FirstNearest(chs, k, Round(chs, k, b))
<1> DEFINE N == Len(List)
           El(j) == Eligible(List[j], chs)
           hops(j) == heap[List[j]].ann.hops
<1>1. N \in Nat /\ \A j \in 1..N : hops(j) \in Nat /\ List[j] # None
  BY ListType
<1>2. \A j \in 1..k : j \in 1..N /\ (j = k \/ j \in 1..(k - 1))
  BY <1>1
<1>3. \A j \in 1..(k - 1) : j \in 1..k /\ j < k
  BY <1>1
<1>4. k \in Nat /\ k \in 1..k
  BY <1>1
<1> HIDE DEF N
<1>5. CASE b = None /\ \A j \in 1..(k - 1) : ~ El(j)
  <2>1. CASE El(k)
    <3>1. Round(chs, k, b) = List[k]
      BY <1>5, <2>1 DEF Round
    <3>2. \A j \in 1..k : El(j) => hops(k) = hops(j) /\ k <= j
      BY <1>2, <1>4, <1>5
    <3> QED BY <1>4, <2>1, <3>1, <3>2 DEF FirstNearest
  <2>2. CASE ~ El(k)
    <3>1. Round(chs, k, b) = None
      BY <1>5, <2>2 DEF Round
    <3> QED BY <1>2, <1>5, <2>2, <3>1 DEF FirstNearest
  <2> QED BY <2>1, <2>2
<1>6. ASSUME NEW i \in 1..(k - 1), b = List[i], El(i),
             \A j \in 1..(k - 1) : El(j) => \/ hops(i) < hops(j)
                                            \/ hops(i) = hops(j) /\ i <= j
      PROVE  FirstNearest(chs, k, Round(chs, k, b))
  <2>0. b # None /\ i \in 1..k /\ i < k /\ hops(i) \in Nat /\ hops(k) \in Nat
    BY <1>1, <1>2, <1>3, <1>4, <1>6
  <2>1. CASE El(k) /\ hops(k) < hops(i)
    <3>1. Round(chs, k, b) = List[k]
      BY <1>6, <2>1 DEF Round
    <3>2. ASSUME NEW j \in 1..k, El(j)
          PROVE  hops(k) < hops(j) \/ (hops(k) = hops(j) /\ k <= j)
      <4>1. CASE j = k
        BY <1>4, <4>1
      <4>2. CASE j \in 1..(k - 1)
        <5>1. hops(i) < hops(j) \/ hops(i) = hops(j)
          BY <1>6, <3>2, <4>2
        <5>2. hops(j) \in Nat
          BY <1>1, <1>2
        <5> HIDE DEF hops
        <5> QED BY <2>0, <2>1, <5>1, <5>2
      <4> QED BY <1>2, <4>1, <4>2
    <3> QED BY <1>4, <2>1, <3>1, <3>2 DEF FirstNearest
  <2>2. CASE ~(El(k) /\ hops(k) < hops(i))
    <3>1. Round(chs, k, b) = List[i]
      BY <1>6, <2>0, <2>2 DEF Round
    <3>2. ASSUME NEW j \in 1..k, El(j)
          PROVE  hops(i) < hops(j) \/ (hops(i) = hops(j) /\ i <= j)
      <4>1. CASE j = k
        <5>1. ~(hops(k) < hops(i))
          BY <2>2, <3>2, <4>1
        <5> HIDE DEF hops
        <5>2. hops(i) < hops(k) \/ hops(i) = hops(k)
          BY <2>0, <5>1
        <5> QED BY <1>4, <2>0, <4>1, <5>2
      <4>2. CASE j \in 1..(k - 1)
        BY <1>6, <3>2, <4>2
      <4> QED BY <1>2, <4>1, <4>2
    <3> QED BY <1>6, <2>0, <3>1, <3>2 DEF FirstNearest
  <2> QED BY <2>1, <2>2
<1> QED BY <1>5, <1>6 DEF FirstNearest

(* What pickHits returns.                                                  *)
LEMMA PickHitNearest ==
  ASSUME ListInv, NEW chs
  PROVE  FirstNearest(chs, Len(List), PickHit(chs))
<1> DEFINE N == Len(List)
           X == DOMAIN heap \cup {None}
           g == [p \in (1..N) \X X |-> Round(chs, p[1], p[2])]
           U == CHOOSE u : u = [k \in 0..N |->
                  IF k = 0 THEN None ELSE Round(chs, k, u[k - 1])]
<1>1. N \in Nat /\ \A j \in 1..N : List[j] \in DOMAIN heap
  BY ListType
<1>2. PickHit(chs) = U[N]
  BY DEF PickHit, Round
<1>3. \A k \in 1..N, b \in X : Round(chs, k, b) \in X
  BY <1>1 DEF Round
<1>4. None \in X
  OBVIOUS
<1> HIDE DEF N, X
<1>5. \A k \in 1..N, b \in X : g[<<k, b>>] = Round(chs, k, b)
  OBVIOUS
<1>6. g \in [(1..N) \X X -> X]
  BY <1>3
<1> HIDE DEF g
<1>7. PICK f : LoopRuns(f, X, None, N, g)
  BY <1>1, <1>4, <1>6, LoopValues
<1>8. /\ f \in [0..N -> X] /\ f[0] = None
      /\ \A k \in 1..N : f[k] = g[<<k, f[k - 1]>>]
  BY <1>7 DEF LoopRuns
<1>9. f = [k \in 0..N |-> IF k = 0 THEN None ELSE Round(chs, k, f[k - 1])]
  <2>1. ASSUME NEW k \in 0..N
        PROVE  f[k] = IF k = 0 THEN None ELSE Round(chs, k, f[k - 1])
    <3>1. CASE k = 0
      BY <1>8, <3>1
    <3>2. CASE k # 0
      <4>1. k \in 1..N /\ k - 1 \in 0..N
        BY <1>1, <3>2
      <4>2. f[k - 1] \in X
        BY <1>8, <4>1
      <4> QED BY <1>5, <1>8, <3>2, <4>1, <4>2
    <3> QED BY <3>1, <3>2
  <2> QED BY <1>8, <2>1
<1>10. U = [k \in 0..N |-> IF k = 0 THEN None ELSE Round(chs, k, U[k - 1])]
  BY <1>9
<1> HIDE DEF U
<1> DEFINE Bad == {k \in 0..N : ~ FirstNearest(chs, k, U[k])}
<1>11. ASSUME Bad # {} PROVE FALSE
  <2>1. PICK k \in Bad : \A j \in Bad : k <= j
    <3>1. Bad \in SUBSET Nat
      OBVIOUS
    <3> HIDE DEF Bad
    <3> QED BY <1>11, <3>1, LeastNatural
  <2>2. k \in 0..N /\ ~ FirstNearest(chs, k, U[k])
    OBVIOUS
  <2>3. U[k] = IF k = 0 THEN None ELSE Round(chs, k, U[k - 1])
    BY <1>10, <2>2
  <2>4. k # 0
    <3>1. 1..0 = {}
      OBVIOUS
    <3>2. FirstNearest(chs, 0, None)
      BY <3>1 DEF FirstNearest
    <3> QED BY <2>2, <2>3, <3>2
  <2>5. k - 1 \in 0..N /\ ~(k <= k - 1) /\ k \in 1..N
    BY <1>1, <2>2, <2>4
  <2>6. FirstNearest(chs, k - 1, U[k - 1])
    BY <2>1, <2>5
  <2>7. FirstNearest(chs, k, Round(chs, k, U[k - 1]))
    BY <2>5, <2>6, RoundNearest DEF N
  <2> QED BY <2>2, <2>3, <2>4, <2>7
<1>12. N \in 0..N
  BY <1>1
<1>13. FirstNearest(chs, N, U[N])
  BY <1>11, <1>12
<1> QED BY <1>2, <1>13 DEF N

(* The source that the channel's thread picks is the first of the nearest  *)
(* hits that it may use, for every list: the loop of pickHits keeps the    *)
(* best hit of those it has seen.                                          *)
THEOREM PicksNearest == Spec => []NearestPicked
<1>1. ListInv => NearestPicked
  <2> SUFFICES ASSUME ListInv, NEW i \in DOMAIN SourceSearches
               PROVE  LET chs == SourceSearches[i]
                          can == {k \in DOMAIN List : Eligible(List[k], chs)}
                          hops(k) == heap[List[k]].ann.hops
                      IN  IF can = {} THEN PickHit(chs) = None
                          ELSE \E k \in can :
                                 /\ PickHit(chs) = List[k]
                                 /\ \A j \in can : \/ hops(k) < hops(j)
                                                   \/ hops(k) = hops(j) /\ k <= j
    BY DEF NearestPicked
  <2> DEFINE chs == SourceSearches[i]
             can == {k \in DOMAIN List : Eligible(List[k], chs)}
  <2>1. FirstNearest(chs, Len(List), PickHit(chs))
    BY PickHitNearest
  <2>2. DOMAIN List = 1..Len(List)
    BY ListType
  <2> HIDE DEF chs
  <2>3. CASE PickHit(chs) = None /\ \A j \in 1..Len(List) : ~ Eligible(List[j], chs)
    BY <2>2, <2>3 DEF chs
  <2>4. ASSUME NEW k \in 1..Len(List), PickHit(chs) = List[k],
               Eligible(List[k], chs),
               \A j \in 1..Len(List) : Eligible(List[j], chs) =>
                  \/ heap[List[k]].ann.hops < heap[List[j]].ann.hops
                  \/ heap[List[k]].ann.hops = heap[List[j]].ann.hops /\ k <= j
        PROVE  can # {} /\ \E m \in can :
                 /\ PickHit(chs) = List[m]
                 /\ \A j \in can :
                      \/ heap[List[m]].ann.hops < heap[List[j]].ann.hops
                      \/ heap[List[m]].ann.hops = heap[List[j]].ann.hops /\ m <= j
    <3>1. k \in can
      BY <2>2, <2>4
    <3> QED BY <2>2, <2>4, <3>1
  <2> QED BY <2>1, <2>3, <2>4 DEF FirstNearest, chs
<1> QED BY <1>1, ListAlways, PTL

-----------------------------------------------------------------------------
(* Searches return hits of the list, so what is picked and what is sent    *)
(* was announced.                                                          *)

(* The first search that finds a hit.                                      *)
LEMMA FoundIsHit ==
  ASSUME ListInv, NEW Q, NEW searches \in Seq(Q), FirstSearch(searches) > 0
  PROVE  /\ PickHit(searches[FirstSearch(searches)]) \in DOMAIN heap
         /\ heap[PickHit(searches[FirstSearch(searches)])].ann \in Ann
<1> DEFINE found(i) == PickHit(searches[i]) # None
           I == {i \in 1..Len(searches) : found(i)}
           j == FirstSearch(searches)
<1>1. j = IF I # {} THEN Min(I) ELSE 0
  BY DEF FirstSearch, SelectInSeq
<1>2. I \in SUBSET Nat
  OBVIOUS
<1>3. \A i \in I : PickHit(searches[i]) # None
  OBVIOUS
<1> HIDE DEF I, j
<1>4. j \in I
  <2>1. I # {}
    BY <1>1 DEF j
  <2>2. \E x \in I : \A y \in I : x <= y
    BY <1>2, <2>1, LeastNatural
  <2>3. Min(I) \in I
    BY <2>2 DEF Min
  <2> QED BY <1>1, <2>1, <2>3
<1>5. PickHit(searches[j]) # None
  BY <1>3, <1>4
<1>6. FirstNearest(searches[j], Len(List), PickHit(searches[j]))
  BY PickHitNearest
<1>7. \E i \in 1..Len(List) : PickHit(searches[j]) = List[i]
  BY <1>5, <1>6 DEF FirstNearest
<1>8. PickHit(searches[j]) \in DOMAIN heap
  BY <1>7, ListType
<1>9. \A n \in DOMAIN heap : heap[n].ann \in Ann
  BY DEF ListInv, ListOK, Linked, Hit, Ann
<1> QED BY <1>8, <1>9 DEF j

(* The searches are sequences.                                             *)
LEMMA SearchesType ==
  /\ \E Q : SourceSearches \in Seq(Q)
  /\ \A base : \E Q : ClientSearches(base) \in Seq(Q)
<1>1. \E Q : SourceSearches \in Seq(Q)
  <2>1. ASSUME NEW a, NEW b, NEW c, NEW d
        PROVE  <<a, b, c, d>> \in Seq({a, b, c, d})
    OBVIOUS
  <2> QED BY <2>1 DEF SourceSearches
<1>2. ASSUME NEW base PROVE \E Q : ClientSearches(base) \in Seq(Q)
  <2> DEFINE x == [base EXCEPT !.match = ServerHost]
             y == [base EXCEPT !.match = Client.wan]
             l == IF Client.global THEN <<>> ELSE <<x>>
             Q == {x, y, base}
  <2>1. ClientSearches(base) = l \o <<y, base>>
    BY DEF ClientSearches
  <2> HIDE DEF x, y
  <2>2. l \in Seq(Q) /\ <<y, base>> \in Seq(Q)
    <3>1. x \in Q /\ y \in Q /\ base \in Q
      OBVIOUS
    <3> HIDE DEF Q
    <3>2. <<>> \in Seq(Q) /\ <<x>> \in Seq(Q) /\ <<y, base>> \in Seq(Q)
      BY <3>1
    <3>3. l = <<>> \/ l = <<x>>
      OBVIOUS
    <3> HIDE DEF l
    <3> QED BY <3>2, <3>3
  <2> HIDE DEF l, Q
  <2>3. l \o <<y, base>> \in Seq(Q)
    BY <2>2
  <2> QED BY <2>1, <2>3
<1> QED BY <1>1, <1>2

Wans == {a.wan : a \in Ann}

Lans == {a.lan : a \in Ann}

(* What is expected of a session: an address, and since when.              *)
Place == [wan : Wans, lan : Lans, age : 0 .. DeadHitAge]

HostOK == host \in [Sessions -> {None} \cup Place]

SourceOK == source # None => source.ann \in Ann

AnswerOK ==
    /\ answer \in [pc : {"none", "hits", "sent"}, sent : Seq(Ann), push : BOOLEAN]
    /\ Len(answer.sent) <= MaxAnswer
    /\ answer.pc = "hits" => Len(answer.sent) < MaxAnswer

TypeInv == /\ ListInv /\ lock \in Threads \cup {None}
           /\ SourceOK /\ AnswerOK /\ HostOK /\ lost \in BOOLEAN

(* An announcement, or its withdrawal, keeps the histories in type.        *)
LEMMA HostKeeps ==
  ASSUME HostOK
  PROVE  /\ \A a \in Ann, age \in 0 .. DeadHitAge + 1 :
               Announced(a, age) => HostOK'
         /\ \A sids : Withdrawn(sids) => HostOK'
<1>0. DeadHitAge \in Nat
  BY HitsAssumption
<1> DEFINE V == {None} \cup Place
<1>1. \A s \in Sessions : host[s] \in V
  BY DEF HostOK
<1>2. None \in V
  OBVIOUS
<1>3. ASSUME NEW a \in Ann, NEW age \in 0 .. DeadHitAge + 1, Announced(a, age)
      PROVE  HostOK'
  <2> DEFINE r == [wan |-> a.wan, lan |-> a.lan, age |-> age]
  <2>1. age <= DeadHitAge => r \in V
    <3>1. a.wan \in Wans /\ a.lan \in Lans
      BY DEF Wans, Lans
    <3> QED BY <1>0, <3>1 DEF Place
  <2>2. host' = [s \in Sessions |->
                   IF s = a.sid /\ age <= DeadHitAge THEN r
                   ELSE IF s = a.sid \/ (a.sid # None /\ s \in HostsAt(a))
                   THEN None ELSE host[s]]
    BY <1>3 DEF Announced
  <2> HIDE DEF r, V
  <2>3. host' \in [Sessions -> V]
    BY <1>1, <1>2, <2>1, <2>2
  <2> QED BY <2>3 DEF HostOK, V
<1>4. ASSUME NEW sids, Withdrawn(sids)
      PROVE  HostOK'
  <2>1. host' = [s \in Sessions |-> IF s \in sids THEN None ELSE host[s]]
    BY <1>4 DEF Withdrawn
  <2> HIDE DEF V
  <2>2. host' \in [Sessions -> V]
    BY <1>1, <1>2, <2>1
  <2> QED BY <2>2 DEF HostOK, V
<1> QED BY <1>3, <1>4

(* The parts of the type invariant hold at the start ...                   *)
LEMMA TypeInit == Init => TypeInv
<1> SUFFICES ASSUME Init PROVE TypeInv
  OBVIOUS
<1>1. ListInv
  BY ListInit
<1>2. lock \in Threads \cup {None} /\ SourceOK /\ lost \in BOOLEAN
  BY DEF Init, SourceOK
<1>3. HostOK
  BY DEF Init, HostOK
<1>4. AnswerOK
  <2>1. answer = [pc |-> "none", sent |-> <<>>, push |-> FALSE]
    BY DEF Init, NoAnswer
  <2>2. answer.pc = "none" /\ answer.sent = <<>>
    BY <2>1
  <2>3. answer \in [pc : {"none", "hits", "sent"}, sent : Seq(Ann), push : BOOLEAN]
    BY <2>1
  <2>4. Len(answer.sent) = 0 /\ MaxAnswer \in Nat
    BY <2>2, HitsAssumption
  <2> QED BY <2>2, <2>3, <2>4 DEF AnswerOK
<1> QED BY <1>1, <1>2, <1>3, <1>4 DEF TypeInv

(* Each part is kept by the steps that change it.                          *)
LEMMA LockKeeps ==
  ASSUME lock \in Threads \cup {None}, [Next]_vars
  PROVE  lock' \in Threads \cup {None}
<1>0. Conns \subseteq Threads /\ Idle \in Threads
  BY DEF Threads
<1>1. ASSUME NEW t, NEW a, NEW holder, AddHit(t, a, holder)
      PROVE  lock' = lock \/ lock' = holder
  BY <1>1 DEF AddHit
<1>2. ASSUME NEW t \in Conns, NEW a \in Announcements, Announce(t, a)
      PROVE  lock' \in Threads \cup {None}
  BY <1>0, <1>1, <1>2 DEF Announce
<1>3. ASSUME NEW a \in Tips, SourceTip(a)
      PROVE  lock' = lock
  BY <1>1, <1>3 DEF SourceTip
<1>4. ASSUME NEW t \in Threads, Step(t)
      PROVE  lock' = lock \/ lock' = None
  BY <1>4 DEF Step, MakeHit, LinkHit, Locate, Unlink, ScanEnds, Unlock
<1>5. CASE ClearDeadHits
  BY <1>0, <1>5 DEF ClearDeadHits
<1>6. ASSUME NEW t \in Conns, NEW a \in Leaving, DelHit(t, a)
      PROVE  lock' = lock
  BY <1>6 DEF DelHit
<1>7. CASE Tick \/ PickSource \/ SourceEnds \/ SourceFails \/ Refuse \/ SendHit
           \/ SendRest \/ UNCHANGED vars
  BY <1>7 DEF Tick, PickSource, SourceEnds, SourceFails, Refuse, SendHit,
              SendRest, vars
<1> QED BY <1>2, <1>3, <1>4, <1>5, <1>6, <1>7 DEF Next

(* The channel's source is none or the announcement of a hit.              *)
LEMMA SourceKeeps ==
  ASSUME ListInv, SourceOK, [Next]_vars
  PROVE  SourceOK'
<1>1. CASE PickSource
  <2> DEFINE j == FirstSearch(SourceSearches)
             n == PickHit(SourceSearches[j])
  <2>1. j > 0 /\ source' = [ann |-> heap[n].ann, chanID |-> heap[n].chanID]
    BY <1>1 DEF PickSource
  <2>2. heap[n].ann \in Ann
    BY <2>1, FoundIsHit, SearchesType
  <2> HIDE DEF n
  <2>3. source'.ann = heap[n].ann
    BY <2>1
  <2> QED BY <2>2, <2>3 DEF SourceOK
<1>2. ASSUME NEW a \in Tips, SourceTip(a)
      PROVE  SourceOK'
  <2>1. source' = [ann |-> a, chanID |-> FALSE]
    BY <1>2 DEF SourceTip
  <2>2. source'.ann = a
    BY <2>1
  <2> QED BY <2>2 DEF SourceOK, Ann
<1>3. CASE SourceEnds \/ SourceFails
  <2>1. source' = None
    BY <1>3 DEF SourceEnds, SourceFails
  <2> QED BY <2>1 DEF SourceOK
<1>4. CASE UNCHANGED source
  BY <1>4 DEF SourceOK
<1>5. ASSUME NEW t \in Threads, Step(t) PROVE UNCHANGED source
  BY <1>5 DEF Step, MakeHit, LinkHit, Locate, Unlink, ScanEnds
<1>6. ASSUME NEW t, NEW a, Announce(t, a) \/ DelHit(t, a) PROVE UNCHANGED source
  BY <1>6 DEF Announce, DelHit
<1>7. CASE ClearDeadHits \/ Tick \/ Refuse \/ SendHit \/ SendRest \/ UNCHANGED vars
  <2>1. UNCHANGED source
    BY <1>7 DEF ClearDeadHits, Tick, Refuse, SendHit, SendRest, vars
  <2> QED BY <1>4, <2>1
<1> QED BY <1>1, <1>2, <1>3, <1>4, <1>5, <1>6, <1>7 DEF Next

(* What is expected of a host is its last address and its age.             *)
LEMMA HostOKKeeps ==
  ASSUME ListInv, HostOK, [Next]_vars
  PROVE  HostOK'
<1>0. 0 \in 0 .. DeadHitAge + 1 /\ DeadHitAge \in Nat
  BY HitsAssumption
<1>1. ASSUME NEW t, NEW a \in Ann, NEW holder, AddHit(t, a, holder)
      PROVE  HostOK'
  BY <1>0, <1>1, HostKeeps DEF AddHit
<1>2. ASSUME NEW t \in Conns, NEW a \in Announcements, Announce(t, a)
      PROVE  HostOK'
  BY <1>1, <1>2 DEF Announce, Ann
<1>3. ASSUME NEW a \in Tips, SourceTip(a)
      PROVE  HostOK'
  BY <1>1, <1>3 DEF SourceTip, Ann
<1>4. ASSUME NEW t \in Threads, LinkHit(t)
      PROVE  HostOK'
  <2>1. th[t].arg \in Ann /\ th[t].cur \in DOMAIN heap
    BY <1>4 DEF LinkHit, ListInv, ListOK, ThreadOK, Points
  <2>2. heap[th[t].cur].age \in 0 .. DeadHitAge + 1
    BY <2>1 DEF ListInv, ListOK, Linked, Hit
  <2> QED BY <1>4, <2>1, <2>2, HostKeeps DEF LinkHit
<1>5. CASE UNCHANGED host
  BY <1>5 DEF HostOK
<1>6. ASSUME NEW t \in Threads, Unlink(t)
      PROVE  HostOK'
  BY <1>5, <1>6, HostKeeps DEF Unlink
<1>7. ASSUME NEW t \in Threads, MakeHit(t) \/ Locate(t) \/ ScanEnds(t)
      PROVE  UNCHANGED host
  BY <1>7 DEF MakeHit, Locate, ScanEnds, hostVars
<1>8. ASSUME NEW t, NEW a, DelHit(t, a) PROVE UNCHANGED host
  BY <1>8 DEF DelHit, hostVars
<1> DEFINE V == {None} \cup Place
<1>9. CASE Tick
  <2> DEFINE v(s) == IF host[s] = None \/ host[s].age = DeadHitAge THEN None
                     ELSE [host[s] EXCEPT !.age = @ + 1]
  <2>1. host' = [s \in Sessions |-> v(s)]
    BY <1>9 DEF Tick
  <2>2. ASSUME NEW s \in Sessions PROVE v(s) \in V
    <3>1. CASE host[s] = None \/ host[s].age = DeadHitAge
      BY <3>1
    <3>2. CASE host[s] # None /\ host[s].age # DeadHitAge
      <4>1. host[s] \in Place /\ host[s].age + 1 \in 0 .. DeadHitAge
        BY <1>0, <3>2 DEF HostOK, Place
      <4>2. [host[s] EXCEPT !.age = host[s].age + 1] \in Place
        BY <4>1 DEF Place
      <4>3. v(s) = [host[s] EXCEPT !.age = host[s].age + 1]
        BY <3>2
      <4> QED BY <4>2, <4>3
    <3> QED BY <3>1, <3>2
  <2> HIDE DEF v, V
  <2>3. host' \in [Sessions -> V]
    BY <2>1, <2>2
  <2> QED BY <2>3 DEF HostOK, V
<1>10. CASE SourceFails
  BY <1>10, HostKeeps DEF SourceFails
<1>11. CASE ClearDeadHits \/ PickSource \/ SourceEnds \/ Refuse \/ SendHit
            \/ SendRest \/ UNCHANGED vars
  <2>1. UNCHANGED host
    BY <1>11 DEF ClearDeadHits, PickSource, SourceEnds, Refuse, SendHit, SendRest,
                 hostVars, vars
  <2> QED BY <1>5, <2>1
<1>12. ASSUME NEW t \in Threads, Step(t) PROVE HostOK'
  BY <1>4, <1>5, <1>6, <1>7, <1>12 DEF Step
<1>13. ASSUME NEW t \in Conns, NEW a \in Leaving, DelHit(t, a) PROVE HostOK'
  BY <1>5, <1>8, <1>13
<1> HIDE DEF V
<1> QED BY <1>2, <1>3, <1>9, <1>10, <1>11, <1>12, <1>13 DEF Next

(* Only the two writes of a link change the flag of a lost update.         *)
LEMMA LostKeeps ==
  ASSUME lost \in BOOLEAN, [Next]_vars
  PROVE  lost' \in BOOLEAN
<1>1. ASSUME NEW t \in Threads, Step(t) PROVE lost' \in BOOLEAN
  <2>1. CASE LinkHit(t) \/ Unlink(t)
    BY <2>1 DEF LinkHit, Unlink
  <2>2. CASE MakeHit(t) \/ Locate(t) \/ ScanEnds(t)
    BY <2>2 DEF MakeHit, Locate, ScanEnds, hostVars
  <2> QED BY <1>1, <2>1, <2>2 DEF Step
<1>2. ASSUME NEW t, NEW a, Announce(t, a) \/ DelHit(t, a) \/ SourceTip(a)
      PROVE  lost' = lost
  BY <1>2 DEF Announce, DelHit, SourceTip, hostVars
<1>3. CASE ClearDeadHits \/ Tick \/ PickSource \/ SourceEnds \/ SourceFails
           \/ Refuse \/ SendHit \/ SendRest \/ UNCHANGED vars
  BY <1>3 DEF ClearDeadHits, Tick, PickSource, SourceEnds, SourceFails, Refuse,
              SendHit, SendRest, hostVars, vars
<1> QED BY <1>1, <1>2, <1>3 DEF Next

(* Up to MaxAnswer hits go into an answer, a tracker only if there were    *)
(* fewer.                                                                  *)
LEMMA AnswerKeeps ==
  ASSUME ListInv, AnswerOK, [Next]_vars
  PROVE  AnswerOK'
<1> DEFINE A == [pc : {"none", "hits", "sent"}, sent : Seq(Ann), push : BOOLEAN]
<1>0. /\ MaxAnswer \in Nat \ {0} /\ answer \in A /\ Len(answer.sent) \in Nat
      /\ answer.sent \in Seq(Ann)
  BY HitsAssumption DEF AnswerOK
<1>1. CASE UNCHANGED answer
  BY <1>1 DEF AnswerOK
<1>2. CASE Refuse
  <2>1. answer' = [NoAnswer EXCEPT !.pc = "hits"]
    BY <1>2 DEF Refuse
  <2>2. NoAnswer \in A /\ NoAnswer.sent = <<>>
    BY DEF NoAnswer
  <2>3. answer' \in A /\ answer'.sent = <<>>
    <3> HIDE DEF NoAnswer
    <3> QED BY <2>1, <2>2
  <2>4. Len(answer'.sent) = 0
    BY <2>3
  <2> HIDE DEF A
  <2> QED BY <1>0, <2>3, <2>4 DEF AnswerOK, A
<1>3. ASSUME NEW a \in Ann, answer.pc = "hits", NEW pc \in {"hits", "sent"},
             pc = "hits" => Len(answer.sent) + 1 # MaxAnswer,
             answer' = [answer EXCEPT !.sent = Append(answer.sent, a), !.pc = pc]
      PROVE  AnswerOK'
  <2>1. /\ Append(answer.sent, a) \in Seq(Ann)
        /\ Len(Append(answer.sent, a)) = Len(answer.sent) + 1
    BY <1>0
  <2>2. answer' \in A /\ answer'.sent = Append(answer.sent, a) /\ answer'.pc = pc
    BY <1>0, <1>3, <2>1
  <2>3. Len(answer.sent) < MaxAnswer
    BY <1>3 DEF AnswerOK
  <2>4. Len(answer'.sent) = Len(answer.sent) + 1
    BY <2>1, <2>2
  <2> HIDE DEF A
  <2>5. Len(answer'.sent) <= MaxAnswer
    BY <1>0, <2>3, <2>4
  <2>6. answer'.pc = "hits" => Len(answer'.sent) < MaxAnswer
    BY <1>0, <1>3, <2>2, <2>3, <2>4
  <2> QED BY <2>2, <2>5, <2>6 DEF AnswerOK, A
<1>4. ASSUME NEW p \in BOOLEAN, answer' = [answer EXCEPT !.pc = "sent", !.push = p]
      PROVE  AnswerOK'
  <2>1. answer' \in A /\ answer'.sent = answer.sent /\ answer'.pc = "sent"
    BY <1>0, <1>4
  <2> HIDE DEF A
  <2> QED BY <2>1 DEF AnswerOK, A
<1>5. CASE SendHit
  <2> DEFINE j == FirstSearch(HitSearches)
             n == PickHit(HitSearches[j])
             pc == IF Len(answer.sent) + 1 = MaxAnswer THEN "sent" ELSE "hits"
  <2>1. /\ answer.pc = "hits" /\ j > 0
        /\ answer' = [answer EXCEPT
                        !.sent = Append(answer.sent, heap[n].ann),
                        !.pc = IF Len(answer.sent) + 1 = MaxAnswer
                               THEN "sent" ELSE answer.pc]
    BY <1>5 DEF SendHit
  <2>2. heap[n].ann \in Ann
    BY <2>1, FoundIsHit, SearchesType DEF HitSearches
  <2> HIDE DEF n
  <2>3. answer' = [answer EXCEPT !.sent = Append(answer.sent, heap[n].ann), !.pc = pc]
    BY <2>1
  <2>4. pc \in {"hits", "sent"} /\ (pc = "hits" => Len(answer.sent) + 1 # MaxAnswer)
    OBVIOUS
  <2> HIDE DEF pc
  <2> QED BY <1>3, <2>1, <2>2, <2>3, <2>4
<1>6. CASE SendRest
  <2>1. answer.pc = "hits"
    BY <1>6 DEF SendRest
  <2>2. ASSUME NEW chs, PushRequest(chs) PROVE AnswerOK'
    BY <1>4, <2>2 DEF PushRequest
  <2> DEFINE j == FirstSearch(TrackerSearches)
             n == PickHit(TrackerSearches[j])
  <2>3. ASSUME j > 0, answer' = [answer EXCEPT !.pc = "sent",
                                    !.sent = Append(@, heap[n].ann)]
        PROVE  AnswerOK'
    <3>1. heap[n].ann \in Ann
      BY <2>3, FoundIsHit, SearchesType DEF TrackerSearches
    <3> HIDE DEF n
    <3>2. answer' = [answer EXCEPT !.sent = Append(answer.sent, heap[n].ann),
                                   !.pc = "sent"]
      BY <1>0, <2>3
    <3> QED BY <1>3, <2>1, <3>1, <3>2
  <2>4. ASSUME answer' = [answer EXCEPT !.pc = "sent"] PROVE AnswerOK'
    <3>1. answer' \in A /\ answer'.sent = answer.sent /\ answer'.pc = "sent"
      BY <1>0, <2>4
    <3> HIDE DEF A
    <3> QED BY <3>1 DEF AnswerOK, A
  <2> HIDE DEF n
  <2> QED BY <1>6, <2>2, <2>3, <2>4 DEF SendRest, n
<1>7. ASSUME NEW t \in Threads, Step(t) PROVE UNCHANGED answer
  BY <1>7 DEF Step, MakeHit, LinkHit, Locate, Unlink, ScanEnds
<1>8. ASSUME NEW t, NEW a, Announce(t, a) \/ DelHit(t, a) \/ SourceTip(a)
      PROVE  UNCHANGED answer
  BY <1>8 DEF Announce, DelHit, SourceTip
<1>9. CASE ClearDeadHits \/ Tick \/ PickSource \/ SourceEnds \/ SourceFails
           \/ UNCHANGED vars
  <2>1. UNCHANGED answer
    BY <1>9 DEF ClearDeadHits, Tick, PickSource, SourceEnds, SourceFails, vars
  <2> QED BY <1>1, <2>1
<1> HIDE DEF A
<1> QED BY <1>1, <1>2, <1>5, <1>6, <1>7, <1>8, <1>9 DEF Next

(* ... and every step keeps them.                                          *)
LEMMA TypeNext == TypeInv /\ [Next]_vars => TypeInv'
  BY ListNext, LockKeeps, SourceKeeps, AnswerKeeps, HostOKKeeps, LostKeeps DEF TypeInv

(* Every pointer, of the list, of a hit or of a thread, leads to an object *)
(* that is still there, in every interleaving of the unlocked changes: the *)
(* removed hits that a thread stands on are held.  An answer has at most   *)
(* MaxAnswer hits, and what is picked or sent was announced.               *)
THEOREM TypeCorrect == Spec => []TypeOK
<1>1. Init => TypeInv
  BY TypeInit
<1>2. TypeInv /\ [Next]_vars => TypeInv'
  BY TypeNext
<1>3. TypeInv => TypeOK
  <2> SUFFICES ASSUME TypeInv PROVE TypeOK
    OBVIOUS
  <2>1. /\ DOMAIN heap \subseteq Nodes /\ \A n \in DOMAIN heap : heap[n] \in Hit
        /\ head \in DOMAIN heap \cup {None}
    BY DEF TypeInv, ListInv, ListOK, Linked, Points
  <2>2. ASSUME NEW t \in Threads
        PROVE  /\ th[t].pc \in {"rest", "add", "link", "session", "del", "clear"}
               /\ {th[t].cur, th[t].prev, th[t].next} \subseteq DOMAIN heap \cup {None}
    BY DEF TypeInv, ListInv, ListOK, ThreadOK, ThreadState, Points
  <2>3. lock \in Threads \cup {None}
        /\ (source # None => source.ann \in Announcements \cup Tips)
    BY DEF TypeInv, SourceOK, Ann
  <2>4. answer.pc \in {"none", "hits", "sent"} /\ Len(answer.sent) <= MaxAnswer
    BY DEF TypeInv, AnswerOK
  <2>5. \A s \in Sessions : host[s] = None \/ host[s].age \in 0 .. DeadHitAge
    BY DEF TypeInv, HostOK, Place
  <2>6. lost \in BOOLEAN
    BY DEF TypeInv
  <2> QED BY <2>1, <2>2, <2>3, <2>4, <2>5, <2>6 DEF TypeOK
<1> QED BY <1>1, <1>2, <1>3, PTL DEF Spec

-----------------------------------------------------------------------------
(* A search that goes through the list misses no hit that the head leads   *)
(* to: since the ranks go down no hit comes twice, so the loop has seen    *)
(* all there are when it has made as many rounds as there can be hits.     *)

(* s is the beginning of the list, all of it or k hits long.               *)
Beginning(rank, k, s) ==
    /\ s \in Seq(DOMAIN heap)
    /\ \A i, j \in 1..Len(s) : i < j => rank[s[j]] < rank[s[i]]
    /\ s # <<>> => s[1] = head
    /\ \A i \in 1..Len(s) : i # Len(s) => heap[s[i]].next = s[i + 1]
    /\ Len(s) = k \/ After(heap, head, s) = None

(* One more hit of the list, or the end of it.                             *)
LEMMA BeginningGrows ==
  ASSUME ListInv, NEW rank \in [DOMAIN heap -> Nat], Descends(heap, th, rank),
         NEW k \in Nat, NEW s, Beginning(rank, k, s)
  PROVE  Beginning(rank, k + 1, More(heap, head, s))
<1> DEFINE m == After(heap, head, s)
           N == Len(s)
<1>0. Linked(heap) /\ Points(heap, head) /\ s \in Seq(DOMAIN heap)
  BY DEF ListInv, ListOK, Beginning
<1>1. m \in DOMAIN heap \cup {None} /\ More(heap, head, s) \in Seq(DOMAIN heap)
  BY <1>0, MoreType
<1>2. N \in Nat /\ \A i \in 1..N : s[i] \in DOMAIN heap
  BY <1>0
<1>3. CASE m = None
  <2>1. More(heap, head, s) = s
    BY <1>3 DEF More
  <2> QED BY <1>3, <2>1 DEF Beginning
<1>4. CASE m # None
  <2> DEFINE r == Append(s, m)
  <2>1. More(heap, head, s) = r /\ m \in DOMAIN heap
    BY <1>1, <1>4 DEF More
  <2>2. N = k
    BY <1>4 DEF Beginning
  <2> HIDE DEF m
  <2>3. /\ Len(r) = N + 1 /\ r[N + 1] = m /\ r # <<>>
        /\ \A i \in 1..N : r[i] = s[i]
    BY <1>0, <2>1
  <2> HIDE DEF r
  <2>4. CASE N = 0
    <3>1. s = <<>> /\ m = head
      <4>1. s = <<>>
        BY <1>0, <2>4
      <4> QED BY <4>1 DEF After, m
    <3>2. \A i \in 1..Len(r) : i = 1
      BY <2>3, <2>4
    <3> HIDE DEF N
    <3> QED BY <1>1, <2>1, <2>2, <2>3, <2>4, <3>1, <3>2 DEF Beginning
  <2>5. CASE N # 0
    <3>1. s # <<>> /\ N \in 1..N /\ 1 \in 1..N /\ heap[s[N]].next = m
      <4>1. s # <<>> /\ N \in 1..N /\ 1 \in 1..N
        BY <1>0, <1>2, <2>5
      <4> QED BY <4>1 DEF After, Last, m
    <3>2. rank[m] < rank[s[N]] /\ rank[m] \in Nat
          /\ \A i \in 1..N : rank[s[i]] \in Nat
      BY <1>2, <1>4, <2>1, <3>1 DEF Descends, m
    <3>3. \A i \in 1..N : rank[m] < rank[s[i]]
      <4> TAKE i \in 1..N
      <4>1. CASE i = N
        BY <3>2, <4>1
      <4>2. CASE i # N
        <5>1. i < N /\ i \in 1..N
          BY <1>2, <4>2
        <5>2. rank[s[N]] < rank[s[i]]
          BY <3>1, <5>1 DEF Beginning
        <5>3. rank[s[i]] \in Nat /\ rank[s[N]] \in Nat
          BY <3>1, <3>2
        <5> QED BY <3>2, <5>2, <5>3
      <4> QED BY <4>1, <4>2
    <3>4. ASSUME NEW i \in 1..Len(r), NEW j \in 1..Len(r), i < j
          PROVE  rank[r[j]] < rank[r[i]]
      <4>1. i \in 1..N
        BY <1>2, <2>3, <3>4
      <4>2. CASE j = N + 1
        BY <2>3, <3>3, <4>1, <4>2
      <4>3. CASE j # N + 1
        <5>1. j \in 1..N
          BY <1>2, <2>3, <4>3
        <5> QED BY <2>3, <3>4, <4>1, <5>1 DEF Beginning
      <4> QED BY <4>2, <4>3
    <3>5. ASSUME NEW i \in 1..Len(r), i # Len(r)
          PROVE  heap[r[i]].next = r[i + 1]
      <4>1. i \in 1..N
        BY <1>2, <2>3, <3>5
      <4>2. CASE i = N
        BY <2>3, <3>1, <4>1, <4>2
      <4>3. CASE i # N
        <5>1. i + 1 \in 1..N
          BY <1>2, <4>1, <4>3
        <5> QED BY <2>3, <4>1, <4>3, <5>1 DEF Beginning
      <4> QED BY <4>2, <4>3
    <3>6. r[1] = head
      BY <2>3, <3>1 DEF Beginning
    <3> HIDE DEF N
    <3> QED BY <1>1, <2>1, <2>2, <2>3, <3>4, <3>5, <3>6 DEF Beginning
  <2> QED BY <2>4, <2>5
<1> QED BY <1>3, <1>4

(* The loops over the list pass every hit that the head leads to.          *)
LEMMA ListedIsSearched ==
  ASSUME ListInv, NEW n \in Listed
  PROVE  \E k \in 1..Len(List) : List[k] = n
<1> DEFINE C == Cardinality(Nodes)
           S == {List[k] : k \in 1..Len(List)}
<1>0. Linked(heap) /\ Points(heap, head)
  BY DEF ListInv, ListOK
<1>1. PICK rank \in [DOMAIN heap -> Nat] : Descends(heap, th, rank)
  BY DEF ListInv, ListOK, Ranked
<1>2. C \in Nat /\ IsFiniteSet(Nodes)
  BY <1>0, ChainRounds, HitsAssumption
<1>3. PICK U : /\ Chain(heap, head) = U[C]
               /\ \A k \in 0..C : /\ U[k] \in Seq(DOMAIN heap)
                                  /\ U[k] = IF k = 0 THEN <<>>
                                            ELSE More(heap, head, U[k - 1])
  BY <1>0, ChainRounds
<1>4. Beginning(rank, C, List)
  <2> DEFINE Bad == {k \in 0..C : ~ Beginning(rank, k, U[k])}
  <2>1. ASSUME Bad # {} PROVE FALSE
    <3>1. PICK k \in Bad : \A j \in Bad : k <= j
      <4>1. Bad \in SUBSET Nat
        OBVIOUS
      <4> HIDE DEF Bad
      <4> QED BY <2>1, <4>1, LeastNatural
    <3>2. k \in 0..C /\ ~ Beginning(rank, k, U[k])
      OBVIOUS
    <3>3. k # 0
      <4>1. ASSUME k = 0 PROVE FALSE
        <5>1. U[k] = <<>>
          BY <1>3, <3>2, <4>1
        <5>2. U[k] \in Seq(DOMAIN heap) /\ Len(U[k]) = 0 /\ 1..0 = {}
          BY <1>3, <3>2, <5>1
        <5> QED BY <3>2, <4>1, <5>1, <5>2 DEF Beginning
      <4> QED BY <4>1
    <3>4. k - 1 \in 0..C /\ ~(k <= k - 1) /\ k - 1 \in Nat /\ (k - 1) + 1 = k
      BY <1>2, <3>2, <3>3
    <3>5. Beginning(rank, k - 1, U[k - 1])
      BY <3>1, <3>4
    <3>6. U[k] = More(heap, head, U[k - 1])
      BY <1>3, <3>2, <3>3
    <3> HIDE DEF Bad
    <3>7. Beginning(rank, (k - 1) + 1, More(heap, head, U[k - 1]))
      BY <1>1, <3>4, <3>5, BeginningGrows
    <3> QED BY <3>2, <3>4, <3>6, <3>7
  <2>2. C \in 0..C
    BY <1>2
  <2>3. C \notin Bad
    <3> HIDE DEF Bad
    <3> QED BY <2>1
  <2>4. Beginning(rank, C, U[C])
    BY <2>2, <2>3
  <2> QED BY <1>3, <2>4 DEF List
<1> HIDE DEF C
<1>5. /\ List \in Seq(DOMAIN heap) /\ Len(List) \in Nat
      /\ \A k \in 1..Len(List) : List[k] \in DOMAIN heap
  BY ListType
<1>6. n \in DOMAIN heap
  BY Predecessor
<1>7. CASE Len(List) = C
  <2>1. \A i, j \in 1..C : i # j => List[i] # List[j]
    <3> TAKE i, j \in 1..C
    <3> HAVE i # j
    <3>1. rank[List[i]] \in Nat /\ rank[List[j]] \in Nat
      BY <1>5, <1>7
    <3>2. CASE i < j
      BY <1>4, <1>7, <3>1, <3>2 DEF Beginning
    <3>3. CASE j < i
      BY <1>4, <1>7, <3>1, <3>3 DEF Beginning
    <3> QED BY <1>2, <3>2, <3>3
  <2>2. DOMAIN heap \subseteq Nodes
    BY <1>0 DEF Linked
  <2>3. List \in [1..C -> Nodes]
    BY <1>5, <1>7, <2>2
  <2>4. List \in Injection(1..C, Nodes)
    BY <2>1, <2>3 DEF Injection, IsInjective
  <2>5. Cardinality(1..C) = Cardinality(Nodes)
    BY <1>2, FS_Interval DEF C
  <2>6. List \in Surjection(1..C, Nodes)
    BY <1>2, <2>4, <2>5, FS_Injection
  <2>7. \E k \in 1..C : List[k] = n
    BY <1>6, <2>2, <2>6 DEF Surjection
  <2> QED BY <1>7, <2>7
<1>8. CASE After(heap, head, List) = None
  <2>1. S \in SUBSET DOMAIN heap
    BY <1>5
  <2>2. {head} \subseteq S \cup {None}
    <3>1. CASE List = <<>>
      BY <1>8, <3>1 DEF After
    <3>2. CASE List # <<>>
      <4>1. 1 \in 1..Len(List)
        BY <1>5, <3>2
      <4> QED BY <1>4, <3>2, <4>1 DEF Beginning
    <3> QED BY <3>1, <3>2
  <2>3. ASSUME NEW m \in S PROVE heap[m].next \in S \cup {None}
    <3>1. PICK k \in 1..Len(List) : m = List[k]
      OBVIOUS
    <3>2. CASE k = Len(List)
      <4>1. List # <<>>
        BY <1>5, <3>1
      <4>2. heap[m].next = None
        BY <1>8, <3>1, <3>2, <4>1 DEF After, Last
      <4> QED BY <4>2
    <3>3. CASE k # Len(List)
      <4>1. k + 1 \in 1..Len(List)
        BY <1>5, <3>3
      <4>2. heap[m].next = List[k + 1]
        BY <1>4, <3>1, <3>3 DEF Beginning
      <4> QED BY <4>1, <4>2
    <3> QED BY <3>2, <3>3
  <2>4. \A T \in SUBSET DOMAIN heap :
          ({head} \subseteq T \cup {None} /\ \A m \in T : heap[m].next \in T \cup {None})
            => n \in T
    BY DEF Listed, Reachable
  <2>5. n \in S
    <3> HIDE DEF S
    <3> QED BY <2>1, <2>2, <2>3, <2>4
  <2> QED BY <2>5
<1> QED BY <1>4, <1>7, <1>8 DEF Beginning

(* A hit that is sent leaves the answer not empty.                          *)
LEMMA AppendNotEmpty ==
  ASSUME NEW S, NEW s \in Seq(S), NEW a \in S
  PROVE  Append(s, a) # <<>>
<1>1. Len(Append(s, a)) = Len(s) + 1 /\ Len(s) \in Nat
  OBVIOUS
<1>2. Len(<<>>) = 0
  OBVIOUS
<1> QED BY <1>1, <1>2

(* The search for a tracker that comes last when a client is refused.      *)
LEMMA LastTrackerSearch ==
  ASSUME ListInv, FirstSearch(TrackerSearches) = 0
  PROVE  \E chs : /\ PickHit(chs) = None
                 /\ chs.match = None /\ chs.wait = 0 /\ chs.firewalled = FALSE
                 /\ chs.trackers = TRUE /\ chs.exclude = Client.sid
<1> DEFINE base == [Excluding(AnySearch) EXCEPT !.trackers = TRUE]
           x == [base EXCEPT !.match = ServerHost]
           y == [base EXCEPT !.match = Client.wan]
           l == IF Client.global THEN <<>> ELSE <<x>>
           Q == {x, y, base}
           s == TrackerSearches
           found(i) == PickHit(s[i]) # None
           I == {i \in 1..Len(s) : found(i)}
<1>1. s = l \o <<y, base>>
  BY DEF TrackerSearches, ClientSearches
<1>2. FirstSearch(s) = IF I # {} THEN Min(I) ELSE 0
  BY DEF FirstSearch, SelectInSeq
<1>3. /\ AnySearch.match = None /\ AnySearch.wait = 0
      /\ AnySearch.firewalled = FALSE
      /\ DOMAIN AnySearch = {"match", "wait", "firewalled", "trackers", "exclude"}
  BY DEF AnySearch
<1>4. /\ base.match = None /\ base.wait = 0 /\ base.firewalled = FALSE
      /\ base.trackers = TRUE /\ base.exclude = Client.sid
  <2> DEFINE b0 == Excluding(AnySearch)
  <2>1. b0 = [AnySearch EXCEPT !.exclude = Client.sid]
    BY DEF Excluding
  <2>2. base = [b0 EXCEPT !.trackers = TRUE]
    OBVIOUS
  <2> HIDE DEF b0, base
  <2>3. /\ b0.match = None /\ b0.wait = 0 /\ b0.firewalled = FALSE
        /\ b0.exclude = Client.sid
        /\ DOMAIN b0 = {"match", "wait", "firewalled", "trackers", "exclude"}
    BY <1>3, <2>1
  <2> QED BY <2>2, <2>3
<1> HIDE DEF base, x, y, s
<1>5. Len(s) \in 1..Len(s) /\ s[Len(s)] = base
  <2>1. l = <<>> \/ l = <<x>>
    OBVIOUS
  <2>2. x \in Q /\ y \in Q /\ base \in Q
    OBVIOUS
  <2> HIDE DEF l, Q
  <2>3. l \in Seq(Q) /\ <<y, base>> \in Seq(Q) /\ Len(l) \in Nat
    <3>1. <<>> \in Seq(Q) /\ <<x>> \in Seq(Q) /\ <<y, base>> \in Seq(Q)
      BY <2>2
    <3>2. l \in Seq(Q)
      BY <2>1, <3>1
    <3> QED BY <3>1, <3>2
  <2>4. Len(s) = Len(l) + 2 /\ s[Len(l) + 2] = base
    BY <1>1, <2>3
  <2> QED BY <2>3, <2>4
<1>6. I = {}
  <2>1. ASSUME I # {} PROVE FALSE
    <3>1. I \in SUBSET Nat /\ \A i \in I : i >= 1
      OBVIOUS
    <3> HIDE DEF I
    <3>2. \E a \in I : \A b \in I : a <= b
      BY <2>1, <3>1, LeastNatural
    <3>3. Min(I) \in I
      BY <3>2 DEF Min
    <3>4. Min(I) = 0
      BY <1>2, <2>1 DEF s
    <3> QED BY <3>1, <3>3, <3>4
  <2> QED BY <2>1
<1>7. PickHit(base) = None
  BY <1>5, <1>6
<1> QED BY <1>4, <1>7

(* A client is refused with nothing only if no tracker is known that it    *)
(* could connect to: the answer falls through to the search for trackers,  *)
(* which looks at no time of contact and misses no hit of the list.        *)
THEOREM RefusedIsAlwaysHelped == Spec => RefusedIsHelped
<1>1. TypeInv /\ [Next]_vars =>
        [(answer.pc = "hits" /\ answer'.pc = "sent"
          /\ answer'.sent = <<>> /\ ~answer'.push) =>
           \A n \in Listed : \/ heap[n].dead \/ heap[n].ann.firewalled
                             \/ ~heap[n].ann.tracker
                             \/ heap[n].ann.sid = Client.sid
                             \/ heap[n].ann.hops >= 255]_vars
  <2> DEFINE Empty == /\ answer.pc = "hits" /\ answer'.pc = "sent"
                      /\ answer'.sent = <<>> /\ ~answer'.push
  <2> SUFFICES ASSUME TypeInv, Next, Empty, NEW n \in Listed,
                      ~ heap[n].dead, ~ heap[n].ann.firewalled,
                      heap[n].ann.tracker, heap[n].ann.sid # Client.sid
               PROVE  heap[n].ann.hops >= 255
    OBVIOUS
  <2>0. ListInv /\ AnswerOK
    BY DEF TypeInv
  <2>1. FirstSearch(TrackerSearches) = 0
    <3>1. answer' # answer
      OBVIOUS
    <3>2. ~ Refuse
      BY DEF Refuse
    <3>3. ~ SendHit
      <4>1. ASSUME SendHit PROVE FALSE
        <5> DEFINE a == heap[PickHit(HitSearches[FirstSearch(HitSearches)])].ann
                   pc == IF Len(answer.sent) + 1 = MaxAnswer THEN "sent" ELSE answer.pc
        <5>1. answer' = [answer EXCEPT !.sent = Append(answer.sent, a), !.pc = pc]
          BY <4>1 DEF SendHit
        <5> HIDE DEF a, pc
        <5>2. answer'.sent = Append(answer.sent, a)
          BY <2>0, <5>1 DEF AnswerOK
        <5>3. a \in Ann
          BY <2>0, <4>1, FoundIsHit, SearchesType DEF SendHit, HitSearches, a
        <5>4. Append(answer.sent, a) # <<>>
          BY <2>0, <5>3, AppendNotEmpty DEF AnswerOK
        <5> QED BY <5>2, <5>4
      <4> QED BY <4>1
    <3>4. SendRest
      <4>1. \A t \in Threads : Step(t) => UNCHANGED answer
        BY DEF Step, MakeHit, LinkHit, Locate, Unlink, ScanEnds
      <4>2. \A t, a : Announce(t, a) \/ DelHit(t, a) \/ SourceTip(a) => UNCHANGED answer
        BY DEF Announce, DelHit, SourceTip
      <4>3. ClearDeadHits \/ Tick \/ PickSource \/ SourceEnds \/ SourceFails
              => UNCHANGED answer
        BY DEF ClearDeadHits, Tick, PickSource, SourceEnds, SourceFails
      <4> HIDE DEF Empty
      <4> QED BY <3>1, <3>2, <3>3, <4>1, <4>2, <4>3 DEF Next
    <3>5. \A chs : ~ PushRequest(chs)
      <4>1. ASSUME NEW chs, PushRequest(chs) PROVE FALSE
        <5>1. answer' = [answer EXCEPT !.pc = "sent", !.push = TRUE]
          BY <4>1 DEF PushRequest
        <5>2. answer'.push = TRUE
          BY <2>0, <5>1 DEF AnswerOK
        <5> QED BY <5>2
      <4> QED BY <4>1
    <3> DEFINE j == FirstSearch(TrackerSearches)
               a == heap[PickHit(TrackerSearches[j])].ann
    <3>6. ASSUME j > 0, answer' = [answer EXCEPT !.pc = "sent", !.sent = Append(@, a)]
          PROVE  FALSE
      <4>1. a \in Ann
        BY <2>0, <3>6, FoundIsHit, SearchesType DEF TrackerSearches
      <4> HIDE DEF a
      <4>2. answer'.sent = Append(answer.sent, a)
        BY <2>0, <3>6 DEF AnswerOK
      <4>3. Append(answer.sent, a) # <<>>
        BY <2>0, <4>1, AppendNotEmpty DEF AnswerOK
      <4> QED BY <4>2, <4>3
    <3> HIDE DEF Empty
    <3> QED BY <3>4, <3>5, <3>6 DEF SendRest
  <2>2. PICK chs : /\ PickHit(chs) = None
                   /\ chs.match = None /\ chs.wait = 0 /\ chs.firewalled = FALSE
                   /\ chs.trackers = TRUE /\ chs.exclude = Client.sid
    BY <2>0, <2>1, LastTrackerSearch
  <2>3. PICK k \in 1..Len(List) : List[k] = n
    BY <2>0, ListedIsSearched
  <2>4. ~ Eligible(n, chs)
    <3>1. FirstNearest(chs, Len(List), None)
      BY <2>0, <2>2, PickHitNearest
    <3>2. \A i \in 1..Len(List) : List[i] # None
      BY <2>0, ListType
    <3> QED BY <2>3, <3>1, <3>2 DEF FirstNearest
  <2>5. /\ heap[n].ann.hops \in Nat /\ heap[n].ann.tracker \in BOOLEAN
        /\ heap[n].ann.firewalled \in BOOLEAN
    <3>1. heap[n].ann \in Ann
      BY <2>0, Predecessor DEF ListInv, ListOK, Linked, Hit, Ann
    <3> QED BY <3>1, HitsAssumption DEF Ann
  <2>6. heap[n].ann.tracker = chs.trackers /\ heap[n].ann.firewalled = chs.firewalled
    BY <2>2, <2>5
  <2>7. ~(heap[n].ann.hops < 255)
    BY <2>2, <2>4, <2>6 DEF Eligible
  <2> QED BY <2>5, <2>7
<1>2. Init => TypeInv
  BY TypeInit
<1>3. TypeInv /\ [Next]_vars => TypeInv'
  BY TypeNext
<1> QED BY <1>1, <1>2, <1>3, PTL DEF Spec, RefusedIsHelped
-----------------------------------------------------------------------------
(* What announcements leave on the list.  The links that threads write     *)
(* change what the head leads to by one hit at a time, unless an update is *)
(* lost; and nobody but its thread knows of a hit that is not linked yet.  *)

(* What the pointers in roots lead to is in every set S that holds the     *)
(* roots and the successors of its members.                                *)
Shut(h, roots, S) ==
    /\ roots \subseteq S \cup {None}
    /\ \A m \in S : h[m].next \in S \cup {None}

(* Reachable is the least such set.                                        *)
LEMMA ReachableLeast ==
  ASSUME NEW h, NEW roots, NEW S \in SUBSET DOMAIN h, Shut(h, roots, S)
  PROVE  Reachable(h, roots) \subseteq S
  BY DEF Reachable, Shut

(* What is in every such set is reachable.                                 *)
LEMMA ReachableIn ==
  ASSUME NEW h, NEW roots, NEW n \in DOMAIN h,
         \A S \in SUBSET DOMAIN h : Shut(h, roots, S) => n \in S
  PROVE  n \in Reachable(h, roots)
  BY DEF Reachable, Shut

(* Reachable is itself such a set.                                         *)
LEMMA ReachableShut ==
  ASSUME NEW h, NEW roots, Linked(h), roots \subseteq DOMAIN h \cup {None}
  PROVE  /\ Reachable(h, roots) \in SUBSET DOMAIN h
         /\ Shut(h, roots, Reachable(h, roots))
  BY ReachableFacts DEF Shut

(* Only links matter to what is on the list.                               *)
LEMMA SameLinksListed ==
  ASSUME NEW h, NEW k, NEW roots, DOMAIN k = DOMAIN h,
         \A n \in DOMAIN h : k[n].next = h[n].next
  PROVE  Reachable(k, roots) = Reachable(h, roots)
<1>1. \A S \in SUBSET DOMAIN h : Shut(h, roots, S) <=> Shut(k, roots, S)
  BY DEF Shut
<1>2. ASSUME NEW n \in Reachable(h, roots) PROVE n \in Reachable(k, roots)
  <2>1. n \in DOMAIN h /\ \A S \in SUBSET DOMAIN h : Shut(h, roots, S) => n \in S
    BY DEF Reachable, Shut
  <2> QED BY <1>1, <2>1, ReachableIn
<1>3. ASSUME NEW n \in Reachable(k, roots) PROVE n \in Reachable(h, roots)
  <2>1. n \in DOMAIN h /\ \A S \in SUBSET DOMAIN h : Shut(k, roots, S) => n \in S
    BY DEF Reachable, Shut
  <2> QED BY <1>1, <2>1, ReachableIn
<1> QED BY <1>2, <1>3

(* The hits g, of the hits h, are those on the list and those that threads *)
(* point at.                                                               *)
Keeps(h, hd, t, g) ==
    /\ Reachable(g, {hd}) = Reachable(h, {hd})
    /\ DOMAIN g \subseteq DOMAIN h
    /\ \A n \in DOMAIN g : g[n] = h[n]
    /\ Reachable(h, {hd}) \subseteq DOMAIN g
    /\ \A x \in Threads : {t[x].cur, t[x].prev, t[x].next}
                            \subseteq DOMAIN g \cup {None}

(* Deleting the objects that nothing points at takes nothing off the list, *)
(* and nothing that a thread points at.                                    *)
LEMMA HeldListed ==
  ASSUME NEW h, NEW hd, NEW t, ListOK(h, hd, t)
  PROVE  Keeps(h, hd, t, Held(h, hd, t))
<1> DEFINE ptr(x) == {t[x].cur, t[x].prev, t[x].next}
           roots == {hd} \cup UNION {ptr(x) : x \in Threads}
           R == Reachable(h, roots)
           L == Reachable(h, {hd})
           k == [n \in R |-> h[n]]
           M == Reachable(k, {hd})
<1>1. Held(h, hd, t) = k
  BY DEF Held
<1>2. roots \subseteq DOMAIN h \cup {None} /\ {hd} \subseteq DOMAIN h \cup {None}
  BY DEF ListOK, ThreadOK, Points
<1>3. {hd} \subseteq roots /\ \A x \in Threads : ptr(x) \subseteq roots
  OBVIOUS
<1> HIDE DEF roots
<1>4. R \in SUBSET DOMAIN h /\ Shut(h, roots, R)
  BY <1>2, ReachableShut DEF ListOK
<1>5. L \in SUBSET DOMAIN h /\ Shut(h, {hd}, L)
  BY <1>2, ReachableShut DEF ListOK
<1> HIDE DEF R
<1>6. DOMAIN k = R /\ \A n \in R : k[n] = h[n]
  OBVIOUS
<1> HIDE DEF k
<1>7. Shut(h, {hd}, R)
  BY <1>3, <1>4 DEF Shut
<1>8. L \subseteq R
  BY <1>4, <1>7, ReachableLeast
<1>9. M \subseteq L
  <2>1. Shut(k, {hd}, L)
    BY <1>5, <1>6, <1>8 DEF Shut
  <2> QED BY <1>6, <1>8, <2>1, ReachableLeast
<1>10. ASSUME NEW n \in L PROVE n \in M
  <2>1. ASSUME NEW S \in SUBSET DOMAIN k, Shut(k, {hd}, S) PROVE n \in S
    <3>1. S \in SUBSET DOMAIN h
      BY <1>4, <1>6
    <3>2. Shut(h, {hd}, S)
      BY <1>6, <2>1 DEF Shut
    <3> QED BY <3>1, <3>2, ReachableLeast
  <2>2. n \in DOMAIN k
    BY <1>6, <1>8
  <2> QED BY <2>1, <2>2, ReachableIn
<1>11. \A x \in Threads : ptr(x) \subseteq R \cup {None}
  BY <1>3, <1>4 DEF Shut
<1> HIDE DEF L, M
<1>12. M = L
  BY <1>9, <1>10
<1>13. Keeps(h, hd, t, k)
  BY <1>4, <1>6, <1>8, <1>11, <1>12 DEF Keeps, L, M
<1> QED BY <1>1, <1>13

(* A hit put in front of the list is on it, with all that was.             *)
LEMMA FrontListed ==
  ASSUME NEW h, NEW hd, Linked(h), Points(h, hd), NEW c \in DOMAIN h,
         h[c].next = hd
  PROVE  Reachable(h, {c}) = Reachable(h, {hd}) \cup {c}
<1> DEFINE L == Reachable(h, {hd})
           M == Reachable(h, {c})
<1>1. L \in SUBSET DOMAIN h /\ Shut(h, {hd}, L)
  BY ReachableShut DEF Points
<1>2. M \in SUBSET DOMAIN h /\ Shut(h, {c}, M)
  BY ReachableShut
<1> HIDE DEF L, M
<1>3. M \subseteq L \cup {c}
  <2>1. Shut(h, {c}, L \cup {c})
    BY <1>1 DEF Shut
  <2>2. L \cup {c} \in SUBSET DOMAIN h
    BY <1>1
  <2> QED BY <2>1, <2>2, ReachableLeast DEF M
<1>4. c \in M
  BY <1>2, HitsAssumption DEF Shut, Linked
<1>5. L \subseteq M
  <2>1. Shut(h, {hd}, M)
    BY <1>2, <1>4 DEF Shut
  <2> QED BY <1>2, <2>1, ReachableLeast DEF L
<1> QED BY <1>3, <1>4, <1>5 DEF L, M

(* A new object is not on the list before the head leads to it.            *)
LEMMA MadeListed ==
  ASSUME NEW h, NEW hd, Linked(h), Points(h, hd), NEW n, n \notin DOMAIN h,
         NEW k, DOMAIN k = DOMAIN h \cup {n}, \A m \in DOMAIN h : k[m] = h[m]
  PROVE  Reachable(k, {hd}) = Reachable(h, {hd})
<1> DEFINE L == Reachable(h, {hd})
           M == Reachable(k, {hd})
<1>1. L \in SUBSET DOMAIN h /\ Shut(h, {hd}, L)
  BY ReachableShut DEF Points
<1> HIDE DEF L, M
<1>2. M \subseteq L
  <2>1. L \in SUBSET DOMAIN k
    BY <1>1
  <2>2. Shut(k, {hd}, L)
    BY <1>1 DEF Shut
  <2> QED BY <2>1, <2>2, ReachableLeast DEF M
<1>3. ASSUME NEW m \in L PROVE m \in M
  <2>1. ASSUME NEW S \in SUBSET DOMAIN k, Shut(k, {hd}, S) PROVE m \in S
    <3> DEFINE T == S \cap DOMAIN h
    <3>1. T \in SUBSET DOMAIN h
      OBVIOUS
    <3>2. Shut(h, {hd}, T)
      BY <2>1 DEF Shut, Linked, Points
    <3>3. L \subseteq T
      <4> HIDE DEF T
      <4> QED BY <3>1, <3>2, ReachableLeast DEF L
    <3> QED BY <3>3
  <2>2. m \in DOMAIN k
    BY <1>1
  <2> QED BY <2>1, <2>2, ReachableIn DEF M
<1> QED BY <1>2, <1>3 DEF L, M

(* A list loses c at most, and gains nothing.                              *)
LosesOne(h, hd, c, k, kd) ==
    /\ Reachable(k, {kd}) \subseteq Reachable(h, {hd})
    /\ Reachable(h, {hd}) \ {c} \subseteq Reachable(k, {kd})

(* The one link that deleteHit writes takes the one hit off.               *)
LEMMA CutListed ==
  ASSUME NEW h, NEW hd, Linked(h), Points(h, hd),
         NEW c \in Reachable(h, {hd}), NEW p, NEW k, DOMAIN k = DOMAIN h,
         hd # c => /\ p \in Reachable(h, {hd}) /\ h[p].next = c
                   /\ k[p].next = h[c].next,
         \A m \in DOMAIN h : (hd = c \/ m # p) => k[m].next = h[m].next,
         NEW kd, kd = IF hd = c THEN h[c].next ELSE hd
  PROVE  LosesOne(h, hd, c, k, kd)
<1> DEFINE L == Reachable(h, {hd})
           M == Reachable(k, {kd})
<1>1. L \in SUBSET DOMAIN h /\ Shut(h, {hd}, L)
  BY ReachableShut DEF Points
<1>2. c \in L
  OBVIOUS
<1>3. hd # c => p \in L
  OBVIOUS
<1> HIDE DEF L, M
<1>4. M \subseteq L
  <2>1. Shut(k, {kd}, L)
    <3>1. kd \in L \cup {None}
      BY <1>1, <1>2 DEF Shut
    <3>2. ASSUME NEW m \in L PROVE k[m].next \in L \cup {None}
      <4>1. CASE hd = c \/ m # p
        BY <1>1, <4>1 DEF Shut
      <4>2. CASE hd # c /\ m = p
        BY <1>1, <1>2, <4>2 DEF Shut
      <4> QED BY <4>1, <4>2
    <3> QED BY <3>1, <3>2 DEF Shut
  <2> QED BY <1>1, <2>1, ReachableLeast DEF M
<1>5. ASSUME NEW n \in L, n # c PROVE n \in M
  <2>1. ASSUME NEW S \in SUBSET DOMAIN k, Shut(k, {kd}, S) PROVE n \in S
    <3>1. CASE hd # c /\ p \notin S
      <4>1. Shut(h, {hd}, S)
        BY <2>1, <3>1 DEF Shut
      <4>2. L \subseteq S
        BY <2>1, <4>1, ReachableLeast DEF L
      <4> QED BY <1>3, <3>1, <4>2
    <3>2. CASE hd = c \/ p \in S
      <4>1. h[c].next \in S \cup {None}
        BY <2>1, <3>2 DEF Shut
      <4>2. hd \in S \cup {c, None}
        BY <2>1 DEF Shut
      <4>3. ASSUME NEW m \in S PROVE h[m].next \in S \cup {c, None}
        BY <2>1, <4>3 DEF Shut
      <4> DEFINE T == S \cup {c}
      <4>4. T \in SUBSET DOMAIN h
        BY <1>1, <1>2
      <4>5. Shut(h, {hd}, T)
        BY <4>1, <4>2, <4>3 DEF Shut
      <4>6. L \subseteq T
        <5> HIDE DEF T
        <5> QED BY <4>4, <4>5, ReachableLeast DEF L
      <4> QED BY <1>5, <4>6
    <3> QED BY <3>1, <3>2
  <2>2. n \in DOMAIN k
    BY <1>1
  <2> QED BY <2>1, <2>2, ReachableIn DEF M
<1> QED BY <1>4, <1>5 DEF LosesOne, L, M

(* Following the links from a hit of a set that holds every successor      *)
(* leads to hits of that set.                                              *)
LEMMA ChainStays ==
  ASSUME NEW h, NEW n, Linked(h), Points(h, n), NEW S \in SUBSET DOMAIN h,
         Shut(h, {n}, S)
  PROVE  Chain(h, n) \in Seq(S)
<1> DEFINE C == Cardinality(Nodes)
           X == Seq(S)
<1>1. C \in Nat /\ \E U : /\ Chain(h, n) = U[C]
                          /\ \A k \in 0..C :
                                U[k] = IF k = 0 THEN <<>> ELSE More(h, n, U[k - 1])
  BY ChainRounds
<1>2. PICK U : /\ Chain(h, n) = U[C]
               /\ \A k \in 0..C :
                     U[k] = IF k = 0 THEN <<>> ELSE More(h, n, U[k - 1])
  BY <1>1
<1>3. <<>> \in X
  OBVIOUS
<1>4. ASSUME NEW s \in X PROVE More(h, n, s) \in X
  <2>1. After(h, n, s) \in S \cup {None}
    <3>1. CASE s = <<>>
      BY <3>1 DEF After, Shut
    <3>2. CASE s # <<>>
      <4>1. Last(s) \in S
        BY <3>2 DEF Last
      <4> QED BY <3>2, <4>1 DEF After, Shut
    <3> QED BY <3>1, <3>2
  <2>2. CASE After(h, n, s) = None
    BY <2>2 DEF More
  <2>3. CASE After(h, n, s) # None
    <3>1. Append(s, After(h, n, s)) \in X
      BY <2>1, <2>3
    <3> QED BY <2>3, <3>1 DEF More
  <2> QED BY <2>2, <2>3
<1> HIDE DEF X, C
<1> DEFINE Bad == {k \in 0..C : U[k] \notin X}
<1>5. ASSUME Bad # {} PROVE FALSE
  <2>1. PICK k \in Bad : \A j \in Bad : k <= j
    <3>1. Bad \in SUBSET Nat
      OBVIOUS
    <3> HIDE DEF Bad
    <3> QED BY <1>5, <3>1, LeastNatural
  <2>2. k \in 0..C /\ U[k] \notin X
    OBVIOUS
  <2>3. k # 0
    BY <1>2, <1>3, <2>2
  <2>4. k - 1 \in 0..C /\ ~(k <= k - 1)
    BY <1>1, <2>2, <2>3
  <2>5. U[k - 1] \in X
    BY <2>1, <2>4
  <2> QED BY <1>2, <1>4, <2>2, <2>3, <2>5
<1>6. C \in 0..C
  BY <1>1
<1>7. U[C] \in X
  BY <1>5, <1>6
<1> QED BY <1>2, <1>7 DEF X

(* What the loops pass is on the list.                                     *)
LEMMA SearchedIsListed ==
  ASSUME ListInv, NEW k \in 1..Len(List)
  PROVE  List[k] \in Listed
<1>1. Linked(heap) /\ Points(heap, head) /\ {head} \subseteq DOMAIN heap \cup {None}
  BY DEF ListInv, ListOK, Points
<1> DEFINE L == Reachable(heap, {head})
<1>2. L \in SUBSET DOMAIN heap /\ Shut(heap, {head}, L)
  BY <1>1, ReachableShut
<1> HIDE DEF L
<1>3. List \in Seq(L)
  BY <1>1, <1>2, ChainStays DEF List
<1> QED BY <1>3 DEF Listed, L

(* The hit that an announcement overwrites.                                *)
LEMMA MatchFound ==
  ASSUME ListInv, NEW a, Match(a) > 0
  PROVE  List[Match(a)] \in Listed /\ SameHost(List[Match(a)], a)
<1> DEFINE I == {i \in 1..Len(List) : SameHost(List[i], a)}
<1>1. Match(a) = IF I # {} THEN Min(I) ELSE 0
  BY DEF Match, SelectInSeq
<1>2. I \in SUBSET Nat
  OBVIOUS
<1>3. \A i \in I : i \in 1..Len(List) /\ SameHost(List[i], a)
  OBVIOUS
<1> HIDE DEF I
<1>4. Match(a) \in I
  <2>1. I # {}
    BY <1>1
  <2>2. \E x \in I : \A y \in I : x <= y
    BY <1>2, <2>1, LeastNatural
  <2>3. Min(I) \in I
    BY <2>2 DEF Min
  <2> QED BY <1>1, <2>1, <2>3
<1> QED BY <1>3, <1>4, SearchedIsListed

(* What a search finds is on the list and may be used.                     *)
LEMMA FoundIsListed ==
  ASSUME ListInv, NEW chs, PickHit(chs) # None
  PROVE  PickHit(chs) \in Listed /\ Eligible(PickHit(chs), chs)
<1>1. FirstNearest(chs, Len(List), PickHit(chs))
  BY PickHitNearest
<1>2. PICK k \in 1..Len(List) : PickHit(chs) = List[k] /\ Eligible(List[k], chs)
  BY <1>1 DEF FirstNearest
<1> QED BY <1>2, SearchedIsListed

-----------------------------------------------------------------------------
(* Who is in the list, and what it is going to write there.                *)

(* The new hit of thread x, which is about to become the head.  Only x     *)
(* knows of it.                                                            *)
Fresh(h, hd, t, x) ==
    LET c == t[x].cur
    IN  /\ c \in DOMAIN h /\ h[c].ann = t[x].arg /\ ~h[c].dead
        /\ hd # c /\ \A n \in DOMAIN h : h[n].next # c
        /\ \A y \in Threads : /\ t[y].prev # c /\ t[y].next # c
                              /\ y # x => t[y].cur # c

NewHits(h, hd, t) == \A x \in Threads : t[x].pc = "link" => Fresh(h, hd, t, x)

(* What announces a session holds chanMgr->lock till its hit is linked.    *)
Locked(v, l, x) ==
    /\ (v.pc = "session" \/ (v.pc \in {"add", "link"} /\ v.arg.sid # None)) => l = x
    /\ v.pc = "session" => v.arg.sid # None
    /\ v.located => v.cur # None

(* Meanwhile nothing is expected of the session.                           *)
Gone(v, hosts) ==
    (v.pc = "session" /\ v.arg.sid \in Sessions) => hosts[v.arg.sid] = None

Entries ==
    /\ NewHits(heap, head, th)
    /\ \A x \in Threads : Locked(th[x], lock, x) /\ Gone(th[x], host)

(* A hit c is one by which session s is known to be at v.                  *)
Shows(c, s, v) ==
    /\ c.ann.wan = v.wan /\ (c.ann.lan = v.lan \/ v.lan = None)
    /\ c.ann.sid \in {s, None} /\ ~c.dead /\ c.age <= v.age

Present(h, hd, s, v) == \E n \in Reachable(h, {hd}) : Shows(h[n], s, v)

(* The hosts that are expected on the list are there.                      *)
HostsListed == \A s \in Sessions : host[s] # None => Present(heap, head, s, host[s])

(* The hits at an address that was reported dead are marked.               *)
DownIsDead == \A n \in Listed : Address(heap[n].ann) \in down => heap[n].dead

Expected == HostsListed /\ DownIsDead

(* A hit that is not linked yet is not on the list.                        *)
LEMMA FreshIsUnlisted ==
  ASSUME ListInv, Entries, NEW x \in Threads, th[x].pc = "link"
  PROVE  th[x].cur \notin Listed
<1> DEFINE c == th[x].cur
           S == DOMAIN heap \ {c}
<1>1. Fresh(heap, head, th, x)
  BY DEF Entries, NewHits
<1>2. Linked(heap) /\ Points(heap, head)
  BY DEF ListInv, ListOK
<1>3. Shut(heap, {head}, S)
  BY <1>1, <1>2 DEF Fresh, Shut, Linked, Points
<1>4. Reachable(heap, {head}) \subseteq S
  <2>1. S \in SUBSET DOMAIN heap
    OBVIOUS
  <2> HIDE DEF S
  <2> QED BY <1>3, <2>1, ReachableLeast
<1> QED BY <1>4 DEF Listed

(* The steps that change no link.                                          *)
SameList ==
    /\ UNCHANGED <<head, th, lock>>
    /\ DOMAIN heap' = DOMAIN heap
    /\ \A n \in DOMAIN heap :
          /\ heap'[n].next = heap[n].next
          /\ n \notin Listed => /\ heap'[n].ann = heap[n].ann
                                /\ heap'[n].dead = heap[n].dead

(* They leave every thread what it found.                                  *)
LEMMA SameListEntries ==
  ASSUME ListInv, Entries, SameList,
         \A x \in Threads : Gone(th[x], host) => Gone(th[x], host')
  PROVE  Entries' /\ Listed' = Listed
<1>1. Listed' = Listed
  <2>1. Reachable(heap', {head}) = Reachable(heap, {head})
    BY SameLinksListed DEF SameList
  <2> QED BY <2>1 DEF Listed, SameList
<1>2. ASSUME NEW x \in Threads, th[x].pc = "link" PROVE Fresh(heap', head, th, x)
  <2>1. Fresh(heap, head, th, x) /\ th[x].cur \notin Listed
    BY <1>2, FreshIsUnlisted DEF Entries, NewHits
  <2> QED BY <2>1 DEF Fresh, SameList
<1>3. NewHits(heap', head', th')
  BY <1>2 DEF NewHits, SameList
<1> QED BY <1>1, <1>3 DEF Entries, SameList

(* The next state has all that matters of the hits h and the head hd.      *)
Carries(h, hd) ==
    /\ head' = hd /\ Listed' = Reachable(h, {hd})
    /\ \A n \in Listed' : n \in DOMAIN h /\ heap'[n] = h[n]
    /\ NewHits(h, hd, th') => NewHits(heap', head', th')
    /\ \A s, v : Present(h, hd, s, v) => Present(heap', head', s, v)

(* The deleting of objects leaves it alone.                                *)
LEMMA BecomesKeeps ==
  ASSUME NEW h, NEW hd, ListOK(h, hd, th'), Becomes(h, hd, th')
  PROVE  Carries(h, hd)
<1> DEFINE k == heap'
           t == th'
<1>1. k = Held(h, hd, t) /\ head' = hd
  BY DEF Becomes
<1>0. ListOK(h, hd, t)
  OBVIOUS
<1> HIDE DEF k, t
<1>2. Keeps(h, hd, t, k)
  BY <1>0, <1>1, HeldListed
<1>3. Listed' = Reachable(k, {head'})
  BY DEF Listed, k
<1>4. ASSUME NewHits(h, hd, t) PROVE NewHits(k, hd, t)
  <2>1. ASSUME NEW x \in Threads, t[x].pc = "link" PROVE Fresh(k, hd, t, x)
    <3>1. Fresh(h, hd, t, x)
      BY <1>4, <2>1 DEF NewHits
    <3>2. t[x].cur # None
      BY <1>0, <2>1 DEF ListOK, ThreadOK
    <3>3. t[x].cur \in DOMAIN k
      BY <1>2, <3>2 DEF Keeps
    <3> QED BY <1>2, <3>1, <3>3 DEF Fresh, Keeps
  <2> QED BY <2>1 DEF NewHits
<1>5. ASSUME NEW s, NEW v, Present(h, hd, s, v) PROVE Present(k, hd, s, v)
  BY <1>2, <1>5 DEF Present, Keeps
<1> QED BY <1>1, <1>2, <1>3, <1>4, <1>5 DEF Keeps, Carries, k, t

(* Thread state v, hits h and head hd lead to c nowhere.                   *)
Avoids(h, hd, v, c) ==
    /\ c \notin {hd, v.cur, v.prev, v.next}
    /\ \A n \in DOMAIN h : h[n].next # c

(* A step of the one thread x, to v, which writes hits h and a head hd.    *)
LEMMA OneMoves ==
  ASSUME ListInv, Entries, NEW h, NEW hd, ListOK(h, hd, th'), Becomes(h, hd, th'),
         NEW x \in Threads, NEW v, th' = [th EXCEPT ![x] = v], v.pc # "link",
         DOMAIN h = DOMAIN heap,
         \A n \in DOMAIN heap : h[n].ann = heap[n].ann /\ h[n].dead = heap[n].dead,
         \A y \in Threads : (y # x /\ th[y].pc = "link") => Avoids(h, hd, v, th[y].cur),
         lock' = lock \/ lock \in {None, x}, Locked(v, lock', x), Gone(v, host'),
         \A y \in Threads : (y # x /\ Gone(th[y], host)) => Gone(th[y], host')
  PROVE  Entries' /\ Carries(h, hd)
<1>1. Carries(h, hd)
  BY BecomesKeeps
<1>2. th'[x] = v /\ \A y \in Threads : y # x => th'[y] = th[y]
  BY DEF ListInv, ListOK
<1>3. ASSUME NEW y \in Threads, th'[y].pc = "link" PROVE Fresh(h, hd, th', y)
  <2>1. y # x /\ th'[y] = th[y]
    BY <1>2, <1>3
  <2> DEFINE c == th[y].cur
  <2>2. Fresh(heap, head, th, y) /\ Avoids(h, hd, v, c)
    BY <1>3, <2>1 DEF Entries, NewHits
  <2>3. /\ c \in DOMAIN h /\ h[c].ann = th[y].arg /\ ~h[c].dead
        /\ hd # c /\ \A n \in DOMAIN h : h[n].next # c
    BY <2>2 DEF Fresh, Avoids
  <2>4. ASSUME NEW z \in Threads
        PROVE  th'[z].prev # c /\ th'[z].next # c /\ (z # y => th'[z].cur # c)
    <3>1. CASE z = x
      BY <1>2, <2>2, <3>1 DEF Avoids
    <3>2. CASE z # x
      BY <1>2, <2>2, <3>2 DEF Fresh
    <3> QED BY <3>1, <3>2
  <2> QED BY <2>1, <2>3, <2>4 DEF Fresh
<1>4. NewHits(h, hd, th')
  BY <1>3 DEF NewHits
<1>5. NewHits(heap', head', th')
  BY <1>1, <1>4 DEF Carries
<1>6. ASSUME NEW y \in Threads PROVE Locked(th'[y], lock', y) /\ Gone(th'[y], host')
  <2>1. CASE y = x
    BY <1>2, <2>1
  <2>2. CASE y # x
    <3>1. Locked(th[y], lock, y) /\ Gone(th[y], host) /\ None \notin Threads
      BY HitsAssumption DEF Entries
    <3>2. Locked(th[y], lock', y)
      BY <2>2, <3>1 DEF Locked
    <3> QED BY <1>2, <2>2, <3>1, <3>2
  <2> QED BY <2>1, <2>2
<1> QED BY <1>1, <1>5, <1>6 DEF Entries

(* A pointer that leads to no hit that is yet to be linked.                *)
Known(p) == \A y \in Threads : th[y].pc = "link" => p # th[y].cur

(* The head, what is on the list, and what hits and threads lead to.       *)
LEMMA KnownPointers ==
  ASSUME ListInv, Entries
  PROVE  /\ Known(None) /\ Known(head)
         /\ \A n \in Listed : Known(n)
         /\ \A n \in DOMAIN heap : Known(heap[n].next)
         /\ \A x \in Threads : Known(th[x].next) /\ Known(th[x].prev)
<1>1. ASSUME NEW y \in Threads, th[y].pc = "link"
      PROVE  Fresh(heap, head, th, y) /\ th[y].cur # None /\ th[y].cur \notin Listed
  BY <1>1, FreshIsUnlisted DEF Entries, NewHits, ListInv, ListOK, ThreadOK
<1> QED BY <1>1 DEF Known, Fresh

(* A step that moves one thread and may only expect less than before.      *)
LEMMA MovesKeep ==
  ASSUME ListInv, Entries, ListOK(heap, head, th'), Becomes(heap, head, th'),
         NEW x \in Threads, NEW v, th' = [th EXCEPT ![x] = v], v.pc # "link",
         Known(v.cur), Known(v.prev), Known(v.next),
         lock' = lock \/ lock \in {None, x}, Locked(v, lock', x), Gone(v, host'),
         \A s \in Sessions : host'[s] \in {host[s], None},
         down' \subseteq down
  PROVE  Entries' /\ (Expected => Expected')
<1>1. ASSUME NEW y \in Threads, th[y].pc = "link"
      PROVE  Avoids(heap, head, v, th[y].cur)
  BY <1>1, KnownPointers DEF Avoids, Known
<1>2. \A y \in Threads : Gone(th[y], host) => Gone(th[y], host')
  BY DEF Gone
<1>3. Entries' /\ Carries(heap, head)
  BY <1>1, <1>2, OneMoves
<1>4. ASSUME HostsListed PROVE HostsListed'
  BY <1>3, <1>4 DEF HostsListed, Carries
<1>5. ASSUME DownIsDead PROVE DownIsDead'
  BY <1>3, <1>5 DEF DownIsDead, Carries, Listed
<1> QED BY <1>3, <1>4, <1>5 DEF Expected

(* What a thread that enters, or leaves, is.                               *)
LEMMA EnterFields ==
  ASSUME NEW x \in Threads, NEW pc, NEW arg, NEW cur
  PROVE  /\ \E v : /\ Enter(x, pc, arg, cur) = [th EXCEPT ![x] = v]
                   /\ v.pc = pc /\ v.arg = arg /\ v.cur = cur
                   /\ v.prev = None /\ v.next = None /\ ~v.located
         /\ \E v : /\ Leave(x) = [th EXCEPT ![x] = v]
                   /\ v.pc = "rest" /\ v.cur = None
                   /\ v.prev = None /\ v.next = None /\ ~v.located
<1> DEFINE v == [AtRest EXCEPT !.pc = pc, !.arg = arg, !.cur = cur]
           r == AtRest
<1>1. /\ v.pc = pc /\ v.arg = arg /\ v.cur = cur
      /\ v.prev = None /\ v.next = None /\ ~v.located
  BY DEF AtRest
<1>2. Enter(x, pc, arg, cur) = [th EXCEPT ![x] = v] /\ Leave(x) = [th EXCEPT ![x] = r]
  BY DEF Enter, Leave
<1>3. r.pc = "rest" /\ r.cur = None /\ r.prev = None /\ r.next = None /\ ~r.located
  BY DEF AtRest
<1> HIDE DEF v, r
<1> QED BY <1>1, <1>2, <1>3

(* A thread that enters the list, or its loop anew.                        *)
LEMMA EnterKeeps ==
  ASSUME ListInv, Entries, NEW x \in Threads, NEW pc, NEW arg, NEW cur, pc # "link",
         ListOK(heap, head, th'), Becomes(heap, head, Enter(x, pc, arg, cur)),
         Known(cur), lock' = lock \/ lock \in {None, x},
         pc = "session" => arg.sid # None /\ lock' = x,
         pc = "add" => arg.sid = None \/ lock' = x,
         (pc = "session" /\ arg.sid \in Sessions) => host'[arg.sid] = None,
         \A s \in Sessions : host'[s] \in {host[s], None}, down' \subseteq down
  PROVE  Entries' /\ (Expected => Expected')
<1>1. PICK v : /\ Enter(x, pc, arg, cur) = [th EXCEPT ![x] = v]
               /\ v.pc = pc /\ v.arg = arg /\ v.cur = cur
               /\ v.prev = None /\ v.next = None /\ ~v.located
  BY EnterFields
<1>2. th' = [th EXCEPT ![x] = v] /\ Becomes(heap, head, th')
  BY <1>1 DEF Becomes
<1>3. Locked(v, lock', x) /\ Gone(v, host')
  BY <1>1 DEF Locked, Gone
<1>4. Known(v.cur) /\ Known(v.prev) /\ Known(v.next) /\ v.pc # "link"
  BY <1>1, KnownPointers
<1> QED BY <1>2, <1>3, <1>4, MovesKeep

(* A thread that leaves it.                                                *)
LEMMA LeaveKeeps ==
  ASSUME ListInv, Entries, NEW x \in Threads, ListOK(heap, head, th'),
         Becomes(heap, head, Leave(x)), lock' = lock \/ lock = x, UNCHANGED hostVars
  PROVE  Entries' /\ (Expected => Expected')
<1>1. PICK v : /\ Leave(x) = [th EXCEPT ![x] = v] /\ v.pc = "rest" /\ v.cur = None
               /\ v.prev = None /\ v.next = None /\ ~v.located
  BY EnterFields
<1>2. th' = [th EXCEPT ![x] = v] /\ Becomes(heap, head, th')
  BY <1>1 DEF Becomes
<1>3. Locked(v, lock', x) /\ Gone(v, host')
  BY <1>1 DEF Locked, Gone
<1>4. Known(v.cur) /\ Known(v.prev) /\ Known(v.next) /\ v.pc # "link"
  BY <1>1, KnownPointers
<1>5. (\A s \in Sessions : host'[s] \in {host[s], None}) /\ down' \subseteq down
  BY DEF hostVars
<1> QED BY <1>2, <1>3, <1>4, <1>5, MovesKeep

-----------------------------------------------------------------------------
(* What each step leaves of it.                                            *)

(* What an announcement makes of what is expected.                         *)
LEMMA AnnouncedIs ==
  ASSUME NEW a, NEW age, Announced(a, age)
  PROVE  /\ \A s \in Sessions : (s = a.sid /\ host'[s] # None) =>
               host'[s] = [wan |-> a.wan, lan |-> a.lan, age |-> age]
         /\ \A s \in Sessions : (s # a.sid /\ host'[s] # None) =>
               /\ host'[s] = host[s]
               /\ a.sid # None => s \notin HostsAt(a)
         /\ \A s \in Sessions : (s # a.sid /\ host[s] = None) => host'[s] = None
         /\ down' \subseteq down /\ Address(a) \notin down'
  BY DEF Announced

(* Of those at the address, addHit overwrites the hit.                     *)
LEMMA OverwritesTheirs ==
  ASSUME NEW n, NEW a, SameHost(n, a), NEW s \in Sessions, host[s] # None,
         Shows(heap[n], s, host[s])
  PROVE  s \in HostsAt(a)
  BY DEF SameHost, Shows, HostsAt

(* addHit of a host that is listed: its hit is overwritten where it is.    *)
LEMMA OverwriteKeeps ==
  ASSUME ListInv, Entries, HostOK, NEW t, NEW a \in Ann, Match(a) > 0,
         heap' = [heap EXCEPT ![List[Match(a)]] = NewHit(a, @.next, t # Source)],
         Announced(a, 0), UNCHANGED <<head, th, lock>>, a.sid # None => lock = None
  PROVE  Entries' /\ (Expected => Expected')
<1> DEFINE i == List[Match(a)]
           new == NewHit(a, heap[i].next, t # Source)
<1>1. heap' = [heap EXCEPT ![i] = new]
  OBVIOUS
<1>2. i \in Listed /\ SameHost(i, a)
  BY MatchFound
<1>3. \A n \in Listed : n \in DOMAIN heap
  BY Predecessor
<1>4. new.next = heap[i].next /\ new.ann = a /\ new.dead = FALSE /\ new.age = 0
  BY DEF NewHit
<1> HIDE DEF i, new
<1>5. /\ DOMAIN heap' = DOMAIN heap /\ heap'[i] = new
      /\ \A n \in DOMAIN heap : n # i => heap'[n] = heap[n]
  BY <1>1, <1>2, <1>3
<1>6. SameList
  BY <1>2, <1>4, <1>5 DEF SameList
<1>7. ASSUME NEW x \in Threads, Gone(th[x], host) PROVE Gone(th[x], host')
  <2>1. ASSUME th[x].pc = "session", th[x].arg.sid \in Sessions
        PROVE  host'[th[x].arg.sid] = None
    <3>1. lock = x /\ None \notin Threads
      BY <2>1, HitsAssumption DEF Entries, Locked
    <3>2. th[x].arg.sid # a.sid
      BY <2>1, <3>1 DEF Sessions
    <3> QED BY <1>7, <2>1, <3>2, AnnouncedIs DEF Gone
  <2> QED BY <2>1 DEF Gone
<1>8. Entries' /\ Listed' = Listed
  BY <1>6, <1>7, SameListEntries
<1>9. ASSUME HostsListed PROVE HostsListed'
  <2>0. Reachable(heap', {head'}) = Reachable(heap, {head})
        /\ i \in Reachable(heap, {head})
    BY <1>2, <1>8 DEF Listed
  <2>1. ASSUME NEW s \in Sessions, host'[s] # None, s = a.sid
        PROVE  Present(heap', head', s, host'[s])
    <3> DEFINE v == [wan |-> a.wan, lan |-> a.lan, age |-> 0]
    <3>1. host'[s] = v
      BY <2>1, AnnouncedIs
    <3>2. v.wan = a.wan /\ v.lan = a.lan /\ v.age = 0
      OBVIOUS
    <3> HIDE DEF v
    <3>3. Shows(heap'[i], s, v)
      BY <1>4, <1>5, <2>1, <3>2 DEF Shows
    <3> QED BY <2>0, <3>1, <3>3 DEF Present
  <2>2. ASSUME NEW s \in Sessions, host'[s] # None, s # a.sid
        PROVE  Present(heap', head', s, host'[s])
    <3>1. /\ host'[s] = host[s] /\ host[s] # None
          /\ a.sid # None => s \notin HostsAt(a)
      BY <2>2, AnnouncedIs
    <3>2. PICK n \in Reachable(heap, {head}) : Shows(heap[n], s, host[s])
      BY <1>9, <3>1 DEF HostsListed, Present
    <3>3. n \in DOMAIN heap
      BY <1>3, <3>2 DEF Listed
    <3>4. CASE n = i
      <4>1. s \in HostsAt(a)
        BY <1>2, <3>1, <3>2, <3>4, OverwritesTheirs
      <4>2. a.sid = None /\ host[s].wan = a.wan /\ host[s].lan \in {a.lan, None}
        BY <3>1, <4>1 DEF HostsAt
      <4>3. host[s].age \in Nat
        BY <3>1 DEF HostOK, Place
      <4>4. Shows(heap'[i], s, host[s])
        BY <1>4, <1>5, <4>2, <4>3 DEF Shows
      <4> QED BY <2>0, <3>1, <4>4 DEF Present
    <3>5. CASE n # i
      <4>1. Shows(heap'[n], s, host[s])
        BY <1>5, <3>2, <3>3, <3>5
      <4> QED BY <2>0, <3>1, <3>2, <4>1 DEF Present
    <3> QED BY <3>4, <3>5
  <2> QED BY <2>1, <2>2 DEF HostsListed
<1>10. ASSUME DownIsDead PROVE DownIsDead'
  <2>1. ASSUME NEW n \in Listed, Address(heap'[n].ann) \in down' PROVE heap'[n].dead
    <3>1. n # i
      BY <1>4, <1>5, <2>1, AnnouncedIs
    <3>2. heap'[n] = heap[n] /\ Address(heap[n].ann) \in down
      BY <1>3, <1>5, <2>1, <3>1, AnnouncedIs
    <3> QED BY <1>10, <2>1, <3>2 DEF DownIsDead
  <2> QED BY <1>8, <2>1 DEF DownIsDead
<1> QED BY <1>8, <1>9, <1>10 DEF Expected

(* addHit by a connection under the lock, or of a tracker without it.      *)
LEMMA AddHitKeeps ==
  ASSUME ListInv, Entries, HostOK, NEW t \in Threads, NEW a \in Ann, NEW holder,
         AddHit(t, a, holder), a.sid # None => lock = None /\ holder = t,
         holder = lock \/ (lock = None /\ holder = t)
  PROVE  Entries' /\ (Expected => Expected')
<1>1. CASE /\ Match(a) > 0
           /\ heap' = [heap EXCEPT ![List[Match(a)]] = NewHit(a, @.next, t # Source)]
           /\ Announced(a, 0) /\ UNCHANGED <<head, th, lock>>
  BY <1>1, OverwriteKeeps
<1>2. CASE /\ Match(a) = 0 /\ lock' = holder
           /\ Withdrawn({a.sid}) /\ down' = down \ {Address(a)}
           /\ Becomes(heap, head, IF a.sid # None THEN Enter(t, "session", a, head)
                                                  ELSE Enter(t, "add", a, None))
  <2>1. ListOK(heap, head, th')
    BY <1>2, AddHitOK
  <2>2. /\ \A s \in Sessions : host'[s] \in {host[s], None}
        /\ a.sid \in Sessions => host'[a.sid] = None
        /\ down' \subseteq down
    BY <1>2 DEF Withdrawn
  <2>3. Known(head) /\ Known(None) /\ (lock' = lock \/ lock \in {None, t})
    BY <1>2, KnownPointers
  <2>4. CASE a.sid # None
    <3>1. Becomes(heap, head, Enter(t, "session", a, head))
      BY <1>2, <2>4
    <3> QED BY <1>2, <2>1, <2>2, <2>3, <2>4, <3>1, EnterKeeps
  <2>5. CASE a.sid = None
    <3>1. Becomes(heap, head, Enter(t, "add", a, None))
      BY <1>2, <2>5
    <3> QED BY <1>2, <2>1, <2>2, <2>3, <2>5, <3>1, EnterKeeps
  <2> QED BY <2>4, <2>5
<1> QED BY <1>1, <1>2 DEF AddHit

(* The thread that adds makes its hit, of which nobody else knows.         *)
LEMMA MakeHitKeeps ==
  ASSUME ListInv, Entries, NEW t \in Threads, MakeHit(t)
  PROVE  Entries' /\ (Expected => Expected')
<1>1. PICK n \in Nodes \ DOMAIN heap :
         /\ heap' = [m \in DOMAIN heap \cup {n} |->
                       IF m = n THEN NewHit(th[t].arg, head, TRUE) ELSE heap[m]]
         /\ th' = [th EXCEPT ![t] = [th[t] EXCEPT !.pc = "link", !.cur = n]]
  BY DEF MakeHit
<1>2. th[t].pc = "add" /\ UNCHANGED <<head, lock, hostVars>>
  BY DEF MakeHit
<1>3. /\ th[t] \in ThreadState /\ ~ th[t].located /\ th \in [Threads -> ThreadState]
      /\ Linked(heap) /\ Points(heap, head) /\ None \notin Nodes
      /\ \A y \in Threads : ThreadOK(heap, th, y)
  BY <1>2, HitsAssumption DEF ListInv, ListOK, ThreadOK
<1> DEFINE new == NewHit(th[t].arg, head, TRUE)
           v == [th[t] EXCEPT !.pc = "link", !.cur = n]
           k == heap'
<1>4. new.next = head /\ new.ann = th[t].arg /\ new.dead = FALSE
  BY DEF NewHit
<1>5. /\ v.pc = "link" /\ v.cur = n /\ v.arg = th[t].arg /\ v.located = th[t].located
      /\ v.prev = th[t].prev /\ v.next = th[t].next
  BY <1>3 DEF ThreadState
<1>6. th' = [th EXCEPT ![t] = v]
  BY <1>1
<1>7. /\ DOMAIN k = DOMAIN heap \cup {n} /\ k[n] = new
      /\ \A m \in DOMAIN heap : k[m] = heap[m]
  <2> HIDE DEF new
  <2>1. k = [m \in DOMAIN heap \cup {n} |-> IF m = n THEN new ELSE heap[m]]
    BY <1>1 DEF new
  <2> HIDE DEF k
  <2> QED BY <2>1
<1> HIDE DEF new, v, k
<1>8. th'[t] = v /\ \A y \in Threads : y # t => th'[y] = th[y]
  BY <1>3, <1>6
<1>9. Reachable(k, {head}) = Reachable(heap, {head})
  BY <1>3, <1>7, MadeListed
<1>10. Listed' = Listed /\ \A m \in Listed : m \in DOMAIN heap
  BY <1>2, <1>9, Predecessor DEF Listed, k
<1>11. n \notin DOMAIN heap /\ n # None
  BY <1>3
<1>12. \A y \in Threads : th[y].cur # n /\ th[y].prev # n /\ th[y].next # n
  BY <1>3, <1>11 DEF ThreadOK, Points
<1>13. head # n /\ \A m \in DOMAIN heap : heap[m].next # n
  BY <1>3, <1>11 DEF Linked, Points
<1>14. Fresh(k, head, th', t)
  BY <1>4, <1>5, <1>7, <1>8, <1>12, <1>13 DEF Fresh
<1>15. ASSUME NEW x \in Threads, x # t, th[x].pc = "link" PROVE Fresh(k, head, th', x)
  <2>1. Fresh(heap, head, th, x) /\ th'[x] = th[x]
    BY <1>8, <1>15 DEF Entries, NewHits
  <2> DEFINE c == th[x].cur
  <2>2. c # n /\ c \in DOMAIN k /\ k[c] = heap[c] /\ \A m \in DOMAIN k : k[m].next # c
    BY <1>4, <1>7, <1>12, <2>1 DEF Fresh
  <2>3. ASSUME NEW y \in Threads
        PROVE  th'[y].prev # c /\ th'[y].next # c /\ (y # x => th'[y].cur # c)
    <3>1. CASE y = t
      BY <1>5, <1>8, <2>1, <2>2, <3>1 DEF Fresh
    <3>2. CASE y # t
      BY <1>8, <2>1, <3>2 DEF Fresh
    <3> QED BY <3>1, <3>2
  <2> QED BY <2>1, <2>2, <2>3 DEF Fresh
<1>16. NewHits(k, head, th')
  BY <1>8, <1>14, <1>15 DEF NewHits
<1>17. ASSUME NEW x \in Threads PROVE Locked(th'[x], lock', x) /\ Gone(th'[x], host')
  <2>1. Locked(th[x], lock, x) /\ Gone(th[x], host) /\ lock' = lock /\ host' = host
    BY <1>2 DEF Entries, hostVars
  <2>2. CASE x = t
    BY <1>2, <1>3, <1>5, <1>8, <2>1, <2>2 DEF Locked, Gone
  <2>3. CASE x # t
    BY <1>8, <2>1, <2>3
  <2> QED BY <2>2, <2>3
<1>18. Entries'
  BY <1>2, <1>16, <1>17 DEF Entries, k
<1>19. ASSUME HostsListed PROVE HostsListed'
  <2>1. ASSUME NEW s, NEW w, Present(heap, head, s, w) PROVE Present(k, head', s, w)
    <3>1. \A m \in Reachable(heap, {head}) : m \in DOMAIN heap
      BY <1>10 DEF Listed
    <3> QED BY <1>2, <1>7, <1>9, <2>1, <3>1 DEF Present
  <2> QED BY <1>2, <1>19, <2>1 DEF HostsListed, hostVars, k
<1>20. ASSUME DownIsDead PROVE DownIsDead'
  BY <1>2, <1>7, <1>10, <1>20 DEF DownIsDead, hostVars, k
<1> QED BY <1>18, <1>19, <1>20 DEF Expected

(* ... and makes it the head: the list is what it was, and the new hit,    *)
(* unless the head has changed since it was read.                          *)
LEMMA LinkHitKeeps ==
  ASSUME ListInv, Entries, HostOK, lost \in BOOLEAN, NEW t \in Threads, LinkHit(t)
  PROVE  Entries' /\ ((~lost' /\ Expected) => (~lost /\ Expected'))
<1> DEFINE c == th[t].cur
           a == th[t].arg
<1>1. /\ th[t].pc = "link" /\ Becomes(heap, c, Leave(t)) /\ th' = Leave(t)
      /\ Announced(a, heap[c].age) /\ lost' = (lost \/ heap[c].next # head)
      /\ lock' = lock \/ lock \in {None, t}
  BY DEF LinkHit, Becomes, Unlock
<1>2. Fresh(heap, head, th, t) /\ Locked(th[t], lock, t)
  BY <1>1 DEF Entries, NewHits
<1>3. c \in DOMAIN heap /\ heap[c].ann = a /\ ~heap[c].dead /\ heap[c].age \in Nat
  <2>1. heap[c] \in Hit
    BY <1>2 DEF ListInv, ListOK, Linked, Fresh
  <2> QED BY <1>2, <2>1, HitsAssumption DEF Hit, Fresh
<1>4. ListOK(heap, c, th') /\ Becomes(heap, c, th')
  BY <1>1, LinkHitOK
<1>5. PICK v : /\ Leave(t) = [th EXCEPT ![t] = v] /\ v.pc = "rest" /\ v.cur = None
               /\ v.prev = None /\ v.next = None /\ ~v.located
  BY EnterFields
<1>6. ASSUME NEW y \in Threads, y # t, th[y].pc = "link"
      PROVE  Avoids(heap, c, v, th[y].cur)
  <2>1. Fresh(heap, head, th, y) /\ th[y].cur # None
    BY <1>6 DEF Entries, NewHits, ListInv, ListOK, ThreadOK
  <2> QED BY <1>5, <1>6, <2>1 DEF Fresh, Avoids
<1>7. ASSUME NEW y \in Threads, y # t, Gone(th[y], host) PROVE Gone(th[y], host')
  <2>1. ASSUME th[y].pc = "session", th[y].arg.sid \in Sessions
        PROVE  host'[th[y].arg.sid] = None
    <3>1. lock = y
      BY <2>1 DEF Entries, Locked
    <3>2. th[y].arg.sid # a.sid
      BY <1>1, <1>2, <1>7, <2>1, <3>1 DEF Locked, Sessions
    <3> QED BY <1>1, <1>7, <2>1, <3>2, AnnouncedIs DEF Gone
  <2> QED BY <2>1 DEF Gone
<1>8. Locked(v, lock', t) /\ Gone(v, host')
  BY <1>5 DEF Locked, Gone
<1> HIDE DEF c, a
<1>9. Entries' /\ Carries(heap, c)
  BY <1>1, <1>4, <1>5, <1>6, <1>7, <1>8, OneMoves
<1>10. ASSUME heap[c].next = head, Expected PROVE Expected'
  <2>1. Reachable(heap, {c}) = Listed \cup {c}
    BY <1>3, <1>10, FrontListed DEF ListInv, ListOK, Listed
  <2>2. ASSUME NEW s \in Sessions, host'[s] # None
        PROVE  Present(heap, c, s, host'[s])
    <3>1. CASE s = a.sid
      <4> DEFINE w == [wan |-> a.wan, lan |-> a.lan, age |-> heap[c].age]
      <4>1. host'[s] = w
        BY <1>1, <2>2, <3>1, AnnouncedIs DEF a, c
      <4>2. w.wan = a.wan /\ w.lan = a.lan /\ w.age = heap[c].age
        OBVIOUS
      <4> HIDE DEF w
      <4>3. Shows(heap[c], s, w)
        BY <1>3, <3>1, <4>2 DEF Shows
      <4> QED BY <2>1, <4>1, <4>3 DEF Present
    <3>2. CASE s # a.sid
      <4>1. host'[s] = host[s]
        BY <1>1, <2>2, <3>2, AnnouncedIs DEF a, c
      <4>2. Present(heap, head, s, host[s])
        BY <1>10, <2>2, <4>1 DEF Expected, HostsListed
      <4> QED BY <2>1, <4>1, <4>2 DEF Present, Listed
    <3> QED BY <3>1, <3>2
  <2>3. HostsListed'
    BY <1>9, <2>2 DEF HostsListed, Carries
  <2>4. down' \subseteq down /\ Address(a) \notin down'
    BY <1>1, AnnouncedIs DEF a, c
  <2>5. ASSUME NEW n \in Listed', Address(heap'[n].ann) \in down' PROVE heap'[n].dead
    <3>1. n \in Listed \cup {c} /\ heap'[n] = heap[n]
      BY <1>9, <2>1 DEF Carries
    <3>2. n \in Listed /\ Address(heap[n].ann) \in down
      BY <1>3, <2>4, <2>5, <3>1
    <3> QED BY <1>10, <3>1, <3>2 DEF Expected, DownIsDead
  <2>6. DownIsDead'
    BY <2>5 DEF DownIsDead
  <2> QED BY <2>3, <2>6 DEF Expected
<1> QED BY <1>1, <1>9, <1>10

(* The loop goes on to a hit it must delete.                               *)
LEMMA LocateKeeps ==
  ASSUME ListInv, Entries, NEW t \in Threads, Locate(t)
  PROVE  Entries' /\ (Expected => Expected')
<1> DEFINE n == NextDoomed(t)
           prev == IF head = n THEN None
                   ELSE CHOOSE m \in Listed : heap[m].next = n
           v == [th[t] EXCEPT !.cur = n, !.prev = prev, !.next = heap[n].next,
                              !.located = TRUE]
<1>1. /\ n \in Listed /\ Scanning(t) /\ th' = [th EXCEPT ![t] = v]
      /\ Becomes(heap, head, th') /\ UNCHANGED <<lock, hostVars>>
  BY DEF Locate, Becomes
<1>2. prev = None \/ prev \in Listed
  <2>1. head # n => \E m \in Listed : heap[m].next = n
    BY <1>1, Predecessor
  <2> QED BY <2>1
<1>3. th[t] \in ThreadState /\ n \in DOMAIN heap /\ n # None
  BY <1>1, Predecessor, HitsAssumption DEF ListInv, ListOK, Linked
<1> HIDE DEF n, prev
<1>4. /\ v.cur = n /\ v.prev = prev /\ v.next = heap[n].next
      /\ v.pc = th[t].pc /\ v.arg = th[t].arg
  BY <1>3 DEF ThreadState
<1> HIDE DEF v
<1>5. Known(v.cur) /\ Known(v.prev) /\ Known(v.next)
  BY <1>1, <1>2, <1>3, <1>4, KnownPointers
<1>6. Locked(th[t], lock, t) /\ Gone(th[t], host)
  BY DEF Entries
<1>7. host' = host /\ down' = down /\ lock' = lock
  BY <1>1 DEF hostVars
<1>8. Locked(v, lock', t) /\ Gone(v, host') /\ v.pc # "link"
  BY <1>1, <1>3, <1>4, <1>6, <1>7 DEF Locked, Gone, Scanning
<1>9. ListOK(heap, head, th')
  BY LocateOK
<1> QED BY <1>1, <1>5, <1>7, <1>8, <1>9, MovesKeep

(* The hit that deleteHit takes off, as it found it, is none that is       *)
(* expected on the list: it is of the session that announces itself anew,  *)
(* or at the address withdrawn, or dead, or too old.                       *)
LEMMA CutIsUnexpected ==
  ASSUME ListInv, Entries, HostOK, NEW t \in Threads, Unlink(t), StillSo(th[t]),
         NEW s \in Sessions, host'[s] # None, th[t].cur \in DOMAIN heap
  PROVE  host'[s] = host[s] /\ ~Shows(heap[th[t].cur], s, host[s])
<1> DEFINE d == th[t]
           c == d.cur
<1>1. /\ d.pc \in {"session", "del", "clear"} /\ ToDelete(d.pc, c, d.arg)
      /\ d.pc # "del" => host' = host
      /\ d.pc = "del" => Withdrawn(HostsAt(d.arg))
  BY DEF Unlink, Scanning, StillSo
<1>2. host'[s] = host[s] /\ (d.pc = "del" => s \notin HostsAt(d.arg))
  BY <1>1 DEF Withdrawn
<1>3. ASSUME Shows(heap[c], s, host[s]) PROVE FALSE
  <2>1. CASE d.pc = "session"
    <3>1. heap[c].ann.sid = d.arg.sid /\ d.arg.sid # None
      BY <1>1, <2>1 DEF ToDelete, Entries, Locked
    <3>2. s = d.arg.sid
      BY <1>3, <3>1 DEF Shows
    <3>3. host[s] = None
      BY <2>1, <3>2 DEF Entries, Gone
    <3> QED BY <1>2, <3>3
  <2>2. CASE d.pc = "del"
    BY <1>1, <1>2, <1>3, <2>2 DEF ToDelete, SameAddress, Shows, HostsAt
  <2>3. CASE d.pc = "clear"
    <3>1. ~heap[c].dead /\ heap[c].age > DeadHitAge /\ heap[c].age <= host[s].age
      BY <1>1, <1>3, <2>3 DEF ToDelete, Shows
    <3>2. host[s].age \in 0 .. DeadHitAge /\ heap[c].age \in Nat /\ DeadHitAge \in Nat
      <4>1. host[s] \in Place /\ heap[c] \in Hit
        BY <1>2 DEF HostOK, ListInv, ListOK, Linked
      <4> QED BY <4>1, HitsAssumption DEF Place, Hit
    <3> HIDE DEF c
    <3> QED BY <3>1, <3>2
  <2> QED BY <1>1, <2>1, <2>2, <2>3
<1> QED BY <1>2, <1>3

(* deleteHit writes the link.                                              *)
LEMMA UnlinkKeeps ==
  ASSUME ListInv, Entries, HostOK, lost \in BOOLEAN, NEW t \in Threads, Unlink(t)
  PROVE  Entries' /\ ((~lost' /\ Expected) => (~lost /\ Expected'))
<1> DEFINE d == th[t]
           c == d.cur
           p == d.prev
           k == CutHeap(d)
           kd == CutHead(d)
<1>1. /\ d.located /\ d.pc \in {"session", "del", "clear"}
      /\ lock' = lock /\ down' = down /\ lost' = (lost \/ ~StillSo(d))
      /\ \A s \in Sessions : host'[s] \in {host[s], None}
  BY DEF Unlink, Scanning, Withdrawn
<1>2. /\ ListOK(k, kd, th') /\ Becomes(k, kd, th')
      /\ th' = Enter(t, d.pc, d.arg, d.next)
  BY UnlinkOK
<1>3. /\ Linked(heap) /\ Points(heap, head) /\ Points(heap, p) /\ Points(heap, d.next)
      /\ None \notin DOMAIN heap /\ \A n \in DOMAIN heap : heap[n] \in Hit
  BY HitsAssumption DEF ListInv, ListOK, Linked, ThreadOK
<1>4. /\ p = None => k = heap /\ kd = d.next
      /\ p # None => k = [heap EXCEPT ![p].next = d.next] /\ kd = head
  BY DEF CutHeap, CutHead
<1>5. Locked(d, lock, t) /\ Gone(d, host)
  BY DEF Entries
<1>6. Known(d.next) /\ Known(head) /\ Known(None)
      /\ \A n \in DOMAIN heap : Known(heap[n].next)
  BY KnownPointers
<1> HIDE DEF k, kd
<1>7. /\ DOMAIN k = DOMAIN heap
      /\ \A m \in DOMAIN heap :
            /\ k[m].next = IF p # None /\ m = p THEN d.next ELSE heap[m].next
            /\ k[m].ann = heap[m].ann /\ k[m].dead = heap[m].dead
            /\ k[m].age = heap[m].age
  <2>1. CASE p = None
    BY <1>4, <2>1
  <2>2. CASE p # None
    <3> DEFINE g == [heap[p] EXCEPT !.next = d.next]
    <3>1. p \in DOMAIN heap /\ heap[p] \in Hit
      BY <1>3, <2>2 DEF Points
    <3>2. /\ g.next = d.next /\ g.ann = heap[p].ann
          /\ g.dead = heap[p].dead /\ g.age = heap[p].age
      BY <3>1 DEF Hit
    <3>3. k = [heap EXCEPT ![p] = g]
      BY <1>4, <2>2
    <3> HIDE DEF g
    <3>4. DOMAIN k = DOMAIN heap /\ k[p] = g
          /\ \A m \in DOMAIN heap : m # p => k[m] = heap[m]
      BY <3>1, <3>3
    <3> HIDE DEF p, d
    <3> QED BY <2>2, <3>2, <3>4
  <2> QED BY <2>1, <2>2
<1> DEFINE pc == d.pc
           arg == d.arg
           next == d.next
<1> HIDE DEF pc, arg, next
<1>8a. PICK v : /\ Enter(t, pc, arg, next) = [th EXCEPT ![t] = v]
                /\ v.pc = pc /\ v.arg = arg /\ v.cur = next
                /\ v.prev = None /\ v.next = None /\ ~v.located
  BY EnterFields
<1>8. /\ th' = [th EXCEPT ![t] = v]
      /\ v.pc = d.pc /\ v.arg = d.arg /\ v.cur = d.next
      /\ v.prev = None /\ v.next = None /\ ~v.located
  BY <1>2, <1>8a DEF pc, arg, next
<1>9. ASSUME NEW y \in Threads, y # t, th[y].pc = "link"
      PROVE  Avoids(k, kd, v, th[y].cur)
  <2>1. th[y].cur \notin {d.next, head, None} /\ kd \in {d.next, head}
        /\ \A m \in DOMAIN heap : heap[m].next # th[y].cur
    BY <1>4, <1>6, <1>9 DEF Known
  <2> HIDE DEF d, p
  <2> QED BY <1>7, <1>8, <2>1 DEF Avoids
<1>10. \A y \in Threads : Gone(th[y], host) => Gone(th[y], host')
  BY <1>1 DEF Gone
<1>11. Locked(v, lock', t) /\ Gone(v, host') /\ v.pc # "link"
  BY <1>1, <1>5, <1>8 DEF Locked, Gone
<1>12. Entries' /\ Carries(k, kd)
  BY <1>1, <1>2, <1>7, <1>8, <1>9, <1>10, <1>11, OneMoves
<1>13. ASSUME StillSo(d), Expected PROVE Expected'
  <2>1. /\ d.next = heap[c].next /\ c # None /\ ToDelete(d.pc, c, d.arg)
        /\ p = None => head = c
        /\ p # None => p \in Listed /\ heap[p].next = c
    BY <1>1, <1>5, <1>13 DEF StillSo, Locked
  <2>2. c \in Reachable(heap, {head}) /\ (p # None => p \in Reachable(heap, {head}))
    <3> DEFINE L == Reachable(heap, {head})
    <3>1. Shut(heap, {head}, L)
      BY <1>3, ReachableShut DEF Points
    <3> HIDE DEF L
    <3> QED BY <2>1, <3>1 DEF Shut, Listed, L
  <2>3. p # None => head # c
    <3>1. ASSUME p # None, head = c PROVE FALSE
      <4>1. PICK rank \in [DOMAIN heap -> Nat] : Descends(heap, th, rank)
        BY DEF ListInv, ListOK, Ranked
      <4> DEFINE S == {m \in Listed : rank[m] <= rank[head]}
      <4>2. Listed \subseteq DOMAIN heap /\ Shut(heap, {head}, Listed)
        BY <1>3, ReachableShut DEF Listed, Points
      <4>3. c \in DOMAIN heap /\ p \in DOMAIN heap /\ rank[c] \in Nat /\ rank[p] \in Nat
        BY <2>1, <2>2, <3>1, <4>1, <4>2 DEF Listed
      <4>4. rank[c] < rank[p]
        BY <2>1, <3>1, <4>1, <4>3 DEF Descends
      <4>5. Shut(heap, {head}, S)
        <5>1. head \in S
          BY <2>2, <3>1, <4>3 DEF Listed
        <5>2. ASSUME NEW m \in S, heap[m].next # None PROVE heap[m].next \in S
          <6>1. heap[m].next \in Listed /\ m \in DOMAIN heap /\ head \in DOMAIN heap
            BY <3>1, <4>2, <4>3, <5>2 DEF Shut
          <6>2. rank[heap[m].next] < rank[m] /\ rank[m] <= rank[head]
            BY <4>1, <5>2, <6>1 DEF Descends
          <6>3. rank[heap[m].next] \in Nat /\ rank[m] \in Nat /\ rank[head] \in Nat
            BY <4>1, <4>2, <6>1
          <6> QED BY <6>1, <6>2, <6>3
        <5> QED BY <5>1, <5>2 DEF Shut
      <4>6. S \in SUBSET DOMAIN heap
        BY <4>2
      <4>7. p \in S
        <5> HIDE DEF S
        <5> QED BY <2>1, <3>1, <4>5, <4>6, ReachableLeast DEF Listed
      <4> QED BY <3>1, <4>3, <4>4, <4>7
    <3> QED BY <3>1
  <2>4. kd = IF head = c THEN heap[c].next ELSE head
    BY <1>4, <2>1, <2>3
  <2>5. head # c => /\ p \in Reachable(heap, {head}) /\ heap[p].next = c
                    /\ k[p].next = heap[c].next
    <3>1. Reachable(heap, {head}) \subseteq DOMAIN heap
      BY <1>3, ReachableShut DEF Points
    <3> HIDE DEF c, p, d
    <3> QED BY <1>7, <2>1, <2>2, <3>1
  <2>6. \A m \in DOMAIN heap : (head = c \/ m # p) => k[m].next = heap[m].next
    BY <1>7, <2>3
  <2>7. LosesOne(heap, head, c, k, kd)
    <3> HIDE DEF c, p, d
    <3> QED BY <1>3, <1>7, <2>2, <2>4, <2>5, <2>6, CutListed
  <2>8. Reachable(heap, {head}) \subseteq DOMAIN heap /\ c \in DOMAIN heap
    BY <1>3, <2>2, ReachableShut DEF Points
  <2>9. ASSUME NEW s \in Sessions, host'[s] # None
        PROVE  Present(heap', head', s, host'[s])
    <3>1. host'[s] = host[s] /\ ~Shows(heap[c], s, host[s])
      BY <1>13, <2>8, <2>9, CutIsUnexpected
    <3>2. PICK n \in Reachable(heap, {head}) : Shows(heap[n], s, host[s])
      BY <1>13, <2>9, <3>1 DEF Expected, HostsListed, Present
    <3>3. n # c /\ n \in Reachable(k, {kd}) /\ n \in DOMAIN heap
      BY <2>7, <2>8, <3>1, <3>2 DEF LosesOne
    <3>4. Shows(k[n], s, host[s])
      BY <1>7, <3>2, <3>3 DEF Shows
    <3>5. Present(k, kd, s, host[s])
      BY <3>3, <3>4 DEF Present
    <3> QED BY <1>12, <3>1, <3>5 DEF Carries
  <2>10. ASSUME NEW n \in Listed', Address(heap'[n].ann) \in down' PROVE heap'[n].dead
    <3>1. n \in Listed /\ heap'[n] = k[n] /\ n \in DOMAIN heap
      BY <1>12, <2>7, <2>8 DEF Carries, LosesOne, Listed
    <3> QED BY <1>1, <1>7, <1>13, <2>10, <3>1 DEF Expected, DownIsDead
  <2> QED BY <2>9, <2>10 DEF Expected, HostsListed, DownIsDead
<1> QED BY <1>1, <1>12, <1>13

(* The loop ends and, unless a hit is to be added, gives up the lock.      *)
LEMMA ScanEndsKeeps ==
  ASSUME ListInv, Entries, NEW t \in Threads, ScanEnds(t)
  PROVE  Entries' /\ (Expected => Expected')
<1>1. /\ ListOK(heap, head, th') /\ Scanning(t) /\ UNCHANGED hostVars
      /\ \A s \in Sessions : host'[s] \in {host[s], None}
      /\ down' \subseteq down /\ Known(None)
  BY ScanEndsOK, KnownPointers DEF ScanEnds, hostVars
<1> DEFINE arg == th[t].arg
<1>2. CASE /\ th[t].pc = "session" /\ UNCHANGED lock
           /\ Becomes(heap, head, Enter(t, "add", arg, None))
  <2>1. lock' = t
    BY <1>2 DEF Entries, Locked
  <2> HIDE DEF arg
  <2> QED BY <1>1, <1>2, <2>1, EnterKeeps
<1>3. CASE Becomes(heap, head, Leave(t)) /\ Unlock(t)
  BY <1>1, <1>3, LeaveKeeps DEF Unlock
<1> QED BY <1>2, <1>3 DEF ScanEnds

(* A thread comes to the list, with the lock or without it.                *)
LEMMA DelHitKeeps ==
  ASSUME ListInv, Entries, NEW t \in Threads, NEW a \in Ann, DelHit(t, a)
  PROVE  Entries' /\ (Expected => Expected')
<1>1. /\ Becomes(heap, head, Enter(t, "del", a, head)) /\ lock' = lock
      /\ \A s \in Sessions : host'[s] \in {host[s], None}
      /\ down' \subseteq down /\ Known(head)
  BY KnownPointers DEF DelHit, hostVars
<1>2. ListOK(heap, head, th')
  <2>1. ListOK(heap, head, th) /\ Points(heap, head)
    BY DEF ListInv, ListOK
  <2>2. ListOK(heap, head, Enter(t, "del", a, head))
    BY <2>1, EnterOK
  <2> QED BY <1>1, <2>2 DEF Becomes
<1> QED BY <1>1, <1>2, EnterKeeps

(* The idle thread comes to it when nobody has the lock.                   *)
LEMMA ClearDeadHitsKeeps ==
  ASSUME ListInv, Entries, ClearDeadHits
  PROVE  Entries' /\ (Expected => Expected')
<1>1. /\ lock = None /\ lock' = Idle /\ Idle \in Threads
      /\ Becomes(heap, head, Enter(Idle, "clear", None, head))
      /\ \A s \in Sessions : host'[s] \in {host[s], None}
      /\ down' \subseteq down /\ Known(head)
  BY KnownPointers DEF ClearDeadHits, Threads, hostVars
<1> QED BY <1>1, ClearDeadHitsOK, EnterKeeps

(* Time passes for the hits and for what is expected alike.                *)
LEMMA TickKeeps ==
  ASSUME ListInv, Entries, HostOK, Tick
  PROVE  Entries' /\ (Expected => Expected')
<1> DEFINE old(c) == [c EXCEPT !.age = IF @ > DeadHitAge THEN @ ELSE @ + 1,
                               !.contact = IF @ = MaxContact THEN @ ELSE @ + 1]
           k == [n \in DOMAIN heap |-> old(heap[n])]
<1>1. /\ heap' = k /\ UNCHANGED <<head, th, lock>> /\ down' = down
      /\ \A n \in DOMAIN heap : heap[n] \in Hit
  BY DEF Tick, ListInv, ListOK, Linked
<1>2. ASSUME NEW c \in Hit
      PROVE  /\ old(c).next = c.next /\ old(c).ann = c.ann
             /\ old(c).dead = c.dead /\ old(c).age <= c.age + 1 /\ old(c).age \in Nat
  <2>1. c.age \in Nat /\ DeadHitAge \in Nat
    BY HitsAssumption DEF Hit
  <2> DEFINE x == IF c.age > DeadHitAge THEN c.age ELSE c.age + 1
             y == IF c.contact = MaxContact THEN c.contact ELSE c.contact + 1
  <2>2. x <= c.age + 1 /\ x \in Nat
    BY <2>1
  <2>3. old(c) = [c EXCEPT !.age = x, !.contact = y]
    OBVIOUS
  <2> HIDE DEF x, y
  <2> QED BY <2>2, <2>3 DEF Hit
<1> HIDE DEF old
<1>3. DOMAIN k = DOMAIN heap /\ \A n \in DOMAIN heap : k[n] = old(heap[n])
  OBVIOUS
<1> HIDE DEF k
<1>4. SameList
  BY <1>1, <1>2, <1>3 DEF SameList
<1>5. ASSUME NEW s \in Sessions
      PROVE  /\ host[s] = None => host'[s] = None
             /\ host'[s] # None => /\ host[s] # None /\ host'[s].wan = host[s].wan
                                   /\ host'[s].lan = host[s].lan
                                   /\ host'[s].age = host[s].age + 1
                                   /\ host[s].age \in Nat
  <2>1. host'[s] = IF host[s] = None \/ host[s].age = DeadHitAge THEN None
                   ELSE [host[s] EXCEPT !.age = host[s].age + 1]
    BY DEF Tick
  <2>2. CASE host[s] = None
    BY <2>1, <2>2
  <2>3. CASE host[s] # None
    <3>1. host[s] \in Place
      BY <2>3 DEF HostOK
    <3> DEFINE v == [host[s] EXCEPT !.age = host[s].age + 1]
    <3>2. /\ v.wan = host[s].wan /\ v.lan = host[s].lan /\ v.age = host[s].age + 1
          /\ host[s].age \in Nat
      BY <3>1 DEF Place
    <3>3. host'[s] = IF host[s].age = DeadHitAge THEN None ELSE v
      BY <2>1, <2>3
    <3> HIDE DEF v
    <3> QED BY <2>3, <3>2, <3>3
  <2> QED BY <2>2, <2>3
<1>6. Entries' /\ Listed' = Listed
  BY <1>4, <1>5, SameListEntries DEF Gone
<1>7. \A n \in Listed : n \in DOMAIN heap
  BY Predecessor
<1>8. ASSUME HostsListed PROVE HostsListed'
  <2>1. ASSUME NEW s \in Sessions, host'[s] # None
        PROVE  Present(heap', head', s, host'[s])
    <3> DEFINE v == host[s]
               w == host'[s]
    <3>1. /\ v # None /\ v.age \in Nat
          /\ w.wan = v.wan /\ w.lan = v.lan /\ w.age = v.age + 1
      BY <1>5, <2>1
    <3>2. Present(heap, head, s, v)
      BY <1>8, <3>1 DEF HostsListed
    <3> HIDE DEF v, w
    <3>3. PICK n \in Reachable(heap, {head}) : Shows(heap[n], s, v)
      BY <3>2 DEF Present
    <3>4. n \in DOMAIN heap /\ n \in Reachable(heap', {head'}) /\ heap[n] \in Hit
      BY <1>1, <1>6, <1>7, <3>3 DEF Listed
    <3> DEFINE c == heap[n]
               e == heap'[n]
    <3>5. /\ e.ann = c.ann /\ e.dead = c.dead /\ e.age <= c.age + 1
          /\ e.age \in Nat /\ c.age \in Nat
      BY <1>1, <1>2, <1>3, <3>4, HitsAssumption DEF Hit
    <3> HIDE DEF c, e
    <3>6. Shows(e, s, w)
      BY <3>1, <3>3, <3>5 DEF Shows, c
    <3>7. Present(heap', head', s, w)
      BY <3>4, <3>6 DEF Present, e
    <3> QED BY <3>7 DEF w
  <2> QED BY <2>1 DEF HostsListed
<1>9. ASSUME DownIsDead PROVE DownIsDead'
  <2>1. ASSUME NEW n \in Listed, Address(heap'[n].ann) \in down PROVE heap'[n].dead
    <3>1. n \in DOMAIN heap
      BY <1>7
    <3> DEFINE c == heap[n]
               e == heap'[n]
    <3>2. e.ann = c.ann /\ e.dead = c.dead
      BY <1>1, <1>2, <1>3, <3>1
    <3> QED BY <1>9, <2>1, <3>2 DEF DownIsDead
  <2> QED BY <1>1, <1>6, <2>1 DEF DownIsDead
<1> QED BY <1>6, <1>8, <1>9 DEF Expected

(* A source that fails is marked wherever it is listed.                    *)
LEMMA SourceFailsKeeps ==
  ASSUME ListInv, Entries, SourceFails
  PROVE  Entries' /\ (Expected => Expected')
<1> DEFINE a == source.ann
           hit(n) == n \in Listed /\ SameAddress(n, a)
           k == [n \in DOMAIN heap |-> IF hit(n) THEN [heap[n] EXCEPT !.dead = TRUE]
                                       ELSE heap[n]]
<1>1. /\ heap' = k /\ UNCHANGED <<head, th, lock>>
      /\ Withdrawn(HostsAt(a)) /\ down' = down \cup {Address(a)}
  BY DEF SourceFails, DeadHit
<1>2. \A n : hit(n) <=> n \in Listed /\ SameAddress(n, a)
  OBVIOUS
<1> HIDE DEF a, hit
<1>3. ASSUME NEW m \in DOMAIN heap
      PROVE  /\ k[m].next = heap[m].next /\ k[m].ann = heap[m].ann
             /\ k[m].age = heap[m].age
             /\ hit(m) => k[m].dead
             /\ ~hit(m) => k[m].dead = heap[m].dead
  <2>1. heap[m] \in Hit
    BY DEF ListInv, ListOK, Linked
  <2> DEFINE c == [heap[m] EXCEPT !.dead = TRUE]
  <2>2. /\ c.next = heap[m].next /\ c.ann = heap[m].ann
        /\ c.dead = TRUE /\ c.age = heap[m].age
    BY <2>1 DEF Hit
  <2>3. k[m] = IF hit(m) THEN c ELSE heap[m]
    OBVIOUS
  <2> HIDE DEF k, c
  <2> QED BY <2>2, <2>3
<1>4. DOMAIN k = DOMAIN heap
  OBVIOUS
<1> HIDE DEF k
<1>5. SameList
  BY <1>1, <1>2, <1>3, <1>4 DEF SameList
<1>6. \A s \in Sessions : host'[s] = IF s \in HostsAt(a) THEN None ELSE host[s]
  BY <1>1 DEF Withdrawn
<1>7. Entries' /\ Listed' = Listed
  BY <1>5, <1>6, SameListEntries DEF Gone
<1>8. \A n \in Listed : n \in DOMAIN heap
  BY Predecessor
<1>9. ASSUME HostsListed PROVE HostsListed'
  <2>1. ASSUME NEW s \in Sessions, host'[s] # None
        PROVE  Present(heap', head', s, host'[s])
    <3>1. host'[s] = host[s] /\ host[s] # None /\ s \notin HostsAt(a)
      BY <1>6, <2>1
    <3>2. PICK n \in Reachable(heap, {head}) : Shows(heap[n], s, host[s])
      BY <1>9, <3>1 DEF HostsListed, Present
    <3>3. n \in DOMAIN heap /\ n \in Reachable(heap', {head'})
      BY <1>7, <1>8, <3>2 DEF Listed
    <3>4. ~hit(n)
      BY <1>2, <3>1, <3>2 DEF SameAddress, Shows, HostsAt
    <3>5. Shows(heap'[n], s, host[s])
      BY <1>1, <1>3, <3>2, <3>3, <3>4 DEF Shows
    <3> QED BY <3>1, <3>3, <3>5 DEF Present
  <2> QED BY <2>1 DEF HostsListed
<1>10. ASSUME DownIsDead PROVE DownIsDead'
  <2>1. ASSUME NEW n \in Listed, Address(heap'[n].ann) \in down' PROVE heap'[n].dead
    <3>1. n \in DOMAIN heap /\ heap'[n].ann = heap[n].ann
      BY <1>1, <1>3, <1>8
    <3>2. CASE hit(n)
      BY <1>1, <1>3, <3>1, <3>2
    <3>3. CASE ~hit(n)
      <4>1. Address(heap[n].ann) \in down
        BY <1>1, <1>2, <2>1, <3>1, <3>3 DEF Address, SameAddress
      <4> QED BY <1>1, <1>3, <1>10, <3>1, <3>3, <4>1 DEF DownIsDead
    <3> QED BY <3>2, <3>3
  <2> QED BY <1>7, <2>1 DEF DownIsDead
<1> QED BY <1>7, <1>9, <1>10 DEF Expected

(* The other steps: a search, an answer, the end of a source.              *)
LEMMA QuietKeeps ==
  ASSUME ListInv, Entries,
         PickSource \/ SourceEnds \/ Refuse \/ SendHit \/ SendRest \/ UNCHANGED vars
  PROVE  Entries' /\ (Expected => Expected') /\ lost' = lost
<1>1. UNCHANGED <<head, th, lock, host, down, lost>>
  BY DEF PickSource, SourceEnds, Refuse, SendHit, SendRest, vars, hostVars
<1>2. /\ DOMAIN heap' = DOMAIN heap
      /\ \A n \in DOMAIN heap :
            /\ heap'[n].next = heap[n].next /\ heap'[n].ann = heap[n].ann
            /\ heap'[n].dead = heap[n].dead /\ heap'[n].age = heap[n].age
  <2>1. heap' = heap \/ \E n, chs : heap' = Contacted(n, chs)
    BY DEF PickSource, SourceEnds, Refuse, SendHit, SendRest, PushRequest, vars
  <2>2. ASSUME NEW n, heap' = [heap EXCEPT ![n].contact = 0]
        PROVE  <1>2!1 /\ <1>2!2
    <3> DEFINE k == [heap EXCEPT ![n] = [heap[n] EXCEPT !.contact = 0]]
    <3>1. heap' = k
      BY <2>2
    <3>2. ASSUME NEW m \in DOMAIN heap
          PROVE  /\ k[m].next = heap[m].next /\ k[m].ann = heap[m].ann
                 /\ k[m].dead = heap[m].dead /\ k[m].age = heap[m].age
      <4>1. heap[m] \in Hit
        BY DEF ListInv, ListOK, Linked
      <4> DEFINE c == [heap[m] EXCEPT !.contact = 0]
      <4>2. /\ c.next = heap[m].next /\ c.ann = heap[m].ann
            /\ c.dead = heap[m].dead /\ c.age = heap[m].age
        BY <4>1 DEF Hit
      <4>3. k[m] = IF m = n THEN c ELSE heap[m]
        OBVIOUS
      <4> HIDE DEF k, c
      <4> QED BY <4>2, <4>3
    <3>3. DOMAIN k = DOMAIN heap
      OBVIOUS
    <3> HIDE DEF k
    <3> QED BY <3>1, <3>2, <3>3
  <2> QED BY <2>1, <2>2 DEF Contacted
<1>3. SameList
  BY <1>1, <1>2 DEF SameList
<1>4. Entries' /\ Listed' = Listed
  BY <1>1, <1>3, SameListEntries
<1>5. \A n \in Listed : n \in DOMAIN heap
  BY Predecessor
<1>6. ASSUME HostsListed PROVE HostsListed'
  <2>1. ASSUME NEW s, NEW v, Present(heap, head, s, v) PROVE Present(heap', head', s, v)
    BY <1>2, <1>4, <1>5, <2>1 DEF Present, Shows, Listed
  <2> QED BY <1>1, <1>6, <2>1 DEF HostsListed
<1>7. ASSUME DownIsDead PROVE DownIsDead'
  BY <1>1, <1>2, <1>4, <1>5, <1>7 DEF DownIsDead
<1> QED BY <1>1, <1>4, <1>6, <1>7 DEF Expected

(* The list, who is in it, and what is expected of it.                     *)
KeptInv == TypeInv /\ Entries /\ (~lost => Expected)

(* It holds of the empty list ...                                          *)
LEMMA KeptInit == Init => KeptInv
<1> SUFFICES ASSUME Init PROVE KeptInv
  OBVIOUS
<1>1. TypeInv
  BY TypeInit
<1>2. \A x \in Threads : /\ th[x].pc = "rest" /\ ~th[x].located
  BY DEF Init, AtRest
<1>3. Entries
  BY <1>2 DEF Entries, NewHits, Locked, Gone
<1>4. HostsListed
  BY DEF HostsListed, Init
<1>5. DownIsDead
  BY DEF DownIsDead, Init
<1> QED BY <1>1, <1>3, <1>4, <1>5 DEF KeptInv, Expected

(* ... and every step keeps it.                                            *)
LEMMA KeptNext == KeptInv /\ [Next]_vars => KeptInv'
<1> SUFFICES ASSUME KeptInv, [Next]_vars PROVE KeptInv'
  OBVIOUS
<1>0. /\ TypeInv /\ ListInv /\ HostOK /\ Entries /\ lost \in BOOLEAN
      /\ ~lost => Expected
  BY DEF KeptInv, TypeInv
<1>0a. Conns \subseteq Threads /\ Source \in Threads
       /\ Announcements \subseteq Ann /\ Tips \subseteq Ann /\ Leaving \subseteq Ann
  BY HitsAssumption DEF Threads, Ann
<1> DEFINE Kept == Entries' /\ (~lost' => Expected')
<1>1. ASSUME NEW t \in Conns, NEW a \in Announcements, Announce(t, a) PROVE Kept
  <2>1. lock = None /\ AddHit(t, a, t) /\ lost' = lost
    BY <1>1 DEF Announce
  <2> QED BY <1>0, <1>0a, <2>1, AddHitKeeps
<1>2. ASSUME NEW a \in Tips, SourceTip(a) PROVE Kept
  <2>1. AddHit(Source, a, lock) /\ lost' = lost /\ a.sid = None
    BY <1>2, HitsAssumption DEF SourceTip
  <2> QED BY <1>0, <1>0a, <2>1, AddHitKeeps
<1>3. ASSUME NEW t \in Conns, NEW a \in Leaving, DelHit(t, a) PROVE Kept
  BY <1>0, <1>0a, <1>3, DelHitKeeps DEF DelHit, hostVars
<1>4. ASSUME NEW t \in Threads, Step(t) PROVE Kept
  <2>1. CASE MakeHit(t)
    BY <1>0, <2>1, MakeHitKeeps DEF MakeHit, hostVars
  <2>2. CASE LinkHit(t)
    BY <1>0, <2>2, LinkHitKeeps DEF LinkHit
  <2>3. CASE Locate(t)
    BY <1>0, <2>3, LocateKeeps DEF Locate, hostVars
  <2>4. CASE Unlink(t)
    BY <1>0, <2>4, UnlinkKeeps DEF Unlink
  <2>5. CASE ScanEnds(t)
    BY <1>0, <2>5, ScanEndsKeeps DEF ScanEnds, hostVars
  <2> QED BY <1>4, <2>1, <2>2, <2>3, <2>4, <2>5 DEF Step
<1>5. ASSUME ClearDeadHits PROVE Kept
  BY <1>0, <1>5, ClearDeadHitsKeeps DEF ClearDeadHits, hostVars
<1>6. ASSUME Tick PROVE Kept
  BY <1>0, <1>6, TickKeeps DEF Tick
<1>7. ASSUME SourceFails PROVE Kept
  BY <1>0, <1>7, SourceFailsKeeps DEF SourceFails
<1>8. ASSUME PickSource \/ SourceEnds \/ Refuse \/ SendHit \/ SendRest
             \/ UNCHANGED vars
      PROVE  Kept
  BY <1>0, <1>8, QuietKeeps
<1>9. Kept
  <2> HIDE DEF Kept
  <2> QED BY <1>1, <1>2, <1>3, <1>4, <1>5, <1>6, <1>7, <1>8 DEF Next
<1>10. TypeInv'
  BY <1>0, TypeNext
<1> QED BY <1>9, <1>10 DEF KeptInv

(* A host that announced itself, that no delHit has taken off since and    *)
(* that was not reported dead is listed until it is too old, however       *)
(* announcements, moves, failures, clearing and the changes that delHit    *)
(* and the channel's thread make without the lock come together: only a    *)
(* lost update, the write of a link that is no longer as it was read,      *)
(* loses it.                                                               *)
THEOREM AnnouncedStaysListed == Spec => []AnnouncedIsListed
<1>1. KeptInv => AnnouncedIsListed
  BY DEF KeptInv, Expected, HostsListed, Present, Shows, AnnouncedIsListed, Listed
<1>2. KeptInv /\ [Next]_vars => KeptInv'
  BY KeptNext
<1> QED BY <1>1, <1>2, KeptInit, PTL DEF Spec

(* The channel does not go back to an address that failed until it is      *)
(* announced again, whatever threads do to the list with the lock or       *)
(* without it, unless a lost update has put a hit back.                    *)
THEOREM FailedStaysUnpicked == Spec => FailedNotPicked
<1>1. KeptInv /\ [Next]_vars =>
        [~lost /\ source = None /\ source' # None =>
           Address(source'.ann) \notin down']_vars
  <2> SUFFICES ASSUME KeptInv, Next, ~lost, source = None, source' # None
               PROVE  Address(source'.ann) \notin down'
    OBVIOUS
  <2>0. ListInv /\ DownIsDead
    BY DEF KeptInv, TypeInv, Expected
  <2>1. ASSUME NEW a \in Tips, SourceTip(a) PROVE Address(source'.ann) \notin down'
    <3>1. source' = [ann |-> a, chanID |-> FALSE] /\ AddHit(Source, a, lock)
      BY <2>1 DEF SourceTip
    <3>2. Address(a) \notin down'
      BY <3>1 DEF AddHit, Announced
    <3>3. source'.ann = a
      BY <3>1
    <3> QED BY <3>2, <3>3
  <2>2. CASE PickSource
    <3> DEFINE chs == SourceSearches[FirstSearch(SourceSearches)]
               n == PickHit(chs)
    <3>1. source' = [ann |-> heap[n].ann, chanID |-> heap[n].chanID] /\ down' = down
      BY <2>2 DEF PickSource, hostVars
    <3>2. n # None
      <4>1. FirstSearch(SourceSearches) > 0
        BY <2>2 DEF PickSource
      <4>2. n \in DOMAIN heap
        BY <2>0, <4>1, FoundIsHit, SearchesType
      <4> QED BY <2>0, <4>2, HitsAssumption DEF ListInv, ListOK, Linked
    <3> HIDE DEF chs
    <3>3. n \in Listed /\ ~heap[n].dead
      BY <2>0, <3>2, FoundIsListed DEF Eligible
    <3> HIDE DEF n
    <3>4. source'.ann = heap[n].ann
      BY <3>1
    <3> QED BY <2>0, <3>1, <3>3, <3>4 DEF DownIsDead
  <2>3. \A t \in Threads : Step(t) => UNCHANGED source
    BY DEF Step, MakeHit, LinkHit, Locate, Unlink, ScanEnds
  <2>4. \A t, a : Announce(t, a) \/ DelHit(t, a) => UNCHANGED source
    BY DEF Announce, DelHit
  <2>5. ClearDeadHits \/ Tick \/ SourceEnds \/ SourceFails \/ Refuse \/ SendHit
           \/ SendRest => source' = source \/ source' = None
    BY DEF ClearDeadHits, Tick, SourceEnds, SourceFails, Refuse, SendHit, SendRest
  <2> QED BY <2>1, <2>2, <2>3, <2>4, <2>5 DEF Next
<1>2. KeptInv /\ [Next]_vars => KeptInv'
  BY KeptNext
<1> QED BY <1>1, <1>2, KeptInit, PTL DEF Spec, FailedNotPicked
=============================================================================
