------------------------------ MODULE ChanHits ------------------------------
(***************************************************************************)
(* The hit list of a channel (core/common/chanhit.cpp and the part of      *)
(* chanmgr.cpp that guards it): the hosts known to carry the channel, kept *)
(* as a linked list of ChanHit objects.  PCP connections announce hosts    *)
(* (addHit) and report that they have left (delHit); the channel's thread  *)
(* picks a source and reports those that failed (deadHit); a refused       *)
(* client is answered with other hosts (handshakeStream_returnHits); the   *)
(* idle thread forgets hits that are dead or old.                          *)
(*                                                                         *)
(* ChanMgr::addHit and ChanMgr::clearDeadHits hold chanMgr->lock; delHit,  *)
(* deadHit, pickHits and the channel's own addHit of a tracker do not.     *)
(* The list is therefore modelled down to its links: taking a hit off is   *)
(* locating it and then writing one link, putting one on is reading the    *)
(* head and then writing it, and other threads come in between.  A scan    *)
(* that changes no link (pickHits, deadHit, the match of addHit) is one    *)
(* step.  A removed ChanHit keeps its link and lives on, being held by a   *)
(* shared_ptr, while a thread or another hit points at it.                 *)
(***************************************************************************)
EXTENDS Integers, Sequences, FiniteSets, SequencesExt

CONSTANTS
    Nodes,           \* bound: ChanHit objects in existence at a time
    Conns,           \* threads that process PCP host atoms and tracker tips
    Announcements,   \* what hosts announce of themselves
    Leaving,         \* those of them that may also report they have left
    Tips,            \* trackers the channel directory knows (no session)
    ServerHost,      \* our own global address, servMgr->serverHost
    Client,          \* the refused client, None: nobody is refused
    DeadHitAge,      \* 180 in ChanMgr::clearDeadHits
    RelayRetry,      \* MIN_RELAY_RETRY
    TrackerRetry,    \* MIN_TRACKER_RETRY
    AnswerDelay,     \* 2 in handshakeStream_returnHits
    PushDelay,       \* 30 there
    MaxAnswer,       \* 8 there
    Us,              \* servMgr->sessionID
    None             \* nullptr, an unset address, an unset session

Source == "source"     \* the channel's thread
Idle == "idle"         \* the idle thread
Threads == Conns \cup {Source, Idle}

MaxContact ==
    CHOOSE d \in {RelayRetry, TrackerRetry, AnswerDelay, PushDelay} :
        \A e \in {RelayRetry, TrackerRetry, AnswerDelay, PushDelay} : e <= d

ASSUME HitsAssumption ==
    /\ DeadHitAge \in Nat
    /\ {RelayRetry, TrackerRetry, AnswerDelay, PushDelay} \subseteq Nat \ {0}
    /\ Leaving \subseteq Announcements
    /\ MaxAnswer \in Nat \ {0}
    /\ None \notin Nodes \cup Threads /\ IsFiniteSet(Nodes)
    /\ \A a \in Announcements \cup Tips :
          a.hops \in Nat /\ {a.tracker, a.firewalled} \subseteq BOOLEAN
    /\ Us \notin {a.sid : a \in Announcements}
    /\ \A a \in Tips : a.sid = None

VARIABLES
    heap,     \* the ChanHit objects that something points at
    head,     \* ChanHitList::hit
    lock,     \* holder of chanMgr->lock
    th,       \* where each thread is
    source,   \* ch->sourceHost of the channel's thread
    answer,   \* the answer to the refused client, in the order it is sent
    host,     \* history: what each session last announced, and how long ago
    down,     \* history: addresses reported dead and not announced since
    lost      \* history: a change of the list was overtaken by another one

hostVars == <<host, down, lost>>
vars == <<heap, head, lock, th, source, answer, hostVars>>

(* A hit, as announced, with the time since it was announced (ChanHit::time) *)
(* and since it was last picked (lastContact), each up to where it matters,  *)
(* and whether its chanID is set.                                            *)
Sessions == {a.sid : a \in Announcements} \ {None}
Hit == [ann : Announcements \cup Tips, chanID : BOOLEAN, dead : BOOLEAN,
        age : 0 .. DeadHitAge + 1, contact : 0 .. MaxContact,
        next : Nodes \cup {None}]

NewHit(a, n, chanID) == [ann |-> a, chanID |-> chanID, dead |-> FALSE,
                         age |-> 0, contact |-> MaxContact, next |-> n]

(* A thread outside the list, and one that scans it for hits to take off. *)
AtRest == [pc |-> "rest", arg |-> None, cur |-> None, prev |-> None,
           next |-> None, located |-> FALSE]

------------------------------------------------------------------------------
(* Links. *)

(* The nodes reached from n through the links of h, in order. *)
Chain(h, n) ==
    LET upTo[k \in 0 .. Cardinality(Nodes)] ==
          IF k = 0 THEN <<>>
          ELSE LET s == upTo[k - 1]
                   m == IF s = <<>> THEN n ELSE h[Last(s)].next
               IN  IF m = None THEN s ELSE Append(s, m)
    IN  upTo[Cardinality(Nodes)]

(* The nodes of h that the pointers in roots lead to: those in every set    *)
(* that holds the roots and, with each node, its successor.                 *)
Reachable(h, roots) ==
    {n \in DOMAIN h : \A S \in SUBSET DOMAIN h :
        (/\ roots \subseteq S \cup {None}
         /\ \A m \in S : h[m].next \in S \cup {None}) => n \in S}

List == Chain(heap, head)
Listed == Reachable(heap, {head})

(* Mutant: the pointers of the threads hold nothing. *)
Held_RawPointers(h, hd, t) == [n \in Reachable(h, {hd}) |-> h[n]]

(* What is left of h once the objects nothing points at are deleted. *)
Held(h, hd, t) ==
    LET roots == {hd} \cup UNION {{t[x].cur, t[x].prev, t[x].next} :
                                     x \in Threads}
    IN  [n \in Reachable(h, roots) |-> h[n]]

(* The three parts of the list's state after a step. *)
Becomes(h, hd, t) ==
    /\ heap' = Held(h, hd, t)
    /\ head' = hd
    /\ th' = t

Enter(t, pc, arg, cur) ==
    [th EXCEPT ![t] = [AtRest EXCEPT !.pc = pc, !.arg = arg, !.cur = cur]]
Leave(t) == [th EXCEPT ![t] = AtRest]

------------------------------------------------------------------------------
(* ChanHitList::addHit *)

(* The hits that a new announcement a can replace in place, and the first. *)
SameHost(n, a) ==
    /\ heap[n].ann.wan = a.wan
    /\ heap[n].ann.lan = a.lan \/ heap[n].ann.lan = None
    /\ ~heap[n].dead

Match(a) == SelectInSeq(List, LAMBDA n : SameHost(n, a))    \* 0: none

(* The sessions that are expected to be listed where a is.                 *)
HostsAt(a) ==
    {s \in Sessions : /\ host[s] # None
                      /\ host[s].wan = a.wan /\ host[s].lan \in {a.lan, None}}
Address(a) == [wan |-> a.wan, lan |-> a.lan]

(* What is expected of the list once a is announced, as of age: the        *)
(* session is listed, and others are no longer at its address.  While a    *)
(* session moves, and once it has left or is reported dead, nothing is.    *)
Announced(a, age) ==
    /\ host' = [s \in Sessions |->
                  IF s = a.sid /\ age <= DeadHitAge
                  THEN [wan |-> a.wan, lan |-> a.lan, age |-> age]
                  ELSE IF s = a.sid \/ (a.sid # None /\ s \in HostsAt(a))
                  THEN None ELSE host[s]]
    /\ down' = down \ {Address(a)}

Withdrawn(sids) ==
    host' = [s \in Sessions |-> IF s \in sids THEN None ELSE host[s]]

(* Mutant: a host that announces itself again moves to the head. *)
AddHit_MovesToHead(t, a, holder) ==
    LET m == Match(a)
        hit == List[m]
    IN  \/ /\ m > 0
           /\ heap' = [n \in DOMAIN heap |->
                 CASE n = hit -> NewHit(a, IF m = 1 THEN heap[n].next ELSE head, TRUE)
                   [] n # hit /\ heap[n].next = hit ->
                        [heap[n] EXCEPT !.next = heap[hit].next]
                   [] OTHER -> heap[n]]
           /\ head' = hit
           /\ Announced(a, 0)
           /\ UNCHANGED <<th, lock>>
        \/ /\ m = 0
           /\ Becomes(heap, head,
                 IF a.sid # None THEN Enter(t, "session", a, head)
                                 ELSE Enter(t, "add", a, None))
           /\ lock' = holder
           /\ Withdrawn({a.sid}) /\ down' = down \ {Address(a)}

(* ChanHitList::addHit(a) by thread t: the match and the overwriting of    *)
(* *ch; without a match the hits of the same session are taken off and a   *)
(* new one is put at the head, holder keeping chanMgr->lock all along.     *)
(* The tracker that the channel's thread adds has no chanID.  An           *)
(* announcement of our own session changes nothing and is left out.        *)
AddHit(t, a, holder) ==
    LET m == Match(a)
    IN  \/ /\ m > 0
           /\ heap' = [heap EXCEPT ![List[m]] = NewHit(a, @.next, t # Source)]
           /\ Announced(a, 0)
           /\ UNCHANGED <<head, th, lock>>
        \/ /\ m = 0
           /\ Becomes(heap, head,
                 IF a.sid # None THEN Enter(t, "session", a, head)
                                 ELSE Enter(t, "add", a, None))
           /\ lock' = holder
           /\ Withdrawn({a.sid}) /\ down' = down \ {Address(a)}

(* ChanMgr::addHit, from a host atom of a connection or the tip of a URL. *)
Announce(t, a) ==
    /\ th[t] = AtRest
    /\ lock = None
    /\ AddHit(t, a, t)
    /\ UNCHANGED <<source, answer, lost>>

(* "else add new hit": the new object takes the head as its successor ... *)
MakeHit(t) ==
    /\ th[t].pc = "add"
    /\ \E n \in Nodes \ DOMAIN heap :
          /\ heap' = [m \in DOMAIN heap \cup {n} |->
                        IF m = n THEN NewHit(th[t].arg, head, TRUE) ELSE heap[m]]
          /\ th' = [th EXCEPT ![t] = [@ EXCEPT !.pc = "link", !.cur = n]]
    /\ UNCHANGED <<head, lock, source, answer, hostVars>>

Unlock(t) == lock' = IF lock = t THEN None ELSE lock

(* ... and becomes the head. *)
LinkHit(t) ==
    /\ th[t].pc = "link"
    /\ lost' = (lost \/ heap[th[t].cur].next # head)
    /\ Becomes(heap, th[t].cur, Leave(t))
    /\ Announced(th[t].arg, heap[th[t].cur].age)
    /\ Unlock(t)
    /\ UNCHANGED <<source, answer>>

------------------------------------------------------------------------------
(* Taking hits off: the loops of addHit ("session"), delHit ("del") and     *)
(* ChanHitList::clearDeadHits ("clear"), and deleteHit.                     *)

SameAddress(n, a) == heap[n].ann.wan = a.wan /\ heap[n].ann.lan = a.lan

(* Mutants: an age limit off by one, and one that no live hit reaches. *)
ToDelete_TooEarly(op, n, a) ==
    CASE op = "session" -> heap[n].ann.sid = a.sid
      [] op = "del"     -> SameAddress(n, a)
      [] op = "clear"   -> heap[n].dead \/ heap[n].age >= DeadHitAge
ToDelete_OnlyDead(op, n, a) ==
    CASE op = "session" -> heap[n].ann.sid = a.sid
      [] op = "del"     -> SameAddress(n, a)
      [] op = "clear"   -> heap[n].dead

ToDelete(op, n, a) ==
    CASE op = "session" -> heap[n].ann.sid = a.sid
      [] op = "del"     -> SameAddress(n, a)
      [] op = "clear"   -> heap[n].dead \/ heap[n].age > DeadHitAge

Scanning(t) == th[t].pc \in {"session", "del", "clear"}

(* The next hit the loop of t has to delete, from where it is. *)
NextDoomed(t) ==
    LET doomed == SelectSeq(Chain(heap, th[t].cur),
                            LAMBDA n : ToDelete(th[t].pc, n, th[t].arg))
    IN  IF doomed = <<>> THEN None ELSE doomed[1]

(* The loop goes on to the next hit it must delete, and deleteHit looks for *)
(* the link to it, from the head.                                           *)
Locate(t) ==
    LET n == NextDoomed(t)
        prev == IF head = n THEN None
                ELSE CHOOSE m \in Listed : heap[m].next = n
    IN  /\ Scanning(t) /\ ~th[t].located
        /\ n \in Listed
        /\ ToDelete(th[t].pc, n, th[t].arg)        \* as the loop found it
        /\ Becomes(heap, head,
             [th EXCEPT ![t] = [@ EXCEPT !.cur = n, !.prev = prev,
                                         !.next = heap[n].next,
                                         !.located = TRUE]])
        /\ UNCHANGED <<lock, source, answer, hostVars>>

(* The hit located is still to be deleted, and the link to it and its own   *)
(* are as they were read.                                                   *)
StillSo(d) ==
    /\ ToDelete(d.pc, d.cur, d.arg) /\ heap[d.cur].next = d.next
    /\ IF d.prev = None THEN head = d.cur
                        ELSE d.prev \in Listed /\ heap[d.prev].next = d.cur

(* deleteHit writes the one link. *)
Unlink(t) ==
    LET d == th[t]
    IN  /\ Scanning(t) /\ d.located
        /\ lost' = (lost \/ ~StillSo(d))
        /\ IF d.pc = "del" THEN Withdrawn(HostsAt(d.arg)) ELSE UNCHANGED host
        /\ Becomes(IF d.prev = None THEN heap
                   ELSE [heap EXCEPT ![d.prev].next = d.next],
                   IF d.prev = None THEN d.next ELSE head,
                   Enter(t, d.pc, d.arg, d.next))
        /\ UNCHANGED <<lock, source, answer, down>>

(* The loop ends with nothing left to delete, or when the hit to delete was *)
(* taken off by another thread: deleteHit returns nullptr then.             *)
ScanEnds(t) ==
    /\ Scanning(t) /\ ~th[t].located
    /\ NextDoomed(t) \notin Listed
    /\ \/ /\ th[t].pc = "session"
          /\ Becomes(heap, head, Enter(t, "add", th[t].arg, None))
          /\ UNCHANGED lock
       \/ /\ th[t].pc # "session"
          /\ Becomes(heap, head, Leave(t))
          /\ Unlock(t)
    /\ UNCHANGED <<source, answer, hostVars>>

(* ChanMgr::delHit, from a host atom without the recv flag *)
DelHit(t, a) ==
    /\ th[t] = AtRest
    /\ Becomes(heap, head, Enter(t, "del", a, head))
    /\ UNCHANGED <<lock, source, answer, hostVars>>

(* ChanMgr::clearDeadHits(true), from the idle thread *)
ClearDeadHits ==
    /\ th[Idle] = AtRest
    /\ lock = None
    /\ lock' = Idle
    /\ Becomes(heap, head, Enter(Idle, "clear", None, head))
    /\ UNCHANGED <<source, answer, hostVars>>

(* A unit of time. *)
Tick ==
    /\ heap' = [n \in DOMAIN heap |->
                  [heap[n] EXCEPT !.age = IF @ > DeadHitAge THEN @ ELSE @ + 1,
                                  !.contact = IF @ = MaxContact THEN @ ELSE @ + 1]]
    /\ host' = [s \in Sessions |->
                  IF host[s] = None \/ host[s].age = DeadHitAge THEN None
                  ELSE [host[s] EXCEPT !.age = @ + 1]]
    /\ UNCHANGED <<head, lock, th, source, answer, down, lost>>

------------------------------------------------------------------------------
(* ChanHitList::pickHits.  The searches below all admit hosts that are busy *)
(* (useBusyRelays, useBusyControls).                                        *)

(* ChanHitSearch::init *)
AnySearch == [match |-> None, wait |-> 0, firewalled |-> FALSE,
              trackers |-> FALSE, exclude |-> None]

Eligible(n, chs) ==
    LET a == heap[n].ann
    IN  /\ ~heap[n].dead
        /\ chs.exclude # a.sid
        /\ chs.wait = 0 \/ heap[n].contact >= chs.wait
        /\ a.hops < 255
        /\ a.tracker = chs.trackers
        /\ IF chs.match # None THEN a.wan = chs.match /\ a.lan # None
                               ELSE a.firewalled = chs.firewalled

(* Mutant: the last of the nearest *)
PickHit_Last(chs) ==
    LET best[k \in 0 .. Len(List)] ==
          IF k = 0 THEN None
          ELSE IF /\ Eligible(List[k], chs)
                  /\ \/ best[k - 1] = None
                     \/ heap[List[k]].ann.hops <= heap[best[k - 1]].ann.hops
               THEN List[k] ELSE best[k - 1]
    IN  best[Len(List)]

(* The loop: a hit replaces the best so far only if it is nearer. *)
PickHit(chs) ==
    LET best[k \in 0 .. Len(List)] ==
          IF k = 0 THEN None
          ELSE IF /\ Eligible(List[k], chs)
                  /\ \/ best[k - 1] = None
                     \/ heap[List[k]].ann.hops < heap[best[k - 1]].ann.hops
               THEN List[k] ELSE best[k - 1]
    IN  best[Len(List)]

(* The first of several searches that finds a hit; 0 when none does. *)
FirstSearch(searches) ==
    SelectInSeq(searches, LAMBDA chs : PickHit(chs) # None)

(* The hits after a search with chs returned n: lastContact is set. *)
Contacted(n, chs) ==
    IF chs.wait = 0 THEN heap ELSE [heap EXCEPT ![n].contact = 0]

------------------------------------------------------------------------------
(* The channel's thread: PeercastSource::pickFromHitList and the outcome.   *)

SourceSearches ==
    LET relay == [AnySearch EXCEPT !.wait = RelayRetry, !.exclude = Us]
        tracker == [AnySearch EXCEPT !.wait = TrackerRetry, !.exclude = Us,
                                     !.trackers = TRUE]
    IN  << [relay EXCEPT !.match = ServerHost], relay,
           [tracker EXCEPT !.match = ServerHost], tracker >>

PickSource ==
    LET i == FirstSearch(SourceSearches)
        n == PickHit(SourceSearches[i])
    IN  /\ th[Source] = AtRest /\ source = None
        /\ i > 0
        /\ source' = [ann |-> heap[n].ann, chanID |-> heap[n].chanID]
        /\ heap' = Contacted(n, SourceSearches[i])
        /\ UNCHANGED <<head, lock, th, answer, hostVars>>

(* No hit: the tracker in the channel directory, added without the lock.    *)
SourceTip(a) ==
    /\ th[Source] = AtRest /\ source = None
    /\ FirstSearch(SourceSearches) = 0
    /\ source' = [ann |-> a, chanID |-> FALSE]
    /\ AddHit(Source, a, lock)
    /\ UNCHANGED <<answer, lost>>

(* The source closes normally, or is a tracker that answered 503, or fails  *)
(* and has no chanID: ChanMgr::deadHit then finds no list to mark it in.    *)
SourceEnds ==
    /\ th[Source] = AtRest /\ source # None
    /\ source' = None
    /\ UNCHANGED <<heap, head, lock, th, answer, hostVars>>

(* Mutant: only the first match is marked. *)
DeadHit_First(a) ==
    LET i == SelectInSeq(List, LAMBDA n : SameAddress(n, a))
    IN  heap' = IF i = 0 THEN heap ELSE [heap EXCEPT ![List[i]].dead = TRUE]

(* ChanMgr::deadHit *)
DeadHit(a) ==
    heap' = [n \in DOMAIN heap |->
               IF n \in Listed /\ SameAddress(n, a)
               THEN [heap[n] EXCEPT !.dead = TRUE] ELSE heap[n]]

(* The source ends with an error.  The list is found by its chanID. *)
SourceFails ==
    LET a == source.ann
    IN  /\ th[Source] = AtRest /\ source # None
        /\ source.chanID
        /\ source' = None
        /\ DeadHit(a)
        /\ Withdrawn(HostsAt(a))
        /\ down' = down \cup {Address(a)}
        /\ UNCHANGED <<head, lock, th, answer, lost>>

------------------------------------------------------------------------------
(* The servent that refuses a relay request and answers with other hosts:   *)
(* Servent::handshakeStream_returnHits.                                     *)

Excluding(chs) == [chs EXCEPT !.exclude = Client.sid]

(* "find best hit this network if local IP", "... on same network",         *)
(* "... on other networks", with the options of base                        *)
ClientSearches(base) ==
    (IF Client.global THEN <<>> ELSE << [base EXCEPT !.match = ServerHost] >>)
      \o << [base EXCEPT !.match = Client.wan], base >>

(* Mutant: trackers are spared like the other hits. *)
TrackerSearches_Spared ==
    ClientSearches([Excluding(AnySearch) EXCEPT !.trackers = TRUE,
                                                !.wait = AnswerDelay])

HitSearches ==
    ClientSearches([Excluding(AnySearch) EXCEPT !.wait = AnswerDelay])
TrackerSearches ==
    ClientSearches([Excluding(AnySearch) EXCEPT !.trackers = TRUE])
PushSearches(trackers) ==
    IF Client.port
    THEN << [Excluding(AnySearch) EXCEPT !.firewalled = TRUE, !.wait = PushDelay,
                                         !.trackers = trackers] >>
    ELSE <<>>

NoAnswer == [pc |-> "none", sent |-> <<>>, push |-> FALSE]

Refuse ==
    /\ Client # None
    /\ answer.pc \in {"none", "sent"}
    /\ answer' = [NoAnswer EXCEPT !.pc = "hits"]
    /\ UNCHANGED <<heap, head, lock, th, source, hostVars>>

(* One of up to 8 hits, each marked so that the next search skips it. *)
SendHit ==
    LET i == FirstSearch(HitSearches)
        n == PickHit(HitSearches[i])
    IN  /\ answer.pc = "hits" /\ i > 0
        /\ answer' = [answer EXCEPT
                        !.sent = Append(@, heap[n].ann),
                        !.pc = IF Len(answer.sent) + 1 = MaxAnswer
                               THEN "sent" ELSE @]
        /\ heap' = Contacted(n, HitSearches[i])
        /\ UNCHANGED <<head, lock, th, source, hostVars>>

(* servMgr->broadcastPushRequest for what a search with chs returns *)
PushRequest(chs) ==
    /\ answer' = [answer EXCEPT !.pc = "sent", !.push = TRUE]
    /\ heap' = Contacted(PickHit(chs), chs)

(* The search that found nothing leaves best empty.  Then a push request,   *)
(* if no hit was sent; else a tracker; else a push request to a tracker.    *)
SendRest ==
    LET push == IF answer.sent = <<>> THEN PushSearches(FALSE) ELSE <<>>
        i == FirstSearch(push)
        j == FirstSearch(TrackerSearches)
        k == FirstSearch(PushSearches(TRUE))
    IN  /\ answer.pc = "hits" /\ FirstSearch(HitSearches) = 0
        /\ \/ i > 0 /\ PushRequest(push[i])
           \/ /\ i = 0 /\ j > 0
              /\ answer' = [answer EXCEPT !.pc = "sent",
                    !.sent = Append(@, heap[PickHit(TrackerSearches[j])].ann)]
              /\ UNCHANGED heap
           \/ i = 0 /\ j = 0 /\ k > 0 /\ PushRequest(PushSearches(TRUE)[k])
           \/ /\ i = 0 /\ j = 0 /\ k = 0
              /\ answer' = [answer EXCEPT !.pc = "sent"]
              /\ UNCHANGED heap
        /\ UNCHANGED <<head, lock, th, source, hostVars>>

------------------------------------------------------------------------------
Init ==
    /\ heap = <<>>
    /\ head = None
    /\ lock = None
    /\ th = [t \in Threads |-> AtRest]
    /\ source = None
    /\ answer = NoAnswer
    /\ host = [s \in Sessions |-> None]
    /\ down = {}
    /\ lost = FALSE

Step(t) == MakeHit(t) \/ LinkHit(t) \/ Locate(t) \/ Unlink(t) \/ ScanEnds(t)

Next ==
    \/ \E t \in Conns, a \in Announcements : Announce(t, a)
    \/ \E t \in Conns, a \in Leaving : DelHit(t, a)
    \/ \E t \in Threads : Step(t)
    \/ ClearDeadHits
    \/ Tick
    \/ PickSource \/ SourceEnds \/ SourceFails
    \/ \E a \in Tips : SourceTip(a)
    \/ Refuse \/ SendHit \/ SendRest

(* A thread inside the list goes on; the idle thread comes by every second  *)
(* and is not kept from chanMgr->lock for ever.                             *)
Fairness ==
    /\ \A t \in Threads : WF_vars(Step(t))
    /\ SF_vars(ClearDeadHits)
    /\ WF_vars(Tick)

Spec == Init /\ [][Next]_vars
FairSpec == Spec /\ Fairness

------------------------------------------------------------------------------
(* Every variable keeps its type. *)
TypeOK ==
    /\ DOMAIN heap \subseteq Nodes
    /\ \A n \in DOMAIN heap : heap[n] \in Hit
    /\ head \in DOMAIN heap \cup {None}
    /\ lock \in Threads \cup {None}
    /\ \A t \in Threads : /\ th[t].pc \in {"rest", "add", "link", "session",
                                            "del", "clear"}
                           /\ {th[t].cur, th[t].prev, th[t].next}
                                \subseteq DOMAIN heap \cup {None}
    /\ source # None => source.ann \in Announcements \cup Tips
    /\ answer.pc \in {"none", "hits", "sent"} /\ Len(answer.sent) <= MaxAnswer
    /\ \A s \in Sessions : host[s] = None \/ host[s].age \in 0 .. DeadHitAge
    /\ lost \in BOOLEAN

(* However the unlocked changes of the list interleave, its links never     *)
(* form a cycle, for a thread that stands on a removed hit either: every    *)
(* loop over the list ends.                                                 *)
NoCycle ==
    \A S \in SUBSET DOMAIN heap :
        S # {} => \E n \in S : heap[n].next \notin S

(* A host that announced itself in the last DeadHitAge seconds, that no     *)
(* delHit has taken off since and that was not reported dead, is on the     *)
(* list and alive: however announcements, moves, failures and the unlocked  *)
(* changes of the list come together, only a lost update loses it, when a   *)
(* thread writes a link that is no longer as it was read.                   *)
AnnouncedIsListed ==
    ~lost => \A s \in Sessions : host[s] # None =>
        \E n \in Listed : heap[n].ann.wan = host[s].wan /\ ~heap[n].dead

(* The channel does not go back to an address that failed until it is       *)
(* announced again, unless a lost update has put a hit back on the list.    *)
FailedNotPicked ==
    [][~lost /\ source = None /\ source' # None =>
         Address(source'.ann) \notin down']_vars

(* What the searches of the source return is the first of the nearest hits  *)
(* that may be used, and nothing only when there is none.                   *)
NearestPicked ==
    \A i \in DOMAIN SourceSearches :
        LET chs == SourceSearches[i]
            can == {k \in DOMAIN List : Eligible(List[k], chs)}
            hops(k) == heap[List[k]].ann.hops
        IN  IF can = {} THEN PickHit(chs) = None
            ELSE \E k \in can :
                   /\ PickHit(chs) = List[k]
                   /\ \A j \in can : \/ hops(k) < hops(j)
                                     \/ hops(k) = hops(j) /\ k <= j

(* A client is refused with nothing at all only when no tracker is known    *)
(* that it could connect to, other than itself and within reach, however    *)
(* often the trackers were given to others.                                 *)
RefusedIsHelped ==
    [][(answer.pc = "hits" /\ answer'.pc = "sent"
        /\ answer'.sent = <<>> /\ ~answer'.push) =>
         \A n \in Listed : \/ heap[n].dead \/ heap[n].ann.firewalled
                           \/ ~heap[n].ann.tracker
                           \/ heap[n].ann.sid = Client.sid
                           \/ heap[n].ann.hops >= 255]_vars

(* A hit too old to be kept is forgotten or announced anew, unless hosts    *)
(* go on leaving for ever: a delHit can end the loop of clearDeadHits, and  *)
(* put back what it took off, each time.                                    *)
OldIsForgotten ==
    <>[](\A t \in Conns : th[t].pc # "del") =>
      \A n \in Nodes :
        n \in Listed /\ heap[n].age > DeadHitAge
          ~> n \notin Listed \/ heap[n].age <= DeadHitAge

=============================================================================
