---------------------------- MODULE ChannelRelay ----------------------------
(***************************************************************************)
(* The life of relayed channels (core/common/channel.cpp, chanmgr.cpp and  *)
(* the callers in servmgr.cpp and servhs.cpp).  A request for a channel    *)
(* that the node does not have creates a Channel object and its thread;    *)
(* the thread looks for a source, reads from it, goes idle when nobody     *)
(* listens, is woken by the next request, gives up when it finds no        *)
(* source, and takes the object off ChanMgr's list when it ends.  Around   *)
(* it run the threads that ask for channels, the idle thread that limits   *)
(* the idle channels, and the administrator's commands.                    *)
(*                                                                         *)
(* Environment: which hosts are known for a channel (ChanHits models the   *)
(* choice among them), how a connection to one ends, when a listener       *)
(* leaves, what the administrator does.  Channels broadcast from this node *)
(* have other sources and are not modelled here.                           *)
(***************************************************************************)
EXTENDS Integers, Sequences, FiniteSets, SequencesExt

CONSTANTS
    Chans,      \* Channel objects
    IDs,        \* channel IDs
    Clients,    \* threads that serve requests for a channel
    MaxIdle,    \* ChanMgr::MAX_IDLE_CHANNELS
    MaxTries,   \* contacts to the root server in a row; 0: no root host
    MaxOps,     \* bound: commands of the administrator and GIVs
    None

ASSUME RelayAssumption ==
    /\ {MaxIdle, MaxTries, MaxOps} \subseteq Nat
    /\ None \notin Chans \cup IDs \cup Clients

VARIABLES
    ch,         \* the Channel objects
    list,       \* ChanMgr::channel, the list of channels
    idled,      \* idle channels by lastIdleTime, the oldest first
    hits,       \* whether a host is known that could be the source
    ypReady,    \* MIN_YP_RETRY has passed since lastYPConnect
    client,     \* the threads in getChannel, findAndRelay or streaming
    admin,      \* the thread that serves the administrator
    mgrLock,    \* chanMgr->lock is held by the administrator's thread
    idler,      \* where idleProc is
    ops

vars == <<ch, list, idled, hits, ypReady, client, admin, mgrLock, idler, ops>>

Points == {"none", "made", "start", "loop", "search", "yp", "connect",
           "read", "after", "idle", "stopped", "delete"}
Status == {"none", "busy", "receiving", "idle"}   \* busy: any other status

Channel ==
    [id : IDs \cup {None}, pc : Points, status : Status,
     active : BOOLEAN,                        \* thread.active()
     playStart : {"zero", "recent", "past"},  \* lastPlayStart: past, longer
                                              \* ago than prefetchTime
     stay : BOOLEAN, bump : BOOLEAN, designated : BOOLEAN, pushSock : BOOLEAN,
     tries : 0 .. MaxTries]                   \* numYPTries

Reset == [id |-> None, pc |-> "none", status |-> "none", active |-> FALSE,
          playStart |-> "zero", stay |-> FALSE, bump |-> FALSE,
          designated |-> FALSE, pushSock |-> FALSE, tries |-> 0]

Client == [pc : {"out", "wake", "wait", "create", "begin", "got", "listen"},
           id : IDs \cup {None}, chan : Chans \cup {None}]
Outside == [pc |-> "out", id |-> None, chan |-> None]
AdminIdle == [pc |-> "ready", chan |-> None, rest |-> <<>>]

Init ==
    /\ ch = [c \in Chans |-> Reset]
    /\ list = <<>>
    /\ idled = <<>>
    /\ hits \in [IDs -> BOOLEAN]
    /\ ypReady = TRUE
    /\ client = [k \in Clients |-> Outside]
    /\ admin = AdminIdle
    /\ mgrLock = FALSE
    /\ idler = "count"
    /\ ops = 0

-----------------------------------------------------------------------------
(* Lookups. *)

Found(i) == {n \in DOMAIN list : i # None /\ ch[list[n]].id = i}

(* findChannelByNameID and findChannelByID: the first match of the list. *)
FindChannel(i) ==
    IF Found(i) = {} THEN None
    ELSE list[CHOOSE n \in Found(i) : \A m \in Found(i) : n <= m]

Playing(c) == ch[c].status = "receiving"
Listeners(i) == {k \in Clients : client[k].pc = "listen" /\ client[k].id = i}

checkIdle(c) ==
    /\ ch[c].playStart = "past"
    /\ Listeners(ch[c].id) = {}
    /\ ~ch[c].stay

IdleChannels ==
    {c \in Range(list) : ch[c].id # None /\ ch[c].active /\ ch[c].status = "idle"}

(* Nobody holds a reference to the object: its memory may be used again. *)
Unreferenced(c) ==
    /\ ch[c].pc = "none"
    /\ \A k \in Clients : client[k].chan # c
    /\ admin.chan # c /\ c \notin Range(admin.rest)

(* Object c comes off list s. *)
Without(s, c) ==
    IF c \in Range(s) THEN RemoveAt(s, CHOOSE n \in DOMAIN s : s[n] = c) ELSE s

-----------------------------------------------------------------------------
(* The channel's thread: Channel::stream and PeercastSource::stream. *)

Step(c, new) ==
    /\ ch' = [ch EXCEPT ![c] = new]
    /\ idled' = IF new.status # "idle" THEN Without(idled, c)
                ELSE IF ch[c].status = "idle" THEN idled
                ELSE Append(idled, c)
    /\ UNCHANGED <<list, client, admin, mgrLock, idler, ops>>

(* The loop of Channel::stream; when it is left, endThread resets the      *)
(* object before it takes it off the list.                                 *)
Ended == [Reset EXCEPT !.pc = "delete"]

StreamLoop(c) ==
    /\ ch[c].pc = "start"
    /\ Step(c, IF ch[c].active THEN [ch[c] EXCEPT !.pc = "loop", !.tries = 0]
               ELSE Ended)
    /\ UNCHANGED <<hits, ypReady>>

(* Mutant: the contacts to the root server are counted anew each time. *)
SourceLoop_Forgets(c) ==
    /\ ch[c].pc = "loop"
    /\ \/ /\ ch[c].active
          /\ Step(c, [ch[c] EXCEPT !.pc = "search", !.status = "busy", !.tries = 0])
       \/ /\ ~ch[c].active
          /\ Step(c, [ch[c] EXCEPT !.pc = "stopped"])
    /\ UNCHANGED <<hits, ypReady>>

(* The loop of PeercastSource::stream. *)
SourceLoop(c) ==
    /\ ch[c].pc = "loop"
    /\ \/ /\ ch[c].active
          /\ Step(c, [ch[c] EXCEPT !.pc = "search", !.status = "busy"])
       \/ /\ ~ch[c].active
          /\ Step(c, [ch[c] EXCEPT !.pc = "stopped"])
    /\ UNCHANGED <<hits, ypReady>>

(* A socket that was pushed is used first, then the designated host, then  *)
(* a host of the hit list or of the channel directory.                     *)
SearchFinds(c) ==
    /\ ch[c].pc = "search"
    /\ \/ /\ ch[c].pushSock
          /\ Step(c, [ch[c] EXCEPT !.pc = "connect", !.status = "busy",
                                   !.pushSock = FALSE, !.tries = 0])
       \/ /\ ~ch[c].pushSock /\ ch[c].designated
          /\ Step(c, [ch[c] EXCEPT !.pc = "connect", !.status = "busy",
                                   !.designated = FALSE, !.tries = 0])
       \/ /\ ~ch[c].pushSock /\ ~ch[c].designated /\ hits[ch[c].id]
          /\ Step(c, [ch[c] EXCEPT !.pc = "connect", !.status = "busy",
                                   !.tries = 0])
    /\ UNCHANGED <<hits, ypReady>>

NothingFound(c) ==
    /\ ch[c].pc = "search"
    /\ ~ch[c].pushSock /\ ~ch[c].designated /\ ~hits[ch[c].id]

(* "Channel giving up" *)
GiveUp(c) ==
    /\ NothingFound(c)
    /\ ch[c].tries >= MaxTries \/ (~ypReady /\ ~ch[c].active)
    /\ Step(c, [ch[c] EXCEPT !.pc = "stopped"])
    /\ UNCHANGED <<hits, ypReady>>

(* lastYPConnect is read here and written in the next step. *)
SearchYP(c) ==
    /\ NothingFound(c)
    /\ ch[c].tries < MaxTries
    /\ ypReady
    /\ Step(c, [ch[c] EXCEPT !.pc = "yp"])
    /\ UNCHANGED <<hits, ypReady>>

ContactYP(c) ==
    /\ ch[c].pc = "yp"
    /\ ypReady' = FALSE
    /\ Step(c, [ch[c] EXCEPT !.pc = "connect", !.status = "busy",
                             !.tries = @ + 1])
    /\ UNCHANGED hits

(* The name of the root host could not be resolved: not counted as a try,  *)
(* and the loop of the search goes on.                                     *)
YPUnresolved(c) ==
    /\ ch[c].pc = "yp"
    /\ ypReady' = FALSE
    /\ Step(c, [ch[c] EXCEPT !.pc = IF ch[c].active THEN "search" ELSE "stopped"])
    /\ UNCHANGED hits

(* The source failed: S_ERROR, and deadHit may leave no other to try. *)
Fails(c, new) ==
    /\ Step(c, [new EXCEPT !.status = "busy"])
    /\ hits' \in {hits, [hits EXCEPT ![ch[c].id] = FALSE]}
    /\ UNCHANGED ypReady

(* connectFetch, unless the socket was pushed, and handshakeFetch.  A      *)
(* source that answers 404 ends the search.                                *)
Connect(c) ==
    /\ ch[c].pc = "connect"
    /\ \/ /\ Step(c, [ch[c] EXCEPT !.pc = "read"])
          /\ UNCHANGED <<hits, ypReady>>
       \/ Fails(c, [ch[c] EXCEPT !.pc = "after"])
       \/ Fails(c, [ch[c] EXCEPT !.pc = "stopped"])

(* readStream: one turn of its loop that ends it, checks in their order. *)
ReadEnds(c) ==
    /\ ch[c].pc = "read"
    /\ \/ /\ ~ch[c].active \/ checkIdle(c)
          /\ Step(c, [ch[c] EXCEPT !.pc = "after", !.status = "busy"])
          /\ UNCHANGED <<hits, ypReady>>
       \/ /\ ch[c].active /\ ~checkIdle(c) /\ ch[c].bump
          /\ Fails(c, [ch[c] EXCEPT !.pc = "after", !.bump = FALSE])

(* A packet: setStatus starts the play time when the status changes. *)
ReadPacket(c) ==
    /\ ch[c].pc = "read"
    /\ ch[c].active /\ ~checkIdle(c) /\ ~ch[c].bump
    /\ ~Playing(c)
    /\ Step(c, [ch[c] EXCEPT !.status = "receiving", !.playStart = "recent"])
    /\ UNCHANGED <<hits, ypReady>>

(* The source closes the stream, or fails, or is silent for too long. *)
SourceEnds(c) ==
    /\ ch[c].pc = "read"
    /\ ch[c].active /\ ~checkIdle(c) /\ ~ch[c].bump
    /\ \/ /\ Step(c, [ch[c] EXCEPT !.pc = "after", !.status = "busy"])
          /\ UNCHANGED <<hits, ypReady>>
       \/ Fails(c, [ch[c] EXCEPT !.pc = "after"])

GoIdle(c) ==
    /\ ch[c].pc = "after"
    /\ Step(c, [ch[c] EXCEPT !.pc = "idle", !.status = "idle"])
    /\ UNCHANGED <<hits, ypReady>>

IdleLoop(c) ==
    /\ ch[c].pc = "idle"
    /\ ~checkIdle(c) \/ ~ch[c].active
    /\ Step(c, [ch[c] EXCEPT !.pc = "loop"])
    /\ UNCHANGED <<hits, ypReady>>

(* PeercastSource::stream has returned: a channel that is to stay sleeps   *)
(* and starts again.                                                       *)
Stopped(c) ==
    /\ ch[c].pc = "stopped"
    /\ Step(c, IF ch[c].stay THEN [ch[c] EXCEPT !.pc = "start"] ELSE Ended)
    /\ UNCHANGED <<hits, ypReady>>

deleteChannel(c) ==
    /\ ch[c].pc = "delete"
    /\ ~mgrLock
    /\ ch' = [ch EXCEPT ![c] = Reset]
    /\ list' = Without(list, c)
    /\ UNCHANGED <<idled, hits, ypReady, client, admin, mgrLock, idler, ops>>

ThreadStep(c) ==
    \/ StreamLoop(c) \/ SourceLoop(c) \/ SearchFinds(c) \/ GiveUp(c)
    \/ SearchYP(c) \/ ContactYP(c) \/ YPUnresolved(c) \/ Connect(c)
    \/ ReadEnds(c) \/ GoIdle(c) \/ IdleLoop(c) \/ Stopped(c) \/ deleteChannel(c)

-----------------------------------------------------------------------------
(* A thread that serves a request: ServMgr::getChannel, findAndRelay. *)

ClientStep(k, new) ==
    /\ client' = [client EXCEPT ![k] = new]
    /\ UNCHANGED <<idled, hits, ypReady, admin, mgrLock, idler, ops>>

Request(k, i) ==
    /\ client[k].pc = "out"
    /\ ~mgrLock
    /\ LET c == FindChannel(i) IN
        ClientStep(k, IF c = None
                      THEN [pc |-> "create", id |-> i, chan |-> None]
                      ELSE IF Playing(c)
                      THEN [pc |-> "got", id |-> i, chan |-> None]
                      ELSE [pc |-> "wake", id |-> i, chan |-> c])
    /\ UNCHANGED <<ch, list>>

(* Mutant: a channel that has played is not woken. *)
Wake_KeepsPlayTime(k) ==
    /\ client[k].pc = "wake"
    /\ ClientStep(k, [client[k] EXCEPT !.pc = "wait"])
    /\ UNCHANGED <<ch, list>>

(* "force reconnect": the play time is cleared whatever the channel has    *)
(* come to since isPlaying was asked; a reset channel is no longer used.   *)
Wake(k) ==
    LET c == client[k].chan IN
    /\ client[k].pc = "wake"
    /\ ch' = [ch EXCEPT ![c].playStart = "zero"]
    /\ ClientStep(k, [client[k] EXCEPT !.pc = "wait"])
    /\ UNCHANGED list

createChannel(k) ==
    LET free == {c \in Chans : Unreferenced(c)}
        c == CHOOSE d \in free : TRUE IN
    /\ client[k].pc = "create"
    /\ ~mgrLock
    /\ free # {}
    /\ ch' = [ch EXCEPT ![c] = [Reset EXCEPT !.id = client[k].id, !.pc = "made",
                                             !.status = "busy"]]
    /\ list' = <<c>> \o list
    /\ ClientStep(k, [client[k] EXCEPT !.pc = "begin", !.chan = c])

(* setStatus(S_SEARCHING) and startGet: startThread sets thread.active. *)
startGet(k) ==
    /\ client[k].pc = "begin"
    /\ ch' = [ch EXCEPT ![client[k].chan].pc = "start",
                        ![client[k].chan].status = "busy",
                        ![client[k].chan].active = TRUE]
    /\ ClientStep(k, [client[k] EXCEPT !.pc = "wait", !.chan = None])
    /\ UNCHANGED list

(* One poll of the wait.  getChannel looks for the info of the object it   *)
(* found, which endThread clears; findAndRelay for the info it was given.  *)
Awaited(k) == IF client[k].chan = None THEN client[k].id ELSE ch[client[k].chan].id

Poll(k) ==
    /\ client[k].pc = "wait"
    /\ ~mgrLock
    /\ LET c == FindChannel(Awaited(k)) IN
       \/ /\ c = None
          /\ ClientStep(k, Outside)
       \/ /\ c # None
          /\ Playing(c)
          /\ ClientStep(k, [client[k] EXCEPT !.pc = "got", !.chan = None])
    /\ UNCHANGED <<ch, list>>

(* The waits are 10 and 60 seconds; the channel is then used as it is. *)
WaitEnds(k) ==
    /\ client[k].pc = "wait"
    /\ FindChannel(Awaited(k)) # None
    /\ ClientStep(k, [client[k] EXCEPT !.pc = "got", !.chan = None])
    /\ UNCHANGED <<ch, list>>

(* handshakeStream looks the channel up again. *)
StartListening(k) ==
    /\ client[k].pc = "got"
    /\ ClientStep(k, IF FindChannel(client[k].id) = None THEN Outside
                     ELSE [client[k] EXCEPT !.pc = "listen"])
    /\ UNCHANGED <<ch, list>>

StopListening(k) ==
    /\ client[k].pc = "listen"
    /\ ClientStep(k, Outside)
    /\ UNCHANGED <<ch, list>>

-----------------------------------------------------------------------------
(* The administrator: CMD_stop, stopChannel of the JSON-RPC API, CMD_clear, *)
(* CMD_bump and CMD_keep; and a GIV connection for a channel.               *)

Command(i, new) ==
    /\ ops < MaxOps
    /\ ops' = ops + 1
    /\ FindChannel(i) # None
    /\ ch' = [ch EXCEPT ![FindChannel(i)] = new]
    /\ UNCHANGED <<list, idled, hits, ypReady, client, mgrLock, idler>>

(* Mutant: it waits also for a thread that is not started yet. *)
CMD_stop_Waits(i) ==
    /\ admin.pc = "ready"
    /\ Command(i, [ch[FindChannel(i)] EXCEPT !.active = FALSE])
    /\ admin' = [AdminIdle EXCEPT !.pc = "join", !.chan = FindChannel(i)]

(* The thread of a channel that is not started cannot be joined. *)
CMD_stop(i) ==
    LET c == FindChannel(i) IN
    /\ admin.pc = "ready"
    /\ Command(i, [ch[c] EXCEPT !.active = FALSE])
    /\ admin' = IF ch[c].pc = "made" THEN AdminIdle
                ELSE [AdminIdle EXCEPT !.pc = "join", !.chan = c]

stopChannel(i) ==
    /\ Command(i, [ch[FindChannel(i)] EXCEPT !.active = FALSE])
    /\ UNCHANGED admin

CMD_bump(i) ==
    /\ \E named \in BOOLEAN :
        Command(i, [ch[FindChannel(i)] EXCEPT !.bump = TRUE,
                                              !.designated = @ \/ named])
    /\ UNCHANGED admin

CMD_keep(i) ==
    /\ Command(i, [ch[FindChannel(i)] EXCEPT !.stay = ~@])
    /\ UNCHANGED admin

acceptGIV(i) ==
    /\ FindChannel(i) # None => ~ch[FindChannel(i)].pushSock
    /\ Command(i, [ch[FindChannel(i)] EXCEPT !.pushSock = TRUE])
    /\ UNCHANGED admin

AdminStep(new) ==
    /\ admin' = new
    /\ UNCHANGED <<list, idled, hits, ypReady, client, idler>>

(* closeIdles copies the list under chanMgr->lock, lets go of the lock,    *)
(* and then shuts the idle ones down and waits for each.  When it returns  *)
(* it holds no lock.                                                       *)
closeIdles ==
    /\ admin.pc = "ready"
    /\ ops < MaxOps
    /\ ops' = ops + 1
    /\ mgrLock' = TRUE
    /\ AdminStep([AdminIdle EXCEPT !.pc = "copy", !.rest = list])
    /\ UNCHANGED ch

(* Mutant: closeIdles keeps chanMgr->lock until it has closed them all. *)
CopyEnds_KeepsLock ==
    /\ admin.pc = "copy"
    /\ AdminStep([admin EXCEPT !.pc = "close"])
    /\ UNCHANGED <<ch, mgrLock, ops>>

CopyEnds ==
    /\ admin.pc = "copy"
    /\ mgrLock' = FALSE
    /\ AdminStep([admin EXCEPT !.pc = "close"])
    /\ UNCHANGED <<ch, ops>>

CloseNext ==
    /\ admin.pc = "close"
    /\ IF admin.rest = <<>>
       THEN /\ AdminStep(AdminIdle)
            /\ mgrLock' = FALSE
            /\ UNCHANGED ch
       ELSE LET c == Head(admin.rest)
                idle == ch[c].id # None /\ ch[c].status = "idle" IN
            /\ ch' = [ch EXCEPT ![c].active = @ /\ ~idle]
            /\ AdminStep(IF idle THEN [pc |-> "join", chan |-> c, rest |-> Tail(admin.rest)]
                         ELSE [admin EXCEPT !.rest = Tail(@)])
            /\ UNCHANGED mgrLock
    /\ UNCHANGED ops

waitThread ==
    /\ admin.pc = "join"
    /\ ch[admin.chan].pc = "none"
    /\ AdminStep([admin EXCEPT !.pc = "close", !.chan = None])
    /\ UNCHANGED <<ch, mgrLock, ops>>

-----------------------------------------------------------------------------
(* idleProc: closes one channel when more than MAX_IDLE_CHANNELS are idle. *)

(* Mutant: off by one. *)
CountIdles_OneMore ==
    /\ idler = "count"
    /\ ~mgrLock
    /\ Cardinality(IdleChannels) > MaxIdle + 1
    /\ idler' = "close"
    /\ UNCHANGED <<ch, list, idled, hits, ypReady, client, admin, mgrLock, ops>>

CountIdles ==
    /\ idler = "count"
    /\ ~mgrLock
    /\ Cardinality(IdleChannels) > MaxIdle
    /\ idler' = "close"
    /\ UNCHANGED <<ch, list, idled, hits, ypReady, client, admin, mgrLock, ops>>

closeOldestIdle ==
    LET idle == {n \in DOMAIN idled : idled[n] \in IdleChannels}
        oldest == idled[CHOOSE n \in idle : \A m \in idle : n <= m] IN
    /\ idler = "close"
    /\ idler' = "count"
    /\ ch' = IF idle = {} THEN ch ELSE [ch EXCEPT ![oldest].active = FALSE]
    /\ UNCHANGED <<list, idled, hits, ypReady, client, admin, mgrLock, ops>>

-----------------------------------------------------------------------------
(* Time and the network. *)

(* prefetchTime is as long as getChannel waits (10 seconds), and the wait  *)
(* began before the play it brought about: it is over before that play is  *)
(* older than prefetchTime.  The idle loop looks at it every 200 ms.       *)
Age(c) ==
    /\ ch[c].playStart = "recent"
    /\ ch[c].pc # "idle"
    /\ \A k \in Clients : ~(client[k].pc = "wait" /\ client[k].chan = c)
    /\ ch' = [ch EXCEPT ![c].playStart = "past"]
    /\ UNCHANGED <<list, idled, hits, ypReady, client, admin, mgrLock, idler, ops>>

RetryTimePasses ==
    /\ ~ypReady
    /\ ypReady' = TRUE
    /\ UNCHANGED <<ch, list, idled, hits, client, admin, mgrLock, idler, ops>>

HitsChange(i) ==
    /\ hits' = [hits EXCEPT ![i] = ~@]
    /\ UNCHANGED <<ch, list, idled, ypReady, client, admin, mgrLock, idler, ops>>

-----------------------------------------------------------------------------
ChannelThread(c) == ThreadStep(c) \/ ReadPacket(c) \/ SourceEnds(c)

ClientThread(k) ==
    \/ \E i \in IDs : Request(k, i)
    \/ createChannel(k) \/ startGet(k) \/ Wake(k) \/ Poll(k) \/ WaitEnds(k)
    \/ StartListening(k) \/ StopListening(k)

AdminThread ==
    \/ \E i \in IDs : \/ CMD_stop(i) \/ stopChannel(i) \/ CMD_bump(i)
                       \/ CMD_keep(i) \/ acceptGIV(i)
    \/ closeIdles \/ CopyEnds \/ CloseNext \/ waitThread

IdleThread == CountIdles \/ closeOldestIdle

Next ==
    \/ \E c \in Chans : ChannelThread(c) \/ Age(c)
    \/ \E k \in Clients : ClientThread(k)
    \/ AdminThread
    \/ IdleThread
    \/ RetryTimePasses
    \/ \E i \in IDs : HitsChange(i)

(* Threads run, every connection attempt ends (sockets have timeouts), and *)
(* time passes.  Nobody has to ask for a channel or to stop listening, a   *)
(* source need not send, nor end, and the idle thread is not relied on.    *)
Fairness ==
    /\ \A c \in Chans : WF_vars(ThreadStep(c))
    /\ \A k \in Clients : WF_vars(startGet(k))
    /\ WF_vars(CopyEnds \/ CloseNext \/ waitThread)
    /\ WF_vars(RetryTimePasses)

Spec == Init /\ [][Next]_vars /\ Fairness

-----------------------------------------------------------------------------
TypeOK ==
    /\ ch \in [Chans -> Channel]
    /\ \A s \in {list, idled, admin.rest} : s \in Seq(Chans) /\ IsInjective(s)
    /\ hits \in [IDs -> BOOLEAN]
    /\ {ypReady, mgrLock} \subseteq BOOLEAN
    /\ client \in [Clients -> Client]
    /\ admin \in [pc : {"ready", "copy", "close", "join"},
                  chan : Chans \cup {None}, rest : Seq(Chans)]
    /\ idler \in {"count", "close"}
    /\ ops \in 0 .. MaxOps

(* The list holds every Channel object that has a thread, or whose thread  *)
(* the request that created it is about to start, once, and no other: what *)
(* has a thread can be found and stopped, and whoever starts a thread      *)
(* starts the first one of an object that is still listed.  Who waits for  *)
(* a thread to end waits for one that was started: the object it belongs   *)
(* to is not used for another channel meanwhile.                           *)
ListedHaveThreads ==
    /\ IsInjective(list)
    /\ \A c \in Chans : c \in Range(list) <=> ch[c].pc # "none"
    /\ \A c \in Chans : ch[c].pc = "made" <=>
            \E k \in Clients : client[k].pc = "begin" /\ client[k].chan = c
    /\ admin.pc = "join" => ch[admin.chan].pc # "made"

(* A channel whose running thread is told to stop comes to its end and off *)
(* the list, in whatever state it is and whoever waits for it: the comment *)
(* in closeIdles tells of the deadlock that would be the alternative.      *)
StoppedEnds ==
    \A c \in Chans :
        ch[c].pc \notin {"none", "made"} /\ ~ch[c].active ~> ch[c].pc = "none"

(* While no host is known for a channel it is not searched for without end: *)
(* after three contacts to the root server the channel gives up, unless it  *)
(* is to stay connected, or waits idle for a listener.  This needs the name *)
(* of the root host to be resolved: a failure to do so is not counted, and  *)
(* the search then goes on as long as it lasts.                             *)
Trying(c, i) ==
    /\ ch[c].id = i
    /\ ~ch[c].stay
    /\ ch[c].pc \notin {"made", "read"}
    /\ ~(ch[c].pc = "idle" /\ checkIdle(c))

GivesUp ==
    \A i \in IDs :
        /\ <>[](~hits[i])
        /\ <>[][\A c \in Chans : ~YPUnresolved(c)]_vars
        => \A c \in Chans : []<>~Trying(c, i)

(* No more than MAX_IDLE_CHANNELS channels are left idle (the comment on   *)
(* that constant): the idle thread, as long as it runs, brings the number  *)
(* down again.                                                             *)
IdleLimit ==
    WF_vars(IdleThread) =>
        (Cardinality(IdleChannels) > MaxIdle ~> Cardinality(IdleChannels) <= MaxIdle)

(* A request for an idle channel makes it look for a source again, also    *)
(* when the channel has just played and nobody listens.                    *)
WokenSearches ==
    \A k \in Clients, c \in Chans :
        client[k].pc = "wait" /\ client[k].chan = c /\ ch[c].pc = "idle"
            ~> ch[c].pc # "idle"
=============================================================================
