# PeerCast YT in TLA+

PeerCast YT is a peer-to-peer live streaming node. A node relays *channels*: it
fetches a channel's stream from one host, keeps the last packets in a ring and
sends them on to players ("direct" clients) and to other nodes ("relays").
Nodes talk PCP, a binary protocol of nested atoms, and spread news of who
carries what by broadcasting atoms over their PCP connections.

The program is C++ with one thread per connection and per channel, a handful of
mutexes, many flags read without one, and polling loops everywhere. The modules
here model that: the threads, where each takes a lock and where it does not,
and what another thread can see in between. Source paths below are relative to
the repository's `core/common/` unless they say otherwise.

Contents: [1 the system](#1-the-system) ·
[2 plan](#2-plan) · [3 modules](#3-the-modules-and-the-code) ·
[4 runs](#4-the-runs) · [5 fairness](#5-fairness) ·
[6 proofs](#6-proofs) · [7 findings](#7-findings) ·
[8 limits](#8-what-is-not-covered) · [9 running](#9-running-it)

## 1 The system

| Component (files) | State | Operations | Hard behaviour | What makes it correct |
|---|---|---|---|---|
| Packet ring (`chanpacket.cpp`) | slots, `firstPos`, `lastPos`, `safePos`, `readPos`, `writePos` | write, read, `findPacket`, `willSkip` | check and write are two critical sections; positions are 32 bits | FIFO order, bounded overrun, only overwritten packets lost |
| PCP connection queues (`pcp.cpp`) | `outData`, `inData` of a `PCPStream` | `sendPacket`, `readPacket`, `flush`, deletion | any thread broadcasts into any connection | what is accepted is sent, in order; nobody is inside a deleted stream |
| Delivery to clients (`servent.cpp` send loops, `flv`/`mp4`/`mkv`/`pcp` sources) | `streamIndex`, `headPack`, `rawData`, the client's position | write, restart of a stream, `sendRawChannel`, `sendPCPChannel` | a restart is several steps; clients read without the channel's lock; slow clients | in order, header first, a player's first data no continuation, a running client catches up |
| Servent pool (`servmgr.cpp`, `servent.cpp`) | `servents` list, type, status, socket and thread flag of each | `allocServent`, `initIncoming`, `initGIV`, `handshakeStream`, `kill`, `abort` | recycling by status, aborts from other threads, admission by counting | limits hold, one owner, one thread per servent, aborted connections end |
| Listening server (`ServMgr::serverProc`, `Servent::serverProc`) | `autoServe`, `restartServer`, the listening servent | start, accept, restart, stop | restart while the old thread ends | a restart ends in a new listening socket |
| Hit lists (`chanhit.cpp`, `chanmgr.cpp`) | linked list of `ChanHit`s | `addHit`, `delHit`, `deadHit`, `clearDeadHits`, `pickHits`, answer to a refused client | half of the operations take `chanMgr->lock` | no loop in the list, announced hosts stay, failed ones are avoided, the nearest is picked |
| Channel life (`channel.cpp`, `chanmgr.cpp`, `servmgr.cpp`) | status, thread flag, play time, flags, `ChanMgr::channel` | request, search, connect, read, idle, wake, give up, stop | threads that wait for threads; flags set by anyone | a stopped channel ends, an unfindable one gives up, a woken one searches, idle ones are limited |
| GIV push | push socket of a channel, servent of the push | `initGIV`, `acceptGIV` | a late socket for a channel in another state | part of the two components above |
| PCP broadcast network (`pcp.cpp`, `servmgr.cpp`, `gnuid.cpp`) | TTL, hops, group, route list | `readBroadcastAtoms`, `broadcastPacket` | cycles of relays, duplicates, private peers | cycles come about only in known ways and come apart unless a header goes round in them, members learn what was broadcast, a push request finds its host |
| Connection to the root server (`Servent::outgoingProc`) | one outgoing servent | connect, retry, tracker update | state flags set before the stream is ready | the root lists what is broadcast and forgets what has ended; the link comes back |
| PCP handshakes, firewall check | session, firewall state | `helo`, `oleh`, ping | a remote check answers late | state is decided eventually |
| Idle thread and host cache (`ServMgr::idleProc`) | host cache, timers | clean-up | runs against everybody | covered where the others meet it |
| Broadcasting from this node | source connection | URL, HTTP push, Icecast, RTMP | reconnection | stream continues after a reconnect |
| Container formats | parser state | parse, emit head and data packets | cut input | packets are cut at the right places |
| Byte streams, atoms, address filters | buffers, patterns | read, write, match | chunk and size boundaries | equal to a reference definition |
| Channel directory, upload test, RTMP monitor | cached feeds, worker state | refresh, poll | workers against readers | no stale result shown as new |
| Log buffer, notifications, cookies, statistics | small bounded containers | add, list | the limit | the newest entries are kept |
| Threads, queues, subprograms | `ThreadInfo`, waitable queue | start, shutdown, join | waiting for threads and for locks at the same time | no circular wait but the known ones |
| HTTP server, commands, JSON-RPC | none of its own | calls into the others | a command at any moment | commands are actions of the other modules |
| Settings, start-up | all settings | save, load | | saved = loaded |
| Strings, encodings, templates, BBS, sockets, JSON, RTMP server, user interfaces | – | – | – | not modelled |

How they interact:

* *Connections.* The listening servent hands each accepted socket to a servent
  of the pool. That servent's thread reads the request and becomes a stream to a
  player or relay, a control connection (CIN), a GIV, or an administrator's
  HTTP session.
* *Streams.* A stream request calls `ServMgr::getChannel`, which wakes an idle channel or
  creates one and starts its thread. The channel's thread picks a source from
  the hit list, connects, and fills the ring. The servent's thread sends from
  the ring and never tells the channel how far it has got. The channel learns
  of its listeners by counting servents.
* *News.* A PCP atom read by any connection's thread can change the hit list
  and can be queued, from that thread, on every other connection.
* *Housekeeping.* The idle thread clears hits and closes idle channels; the
  server loop restarts the listener; the administrator stops and bumps
  channels and servents. All of these act on objects whose own threads are
  running.

`PROJECT.json` lists the same components with their files and status, and every
hazard found while reading, at its line, with the properties that watch it or
the reason why none does.

## 2 Plan

Modules, in order of how much of the node's correctness rests on them:

| # | Module | Composes / uses | Abstract specification | State |
|---|---|---|---|---|
| 1 | `ChanPacketBuffer` (operators), `PCPStream` | `PCPStream` uses the ring twice | `BoundedFifo` | modelled, proved |
| 2 | `StreamDelivery` | uses the ring with `findPacket` | – | modelled, proved |
| 3 | `ServentPool` | – | – | modelled, proved |
| 4 | `ChanHits` | – | – | modelled, proved |
| 5 | `ChannelRelay` | stands on the outcomes of 3 and 4 | – | modelled, proved |
| 6 | `RelayNetwork` | queues as in 1, taken as unbounded | – | modelled, proved |
| 7 | `RootLink` | an outgoing connection of 1, broadcasts as in 6 | – | modelled, types proved |
| 8 | `LockOrder` | the locks of all | – | modelled, proved |
| 9 | Reading a broadcast: URL, HTTP push, Icecast and RTMP sources, and the list of channels with its references | 5, 7 | – | planned |
| 10 | Handshakes, ping and firewall check | 3, 7 | – | planned |
| 11 | Pure algorithms: address filters, dechunker, buffered writer, atom framing, FLV/MKV/MP4/OGG packet cutting, log ring | – | reference definitions over bounded inputs | planned |
| 12 | Workers and containers: channel directory, upload test, RTMP monitor, notifications, waitable queue | – | – | planned |

Proved, in this table, means every safety property that a run checks of the
module and that is true of it; what `root_link` checks is liveness, so that
the types are what there is to prove of `RootLink`.

## 3 The modules and the code

An action is one stretch of code between two points where another thread can
make a difference: a lock taken or released, a flag polled, a read of something
another thread writes. `PROJECT.json` maps each definition to its lines. A
definition whose name ends in an underscore and a word (`Abort_Kills`) is a
deliberately wrong variant of the definition before the underscore, kept to
show that a property would notice.

### ChanPacketBuffer and BoundedFifo

`ChanPacketBuffer` has the ring as a record and its critical sections as
operators: `WillSkip`, `WriteLocked` (`writePacket` under the lock), `ReadLocked`,
`FindPacket`, the scan for the newest packet that is not a continuation. Slots
and positions wrap as in the code: `MaxPackets` is `MAX_PACKETS` (64),
`NumSafePackets` is `NUM_SAFEPACKETS`, `PosMod` is 2^32. `BoundedFifo` is what a queue
promises: put at the end if there is room, take from the front.

### PCPStream

| Code | Model |
|---|---|
| `PCPStream::sendPacket` by any thread | `SendPacketCheck` (`willSkip`), `SendPacketWrite` (the locked write), one pair per writer |
| `Servent::sendPacket` holding the servent's lock; `Channel::sendPacketUp` holding none | `locked`, chosen initially; `MayEnter` |
| `readPacket`: send one, give up if full, poll the socket, process one | `ReadPacketSend`, `ReadPacketSkip`, `ReadPacketPoll`, `ReadPacketProc` |
| `flush`, `Servent::kill` deleting the stream | `FlushPacket`, `Close` |

`accepted`, `taken`, `received` and `processed` are histories.

### StreamDelivery

The source (`SourceData`, and for a restart `SourceRestart`, `SourceInit`,
`SourceIndex`, `SourceHead`, `SourceWriteHead`) against one client
(`ReaderWait` ... `ReaderNothing`, the loops of `sendRawChannel` and `sendPCPChannel`).
Clients share nothing but the ring they read, so one is enough. `Order` says in
which order a source resets the ring and counts up `streamIndex`: `flv.cpp` and
`mp4.cpp` reset first, `pcp.cpp` and `mkv.cpp` count first. A packet's data carries
its true stream and place (`gen`, `at`), of which the program sees only `at % PosMod`.

A player that asks for titles is served by `sendRawMetaChannel` (`ReaderMeta`): it
gets no header, takes packets from wherever the ring begins, collects data (`buf`)
and sends it `MetaInterval` at a time, and does not look at the stream index.

### ServentPool

`sv` holds the `Servent` objects, `pc` the point of each one's thread, `alloc` the
servents handed out by `allocServent` and not yet started, `mutex` the holder of
`streamRequestMutex`.

| Code | Actions |
|---|---|
| `ServMgr::serverProc` | `ServerPass` |
| `Servent::serverProc` | `Listen`, `Accept`, `ListenEnd` |
| `initIncoming`, `incomingProc`, `handshakeIncoming` | `InitIncoming`, `HandshakeIncoming`, `StreamRequest`, `OtherRequest` |
| `handshakeStream` with `canStream`, relay management, its answers | `CanStream`, `Granted`, `AutoManage`, `NoHitList`, `ReturnStream`, `ReturnUnavailable`, `StreamEnd` |
| `processIncomingPCP` | `IncomingPCP`, `AcceptPCP`, `IncomingPCPEnd` |
| push atoms, `initGIV` | `ReadPush`, `InitGIV` |
| `abort`, `thread.shutdown`, `kill`, end of a thread, socket errors | `StopServent`, `ThreadEnd`, `ConnectionLost` |
| administrator | `StopServent`, `ChangePort`, `SetAutoServe` |

Which peer connects, what it wants, whether the channel plays, the measured
output rate and when a socket fails are choices of the environment.

### ChanHits

The list is modelled down to its links: `heap` holds the `ChanHit` objects that
something points at (they are held by `shared_ptr`), `head` is `ChanHitList::hit`, and
`th` says where each thread is. A removal is `Locate` then `Unlink`, an insertion
`MakeHit` then `LinkHit`; `Announce`, `DelHit`, `ClearDeadHits`, `SourceTip` start them, with
or without `chanMgr->lock` as the code does. `PickSource`, `SourceFails`, `SourceEnds`
are the channel's thread; `Refuse`, `SendHit`, `SendRest` the answer of
`handshakeStream_returnHits`; `Tick` is time, up to the ages that matter.
A scan that changes no link is one step. `host`, `down` and `lost` are histories: who
is expected on the list, which addresses have failed, and whether a thread has
written a link that was no longer as it had read it (`StillSo`), so that its change and
another thread's are not both in the list.

What is on the list is said twice, for what each is needed for. `Listed` is the
set of objects that pointers reach from the head, and `Held` what pointers of the list
or of a thread reach; objects outside it are deleted. `List` is the order in
which a loop visits the hits: `Match` (the hit that an announcement replaces),
`NextDoomed` and `PickHit` look along it.

### ChannelRelay

`ch` holds the `Channel` objects, `list` is `ChanMgr::channel`. Per channel thread:
`StreamLoop`, `SourceLoop`, `SearchFinds`, `NothingFound`, `GiveUp`, `SearchYP`, `ContactYP`,
`YPUnresolved` (`PeercastSource::stream`), `Connect`, `ReadPacket`, `ReadEnds`,
`SourceEnds`, `GoIdle`, `IdleLoop`, `Stopped`, and the removal from the list. Around it: `Request`, `Wake`,
creation and start, `Poll`, `WaitEnds`, `StartListening`, `StopListening` (`getChannel`,
`findAndRelay`, the stream itself), the administrator's `CMD_stop`, `CMD_bump`, `CMD_keep`
and `closeIdles` (which copies the list under the lock, then stops and joins one
channel after the other), a GIV, and the idle thread's `CountIdles` and `closeOldestIdle`.
Time enters through `Age` (the play time of a channel passes `prefetchTime`) and
`RetryTimePasses` (`MIN_YP_RETRY`). `Age` respects what the code's constants
imply: `getChannel` waits ten seconds, which is `prefetchTime`, and the idle loop
polls every 200 ms, so a freshly woken channel is not old before it has looked.

### RelayNetwork

Every relay `r` has one source `src[r]`, and its connection is the pair of queues
`up[r]` (read by the source) and `dn[r]` (read by `r`). A packet is what
`readBroadcastAtoms` looks at: who began it, its TTL, whom it is for, what it
carries.

| Code | Model |
|---|---|
| `connectFetch`, `canStream` | `Connect`; `Accepts`: the source plays the channel, or takes the relay for a private peer (`Private`), which is not asked for that |
| `waitForChannelHeader` | `HeaderThere` or, after 30 seconds, `GiveUpWaiting` |
| `sendPCPChannel` | `OpenStream` (`pcpStream` is set), `SendChan` (the channel's information is written) |
| `PeercastSource::stream` after the read loop, `PCP_QUIT` to those below | `LoseSource`; reached by `Cut`, `GiveUpWaiting`, `ReadQuit`, `AutoBump` (`checkBump`) |
| `readPktAtoms` with a header at position 0, and the send loops that find the new stream index | `ReadHead`, `Restarted` |
| `ChannelStream::updateStatus`, `Channel::updateInfo`, `broadcastPushRequest` | `UpdateStatus`, `UpdateInfo`, `PushRequest` |
| `readBroadcastAtoms` at the source and at the relay | `ReadUp`, `ReadBroadcast`: act on it, note the sender in `routeList`, check for loopback, forward with TTL − 1 |
| `Channel::sendPacketUp`, `ServMgr::broadcastPacket` | `SentUp`, `SentDown`, limited by the route lists (`Routed`) |

The information goes first on the socket although packets may have been queued
before, since `sendPCPChannel` writes it past the queue.
`told`, `push` and `missed` are histories: the last version broadcast, the host a
push request is on its way to, the relays that were not told to leave, or that chose
a source without one. `push` is given up when a connection on that way is lost.

Of the stream itself the model has the headers at position 0, since these outlive the
loss of the tracker. `head` are the relays whose source has such a header to send
them, or has sent one that they have not read. A connection starts with the header its source
has (`ReadChan`; a choice, since that header may be empty or stand elsewhere). Who
reads one restarts its stream, so that its servents send it on to every relay
below (`Restarted`); it need not have a source of its own that is alive. `AutoBump` is for
a relay that nothing is coming to (`HeaderComing`) and that the tracker does not feed: the code counts 30
seconds since the last packet written, and a header is assumed to take less than that for its way
along the connections.

`Below(n, S, hops)` is what host `n` reaches through the relays `S` in so many
connections: with `hops` the time to live of a packet, the hosts the packet can
reach. `Fed` is reach without that limit, and `Route(r)` are the connections that have
carried a packet of `r` up, so that a packet for `r` finds its way down.

### RootLink

One broadcaster and one root server, which is the same program. `cout` follows
`outgoingProc`; `socks[s].servent` follows `processIncomingPCP` at the root: `hello`, after
`findConnection` and `controlInFull` `passed`, then `in`, then `gone`. Asking whether the
host is connected and becoming connected are two steps. `listed` is the version
of the channel that the root's hit list shows.

| Code | Actions |
|---|---|
| `readStream`: start, periodic update, end | `Broadcast`, `Periodic`, `Stop`, `LastUpdate` |
| `updateInfo`, `broadcastTrackerUpdate` | `UpdateInfo`, `TrackerUpdate` |
| `handshakeHTTPPush` for a channel that exists | `Takeover`, then `OldLastUpdate` by the old channel's thread |
| `connectBroadcaster`, `outgoingProc` | `ConnectBroadcaster`, `Connect`, `Shaken`, `InitStream`, `Send`, `Read`, `OffAir`, `NoRoot`, `Lost`, `Abort` |
| `processIncomingPCP`, `readHostAtoms`, `clearDeadHits` of the root | `Check`, `Accept`, `RootRead`, `RootEnds`, `Expire` |
| failures | `Cut`, `RestartRoot` |

A socket that one end has closed still delivers what was sent before.

### LockOrder

An operation is the sequence of locks it takes; `Touch` is a lock taken and given
back with nothing else taken inside. `Operations` says which thread can be in which
operation. `closeIdles` and `CMD_stop` wait for the channel's thread to end. The mutexes are
recursive, so a thread never waits for itself. `WaitsFor` and
`CircularWait` are the usual definitions over threads. What a channel's thread
does inside `getBufferString` takes no lock of the channel: `getSourceRateAvg`
(`channel.cpp:508`) does not lock, although the comment at `channel.cpp:1391`
is about that case.

## 4 The runs

| Run | Checks | Result |
|---|---|---|
| `pcp_stream` | three writers, ring of two | holds |
| `stream_delivery` | a stream, its restart in the order of `flv.cpp`, a player or a relay that may lag | holds |
| `stream_restart` | `HeadBeforeData` in the order of `pcp.cpp` | violated, section 7 |
| `servent_streams` | limits, aborts and restart with two stream requests | holds |
| `servent_recycling` | sharing of three servents by connections, pushes, control connections, restarts | holds |
| `hits_race` | link-level races on the list | holds |
| `hits_choice` | choice of a source and of an answer, list intact | holds |
| `hits_forget` | old hits are forgotten although removals race | holds |
| `channel_life` | life of a channel with a client, idle thread, administrator | holds |
| `relay_network` | a tracker and three relays that lose and change their sources | holds |
| `root_link` | a broadcaster, its encoder and the root server | holds |
| `lock_order` | five threads and their locks | holds |

What they show:

* `pcp_stream`. `SentInOrder`: what is sent is a prefix of what was accepted.
  `OverrunBounded`: the check-then-write of `willSkip` lets unlocked writers overrun
  the queue by one packet per writer beyond the first, and never under the
  servent's lock. `NoWriteAfterDelete`: no locked writer is inside a deleted
  stream. `AcceptedIsSent`: what was accepted is sent or the connection ends.
  `ImplementsFifo`: with the lock, the ring is a bounded FIFO.
* `stream_delivery`. `NeverRepeats` (within one stream and without wrap-around),
  `LosesOnlyOverwritten`, `StartsAtKeyFrame` (the first data a player gets is no
  continuation, except behind the header of a restarted stream, which ends the
  skipping: section 7), `Delivered` (a client that keeps
  running catches up or stops) and `NewHeaderSent` (after a restart it is sent
  the new header). The last one fails with `Order = "index_first"`.
* `servent_streams`, `servent_recycling`. `LimitsHold` in every interleaving of
  the decision, the grant, relay management and the end of connections;
  `OneOwner`, `OneThread`: no servent is handed out or started over while in
  use; `StreamingIsCounted`: the assertions of `processStream` hold whoever aborts;
  `AbortedEnds`, `RestartListens`: an aborted connection gives its servent back,
  a restart ends in a new listener.
* `hits_race`, `hits_forget`. Unlocked changes can undo each other (a removed
  hit can come back, a new one can be lost) but never make a loop (`NoCycle`),
  and an old hit is forgotten once hosts stop leaving (`OldIsForgotten`).
* `hits_choice`. `AnnouncedIsListed`, `FailedNotPicked`, `NearestPicked`,
  `RefusedIsHelped`, with the tip of the channel directory at a host's own address,
  which the channel's thread inserts without `chanMgr->lock` while announcements and the
  idle thread change the list. An insertion can be lost in this way, and, when hosts leave, a removed hit come back;
  the first two properties say that nothing but such a lost update (`lost`) loses
  an announced host or brings a failed address back. In particular an unlocked
  change that overlaps with others and overwrites none of them does no harm. A client is refused with
  nothing only if no tracker is listed that it could connect to: alive,
  reachable from outside, within 255 hops and not the client itself. One host can
  have two hits, and the properties are stated with that in mind. Hosts that leave (`delHit`, unlocked
  too) are in `hits_race`; for `AnnouncedIsListed` and `FailedNotPicked` they are part of the proofs.
* `channel_life`. `ListedHaveThreads`: the list has each channel object once, and
  exactly those with a thread, or with a request that is about to start their
  first thread; this is what lets `findChannelByID`, a stop and the idle thread
  rely on the list although objects are put on it, started and taken off in
  different critical sections. `StoppedEnds`: a channel told to stop ends, whoever waits for
  it and whatever it is doing. `GivesUp`: a channel for which no host is known
  ends after its contacts to the root server; this assumes that the root host's
  name resolves in the end (an unresolved name is not counted as a try, and TLC
  shows the endless search without the assumption), and it does not speak of a
  channel that is reading, since a silent source is never given up. `IdleLimit`,
  `WokenSearches`: idle channels are closed down to the limit, a woken one
  searches.
* `relay_network`. `CyclesAreUntold`: a cycle of sources comes about only while
  `PCP_QUIT` is on its way to one of its hosts, or if one of them was not told, or
  came as a private peer to a host that had no source.
  `CyclesEnd`: a cycle ends, by the automatic bump if nothing else, unless a
  header goes round in it, which keeps the bump from coming (section 7).
  `LoopbackBreaks`: a cycle of three hosts or more comes apart even then when a host's own status has come back
  to it, and status is sent regularly; in a cycle
  of two it does not come back (a packet is never sent back to the host
  it came from). `NewsOnItsWay`: a relay within reach of the tracker's broadcasts
  that lacks the last one has something coming to it, or to a host between, that
  will change this; in particular none is lost between the creation of `pcpStream` and the
  information that `sendPCPChannel` starts with. `InfoArrives`: whoever stays
  within that reach ends up with the last information that was
  broadcast, also when it connects during the broadcast. The exception both
  formulas make (`Told`) is real: a relay that is being accepted while its source loses
  its own has no `pcpStream` yet, misses the `PCP_QUIT`, and stays on a host that
  learns of changes later without passing them on; so does a private peer that came
  when its source had none. `PushOnItsWay`, `PushArrives`: a push request
  is not lost, and reaches its host, if every connection on the way has carried
  a packet of that host before and the way is not longer than its time to live.
* `root_link`. `Listed`: what is queued between `S_CONNECTED` and `pcpStream->init` is
  thrown away and yet counts for the limit of one update in 30 seconds; the
  root's request for an update makes up for it. `Unlisted`: the link may be given up before
  the last update is written, and then only the age of the hit ends the listing. `Relisted`:
  after a takeover the old channel's last update removes the new one from the
  list, until the next periodic update. `Relinked`: refusals
  ("already connected") end, because the root's end of a lost connection does.
* `lock_order`. `OnlyKnownCycles`: the code has two circular waits. `getChannels` holds
  `chanMgr->lock` and asks for `servMgr->lock` (`jrpc.cpp:519`), `saveSettings` the
  other way round; a restart of the RTMP server holds the monitor's lock and
  asks for `servMgr->lock` (`rtmpmonit.cpp:26`), `getState` and `quit` the other
  way round. Without either of the two in `KnownPairs` TLC
  finds the deadlock, and there is no third.

`TypeOK` of `PCPStream`, `StreamDelivery`, `ServentPool`, `ChannelRelay`,
`RelayNetwork` and `RootLink` is proved for all values of the constants and is
not repeated by the runs.

Bounds, and why they are enough:

* *Ring*: two slots, one of them safe, make full, empty, overwritten and lagging
  all happen within four packets. Three writers is the first number at which
  two of them are past `willSkip` behind a third. `PosMod` is larger than any
  position.
* *Streams*: two streams, one after the other, are one restart; a gap of one is
  one packet the upstream host skipped; two packets between two titles
  are the least that are ever held back.
* *Pool*: three servents are the listener and two connections, the least number
  for two to compete. Limits are 1, except where two limits must differ.
* *Hits*: three objects let a removal meet a neighbour that is itself being
  removed (in `hits_choice` two, for a host and what is inserted or removed beside it); ages and delays of 1 (0 in `hits_race`, where every hit is old at
  once) reach every comparison on both sides.
* *Channels*: one channel ID and two objects, so that one that ends and its
  successor coexist; `MaxIdle = 0`, so that one idle channel is over the limit
  (the code's value is 8); `MaxTries = 1` (3 in the code; 0 stands for no root
  host); one command per behaviour, at any moment.

* *Network*: three relays are the least number for a cycle with loopback, a cycle
  of two with a host below it, and a host two steps from the tracker. Information and
  push requests go two hops (7 in the code), so that a relay at the third is out
  of their reach, as one at the eighth is; a status goes three (11), from every host. Two packets begin and one connection
  is made after the first ones. The first trees are those with the tracker, host 1 on it,
  host 2 on host 1 and host 3 on either, so that each shape is taken once; host 2 takes host 3 for
  a private peer, and in the chain of all three host 3, or both, may have just been accepted.
  `LoopbackBreaks` is stated of one relay that stands for any (`AnyRelay`), since the hosts are treated alike.
* *Root*: two sockets are an old connection and its successor; two versions are
  a change or a takeover; one fault at any point; a periodic update is sent only when fewer than
  `MaxQueue = 1` are on their way.
* *Locks*: the idle thread, the server thread, one channel and two requests: a
  circular wait of locks taken in pairs needs at most one request per operation
  that is part of it.

Symmetry is used for the hit objects, in runs without liveness. Deadlock is
reported except in `PCPStream`, `StreamDelivery`, `RelayNetwork` and `RootLink`, whose connections end and whose bounded
sources run dry, and in `LockOrder`, where the known circular waits are deadlocks.

## 5 Fairness

* `PCPStream`: weak fairness of the connection's thread and of a writer past its
  check (it holds no lock it could wait for and stores its packet next). New
  packets are not assumed.
* `StreamDelivery`: weak fairness of the client's thread and of a source that has
  begun a restart. New data is not assumed.
* `ServentPool`: weak fairness of the server loop, of the listening thread and of each servent's thread
  where it does not wait for a peer; strong fairness of taking
  `streamRequestMutex`, since a `std::mutex` contended by a few threads is not
  starved. Peers may be silent for ever.
* `ChanHits`: weak fairness of the threads inside the list and of time; strong
  fairness of the idle thread taking `chanMgr->lock`.
* `ChannelRelay`: weak fairness of each channel's thread (connecting has a
  timeout; reading is not assumed to end), of starting a created channel, of
  the administrator's copy, stop and join, and of the retry time. `IdleLimit`
  carries weak fairness of the idle thread as its own premise. Nothing is
  assumed of hosts, clients or which commands are given.
* `RelayNetwork`: weak fairness of reading each connection at either end, of
  opening a stream, of reading a header, of the end of the wait for one and of the automatic bump (a channel's thread polls it).
  That anybody connects or broadcasts is not assumed.
* `RootLink`: weak fairness of the broadcaster's link as one thread, of each
  socket's servent at the root, of the last update and of the first one;
  strong fairness of `Expire`: the age of a hit passes the limit unless
  updates keep coming. Periodic updates are assumed only in the premise of `Relisted`.
* `LockOrder` has safety only.

## 6 Proofs

The theorems hold for every value of the constants that satisfies the named
assumptions: `MaxPacketsAssumption`, `NumSafePacketsAssumption`, `PosModAssumption`,
`WritersAssumption` (a finite, non-empty set), `NoDataAssumption`,
`BoundsAssumption`; for the pool `PoolAssumption` (limits are naturals, at
least one servent, `None` is nothing else); for the network `NetworkAssumption`
(the tracker is no relay, relays are finitely many, times to live are positive) for a node's channels
`RelayAssumption` and for the root `RootLinkAssumption` (bounds are naturals,
`None` is nothing else); for the delivery that
bounds are naturals; for the locks `LockOrderAssumption` (the serving threads are finitely many and none of the named three),
for the hit lists `HitsAssumption` (delays are positive, `None` is nothing else,
objects are finitely many, our own session announces nothing to us). TLC
evaluates them in every run. A theorem that needs more says so in its `ASSUME`.

`PCPStreamProofs`:

* `TypeInv` is `TypeOK` with `WriterOK`: a writer past its check holds a real
  packet. Proved first, everything else uses it.
* `OutOK` is what `SentInOrder` needs to be inductive. It says which packet is
  where: the slot of every position still in the ring holds the packet accepted
  at that position (`RingOK`), and what was taken are the packets before
  `readPos` (`Prefix`). Two positions of the window never
  share a slot (`SlotsDiffer`), so a write changes just its own. From it follow
  `SendingIsInOrder` and, with the same argument for `inData` (`InOK`: it never
  holds more than the one packet that is processed next), `ProcessingIsInOrder`.
* `CapInv` counts: packets pending plus writers past their check never exceed
  the ring plus the possible excess, because a writer passes its check only when there
  was room. It gives `OverrunIsBounded` and, with the part about the closed
  stream, `NothingWritesAfterDelete`.
* `RingImplementsFifo`: the queue of `BoundedFifo` is the sequence of pending
  packets; a locked write appends to it, a read takes its head
  (`FromAppend`, `FromTail`), every other step leaves it alone. An unlocked stream maps
  to an unused queue: the promise is for the lock's users.

`ServentPoolProofs`:

* `PoolInv` is `TypeOK` with `Owned` (a servent that runs a thread or is
  handed out is not free, and it is handed out to one caller only), `ServerOwned`
  (the listening servent's states), and `Counted` (a servent is connected, with the
  channel it asked for, exactly when its request was granted). One lemma per action. It yields
  `ServentsHaveOneOwner`, `StreamsAreCounted`, `ThreadsDoNotOverlap`.
* `LimitInv` adds `Reserved`: while a thread holds `streamRequestMutex` after a
  yes of `canStream`, there is still room for it. `LimitsHold` alone is not
  inductive, because a grant depends on a count taken one step earlier; `Reserved`
  carries the count over, since nobody else can be granted anything
  meanwhile and every other step only takes streams away (`StreamsShrink`).
  It yields `LimitsAreKept`, also for any number of servents.

`RelayNetworkProofs`, for any number of relays, any trees to start with, any times to live:

* `TypeOK` says more than types, and is inductive as it stands:
  what travels up a connection is the status of a relay and nothing else
  (`UpPacket`); since forwarding never sends a packet back to where it came from
  (`NotBackUp`), what comes down stays down, so the tracker lists relays only and
  routes down lead to relays. `BoundsOK` carries the versions: each one made uses
  up a packet of the bound.
* `Below` is a function over `0..hops`. What is claimed of it for every number of hops is
  shown by the least number for which it would be false (`LeastNatural`), in the
  place of an induction: a host within reach has a way to it, a set of relays
  with heights that count down to the start (`BelowWay`), and such a way is reach
  (`WayBelow`). A relay has one source, so two ways to a host agree where they
  meet (`OneWay`). The inductive invariants speak of ways, not of `Below`.
* `Wired` says what fits each stage of a connection: nothing is queued before there
  is a stream, the information it starts with comes first, a relay whose
  source does not receive has missed this, has `PCP_QUIT` to read or still waits for the source to play.
* `CyclesOnlyIfUntold`: by `NoCircle`, in every set of relays that holds
  their sources somebody has missed, or has yet to read, that a source has lost its
  own. A relay closes a circle only by connecting, and before that it did not
  receive, which by `Wired` those below it know or have missed.
* `NoNewsIsLost`: `NewsInv` speaks of every set of relays that is closed under sources and
  has missed nothing (`Tuned`), whether or not they are up to date. News on a connection goes as
  far as the place of the relay requires (`GoFar`), and the last word
  counts: when a relay has read all that is coming, it has the version its source has, or, below the
  tracker, the last one that was broadcast or newer (`Given`). `NewsOnItsWay` follows
  along a way on which nothing is coming any more.
* `PushIsNotLost`: by `PushInv` there is, while a request is on its way,
  a way from the tracker to the host over connections whose route lists
  have it, and somebody on it has the request coming with a
  time to live for the rest of the way, or must quit. Each hop takes one off the time to live
  and adds one to the height.

`ChannelRelayProofs`, for any number of channel objects, channels, requests and
commands:

* `RelayInv` is `TypeOK` and `ListedHaveThreads` with what they need to be
  inductive: two requests are never about to start the same object, and whoever
  waits for a thread waits for one of a real object (`ClientsOK`); the idle
  channels are those that have a place in the order of idleness (`IdledOK`); a
  thread is idle only at four of its points, and goes to the root server only
  while it has contacts left (`PointsOK`). `ThreadKeeps`, `DeleteKeeps`,
  `CreateKeeps`, `StartKeeps`, `ClientKeeps`, `CommandKeeps` and `RestKeeps` say
  so for the actions.
* The two lists are sequences without repetition (`Once`). What happens to them
  is one more at the end or in front, the first taken off, or one taken out of
  the middle (`AtTheEnd`, `InFront`, `BehindFirst`, `TakenOff`). A search of the
  list returns the first match, which exists by `LeastNatural`
  (`FoundIsChannel`). `TypeCorrect` and `ListAndThreadsAgree` follow from
  `RelayInv`.
* The other end of a channel that is broadcast from this node is the root
  server: `Link` is an instance of `RootLink`, and `LinkTypeCorrect` proves
  `TypeOK` of that module from `RootLinkAssumption`. One lemma says for each of
  the things an end does to a socket (`HungUp`, `Answered`, `ReadDown`, `SentUp`)
  that it remains one, and the broadcaster has a socket exactly while it is past
  connecting (`LinkOK`).

`ChanPacketBufferProofs` has the lemmas about the ring that the connection and
the delivery share: types, `WriteWindow` (a write adds one position to the window and
may drop one), `FindPacketLeast` (`findPacket` gives the packet at the least
position that is not before the one asked for).

`StreamDeliveryProofs`, for every ring, every order of a restart and every kind of client:

* `TypeInv` is `TypeOK` with `RestartOK` (only a stream that has a length is restarted).
* `StartInv` adds what has been sent at each point of the client's thread
  (`PhaseOK`), and that the second packet sent to a player is no continuation (`StartOK`).
* `PlaceInv` adds that a packet of the ring, the header and a packet sent all lie
  where their source put them, not ahead of it (`Placed`, `Past`). This is where the positions
  of the program and the true places of a stream are the same number, so it
  assumes `MaxAt < PosMod`: the stream is shorter than 4 GiB. A longer one does repeat
  packets (section 7), so the assumption cannot be dropped.
* `LossInv` for `LossOnlyByOverwriting`: no packet still buffered lies between two packets
  sent (`GapFree`), and the client never asks for a position beyond the end of
  what it was sent last (`AsksNext`). A client with titles has taken more than it has sent,
  so both speak of `Sent`, which includes what it holds back.
* `OnceInv` for `NoPacketTwice`: all that was sent lies below the position asked for, and while the
  first stream starts no client gets past the wait for its header, so that
  none finds the index changed. `PlayerStartsAtKeyFrame` follows from it and `StartOK`: if the first data is a
  continuation, a header went before it as the second packet; in the first stream
  that header would be a packet sent at position 0 after another one, which `Increasing`
  excludes. Hence the stream has been restarted.

`LockOrderProofs`, for any number of threads that serve requests:

* `Rank` is the order in which the program takes its locks, `KnownPairs` are the two
  places against it. `Ordered(joins, s, p, e)` says of the rest `p` of an
  operation, begun with the stack `s` of locks, that each lock it takes is
  allowed above those it holds, that it waits for a thread only with none held, and
  that it ends with the stack `e`. An operation is a sequence, and induction
  over sequences is out of reach; `Ordered` is therefore the existence of a set of
  pairs of stack and rest that is closed under the next step, and `GoodConcat` and
  `GoodHolding` build that set for an operation from its parts.
* `LockInv`: what is left of each thread's operation is `Ordered`, and a lock has one holder.
  In a circle of waits every lock that is wanted is held by a thread that wants a
  later one, unless the two are a known pair; ranks are at most 4
  (`NoOtherCycle`), and the channel's thread waits for no thread. Hence
  `CircularWaitsAreKnown`.

`ChanHitsProofs`, for any number of hits, connections and announcements:

* `ListInv`, the base of the rest: links, head and the pointers of threads lead to
  objects that exist, and the hits can be ranked so that every link, and
  every link that a `deleteHit` has found and not yet written, leads down (`Descends`). The second
  half is what makes `NoCycle` inductive: an unlocked removal writes a link it
  read earlier, and what it read may have been taken off since. A new hit is ranked above all
  others (`MakeHitOK`), a removal only joins what was already ordered (`UnlinkOK`). It
  yields `ListHasNoCycle` and, with the types of the rest (`TypeInv`), `TypeCorrect`.
* `PicksNearest` is about a loop. `pickHits` and the walk along the links are functions over
  `0..n`; the least number at which such a function would differ from what is claimed gives the
  contradiction (`LeastNatural`, `LoopValues`), in the place of an induction. `PickHitNearest`
  is the loop's invariant: after `k` hits, the first of the nearest among
  them. `ListedIsSearched` and `SearchedIsListed` say that the loops visit the hits
  that pointers reach and no others, which needs the ranks: a list longer than
  there are objects would visit one twice.
* `RefusedIsAlwaysHelped` is an action property that needs no more than `TypeInv`: the last
  search for trackers ignores contact times, so a listed tracker that it passes over
  is dead, firewalled, the client itself or too far away.
* `AnnouncedStaysListed` and `FailedStaysUnpicked` hold for every way in which the code changes the
  list, with `chanMgr->lock` (announcements, the idle thread) or without it (`delHit`, the tracker of the
  channel directory), as long as no update was lost. Their invariant is `KeptInv`. Part of it holds
  whatever the threads do (`Entries`): a hit that a thread has made and not yet linked is known to
  that thread only (`Fresh`), and who announces or clears has the lock (`Locked`). The rest
  (`Expected`) holds while nothing is lost: every
  host that is expected to be listed is (`HostsListed`), and what is listed at an address
  reported dead is marked (`DownIsDead`). It is kept because one link written changes
  the list by one hit when the link was still as it was read: one more at the head, or the one
  that was to be deleted less. What a thread has read is not part of the invariant, because another thread may change it:
  `StillSo` is asked when the link is written.
  After a lost update both properties can fail (TLC finds it, with the constants of `hits_race`, when `lost` is left out of them).

What stays with TLC:

* All liveness properties; liveness under fairness is beyond the prover.
* `RootLink` beyond `TypeOK`: what its run checks is liveness.
* `NewHeaderSent`, `Delivered`, and `HeadBeforeData`, which is violated.

## 7 Findings

`stream_restart` (`pcp.cpp:352`, also `mkv.cpp`). The stream index is counted up
before the ring and the header are replaced, and clients look at them without
the lock: data of the new stream can go out before its header. The order of
`flv.cpp` and `mp4.cpp` at least makes sure that the header follows
(`NewHeaderSent`).

Divergences seen while modelling, without a run of their own:

* `findPacket` (`chanpacket.cpp:106`) compares 32-bit positions with `>=`. After a
  wrap-around (4 GiB of stream) a client that has caught up has a small
  position, finds the old packets with large ones, and is sent the window
  again. `NeverRepeats` fails if `PosMod` is small.
* `controlInFull` is asked before (`servent.cpp:1363`), and the connection counted
  after, the handshake, with nothing held in between: one connection too many
  is accepted. Stream requests have a mutex for this very purpose.
* A tracker "if all else fails" (`servent.cpp:753`) is sent after every answer of
  one to seven hits, since the search that found no further hit has cleared
  the variable that is tested.
* `CMD_apply` sleeps half a second "to give server time to restart itself"
  (`servhs.cpp:1425`) and holds `servMgr->lock` meanwhile, which `serverProc` needs.
* `sendRawMetaChannel` (`servent.cpp:1864`) does not look at `streamIndex`: after a
  restart of the stream such a player gets nothing until the new stream has
  passed its old position, or it is given up.
* A cycle of two hosts that feed each other can last for ever. A connection starts with the
  header (`servent.cpp:890`, `2002`), normally at position 0; the host that reads it restarts its stream
  (`pcp.cpp:351`), and its servents send the header on (`servent.cpp:2025`), to the
  host it came from among them. Each pass renews `lastWriteTime`, so that `checkBump`
  (`channel.cpp:1223`) never finds 30 seconds of silence, and loopback detection does not work between two hosts. A
  longer cycle ends when a status comes back to its sender.
* `docs/continuation-packets.md:31` has a player begin with a packet that is no continuation. `sendRawChannel`
  stops skipping at any packet that is no continuation (`servent.cpp:1831`), the header of a restarted stream
  among them, so that after a restart the first data can be a continuation.
* The two circular waits of `LockOrder`, and the channel that leaves the root's
  list after a takeover.

Also listed as hazards: a stop between
`createChannel` and `startThread` is lost; `getChannel` can leave a playing channel with
play time zero; `closeOldestIdle` can close a channel that a request has just
woken; two requests for one channel can create it twice.

## 8 What is not covered

* `PCPStream`: the contents of atoms, whole-ring copies, statistics.
* `StreamDelivery`: the text of titles (ICY metadata), the wait for a channel to play,
  timeouts of the client's socket; that a relay which connects again resets the ring
  (`channel.cpp:475`) before a source of its new connection counts `streamIndex` up.
* `ServentPool`: process exit, failure to bind, changes of limits and filters at
  run time, `servMgr->lock` while the server loop sleeps; `initGIV`'s connecting
  is one step. Control connections are counted for the limit without the distinction of private
  peers and outgoing ones (`T_COUT`).
* `ChanHits`: the list of lists, statistics over hits, flags of relays that are
  full, contact to the YP; one channel. A hit that is announced again is overwritten in one step,
  while the code copies the new one over it and then restores `next` (`chanhit.cpp:367`), so that an unlocked
  scan may take it for the end of the list; the searches that `SendRest` makes one after
  the other (`servent.cpp:737`) are one step.
* `ChannelRelay`: channels broadcast from this node, `closeAll` at exit,
  channels restored from the settings, `findAndPlayChannel`, failure to create
  a thread, the firewall check, `ch->lock` (held by `connectFetch` while it
  connects), more than one administrator thread, the QUIT sent downstream,
  several channel IDs at a time. A channel object that has ended stands at once for the
  next one to be created, so that its flags are those of a new object, while `Channel::reset` itself leaves
  `thread.active` alone.
* `RelayNetwork`: the control connections to the root, several channels, hosts
  that fail to answer, the atoms of a packet; hosts with different TTLs; headers of a format that
  puts them elsewhere than at position 0. The end of a connection at the relay (end of the read loop, broadcast of `PCP_QUIT`,
  clearing of `sourceStream`) is one step, and a `sendPacketUp` beside it that uses the cleared stream is listed as a hazard.
* `PCPStream` begins with a stream in use; packets that are queued before
  `init` of an outgoing connection are in `RootLink`.
* `RootLink`: several root hosts and the choice among them, settings the root
  sends, more than one channel at a time apart from a takeover, the reading of
  the broadcast itself.
* `LockOrder`: network stalls under a lock, the lock of the log, operations with
  one lock at a time; which of two servents or channels a lock belongs to.
* Data races on `std::thread` handles and plain flags are modelled as atomic
  reads and writes at their line; that two commands can join one handle at
  the same time is listed as a hazard.
* Components with status `not_modelled` in `PROJECT.json`, with their reasons.

## 9 Running it

    tlc -config PCPStream.cfg MCPCPStream        # likewise for the other runs
    tlapm ChanHitsProofs.tla                     # likewise for the other proofs

The longest run, `hits_choice`, visits 1.1 million states and takes about three
minutes on two cores; the proofs are some 13,400 obligations.
