------------------------------ MODULE LockOrder ------------------------------
(***************************************************************************)
(* Which locks the threads of the program take while they hold others, and *)
(* which threads they wait for: the circular waits this allows.            *)
(*                                                                         *)
(* The mutexes are recursive (std::recursive_mutex) and held by scope      *)
(* guards, so what a thread holds is a stack.  An operation is the         *)
(* sequence of what it locks, with everything else left out; an operation  *)
(* that takes one lock at a time and waits for no thread cannot be part of *)
(* a circular wait and is not listed.  Branches that take less than the    *)
(* longest path are left out for the same reason.  One servent, one        *)
(* channel and one hit list stand for all of them: no thread holds two of  *)
(* a kind.                                                                 *)
(***************************************************************************)
EXTENDS SequencesExt

CONSTANTS HttpThreads    \* threads of servents that serve a request

Idle == "idle"           \* ServMgr::idleProc
Server == "server"       \* ServMgr::serverProc
Chan == "channel"        \* the thread of a channel
Threads == HttpThreads \cup {Idle, Server, Chan}

ASSUME LockOrderAssumption ==
    HttpThreads \cap {Idle, Server, Chan} = {} /\ IsFiniteSet(HttpThreads)

VARIABLES
    todo,    \* what is left of the operation each thread is in
    held,    \* the locks it holds, the last taken one at the end
    told,    \* thread.shutdown() of the channel's thread
    ended    \* the channel's thread has ended

vars == <<todo, held, told, ended>>

-----------------------------------------------------------------------------
(* Steps of operations. *)

Lock(l) == <<[op |-> "lock", on |-> l]>>
Unlock(l) == <<[op |-> "unlock", on |-> l]>>
Touch(l) == <<[op |-> "touch", on |-> l]>>      \* lock and unlock
Holding(l, body) == Lock(l) \o body \o Unlock(l)
ShutdownAndWait == <<[op |-> "shutdown", on |-> Chan],
                     [op |-> "join", on |-> Chan]>>

(* ServMgr: the servent list, then each servent. *)
numStreams == Holding("servMgr", Touch("servent"))
broadcastPacket == Holding("servMgr", Holding("servent", Touch("outData")))
getState == Holding("servMgr", Touch("servent") \o Touch("directory")
                               \o Touch("uptest") \o Touch("rtmp"))
getSettings ==
    Holding("servMgr", Holding("chanMgr", Touch("directory") \o Touch("uptest")))
saveSettings == getSettings \o Touch("servMgr")

(* ChanMgr and Channel *)
numIdleChannels == Holding("chanMgr", Touch("channel"))
clearDeadHits == Holding("chanMgr", Touch("hitList") \o Touch("channel"))
addHit == Holding("chanMgr", Touch("hitList"))

closeIdles_Locked ==
    Holding("chanMgr", numStreams \o ShutdownAndWait)
closeIdles == Touch("chanMgr") \o numStreams \o ShutdownAndWait

setStatus == Holding("channel", Touch("hitList"))
readPktAtoms == Holding("channel", Touch("rawData"))
endThread == Touch("rawData") \o Touch("chanMgr")
               \o <<[op |-> "end", on |-> Chan]>>

(* RTMPServerMonitor::update restarts the server: start, makeEndpointURL.  *)
rtmpUpdate == Holding("rtmp", Touch("servMgr"))

(* Requests *)
canStream == Holding("streamRequest", numStreams \o Touch("servent"))
getChannels == Holding("chanMgr", Touch("channel") \o numStreams \o Touch("hitList"))
CMD_apply == Holding("servMgr", Touch("directory") \o saveSettings
                                \o broadcastPacket)
CMD_stop == Touch("channel") \o ShutdownAndWait

(* serverProc: the listening servent; ServMgr::quit if it cannot listen.   *)
serverProc == Holding("servMgr", Holding("servent", Touch("rtmp")))

Operations(t) ==
    CASE t = Idle -> {numIdleChannels, clearDeadHits, rtmpUpdate, saveSettings,
                      broadcastPacket}
      [] t = Server -> {serverProc}
      [] t = Chan -> IF told THEN {endThread}
                     ELSE {setStatus, readPktAtoms, broadcastPacket, addHit}
      [] OTHER -> {getState, canStream, getChannels, CMD_apply,
                   CMD_stop, closeIdles, addHit, broadcastPacket}

-----------------------------------------------------------------------------
Init ==
    /\ todo = [t \in Threads |-> <<>>]
    /\ held = [t \in Threads |-> <<>>]
    /\ told = FALSE
    /\ ended = FALSE

Holds(t, l) == \E i \in DOMAIN held[t] : held[t][i] = l
Free(t, l) == \A u \in Threads \ {t} : ~Holds(u, l)
At(t, op) == todo[t] # <<>> /\ Head(todo[t]).op = op
On(t) == Head(todo[t]).on
Goes(t) == todo' = [todo EXCEPT ![t] = Tail(@)]

Begin(t) ==
    /\ todo[t] = <<>>
    /\ t = Chan => ~ended
    /\ \E p \in Operations(t) : todo' = [todo EXCEPT ![t] = p]
    /\ UNCHANGED <<held, told, ended>>

TakeLock(t) ==
    /\ At(t, "lock") /\ Free(t, On(t))
    /\ held' = [held EXCEPT ![t] = Append(@, On(t))]
    /\ Goes(t)
    /\ UNCHANGED <<told, ended>>

TouchLock(t) ==
    /\ At(t, "touch") /\ Free(t, On(t))
    /\ Goes(t)
    /\ UNCHANGED <<held, told, ended>>

ReleaseLock(t) ==
    /\ At(t, "unlock")
    /\ held' = [held EXCEPT ![t] = Front(@)]
    /\ Goes(t)
    /\ UNCHANGED <<told, ended>>

(* ThreadInfo::shutdown *)
Shutdown(t) ==
    /\ At(t, "shutdown")
    /\ told' = TRUE
    /\ Goes(t)
    /\ UNCHANGED <<held, ended>>

ThreadEnds(t) ==
    /\ At(t, "end")
    /\ ended' = TRUE
    /\ Goes(t)
    /\ UNCHANGED <<held, told>>

(* Sys::waitThread *)
WaitThread(t) ==
    /\ At(t, "join") /\ ended
    /\ Goes(t)
    /\ UNCHANGED <<held, told, ended>>

Next ==
    \E t \in Threads : \/ Begin(t) \/ TakeLock(t) \/ TouchLock(t)
                       \/ ReleaseLock(t) \/ Shutdown(t) \/ ThreadEnds(t)
                       \/ WaitThread(t)

Spec == Init /\ [][Next]_vars

-----------------------------------------------------------------------------
(* t cannot go on until u does. *)
WaitsFor(t, u) ==
    \/ (At(t, "lock") \/ At(t, "touch")) /\ t # u /\ Holds(u, On(t))
    \/ At(t, "join") /\ u = On(t) /\ ~ended

CircularWait(S) == S # {} /\ \A t \in S : \E u \in S : WaitsFor(t, u)

(* The locks of the two circular waits the code has: getChannels holds     *)
(* chanMgr->lock and asks for servMgr->lock, saveSettings the other way    *)
(* round; the restart of the RTMP server holds the monitor's lock and asks *)
(* for servMgr->lock, getState (and quit) the other way round.             *)
KnownPairs == {{"servMgr", "chanMgr"}, {"servMgr", "rtmp"}}

(* There is no other circular wait, of locks or of a thread that another   *)
(* one waits for: every one has two threads that want the locks of one of  *)
(* these pairs.                                                            *)
OnlyKnownCycles ==
    \A S \in SUBSET Threads :
        CircularWait(S) => \E t, u \in S : {On(t), On(u)} \in KnownPairs
=============================================================================
