--------------------------- MODULE ServerRegistry ---------------------------
(***************************************************************************)
(* The servers of the process: OckRpcServerCreateWithCfg,                  *)
(* OckRpcServerStart, OckRpcServerDestroy and the lookup by name of        *)
(* OckRpcClientConnectWithCfg, called by concurrent threads.               *)
(*                                                                         *)
(* g_serviceMap lists servers by name, under serviceMutex.  The options a  *)
(* server is started with are not kept with the server: they are the       *)
(* process-wide g_options and g_tlsFunc, which every creation writes and   *)
(* every destruction resets, outside the lock.  They are modelled part by  *)
(* part, a part being named by the configuration it was last written from: *)
(*   "base"   what every creation assigns (segment size and count, queue   *)
(*            sizes, address mask, heartbeat, rndv, enableTls);            *)
(*   "range"  the tail of oobPortRange, which a creation with a shorter    *)
(*            range leaves in place, as it is copied without its NUL;      *)
(*   "groups" workerGroups and workerGroupsCpuSet, assigned if configured; *)
(*   "tls"    the callbacks of g_tlsFunc, assigned if TLS is in use.       *)
(***************************************************************************)
EXTENDS SharedMutex, FiniteSets, Sequences

CONSTANTS Threads, Names, Handles, Configs,
          Writes,     \* Writes[c] : the parts a creation with configuration c writes
          NoHandle, NoConfig, NoName

Parts == <<"base", "range", "groups", "tls">>    \* in the order they are written
PartSet == {Parts[k] : k \in 1..4}
ASSUME ConstantsOK ==
    /\ IsFiniteSet(Threads)
    /\ Writes \in [Configs -> SUBSET PartSet] /\ \A c \in Configs : "base" \in Writes[c]
    /\ NoThread \notin Threads /\ NoHandle \notin Handles /\ NoConfig \notin Configs
    /\ NoName \notin Names

VARIABLES
    lock,     \* serviceMutex
    map,      \* g_serviceMap
    opts,     \* g_options and g_tlsFunc
    srv,      \* srv[h] : libhcom's state of server h
    started,  \* started[h] : the options h was started with, Default before
    cfg,      \* cfg[h] : the configuration h was created with, once creation succeeded
    pc, name, conf, h,  \* a thread's control point, arguments and server
    mixed     \* history: creations and destructions have overlapped, see Mixes

local == <<pc, name, conf, h>>
vars  == <<lock, map, opts, srv, started, cfg, local, mixed>>

Default == [p \in PartSet |-> NoConfig]
PCs == {"idle", "createLock", "insert", "options", "destroyLock", "destroy", "erase", "reset",
        "findLock", "find", "connect"}

\* Every variable keeps its type.
TypeOK ==
    /\ lock \in LockType(Threads)
    /\ map \in [Names -> Handles \cup {NoHandle}]
    /\ opts \in [PartSet -> Configs \cup {NoConfig}]
    /\ srv \in [Handles -> {"none", "live", "started", "stopped"}]
    /\ started \in [Handles -> [PartSet -> Configs \cup {NoConfig}]]
    /\ cfg \in [Handles -> Configs \cup {NoConfig}]
    /\ pc \in [Threads -> PCs]
    /\ name \in [Threads -> Names \cup {NoName}]
    /\ conf \in [Threads -> Configs \cup {NoConfig}]
    /\ h \in [Threads -> Handles \cup {NoHandle}]
    /\ mixed \in BOOLEAN

Init ==
    /\ lock = Unlocked
    /\ map = [n \in Names |-> NoHandle]
    /\ opts = Default
    /\ srv = [s \in Handles |-> "none"]
    /\ started = [s \in Handles |-> Default]
    /\ cfg = [s \in Handles |-> NoConfig]
    /\ pc = [t \in Threads |-> "idle"]
    /\ name = [t \in Threads |-> NoName]
    /\ conf = [t \in Threads |-> NoConfig]
    /\ h = [t \in Threads |-> NoHandle]
    /\ mixed = FALSE
-----------------------------------------------------------------------------
LockShared       == MayShare(lock) /\ lock' = Share(lock)
LockExclusive(t) == MayLock(lock) /\ lock' = Lock(lock, t)
Unlock(t)        == lock' = Release(lock, t)
Goto(t, l)       == pc' = [pc EXCEPT ![t] = l] /\ UNCHANGED <<name, conf, h>>
Return(t)        == /\ pc' = [pc EXCEPT ![t] = "idle"]
                    /\ name' = [name EXCEPT ![t] = NoName]
                    /\ conf' = [conf EXCEPT ![t] = NoConfig]
                    /\ h' = [h EXCEPT ![t] = NoHandle]
Call(t, l, n, c, s) == /\ pc[t] = "idle"
                       /\ pc' = [pc EXCEPT ![t] = l]
                       /\ name' = [name EXCEPT ![t] = n]
                       /\ conf' = [conf EXCEPT ![t] = c]
                       /\ h' = [h EXCEPT ![t] = s]
Live             == {s \in Handles : srv[s] # "none"}
Listed(s)        == \E n \in Names : map[n] = s
Busy(t)          == pc[t] \in {"createLock", "insert", "options",
                               "destroyLock", "destroy", "erase", "reset"}

\* A creation begins while another server is there or another thread is at work on one;
\* the history ends when none of this is the case any more.
Mixes(t) == mixed' = (mixed \/ Live # {} \/ \E u \in Threads \ {t} : Busy(u))
Settles(t, live) == mixed' = (mixed /\ (live # {} \/ \E u \in Threads \ {t} : Busy(u)))
-----------------------------------------------------------------------------
(***************************************************************************)
(* OckRpcServerCreateWithCfg.  Invalid arguments and a failing             *)
(* Service_Create return before anything has changed.  libhcom may hand    *)
(* out the handle of a destroyed server, but not while another thread is   *)
(* still about to destroy it a second time.                                *)
(***************************************************************************)
Create(t, n, c, s) ==
    /\ Call(t, "createLock", n, c, s)
    /\ srv[s] = "none"
    /\ \A u \in Threads : ~(h[u] = s /\ pc[u] \in {"destroyLock", "destroy"})
    /\ srv' = [srv EXCEPT ![s] = "live"]
    /\ cfg' = [cfg EXCEPT ![s] = NoConfig]
    /\ Mixes(t)
    /\ UNCHANGED <<lock, map, opts, started>>

\* OckRpcCreateServer takes the shared side although it inserts.
CreateLock(t) == /\ pc[t] = "createLock"
                 /\ LockShared
                 /\ Goto(t, "insert")
                 /\ UNCHANGED <<map, opts, srv, started, cfg, mixed>>

\* A name that is taken stays with its server; the creation goes on regardless.
Insert(t) ==
    /\ pc[t] = "insert"
    /\ map' = IF map[name[t]] = NoHandle THEN [map EXCEPT ![name[t]] = h[t]] ELSE map
    /\ Unlock(t) /\ Goto(t, "options")
    /\ UNCHANGED <<opts, srv, started, cfg, mixed>>

\* What a creation writes, if it gets as far as part k.
Written(c, k) == [p \in PartSet |-> IF p \in Writes[c] /\ \E j \in 1..k : Parts[j] = p
                                      THEN c ELSE opts[p]]

SetOptions(t) ==
    /\ pc[t] = "options"
    /\ opts' = Written(conf[t], 4)
    /\ cfg' = [cfg EXCEPT ![h[t]] = conf[t]]
    /\ Return(t)
    /\ UNCHANGED <<lock, map, srv, started, mixed>>

\* Variant: an error return that leaves the new server behind.
SetOptionsFails_returns(t, k) ==
    /\ pc[t] = "options"
    /\ opts' = Written(conf[t], k)
    /\ Return(t)
    /\ UNCHANGED <<lock, map, srv, started, cfg, mixed>>

\* An option is invalid; the new server is destroyed.
SetOptionsFails(t, k) ==
    /\ pc[t] = "options"
    /\ opts' = Written(conf[t], k)
    /\ Goto(t, "destroyLock")
    /\ UNCHANGED <<lock, map, srv, started, cfg, mixed>>
-----------------------------------------------------------------------------
\* OckRpcServerStart, with a handle the user was given and has not destroyed.
Start(t, s) ==
    /\ pc[t] = "idle" /\ srv[s] = "live" /\ cfg[s] # NoConfig
    /\ \A u \in Threads : ~(h[u] = s /\ Busy(u))
    /\ srv' = [srv EXCEPT ![s] = "started"]
    /\ started' = [started EXCEPT ![s] = opts]
    /\ UNCHANGED <<lock, map, opts, cfg, local, mixed>>
-----------------------------------------------------------------------------
(***************************************************************************)
(* OckRpcServerDestroy, with a handle the user was given; several threads  *)
(* may do so, at once or one after the other.                              *)
(***************************************************************************)
Destroy(t, s) ==
    /\ Call(t, "destroyLock", NoName, NoConfig, s)
    /\ cfg[s] # NoConfig
    /\ mixed' = (mixed \/ \E u \in Threads \ {t} : Busy(u))
    /\ UNCHANGED <<lock, map, opts, srv, started, cfg>>

DestroyLock(t) == /\ pc[t] = "destroyLock"
                  /\ LockExclusive(t)
                  /\ Goto(t, "destroy")
                  /\ UNCHANGED <<map, opts, srv, started, cfg, mixed>>

\* A handle that is not listed is refused.
DestroyUnknown(t) == /\ pc[t] = "destroy" /\ ~Listed(h[t])
                     /\ Unlock(t) /\ Return(t)
                     /\ Settles(t, Live)
                     /\ UNCHANGED <<map, opts, srv, started, cfg>>

\* Variant: the map is not searched.
StopAndDestroy_any(t) ==
    /\ pc[t] = "destroy"
    /\ srv' = [srv EXCEPT ![h[t]] = "none"]
    /\ started' = [started EXCEPT ![h[t]] = Default]
    /\ Goto(t, "erase")
    /\ UNCHANGED <<lock, map, opts, cfg, mixed>>

StopAndDestroy(t) ==
    /\ pc[t] = "destroy" /\ Listed(h[t])
    /\ srv' = [srv EXCEPT ![h[t]] = "none"]
    /\ started' = [started EXCEPT ![h[t]] = Default]
    /\ Goto(t, "erase")
    /\ UNCHANGED <<lock, map, opts, cfg, mixed>>

\* Service_Destroy fails: the server is stopped, stays listed, and the options stay.
StopOnly(t) ==
    /\ pc[t] = "destroy" /\ Listed(h[t])
    /\ srv' = [srv EXCEPT ![h[t]] = "stopped"]
    /\ Unlock(t) /\ Return(t)
    /\ Settles(t, Live)
    /\ UNCHANGED <<map, opts, started, cfg>>

\* Variant: the entry is erased after the lock was released.
Erase_late(t) == /\ pc[t] = "erase"
                 /\ Unlock(t) /\ Goto(t, "reset")
                 /\ UNCHANGED <<map, opts, srv, started, cfg, mixed>>

Erase(t) == /\ pc[t] = "erase"
            /\ map' = [n \in Names |-> IF map[n] = h[t] THEN NoHandle ELSE map[n]]
            /\ Unlock(t) /\ Goto(t, "reset")
            /\ UNCHANGED <<opts, srv, started, cfg, mixed>>

\* Variant: g_tlsFunc is not reset.
Reset_options(t) == /\ pc[t] = "reset"
                    /\ opts' = [Default EXCEPT !["tls"] = opts["tls"]]
                    /\ Return(t)
                    /\ Settles(t, Live)
                    /\ UNCHANGED <<lock, map, srv, started, cfg>>

Reset(t) == /\ pc[t] = "reset"
            /\ opts' = Default
            /\ Return(t)
            /\ Settles(t, Live)
            /\ UNCHANGED <<lock, map, srv, started, cfg>>
-----------------------------------------------------------------------------
(***************************************************************************)
(* OckRpcGetCurService, and the Service_Connect that follows it.           *)
(***************************************************************************)
Connect(t, n) == /\ Call(t, "findLock", n, NoConfig, NoHandle)
                 /\ UNCHANGED <<lock, map, opts, srv, started, cfg, mixed>>

FindLock(t) == /\ pc[t] = "findLock"
               /\ LockShared
               /\ Goto(t, "find")
               /\ UNCHANGED <<map, opts, srv, started, cfg, mixed>>

\* The iterator is kept beyond the unlock.
Find(t) == /\ pc[t] = "find" /\ map[name[t]] # NoHandle
           /\ Unlock(t)
           /\ pc' = [pc EXCEPT ![t] = "connect"]
           /\ h' = [h EXCEPT ![t] = map[name[t]]]
           /\ UNCHANGED <<map, opts, srv, started, cfg, name, conf, mixed>>

FindNone(t) == /\ pc[t] = "find" /\ map[name[t]] = NoHandle
               /\ Unlock(t) /\ Return(t)
               /\ UNCHANGED <<map, opts, srv, started, cfg, mixed>>

\* The iterator is dereferenced, and the handle it yields is given to Service_Connect.
ConnectTo(t) == /\ pc[t] = "connect"
                /\ Return(t)
                /\ UNCHANGED <<lock, map, opts, srv, started, cfg, mixed>>
-----------------------------------------------------------------------------
CreateStep(t)  == \/ CreateLock(t) \/ Insert(t) \/ SetOptions(t)
                  \/ \E k \in 1..4 : SetOptionsFails(t, k)
DestroyStep(t) == \/ DestroyLock(t) \/ DestroyUnknown(t)
                  \/ StopAndDestroy(t) \/ StopOnly(t) \/ Erase(t) \/ Reset(t)
ConnectStep(t) == FindLock(t) \/ Find(t) \/ FindNone(t) \/ ConnectTo(t)
Step(t)        == CreateStep(t) \/ DestroyStep(t) \/ ConnectStep(t)

Next == \E t \in Threads :
            \/ \E n \in Names, c \in Configs, s \in Handles : Create(t, n, c, s)
            \/ \E s \in Handles : Start(t, s) \/ Destroy(t, s)
            \/ \E n \in Names : Connect(t, n)
            \/ Step(t)

Spec == Init /\ [][Next]_vars
-----------------------------------------------------------------------------
\* Whoever reads the map under the lock finds servers that are there: a server that
\* Service_Destroy has taken away is erased before the lock is released.
ListedIsLive == \A n \in Names : map[n] # NoHandle /\ srv[map[n]] = "none"
                    => \E t \in Threads : pc[t] = "erase" /\ h[t] = map[n]

\* Service_Destroy is never called with a handle that is gone, however many threads
\* destroy the server at once: the second finds it erased.
DestroyedOnce == [][\A t \in Threads : pc[t] = "destroy" /\ pc'[t] = "erase"
                                         => srv[h[t]] # "none"]_vars

\* With all servers gone and no thread at work on one the options are those of a fresh
\* process, whatever failed on the way: the next server does not inherit anything.
NothingInherited == Live = {} /\ (\A t \in Threads : ~Busy(t)) => opts = Default

\* A server that was alone from its creation to its start runs with its own options.
Own(c) == [p \in PartSet |-> IF p \in Writes[c] THEN c ELSE NoConfig]
OwnOptionsWhenAlone ==
    ~mixed => \A s \in Handles : srv[s] = "started" => started[s] = Own(cfg[s])

\* A client connects through a server that is there.
ConnectsToLive == \A t \in Threads : pc[t] = "connect" => h[t] = map[name[t]] /\ srv[h[t]] # "none"
=============================================================================
