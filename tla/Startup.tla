------------------------------ MODULE Startup -------------------------------
(***************************************************************************)
(* The creation of a server up to the point where its options are written  *)
(* (see ServerRegistry for those): OckRpcServerCreateWithCfg loads         *)
(* libhcom, gives it a logger, and makes and equips the server with calls  *)
(* through the table of entries.  It looks at the result of Service_Create *)
(* only.  The user of a created server goes on to call other routines      *)
(* through the same table, and threads set handlers for log messages.      *)
(***************************************************************************)
EXTENDS HcomLoader

CONSTANTS Used   \* the forwarding routines that users call on a created server

\* The calls of a creation, in order.
Calls == <<"setExternalLogger", "serviceCreate", "setOobIpAndPort", "registerChannelHandler",
           "registerOpHandler">>

\* The routines of hcom4db that only forward, with the entry each goes through.
ContextRoutines ==
    [OckRpcGetOobIpAndPort |-> "getOobIpAndPort", OckRpcCloneCtx |-> "contextClone",
     OckRpcDeCloneCtx |-> "contextDeClone", OckRpcGetClient |-> "getChannel",
     OckRpcGetRndvClient |-> "getRndvChannel", OckRpcServerCleanupRndvCtx |-> "rndvFreeContext"]
ChannelRoutines ==
    [OckRpcClientDisconnectBreakHandler |-> "channelDeRefer", OckRpcSetUpCtx |-> "setUpCtx",
     OckRpcGetUpCtx |-> "getUpCtx"]
AllocatorRoutines ==
    [OckRpcMemoryAllocatorCreate |-> "memoryAllocatorCreate",
     OckRpcMemoryAllocatorDestroy |-> "memoryAllocatorDestroy",
     OckRpcMemoryAllocatorSetMrKey |-> "memoryAllocatorSetMrKey",
     OckRpcMemoryAllocatorMemOffset |-> "memoryAllocatorMemOffset",
     OckRpcMemoryAllocatorFreeSize |-> "memoryAllocatorFreeSize",
     OckRpcMemoryAllocatorAllocate |-> "memoryAllocatorAllocate",
     OckRpcMemoryAllocatorFree |-> "memoryAllocatorFree"]
MemoryRegionRoutines ==
    [OckRpcRegisterMemoryRegion |-> "registerMemoryRegion",
     OckRpcRegisterAssignMemoryRegion |-> "registerAssignMemoryRegion",
     OckRpcGetMemoryRegionInfo |-> "getMemoryRegionInfo",
     OckRpcDestroyMemoryRegion |-> "destroyMemoryRegion"]
Forwards == ContextRoutines @@ ChannelRoutines @@ AllocatorRoutines @@ MemoryRegionRoutines

ASSUME StartupConstantsOK ==
    /\ Elements(Calls) \subseteq Followed
    /\ Used \subseteq DOMAIN Forwards /\ \A r \in Used : Forwards[r] \in Followed

VARIABLES
    doing,   \* what a thread does: nothing, creating a server, or setting a handler
    next,    \* the call of a creation that comes next, 0 while the library is loaded
    result,  \* what a thread's last creation returned
    gaps,    \* the entries that were null when the creation, or its user later, needed them,
             \* and whose wrappers do not answer with an error
    raced    \* history: some of these calls were made while another thread was loading

vars == <<loaderVars, loggerVars, doing, next, result, gaps, raced>>

TypeOK ==
    /\ LoaderTypeOK /\ LoggerTypeOK
    /\ doing \in [Threads -> {"nothing", "creating", "setting"}]
    /\ next \in [Threads -> 0..(Len(Calls) + 1)]
    /\ result \in [Threads -> {"none", "ok", "err"}]
    /\ gaps \in [Threads -> SUBSET Followed]
    /\ raced \in [Threads -> BOOLEAN]

Init ==
    /\ LoaderInit /\ LoggerInit
    /\ doing = [t \in Threads |-> "nothing"]
    /\ next = [t \in Threads |-> 0]
    /\ result = [t \in Threads |-> "none"]
    /\ gaps = [t \in Threads |-> {}]
    /\ raced = [t \in Threads |-> FALSE]

Creating(t, n) == doing[t] = "creating" /\ next[t] = n
Returns(t, r)  == /\ doing' = [doing EXCEPT ![t] = "nothing"]
                  /\ next' = [next EXCEPT ![t] = 0]
                  /\ result' = [result EXCEPT ![t] = r]
Continues(t)   == next' = [next EXCEPT ![t] = @ + 1] /\ UNCHANGED <<doing, result>>

\* A call of the wrapper of f by t, and whether it answers with an error of its own.
Told(f) == f \notin table /\ Answer[f] = "error"
Looks(t, f) ==
    /\ gaps' = [gaps EXCEPT ![t] = IF f \in table \/ Told(f) THEN @ ELSE @ \cup {f}]
    /\ raced' = [raced EXCEPT ![t] = @ \/ \E u \in Threads \ {t} : Loading(u)]
-----------------------------------------------------------------------------
Create(t) ==
    /\ doing[t] = "nothing"
    /\ doing' = [doing EXCEPT ![t] = "creating"]
    /\ result' = [result EXCEPT ![t] = "none"]
    /\ gaps' = [gaps EXCEPT ![t] = {}]
    /\ raced' = [raced EXCEPT ![t] = FALSE]
    /\ UNCHANGED <<loaderVars, loggerVars, next>>

Load(t) ==
    /\ Creating(t, 0)
    /\ InitOckRpcDl(t)
    /\ UNCHANGED <<loggerVars, doing, next, result, gaps, raced>>

\* The library was not loaded, or the arguments or the configuration are invalid.
CreateFails(t) ==
    /\ Creating(t, 0) /\ phase[t] \in {"err", "ok"}
    /\ Leave(t)
    /\ Returns(t, "err")
    /\ UNCHANGED <<loggerVars, gaps, raced>>

CheckLogger(t) ==
    /\ Creating(t, 0) /\ phase[t] = "ok"
    /\ Leave(t)
    /\ TestGlobal(t)
    /\ Continues(t)
    /\ UNCHANGED <<gaps, raced>>

PassLogger(t) ==
    /\ Creating(t, 1)
    /\ \/ DefaultGlobal(t) /\ UNCHANGED <<doing, next, result, gaps, raced>>
       \/ /\ PassGlobal(t, Calls[1] \in table)
          /\ Looks(t, Calls[1])
          /\ Continues(t)
    /\ UNCHANGED loaderVars

\* Service_Create: an error, the wrapper's or libhcom's own, ends the creation.
ServiceCreate(t) ==
    /\ Creating(t, 2)
    /\ Looks(t, Calls[2])
    /\ \/ ~Told(Calls[2]) /\ Continues(t)
       \/ Returns(t, "err")
    /\ UNCHANGED <<loaderVars, loggerVars>>

\* None of these wrappers' results is looked at.
Equip(t) ==
    /\ \E n \in 3..Len(Calls) : Creating(t, n) /\ Looks(t, Calls[n])
    /\ Continues(t)
    /\ UNCHANGED <<loaderVars, loggerVars>>

Created(t) ==
    /\ Creating(t, Len(Calls) + 1)
    /\ \/ InstanceStep(t) /\ UNCHANGED <<doing, next, result>>
       \/ Log(t) /\ Returns(t, "ok")
    /\ UNCHANGED <<loaderVars, gaps, raced>>
-----------------------------------------------------------------------------
\* A routine that only forwards, on a created server.
Use(t, r) ==
    /\ doing[t] = "nothing" /\ result[t] = "ok"
    /\ Looks(t, Forwards[r])
    /\ UNCHANGED <<loaderVars, loggerVars, doing, next, result>>

OckRpcSetExternalLogger(t) ==
    /\ \/ /\ doing[t] = "nothing"
          /\ doing' = [doing EXCEPT ![t] = "setting"]
          /\ UNCHANGED loggerVars
       \/ /\ doing[t] = "setting"
          /\ InstanceStep(t) \/ \E h \in Handlers \cup {NoHandler} : SetExternalLogFunction(t, h)
          /\ UNCHANGED doing
       \/ /\ doing[t] = "setting"
          /\ SetGlobal(t)
          /\ doing' = [doing EXCEPT ![t] = "nothing"]
    /\ UNCHANGED <<loaderVars, next, result, gaps, raced>>

ConstructArrives == Construct /\ UNCHANGED <<loaderVars, doing, next, result, gaps, raced>>
-----------------------------------------------------------------------------
CreateStep(t) == \/ Load(t) \/ CreateFails(t) \/ CheckLogger(t) \/ PassLogger(t)
                 \/ ServiceCreate(t) \/ Equip(t) \/ Created(t)

Next == \/ \E t \in Threads : \/ Create(t) \/ CreateStep(t) \/ OckRpcSetExternalLogger(t)
                              \/ \E r \in Used : Use(t, r)
        \/ ConstructArrives

Spec == Init /\ [][Next]_vars
-----------------------------------------------------------------------------
\* A creation that reports success has made a server, and gave it its address, its handlers
\* and a logger; whatever of this, and of what its user calls on it later, was skipped without
\* an error is withheld by the library, or another creation was loading it at the time.
CreatedWhole ==
    \A t \in Threads :
        doing[t] = "nothing" /\ result[t] = "ok" =>
            /\ "serviceCreate" \notin gaps[t]
            /\ ~raced[t] /\ ~disturbed => \A f \in gaps[t] : Withheld(f)
=============================================================================
