----------------------------- MODULE HcomLoader -----------------------------
(***************************************************************************)
(* The loader of libhcom: InitOckRpcDl opens the library and fills a table *)
(* of entry points, g_hcomFunc, group by group; a group ends at the first  *)
(* symbol the library does not have, and the loader reports success all    *)
(* the same.  Every routine of libhcom is called through a wrapper that    *)
(* looks at its entry and answers something itself if the entry is null.   *)
(*                                                                         *)
(* Every creation of a server comes here first, without a lock.  A step is *)
(* one read or write of g_hcomDl or of an entry.  The loader runs on the   *)
(* threads that log, as it logs what it cannot find.                       *)
(***************************************************************************)
EXTENDS Logger, Sequences, FiniteSets, TLC

CONSTANTS Followed,    \* the entries that are followed, of all Functions
          OwnWrappers, \* those whose wrappers dlsym finds if it searches the whole program
          MaxMissing,  \* bound: how many of them the library may lack
          MaxOpens     \* bound: how often dlopen succeeds
-----------------------------------------------------------------------------
(***************************************************************************)
(* The groups, each in the order in which it is loaded, and the answers of *)
(* their wrappers when the entry is null: an error, a value that means     *)
(* nothing ("zero": 0, nullptr, false), or no answer at all ("silent").    *)
(***************************************************************************)
Elements(s) == {s[i] : i \in 1..Len(s)}
Answers(fs, silent, zero) ==
    [f \in fs |-> IF f \in silent THEN "silent" ELSE IF f \in zero THEN "zero" ELSE "error"]

ServiceHandlerFunc == <<"getChannel", "getContextType", "getResult", "getRspCtx", "getOpInfo",
                        "getMessageData", "getMessageDataLen", "contextClone", "contextDeClone">>
ServiceHandlerAnswers == Answers(Elements(ServiceHandlerFunc), {"contextDeClone"},
                                 {"getMessageData", "getMessageDataLen", "contextClone"})

ServiceRndvHandlerFunc == <<"getRndvChannel", "getRndvCtxType", "getRndvOpInfo",
                            "getRndvMessage", "rndvFreeContext", "rndvReply">>
ServiceRndvHandlerAnswers == Answers(Elements(ServiceRndvHandlerFunc), {}, {})

RndvFunc == <<"syncRndvCall", "asyncRndvCall", "syncRndvSglCall", "asyncRndvSglCall">>
RndvAnswers == Answers(Elements(RndvFunc), {}, {})

SendFunc == <<"setUpCtx", "getUpCtx", "postSend", "postResponse", "postSendRaw",
              "postResponseRaw", "postSendRawSgl">>
SendAnswers == Answers(Elements(SendFunc), {}, {})

CallFunc == <<"syncCall", "asyncCall", "syncCallRaw", "asyncCallRaw", "syncCallRawSgl",
              "asyncCallRawSgl">>
CallAnswers == Answers(Elements(CallFunc), {}, {})

MemoryRegionFunc == <<"registerMemoryRegion", "registerAssignMemoryRegion",
                      "getMemoryRegionInfo", "destroyMemoryRegion">>
MemoryRegionAnswers == Answers(Elements(MemoryRegionFunc), {"destroyMemoryRegion"}, {})
OnesideFunc == MemoryRegionFunc \o <<"read", "readSgl", "write", "writeSgl">>
OnesideAnswers == Answers({"read", "readSgl", "write", "writeSgl"}, {}, {})

ChannelHandleFunc == <<"channelClose", "channelDeRefer", "setOneSideTimeout",
                       "setTwoSideTimeout">>
ChannelHandleAnswers == [f \in Elements(ChannelHandleFunc) |-> "silent"]

ServiceInitFunc == <<"setExternalLogger", "serviceCreate", "setOobIpAndPort",
                     "getOobIpAndPort", "serviceStart", "serviceStop", "serviceDestroy",
                     "channelConnect", "channelDestroy">>
\* Variant: the wrapper of Service_Create answers with an uninitialised result of 0.
ServiceInitAnswers_zero ==
    Answers(Elements(ServiceInitFunc), {"setExternalLogger", "setOobIpAndPort", "serviceStop",
                                     "channelDestroy"}, {"getOobIpAndPort", "serviceCreate"})
ServiceInitAnswers ==
    Answers(Elements(ServiceInitFunc), {"setExternalLogger", "setOobIpAndPort", "serviceStop",
                                     "channelDestroy"}, {"getOobIpAndPort"})

CreateRegisterFunc == <<"registerChannelHandler", "registerOpHandler", "registerIdleHandler",
                        "registerAllocateHandler", "registerFreeHandler",
                        "registerRndvOpHandler", "registerTLSCb">>
CreateRegisterAnswers == [f \in Elements(CreateRegisterFunc) |-> "zero"]

AllocatorFunc == <<"memoryAllocatorCreate", "memoryAllocatorDestroy", "memoryAllocatorSetMrKey",
                   "memoryAllocatorMemOffset", "memoryAllocatorAllocate",
                   "memoryAllocatorFreeSize", "memoryAllocatorFree">>
AllocatorAnswers == Answers(Elements(AllocatorFunc), {}, {})

\* g_dlSymFuncsArr
Groups == <<CallFunc, ChannelHandleFunc, OnesideFunc, RndvFunc, SendFunc, CreateRegisterFunc,
            ServiceHandlerFunc, ServiceInitFunc, ServiceRndvHandlerFunc, AllocatorFunc>>
Functions == UNION {Elements(Groups[g]) : g \in 1..10}
Wrappers == {ServiceHandlerAnswers, ServiceRndvHandlerAnswers, RndvAnswers, SendAnswers,
             CallAnswers, MemoryRegionAnswers, OnesideAnswers, ChannelHandleAnswers,
             ServiceInitAnswers, CreateRegisterAnswers, AllocatorAnswers}
Answer == [f \in Functions |-> (CHOOSE answers \in Wrappers : f \in DOMAIN answers)[f]]

Group == [f \in Functions |-> CHOOSE g \in 1..10 : f \in Elements(Groups[g])]
Index == [f \in Functions |-> CHOOSE i \in 1..Len(Groups[Group[f]]) : Groups[Group[f]][i] = f]
Earlier(e, f) == \/ Group[e] < Group[f]
                 \/ Group[e] = Group[f] /\ Index[e] < Index[f]

ASSUME LoaderConstantsOK == /\ Followed # {} /\ Followed \subseteq Functions
                            /\ OwnWrappers \subseteq Followed
                            /\ MaxMissing \in Nat /\ MaxOpens \in Nat
-----------------------------------------------------------------------------
VARIABLES
    missing,    \* the followed symbols that the library does not have
    handle,     \* whether g_hcomDl is set
    opens,      \* how often dlopen has succeeded; nothing closes the library again
    table,      \* the entries of g_hcomFunc that are not null
    phase,      \* where each thread is in InitOckRpcDl; "ok" and "err" are its results
    todo,       \* the entries a thread has still to load
    current,    \* the entry it is loading, or "none", and
    found,      \* whether dlsym has found it
    disturbed   \* history: a failing dlopen has cleared g_hcomDl under a thread that loads

loaderVars == <<missing, handle, opens, table, phase, todo, current, found, disturbed>>

LoaderTypeOK ==
    /\ missing \in SUBSET Followed
    /\ handle \in BOOLEAN /\ opens \in Nat /\ disturbed \in BOOLEAN
    /\ table \in SUBSET Followed
    /\ phase \in [Threads -> {"out", "open", "load", "store", "ok", "err"}]
    /\ todo \in [Threads -> SUBSET Followed]
    /\ current \in [Threads -> Followed \cup {"none"}]
    /\ found \in [Threads -> BOOLEAN]

LoaderInit ==
    /\ missing \in {S \in SUBSET Followed : Cardinality(S) <= MaxMissing}
    /\ handle = FALSE /\ opens = 0 /\ disturbed = FALSE
    /\ table = {}
    /\ phase = [t \in Threads |-> "out"]
    /\ todo = [t \in Threads |-> {}]
    /\ current = [t \in Threads |-> "none"]
    /\ found = [t \in Threads |-> FALSE]

Loading(t)   == phase[t] \in {"load", "store"}
Earliest(S)  == {f \in S : \A e \in S : ~Earlier(e, f)}
Phase(t, p)  == phase' = [phase EXCEPT ![t] = p]
-----------------------------------------------------------------------------
\* g_hcomDl tells whether another creation has been here, not whether it is done.
Check(t) ==
    /\ phase[t] = "out"
    /\ Phase(t, IF handle THEN "ok" ELSE "open")
    /\ UNCHANGED <<missing, handle, opens, table, todo, current, found, disturbed>>

\* The path of the library cannot be determined.
PathFails(t) ==
    /\ phase[t] = "out"
    /\ Phase(t, "err")
    /\ UNCHANGED <<missing, handle, opens, table, todo, current, found, disturbed>>

Open(t) ==
    /\ phase[t] = "open" /\ opens < MaxOpens
    /\ handle' = TRUE
    /\ opens' = opens + 1
    /\ Phase(t, "load")
    /\ todo' = [todo EXCEPT ![t] = Followed]
    /\ UNCHANGED <<missing, table, current, found, disturbed>>

\* Variant: g_hcomDl is only assigned when dlopen succeeds.
OpenFails_keeps(t) ==
    /\ phase[t] = "open"
    /\ Phase(t, "err")
    /\ UNCHANGED <<missing, handle, opens, table, todo, current, found, disturbed>>

\* dlopen's null goes to g_hcomDl, also if another thread has opened the library meanwhile.
OpenFails(t) ==
    /\ phase[t] = "open"
    /\ handle' = FALSE
    /\ disturbed' = (disturbed \/ \E u \in Threads : Loading(u))
    /\ Phase(t, "err")
    /\ UNCHANGED <<missing, opens, table, todo, current, found>>

\* dlsym; on a null handle it searches the whole program, where hcom4db's own wrappers have
\* the names of what they wrap and may be visible.
Finds(f) == \/ handle /\ f \notin missing
            \/ ~handle /\ f \in OwnWrappers

Lookup(t, f) ==
    /\ phase[t] = "load" /\ f \in Earliest(todo[t])
    /\ current' = [current EXCEPT ![t] = f]
    /\ found' = [found EXCEPT ![t] = Finds(f)]
    /\ Phase(t, "store")
    /\ UNCHANGED <<missing, handle, opens, table, todo, disturbed>>

\* Variant: a missing symbol ends the loading altogether.
Rest_stops(S, f, ok) == IF ok THEN S \ {f} ELSE {}

\* What is left to load after f: without f its group is given up.
Rest(S, f, ok) == IF ok THEN S \ {f} ELSE {e \in S : Group[e] # Group[f]}

Store(t) ==
    /\ phase[t] = "store"
    /\ table' = IF found[t] THEN table \cup {current[t]} ELSE table \ {current[t]}
    /\ todo' = [todo EXCEPT ![t] = Rest(@, current[t], found[t])]
    /\ Phase(t, IF todo'[t] = {} THEN "ok" ELSE "load")
    /\ current' = [current EXCEPT ![t] = "none"]
    /\ found' = [found EXCEPT ![t] = FALSE]
    /\ UNCHANGED <<missing, handle, opens, disturbed>>

InitOckRpcDl(t) == \/ Check(t) \/ PathFails(t) \/ Open(t) \/ OpenFails(t)
                   \/ (\E f \in Followed : Lookup(t, f)) \/ Store(t)

\* The caller takes the result.
Leave(t) ==
    /\ Phase(t, "out")
    /\ UNCHANGED <<missing, handle, opens, table, todo, current, found, disturbed>>
-----------------------------------------------------------------------------
\* What the library withholds: a missing symbol, and all that its group lists after it.
Withheld(f) == \E e \in missing : Group[e] = Group[f] /\ ~Earlier(f, e)

\* Once the library has been opened, an entry is null exactly if the library withholds it,
\* or while somebody is still loading it; a missing symbol takes down the rest of its group
\* and nothing else, and a second load does not make an entry null again.  (A failing dlopen
\* that clears g_hcomDl under another thread's load is the exception.)
NullsExplained ==
    opens > 0 /\ ~disturbed =>
        \A f \in Followed : /\ f \in table => ~Withheld(f)
                            /\ f \notin table => Withheld(f) \/ \E t \in Threads : f \in todo[t]
=============================================================================
