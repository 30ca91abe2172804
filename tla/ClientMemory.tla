---------------------------- MODULE ClientMemory ----------------------------
(***************************************************************************)
(* The registered memory of the clients: OckRpcClientConnectWithCfg gives  *)
(* a client a buffer, an allocator over it and a registration of it, and   *)
(* remembers the last two in g_memoryAllocator and g_memoryRegion;         *)
(* OckRpcClientDisconnect takes them away again.  In between, and from     *)
(* callbacks also later, calls allocate and free through                   *)
(* g_memoryAllocator[client], which inserts a null entry where there is    *)
(* none.                                                                   *)
(*                                                                         *)
(* A client handle is an address in libhcom, which uses it again for a     *)
(* later connection once the old one is closed and its callbacks have run. *)
(* The maps have no lock; looking up one client's entry in one map and     *)
(* changing it is a step.                                                  *)
(***************************************************************************)
EXTENDS Naturals

CONSTANTS Clients,    \* client handles
          Sets,       \* a set of memory: a buffer, an allocator and a registration
          Calls,      \* asynchronous OckRpcClientCallWithParam invocations
          Quiescent,  \* whether users disconnect only clients without calls in progress
          Absent, Null

ASSUME ConstantsOK == /\ Absent \notin Sets \cup Clients /\ Null \notin Sets /\ Absent # Null
                      /\ Quiescent \in BOOLEAN

VARIABLES
    link,       \* link[c] : the connection behind handle c and the progress of a Disconnect
    allocator,  \* g_memoryAllocator, Null for an entry that operator[] made
    region,     \* g_memoryRegion
    given,      \* given[c]: what a Connect in progress has made for c and not entered yet
    has,        \* has[m]  : which parts of set m exist
    stage,      \* stage[m]: how far the Connect that made m got, "ok" for all the way, and
                \* "stuck" once libhcom has refused to destroy its allocator
    owner,      \* owner[x]: the client of call x while it is in progress, or Absent
    block       \* block[x]: the set whose allocator x has blocks of

vars == <<link, allocator, region, given, has, stage, owner, block>>

Parts  == {"buffer", "allocator", "region"}
Stages == {"unused", "buffer", "allocator", "region", "ok", "stuck"}
Links  == {"none", "addAllocator", "addRegion", "up", "plain", "half", "eraseAllocator",
           "freeRegion", "eraseRegion", "close"}

\* Every variable keeps its type.
TypeOK ==
    /\ link \in [Clients -> Links]
    /\ allocator \in [Clients -> Sets \cup {Null, Absent}]
    /\ region \in [Clients -> Sets \cup {Absent}]
    /\ given \in [Clients -> Sets \cup {Absent}]
    /\ has \in [Sets -> SUBSET Parts]
    /\ stage \in [Sets -> Stages]
    /\ owner \in [Calls -> Clients \cup {Absent}]
    /\ block \in [Calls -> Sets \cup {Absent}]

Init ==
    /\ link = [c \in Clients |-> "none"]
    /\ allocator = [c \in Clients |-> Absent]
    /\ region = [c \in Clients |-> Absent]
    /\ given = [c \in Clients |-> Absent]
    /\ has = [m \in Sets |-> {}]
    /\ stage = [m \in Sets |-> "unused"]
    /\ owner = [x \in Calls |-> Absent]
    /\ block = [x \in Calls |-> Absent]

Busy(c) == \E x \in Calls : owner[x] = c
-----------------------------------------------------------------------------
(***************************************************************************)
(* OckRpcClientConnectWithCfg, after Service_Connect has returned c.       *)
(***************************************************************************)
\* The client is connected without memory: a configured size of 0 is no error ("plain"),
\* an invalid size or a failing malloc is one ("half").
ConnectPlain(c, l) ==
    /\ link[c] = "none" /\ ~Busy(c)
    /\ link' = [link EXCEPT ![c] = l]
    /\ UNCHANGED <<allocator, region, given, has, stage, owner, block>>

\* What exists when OckRpcPrepareMemAllocator has got as far as s.
Made(s) == CASE s = "buffer"    -> {"buffer"}
             [] s = "allocator" -> {"buffer", "allocator"}
             [] s = "region"    -> Parts
             [] s = "ok"        -> Parts

\* Variant: the failing Connect releases the buffer.
ConnectFails_frees(c, m, s) ==
    /\ link[c] = "none" /\ ~Busy(c) /\ stage[m] = "unused"
    /\ link' = [link EXCEPT ![c] = "half"]
    /\ has' = [has EXCEPT ![m] = Made(s) \ {"buffer"}]
    /\ stage' = [stage EXCEPT ![m] = s]
    /\ UNCHANGED <<allocator, region, given, owner, block>>

\* Creating the allocator, registering the buffer or setting the key fails: the routine
\* returns an error and keeps what it has made, the connection included.
ConnectFails(c, m, s) ==
    /\ link[c] = "none" /\ ~Busy(c) /\ stage[m] = "unused"
    /\ link' = [link EXCEPT ![c] = "half"]
    /\ has' = [has EXCEPT ![m] = Made(s)]
    /\ stage' = [stage EXCEPT ![m] = s]
    /\ UNCHANGED <<allocator, region, given, owner, block>>

\* Everything succeeds; what has been made is not entered in the maps yet.
Connect(c, m) ==
    /\ link[c] = "none" /\ ~Busy(c) /\ stage[m] = "unused"
    /\ link' = [link EXCEPT ![c] = "addAllocator"]
    /\ given' = [given EXCEPT ![c] = m]
    /\ has' = [has EXCEPT ![m] = Parts]
    /\ stage' = [stage EXCEPT ![m] = "ok"]
    /\ UNCHANGED <<allocator, region, owner, block>>

\* The find and the insert on one map; either map keeps an entry it already has.
AddAllocator(c) ==
    /\ link[c] = "addAllocator"
    /\ link' = [link EXCEPT ![c] = "addRegion"]
    /\ allocator' = [allocator EXCEPT ![c] = IF @ = Absent THEN given[c] ELSE @]
    /\ UNCHANGED <<region, given, has, stage, owner, block>>

AddRegion(c) ==
    /\ link[c] = "addRegion"
    /\ link' = [link EXCEPT ![c] = "up"]
    /\ region' = [region EXCEPT ![c] = IF @ = Absent THEN given[c] ELSE @]
    /\ given' = [given EXCEPT ![c] = Absent]
    /\ UNCHANGED <<allocator, has, stage, owner, block>>
-----------------------------------------------------------------------------
(***************************************************************************)
(* Calls: OckRpcMemAlloc in the caller, OckRpcMemFree in the callback.     *)
(***************************************************************************)
\* g_memoryAllocator[c]
Entry(c) == IF allocator[c] = Absent THEN Null ELSE allocator[c]
Looked(c) == allocator' = [allocator EXCEPT ![c] = Entry(c)]

\* The blocks are allocated and the request is posted.
Post(x, c) ==
    /\ link[c] \in {"up", "plain", "half"} /\ owner[x] = Absent
    /\ Entry(c) # Null
    /\ owner' = [owner EXCEPT ![x] = c]
    /\ block' = [block EXCEPT ![x] = Entry(c)]
    /\ UNCHANGED <<link, allocator, region, given, has, stage>>

\* A null allocator refuses: the call fails, and the null entry stays in the map.
PostFails(c) ==
    /\ link[c] \in {"up", "plain", "half"}
    /\ Entry(c) = Null
    /\ Looked(c)
    /\ UNCHANGED <<link, region, given, has, stage, owner, block>>

\* The callback gives the blocks to whatever allocator the map has for the client now.
Callback(x) ==
    /\ owner[x] # Absent
    /\ Looked(owner[x])
    /\ owner' = [owner EXCEPT ![x] = Absent]
    /\ block' = [block EXCEPT ![x] = Absent]
    /\ UNCHANGED <<link, region, given, has, stage>>
-----------------------------------------------------------------------------
(***************************************************************************)
(* OckRpcClientDisconnect.                                                 *)
(***************************************************************************)
\* Variant: a client with calls in progress is disconnected.
DestroyAllocator_busy(c) ==
    /\ link[c] \in {"up", "plain", "half"}
    /\ has' = [m \in Sets |-> IF m = allocator[c] THEN has[m] \ {"allocator"} ELSE has[m]]
    /\ link' = [link EXCEPT ![c] = IF allocator[c] = Absent THEN "freeRegion" ELSE "eraseAllocator"]
    /\ UNCHANGED <<allocator, region, given, stage, owner, block>>

\* The allocator of the entry, if there is one, is destroyed; a null one is refused.
DestroyAllocator(c) ==
    /\ link[c] \in {"up", "plain", "half"}
    /\ Quiescent => ~Busy(c)
    /\ has' = [m \in Sets |-> IF m = allocator[c] THEN has[m] \ {"allocator"} ELSE has[m]]
    /\ link' = [link EXCEPT ![c] = IF allocator[c] = Absent THEN "freeRegion" ELSE "eraseAllocator"]
    /\ UNCHANGED <<allocator, region, given, stage, owner, block>>

\* Net_MemoryAllocatorDestroy fails: it is logged, and Disconnect goes on all the same.
DestroyFails(c) ==
    /\ link[c] \in {"up", "plain", "half"} /\ allocator[c] \in Sets
    /\ Quiescent => ~Busy(c)
    /\ stage' = [stage EXCEPT ![allocator[c]] = "stuck"]
    /\ link' = [link EXCEPT ![c] = "eraseAllocator"]
    /\ UNCHANGED <<allocator, region, given, has, owner, block>>

\* Variant: the entry is left in the map.
EraseAllocator_keeps(c) ==
    /\ link[c] = "eraseAllocator"
    /\ link' = [link EXCEPT ![c] = "freeRegion"]
    /\ UNCHANGED <<allocator, region, given, has, stage, owner, block>>

EraseAllocator(c) ==
    /\ link[c] = "eraseAllocator"
    /\ allocator' = [allocator EXCEPT ![c] = Absent]
    /\ link' = [link EXCEPT ![c] = "freeRegion"]
    /\ UNCHANGED <<region, given, has, stage, owner, block>>

\* The buffer is freed, then its registration is destroyed.
FreeRegion(c) ==
    /\ link[c] = "freeRegion"
    /\ has' = [m \in Sets |-> IF m = region[c] THEN has[m] \ {"buffer", "region"} ELSE has[m]]
    /\ link' = [link EXCEPT ![c] = IF region[c] = Absent THEN "close" ELSE "eraseRegion"]
    /\ UNCHANGED <<allocator, region, given, stage, owner, block>>

\* Variant: the entry is emptied and not erased.
EraseRegion_nulls(c) ==
    /\ link[c] = "eraseRegion"
    /\ region' = [region EXCEPT ![c] = Null]
    /\ link' = [link EXCEPT ![c] = "close"]
    /\ UNCHANGED <<allocator, given, has, stage, owner, block>>

EraseRegion(c) ==
    /\ link[c] = "eraseRegion"
    /\ region' = [region EXCEPT ![c] = Absent]
    /\ link' = [link EXCEPT ![c] = "close"]
    /\ UNCHANGED <<allocator, given, has, stage, owner, block>>

\* Channel_Close; the callbacks of calls still in progress may yet come.
Close(c) ==
    /\ link[c] = "close"
    /\ link' = [link EXCEPT ![c] = "none"]
    /\ UNCHANGED <<allocator, region, given, has, stage, owner, block>>
-----------------------------------------------------------------------------
Next == \/ \E c \in Clients :
            \/ PostFails(c) \/ \E l \in {"plain", "half"} : ConnectPlain(c, l)
            \/ AddAllocator(c) \/ AddRegion(c)
            \/ DestroyAllocator(c) \/ DestroyFails(c) \/ EraseAllocator(c)
            \/ FreeRegion(c) \/ EraseRegion(c) \/ Close(c)
            \/ \E x \in Calls : Post(x, c)
            \/ \E m \in Sets : Connect(c, m) \/ \E s \in Parts : ConnectFails(c, m, s)
        \/ \E x \in Calls : Callback(x)

Spec == Init /\ [][Next]_vars
-----------------------------------------------------------------------------
\* While a call is in progress, the map still leads to the allocator its blocks came
\* from -- the callback frees them where they belong -- and that allocator, its buffer
\* and its registration, which the transport reads, exist.
CallsAreBacked ==
    \A x \in Calls : owner[x] # Absent =>
        allocator[owner[x]] = block[x] /\ has[block[x]] = Parts

\* The two maps of a client never name different sets of memory, and what they name
\* exists but for the moments of Disconnect between destroying a thing and erasing it.
MapsAgree ==
    \A c \in Clients :
        /\ {allocator[c], region[c]} \subseteq Sets => allocator[c] = region[c]
        /\ allocator[c] \in Sets /\ link[c] # "eraseAllocator" => "allocator" \in has[allocator[c]]
        /\ region[c] \in Sets /\ link[c] # "eraseRegion" =>
               {"buffer", "region"} \subseteq has[region[c]]

\* What is left of a set that no client has any more, exactly: nothing, after a
\* Disconnect; the allocator, after a Disconnect whose destruction of it was refused and
\* which frees the buffer under it; all that had been made, after a Connect that failed.
Residue(m) == CASE stage[m] \in {"unused", "ok"} -> {}
                [] stage[m] = "stuck" -> {"allocator"}
                [] stage[m] \in Parts -> Made(stage[m])
LeftoversExplained ==
    \A m \in Sets : (\A c \in Clients : m \notin {allocator[c], region[c], given[c]})
                        => has[m] = Residue(m)

\* A client whose Connect made memory for it can allocate from that memory; it stays so
\* through any history of the handle under earlier connections.
ConnectedUsable ==
    \A c \in Clients : link[c] = "up" => allocator[c] \in Sets /\ allocator[c] = region[c]
=============================================================================
