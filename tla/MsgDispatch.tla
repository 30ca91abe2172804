---------------------------- MODULE MsgDispatch -----------------------------
(***************************************************************************)
(* Received messages and the handler tables.  Transport workers look a     *)
(* message's id up in a table and run the handler found there, all under   *)
(* the shared side of the table's std::shared_mutex; AddService replaces   *)
(* entries under its exclusive side.  There are two such planes, each with *)
(* a mutex and a table of its own: ordinary messages (OckRpcReceiveHandle, *)
(* OckRpcServerAddService) and rendezvous messages                         *)
(* (OckRpcRndvReceiveHandler, OckRpcServerAddRndvService).                 *)
(***************************************************************************)
EXTENDS SharedMutex, Naturals, FiniteSets

CONSTANTS Planes,       \* "msg" and "rndv"
          Workers,      \* threads of the transport
          Users,        \* threads of the user
          Servers, Handlers,
          Ids,          \* message ids
          IdLimit,      \* MAX_MESSAGE_ID_SIZE
          HandlersAdd,  \* whether handlers call AddService themselves
          NoHandler, NoRequest

ASSUME ConstantsOK ==
    /\ IsFiniteSet(Workers) /\ Workers \cap Users = {}
    /\ Ids \subseteq Nat /\ IdLimit \in Nat /\ HandlersAdd \in BOOLEAN
    /\ NoThread \notin Workers \cup Users /\ NoHandler \notin Handlers
    /\ NoRequest \notin [plane : Planes, id : Ids]
    /\ NoRequest \notin [plane : Planes, server : Servers, id : Ids,
                         handler : Handlers \cup {NoHandler}]

Threads  == Workers \cup Users
Messages == [plane : Planes, id : Ids]
\* service->handler may be null; the server may be unknown to g_serviceMap.
AddRequests == [plane : Planes, server : Servers, id : Ids, handler : Handlers \cup {NoHandler}]

VARIABLES
    known,     \* the servers listed in g_serviceMap
    lock,      \* lock[p]    : serviceAddMutex or serviceAddRndvMutex
    table,     \* table[p]   : g_handleMap or g_rndvHandleMap
    wpc, msg, run,  \* a worker's control point, message and handler
    upc, add        \* a thread's progress in AddService, and its arguments

workerVars == <<wpc, msg, run>>
addVars    == <<upc, add>>
vars       == <<known, lock, table, workerVars, addVars>>

\* Every variable keeps its type.
TypeOK ==
    /\ known \subseteq Servers
    /\ lock \in [Planes -> LockType(Threads)]
    /\ table \in [Planes -> [Ids -> Handlers \cup {NoHandler}]]
    /\ wpc \in [Workers -> {"idle", "lock", "find", "run", "unlock"}]
    /\ msg \in [Workers -> Messages \cup {NoRequest}]
    /\ run \in [Workers -> Handlers \cup {NoHandler}]
    /\ upc \in [Threads -> {"idle", "lock", "check", "unlock"}]
    /\ add \in [Threads -> AddRequests \cup {NoRequest}]

Init ==
    /\ known = {}
    /\ lock = [p \in Planes |-> Unlocked]
    /\ table = [p \in Planes |-> [i \in Ids |-> NoHandler]]
    /\ wpc = [w \in Workers |-> "idle"]
    /\ msg = [w \in Workers |-> NoRequest]
    /\ run = [w \in Workers |-> NoHandler]
    /\ upc = [t \in Threads |-> "idle"]
    /\ add = [t \in Threads |-> NoRequest]
-----------------------------------------------------------------------------
LockShared(p)       == MayShare(lock[p]) /\ lock' = [lock EXCEPT ![p] = Share(@)]
LockExclusive(p, t) == MayLock(lock[p]) /\ lock' = [lock EXCEPT ![p] = Lock(@, t)]
Unlock(p, t)        == lock' = [lock EXCEPT ![p] = Release(@, t)]
-----------------------------------------------------------------------------
(***************************************************************************)
(* A worker.  A message whose data, type or operation info cannot be read  *)
(* is dropped before the lock, and leaves no trace.  The tables belong to  *)
(* the process: the server that received the message plays no part.        *)
(***************************************************************************)
Receive(w, m) == /\ wpc[w] = "idle"
                 /\ wpc' = [wpc EXCEPT ![w] = "lock"]
                 /\ msg' = [msg EXCEPT ![w] = m]
                 /\ UNCHANGED <<known, lock, table, run, addVars>>

EnterTable(w) == /\ wpc[w] = "lock"
                 /\ LockShared(msg[w].plane)
                 /\ wpc' = [wpc EXCEPT ![w] = "find"]
                 /\ UNCHANGED <<known, table, msg, run, addVars>>

\* Variant: the shared side is released before the handler runs.
FindHandler_early(w) ==
    /\ wpc[w] = "find"
    /\ run' = [run EXCEPT ![w] = table[msg[w].plane][msg[w].id]]
    /\ Unlock(msg[w].plane, w)
    /\ wpc' = [wpc EXCEPT ![w] = IF run'[w] = NoHandler THEN "idle" ELSE "run"]
    /\ UNCHANGED <<known, table, msg, addVars>>

\* The id may have no handler: the message is dropped.
FindHandler(w) ==
    /\ wpc[w] = "find"
    /\ run' = [run EXCEPT ![w] = table[msg[w].plane][msg[w].id]]
    /\ wpc' = [wpc EXCEPT ![w] = IF run'[w] = NoHandler THEN "unlock" ELSE "run"]
    /\ UNCHANGED <<known, lock, table, msg, addVars>>

HandlerReturns(w) == /\ wpc[w] = "run" /\ upc[w] = "idle"
                     /\ wpc' = [wpc EXCEPT ![w] = "unlock"]
                     /\ run' = [run EXCEPT ![w] = NoHandler]
                     /\ UNCHANGED <<known, lock, table, msg, addVars>>

\* Variant: an early return keeps the shared side of a message nobody handles.
LeaveTable_kept(w) == /\ wpc[w] = "unlock"
                      /\ IF table[msg[w].plane][msg[w].id] # NoHandler
                           THEN Unlock(msg[w].plane, w) ELSE UNCHANGED lock
                      /\ wpc' = [wpc EXCEPT ![w] = "idle"]
                      /\ msg' = [msg EXCEPT ![w] = NoRequest]
                      /\ UNCHANGED <<known, table, run, addVars>>

LeaveTable(w) == /\ wpc[w] = "unlock"
                 /\ Unlock(msg[w].plane, w)
                 /\ wpc' = [wpc EXCEPT ![w] = "idle"]
                 /\ msg' = [msg EXCEPT ![w] = NoRequest]
                 /\ UNCHANGED <<known, table, run, addVars>>
-----------------------------------------------------------------------------
(***************************************************************************)
(* AddService and AddRndvService, called by a user's thread or, if they do *)
(* that, by a handler on its worker.                                       *)
(***************************************************************************)
CallAdd(t, r) == /\ upc[t] = "idle"
                 /\ t \in Workers => HandlersAdd /\ wpc[t] = "run"
                 /\ upc' = [upc EXCEPT ![t] = "lock"]
                 /\ add' = [add EXCEPT ![t] = r]
                 /\ UNCHANGED <<known, lock, table, workerVars>>

LockForAdd(t) == /\ upc[t] = "lock"
                 /\ LockExclusive(add[t].plane, t)
                 /\ upc' = [upc EXCEPT ![t] = "check"]
                 /\ UNCHANGED <<known, table, workerVars, add>>

Accepted(r) == r.server \in known /\ r.id < IdLimit /\ r.handler # NoHandler

Replace(t) == /\ upc[t] = "check" /\ Accepted(add[t])
              /\ table' = [table EXCEPT ![add[t].plane][add[t].id] = add[t].handler]
              /\ upc' = [upc EXCEPT ![t] = "unlock"]
              /\ UNCHANGED <<known, lock, workerVars, add>>

\* Variant: an early return without unlock().
Reject_locked(t) == /\ upc[t] = "check" /\ ~Accepted(add[t])
                    /\ upc' = [upc EXCEPT ![t] = "idle"]
                    /\ add' = [add EXCEPT ![t] = NoRequest]
                    /\ UNCHANGED <<known, lock, table, workerVars>>

Reject(t) == /\ upc[t] = "check" /\ ~Accepted(add[t])
             /\ upc' = [upc EXCEPT ![t] = "unlock"]
             /\ UNCHANGED <<known, lock, table, workerVars, add>>

ReturnAdd(t) == /\ upc[t] = "unlock"
                /\ Unlock(add[t].plane, t)
                /\ upc' = [upc EXCEPT ![t] = "idle"]
                /\ add' = [add EXCEPT ![t] = NoRequest]
                /\ UNCHANGED <<known, table, workerVars>>

\* Servers come and go (ServerCreateWithCfg, ServerDestroy); the tables are not told.
RegistryChanges == /\ \E s \in Servers : known' \in {known \cup {s}, known \ {s}}
                   /\ UNCHANGED <<lock, table, workerVars, addVars>>
-----------------------------------------------------------------------------
WorkerStep(w) == EnterTable(w) \/ FindHandler(w) \/ HandlerReturns(w) \/ LeaveTable(w)
AddStep(t)    == LockForAdd(t) \/ Replace(t) \/ Reject(t) \/ ReturnAdd(t)

Next == \/ \E w \in Workers : WorkerStep(w) \/ \E m \in Messages : Receive(w, m)
        \/ \E t \in Threads : AddStep(t) \/ \E r \in AddRequests : CallAdd(t, r)
        \/ RegistryChanges

Spec == Init /\ [][Next]_vars

\* Threads are scheduled and handlers return; nothing is assumed of new messages and
\* calls.  The platform's lock prefers readers: a writer that releases it lets the waiting
\* readers in (strong fairness), while a waiting writer is promised nothing.
FairSpec == /\ Spec
            /\ \A w \in Workers : WF_vars(WorkerStep(w)) /\ SF_vars(EnterTable(w))
            /\ \A t \in Threads : WF_vars(AddStep(t))
-----------------------------------------------------------------------------
Inside(p)  == {w \in Workers : wpc[w] \in {"find", "run", "unlock"} /\ msg[w].plane = p}
Writing(p) == {t \in Threads : upc[t] \in {"check", "unlock"} /\ add[t].plane = p}

\* While AddService is between lock and unlock of a plane, no worker is between its own:
\* std::map is read by find and written by operator[] of concurrent threads.
TableExclusive == \A p \in Planes : /\ \A t, u \in Writing(p) : t = u
                                    /\ Writing(p) # {} => Inside(p) = {}

\* A handler that is running is the one the table holds for its message: once AddService
\* has replaced a handler, the old one runs nowhere any more, and its data can go.
RunsRegistered == \A w \in Workers :
                      wpc[w] = "run" => run[w] = table[msg[w].plane][msg[w].id]

\* A handler that calls AddService for its own plane waits for itself: the call never
\* gets the lock, as the worker keeps the shared side until the handler returns.
SelfAdding(w) == wpc[w] = "run" /\ upc[w] = "lock" /\ add[w].plane = msg[w].plane
SelfAddBlocks == [][\A w \in Workers : SelfAdding(w) => SelfAdding(w)']_vars

\* Ids outside the accepted range never get a handler, whatever AddService is given.
LimitKept == \A p \in Planes, i \in Ids : i >= IdLimit => table[p][i] = NoHandler

\* Every received message is dispatched and its worker gets back to work, and AddService
\* returns once messages stop coming -- unless handlers call AddService themselves.
NoHandlerAdds == \A w \in Workers : upc[w] = "idle"
Dispatched == []NoHandlerAdds => \A w \in Workers : wpc[w] # "idle" ~> wpc[w] = "idle"
AddReturns == []NoHandlerAdds /\ <>[](\A w \in Workers : wpc[w] = "idle")
                  => \A t \in Users : upc[t] # "idle" ~> upc[t] = "idle"
=============================================================================
