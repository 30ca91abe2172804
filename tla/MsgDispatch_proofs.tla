------------------------- MODULE MsgDispatch_proofs -------------------------
(***************************************************************************)
(* The safety properties of MsgDispatch, for any number of planes,         *)
(* workers, users, servers, handlers and ids.  They all come from one      *)
(* inductive invariant: the mutex of a plane counts exactly the workers    *)
(* that are inside the plane's table, its owner is exactly the thread that *)
(* is about to replace an entry, and the two exclude each other.           *)
(***************************************************************************)
EXTENDS MsgDispatch, FiniteSetTheorems, TLAPS

\* A thread that is on its way has its arguments.
Arguments == /\ \A w \in Workers : wpc[w] # "idle" => msg[w] \in Messages
             /\ \A t \in Threads : upc[t] # "idle" => add[t] \in AddRequests

\* The shared count of a plane's mutex is the number of workers inside.
Counted == \A p \in Planes : lock[p].readers = Cardinality(Inside(p))

\* The owner of a plane's mutex is the thread that is writing, and it is alone.
Owned == \A p \in Planes : /\ \A t \in Threads : t \in Writing(p) <=> lock[p].writer = t
                           /\ lock[p].writer # NoThread => lock[p].readers = 0

IInv == TypeOK /\ Arguments /\ Counted /\ Owned /\ RunsRegistered /\ LimitKept
-----------------------------------------------------------------------------
(***************************************************************************)
(* The lock at work.                                                       *)
(***************************************************************************)
\* The workers inside a plane are finitely many, so that they can be counted.
LEMMA InsideFinite == \A p : IsFiniteSet(Inside(p)) /\ Inside(p) \subseteq Workers
<1>1. \A p : Inside(p) \subseteq Workers
  BY DEF Inside
<1> QED
  BY <1>1, ConstantsOK, FS_Subset

\* Two different workers or users are never the same as nobody.
LEMMA NobodyIsNoThread == /\ NoThread \notin Threads /\ Workers \subseteq Threads
                          /\ Users \subseteq Threads
  BY ConstantsOK DEF Threads

\* A plane with a worker inside has no owner.
LEMMA InsideKeepsOut ==
  ASSUME IInv, NEW p \in Planes, NEW w \in Inside(p)
  PROVE  lock[p].writer = NoThread /\ lock[p].readers \in Nat \ {0}
<1>1. Cardinality(Inside(p)) # 0
  BY InsideFinite, FS_EmptySet
<1>2. lock[p].readers \in Nat /\ lock[p].readers # 0
  BY <1>1 DEF IInv, TypeOK, LockType, Counted
<1> QED
  BY <1>2 DEF IInv, Owned

\* The two sides of the mutex exclude each other: what TableExclusive says.
LEMMA Exclusion == IInv => TableExclusive
<1> SUFFICES ASSUME IInv, NEW p \in Planes
             PROVE  /\ \A t, u \in Writing(p) : t = u
                    /\ Writing(p) # {} => Inside(p) = {}
  BY DEF TableExclusive
<1>1. \A t \in Writing(p) : t \in Threads /\ lock[p].writer = t
  BY DEF IInv, Owned, Writing
<1>2. ASSUME NEW t \in Writing(p), NEW w \in Inside(p) PROVE FALSE
  BY <1>1, <1>2, InsideKeepsOut, NobodyIsNoThread
<1> QED
  BY <1>1, <1>2
-----------------------------------------------------------------------------
\* The tables are empty and the mutexes free in a fresh process.
LEMMA InitOK == Init => IInv
<1> SUFFICES ASSUME Init PROVE IInv
  OBVIOUS
<1>1. TypeOK
  BY DEF Init, TypeOK, Unlocked, LockType
<1>2. \A p \in Planes : Inside(p) = {} /\ Writing(p) = {}
  BY DEF Init, Inside, Writing
<1>3. Counted
  BY <1>2, FS_EmptySet DEF Init, Counted, Unlocked
<1>4. Owned
  BY <1>2, NobodyIsNoThread DEF Init, Owned, Unlocked
<1> QED
  BY <1>1, <1>3, <1>4, NobodyIsNoThread
     DEF Init, IInv, Arguments, RunsRegistered, LimitKept
-----------------------------------------------------------------------------
(***************************************************************************)
(* One lemma per action.                                                   *)
(***************************************************************************)
\* A message arrives at an idle worker, which is outside every table.
LEMMA ReceiveOK == ASSUME IInv, NEW w \in Workers, NEW m \in Messages, Receive(w, m)
                   PROVE  IInv'
<1> USE DEF IInv
<1>1. TypeOK'
  BY DEF Receive, TypeOK, addVars
<1>2. Arguments'
  BY DEF Receive, TypeOK, Arguments, addVars
<1>3. \A p : Inside(p)' = Inside(p) /\ Writing(p)' = Writing(p)
  BY DEF Receive, TypeOK, Inside, Writing, addVars
<1>4. Counted' /\ Owned'
  BY <1>3 DEF Receive, Counted, Owned
<1> QED
  BY <1>1, <1>2, <1>4 DEF Receive, TypeOK, RunsRegistered, LimitKept

\* A worker enters a plane whose mutex has no owner.
LEMMA EnterTableOK == ASSUME IInv, NEW w \in Workers, EnterTable(w) PROVE IInv'
<1>0. PICK q \in Planes : q = msg[w].plane
  BY DEF IInv, TypeOK, Arguments, EnterTable, Messages
<1>1. /\ lock[q].writer = NoThread /\ lock[q] \in LockType(Threads)
      /\ lock' = [lock EXCEPT ![q].readers = @ + 1]
  BY <1>0 DEF IInv, TypeOK, EnterTable, LockShared, MayShare, Share
<1>2. TypeOK'
  BY <1>0, <1>1 DEF IInv, TypeOK, EnterTable, LockType, addVars
<1>3. Arguments'
  BY DEF IInv, TypeOK, Arguments, EnterTable, addVars
<1>4. \A p : Writing(p)' = Writing(p)
  BY DEF EnterTable, Writing, addVars
<1>5. Inside(q)' = Inside(q) \cup {w} /\ w \notin Inside(q)
  BY <1>0 DEF IInv, TypeOK, EnterTable, Inside
<1>6. \A p : p # q => Inside(p)' = Inside(p)
  BY <1>0 DEF IInv, TypeOK, EnterTable, Inside
<1>7. Cardinality(Inside(q)') = Cardinality(Inside(q)) + 1
  BY <1>5, InsideFinite, FS_AddElement
<1>8. Counted'
  <2>1. lock'[q].readers = Cardinality(Inside(q)')
    BY <1>0, <1>1, <1>7 DEF IInv, TypeOK, LockType, Counted
  <2>2. ASSUME NEW p \in Planes, p # q PROVE lock'[p].readers = Cardinality(Inside(p)')
    BY <1>1, <1>6, <2>2 DEF IInv, TypeOK, Counted
  <2>3. \A p \in Planes : lock'[p].readers = Cardinality(Inside(p)')
    BY <2>1, <2>2
  <2> QED
    BY <2>3 DEF Counted
<1>9. Owned'
  BY <1>0, <1>1, <1>4 DEF IInv, TypeOK, LockType, Owned
<1> QED
  BY <1>2, <1>3, <1>8, <1>9 DEF IInv, EnterTable, TypeOK, RunsRegistered, LimitKept

\* A worker looks its message's handler up.
LEMMA FindHandlerOK == ASSUME IInv, NEW w \in Workers, FindHandler(w) PROVE IInv'
<1>0. msg[w] \in Messages /\ wpc'[w] \in {"unlock", "run"}
  BY DEF IInv, TypeOK, Arguments, FindHandler
<1>1. TypeOK'
  BY <1>0 DEF IInv, TypeOK, FindHandler, Messages, addVars
<1>2. Arguments'
  BY <1>0 DEF IInv, TypeOK, Arguments, FindHandler, addVars
<1>3. \A p : Inside(p)' = Inside(p) /\ Writing(p)' = Writing(p)
  BY <1>0 DEF IInv, TypeOK, FindHandler, Inside, Writing, addVars
<1>4. Counted' /\ Owned'
  BY <1>3 DEF IInv, FindHandler, Counted, Owned
<1>5. RunsRegistered'
  BY DEF IInv, TypeOK, FindHandler, RunsRegistered
<1> QED
  BY <1>1, <1>2, <1>4, <1>5 DEF IInv, FindHandler, LimitKept

\* A handler returns, and its worker stays inside.
LEMMA HandlerReturnsOK == ASSUME IInv, NEW w \in Workers, HandlerReturns(w) PROVE IInv'
<1>1. TypeOK' /\ Arguments'
  BY DEF IInv, TypeOK, Arguments, HandlerReturns, addVars
<1>2. \A p : Inside(p)' = Inside(p) /\ Writing(p)' = Writing(p)
  BY DEF IInv, TypeOK, HandlerReturns, Inside, Writing, addVars
<1>3. Counted' /\ Owned'
  BY <1>2 DEF IInv, HandlerReturns, Counted, Owned
<1> QED
  BY <1>1, <1>3 DEF IInv, TypeOK, HandlerReturns, RunsRegistered, LimitKept

\* A worker leaves: its release takes the shared side, as it cannot be the owner.
LEMMA LeaveTableOK == ASSUME IInv, NEW w \in Workers, LeaveTable(w) PROVE IInv'
<1>0. PICK q \in Planes : q = msg[w].plane /\ w \in Inside(q)
  BY DEF IInv, TypeOK, Arguments, LeaveTable, Messages, Inside
<1>1. lock[q].writer = NoThread /\ lock[q].readers \in Nat \ {0} /\ w # NoThread
  BY <1>0, InsideKeepsOut, NobodyIsNoThread
<1>2. lock' = [lock EXCEPT ![q].readers = @ - 1]
  BY <1>0, <1>1 DEF LeaveTable, Unlock, Release
<1>3. TypeOK'
  <2>0. lock[q].readers - 1 \in Nat
    BY <1>1
  <2>1. lock' \in [Planes -> LockType(Threads)]
    BY <1>2, <2>0 DEF IInv, TypeOK, LockType
  <2> QED
    BY <2>1 DEF IInv, TypeOK, LeaveTable, addVars
<1>4. Arguments'
  BY DEF IInv, TypeOK, Arguments, LeaveTable, addVars
<1>5. \A p : Writing(p)' = Writing(p)
  BY DEF LeaveTable, Writing, addVars
<1>6. Inside(q)' = Inside(q) \ {w}
  BY <1>0 DEF IInv, TypeOK, LeaveTable, Inside
<1>7. \A p : p # q => Inside(p)' = Inside(p)
  BY <1>0 DEF IInv, TypeOK, LeaveTable, Inside
<1>8. Cardinality(Inside(q)') = Cardinality(Inside(q)) - 1
  BY <1>0, <1>6, InsideFinite, FS_RemoveElement, ZenonT(20)
<1>9. Counted'
  <2>1. lock'[q].readers = Cardinality(Inside(q)')
    BY <1>0, <1>2, <1>8 DEF IInv, TypeOK, LockType, Counted
  <2>2. ASSUME NEW p \in Planes, p # q PROVE lock'[p].readers = Cardinality(Inside(p)')
    BY <1>2, <1>7, <2>2 DEF IInv, TypeOK, Counted
  <2>3. \A p \in Planes : lock'[p].readers = Cardinality(Inside(p)')
    BY <2>1, <2>2
  <2> QED
    BY <2>3 DEF Counted
<1>10. Owned'
  BY <1>0, <1>1, <1>2, <1>5 DEF IInv, TypeOK, LockType, Owned
<1> QED
  BY <1>3, <1>4, <1>9, <1>10 DEF IInv, LeaveTable, TypeOK, RunsRegistered, LimitKept

\* A thread calls AddService.
LEMMA CallAddOK == ASSUME IInv, NEW t \in Threads, NEW r \in AddRequests, CallAdd(t, r)
                   PROVE  IInv'
<1>1. TypeOK' /\ Arguments'
  BY DEF IInv, TypeOK, Arguments, CallAdd, workerVars
<1>2. \A p : Inside(p)' = Inside(p) /\ Writing(p)' = Writing(p)
  BY DEF IInv, TypeOK, CallAdd, Inside, Writing, workerVars
<1>3. Counted' /\ Owned'
  BY <1>2 DEF IInv, CallAdd, Counted, Owned
<1> QED
  BY <1>1, <1>3 DEF IInv, CallAdd, workerVars, RunsRegistered, LimitKept

\* A thread gets a plane's mutex for itself: nobody is inside, nobody else is writing.
LEMMA LockForAddOK == ASSUME IInv, NEW t \in Threads, LockForAdd(t) PROVE IInv'
<1>0. PICK q \in Planes : q = add[t].plane
  BY DEF IInv, Arguments, LockForAdd, AddRequests
<1>1. /\ lock[q].writer = NoThread /\ lock[q].readers = 0
      /\ lock' = [lock EXCEPT ![q].writer = t]
  BY <1>0 DEF IInv, TypeOK, LockForAdd, LockExclusive, MayLock, Lock
<1>2. TypeOK'
  BY <1>1 DEF IInv, TypeOK, LockForAdd, LockType, workerVars
<1>3. Arguments'
  BY DEF IInv, TypeOK, Arguments, LockForAdd, workerVars
<1>4. \A p : Inside(p)' = Inside(p)
  BY DEF LockForAdd, Inside, workerVars
<1>5. \A p : Writing(p)' = IF p = q THEN Writing(p) \cup {t} ELSE Writing(p)
  BY <1>0 DEF IInv, TypeOK, LockForAdd, Writing
<1>6. Counted'
  BY <1>1, <1>4 DEF IInv, TypeOK, LockType, Counted
<1>7. Writing(q) = {}
  BY <1>1, NobodyIsNoThread DEF IInv, Owned, Writing
<1>8. Owned'
  <2>1. ASSUME NEW p \in Planes, NEW u \in Threads
        PROVE  u \in Writing(p)' <=> lock'[p].writer = u
    BY <1>1, <1>5, <1>7 DEF IInv, TypeOK, LockType, Owned
  <2>2. ASSUME NEW p \in Planes, lock'[p].writer # NoThread PROVE lock'[p].readers = 0
    BY <1>1, <2>2 DEF IInv, TypeOK, LockType, Owned
  <2> QED
    BY <2>1, <2>2 DEF Owned
<1> QED
  BY <1>2, <1>3, <1>6, <1>8
     DEF IInv, LockForAdd, workerVars, RunsRegistered, LimitKept

\* An entry is replaced.  The writer is alone, so that no handler of the plane is running;
\* and the new entry is below the limit.
LEMMA ReplaceOK == ASSUME IInv, NEW t \in Threads, Replace(t) PROVE IInv'
<1>0. PICK q \in Planes : q = add[t].plane /\ t \in Writing(q)
  BY DEF IInv, TypeOK, Arguments, Replace, AddRequests, Writing
<1>1. add[t] \in AddRequests
  BY DEF IInv, TypeOK, Arguments, Replace
<1>2. TypeOK'
  BY <1>1 DEF IInv, TypeOK, Replace, AddRequests, workerVars
<1>3. Arguments'
  BY DEF IInv, TypeOK, Arguments, Replace, workerVars
<1>4. \A p : Inside(p)' = Inside(p) /\ Writing(p)' = Writing(p)
  BY DEF IInv, TypeOK, Replace, Inside, Writing, workerVars
<1>5. Counted' /\ Owned'
  BY <1>4 DEF IInv, Replace, Counted, Owned
<1>6. Inside(q) = {}
  BY <1>0, Exclusion DEF TableExclusive
<1>7. RunsRegistered'
  <2> SUFFICES ASSUME NEW w \in Workers, wpc[w] = "run"
               PROVE  run[w] = table'[msg[w].plane][msg[w].id]
    BY DEF Replace, workerVars, RunsRegistered
  <2>1. msg[w].plane # q
    BY <1>6 DEF Inside
  <2>2. msg[w].plane \in Planes
    BY DEF IInv, TypeOK, Arguments, Messages
  <2> QED
    BY <1>0, <2>1, <2>2 DEF IInv, TypeOK, RunsRegistered, Replace
<1>8. LimitKept'
  BY <1>1, ConstantsOK DEF IInv, TypeOK, LimitKept, Replace, Accepted, AddRequests
<1> QED
  BY <1>2, <1>3, <1>5, <1>7, <1>8 DEF IInv

\* A request is refused; the tables stay as they are.
LEMMA RejectOK == ASSUME IInv, NEW t \in Threads, Reject(t) PROVE IInv'
<1>1. TypeOK' /\ Arguments'
  BY DEF IInv, TypeOK, Arguments, Reject, workerVars
<1>2. \A p : Inside(p)' = Inside(p) /\ Writing(p)' = Writing(p)
  BY DEF IInv, TypeOK, Reject, Inside, Writing, workerVars
<1>3. Counted' /\ Owned'
  BY <1>2 DEF IInv, Reject, Counted, Owned
<1> QED
  BY <1>1, <1>3 DEF IInv, Reject, workerVars, RunsRegistered, LimitKept

\* The owner gives the mutex up.
LEMMA ReturnAddOK == ASSUME IInv, NEW t \in Threads, ReturnAdd(t) PROVE IInv'
<1>0. PICK q \in Planes : q = add[t].plane /\ t \in Writing(q)
  BY DEF IInv, TypeOK, Arguments, ReturnAdd, AddRequests, Writing
<1>1. lock[q].writer = t
  BY <1>0 DEF IInv, Owned
<1>2. lock' = [lock EXCEPT ![q].writer = NoThread]
  BY <1>0, <1>1 DEF IInv, TypeOK, ReturnAdd, Unlock, Release
<1>3. TypeOK'
  BY <1>2 DEF IInv, TypeOK, ReturnAdd, LockType, workerVars
<1>4. Arguments'
  BY DEF IInv, TypeOK, Arguments, ReturnAdd, workerVars
<1>5. \A p : Inside(p)' = Inside(p)
  BY DEF ReturnAdd, Inside, workerVars
<1>6. \A p : Writing(p)' = IF p = q THEN Writing(p) \ {t} ELSE Writing(p)
  BY <1>0 DEF IInv, TypeOK, ReturnAdd, Writing
<1>7. Counted'
  BY <1>2, <1>5 DEF IInv, TypeOK, LockType, Counted
<1>8. Owned'
  <2>1. ASSUME NEW p \in Planes, NEW u \in Threads
        PROVE  u \in Writing(p)' <=> lock'[p].writer = u
    BY <1>1, <1>2, <1>6, NobodyIsNoThread DEF IInv, TypeOK, LockType, Owned
  <2>2. ASSUME NEW p \in Planes, lock'[p].writer # NoThread PROVE lock'[p].readers = 0
    BY <1>2, <2>2 DEF IInv, TypeOK, LockType, Owned
  <2> QED
    BY <2>1, <2>2 DEF Owned
<1> QED
  BY <1>3, <1>4, <1>7, <1>8 DEF IInv, ReturnAdd, workerVars, RunsRegistered, LimitKept

\* A server is created or destroyed; nothing here changes with it.
LEMMA RegistryChangesOK == ASSUME IInv, RegistryChanges PROVE IInv'
<1>1. TypeOK' /\ Arguments'
  BY DEF IInv, TypeOK, Arguments, RegistryChanges, workerVars, addVars
<1>2. Counted' /\ Owned'
  BY DEF IInv, Counted, Owned, Inside, Writing, RegistryChanges, workerVars, addVars
<1> QED
  BY <1>1, <1>2 DEF IInv, RegistryChanges, workerVars, RunsRegistered, LimitKept

\* A step that changes nothing.
LEMMA StutterOK == ASSUME IInv, UNCHANGED vars PROVE IInv'
  BY DEF IInv, vars, workerVars, addVars, TypeOK, Arguments, Counted, Owned, Inside, Writing,
         RunsRegistered, LimitKept

\* Every step of the system preserves the invariant.
LEMMA StepOK == IInv /\ [Next]_vars => IInv'
<1> SUFFICES ASSUME IInv, [Next]_vars PROVE IInv'
  OBVIOUS
<1>1. ASSUME NEW w \in Workers, WorkerStep(w) PROVE IInv'
  BY <1>1, EnterTableOK, FindHandlerOK, HandlerReturnsOK, LeaveTableOK DEF WorkerStep
<1>2. ASSUME NEW t \in Threads, AddStep(t) PROVE IInv'
  BY <1>2, LockForAddOK, ReplaceOK, RejectOK, ReturnAddOK DEF AddStep
<1> QED
  BY <1>1, <1>2, ReceiveOK, CallAddOK, RegistryChangesOK, StutterOK DEF Next
-----------------------------------------------------------------------------
(***************************************************************************)
(* The theorems.                                                           *)
(***************************************************************************)
\* The invariant holds in every reachable state.
THEOREM Invariance == Spec => []IInv
  BY InitOK, StepOK, PTL DEF Spec

\* Lock, tables and threads stay in their types; in particular the shared count of a
\* mutex never goes below zero, although OckRpcReceiveHandle releases its lock_shared
\* with unlock.
THEOREM TypeCorrect == Spec => []TypeOK
<1>1. IInv => TypeOK
  BY DEF IInv
<1> QED
  BY <1>1, Invariance, PTL

\* No thread replaces an entry of a table while a worker searches it or runs a handler
\* found in it (OckRpcReceiveHandle against OckRpcServerAddService), for any number of
\* workers and users and for handlers that call AddService.
THEOREM ReadersExcludeWriters == Spec => []TableExclusive
  BY Exclusion, Invariance, PTL

\* A running handler is the registered one, in any interleaving of any number of workers
\* with AddService.
THEOREM OnlyRegisteredRun == Spec => []RunsRegistered
<1>1. IInv => RunsRegistered
  BY DEF IInv
<1> QED
  BY <1>1, Invariance, PTL

\* No id at or above MAX_MESSAGE_ID_SIZE ever has a handler.
THEOREM IdsBelowLimit == Spec => []LimitKept
<1>1. IInv => LimitKept
  BY DEF IInv
<1> QED
  BY <1>1, Invariance, PTL

\* A handler that waits in AddService for the mutex of its own plane: it stays there,
\* whatever the other threads do.
LEMMA SelfAddStays == ASSUME IInv, [Next]_vars, NEW w \in Workers, SelfAdding(w)
                      PROVE  SelfAdding(w)'
<1>0. w \in Threads /\ wpc[w] = "run" /\ upc[w] = "lock" /\ add[w].plane = msg[w].plane
  BY NobodyIsNoThread DEF SelfAdding
<1>1. add[w].plane \in Planes /\ w \in Inside(add[w].plane)
  BY <1>0 DEF IInv, Arguments, AddRequests, Inside
<1>2. ~ LockForAdd(w)
  BY <1>1, InsideKeepsOut DEF LockForAdd, LockExclusive, MayLock
<1> USE <1>0 DEF SelfAdding
<1>3. ASSUME NEW v \in Workers, WorkerStep(v) PROVE SelfAdding(w)'
  BY <1>3 DEF IInv, TypeOK, WorkerStep, EnterTable, FindHandler, HandlerReturns, LeaveTable,
              addVars
<1>4. ASSUME NEW v \in Workers, NEW m \in Messages, Receive(v, m) PROVE SelfAdding(w)'
  BY <1>4 DEF IInv, TypeOK, Receive, addVars
<1>5. ASSUME NEW t \in Threads, AddStep(t) PROVE SelfAdding(w)'
  BY <1>2, <1>5 DEF IInv, TypeOK, AddStep, LockForAdd, Replace, Reject, ReturnAdd, workerVars
<1>6. ASSUME NEW t \in Threads, NEW r \in AddRequests, CallAdd(t, r) PROVE SelfAdding(w)'
  BY <1>6 DEF IInv, TypeOK, CallAdd, workerVars
<1>7. CASE RegistryChanges
  BY <1>7 DEF RegistryChanges, workerVars, addVars
<1>8. CASE UNCHANGED vars
  BY <1>8 DEF vars, workerVars, addVars
<1> QED
  BY <1>3, <1>4, <1>5, <1>6, <1>7, <1>8 DEF Next

\* A handler that calls AddService for its own plane never gets an answer: the worker
\* waits for the shared side that it holds itself.
THEOREM SelfAddDeadlocks == Spec => SelfAddBlocks
<1>1. IInv /\ [Next]_vars => [\A w \in Workers : SelfAdding(w) => SelfAdding(w)']_vars
  BY SelfAddStays
<1> QED
  BY <1>1, Invariance, PTL DEF Spec, SelfAddBlocks
=============================================================================
