------------------------ MODULE ServerRegistry_proofs -----------------------
(***************************************************************************)
(* The properties of ServerRegistry, for any number of threads, names,     *)
(* servers and configurations, whatever parts of the options they write.   *)
(* They come from one inductive invariant: the lock knows who reads and    *)
(* who writes the map, the server of a creation is nobody else's, and the  *)
(* options are somebody's as long as they are not the default.             *)
(***************************************************************************)
EXTENDS ServerRegistry, FiniteSetTheorems, TLAPS

Creating(t) == pc[t] \in {"createLock", "insert", "options"}

\* A thread on its way has its arguments.
Arguments ==
    \A t \in Threads : /\ Creating(t) => name[t] \in Names /\ conf[t] \in Configs
                       /\ Busy(t) => h[t] \in Handles
                       /\ pc[t] \in {"findLock", "find"} => name[t] \in Names

\* Who holds the lock, shared and exclusively.
Inside == {t \in Threads : pc[t] \in {"insert", "find"}}
Counted == lock.readers = Cardinality(Inside)
Owned == /\ \A t \in Threads : pc[t] \in {"destroy", "erase"} <=> lock.writer = t
         /\ lock.writer # NoThread => lock.readers = 0

\* The server of a creation has no options, and nobody else is about to destroy it.
Private ==
    \A t \in Threads : Creating(t) =>
        /\ srv[h[t]] = "live" /\ cfg[h[t]] = NoConfig
        /\ \A u \in Threads \ {t} :
               Creating(u) \/ pc[u] \in {"destroyLock", "destroy"} => h[u] # h[t]

\* What is in the options belongs to a server, or is being cleared.
OptionsOwned == opts # Default => Live # {} \/ \E t \in Threads : pc[t] \in {"erase", "reset"}

\* Without a mixture there is at most one server, and at most one thread at work on it.
Alone == ~mixed =>
    /\ \A t, u \in Threads : Busy(t) /\ Busy(u) => t = u
    /\ \A r, s \in Live : r = s
    /\ \A t \in Threads : Creating(t) => opts = Default
    /\ \A t \in Threads : pc[t] \in {"erase", "reset"} => Live = {}
    /\ \A s \in Live : cfg[s] # NoConfig => opts = Own(cfg[s])

IInv == /\ TypeOK /\ Arguments /\ Counted /\ Owned /\ Private /\ ListedIsLive
        /\ OptionsOwned /\ Alone /\ OwnOptionsWhenAlone
-----------------------------------------------------------------------------
\* What thread t may do next.
Move(t) == \/ \E n \in Names, c \in Configs, s \in Handles : Create(t, n, c, s)
           \/ \E s \in Handles : Start(t, s) \/ Destroy(t, s)
           \/ \E n \in Names : Connect(t, n)
           \/ Step(t)

LEMMA NextMoves == Next <=> \E t \in Threads : Move(t)
  BY DEF Next, Move

-----------------------------------------------------------------------------
(***************************************************************************)
(* The lock at work.                                                       *)
(***************************************************************************)
LEMMA InsideFinite == IsFiniteSet(Inside) /\ IsFiniteSet(Inside')
<1>1. Inside \subseteq Threads /\ Inside' \subseteq Threads
  BY DEF Inside
<1> QED
  BY <1>1, ConstantsOK, FS_Subset

\* A thread that is inside holds the lock shared.
LEMMA InsideHolds ==
  ASSUME IInv, NEW t \in Inside
  PROVE  lock.writer = NoThread /\ lock.readers \in Nat \ {0}
<1>1. Cardinality(Inside) # 0
  BY InsideFinite, FS_EmptySet
<1>2. lock.readers \in Nat /\ lock.readers # 0
  BY <1>1 DEF IInv, TypeOK, LockType, Counted
<1> QED
  BY <1>2 DEF IInv, Owned

\* The routines that read or insert enter and leave, those that destroy own the lock.
LEMMA LockKept ==
  ASSUME IInv, NEW t \in Threads, Move(t)
  PROVE  Counted' /\ Owned' /\ lock' \in LockType(Threads)
<1> DEFINE Kept == Counted' /\ Owned' /\ lock' \in LockType(Threads)
<1> USE DEF IInv, TypeOK, LockType
<1>1. ASSUME CreateLock(t) \/ FindLock(t) PROVE Kept
  <2>1. /\ lock.writer = NoThread /\ lock' = [lock EXCEPT !.readers = @ + 1]
        /\ t \notin Inside /\ Inside' = Inside \cup {t}
        /\ \A u \in Threads : pc'[u] \in {"destroy", "erase"} <=> pc[u] \in {"destroy", "erase"}
    BY <1>1 DEF CreateLock, FindLock, Goto, LockShared, MayShare, Share, Inside
  <2>2. Cardinality(Inside') = Cardinality(Inside) + 1
    BY <2>1, InsideFinite, FS_AddElement
  <2> QED
    BY <2>1, <2>2 DEF Counted, Owned
<1>2. ASSUME Insert(t) \/ Find(t) \/ FindNone(t) PROVE Kept
  <2>1. t \in Inside
    BY <1>2 DEF Insert, Find, FindNone, Inside
  <2>2. lock.writer = NoThread /\ lock' = [lock EXCEPT !.readers = @ - 1]
    BY <1>2, <2>1, InsideHolds, ConstantsOK DEF Insert, Find, FindNone, Unlock, Release
  <2>3. /\ Inside' = Inside \ {t}
        /\ \A u \in Threads : pc'[u] \in {"destroy", "erase"} <=> pc[u] \in {"destroy", "erase"}
    BY <1>2 DEF Insert, Find, FindNone, Goto, Return, Inside
  <2>4. Cardinality(Inside') = Cardinality(Inside) - 1
    BY <2>1, <2>3, InsideFinite, FS_RemoveElement
  <2>5. lock.readers - 1 \in Nat
    BY <2>1, InsideHolds
  <2> QED
    BY <2>2, <2>3, <2>4, <2>5 DEF Counted, Owned
<1>3. ASSUME DestroyLock(t) PROVE Kept
  <2>1. /\ lock.writer = NoThread /\ lock.readers = 0 /\ lock' = [lock EXCEPT !.writer = t]
        /\ Inside' = Inside /\ pc'[t] = "destroy" /\ \A u \in Threads \ {t} : pc'[u] = pc[u]
    BY <1>3 DEF DestroyLock, Goto, LockExclusive, MayLock, Lock, Inside
  <2> QED
    BY <2>1, ConstantsOK DEF Counted, Owned
<1>4. ASSUME DestroyUnknown(t) \/ StopOnly(t) \/ Erase(t) PROVE Kept
  <2>1. lock.writer = t
    BY <1>4 DEF DestroyUnknown, StopOnly, Erase, Owned
  <2>2. /\ lock' = [lock EXCEPT !.writer = NoThread] /\ Inside' = Inside
        /\ pc'[t] \in {"idle", "reset"} /\ \A u \in Threads \ {t} : pc'[u] = pc[u]
    BY <1>4, <2>1 DEF DestroyUnknown, StopOnly, Erase, Unlock, Release, Goto, Return, Inside
  <2> QED
    BY <2>1, <2>2, ConstantsOK DEF Counted, Owned
<1>5. ASSUME ~(CreateLock(t) \/ FindLock(t)), ~(Insert(t) \/ Find(t) \/ FindNone(t)),
             ~DestroyLock(t), ~(DestroyUnknown(t) \/ StopOnly(t) \/ Erase(t))
      PROVE Kept
  <2>1. /\ lock' = lock /\ Inside' = Inside
        /\ \A u \in Threads : pc'[u] \in {"destroy", "erase"} <=> pc[u] \in {"destroy", "erase"}
    BY <1>5 DEF Move, Create, Start, Destroy, Connect, Step, CreateStep, DestroyStep, ConnectStep,
       SetOptions, SetOptionsFails, StopAndDestroy, Reset, ConnectTo, Call, Goto, Return, Inside,
       local
  <2> QED
    BY <2>1 DEF Counted, Owned
<1> QED
  BY <1>1, <1>2, <1>3, <1>4, <1>5

-----------------------------------------------------------------------------
(***************************************************************************)
(* What one step keeps, part by part of the invariant.                     *)
(***************************************************************************)
\* Variables keep their types; the lock by its own account.
LEMMA TypesKept ==
  ASSUME IInv, NEW t \in Threads, Move(t)
  PROVE  TypeOK'
<1> USE DEF IInv, TypeOK, PCs, Goto, Return, Call, local, Arguments, Creating, Busy
<1>1. CASE \E n \in Names, c \in Configs, s \in Handles : Create(t, n, c, s)
  BY <1>1, LockKept DEF Create, Mixes
<1>2. CASE \E s \in Handles : Start(t, s)
  BY <1>2, LockKept DEF Start
<1>3. CASE \E s \in Handles : Destroy(t, s)
  BY <1>3, LockKept DEF Destroy
<1>4. CASE CreateLock(t)
  BY <1>4, LockKept DEF CreateLock
<1>5. CASE Insert(t)
  BY <1>5, LockKept DEF Insert
<1>6. CASE SetOptions(t)
  BY <1>6, LockKept DEF SetOptions, Written
<1>7. CASE \E k \in 1..4 : SetOptionsFails(t, k)
  BY <1>7, LockKept DEF SetOptionsFails, Written
<1>8. CASE DestroyLock(t)
  BY <1>8, LockKept DEF DestroyLock
<1>9. CASE DestroyUnknown(t)
  BY <1>9, LockKept DEF DestroyUnknown, Settles
<1>10. CASE StopAndDestroy(t)
  BY <1>10, LockKept DEF StopAndDestroy, Default
<1>11. CASE StopOnly(t)
  BY <1>11, LockKept DEF StopOnly, Settles
<1>12. CASE Erase(t)
  BY <1>12, LockKept DEF Erase
<1>13. CASE Reset(t)
  BY <1>13, LockKept DEF Reset, Settles, Default
<1>14. CASE (\E n \in Names : Connect(t, n)) \/ ConnectStep(t)
  <2>1. CASE \E n \in Names : Connect(t, n)
    BY <2>1, LockKept DEF Connect
  <2>2. CASE FindLock(t) \/ FindNone(t) \/ ConnectTo(t)
    BY <2>2, LockKept DEF FindLock, FindNone, ConnectTo
  <2>3. CASE Find(t)
    BY <2>3, LockKept DEF Find
  <2> QED
    BY <1>14, <2>1, <2>2, <2>3 DEF ConnectStep
<1> QED
  BY <1>1, <1>2, <1>3, <1>4, <1>5, <1>6, <1>7, <1>8, <1>9, <1>10, <1>11, <1>12, <1>13, <1>14 DEF
     Move, CreateStep, DestroyStep, Step

\* Whoever leaves the idle state takes its arguments along.
LEMMA ArgumentsKept ==
  ASSUME IInv, NEW t \in Threads, Move(t)
  PROVE  Arguments'
<1> USE DEF IInv, TypeOK, PCs, Goto, Return, Call, local, Arguments, Creating, Busy
<1>1. CASE \E n \in Names, c \in Configs, s \in Handles : Create(t, n, c, s)
  BY <1>1 DEF Create
<1>2. CASE \E s \in Handles : Start(t, s)
  BY <1>2 DEF Start
<1>3. CASE \E s \in Handles : Destroy(t, s)
  BY <1>3 DEF Destroy
<1>4. CASE CreateLock(t)
  BY <1>4 DEF CreateLock
<1>5. CASE Insert(t)
  BY <1>5 DEF Insert
<1>6. CASE SetOptions(t)
  BY <1>6 DEF SetOptions
<1>7. CASE \E k \in 1..4 : SetOptionsFails(t, k)
  BY <1>7 DEF SetOptionsFails
<1>8. CASE DestroyLock(t)
  BY <1>8 DEF DestroyLock
<1>9. CASE DestroyUnknown(t)
  BY <1>9 DEF DestroyUnknown
<1>10. CASE StopAndDestroy(t)
  BY <1>10 DEF StopAndDestroy
<1>11. CASE StopOnly(t)
  BY <1>11 DEF StopOnly
<1>12. CASE Erase(t)
  BY <1>12 DEF Erase
<1>13. CASE Reset(t)
  BY <1>13 DEF Reset
<1>14. CASE (\E n \in Names : Connect(t, n)) \/ ConnectStep(t)
  BY <1>14 DEF Connect, ConnectStep, FindLock, Find, FindNone, ConnectTo
<1> QED
  BY <1>1, <1>2, <1>3, <1>4, <1>5, <1>6, <1>7, <1>8, <1>9, <1>10, <1>11, <1>12, <1>13, <1>14 DEF
     Move, CreateStep, DestroyStep, Step

\* libhcom hands out a server that is nobody's, and the user is given it when it is finished.
LEMMA PrivateKept ==
  ASSUME IInv, NEW t \in Threads, Move(t)
  PROVE  Private'
<1> USE DEF IInv, TypeOK, PCs, Goto, Return, Call, local, Arguments, Creating, Busy, Private
<1>1. CASE \E n \in Names, c \in Configs, s \in Handles : Create(t, n, c, s)
  BY <1>1 DEF Create
<1>2. CASE \E s \in Handles : Start(t, s)
  BY <1>2 DEF Start
<1>3. CASE \E s \in Handles : Destroy(t, s)
  BY <1>3 DEF Destroy
<1>4. CASE CreateLock(t)
  BY <1>4 DEF CreateLock
<1>5. CASE Insert(t)
  BY <1>5 DEF Insert
<1>6. CASE SetOptions(t)
  BY <1>6 DEF SetOptions
<1>7. CASE \E k \in 1..4 : SetOptionsFails(t, k)
  BY <1>7 DEF SetOptionsFails
<1>8. CASE DestroyLock(t)
  BY <1>8 DEF DestroyLock
<1>9. CASE DestroyUnknown(t)
  BY <1>9 DEF DestroyUnknown
<1>10. CASE StopAndDestroy(t)
  BY <1>10 DEF StopAndDestroy
<1>11. CASE StopOnly(t)
  BY <1>11 DEF StopOnly
<1>12. CASE Erase(t)
  BY <1>12 DEF Erase
<1>13. CASE Reset(t)
  BY <1>13 DEF Reset
<1>14. CASE (\E n \in Names : Connect(t, n)) \/ ConnectStep(t)
  BY <1>14 DEF Connect, ConnectStep, FindLock, Find, FindNone, ConnectTo
<1> QED
  BY <1>1, <1>2, <1>3, <1>4, <1>5, <1>6, <1>7, <1>8, <1>9, <1>10, <1>11, <1>12, <1>13, <1>14 DEF
     Move, CreateStep, DestroyStep, Step

\* A server that goes is erased by the thread that holds the lock; a new one is there.
LEMMA ListedKept ==
  ASSUME IInv, NEW t \in Threads, Move(t)
  PROVE  ListedIsLive'
<1> USE DEF IInv, TypeOK, PCs, Goto, Return, Call, local, Arguments, Creating, Busy, Private,
            Owned, ListedIsLive
<1>1. CASE \E n \in Names, c \in Configs, s \in Handles : Create(t, n, c, s)
  BY <1>1 DEF Create
<1>2. CASE \E s \in Handles : Start(t, s)
  BY <1>2 DEF Start
<1>3. CASE \E s \in Handles : Destroy(t, s)
  BY <1>3 DEF Destroy
<1>4. CASE CreateLock(t)
  BY <1>4 DEF CreateLock
<1>5. CASE Insert(t)
  BY <1>5 DEF Insert
<1>6. CASE SetOptions(t)
  BY <1>6 DEF SetOptions
<1>7. CASE \E k \in 1..4 : SetOptionsFails(t, k)
  BY <1>7 DEF SetOptionsFails
<1>8. CASE DestroyLock(t)
  BY <1>8 DEF DestroyLock
<1>9. CASE DestroyUnknown(t)
  BY <1>9 DEF DestroyUnknown
<1>10. CASE StopAndDestroy(t)
  BY <1>10 DEF StopAndDestroy
<1>11. CASE StopOnly(t)
  BY <1>11 DEF StopOnly
<1>12. CASE Erase(t)
  BY <1>12 DEF Erase
<1>13. CASE Reset(t)
  BY <1>13 DEF Reset
<1>14. CASE (\E n \in Names : Connect(t, n)) \/ ConnectStep(t)
  BY <1>14 DEF Connect, ConnectStep, FindLock, Find, FindNone, ConnectTo
<1> QED
  BY <1>1, <1>2, <1>3, <1>4, <1>5, <1>6, <1>7, <1>8, <1>9, <1>10, <1>11, <1>12, <1>13, <1>14 DEF
     Move, CreateStep, DestroyStep, Step

\* A creation writes options while its server is there; who takes the last one away resets them.
LEMMA OptionsKept ==
  ASSUME IInv, NEW t \in Threads, Move(t)
  PROVE  OptionsOwned'
<1> USE DEF IInv, TypeOK, PCs, Goto, Return, Call, local, Arguments, Creating, Busy, Private,
            OptionsOwned, Live, Default
<1>1. CASE \E n \in Names, c \in Configs, s \in Handles : Create(t, n, c, s)
  BY <1>1 DEF Create
<1>2. CASE \E s \in Handles : Start(t, s)
  BY <1>2 DEF Start
<1>3. CASE \E s \in Handles : Destroy(t, s)
  BY <1>3 DEF Destroy
<1>4. CASE CreateLock(t)
  BY <1>4 DEF CreateLock
<1>5. CASE Insert(t)
  BY <1>5 DEF Insert
<1>6. CASE SetOptions(t)
  BY <1>6 DEF SetOptions
<1>7. CASE \E k \in 1..4 : SetOptionsFails(t, k)
  BY <1>7 DEF SetOptionsFails
<1>8. CASE DestroyLock(t)
  BY <1>8 DEF DestroyLock
<1>9. CASE DestroyUnknown(t)
  BY <1>9 DEF DestroyUnknown
<1>10. CASE StopAndDestroy(t)
  BY <1>10 DEF StopAndDestroy
<1>11. CASE StopOnly(t)
  BY <1>11 DEF StopOnly
<1>12. CASE Erase(t)
  BY <1>12 DEF Erase
<1>13. CASE Reset(t)
  BY <1>13 DEF Reset
<1>14. CASE (\E n \in Names : Connect(t, n)) \/ ConnectStep(t)
  BY <1>14 DEF Connect, ConnectStep, FindLock, Find, FindNone, ConnectTo
<1> QED
  BY <1>1, <1>2, <1>3, <1>4, <1>5, <1>6, <1>7, <1>8, <1>9, <1>10, <1>11, <1>12, <1>13, <1>14 DEF
     Move, CreateStep, DestroyStep, Step

\* Who comes to destroy a listed server finds it alive: nobody else is in the middle of it.
LEMMA DestroyFindsLive ==
  ASSUME IInv, NEW t \in Threads, pc[t] = "destroy", Listed(h[t])
  PROVE  srv[h[t]] # "none"
<1>1. PICK n \in Names : map[n] = h[t]
  BY DEF Listed
<1>2. h[t] \in Handles /\ h[t] # NoHandle
  BY ConstantsOK DEF IInv, Arguments, Busy
<1>3. lock.writer = t /\ \A u \in Threads : pc[u] = "erase" => u = t
  BY DEF IInv, Owned
<1> QED
  BY <1>1, <1>2, <1>3 DEF IInv, ListedIsLive

\* A creation that mixes nothing finds no server and no options; a server that goes leaves none.
LEMMA AloneKept ==
  ASSUME IInv, NEW t \in Threads, Move(t)
  PROVE  Alone'
<1> SUFFICES ASSUME ~mixed' PROVE Alone'
  BY DEF Alone
<1> USE DEF IInv, TypeOK, PCs, Goto, Return, Call, local
<1>1. CASE \E n \in Names, c \in Configs, s \in Handles : Create(t, n, c, s)
  <2>1. PICK n \in Names, c \in Configs, s \in Handles : Create(t, n, c, s)
    BY <1>1
  <2>2. /\ Live = {} /\ \A u \in Threads \ {t} : ~Busy(u)
        /\ pc[t] = "idle" /\ opts' = opts /\ Live' = {s} /\ cfg'[s] = NoConfig
    BY <2>1 DEF Create, Mixes, Live
  <2>3. opts = Default
    BY <2>2 DEF OptionsOwned, Busy
  <2>4. /\ pc'[t] = "createLock" /\ \A u \in Threads \ {t} : pc'[u] = pc[u]
        /\ Default' = Default
    BY <2>1 DEF Create, Default
  <2> QED
    BY <2>2, <2>3, <2>4 DEF Alone, Busy, Creating
<1>2. CASE \E s \in Handles : Destroy(t, s)
  <2>1. PICK s \in Handles : Destroy(t, s)
    BY <1>2
  <2>2. /\ ~mixed /\ \A u \in Threads \ {t} : ~Busy(u)
        /\ pc'[t] = "destroyLock" /\ \A u \in Threads \ {t} : pc'[u] = pc[u]
        /\ UNCHANGED <<opts, srv, cfg>> /\ Live' = Live /\ Default' = Default
    BY <2>1 DEF Destroy, Live, Default
  <2> QED
    BY <2>2 DEF Alone, Busy, Creating, Own
<1>3. CASE StopAndDestroy(t)
  <2>1. /\ ~mixed /\ Busy(t) /\ h[t] \in Handles /\ ~Creating(t) /\ pc'[t] = "erase"
        /\ \A u \in Threads \ {t} : pc'[u] = pc[u]
        /\ srv' = [srv EXCEPT ![h[t]] = "none"] /\ UNCHANGED <<opts, cfg>>
    BY <1>3 DEF StopAndDestroy, Busy, Arguments, Creating
  <2>2. h[t] \in Live
    BY <1>3, <2>1, DestroyFindsLive DEF StopAndDestroy, Live
  <2>3. Live' = {}
    BY <2>1, <2>2 DEF Alone, Live
  <2>4. \A u \in Threads : (Busy(u)' <=> Busy(u)) /\ (Creating(u)' <=> Creating(u))
    BY <2>1 DEF Busy, Creating
  <2> QED
    BY <2>1, <2>3, <2>4 DEF Alone, Default
<1>4. CASE StopOnly(t)
  <2>1. /\ Busy(t) /\ h[t] \in Handles /\ ~Creating(t) /\ pc'[t] = "idle"
        /\ \A u \in Threads \ {t} : pc'[u] = pc[u]
        /\ srv' = [srv EXCEPT ![h[t]] = "stopped"] /\ UNCHANGED <<opts, cfg>>
    BY <1>4 DEF StopOnly, Busy, Arguments, Creating
  <2>2. h[t] \in Live
    BY <1>4, <2>1, DestroyFindsLive DEF StopOnly, Live
  <2>3. Live' = Live
    BY <2>1, <2>2 DEF Live
  <2>4. ~mixed
    BY <1>4, <2>2 DEF StopOnly, Settles
  <2>5. \A u \in Threads : (Busy(u)' => Busy(u)) /\ (Creating(u)' => Creating(u))
                           /\ (pc'[u] \in {"erase", "reset"} => pc[u] \in {"erase", "reset"})
    BY <2>1 DEF Busy, Creating
  <2>6. Default' = Default /\ \A c \in Configs : Own(c)' = Own(c)
    BY DEF Default, Own
  <2> QED
    BY <2>1, <2>3, <2>4, <2>5, <2>6 DEF Alone, Live, Own
<1> USE DEF Alone, Private, OptionsOwned, Arguments, Live, Creating, Busy, Settles
<1>5. CASE \E s \in Handles : Start(t, s)
  BY <1>5 DEF Start
<1>6. CASE CreateLock(t)
  BY <1>6 DEF CreateLock
<1>7. CASE Insert(t)
  BY <1>7 DEF Insert
<1>8. CASE SetOptions(t)
  BY <1>8 DEF SetOptions, Own, Written, Parts, PartSet, Default
<1>9. CASE \E k \in 1..4 : SetOptionsFails(t, k)
  BY <1>9 DEF SetOptionsFails, Own, Written, Parts, PartSet, Default
<1>10. CASE DestroyLock(t)
  BY <1>10 DEF DestroyLock
<1>11. CASE DestroyUnknown(t)
  BY <1>11 DEF DestroyUnknown
<1>12. CASE Erase(t)
  BY <1>12 DEF Erase
<1>13. CASE Reset(t)
  BY <1>13 DEF Reset, Own, Written, Parts, PartSet, Default
<1>14. CASE (\E n \in Names : Connect(t, n)) \/ ConnectStep(t)
  BY <1>14 DEF Connect, ConnectStep, FindLock, Find, FindNone, ConnectTo
<1> QED
  BY <1>1, <1>2, <1>3, <1>4, <1>5, <1>6, <1>7, <1>8, <1>9, <1>10, <1>11, <1>12, <1>13, <1>14 DEF
     Move, CreateStep, DestroyStep, Step

\* A start reads the options of the only server; whatever ends a mixture leaves no server.
LEMMA OwnKept ==
  ASSUME IInv, NEW t \in Threads, Move(t)
  PROVE  OwnOptionsWhenAlone'
<1> USE DEF IInv, TypeOK, PCs, Goto, Return, Call, local, Arguments, Creating, Busy, Private,
            Alone, OptionsOwned, OwnOptionsWhenAlone, Live, Mixes, Settles
<1>1. CASE \E n \in Names, c \in Configs, s \in Handles : Create(t, n, c, s)
  BY <1>1 DEF Create
<1>2. CASE \E s \in Handles : Start(t, s)
  BY <1>2 DEF Start
<1>3. CASE \E s \in Handles : Destroy(t, s)
  BY <1>3 DEF Destroy
<1>4. CASE CreateLock(t)
  BY <1>4 DEF CreateLock
<1>5. CASE Insert(t)
  BY <1>5 DEF Insert
<1>6. CASE SetOptions(t)
  BY <1>6 DEF SetOptions
<1>7. CASE \E k \in 1..4 : SetOptionsFails(t, k)
  BY <1>7 DEF SetOptionsFails
<1>8. CASE DestroyLock(t)
  BY <1>8 DEF DestroyLock
<1>9. CASE DestroyUnknown(t)
  BY <1>9 DEF DestroyUnknown
<1>10. CASE StopAndDestroy(t)
  BY <1>10 DEF StopAndDestroy
<1>11. CASE StopOnly(t)
  BY <1>11 DEF StopOnly
<1>12. CASE Erase(t)
  BY <1>12 DEF Erase
<1>13. CASE Reset(t)
  BY <1>13 DEF Reset
<1>14. CASE (\E n \in Names : Connect(t, n)) \/ ConnectStep(t)
  BY <1>14 DEF Connect, ConnectStep, FindLock, Find, FindNone, ConnectTo
<1> QED
  BY <1>1, <1>2, <1>3, <1>4, <1>5, <1>6, <1>7, <1>8, <1>9, <1>10, <1>11, <1>12, <1>13, <1>14 DEF
     Move, CreateStep, DestroyStep, Step

-----------------------------------------------------------------------------
LEMMA InitOK == Init => IInv
<1> SUFFICES ASSUME Init PROVE IInv
  OBVIOUS
<1>1. TypeOK
  BY DEF Init, TypeOK, Unlocked, LockType, Default, PCs
<1>2. Inside = {} /\ Live = {} /\ lock = Unlocked
  BY DEF Init, Inside, Live
<1>3. Counted /\ Owned
  BY <1>2, FS_EmptySet, ConstantsOK DEF Init, Counted, Owned, Unlocked
<1>4. Arguments /\ Private /\ ListedIsLive /\ OptionsOwned
  BY DEF Init, Arguments, Busy, Private, Creating, ListedIsLive, OptionsOwned
<1>5. Alone /\ OwnOptionsWhenAlone
  BY <1>2 DEF Init, Alone, OwnOptionsWhenAlone, Busy, Creating
<1> QED
  BY <1>1, <1>3, <1>4, <1>5 DEF IInv

LEMMA StutterOK == IInv /\ UNCHANGED vars => IInv'
<1> SUFFICES ASSUME IInv, UNCHANGED vars PROVE IInv'
  OBVIOUS
<1> USE DEF IInv, vars, local
<1>1. TypeOK' /\ Arguments' /\ Private' /\ ListedIsLive'
  BY DEF TypeOK, Arguments, Busy, Private, Creating, ListedIsLive
<1>2. Counted' /\ Owned'
  BY DEF Counted, Owned, Inside
<1>3. OptionsOwned' /\ OwnOptionsWhenAlone'
  BY DEF OptionsOwned, OwnOptionsWhenAlone, Own, Live, Default
<1>4. Alone'
  BY DEF Alone, Own, Live, Default, Busy, Creating
<1> QED
  BY <1>1, <1>2, <1>3, <1>4

\* Every routine of every thread keeps the invariant.
LEMMA NextOK == IInv /\ [Next]_vars => IInv'
<1> SUFFICES ASSUME IInv, [Next]_vars PROVE IInv'
  OBVIOUS
<1>1. CASE UNCHANGED vars
  BY <1>1, StutterOK
<1>2. CASE Next
  <2>1. PICK t \in Threads : Move(t)
    BY <1>2, NextMoves
  <2> QED
    BY <2>1, TypesKept, ArgumentsKept, LockKept, PrivateKept, ListedKept, OptionsKept,
       AloneKept, OwnKept DEF IInv
<1> QED
  BY <1>1, <1>2

\* The lock, the map, the servers and the options, after any calls of any threads.
THEOREM Invariance == Spec => []IInv
  BY InitOK, NextOK, PTL DEF Spec

\* Variables keep their types; a creation that inserts under the shared side of serviceMutex
\* and releases it with unlock never takes the count below zero.
THEOREM TypeCorrect == Spec => []TypeOK
<1>1. IInv => TypeOK
  BY DEF IInv
<1> QED
  BY <1>1, Invariance, PTL

\* OckRpcGetCurService and OckRpcServerDestroy find no server in g_serviceMap that
\* Service_Destroy has taken away.
THEOREM ListedAreLive == Spec => []ListedIsLive
<1>1. IInv => ListedIsLive
  BY DEF IInv
<1> QED
  BY <1>1, Invariance, PTL

\* Service_Destroy is given a handle once, however many threads are in OckRpcServerDestroy
\* with it.
THEOREM NeverDestroyedTwice == Spec => DestroyedOnce
<1> DEFINE Once == \A t \in Threads : pc[t] = "destroy" /\ pc'[t] = "erase" => srv[h[t]] # "none"
<1>1. IInv /\ [Next]_vars => [Once]_vars
  <2> SUFFICES ASSUME IInv, Next, NEW t \in Threads, pc[t] = "destroy", pc'[t] = "erase"
               PROVE  srv[h[t]] # "none"
    BY DEF vars
  <2>1. PICK u \in Threads : Move(u)
    BY NextMoves
  <2>2. u = t /\ StopAndDestroy(t)
    BY <2>1 DEF IInv, TypeOK, PCs, Move, Create, Start, Destroy, Connect, Step, CreateStep,
       DestroyStep, ConnectStep, CreateLock, Insert, SetOptions, SetOptionsFails, DestroyLock,
       DestroyUnknown, StopAndDestroy, StopOnly, Erase, Reset, FindLock, Find, FindNone, ConnectTo,
       Call, Goto, Return, local
  <2> QED
    BY <2>2, DestroyFindsLive DEF StopAndDestroy
<1> QED
  BY <1>1, Invariance, PTL DEF Spec, DestroyedOnce

\* Once the last server is gone, g_options and g_tlsFunc are those of a fresh process.
THEOREM NothingRemains == Spec => []NothingInherited
<1>1. IInv => NothingInherited
  BY DEF IInv, OptionsOwned, NothingInherited, Busy
<1> QED
  BY <1>1, Invariance, PTL

\* OckRpcServerStart starts a server that was alone with the options of its own creation,
\* whichever parts of them a configuration writes.
THEOREM StartsWithItsOwn == Spec => []OwnOptionsWhenAlone
<1>1. IInv => OwnOptionsWhenAlone
  BY DEF IInv
<1> QED
  BY <1>1, Invariance, PTL
=============================================================================
