---------------------------- MODULE SharedMutex -----------------------------
(***************************************************************************)
(* The platform's read-write lock behind std::shared_mutex, as a value: an *)
(* exclusive owner and a count of shared holders.  It prefers readers: a   *)
(* waiting writer does not keep a reader out.  A release does not know how *)
(* the lock was taken; the owner's gives up the exclusive side, any other  *)
(* one a shared hold.  Hence unlock() after lock_shared(), which           *)
(* OckRpcReceiveHandle does, releases the shared side.                     *)
(***************************************************************************)
EXTENDS Naturals

CONSTANT NoThread

Unlocked        == [writer |-> NoThread, readers |-> 0]
LockType(T)     == [writer : T \cup {NoThread}, readers : Nat]

\* Variant: readers are not kept out while a writer holds the lock.
MayShare_always(l) == TRUE
MayShare(l)     == l.writer = NoThread
Share(l)        == [l EXCEPT !.readers = @ + 1]

MayLock(l)      == l.writer = NoThread /\ l.readers = 0
Lock(l, t)      == [l EXCEPT !.writer = t]

\* Variant: every release takes the lock for held shared.
Release_shared(l, t) == [l EXCEPT !.readers = @ - 1]
Release(l, t)   == IF l.writer = t THEN [l EXCEPT !.writer = NoThread]
                                   ELSE [l EXCEPT !.readers = @ - 1]
=============================================================================
