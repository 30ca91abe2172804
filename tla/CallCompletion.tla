--------------------------- MODULE CallCompletion ---------------------------
(***************************************************************************)
(* What an OckRpc call routine promises its user, whatever happens inside. *)
(*                                                                         *)
(* A call without a done callback is synchronous: its returned value is    *)
(* the result and nothing is notified.  A call with a done callback is     *)
(* asynchronous: an error return means that done is never invoked, and OK  *)
(* means that the call is in progress and that done is invoked exactly     *)
(* once.  done may be invoked inside the routine, before it has returned.  *)
(***************************************************************************)
EXTENDS Naturals

CONSTANT Calls      \* the invocations of the routine

VARIABLES mode,     \* mode[c] : how c was invoked
          ret,      \* ret[c]  : what the routine has returned, "none" until then
          done      \* done[c] : how often c's done callback was invoked

vars == <<mode, ret, done>>

TypeOK == /\ mode \in [Calls -> {"none", "sync", "async"}]
          /\ ret \in [Calls -> {"none", "ok", "err"}]
          /\ done \in [Calls -> 0..1]

Init == /\ mode = [c \in Calls |-> "none"]
        /\ ret = [c \in Calls |-> "none"]
        /\ done = [c \in Calls |-> 0]

\* The user invokes the routine; a call that its argument checks reject returns at once.
Invoke(c, m, r) == /\ mode[c] = "none"
                   /\ mode' = [mode EXCEPT ![c] = m]
                   /\ ret' = [ret EXCEPT ![c] = r]
                   /\ UNCHANGED done

\* The routine returns.  It cannot report an error after it invoked done.
Return(c, r) == /\ mode[c] # "none" /\ ret[c] = "none"
                /\ done[c] = 1 => r = "ok"
                /\ ret' = [ret EXCEPT ![c] = r]
                /\ UNCHANGED <<mode, done>>

\* done is invoked: at most once, and never for a call that failed or has no done.
Notify(c) == /\ mode[c] = "async" /\ ret[c] # "err" /\ done[c] = 0
             /\ done' = [done EXCEPT ![c] = 1]
             /\ UNCHANGED <<mode, ret>>

Next == \E c \in Calls : \/ \E m \in {"sync", "async"}, r \in {"none", "err"} : Invoke(c, m, r)
                         \/ \E r \in {"ok", "err"} : Return(c, r)
                         \/ Notify(c)

Safety == Init /\ [][Next]_vars

\* Every routine returns, and every call that is in progress is notified.
Progress == \A c \in Calls : /\ mode[c] # "none" ~> ret[c] # "none"
                             /\ (mode[c] = "async" /\ ret[c] = "ok") ~> done[c] = 1
=============================================================================
