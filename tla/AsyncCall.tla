----------------------------- MODULE AsyncCall ------------------------------
(***************************************************************************)
(* The operations that hand the transport a user's own buffers:            *)
(*   "call"    OckRpcClientCall                                            *)
(*   "rndv"    OckRpcClientCallRndv, OckRpcClientCallRndvIov               *)
(*   "oneSide" OckRpcRead, OckRpcWrite, OckRpcReadSgl, OckRpcWriteSgl      *)
(*   "reply"   OckRpcServerReply, OckRpcServerReplyRndv                    *)
(* With a done callback, and for replies always, the operation allocates a *)
(* record (AsyncCbInfo) and posts it with OckRpcCallbackFunc or, for       *)
(* replies, ResponseCallBack, which runs on a thread of the transport,     *)
(* possibly before the routine has returned.  Who frees the record, which  *)
(* of its fields may be read, and until when the user's buffers are needed *)
(* depends on the kind of operation and on what fails.                     *)
(***************************************************************************)
EXTENDS Naturals

CONSTANTS Calls,        \* invocations
          Requests,     \* [kind, done, rsp] : whether there is a done, a response
          ResultLost,   \* whether Service_GetResult may fail in a callback
          NoReq

Kinds == {"call", "rndv", "oneSide", "reply"}
ASSUME ConstantsOK == /\ Requests \subseteq [kind : Kinds, done : BOOLEAN, rsp : BOOLEAN]
                      /\ ResultLost \in BOOLEAN /\ NoReq \notin Requests

VARIABLES
    pc, req, ret,   \* the routine: control point, arguments, returned value
    op,             \* the transport: what has become of the operation
    cb,             \* the callback's control point
    rec,            \* the record: "none", "live" or "freed"
    filled,         \* the fields of the record that have been assigned
    loaded, used,   \* the fields that the callback has read, and those it has acted on
    rsp,            \* the user's response
    done, told      \* how often done was invoked, and with which status

vars == <<pc, req, ret, op, cb, rec, filled, loaded, used, rsp, done, told>>
routine == <<pc, req, ret>>
reads   == <<loaded, used>>

\* AsyncCbInfo; cb stands for cb and arg, reqAddr for reqAddr and reqCnt.
Fields == {"cb", "client", "reqAddr", "rsp"}

\* Every variable keeps its type; done is invoked at most once by the callbacks of one operation.
TypeOK ==
    /\ pc \in [Calls -> {"idle", "record", "post", "wait", "return", "returned"}]
    /\ req \in [Calls -> Requests \cup {NoReq}]
    /\ ret \in [Calls -> {"none", "ok", "err"}]
    /\ op \in [Calls -> {"none", "flying", "ok", "err"}]
    /\ cb \in [Calls -> {"none", "result", "response", "notify", "free", "over", "lost"}]
    /\ rec \in [Calls -> {"none", "live", "freed"}]
    /\ filled \in [Calls -> SUBSET Fields]
    /\ loaded \in [Calls -> SUBSET Fields]
    /\ used \in [Calls -> SUBSET Fields]
    /\ rsp \in [Calls -> {"none", "filled", "uncopied"}]
    /\ done \in [Calls -> 0..1]
    /\ told \in [Calls -> {"none", "ok", "err"}]

Init ==
    /\ pc = [c \in Calls |-> "idle"]     /\ req = [c \in Calls |-> NoReq]
    /\ ret = [c \in Calls |-> "none"]    /\ op = [c \in Calls |-> "none"]
    /\ cb = [c \in Calls |-> "none"]     /\ rec = [c \in Calls |-> "none"]
    /\ filled = [c \in Calls |-> {}]     /\ rsp = [c \in Calls |-> "none"]
    /\ done = [c \in Calls |-> 0]        /\ told = [c \in Calls |-> "none"]
    /\ loaded = [c \in Calls |-> {}]     /\ used = [c \in Calls |-> {}]
-----------------------------------------------------------------------------
(***************************************************************************)
(* The routine.                                                            *)
(***************************************************************************)
Kind(c)     == req[c].kind
\* A reply is posted with a record even when the user gave no done.
Recorded(r) == r.done \/ r.kind = "reply"
\* What the routines assign; malloc leaves the rest of the record as it is.  None of them
\* assigns client, and reqAddr becomes null.
Assigned(k) == IF k \in {"call", "rndv"} THEN Fields \ {"client"} ELSE {"cb"}

Returns(c, v) == /\ pc' = [pc EXCEPT ![c] = "returned"]
                 /\ ret' = [ret EXCEPT ![c] = v]

Start(c, r) ==
    /\ pc[c] = "idle"
    /\ pc' = [pc EXCEPT ![c] = IF Recorded(r) THEN "record" ELSE "post"]
    /\ req' = [req EXCEPT ![c] = r]
    /\ UNCHANGED <<ret, op, cb, rec, filled, rsp, done, told, reads>>

\* A parameter is invalid -- a rendezvous call without a response is, too -- or, for
\* replies, the request's context does not lead to a channel.
Reject(c, r) ==
    /\ pc[c] = "idle"
    /\ req' = [req EXCEPT ![c] = r]
    /\ Returns(c, "err")
    /\ UNCHANGED <<op, cb, rec, filled, rsp, done, told, reads>>

MakeRecord(c) ==
    /\ pc[c] = "record"
    /\ pc' = [pc EXCEPT ![c] = "post"]
    /\ rec' = [rec EXCEPT ![c] = "live"]
    /\ filled' = [filled EXCEPT ![c] = Assigned(Kind(c))]
    /\ UNCHANGED <<req, ret, op, cb, rsp, done, told, reads>>

MallocFails(c) ==
    /\ pc[c] = "record"
    /\ Returns(c, "err")
    /\ UNCHANGED <<req, op, cb, rec, filled, rsp, done, told, reads>>

\* The transport has the operation, and with it the user's buffers.
Post(c) ==
    /\ pc[c] = "post"
    /\ pc' = [pc EXCEPT ![c] = IF Recorded(req[c]) THEN "return" ELSE "wait"]
    /\ op' = [op EXCEPT ![c] = "flying"]
    /\ UNCHANGED <<req, ret, cb, rec, filled, rsp, done, told, reads>>

\* Variant: the callback's record is not freed.
PostFails_keeps(c) ==
    /\ pc[c] = "post"
    /\ Returns(c, "err")
    /\ UNCHANGED <<req, op, cb, rec, filled, rsp, done, told, reads>>

\* Variant: the error is swallowed.
PostFails_ok(c) ==
    /\ pc[c] = "post"
    /\ rec' = [rec EXCEPT ![c] = IF @ = "live" THEN "freed" ELSE @]
    /\ Returns(c, "ok")
    /\ UNCHANGED <<req, op, cb, filled, rsp, done, told, reads>>

\* The transport refuses it: the callback is never going to run, the routine frees the record.
PostFails(c) ==
    /\ pc[c] = "post"
    /\ rec' = [rec EXCEPT ![c] = IF @ = "live" THEN "freed" ELSE @]
    /\ Returns(c, "err")
    /\ UNCHANGED <<req, op, cb, filled, rsp, done, told, reads>>

\* A synchronous operation ends, with the response the transport delivered.
SyncDone(c, result) ==
    /\ pc[c] = "wait"
    /\ op' = [op EXCEPT ![c] = result]
    /\ rsp' = [rsp EXCEPT ![c] = IF result = "ok" /\ req[c].rsp THEN "filled" ELSE @]
    /\ Returns(c, result)
    /\ UNCHANGED <<req, cb, rec, filled, done, told, reads>>

ReturnPosted(c) ==
    /\ pc[c] = "return"
    /\ Returns(c, "ok")
    /\ UNCHANGED <<req, op, cb, rec, filled, rsp, done, told, reads>>
-----------------------------------------------------------------------------
(***************************************************************************)
(* The callbacks.                                                          *)
(***************************************************************************)
\* The operation has ended; the transport invokes the callback with its record.
Completes(c, result) ==
    /\ op[c] = "flying" /\ Recorded(req[c])
    /\ op' = [op EXCEPT ![c] = result]
    /\ cb' = [cb EXCEPT ![c] = "result"]
    /\ UNCHANGED <<routine, rec, filled, rsp, done, told, reads>>

\* The fields of a call's record are copied and the record is freed.  A reqAddr that nobody
\* has assigned may be anything; one that is not null is a list of the client's blocks.
TakeFields(c) ==
    /\ loaded' = [loaded EXCEPT ![c] = Fields]
    /\ used' = [used EXCEPT ![c] = {"reqAddr", "rsp"} \cup
                                      IF "reqAddr" \in filled[c] THEN {} ELSE {"client"}]
    /\ rec' = [rec EXCEPT ![c] = "freed"]
    /\ cb' = [cb EXCEPT ![c] = IF req[c].rsp THEN "response" ELSE "notify"]

\* Variant: the type of the context is not looked at.
CallbackFunc_untyped(c) ==
    /\ cb[c] = "result" /\ Kind(c) # "reply"
    /\ TakeFields(c)
    /\ UNCHANGED <<routine, op, filled, rsp, done, told>>

\* OckRpcCallbackFunc.  A one-sided operation keeps its record until done has returned.
CallbackFunc(c) ==
    /\ cb[c] = "result" /\ Kind(c) # "reply"
    /\ IF Kind(c) = "oneSide"
         THEN cb' = [cb EXCEPT ![c] = "notify"] /\ UNCHANGED <<rec, reads>>
         ELSE TakeFields(c)
    /\ UNCHANGED <<routine, op, filled, rsp, done, told>>

\* Its result or type cannot be read: only the record is freed.
CallbackFuncLost(c) ==
    /\ ResultLost
    /\ cb[c] = "result" /\ Kind(c) # "reply"
    /\ rec' = [rec EXCEPT ![c] = "freed"]
    /\ cb' = [cb EXCEPT ![c] = "lost"]
    /\ UNCHANGED <<routine, op, filled, rsp, done, told, reads>>

\* The response is copied to the user; a failing malloc or copy is only logged.
CopyResponse(c, how) ==
    /\ cb[c] = "response"
    /\ rsp' = [rsp EXCEPT ![c] = how]
    /\ cb' = [cb EXCEPT ![c] = "notify"]
    /\ UNCHANGED <<routine, op, rec, filled, done, told, reads>>

\* Variant: done runs before the response is copied, and again after it.
Notify_early(c) ==
    /\ cb[c] \in {"response", "notify"}
    /\ done' = [done EXCEPT ![c] = @ + 1]
    /\ told' = [told EXCEPT ![c] = op[c]]
    /\ cb' = [cb EXCEPT ![c] = IF @ = "response" THEN @
                               ELSE IF rec[c] = "live" THEN "free" ELSE "over"]
    /\ UNCHANGED <<routine, op, rec, filled, rsp, reads>>

\* The callback reads the user's done and uses it.
UsesDone(c) == /\ loaded' = [loaded EXCEPT ![c] = @ \cup {"cb"}]
               /\ used' = [used EXCEPT ![c] = @ \cup {"cb"}]

\* The user's done runs, with the operation's result.
Notify(c) ==
    /\ cb[c] = "notify"
    /\ done' = [done EXCEPT ![c] = @ + 1]
    /\ told' = [told EXCEPT ![c] = op[c]]
    /\ cb' = [cb EXCEPT ![c] = IF Kind(c) = "oneSide" THEN "free" ELSE "over"]
    /\ UsesDone(c)
    /\ UNCHANGED <<routine, op, rec, filled, rsp>>

\* ResponseCallBack.  Without done it has nothing to do; a result that cannot be read is
\* reported as OCK_RPC_OK.
ResponseCallBack(c, result) ==
    /\ cb[c] = "result" /\ Kind(c) = "reply"
    /\ result = op[c] \/ (ResultLost /\ result = "ok")
    /\ done' = [done EXCEPT ![c] = IF req[c].done THEN @ + 1 ELSE @]
    /\ told' = [told EXCEPT ![c] = IF req[c].done THEN result ELSE @]
    /\ cb' = [cb EXCEPT ![c] = "free"]
    /\ UsesDone(c)
    /\ UNCHANGED <<routine, op, rec, filled, rsp>>

FreeRecord(c) ==
    /\ cb[c] = "free"
    /\ rec' = [rec EXCEPT ![c] = "freed"]
    /\ cb' = [cb EXCEPT ![c] = "over"]
    /\ UNCHANGED <<routine, op, filled, rsp, done, told, reads>>
-----------------------------------------------------------------------------
RoutineStep(c) == \/ MakeRecord(c) \/ MallocFails(c) \/ Post(c) \/ PostFails(c)
                  \/ ReturnPosted(c)
TransportStep(c) == \/ \E result \in {"ok", "err"} : \/ SyncDone(c, result)
                                                     \/ Completes(c, result)
                                                     \/ ResponseCallBack(c, result)
                    \/ CallbackFunc(c) \/ CallbackFuncLost(c)
                    \/ \E how \in {"filled", "uncopied"} : CopyResponse(c, how)
                    \/ Notify(c) \/ FreeRecord(c)

Next == \E c \in Calls : \/ \E r \in Requests : Start(c, r) \/ Reject(c, r)
                         \/ RoutineStep(c) \/ TransportStep(c)

Spec == Init /\ [][Next]_vars

\* Threads are scheduled; the transport answers or times out every posted operation.
FairSpec == Spec /\ \A c \in Calls : WF_vars(RoutineStep(c)) /\ WF_vars(TransportStep(c))
-----------------------------------------------------------------------------
Over(c) == pc[c] = "returned" /\ op[c] # "flying" /\ cb[c] \in {"none", "over", "lost"}

\* The callbacks read a record only while it is allocated, and act only on fields the
\* routine has assigned: the record of Read and Write has no reqAddr and no rsp, which
\* OckRpcCallbackFunc would free and write.  Of what nobody has assigned it reads client at
\* most, of a call, and then does nothing with it.
RecordReadable ==
    \A c \in Calls :
        /\ cb[c] \in {"result", "free"} => rec[c] = "live"
        /\ (op[c] = "flying" /\ Recorded(req[c])) => rec[c] = "live"
        /\ (cb[c] = "notify" /\ Kind(c) = "oneSide") => rec[c] = "live"
        /\ used[c] \subseteq filled[c]
        /\ loaded[c] \ filled[c] \subseteq {"client"}

\* Every record is freed in the end, by the routine or by the callback.
RecordsFreed == \A c \in Calls : Over(c) => rec[c] # "live"

\* The user may release or reuse the buffers of an operation from here on: after an error,
\* after a return without done, and otherwise when done is invoked.
Released(c) == ret[c] = "err" \/ done[c] > 0 \/ (ret[c] = "ok" /\ ~req[c].done)
\* The transport or the callback uses them.
Uses(c)     == op[c] = "flying" \/ cb[c] = "response"
\* The user's buffers are not used after they were released, however the callback and the
\* return of the routine are ordered -- but for replies without done.
BuffersKept == \A c \in Calls : (Uses(c) /\ Released(c)) => (Kind(c) = "reply" /\ ~req[c].done)

\* What the user is told is what has happened, on return and through done, but for results
\* that cannot be read, which ResponseCallBack reports as success.
ToldTruth ==
    \A c \in Calls :
        /\ told[c] # "none" => \/ told[c] = op[c]
                               \/ ResultLost /\ Kind(c) = "reply" /\ told[c] = "ok"
        /\ (ret[c] = "ok" /\ ~Recorded(req[c])) => op[c] = "ok"

\* Without done the returned value is the real result.
ResultIsReal == \A c \in Calls : (ret[c] = "ok" /\ ~req[c].done) => op[c] = "ok"

\* How the user has invoked c.
Mode == [c \in Calls |-> IF pc[c] = "idle" THEN "none"
                         ELSE IF req[c].done THEN "async" ELSE "sync"]

Completion == INSTANCE CallCompletion WITH mode <- Mode

\* All these routines keep the contract of CallCompletion: done at most once, never after
\* an error return, never for an operation without done.
KeepsPromise == Completion!Safety

\* Every routine returns, and done follows every OK unless the callback could not read its
\* result (OckRpcCallbackFunc); replies always get their done.
Answered ==
    \A c \in Calls :
        /\ pc[c] # "idle" ~> ret[c] # "none"
        /\ (pc[c] # "idle" /\ req[c].done /\ ret[c] = "ok")
               ~> (done[c] = 1 \/ (cb[c] = "lost" /\ Kind(c) # "reply"))
=============================================================================
