-------------------------- MODULE AsyncCall_proofs --------------------------
(***************************************************************************)
(* The safety properties of AsyncCall, for any set of calls and requests.  *)
(* The properties relate the routine, the transport and the callback only  *)
(* in the states they speak of; Stage says what holds at every stage of an *)
(* operation, and is inductive.                                            *)
(***************************************************************************)
EXTENDS AsyncCall, TLAPS

\* Nothing has been handed to the transport, and nothing has been notified.
Quiet(c) == /\ op[c] = "none" /\ cb[c] = "none" /\ done[c] = 0 /\ told[c] = "none"
            /\ loaded[c] = {} /\ used[c] = {}

\* What the callback has read and used of the record.
Reads(c) == used[c] \subseteq filled[c] /\ loaded[c] \ filled[c] \subseteq {"client"}

\* What a report through done may be.
Truth(c) == \/ done[c] = 0 /\ told[c] = "none"
            \/ done[c] = 1 /\ told[c] = op[c]
            \/ done[c] = 1 /\ told[c] = "ok" /\ ResultLost /\ Kind(c) = "reply"

\* The transport has a recorded operation, or has had it, and the callback is at cb[c].
Posted(c) ==
    /\ Recorded(req[c])
    /\ filled[c] = Assigned(Kind(c))
    /\ op[c] \in {"flying", "ok", "err"}
    /\ op[c] = "flying" <=> cb[c] = "none"
    /\ Truth(c)
    /\ cb[c] \in {"none", "result"} => rec[c] = "live" /\ done[c] = 0
    /\ cb[c] = "response" => rec[c] = "freed" /\ done[c] = 0 /\ Kind(c) \in {"call", "rndv"}
    /\ cb[c] = "notify" => /\ done[c] = 0 /\ Kind(c) # "reply"
                           /\ rec[c] = IF Kind(c) = "oneSide" THEN "live" ELSE "freed"
    /\ cb[c] = "free" => rec[c] = "live"
    /\ cb[c] \in {"over", "lost"} => rec[c] = "freed"
    /\ done[c] = 1 => req[c].done

\* A synchronous operation that has ended.
Ended(c) == /\ ~Recorded(req[c])
            /\ op[c] \in {"ok", "err"} /\ ret[c] = op[c]
            /\ cb[c] = "none" /\ rec[c] = "none" /\ done[c] = 0 /\ told[c] = "none"

\* An operation that the transport has never seen.
Failed(c) == Quiet(c) /\ ret[c] = "err" /\ rec[c] # "live"

Stage(c) ==
    /\ Reads(c)
    /\ pc[c] # "idle" => req[c] \in Requests
    /\ pc[c] # "returned" <=> ret[c] = "none"
    /\ pc[c] = "idle" => Quiet(c) /\ rec[c] = "none"
    /\ pc[c] = "record" => Quiet(c) /\ rec[c] = "none" /\ Recorded(req[c])
    /\ pc[c] = "post" => /\ Quiet(c)
                         /\ Recorded(req[c]) => rec[c] = "live" /\ filled[c] = Assigned(Kind(c))
                         /\ ~Recorded(req[c]) => rec[c] = "none"
    /\ pc[c] = "wait" => /\ ~Recorded(req[c]) /\ rec[c] = "none"
                         /\ op[c] = "flying" /\ cb[c] = "none" /\ done[c] = 0 /\ told[c] = "none"
    /\ pc[c] = "return" => Posted(c)
    /\ pc[c] = "returned" => Failed(c) \/ Ended(c) \/ (Posted(c) /\ ret[c] = "ok")

IInv == TypeOK /\ \A c \in Calls : Stage(c)

\* Nothing of another call changes.
Same(c) == /\ pc'[c] = pc[c] /\ req'[c] = req[c] /\ ret'[c] = ret[c] /\ op'[c] = op[c]
           /\ cb'[c] = cb[c] /\ rec'[c] = rec[c] /\ filled'[c] = filled[c]
           /\ done'[c] = done[c] /\ told'[c] = told[c]
           /\ loaded'[c] = loaded[c] /\ used'[c] = used[c]
-----------------------------------------------------------------------------
\* An invocation that does not change keeps its stage.
LEMMA SameStage ==
    ASSUME NEW c \in Calls, Stage(c), Same(c)
    PROVE  Stage(c)'
BY DEF Stage, Reads, Same, Quiet, Truth, Posted, Ended, Failed, Kind

\* Requests have a kind and say whether there is a done and a response.
LEMMA RequestParts ==
    ASSUME NEW r \in Requests
    PROVE  /\ r.kind \in Kinds /\ r.done \in BOOLEAN /\ r.rsp \in BOOLEAN
           /\ Recorded(r) \in BOOLEAN
BY ConstantsOK DEF Recorded
-----------------------------------------------------------------------------
\* What a step of c has to keep.
Kept(c) == TypeOK' /\ Stage(c)' /\ \A d \in Calls \ {c} : Same(d)

\* An accepted invocation starts at record or post.
LEMMA StartKeeps ==
    ASSUME IInv, NEW c \in Calls, NEW r \in Requests, Start(c, r)
    PROVE  Kept(c)
<1>1. TypeOK'
    BY DEF IInv, TypeOK, Start, reads
<1>2. Stage(c)'
    BY DEF IInv, TypeOK, Reads, Stage, Quiet, Start, reads
<1>3. \A d \in Calls \ {c} : Same(d)
    BY DEF Start, reads, Same
<1>4. QED  BY <1>1, <1>2, <1>3 DEF Kept

\* A rejected invocation has failed.
LEMMA RejectKeeps ==
    ASSUME IInv, NEW c \in Calls, NEW r \in Requests, Reject(c, r)
    PROVE  Kept(c)
<1>1. TypeOK'
    BY DEF IInv, TypeOK, Reject, reads, Returns
<1>2. Stage(c)'
    BY DEF IInv, TypeOK, Reads, Stage, Quiet, Failed, Reject, reads, Returns
<1>3. \A d \in Calls \ {c} : Same(d)
    BY DEF Reject, reads, Returns, Same
<1>4. QED  BY <1>1, <1>2, <1>3 DEF Kept

\* A new record is live and assigned as its kind of operation assigns it.
LEMMA MakeRecordKeeps ==
    ASSUME IInv, NEW c \in Calls, MakeRecord(c)
    PROVE  Kept(c)
<1>1. TypeOK'
    BY DEF IInv, TypeOK, MakeRecord, reads, Fields, Assigned
<1>2. Stage(c)'
    BY DEF IInv, TypeOK, Reads, Stage, Quiet, MakeRecord, reads, Kind
<1>3. \A d \in Calls \ {c} : Same(d)
    BY DEF MakeRecord, reads, Same
<1>4. QED  BY <1>1, <1>2, <1>3 DEF Kept

\* Without a record the routine fails before anything is posted.
LEMMA MallocFailsKeeps ==
    ASSUME IInv, NEW c \in Calls, MallocFails(c)
    PROVE  Kept(c)
<1>1. TypeOK'
    BY DEF IInv, TypeOK, MallocFails, reads, Returns
<1>2. Stage(c)'
    BY DEF IInv, TypeOK, Reads, Stage, Quiet, Failed, MallocFails, reads, Returns
<1>3. \A d \in Calls \ {c} : Same(d)
    BY DEF MallocFails, reads, Returns, Same
<1>4. QED  BY <1>1, <1>2, <1>3 DEF Kept

\* A posted operation is in flight, its record untouched.
LEMMA PostKeeps ==
    ASSUME IInv, NEW c \in Calls, Post(c)
    PROVE  Kept(c)
<1>1. TypeOK'
    BY DEF IInv, TypeOK, Post, reads
<1>2. Stage(c)'
    BY DEF IInv, TypeOK, Reads, Stage, Quiet, Posted, Truth, Post, reads, Kind
<1>3. \A d \in Calls \ {c} : Same(d)
    BY DEF Post, reads, Same
<1>4. QED  BY <1>1, <1>2, <1>3 DEF Kept

\* A refused operation has failed and has no live record.
LEMMA PostFailsKeeps ==
    ASSUME IInv, NEW c \in Calls, PostFails(c)
    PROVE  Kept(c)
<1>1. TypeOK'
    BY DEF IInv, TypeOK, PostFails, reads, Returns
<1>2. Stage(c)'
    BY DEF IInv, TypeOK, Reads, Stage, Quiet, Failed, PostFails, reads, Returns
<1>3. \A d \in Calls \ {c} : Same(d)
    BY DEF PostFails, reads, Returns, Same
<1>4. QED  BY <1>1, <1>2, <1>3 DEF Kept

\* A synchronous operation ends with what it returns.
LEMMA SyncDoneKeeps ==
    ASSUME IInv, NEW c \in Calls, NEW result \in {"ok", "err"}, SyncDone(c, result)
    PROVE  Kept(c)
<1>1. TypeOK'
    BY DEF IInv, TypeOK, SyncDone, reads, Returns
<1>2. Stage(c)'
    BY DEF IInv, TypeOK, Reads, Stage, Ended, SyncDone, reads, Returns
<1>3. \A d \in Calls \ {c} : Same(d)
    BY DEF SyncDone, reads, Returns, Same
<1>4. QED  BY <1>1, <1>2, <1>3 DEF Kept

\* The return of the routine leaves a posted operation as it is, wherever its callback is.
LEMMA ReturnPostedKeeps ==
    ASSUME IInv, NEW c \in Calls, ReturnPosted(c)
    PROVE  Kept(c)
<1>1. TypeOK'
    BY DEF IInv, TypeOK, ReturnPosted, reads, Returns
<1>2. Stage(c)'
    BY DEF IInv, TypeOK, Reads, Stage, Posted, Truth, ReturnPosted, reads, Returns, Kind
<1>3. \A d \in Calls \ {c} : Same(d)
    BY DEF ReturnPosted, reads, Returns, Same
<1>4. QED  BY <1>1, <1>2, <1>3 DEF Kept

\* The callback starts with a live record.
LEMMA CompletesKeeps ==
    ASSUME IInv, NEW c \in Calls, NEW result \in {"ok", "err"}, Completes(c, result)
    PROVE  Kept(c)
<1>1. TypeOK'
    BY DEF IInv, TypeOK, Completes, reads, routine
<1>2. Stage(c)'
    BY RequestParts
    DEF IInv, TypeOK, Reads, Stage, Quiet, Posted, Truth, Failed, Ended, Completes, reads,
        routine, Kind
<1>3. \A d \in Calls \ {c} : Same(d)
    BY DEF Completes, reads, routine, Same
<1>4. QED  BY <1>1, <1>2, <1>3 DEF Kept

\* What reading a call's record, or done alone, adds to what was read and used.
LEMMA ReadsKept ==
    ASSUME IInv, NEW c \in Calls, Posted(c), UNCHANGED <<req, filled>>,
           UsesDone(c) \/ (TakeFields(c) /\ Kind(c) \in {"call", "rndv"})
    PROVE  /\ loaded' \in [Calls -> SUBSET Fields] /\ used' \in [Calls -> SUBSET Fields]
           /\ Reads(c)'
           /\ \A d \in Calls \ {c} : loaded'[d] = loaded[d] /\ used'[d] = used[d]
<1>1. Reads(c) /\ filled[c] = Assigned(Kind(c)) /\ "cb" \in filled[c]
    BY DEF IInv, Stage, Posted, Assigned, Fields
<1>2. CASE UsesDone(c)
    BY <1>1, <1>2 DEF IInv, TypeOK, UsesDone, Reads, Fields
<1>3. CASE TakeFields(c) /\ Kind(c) \in {"call", "rndv"}
    <2>1. filled[c] = Fields \ {"client"} /\ {"reqAddr", "rsp"} \subseteq filled[c]
        BY <1>1, <1>3 DEF Assigned, Fields
    <2>2. /\ loaded' = [loaded EXCEPT ![c] = Fields]
          /\ used' = [used EXCEPT ![c] = {"reqAddr", "rsp"}]
        BY <1>3, <2>1 DEF TakeFields
    <2>3. QED  BY <2>1, <2>2 DEF IInv, TypeOK, Reads, Fields
<1>4. QED  BY <1>2, <1>3

\* The record is freed before done, but for one-sided operations.
LEMMA CallbackFuncKeeps ==
    ASSUME IInv, NEW c \in Calls, CallbackFunc(c)
    PROVE  Kept(c)
<1>1. Posted(c) /\ pc[c] \in {"return", "returned"} /\ Kind(c) \in Kinds \ {"reply"}
    BY RequestParts
    DEF IInv, TypeOK, Stage, Quiet, Failed, Ended, Posted, CallbackFunc, Kind
<1>2. CASE Kind(c) = "oneSide"
    <2>1. /\ cb' = [cb EXCEPT ![c] = "notify"]
          /\ UNCHANGED <<pc, req, ret, op, rec, filled, loaded, used, rsp, done, told>>
        BY <1>2 DEF CallbackFunc, routine, reads
    <2>2. TypeOK'
        BY <2>1 DEF IInv, TypeOK
    <2>3. Stage(c)'
        BY <1>1, <1>2, <2>1
        DEF IInv, TypeOK, Reads, Stage, Posted, Truth, Failed, Ended, Kind, CallbackFunc
    <2>4. \A d \in Calls \ {c} : Same(d)
        BY <2>1 DEF IInv, TypeOK, Same
    <2>5. QED  BY <2>2, <2>3, <2>4 DEF Kept
<1>3. CASE Kind(c) \in {"call", "rndv"}
    <2>1. /\ TakeFields(c)
          /\ UNCHANGED <<pc, req, ret, op, filled, rsp, done, told>>
        BY <1>3 DEF CallbackFunc, routine
    <2>2. /\ loaded' \in [Calls -> SUBSET Fields] /\ used' \in [Calls -> SUBSET Fields]
          /\ Reads(c)'
          /\ \A d \in Calls \ {c} : loaded'[d] = loaded[d] /\ used'[d] = used[d]
        BY <1>1, <1>3, <2>1, ReadsKept
    <2>3. TypeOK'
        BY <2>1, <2>2 DEF IInv, TypeOK, TakeFields
    <2>4. Stage(c)'
        BY <1>1, <1>3, <2>1, <2>2
        DEF IInv, TypeOK, Stage, Posted, Truth, Failed, Ended, Kind, CallbackFunc, TakeFields
    <2>5. \A d \in Calls \ {c} : Same(d)
        BY <2>1, <2>2 DEF IInv, TypeOK, TakeFields, Same
    <2>6. QED  BY <2>3, <2>4, <2>5 DEF Kept
<1>4. QED  BY <1>1, <1>2, <1>3 DEF Kinds

\* A callback without a result frees the record and ends.
LEMMA CallbackFuncLostKeeps ==
    ASSUME IInv, NEW c \in Calls, CallbackFuncLost(c)
    PROVE  Kept(c)
<1>1. TypeOK'
    BY DEF IInv, TypeOK, CallbackFuncLost, reads, routine
<1>2. Stage(c)'
    BY RequestParts
    DEF IInv, TypeOK, Reads, Stage, Quiet, Posted, Truth, Failed, Ended, CallbackFuncLost, reads,
        routine, Kind
<1>3. \A d \in Calls \ {c} : Same(d)
    BY DEF CallbackFuncLost, reads, routine, Same
<1>4. QED  BY <1>1, <1>2, <1>3 DEF Kept

\* Copying the response needs no record.
LEMMA CopyResponseKeeps ==
    ASSUME IInv, NEW c \in Calls, NEW how \in {"filled", "uncopied"}, CopyResponse(c, how)
    PROVE  Kept(c)
<1>1. TypeOK'
    BY DEF IInv, TypeOK, CopyResponse, reads, routine
<1>2. Stage(c)'
    BY RequestParts
    DEF IInv, Reads, Stage, Quiet, Posted, Truth, Failed, Ended, CopyResponse, reads, routine, Kind
<1>3. \A d \in Calls \ {c} : Same(d)
    BY DEF CopyResponse, reads, routine, Same
<1>4. QED  BY <1>1, <1>2, <1>3 DEF Kept

\* done is invoked for the first time.
LEMMA NotifyKeeps ==
    ASSUME IInv, NEW c \in Calls, Notify(c)
    PROVE  Kept(c)
<1>1. Posted(c) /\ pc[c] \in {"return", "returned"} /\ done[c] = 0 /\ op[c] \in {"ok", "err"}
    BY DEF IInv, TypeOK, Reads, Stage, Quiet, Failed, Ended, Posted, Notify
<1>2. /\ loaded' \in [Calls -> SUBSET Fields] /\ used' \in [Calls -> SUBSET Fields]
      /\ Reads(c)'
      /\ \A d \in Calls \ {c} : loaded'[d] = loaded[d] /\ used'[d] = used[d]
    BY <1>1, ReadsKept DEF Notify, routine
<1>3. TypeOK'
    <2>1. done' \in [Calls -> 0..1]
        BY <1>1 DEF IInv, TypeOK, Notify
    <2>2. cb' \in [Calls -> {"none", "result", "response", "notify", "free", "over", "lost"}]
        BY DEF IInv, TypeOK, Notify
    <2>3. told' \in [Calls -> {"none", "ok", "err"}]
        BY <1>1 DEF IInv, TypeOK, Notify
    <2>4. UNCHANGED <<pc, req, ret, op, rec, filled, rsp>>
        BY DEF Notify, routine
    <2>5. QED  BY <1>2, <2>1, <2>2, <2>3, <2>4 DEF IInv, TypeOK
<1>4. Stage(c)'
    BY <1>1, <1>2, RequestParts
    DEF IInv, TypeOK, Stage, Quiet, Posted, Truth, Failed, Ended, Notify, routine, Kind,
        Recorded
<1>5. \A d \in Calls \ {c} : Same(d)
    BY <1>2 DEF Notify, routine, Same
<1>6. QED  BY <1>3, <1>4, <1>5 DEF Kept

\* done is invoked for the first time, if there is one.
LEMMA ResponseCallBackKeeps ==
    ASSUME IInv, NEW c \in Calls, NEW result \in {"ok", "err"}, ResponseCallBack(c, result)
    PROVE  Kept(c)
<1>1. Posted(c) /\ pc[c] \in {"return", "returned"} /\ done[c] = 0 /\ op[c] \in {"ok", "err"}
    BY DEF IInv, TypeOK, Reads, Stage, Quiet, Failed, Ended, Posted, ResponseCallBack
<1>2. /\ loaded' \in [Calls -> SUBSET Fields] /\ used' \in [Calls -> SUBSET Fields]
      /\ Reads(c)'
      /\ \A d \in Calls \ {c} : loaded'[d] = loaded[d] /\ used'[d] = used[d]
    BY <1>1, ReadsKept DEF ResponseCallBack, routine
<1>3. TypeOK'
    <2>1. done' \in [Calls -> 0..1]
        BY <1>1 DEF IInv, TypeOK, ResponseCallBack
    <2>2. cb' \in [Calls -> {"none", "result", "response", "notify", "free", "over", "lost"}]
        BY DEF IInv, TypeOK, ResponseCallBack
    <2>3. told' \in [Calls -> {"none", "ok", "err"}]
        BY <1>1 DEF IInv, TypeOK, ResponseCallBack
    <2>4. UNCHANGED <<pc, req, ret, op, rec, filled, rsp>>
        BY DEF ResponseCallBack, routine
    <2>5. QED  BY <1>2, <2>1, <2>2, <2>3, <2>4 DEF IInv, TypeOK
<1>4. Stage(c)'
    BY <1>1, <1>2, RequestParts
    DEF IInv, TypeOK, Stage, Posted, Truth, Failed, Ended, ResponseCallBack, routine, Kind
<1>5. \A d \in Calls \ {c} : Same(d)
    BY <1>2 DEF ResponseCallBack, routine, Same
<1>6. QED  BY <1>3, <1>4, <1>5 DEF Kept

\* The callback ends by freeing the record.
LEMMA FreeRecordKeeps ==
    ASSUME IInv, NEW c \in Calls, FreeRecord(c)
    PROVE  Kept(c)
<1>1. TypeOK'
    BY DEF IInv, TypeOK, FreeRecord, reads, routine
<1>2. Stage(c)'
    BY RequestParts
    DEF IInv, TypeOK, Reads, Stage, Quiet, Posted, Truth, Failed, Ended, FreeRecord, reads,
        routine, Kind
<1>3. \A d \in Calls \ {c} : Same(d)
    BY DEF FreeRecord, reads, routine, Same
<1>4. QED  BY <1>1, <1>2, <1>3 DEF Kept

\* One step of a call, whichever it is.
CallStep(c) == \/ \E r \in Requests : Start(c, r) \/ Reject(c, r)
               \/ RoutineStep(c) \/ TransportStep(c)

\* Every step of an operation keeps its stage and leaves the others alone.
LEMMA StepKeeps ==
    ASSUME IInv, NEW c \in Calls, CallStep(c)
    PROVE  Kept(c)
<1>1. CASE \E r \in Requests : Start(c, r) \/ Reject(c, r)
    BY <1>1, StartKeeps, RejectKeeps
<1>2. CASE RoutineStep(c)
    BY <1>2, MakeRecordKeeps, MallocFailsKeeps, PostKeeps, PostFailsKeeps, ReturnPostedKeeps
    DEF RoutineStep
<1>3. CASE TransportStep(c)
    BY <1>3, SyncDoneKeeps, CompletesKeeps, ResponseCallBackKeeps, CallbackFuncKeeps,
       CallbackFuncLostKeeps, CopyResponseKeeps, NotifyKeeps, FreeRecordKeeps
    DEF TransportStep
<1>4. QED  BY <1>1, <1>2, <1>3 DEF CallStep
-----------------------------------------------------------------------------
\* Every operation is at one of the stages, whatever the other operations do.
THEOREM Invariance == Spec => []IInv
<1>1. Init => IInv
    BY DEF Init, IInv, TypeOK, Reads, Stage, Quiet
<1>2. IInv /\ [Next]_vars => IInv'
    <2> SUFFICES ASSUME IInv, [Next]_vars PROVE IInv'
        OBVIOUS
    <2>1. CASE Next
        <3>1. PICK c \in Calls : CallStep(c)
            BY <2>1 DEF Next, CallStep
        <3>2. Kept(c)
            BY <3>1, StepKeeps
        <3>3. ASSUME NEW d \in Calls \ {c} PROVE Stage(d)'
            BY <3>2, SameStage DEF Kept, IInv
        <3>4. QED  BY <3>2, <3>3 DEF Kept, IInv
    <2>2. CASE UNCHANGED vars
        <3>1. ASSUME NEW c \in Calls PROVE Stage(c)'
            BY <2>2, SameStage DEF vars, Same, IInv
        <3>2. TypeOK'
            BY <2>2 DEF vars, TypeOK, IInv
        <3>3. QED  BY <3>1, <3>2 DEF IInv
    <2>3. QED  BY <2>1, <2>2
<1>3. QED  BY <1>1, <1>2, PTL DEF Spec

\* All variables of the routines, the transport and the callbacks keep their types; done is
\* invoked at most once.
THEOREM TypeCorrect == Spec => []TypeOK
<1>1. IInv => TypeOK  BY DEF IInv
<1>2. QED  BY <1>1, Invariance, PTL

\* OckRpcCallbackFunc and ResponseCallBack find an allocated record, and act on no field that
\* the routine left unassigned; client, which no routine assigns, is all that they read of
\* such fields.
THEOREM RecordsReadable == Spec => []RecordReadable
<1>1. IInv => RecordReadable
    <2> SUFFICES ASSUME IInv, NEW c \in Calls PROVE RecordReadable!(c)
        BY DEF RecordReadable
    <2>1. Stage(c) /\ pc[c] \in {"idle", "record", "post", "wait", "return", "returned"}
        BY DEF IInv, TypeOK
    <2>2. QED  BY <2>1, RequestParts
    DEF Stage, Reads, Quiet, Failed, Ended, Posted, Kind, Kinds
<1>2. QED  BY <1>1, Invariance, PTL

\* No record survives its operation, whether it was posted, refused or lost its result.
THEOREM NoRecordLeaks == Spec => []RecordsFreed
<1>1. IInv => RecordsFreed
    <2> SUFFICES ASSUME IInv, NEW c \in Calls PROVE RecordsFreed!(c)
        BY DEF RecordsFreed
    <2>1. Stage(c) /\ pc[c] \in {"idle", "record", "post", "wait", "return", "returned"}
        BY DEF IInv, TypeOK
    <2>2. QED  BY <2>1, RequestParts DEF Over, Stage, Failed, Ended, Posted
<1>2. QED  BY <1>1, Invariance, PTL

\* After a routine has returned an error, or done has run, nobody uses the user's buffers.
THEOREM BuffersSafe == Spec => []BuffersKept
<1>1. IInv => BuffersKept
    <2> SUFFICES ASSUME IInv, NEW c \in Calls PROVE BuffersKept!(c)
        BY DEF BuffersKept
    <2>1. Stage(c) /\ pc[c] \in {"idle", "record", "post", "wait", "return", "returned"}
        BY DEF IInv, TypeOK
    <2>2. QED  BY <2>1, RequestParts
    DEF Uses, Released, Stage, Quiet, Failed, Ended, Posted, Recorded, Kind
<1>2. QED  BY <1>1, Invariance, PTL

\* The status that done is given, or a synchronous routine returns, is what the transport
\* reported, but for the replies whose result ResponseCallBack could not read.
THEOREM OnlyTruthTold == Spec => []ToldTruth
<1>1. IInv => ToldTruth
    <2> SUFFICES ASSUME IInv, NEW c \in Calls PROVE ToldTruth!(c)
        BY DEF ToldTruth
    <2>1. Stage(c) /\ pc[c] \in {"idle", "record", "post", "wait", "return", "returned"}
        BY DEF IInv, TypeOK
    <2>2. QED  BY <2>1, RequestParts DEF Stage, Quiet, Failed, Ended, Posted, Truth
<1>2. QED  BY <1>1, Invariance, PTL
-----------------------------------------------------------------------------
(***************************************************************************)
(* AsyncCall implements CallCompletion.                                    *)
(***************************************************************************)
\* The step of the contract that a step of c is.
Contract(c) == \/ \E m \in {"sync", "async"}, v \in {"none", "err"} : Completion!Invoke(c, m, v)
               \/ \E v \in {"ok", "err"} : Completion!Return(c, v)
               \/ Completion!Notify(c)
               \/ Mode' = Mode /\ ret' = ret /\ done' = done

\* An invocation, rejected at once or not.
LEMMA InvokeRefines ==
    ASSUME IInv, NEW c \in Calls, NEW r \in Requests, Start(c, r) \/ Reject(c, r)
    PROVE  Contract(c)
<1>1. Mode[c] = "none" /\ ret[c] = "none" /\ done' = done
    BY DEF IInv, Stage, Mode, Start, Reject
<1> DEFINE m == IF r.done THEN "async" ELSE "sync"
<1>2. /\ req' = [req EXCEPT ![c] = r] /\ pc'[c] # "idle"
      /\ \A d \in Calls \ {c} : pc'[d] = pc[d]
      /\ \E v \in {"none", "err"} : ret' = [ret EXCEPT ![c] = v]
    BY <1>1 DEF IInv, TypeOK, Start, Reject, Returns
<1>3. Mode' = [Mode EXCEPT ![c] = m]
    BY <1>2 DEF IInv, TypeOK, Mode
<1>4. PICK v \in {"none", "err"} : Completion!Invoke(c, m, v)
    BY <1>1, <1>2, <1>3 DEF Completion!Invoke
<1>5. m \in {"sync", "async"}
    OBVIOUS
<1>6. QED  BY <1>4, <1>5 DEF Contract

\* A step that neither returns nor notifies.
LEMMA InnerRefines ==
    ASSUME IInv, NEW c \in Calls, pc[c] # "idle", UNCHANGED <<req, ret, done>>,
           pc' = pc \/ \E l \in {"record", "post", "wait", "return"} : pc' = [pc EXCEPT ![c] = l]
    PROVE  Contract(c)
BY DEF IInv, TypeOK, Mode, Contract

\* A return.
LEMMA ReturnRefines ==
    ASSUME IInv, NEW c \in Calls, pc[c] \notin {"idle", "returned"}, UNCHANGED <<req, done>>,
           NEW v \in {"ok", "err"}, Returns(c, v), v = "err" => done[c] = 0
    PROVE  Contract(c)
<1>1. Mode[c] # "none" /\ Mode' = Mode /\ ret[c] = "none"
    BY DEF IInv, Stage, Mode, Returns
<1>2. Completion!Return(c, v)
    BY <1>1 DEF Completion!Return, Returns
<1>3. QED  BY <1>2 DEF Contract

\* done is invoked.
LEMMA NotifyRefines ==
    ASSUME IInv, NEW c \in Calls, Posted(c), pc[c] \in {"return", "returned"}, done[c] = 0,
           req[c].done, UNCHANGED routine, done' = [done EXCEPT ![c] = @ + 1]
    PROVE  Contract(c)
<1>1. Mode[c] = "async" /\ Mode' = Mode /\ ret' = ret /\ ret[c] # "err"
    BY DEF IInv, Stage, Mode, Posted, Failed, Quiet, Ended, routine
<1>2. done' = [done EXCEPT ![c] = 1]
    OBVIOUS
<1>3. Completion!Notify(c)
    BY <1>1, <1>2 DEF Completion!Notify
<1>4. QED  BY <1>3 DEF Contract

\* The steps of a routine after its invocation.
LEMMA RoutineRefines ==
    ASSUME IInv, NEW c \in Calls, RoutineStep(c)
    PROVE  Contract(c)
<1>1. CASE MakeRecord(c) \/ Post(c)
    BY <1>1, InnerRefines DEF MakeRecord, Post
<1>2. CASE MallocFails(c) \/ PostFails(c)
    <2>1. done[c] = 0
        BY <1>2 DEF IInv, Stage, Quiet, MallocFails, PostFails
    <2>2. QED  BY <1>2, <2>1, ReturnRefines DEF MallocFails, PostFails
<1>3. CASE ReturnPosted(c)
    BY <1>3, ReturnRefines DEF ReturnPosted
<1>4. QED  BY <1>1, <1>2, <1>3 DEF RoutineStep

\* The end of a synchronous operation, and the steps of the callbacks.
LEMMA TransportRefines ==
    ASSUME IInv, NEW c \in Calls, TransportStep(c)
    PROVE  Contract(c)
<1>1. CASE \E result \in {"ok", "err"} : SyncDone(c, result)
    <2>1. done[c] = 0
        BY <1>1 DEF IInv, Stage, SyncDone
    <2>2. QED  BY <1>1, <2>1, ReturnRefines DEF SyncDone
<1>2. cb[c] # "none" => Posted(c) /\ pc[c] \in {"return", "returned"}
    BY DEF IInv, TypeOK, Stage, Quiet, Failed, Ended
<1>3. op[c] = "flying" /\ Recorded(req[c]) => pc[c] # "idle"
    BY DEF IInv, Stage, Quiet
<1>4. CASE \/ CallbackFunc(c) \/ CallbackFuncLost(c) \/ FreeRecord(c)
           \/ \E result \in {"ok", "err"} : Completes(c, result)
           \/ \E how \in {"filled", "uncopied"} : CopyResponse(c, how)
    BY <1>2, <1>3, <1>4, InnerRefines
    DEF CallbackFunc, CallbackFuncLost, FreeRecord, Completes, CopyResponse, TakeFields, routine
<1>5. CASE Notify(c)
    <2>1. Posted(c) /\ pc[c] \in {"return", "returned"} /\ done[c] = 0 /\ req[c].done
        BY <1>2, <1>5, RequestParts DEF Posted, Recorded, Notify, Kind
    <2>2. QED  BY <1>5, <2>1, NotifyRefines DEF Notify
<1>6. CASE \E result \in {"ok", "err"} : ResponseCallBack(c, result)
    <2>1. Posted(c) /\ pc[c] \in {"return", "returned"} /\ done[c] = 0
        BY <1>2, <1>6 DEF Posted, ResponseCallBack
    <2>2. CASE req[c].done
        BY <1>6, <2>1, <2>2, NotifyRefines DEF ResponseCallBack
    <2>3. CASE ~req[c].done
        <3>1. done' = done
            BY <1>6, <2>3 DEF IInv, TypeOK, ResponseCallBack
        <3>2. QED  BY <1>6, <2>1, <3>1, InnerRefines DEF ResponseCallBack, routine
    <2>4. QED  BY <2>2, <2>3
<1>7. QED  BY <1>1, <1>4, <1>5, <1>6 DEF TransportStep

\* Every call, rendezvous call, reply and one-sided operation keeps the contract of
\* CallCompletion: done is invoked at most once, never after an error return, and never for
\* an operation without done.
THEOREM Implements == Spec => KeepsPromise
<1>1. Init => Completion!Init
    BY DEF Init, Completion!Init, Mode
<1>2. IInv /\ [Next]_vars => [Completion!Next]_(Completion!vars)
    <2> SUFFICES ASSUME IInv, [Next]_vars PROVE [Completion!Next]_(Completion!vars)
        OBVIOUS
    <2>1. CASE Next
        <3>1. PICK c \in Calls : CallStep(c)
            BY <2>1 DEF Next, CallStep
        <3>2. Contract(c)
            BY <3>1, InvokeRefines, RoutineRefines, TransportRefines DEF CallStep
        <3>3. QED  BY <3>2 DEF Contract, Completion!Next, Completion!vars
    <2>2. CASE UNCHANGED vars
        BY <2>2 DEF vars, Mode, Completion!vars
    <2>3. QED  BY <2>1, <2>2
<1>3. QED  BY <1>1, <1>2, Invariance, PTL DEF Spec, KeepsPromise, Completion!Safety
=============================================================================
